----------------------------- MODULE MCPipeline -----------------------------
(* Model values and symmetry for TLC. *)
EXTENDS PipelineLedger, TLC

\* Workers are interchangeable, and so are requests. Only runs without liveness use it.
ProcessSymmetry == Permutations(Workers) \cup Permutations(Requests)
=============================================================================
