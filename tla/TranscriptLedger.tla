-------------------------- MODULE TranscriptLedger --------------------------
(***************************************************************************)
(* What the service promises about transcripts, without queue, workers or  *)
(* statuses: a video that is stored may be asked to be transcribed, and    *)
(* its transcript is only ever the answer to one of those requests, can be *)
(* replaced but not taken away, and goes when the video goes.              *)
(***************************************************************************)
CONSTANTS Videos, Jobs, NoVideo, NoJob

VARIABLES
  stored,     \* "absent", "stored" or "removed", for each video
  requested,  \* the video each job was requested for, or NoVideo
  ledger      \* the job each video's transcript comes from, or NoJob

ledgerVars == <<stored, requested, ledger>>

Init ==
  /\ stored = [v \in Videos |-> "absent"]
  /\ requested = [j \in Jobs |-> NoVideo]
  /\ ledger = [v \in Videos |-> NoJob]

Store(v) ==
  /\ stored[v] = "absent"
  /\ stored' = [stored EXCEPT ![v] = "stored"]
  /\ UNCHANGED <<requested, ledger>>

Ask(j, v) ==
  /\ stored[v] = "stored"
  /\ requested[j] = NoVideo
  /\ requested' = [requested EXCEPT ![j] = v]
  /\ UNCHANGED <<stored, ledger>>

\* Requests are answered in any order and more than once: the latest answer stays.
Answer(j, v) ==
  /\ requested[j] = v
  /\ stored[v] = "stored"
  /\ ledger' = [ledger EXCEPT ![v] = j]
  /\ UNCHANGED <<stored, requested>>

Remove(v) ==
  /\ stored[v] = "stored"
  /\ stored' = [stored EXCEPT ![v] = "removed"]
  /\ ledger' = [ledger EXCEPT ![v] = NoJob]
  /\ UNCHANGED requested

Next ==
  \E v \in Videos : \/ Store(v)
                    \/ Remove(v)
                    \/ \E j \in Jobs : Ask(j, v) \/ Answer(j, v)

Spec == Init /\ [][Next]_ledgerVars
=============================================================================
