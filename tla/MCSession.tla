----------------------------- MODULE MCSession ------------------------------
\* BrowserSession for TLC: tabs, calls and accounts are interchangeable.
EXTENDS BrowserSession, TLC

SessionSymmetry == Permutations(Tabs) \cup Permutations(Calls) \cup Permutations(Users)
=============================================================================
