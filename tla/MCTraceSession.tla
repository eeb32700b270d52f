--------------------------- MODULE MCTraceSession ---------------------------
(* Small instances of TraceSession for TLC.                                *)
EXTENDS TraceSession, TLC

CONSTANTS p1, p2

CONSTANT MaxTotal  \* calls of both threads together

AllCalls == calls[p1] + calls[p2]

Symmetry == Permutations(Producers)

\* The session has ended and the target, if it runs on, makes no more calls.
Finished ==
  /\ controller = "stopped"
  /\ TargetRuns => \A p \in Producers : alive[p] => pc[p] = "idle" /\ (calls[p] = MaxCalls \/ AllCalls = MaxTotal)
  /\ UNCHANGED vars

MCNext == (Next /\ AllCalls' <= MaxTotal) \/ Finished
MCSpec == Init /\ [][MCNext]_vars
MCFairSpec == MCSpec /\ Fairness
=============================================================================
