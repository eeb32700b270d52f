---------------------------- MODULE MCTraceRing ----------------------------
(* A small instance of TraceRing for TLC.                                  *)
EXTENDS TraceRing, TLC

CONSTANTS p1, p2

CONSTANT MaxTotal  \* calls of both threads together

AllCalls == calls[p1] + calls[p2]

\* Every call is over (or will never be) and everything readable was read;
\* any other state without a step is a deadlock for TLC to report.
RingDone ==
  /\ \A p \in Producers : alive[p] => pc[p] = "idle" /\ (calls[p] = MaxCalls \/ AllCalls = MaxTotal)
  /\ reader = "idle" /\ ~Readable
  /\ UNCHANGED ringVars

MCNext == (RingNext /\ AllCalls' <= MaxTotal) \/ RingDone
MCSpec == RingInit /\ [][MCNext]_ringVars /\ RingFairness
=============================================================================
