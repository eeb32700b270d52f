----------------------------- MODULE TracePipe -----------------------------
(***************************************************************************)
(* What the trace ring promises to the hooks and to the controller: one    *)
(* bounded lossy pipe.  An event is accepted into the total order, or lost *)
(* because Bound events are still ahead of it; an accepted event becomes   *)
(* ready later and perhaps never (its thread may be terminated); the       *)
(* reader takes events one at a time, in the order of acceptance, and never*)
(* steps over one that is not ready.                                       *)
(***************************************************************************)
EXTENDS Naturals, Sequences

CONSTANTS Messages,    \* what can be sent
          Bound,       \* how many events the pipe holds
          LossModulus  \* the count of lost events wraps here

VARIABLES accepted,  \* every event accepted so far, in order
          ready,     \* the indices of accepted that may be taken
          taken,     \* what the reader has taken
          lost       \* how many events were lost

pipeVars == <<accepted, ready, taken, lost>>

Full == Len(accepted) - Len(taken) = Bound

Init ==
  /\ accepted = <<>>
  /\ ready = {}
  /\ taken = <<>>
  /\ lost = 0

\* An event joins the order; it is not ready yet.
Accept ==
  /\ ~Full
  /\ \E m \in Messages : accepted' = Append(accepted, m)
  /\ UNCHANGED <<ready, taken, lost>>

\* Events may become ready in any order.
MakeReady ==
  /\ \E i \in (1..Len(accepted)) \ ready : ready' = ready \union {i}
  /\ UNCHANGED <<accepted, taken, lost>>

\* The reader takes the next event of the order.
Take ==
  /\ Len(taken) + 1 \in ready
  /\ taken' = Append(taken, accepted[Len(taken) + 1])
  /\ UNCHANGED <<accepted, ready, lost>>

Lose ==
  /\ Full
  /\ lost' = (lost + 1) % LossModulus
  /\ UNCHANGED <<accepted, ready, taken>>

Next == Accept \/ MakeReady \/ Take \/ Lose

Spec == Init /\ [][Next]_pipeVars
=============================================================================
