--------------------------- MODULE Instrumentation ---------------------------
(***************************************************************************)
(* What a tracer that patches a running program promises it: a visitor's   *)
(* wing with doors in the program's functions.  It is built once, before   *)
(* there is a door into it; doors open one at a time, no two of them to    *)
(* one handler; threads come in through open doors only; and the wing is   *)
(* torn down once, when every door is shut and, unless the session was cut *)
(* short, nobody is inside.                                                *)
(***************************************************************************)
CONSTANTS Doors,     \* the exports that may be patched
          Handlers,  \* where the doors may lead
          Threads,   \* the program's threads
          Shut       \* a door that leads nowhere

VARIABLES door,    \* the handler behind each door, or Shut
          wing,    \* "planned", "stands" or "gone"
          inside,  \* the threads inside
          cut      \* the session was cut short

instrumentationVars == <<door, wing, inside, cut>>

Init ==
  /\ door = [d \in Doors |-> Shut]
  /\ wing = "planned" /\ inside = {} /\ cut = FALSE

Build ==
  /\ wing = "planned" /\ wing' = "stands"
  /\ cut' \in BOOLEAN
  /\ UNCHANGED <<door, inside>>

Open(d, h) ==
  /\ wing = "stands" /\ ~cut
  /\ door[d] = Shut /\ \A e \in Doors : door[e] # h
  /\ door' = [door EXCEPT ![d] = h]
  /\ UNCHANGED <<wing, inside, cut>>

\* A function gets its own code back; a module takes all its functions along.
Close(D) ==
  /\ door' = [d \in Doors |-> IF d \in D THEN Shut ELSE door[d]]
  /\ UNCHANGED <<wing, inside, cut>>

Enter(t) ==
  /\ wing = "stands" /\ t \notin inside
  /\ \E d \in Doors : door[d] # Shut
  /\ inside' = inside \union {t}
  /\ UNCHANGED <<door, wing, cut>>

\* Threads return or die.
Leave(T) ==
  /\ inside' = inside \ T
  /\ UNCHANGED <<door, wing, cut>>

CutShort ==
  /\ cut' = TRUE
  /\ UNCHANGED <<door, wing, inside>>

Abandon ==
  /\ wing = "planned" /\ wing' = "gone"
  /\ UNCHANGED <<door, inside, cut>>

TearDown ==
  /\ wing = "stands" /\ wing' = "gone"
  /\ \A d \in Doors : door[d] = Shut
  /\ inside = {} \/ cut
  /\ UNCHANGED <<door, inside, cut>>

Next ==
  \/ Build \/ CutShort \/ Abandon \/ TearDown
  \/ \E d \in Doors, h \in Handlers : Open(d, h)
  \/ \E D \in SUBSET Doors : Close(D)
  \/ \E t \in Threads : Enter(t)
  \/ \E T \in SUBSET Threads : Leave(T)

Spec == Init /\ [][Next]_instrumentationVars
=============================================================================
