-------------------------- MODULE TraceRingProofs --------------------------
(***************************************************************************)
(* Proofs about TraceRing, for any number of producers, any capacity of at *)
(* least two, any bound on the calls and any set of faults: the discipline *)
(* of the slots, the ledger of positions, the order of a thread's events,  *)
(* the counters, and that the ring is the pipe of TracePipe.               *)
(***************************************************************************)
EXTENDS TraceRing, FiniteSetTheorems, TLAPS

-----------------------------------------------------------------------------
(* Arithmetic of slots.                                                    *)

\* Division with remainder, as positions use it.
LEMMA Division ==
  ASSUME NEW i \in Nat
  PROVE  /\ i \div Capacity \in Nat
         /\ i % Capacity \in 0..(Capacity - 1)
         /\ i = Capacity * (i \div Capacity) + (i % Capacity)
  BY CapacityAssumption, SMT

\* Two multiples of Capacity are at least Capacity apart.
LEMMA MultiplesApart ==
  ASSUME NEW a \in Nat, NEW b \in Nat, a < b
  PROVE  Capacity * a + Capacity <= Capacity * b
<1>1. PICK d \in Nat : b = a + 1 + d
  <2>1. b - a - 1 \in Nat OBVIOUS
  <2>2. b = a + 1 + (b - a - 1) OBVIOUS
  <2> QED BY <2>1, <2>2
<1>2. Capacity * b = Capacity * a + Capacity + Capacity * d
  BY <1>1, CapacityAssumption, SMT
<1>3. Capacity * d \in Nat /\ Capacity * a \in Nat
  BY CapacityAssumption, <1>1, SMT
<1> QED BY <1>2, <1>3, CapacityAssumption, SMT

\* Every position has a slot of the ring.
LEMMA SlotInRing ==
  \A i \in Nat : Slot(i) \in Slots
  BY Division DEF Slot, Slots

\* Positions less than Capacity apart have different slots.
LEMMA SlotUnique ==
  ASSUME NEW i \in Nat, NEW j \in Nat, Slot(i) = Slot(j), i <= j, j < i + Capacity
  PROVE  i = j
<1>1. /\ i \div Capacity \in Nat /\ i % Capacity \in 0..(Capacity - 1)
      /\ i = Capacity * (i \div Capacity) + (i % Capacity)
  BY Division
<1>2. /\ j \div Capacity \in Nat /\ j % Capacity \in 0..(Capacity - 1)
      /\ j = Capacity * (j \div Capacity) + (j % Capacity)
  BY Division
<1>3. i % Capacity = j % Capacity BY DEF Slot
<1>4. Capacity * (i \div Capacity) \in Nat /\ Capacity * (j \div Capacity) \in Nat
  BY <1>1, <1>2, CapacityAssumption
<1>5. ~(i \div Capacity < j \div Capacity)
  <2> SUFFICES ASSUME i \div Capacity < j \div Capacity PROVE FALSE OBVIOUS
  <2>1. Capacity * (i \div Capacity) + Capacity <= Capacity * (j \div Capacity)
    BY MultiplesApart, <1>1, <1>2
  <2> QED BY <2>1, <1>1, <1>2, <1>3, <1>4, CapacityAssumption
<1>6. ~(j \div Capacity < i \div Capacity)
  <2> SUFFICES ASSUME j \div Capacity < i \div Capacity PROVE FALSE OBVIOUS
  <2>1. Capacity * (j \div Capacity) + Capacity <= Capacity * (i \div Capacity)
    BY MultiplesApart, <1>1, <1>2
  <2> QED BY <2>1, <1>1, <1>2, <1>3, <1>4, CapacityAssumption
<1> QED BY <1>1, <1>2, <1>3, <1>5, <1>6

\* Position i + Capacity reuses the slot of position i.
LEMMA SlotReused ==
  ASSUME NEW i \in Nat
  PROVE  Slot(i + Capacity) = Slot(i)
<1> DEFINE q == i \div Capacity
           r == i % Capacity
           q2 == (i + Capacity) \div Capacity
           r2 == (i + Capacity) % Capacity
<1>1. q \in Nat /\ r \in 0..(Capacity - 1) /\ i = Capacity * q + r
  BY Division
<1>2. i + Capacity \in Nat BY CapacityAssumption
<1>3. q2 \in Nat /\ r2 \in 0..(Capacity - 1) /\ i + Capacity = Capacity * q2 + r2
  BY <1>2, Division
<1>4. Slot(i + Capacity) = r2 /\ Slot(i) = r BY DEF Slot
<1> HIDE DEF q, r, q2, r2
<1>5. /\ Capacity * (q + 1) = Capacity * q + Capacity
      /\ Capacity * q \in Nat /\ Capacity * q2 \in Nat
  BY <1>1, <1>3, CapacityAssumption, SMT
<1>6. ~(q + 1 < q2)
  <2> SUFFICES ASSUME q + 1 < q2 PROVE FALSE OBVIOUS
  <2>1. Capacity * (q + 1) + Capacity <= Capacity * q2 BY MultiplesApart, <1>1, <1>3
  <2> QED BY <2>1, <1>1, <1>3, <1>5, CapacityAssumption
<1>7. ~(q2 < q + 1)
  <2> SUFFICES ASSUME q2 < q + 1 PROVE FALSE OBVIOUS
  <2>1. Capacity * q2 + Capacity <= Capacity * (q + 1) BY MultiplesApart, <1>1, <1>3
  <2> QED BY <2>1, <1>1, <1>3, <1>5, CapacityAssumption
<1>8. q2 = q + 1 BY <1>6, <1>7, <1>1, <1>3
<1> QED BY <1>1, <1>3, <1>4, <1>5, <1>8, CapacityAssumption

\* Any Capacity positions in a row use every slot.
LEMMA SlotCovered ==
  ASSUME NEW o \in Nat, NEW i \in Nat, i < o
  PROVE  \E j \in o..(o + Capacity - 1) : Slot(j) = Slot(i)
<1>1. i \div Capacity \in Nat /\ o \div Capacity \in Nat
      /\ i % Capacity \in 0..(Capacity - 1) /\ o % Capacity \in 0..(Capacity - 1)
      /\ i = Capacity * (i \div Capacity) + (i % Capacity)
      /\ o = Capacity * (o \div Capacity) + (o % Capacity)
  BY Division
<1> DEFINE a == Capacity * (o \div Capacity)
           r == i % Capacity
           j == IF a + r >= o THEN a + r ELSE a + r + Capacity
<1>2. a \in Nat /\ r \in Nat /\ a + r \in Nat BY <1>1, CapacityAssumption
<1>3. Slot(a + r) = r
  <2>1. a + r = Capacity * ((a + r) \div Capacity) + ((a + r) % Capacity)
        /\ (a + r) \div Capacity \in Nat /\ (a + r) % Capacity \in 0..(Capacity - 1)
    BY <1>2, Division
  <2> DEFINE x == (a + r) \div Capacity
             y == (a + r) % Capacity
             b == o \div Capacity
  <2>2. Capacity * b + r = Capacity * x + y BY <2>1
  <2>3. b \in Nat /\ x \in Nat /\ r \in 0..(Capacity - 1) /\ y \in 0..(Capacity - 1)
    BY <1>1, <2>1
  <2> SUFFICES y = r BY DEF Slot
  <2> HIDE DEF a, r, x, y, b
  <2>4. Capacity * b \in Nat /\ Capacity * x \in Nat BY <2>3, CapacityAssumption
  <2>5. ~(b < x)
    <3> SUFFICES ASSUME b < x PROVE FALSE OBVIOUS
    <3>1. Capacity * b + Capacity <= Capacity * x BY MultiplesApart, <2>3
    <3> QED BY <3>1, <2>2, <2>3, <2>4, CapacityAssumption
  <2>6. ~(x < b)
    <3> SUFFICES ASSUME x < b PROVE FALSE OBVIOUS
    <3>1. Capacity * x + Capacity <= Capacity * b BY MultiplesApart, <2>3
    <3> QED BY <3>1, <2>2, <2>3, <2>4, CapacityAssumption
  <2> QED BY <2>2, <2>3, <2>4, <2>5, <2>6
<1>4. Slot(i) = r BY DEF Slot
<1>5. j \in o..(o + Capacity - 1) BY <1>1, <1>2, CapacityAssumption
<1>6. Slot(j) = r BY <1>2, <1>3, SlotReused
<1> QED BY <1>4, <1>5, <1>6

\* eventSequence and droppedEvents stay 32-bit counters.
LEMMA IncrementInRange ==
  \A c \in 0..(CounterModulus - 1) : Increment(c) \in 0..(CounterModulus - 1)
  BY CounterAssumption, SMT DEF Increment

-----------------------------------------------------------------------------
(* Type correctness.                                                       *)

LEMMA TypeInit == RingInit => TypeOK
<1> SUFFICES ASSUME RingInit PROVE TypeOK OBVIOUS
<1>1. slotSequence \in [Slots -> Nat] BY CapacityAssumption DEF RingInit, Slots
<1>2. 0 \in 0..(CounterModulus - 1) BY CounterAssumption
<1>3. alive \in [Producers -> BOOLEAN] /\ wakePending \in BOOLEAN /\ wakeEvent \in BOOLEAN
  BY Zenon DEF RingInit
<1>4. delivered \in Seq(Events \union {Empty, Torn}) BY DEF RingInit
<1>5. /\ slotEvent \in [Slots -> Events \union {Empty, Torn}]
      /\ pc \in [Producers -> ProducerStates]
      /\ position \in [Producers -> Nat] /\ calls \in [Producers -> Nat]
      /\ event \in [Producers -> Events \union {Empty}]
  BY DEF RingInit, ProducerStates
<1> QED BY <1>1, <1>2, <1>3, <1>4, <1>5 DEF RingInit, TypeOK, ReaderStates

LocalsTyped == /\ pc \in [Producers -> ProducerStates]
               /\ position \in [Producers -> Nat]
               /\ event \in [Producers -> Events \union {Empty}]

LEMMA ReturnTyped ==
  ASSUME LocalsTyped, NEW p \in Producers, Return(p)
  PROVE  LocalsTyped'
<1>1. pc' \in [Producers -> ProducerStates]
  BY DEF LocalsTyped, Return, Goto, ProducerStates
<1>2. position' \in [Producers -> Nat] BY DEF LocalsTyped, Return
<1>3. event' \in [Producers -> Events \union {Empty}] BY DEF LocalsTyped, Return
<1> QED BY <1>1, <1>2, <1>3 DEF LocalsTyped

LEMMA GotoTyped ==
  ASSUME LocalsTyped, NEW p \in Producers, NEW l \in ProducerStates, Goto(p, l),
         UNCHANGED <<position, event>>
  PROVE  LocalsTyped'
  BY DEF LocalsTyped, Goto

LEMMA TypeStep == TypeOK /\ [RingNext]_ringVars => TypeOK'
<1> SUFFICES ASSUME TypeOK, [RingNext]_ringVars PROVE TypeOK' OBVIOUS
<1> USE DEF TypeOK, producerVars, wakeVars, readerVars, slotVars, counterVars, At, Goto
<1>0. LocalsTyped BY DEF LocalsTyped
<1>1. ASSUME NEW p \in Producers, Begin(p) PROVE TypeOK'
  <2>1. calls[p] \in Nat /\ calls[p] < MaxCalls BY <1>1 DEF Begin
  <2>2. calls[p] + 1 \in 1..MaxCalls BY <2>1, BoundAssumption
  <2>3. [thread |-> p, call |-> calls[p] + 1] \in Events BY <2>2 DEF Events
  <2>4. eventSequence' \in 0..(CounterModulus - 1) BY <1>1, IncrementInRange DEF Begin
  <2>5. event' \in [Producers -> Events \union {Empty}] BY <1>1, <2>3 DEF Begin
  <2> QED BY <1>1, <2>1, <2>4, <2>5 DEF Begin, ProducerStates
<1>2. ASSUME NEW p \in Producers, LoadPosition(p) PROVE TypeOK'
  BY <1>2 DEF LoadPosition, ProducerStates
<1>3. ASSUME NEW p \in Producers, Inspect(p) PROVE TypeOK'
  BY <1>3 DEF Inspect, ProducerStates
<1>4. ASSUME NEW p \in Producers, Drop(p) PROVE TypeOK'
  <2>1. droppedEvents' \in 0..(CounterModulus - 1) BY <1>4, IncrementInRange DEF Drop
  <2> QED BY <1>4, <2>1 DEF Drop, Return, ProducerStates
<1>5. ASSUME NEW p \in Producers, Claim(p) PROVE TypeOK'
  <2>1. enqueuePosition' \in Nat BY <1>5 DEF Claim
  <2>2. pc' \in [Producers -> ProducerStates] BY <1>5 DEF Claim, ProducerStates
  <2> QED BY <1>5, <2>1, <2>2 DEF Claim
<1>6. ASSUME NEW p \in Producers, BeginCopy(p) PROVE TypeOK'
  <2>1. Slot(position[p]) \in Slots BY SlotInRing
  <2> QED BY <1>6, <2>1 DEF BeginCopy, ProducerStates
<1>7. ASSUME NEW p \in Producers, FinishCopy(p) PROVE TypeOK'
  <2>1. slotEvent' \in [Slots -> Events \union {Empty, Torn}] BY <1>7 DEF FinishCopy
  <2> QED BY <1>7, <2>1 DEF FinishCopy, ProducerStates
<1>8. ASSUME NEW p \in Producers, Publish(p) PROVE TypeOK'
  <2>1. slotSequence' \in [Slots -> Nat]
    <3>1. position[p] + 1 \in Nat OBVIOUS
    <3>2. slotSequence' = [slotSequence EXCEPT ![Slot(position[p])] = position[p] + 1]
      BY <1>8 DEF Publish
    <3>3. slotSequence \in [Slots -> Nat] OBVIOUS
    <3> HIDE DEF TypeOK
    <3> QED BY <3>1, <3>2, <3>3
  <2>2. pc' \in [Producers -> ProducerStates] BY <1>8 DEF Publish, ProducerStates
  <2> QED BY <1>8, <2>1, <2>2 DEF Publish
<1>9. ASSUME NEW p \in Producers, TakeWake(p) PROVE TypeOK'
  <2>1. wakePending' \in BOOLEAN BY <1>9, Zenon DEF TakeWake
  <2>2. CASE Return(p)
    BY <1>9, <2>1, <2>2, <1>0, ReturnTyped DEF TakeWake, LocalsTyped
  <2>3. CASE Goto(p, "signal") /\ UNCHANGED <<position, event>>
    <3>1. "signal" \in ProducerStates BY DEF ProducerStates
    <3> QED BY <1>9, <2>1, <2>3, <3>1, <1>0, GotoTyped DEF TakeWake, LocalsTyped
  <2> QED BY <1>9, <2>2, <2>3 DEF TakeWake
<1>10. ASSUME NEW p \in Producers, Signal(p) PROVE TypeOK'
  <2>1. wakeEvent' \in BOOLEAN BY <1>10, Zenon DEF Signal
  <2>2. CASE Return(p)
    BY <1>10, <2>1, <2>2, <1>0, ReturnTyped DEF Signal, LocalsTyped
  <2>3. CASE Goto(p, "unsignal") /\ UNCHANGED <<position, event>>
    <3>1. "unsignal" \in ProducerStates BY DEF ProducerStates
    <3> QED BY <1>10, <2>1, <2>3, <3>1, <1>0, GotoTyped DEF Signal, LocalsTyped
  <2> QED BY <1>10, <2>2, <2>3 DEF Signal
<1>11. ASSUME NEW p \in Producers, Unsignal(p) PROVE TypeOK'
  BY <1>11 DEF Unsignal, Return, ProducerStates
<1>12. ASSUME NEW p \in Producers, Kill(p) PROVE TypeOK'
  BY <1>12 DEF Kill
<1>13. CASE ReadBegin
  BY <1>13 DEF ReadBegin, ReaderStates
<1>14. CASE CopyOut
  <2>1. slotEvent[Slot(dequeuePosition)] \in Events \union {Empty, Torn} BY SlotInRing
  <2> QED BY <1>14, <2>1 DEF CopyOut, ReaderStates
<1>15. CASE ReleaseSlot
  <2>1. delivered' \in Seq(Events \union {Empty, Torn}) BY <1>15 DEF ReleaseSlot
  <2>2. dequeuePosition + Capacity \in Nat BY CapacityAssumption
  <2> QED BY <1>15, <2>1, <2>2 DEF ReleaseSlot, ReaderStates
<1>16. CASE AdvanceDequeue
  BY <1>16 DEF AdvanceDequeue, ReaderStates
<1>17. CASE ClearWakePending
  BY <1>17 DEF ClearWakePending
<1>18. CASE ConsumeWake
  BY <1>18 DEF ConsumeWake
<1>19. CASE UNCHANGED ringVars
  BY <1>19 DEF ringVars
<1> QED
  BY <1>1, <1>2, <1>3, <1>4, <1>5, <1>6, <1>7, <1>8, <1>9, <1>10, <1>11, <1>12,
     <1>13, <1>14, <1>15, <1>16, <1>17, <1>18, <1>19
  DEF RingNext, Producer, Emit, RingReader, TryRead

\* Every field of the ring, every local of EmitTraceEvent and of TryReadRing
\* stays in its type; in particular the two LONG counters wrap.
THEOREM TypeCorrect == RingSpec => []TypeOK
<1>1. QED BY TypeInit, TypeStep, PTL DEF RingSpec

-----------------------------------------------------------------------------
(* The discipline of slot sequence numbers.                                *)

\* Facts about the window of positions that every step uses.
LEMMA OldestTyped == TypeOK => Oldest \in Nat
  BY DEF TypeOK, Oldest

\* Two positions of the window, or of any Capacity positions in a row, that
\* share a slot are the same position.
LEMMA WindowUnique ==
  ASSUME NEW o \in Nat, NEW i \in o..(o + Capacity - 1), NEW j \in o..(o + Capacity - 1),
         Slot(i) = Slot(j)
  PROVE  i = j
<1>1. i \in Nat /\ j \in Nat BY CapacityAssumption
<1>2. CASE i <= j
  <2>1. j < i + Capacity BY <1>1, CapacityAssumption
  <2> QED BY <1>1, <1>2, <2>1, SlotUnique
<1>3. CASE j <= i
  <2>1. i < j + Capacity BY <1>1, CapacityAssumption
  <2> QED BY <1>1, <1>3, <2>1, SlotUnique
<1> QED BY <1>1, <1>2, <1>3

\* A producer that is about to claim the next position finds the ring not
\* full: the slot's sequence number cannot be that of a full ring's.
LEMMA ClaimFindsRoom ==
  ASSUME TypeOK, PositionsInWindow,
         slotSequence[Slot(enqueuePosition)] = enqueuePosition
  PROVE  enqueuePosition < Oldest + Capacity
<1>1. Oldest \in Nat /\ enqueuePosition \in Nat BY OldestTyped DEF TypeOK
<1> SUFFICES ASSUME enqueuePosition = Oldest + Capacity PROVE FALSE
  BY <1>1, CapacityAssumption DEF PositionsInWindow
<1>2. Slot(enqueuePosition) = Slot(Oldest) BY <1>1, SlotReused
<1>3. slotSequence[Slot(Oldest)] \in {Oldest, Oldest + 1}
  BY <1>1, CapacityAssumption DEF PositionsInWindow
<1> QED BY <1>1, <1>2, <1>3, CapacityAssumption

\* The reader only copies from a position that was claimed.
LEMMA ReaderInWindow ==
  ASSUME TypeOK, PositionsInWindow, reader # "released",
         slotSequence[Slot(dequeuePosition)] = dequeuePosition + 1
  PROVE  dequeuePosition = Oldest /\ dequeuePosition < enqueuePosition
<1>1. Oldest = dequeuePosition BY DEF Oldest
<1>2. dequeuePosition \in Nat /\ enqueuePosition \in Nat BY DEF TypeOK
<1> SUFFICES ASSUME dequeuePosition = enqueuePosition PROVE FALSE
  BY <1>1, <1>2 DEF PositionsInWindow
<1>3. slotSequence[Slot(enqueuePosition)] = enqueuePosition
  BY <1>1, <1>2, CapacityAssumption DEF PositionsInWindow
<1> QED BY <1>2, <1>3

LEMMA DisciplineInit == RingInit => SlotDiscipline
<1> SUFFICES ASSUME RingInit PROVE SlotDiscipline OBVIOUS
<1>1. Oldest = 0 BY DEF RingInit, Oldest
<1>2. PositionsInWindow
  <2>1. ASSUME NEW i \in 0..(Capacity - 1) PROVE slotSequence[Slot(i)] = i
    <3>1. i \in Nat /\ Slot(i) \in Slots BY SlotInRing, CapacityAssumption
    <3>2. slotSequence[Slot(i)] = Slot(i) BY <3>1 DEF RingInit
    <3>3. Slot(i) = i BY CapacityAssumption DEF Slot
    <3> QED BY <3>2, <3>3
  <2> QED BY <1>1, <2>1, CapacityAssumption DEF RingInit, PositionsInWindow
<1>3. ClaimsDisjoint BY DEF RingInit, ClaimsDisjoint, Claims
<1>4. StalePositions BY DEF RingInit, StalePositions
<1>5. ReaderOnPublished BY DEF RingInit, ReaderOnPublished
<1>6. ContentsWhole BY <1>1 DEF RingInit, ContentsWhole, WholeEvents
<1> QED BY <1>2, <1>3, <1>4, <1>5, <1>6 DEF SlotDiscipline

\* The steps of EmitTraceEvent that write neither a position nor a slot.
LEMMA DisciplineQuietStep ==
  ASSUME TypeOK, SlotDiscipline, NEW p \in Producers,
         LoadPosition(p) \/ Inspect(p) \/ Drop(p) \/ TakeWake(p) \/ Signal(p)
           \/ Unsignal(p) \/ Kill(p)
  PROVE  SlotDiscipline'
<1> USE DEF producerVars, wakeVars, readerVars, slotVars, counterVars, At, Goto, Return
<1>1. UNCHANGED <<enqueuePosition, slotSequence, slotEvent, reader, readerEvent,
                  dequeuePosition, delivered>>
  BY DEF LoadPosition, Inspect, Drop, TakeWake, Signal, Unsignal, Kill
<1>2. Oldest' = Oldest BY <1>1 DEF Oldest
<1>3. ASSUME NEW r \in Producers
      PROVE  /\ Claims(r)' => Claims(r) /\ position'[r] = position[r]
             /\ pc'[r] # "idle" => pc[r] # "idle" /\ event'[r] = event[r]
             /\ pc'[r] = "publish" => pc[r] = "publish" /\ position'[r] = position[r]
  BY DEF LoadPosition, Inspect, Drop, TakeWake, Signal, Unsignal, Kill, Claims, TypeOK
<1>4. PositionsInWindow' BY <1>1, <1>2 DEF PositionsInWindow, SlotDiscipline
<1>5. ClaimsDisjoint' BY <1>1, <1>2, <1>3 DEF ClaimsDisjoint, SlotDiscipline
<1>6. StalePositions'
  <2> SUFFICES ASSUME NEW r \in Producers, pc'[r] \in {"inspect", "cas"}
               PROVE  /\ position'[r] <= enqueuePosition
                      /\ pc'[r] = "cas" /\ position'[r] = enqueuePosition =>
                           slotSequence[Slot(enqueuePosition)] = enqueuePosition
    BY <1>1 DEF StalePositions
  <2>1. CASE pc[r] = pc'[r] /\ position'[r] = position[r]
    BY <2>1 DEF StalePositions, SlotDiscipline
  <2>2. CASE r = p /\ LoadPosition(p)
    BY <2>2 DEF LoadPosition, TypeOK
  <2>3. CASE r = p /\ Inspect(p)
    <3>1. pc[p] = "inspect" /\ position'[p] = position[p] BY <2>3 DEF Inspect
    <3>2. pc'[p] = "cas" /\ Difference(p) = 0 BY <2>3, TypeOK DEF Inspect, TypeOK
    <3>3. position[p] \in Nat /\ Slot(position[p]) \in Slots BY SlotInRing DEF TypeOK
    <3>4. slotSequence[Slot(position[p])] = position[p]
      BY <3>2, <3>3 DEF Difference, TypeOK
    <3> QED BY <2>3, <3>1, <3>4 DEF StalePositions, SlotDiscipline
  <2> QED
    BY <2>1, <2>2, <2>3 DEF Drop, Inspect, LoadPosition, TakeWake, Signal, Unsignal, Kill, TypeOK
<1>7. ReaderOnPublished' BY <1>1 DEF ReaderOnPublished, SlotDiscipline
<1>8. ContentsWhole'
  BY <1>1, <1>2, <1>3 DEF ContentsWhole, WholeEvents, SlotDiscipline
<1> QED BY <1>4, <1>5, <1>6, <1>7, <1>8 DEF SlotDiscipline

LEMMA DisciplineBegin ==
  ASSUME TypeOK, SlotDiscipline, NEW p \in Producers, Begin(p)
  PROVE  SlotDiscipline'
<1> USE DEF producerVars, wakeVars, readerVars, slotVars, counterVars, At, Goto
<1>1. UNCHANGED <<enqueuePosition, slotSequence, slotEvent, reader, readerEvent,
                  dequeuePosition, delivered, position>>
  BY DEF Begin
<1>2. Oldest' = Oldest BY <1>1 DEF Oldest
<1>3. ASSUME NEW r \in Producers
      PROVE  /\ Claims(r)' => Claims(r)
             /\ pc'[r] \in {"inspect", "cas", "publish"} => pc'[r] = pc[r]
  BY DEF Begin, Claims, TypeOK
<1>4. ASSUME NEW r \in Producers, pc'[r] # "idle" PROVE event'[r] \in Events
  <2>1. calls[p] + 1 \in 1..MaxCalls BY BoundAssumption DEF Begin, TypeOK
  <2>2. [thread |-> p, call |-> calls[p] + 1] \in Events BY <2>1 DEF Events
  <2>3. event'[r] = IF r = p THEN [thread |-> p, call |-> calls[p] + 1] ELSE event[r]
    BY DEF Begin, TypeOK
  <2>4. r # p => pc'[r] = pc[r] BY DEF Begin, TypeOK
  <2> QED BY <1>4, <2>2, <2>3, <2>4 DEF SlotDiscipline, ContentsWhole
<1>5. PositionsInWindow' BY <1>1, <1>2 DEF PositionsInWindow, SlotDiscipline
<1>6. ClaimsDisjoint' BY <1>1, <1>2, <1>3 DEF ClaimsDisjoint, SlotDiscipline
<1>7. StalePositions' BY <1>1, <1>3 DEF StalePositions, SlotDiscipline
<1>8. ReaderOnPublished' BY <1>1 DEF ReaderOnPublished, SlotDiscipline
<1>9. ContentsWhole'
  BY <1>1, <1>2, <1>3, <1>4 DEF ContentsWhole, WholeEvents, SlotDiscipline
<1> QED BY <1>5, <1>6, <1>7, <1>8, <1>9 DEF SlotDiscipline

LEMMA DisciplineClaim ==
  ASSUME TypeOK, SlotDiscipline, NEW p \in Producers, Claim(p)
  PROVE  SlotDiscipline'
<1> USE DEF producerVars, wakeVars, readerVars, slotVars, counterVars, At, Goto
<1>1. UNCHANGED <<slotSequence, slotEvent, reader, readerEvent,
                  dequeuePosition, delivered, position, event>>
  BY DEF Claim
<1>2. Oldest' = Oldest /\ Oldest \in Nat /\ enqueuePosition \in Nat
  BY <1>1, OldestTyped DEF Oldest, TypeOK
<1>3. CASE enqueuePosition # position[p]
  <2>1. enqueuePosition' = enqueuePosition BY <1>3 DEF Claim
  <2>2. ASSUME NEW r \in Producers
        PROVE  /\ Claims(r)' => Claims(r)
               /\ pc'[r] \in {"inspect", "cas", "publish"} => pc'[r] = pc[r]
               /\ pc'[r] # "idle" => pc[r] # "idle"
    BY <1>3 DEF Claim, Claims, TypeOK
  <2>3. PositionsInWindow' BY <1>1, <1>2, <2>1 DEF PositionsInWindow, SlotDiscipline
  <2>4. ClaimsDisjoint' BY <1>1, <1>2, <2>1, <2>2 DEF ClaimsDisjoint, SlotDiscipline
  <2>5. StalePositions' BY <1>1, <2>1, <2>2 DEF StalePositions, SlotDiscipline
  <2>6. ReaderOnPublished' BY <1>1 DEF ReaderOnPublished, SlotDiscipline
  <2>7. ContentsWhole'
    BY <1>1, <1>2, <2>1, <2>2 DEF ContentsWhole, WholeEvents, SlotDiscipline
  <2> QED BY <2>3, <2>4, <2>5, <2>6, <2>7 DEF SlotDiscipline
<1>4. CASE enqueuePosition = position[p]
  <2>1. enqueuePosition' = enqueuePosition + 1 /\ pc[p] = "cas" /\ pc'[p] = "copy"
    BY <1>4 DEF Claim, TypeOK
  <2>2. slotSequence[Slot(enqueuePosition)] = enqueuePosition
    BY <1>4, <2>1 DEF SlotDiscipline, StalePositions
  <2>3. Oldest <= enqueuePosition /\ enqueuePosition < Oldest + Capacity
    BY <1>2, <2>2, ClaimFindsRoom DEF SlotDiscipline, PositionsInWindow
  <2>4. ASSUME NEW r \in Producers
        PROVE  /\ Claims(r)' => Claims(r) \/ r = p
               /\ pc'[r] \in {"inspect", "cas", "publish"} => pc'[r] = pc[r]
               /\ pc'[r] # "idle" => pc[r] # "idle"
               /\ position[r] \in Nat
    BY <2>1 DEF Claim, Claims, TypeOK
  <2>5. PositionsInWindow'
    BY <1>1, <1>2, <2>1, <2>2, <2>3, CapacityAssumption DEF PositionsInWindow, SlotDiscipline
  <2>6. ClaimsDisjoint'
    BY <1>1, <1>2, <1>4, <2>1, <2>2, <2>3, <2>4 DEF ClaimsDisjoint, SlotDiscipline
  <2>7. StalePositions'
    BY <1>1, <1>2, <2>1, <2>4 DEF StalePositions, SlotDiscipline
  <2>8. ReaderOnPublished' BY <1>1 DEF ReaderOnPublished, SlotDiscipline
  <2>9. ContentsWhole'
    BY <1>1, <1>2, <2>1, <2>2, <2>4 DEF ContentsWhole, WholeEvents, SlotDiscipline
  <2> QED BY <2>5, <2>6, <2>7, <2>8, <2>9 DEF SlotDiscipline
<1> QED BY <1>3, <1>4

\* Copying into the claimed slot disturbs no other position of the window.
LEMMA DisciplineCopy ==
  ASSUME TypeOK, SlotDiscipline, NEW p \in Producers, BeginCopy(p) \/ FinishCopy(p)
  PROVE  SlotDiscipline'
<1> USE DEF producerVars, wakeVars, readerVars, slotVars, counterVars, At, Goto
<1>1. UNCHANGED <<enqueuePosition, slotSequence, reader, readerEvent,
                  dequeuePosition, delivered, position, event>>
  BY DEF BeginCopy, FinishCopy
<1>2. Oldest' = Oldest /\ Oldest \in Nat /\ enqueuePosition \in Nat
  BY <1>1, OldestTyped DEF Oldest, TypeOK
<1>3. ASSUME NEW r \in Producers
      PROVE  /\ Claims(r)' => Claims(r)
             /\ pc'[r] \in {"inspect", "cas"} => pc'[r] = pc[r]
             /\ pc'[r] = "publish" => Claims(r) /\ (pc[r] = "publish" \/ (r = p /\ FinishCopy(p)))
             /\ pc'[r] # "idle" => pc[r] # "idle"
  BY DEF BeginCopy, FinishCopy, Claims, TypeOK
<1>4. Claims(p) /\ position[p] \in Nat /\ Slot(position[p]) \in Slots
  BY SlotInRing DEF BeginCopy, FinishCopy, Claims, TypeOK
<1>5. /\ position[p] \in Oldest..(enqueuePosition - 1)
      /\ slotSequence[Slot(position[p])] = position[p]
  BY <1>4 DEF SlotDiscipline, ClaimsDisjoint
<1>6. ASSUME NEW i \in Oldest..(enqueuePosition - 1), i # position[p]
      PROVE  slotEvent'[Slot(i)] = slotEvent[Slot(i)]
  <2>1. i \in Oldest..(Oldest + Capacity - 1) /\ position[p] \in Oldest..(Oldest + Capacity - 1)
    BY <1>2, <1>5, CapacityAssumption DEF SlotDiscipline, PositionsInWindow
  <2>2. Slot(i) # Slot(position[p]) BY <1>2, <1>6, <2>1, WindowUnique
  <2>3. Slot(i) \in Slots BY <1>2, SlotInRing
  <2> QED BY <2>2, <2>3 DEF BeginCopy, FinishCopy, TypeOK
<1>7. FinishCopy(p) => slotEvent'[Slot(position[p])] \in Events
  BY <1>4 DEF FinishCopy, TypeOK, SlotDiscipline, ContentsWhole
<1>8. PositionsInWindow' BY <1>1, <1>2 DEF PositionsInWindow, SlotDiscipline
<1>9. ClaimsDisjoint' BY <1>1, <1>2, <1>3 DEF ClaimsDisjoint, SlotDiscipline
<1>10. StalePositions' BY <1>1, <1>3 DEF StalePositions, SlotDiscipline
<1>11. ReaderOnPublished' BY <1>1 DEF ReaderOnPublished, SlotDiscipline
<1>12. ContentsWhole'
  <2>1. ASSUME NEW r \in Producers, pc'[r] = "publish"
        PROVE  slotEvent'[Slot(position[r])] \in Events
    <3>1. CASE r = p /\ FinishCopy(p) BY <3>1, <1>7
    <3>2. CASE pc[r] = "publish"
      <4>1. r # p BY <3>2 DEF BeginCopy, FinishCopy
      <4>2. /\ position[r] \in Oldest..(enqueuePosition - 1)
            /\ position[r] # position[p]
        BY <3>2, <4>1, <1>4 DEF SlotDiscipline, ClaimsDisjoint, Claims
      <4> QED BY <3>2, <4>2, <1>6 DEF SlotDiscipline, ContentsWhole
    <3> QED BY <2>1, <3>1, <3>2, <1>3
  <2>2. ASSUME NEW i \in Oldest..(enqueuePosition - 1), slotSequence[Slot(i)] = i + 1
        PROVE  slotEvent'[Slot(i)] \in Events
    <3>1. i # position[p] BY <2>2, <1>2, <1>4, <1>5
    <3> QED BY <2>2, <3>1, <1>6 DEF SlotDiscipline, ContentsWhole
  <2> QED
    BY <1>1, <1>2, <1>3, <2>1, <2>2 DEF ContentsWhole, WholeEvents, SlotDiscipline
<1> QED BY <1>8, <1>9, <1>10, <1>11, <1>12 DEF SlotDiscipline

LEMMA DisciplinePublish ==
  ASSUME TypeOK, SlotDiscipline, NEW p \in Producers, Publish(p)
  PROVE  SlotDiscipline'
<1> USE DEF producerVars, wakeVars, readerVars, slotVars, counterVars, At, Goto
<1> DEFINE q == position[p]
<1>1. UNCHANGED <<enqueuePosition, slotEvent, reader, readerEvent,
                  dequeuePosition, delivered, position, event>>
  BY DEF Publish
<1>2. Oldest' = Oldest /\ Oldest \in Nat /\ enqueuePosition \in Nat
  BY <1>1, OldestTyped DEF Oldest, TypeOK
<1>3. Claims(p) /\ pc[p] = "publish" /\ q \in Nat /\ Slot(q) \in Slots
  BY SlotInRing DEF Publish, Claims, TypeOK
<1>4. /\ q \in Oldest..(enqueuePosition - 1)
      /\ slotSequence[Slot(q)] = q
      /\ slotEvent[Slot(q)] \in Events
  BY <1>3 DEF SlotDiscipline, ClaimsDisjoint, ContentsWhole
<1>5. enqueuePosition <= Oldest + Capacity BY DEF SlotDiscipline, PositionsInWindow
<1>6. slotSequence'[Slot(q)] = q + 1 BY <1>3 DEF Publish, TypeOK
<1>7. ASSUME NEW i \in Oldest..(Oldest + Capacity - 1), i # q
      PROVE  slotSequence'[Slot(i)] = slotSequence[Slot(i)]
  <2>1. q \in Oldest..(Oldest + Capacity - 1) BY <1>2, <1>4, <1>5, CapacityAssumption
  <2>2. Slot(i) # Slot(q) BY <1>2, <1>7, <2>1, WindowUnique
  <2>3. Slot(i) \in Slots BY <1>2, SlotInRing
  <2> QED BY <2>2, <2>3 DEF Publish, TypeOK
<1>8. ASSUME NEW r \in Producers
      PROVE  /\ Claims(r)' => Claims(r) /\ r # p
             /\ pc'[r] \in {"inspect", "cas", "publish"} => pc'[r] = pc[r] /\ r # p
             /\ pc'[r] # "idle" => pc[r] # "idle"
             /\ position[r] \in Nat
  BY DEF Publish, Claims, TypeOK
<1> HIDE DEF q
<1>9. PositionsInWindow'
  BY <1>1, <1>2, <1>4, <1>5, <1>6, <1>7, CapacityAssumption
  DEF PositionsInWindow, SlotDiscipline
<1>10. ClaimsDisjoint'
  <2>1. ASSUME NEW r \in Producers, Claims(r)'
        PROVE  /\ position[r] \in Oldest..(enqueuePosition - 1)
               /\ slotSequence'[Slot(position[r])] = position[r]
    <3>1. /\ position[r] \in Oldest..(enqueuePosition - 1)
          /\ slotSequence[Slot(position[r])] = position[r]
          /\ position[r] # q
      BY <2>1, <1>3, <1>8 DEF SlotDiscipline, ClaimsDisjoint, q
    <3> QED BY <3>1, <1>2, <1>5, <1>7, CapacityAssumption
  <2> QED BY <1>1, <1>2, <1>8, <2>1 DEF ClaimsDisjoint, SlotDiscipline
<1>11. StalePositions'
  <2>1. ASSUME NEW r \in Producers, pc[r] = "cas", position[r] = enqueuePosition
        PROVE  slotSequence'[Slot(enqueuePosition)] = enqueuePosition
    <3>1. slotSequence[Slot(enqueuePosition)] = enqueuePosition
      BY <2>1 DEF SlotDiscipline, StalePositions
    <3>2. enqueuePosition < Oldest + Capacity
      BY <3>1, ClaimFindsRoom DEF SlotDiscipline
    <3>3. enqueuePosition \in Oldest..(Oldest + Capacity - 1) /\ enqueuePosition # q
      BY <3>2, <1>2, <1>4, CapacityAssumption
    <3> QED BY <3>1, <3>3, <1>7
  <2> QED BY <1>1, <1>8, <2>1 DEF StalePositions, SlotDiscipline
<1>12. ReaderOnPublished'
  <2> SUFFICES ASSUME reader \in {"copying", "copied"}
               PROVE  slotSequence'[Slot(dequeuePosition)] = dequeuePosition + 1
    BY <1>1 DEF ReaderOnPublished
  <2>1. slotSequence[Slot(dequeuePosition)] = dequeuePosition + 1
    BY DEF SlotDiscipline, ReaderOnPublished
  <2>2. dequeuePosition = Oldest BY DEF Oldest
  <2>3. dequeuePosition # q BY <2>1, <2>2, <1>2, <1>4
  <2>4. dequeuePosition \in Oldest..(Oldest + Capacity - 1)
    BY <2>2, <1>2, CapacityAssumption
  <2> QED BY <2>1, <2>3, <2>4, <1>7
<1>13. ContentsWhole'
  <2>1. ASSUME NEW i \in Oldest..(enqueuePosition - 1), slotSequence'[Slot(i)] = i + 1
        PROVE  slotEvent[Slot(i)] \in Events
    <3>1. CASE i = q BY <3>1, <1>4
    <3>2. CASE i # q
      <4>1. i \in Oldest..(Oldest + Capacity - 1) BY <1>2, <1>5, CapacityAssumption
      <4>2. slotSequence[Slot(i)] = i + 1 BY <2>1, <3>2, <4>1, <1>7
      <4> QED BY <4>2 DEF SlotDiscipline, ContentsWhole
    <3> QED BY <3>1, <3>2
  <2> QED
    BY <1>1, <1>2, <1>8, <2>1 DEF ContentsWhole, WholeEvents, SlotDiscipline
<1> QED BY <1>9, <1>10, <1>11, <1>12, <1>13 DEF SlotDiscipline

\* The reader's steps other than giving a slot back.
LEMMA DisciplineRead ==
  ASSUME TypeOK, SlotDiscipline,
         ReadBegin \/ CopyOut \/ AdvanceDequeue \/ ClearWakePending \/ ConsumeWake
  PROVE  SlotDiscipline'
<1> USE DEF producerVars, wakeVars, readerVars, slotVars, counterVars
<1>1. UNCHANGED <<enqueuePosition, slotSequence, slotEvent, pc, position, event, delivered>>
  BY DEF ReadBegin, CopyOut, AdvanceDequeue, ClearWakePending, ConsumeWake
<1>2. Oldest' = Oldest
  BY DEF ReadBegin, CopyOut, AdvanceDequeue, ClearWakePending, ConsumeWake, Oldest, TypeOK
<1>3. PositionsInWindow' BY <1>1, <1>2 DEF PositionsInWindow, SlotDiscipline
<1>4. ClaimsDisjoint' BY <1>1, <1>2 DEF ClaimsDisjoint, SlotDiscipline, Claims
<1>5. StalePositions' BY <1>1 DEF StalePositions, SlotDiscipline
<1>6. ReaderOnPublished'
  BY DEF ReadBegin, CopyOut, AdvanceDequeue, ClearWakePending, ConsumeWake, Readable,
         ReaderOnPublished, SlotDiscipline
<1>7. reader' = "copied" => readerEvent' \in Events
  <2>1. CASE CopyOut
    <3>1. slotSequence[Slot(dequeuePosition)] = dequeuePosition + 1 /\ reader = "copying"
      BY <2>1 DEF CopyOut, SlotDiscipline, ReaderOnPublished
    <3>2. dequeuePosition = Oldest /\ dequeuePosition < enqueuePosition
      BY <3>1, ReaderInWindow DEF SlotDiscipline
    <3>3. dequeuePosition \in Oldest..(enqueuePosition - 1) BY <3>2 DEF TypeOK
    <3> QED BY <2>1, <3>1, <3>3 DEF CopyOut, SlotDiscipline, ContentsWhole
  <2>2. CASE ~CopyOut
    BY <2>2 DEF ReadBegin, AdvanceDequeue, ClearWakePending, ConsumeWake, SlotDiscipline,
                ContentsWhole
  <2> QED BY <2>1, <2>2
<1>8. ContentsWhole'
  BY <1>1, <1>2, <1>7 DEF ContentsWhole, WholeEvents, SlotDiscipline
<1> QED BY <1>3, <1>4, <1>5, <1>6, <1>8 DEF SlotDiscipline

LEMMA DisciplineRelease ==
  ASSUME TypeOK, SlotDiscipline, ReleaseSlot
  PROVE  SlotDiscipline'
<1> USE DEF producerVars, wakeVars, readerVars, slotVars, counterVars
<1> DEFINE o == dequeuePosition
<1>1. UNCHANGED <<enqueuePosition, slotEvent, pc, position, event, readerEvent>>
  BY DEF ReleaseSlot
<1>2. o \in Nat /\ enqueuePosition \in Nat /\ Slot(o) \in Slots
  BY SlotInRing DEF TypeOK
<1>3. slotSequence[Slot(o)] = o + 1 /\ reader = "copied"
  BY DEF ReleaseSlot, SlotDiscipline, ReaderOnPublished
<1>4. Oldest = o /\ o < enqueuePosition /\ Oldest' = o + 1
  BY <1>3, ReaderInWindow DEF ReleaseSlot, Oldest, SlotDiscipline
<1>5. enqueuePosition <= o + Capacity BY <1>4 DEF SlotDiscipline, PositionsInWindow
<1>6. slotSequence'[Slot(o)] = o + Capacity BY <1>2 DEF ReleaseSlot, TypeOK
<1>7. ASSUME NEW i \in (o + 1)..(o + Capacity - 1)
      PROVE  slotSequence'[Slot(i)] = slotSequence[Slot(i)]
  <2>1. o \in o..(o + Capacity - 1) /\ i \in o..(o + Capacity - 1) /\ i # o
    BY <1>2, CapacityAssumption
  <2>2. Slot(i) # Slot(o) BY <1>2, <2>1, WindowUnique
  <2>3. Slot(i) \in Slots BY <1>2, SlotInRing
  <2> QED BY <2>2, <2>3 DEF ReleaseSlot, TypeOK
<1>8. Slot(o + Capacity) = Slot(o) BY <1>2, SlotReused
<1> HIDE DEF o
<1>9. PositionsInWindow'
  <2>1. ASSUME NEW i \in (o + 1)..(enqueuePosition - 1)
        PROVE  slotSequence'[Slot(i)] \in {i, i + 1}
    <3>1. i \in (o + 1)..(o + Capacity - 1) BY <1>2, <1>5, CapacityAssumption
    <3>2. i \in Oldest..(enqueuePosition - 1) BY <1>2, <1>4
    <3> QED BY <3>1, <3>2, <1>7 DEF SlotDiscipline, PositionsInWindow
  <2>2. ASSUME NEW i \in enqueuePosition..(o + Capacity)
        PROVE  slotSequence'[Slot(i)] = i
    <3>1. CASE i = o + Capacity BY <3>1, <1>6, <1>8
    <3>2. CASE i # o + Capacity
      <4>1. i \in (o + 1)..(o + Capacity - 1) BY <3>2, <1>2, <1>4, CapacityAssumption
      <4>2. i \in enqueuePosition..(Oldest + Capacity - 1)
        BY <3>2, <1>2, <1>4, CapacityAssumption
      <4> QED BY <4>1, <4>2, <1>7 DEF SlotDiscipline, PositionsInWindow
    <3> QED BY <3>1, <3>2
  <2> QED BY <1>1, <1>2, <1>4, <1>5, <2>1, <2>2, CapacityAssumption DEF PositionsInWindow
<1>10. ClaimsDisjoint'
  <2>1. ASSUME NEW r \in Producers, Claims(r)
        PROVE  /\ position[r] \in (o + 1)..(enqueuePosition - 1)
               /\ slotSequence'[Slot(position[r])] = position[r]
    <3>1. /\ position[r] \in Oldest..(enqueuePosition - 1)
          /\ slotSequence[Slot(position[r])] = position[r]
      BY <2>1 DEF SlotDiscipline, ClaimsDisjoint
    <3>2. position[r] # o BY <3>1, <1>2, <1>3 DEF o
    <3>3. position[r] \in (o + 1)..(o + Capacity - 1)
      BY <3>1, <3>2, <1>2, <1>4, <1>5, CapacityAssumption
    <3> QED BY <3>1, <3>2, <3>3, <1>2, <1>4, <1>7
  <2> QED BY <1>1, <1>4, <2>1 DEF ClaimsDisjoint, SlotDiscipline, Claims
<1>11. StalePositions'
  <2>1. ASSUME NEW r \in Producers, pc[r] = "cas", position[r] = enqueuePosition
        PROVE  slotSequence'[Slot(enqueuePosition)] = enqueuePosition
    <3>1. slotSequence[Slot(enqueuePosition)] = enqueuePosition
      BY <2>1 DEF SlotDiscipline, StalePositions
    <3>2. enqueuePosition < o + Capacity
      BY <3>1, <1>4, ClaimFindsRoom DEF SlotDiscipline
    <3>3. enqueuePosition \in (o + 1)..(o + Capacity - 1)
      BY <3>2, <1>2, <1>4, CapacityAssumption
    <3> QED BY <3>1, <3>3, <1>7
  <2> QED BY <1>1, <2>1 DEF StalePositions, SlotDiscipline
<1>12. ReaderOnPublished' BY DEF ReleaseSlot, ReaderOnPublished
<1>13. ContentsWhole'
  <2>1. ASSUME NEW i \in (o + 1)..(enqueuePosition - 1), slotSequence'[Slot(i)] = i + 1
        PROVE  slotEvent[Slot(i)] \in Events
    <3>1. i \in (o + 1)..(o + Capacity - 1) BY <1>2, <1>5, CapacityAssumption
    <3>2. i \in Oldest..(enqueuePosition - 1) BY <1>2, <1>4
    <3>3. slotSequence[Slot(i)] = i + 1 BY <2>1, <3>1, <1>7
    <3> QED BY <3>2, <3>3 DEF SlotDiscipline, ContentsWhole
  <2>2. WholeEvents'
    <3>1. readerEvent \in Events BY <1>3 DEF SlotDiscipline, ContentsWhole
    <3>2. delivered' = Append(delivered, readerEvent) BY DEF ReleaseSlot
    <3>3. delivered \in Seq(Events \union {Empty, Torn}) BY DEF TypeOK
    <3>4. \A i \in DOMAIN delivered : delivered[i] \in Events
      BY DEF SlotDiscipline, ContentsWhole, WholeEvents
    <3> QED BY <3>1, <3>2, <3>3, <3>4 DEF WholeEvents
  <2>3. reader' # "copied" BY DEF ReleaseSlot
  <2> QED BY <1>1, <1>4, <2>1, <2>2, <2>3 DEF ContentsWhole, SlotDiscipline
<1> QED BY <1>9, <1>10, <1>11, <1>12, <1>13 DEF SlotDiscipline

LEMMA DisciplineStutter ==
  ASSUME SlotDiscipline, UNCHANGED ringVars
  PROVE  SlotDiscipline'
  BY DEF ringVars, counterVars, slotVars, producerVars, wakeVars, readerVars, SlotDiscipline,
         PositionsInWindow, ClaimsDisjoint, StalePositions, ReaderOnPublished, ContentsWhole,
         WholeEvents, Claims, Oldest

LEMMA DisciplineStep == TypeOK /\ SlotDiscipline /\ [RingNext]_ringVars => SlotDiscipline'
<1> SUFFICES ASSUME TypeOK, SlotDiscipline, [RingNext]_ringVars PROVE SlotDiscipline' OBVIOUS
<1>1. ASSUME NEW p \in Producers, Producer(p) PROVE SlotDiscipline'
  BY <1>1, DisciplineBegin, DisciplineQuietStep, DisciplineClaim, DisciplineCopy,
     DisciplinePublish
  DEF Producer, Emit
<1>2. CASE RingReader
  BY <1>2, DisciplineRead, DisciplineRelease DEF RingReader, TryRead
<1>3. CASE UNCHANGED ringVars BY <1>3, DisciplineStutter
<1> QED BY <1>1, <1>2, <1>3 DEF RingNext

\* The slot sequence numbers keep their discipline however producers and the
\* reader interleave, fall behind, fail to signal or are terminated.
THEOREM SlotDisciplineHolds == RingSpec => []SlotDiscipline
  BY TypeCorrect, DisciplineInit, DisciplineStep, PTL DEF RingSpec

-----------------------------------------------------------------------------
(* What the discipline is for.                                             *)

LEMMA DisciplineImpliesOwnership == TypeOK /\ SlotDiscipline => SlotOwnership
<1> SUFFICES ASSUME TypeOK, SlotDiscipline PROVE SlotOwnership OBVIOUS
<1>1. Oldest \in Nat /\ enqueuePosition \in Nat BY OldestTyped DEF TypeOK
<1>2. ASSUME NEW p \in Producers, Claims(p)
      PROVE  /\ position[p] \in Oldest..(Oldest + Capacity - 1)
             /\ slotSequence[Slot(position[p])] = position[p]
  BY <1>1, <1>2, CapacityAssumption DEF SlotDiscipline, ClaimsDisjoint, PositionsInWindow
<1>3. ASSUME NEW p \in Producers, NEW q \in Producers, p # q, Claims(p), Claims(q)
      PROVE  Slot(position[p]) # Slot(position[q])
  <2>1. position[p] # position[q] BY <1>3 DEF SlotDiscipline, ClaimsDisjoint
  <2> QED BY <1>1, <1>2, <1>3, <2>1, WindowUnique
<1>4. ASSUME NEW p \in Producers, Claims(p), reader \in {"copying", "copied"}
      PROVE  Slot(position[p]) # Slot(dequeuePosition)
  <2>1. slotSequence[Slot(dequeuePosition)] = dequeuePosition + 1
    BY <1>4 DEF SlotDiscipline, ReaderOnPublished
  <2>2. dequeuePosition = Oldest BY <1>4 DEF Oldest
  <2>3. position[p] # dequeuePosition BY <1>1, <1>2, <1>4, <2>1, <2>2
  <2>4. dequeuePosition \in Oldest..(Oldest + Capacity - 1)
    BY <1>1, <2>2, CapacityAssumption
  <2> QED BY <1>1, <1>2, <1>4, <2>3, <2>4, WindowUnique
<1> QED BY <1>3, <1>4 DEF SlotOwnership

\* No two producers, and no producer and the reader, ever copy into and out
\* of the same slot at once: the plain copies of EmitTraceEvent and
\* TryReadRing are free of data races.
THEOREM SlotOwnershipHolds == RingSpec => []SlotOwnership
  BY TypeCorrect, SlotDisciplineHolds, DisciplineImpliesOwnership, PTL

\* Every event TryReadRing returns is one that EmitTraceEvent wrote, whole.
THEOREM WholeEventsHold == RingSpec => []WholeEvents
<1>1. SlotDiscipline => WholeEvents BY DEF SlotDiscipline, ContentsWhole
<1> QED BY <1>1, SlotDisciplineHolds, PTL

\* A slot never holds a sequence number older than a position already taken.
LEMMA NoDropBelowNext ==
  ASSUME TypeOK, SlotDiscipline, NEW i \in Nat, i < enqueuePosition
  PROVE  slotSequence[Slot(i)] >= i
<1>1. Oldest \in Nat /\ enqueuePosition \in Nat BY OldestTyped DEF TypeOK
<1>2. CASE Oldest <= i
  BY <1>1, <1>2 DEF SlotDiscipline, PositionsInWindow
<1>3. CASE i < Oldest
  <2>1. PICK j \in Oldest..(Oldest + Capacity - 1) : Slot(j) = Slot(i)
    BY <1>1, <1>3, SlotCovered
  <2>2. j \in Nat /\ i < j BY <1>1, <1>3, <2>1, CapacityAssumption
  <2>3. slotSequence[Slot(j)] \in {j, j + 1}
    BY <1>1, <2>1, CapacityAssumption DEF SlotDiscipline, PositionsInWindow
  <2> QED BY <2>1, <2>2, <2>3
<1> QED BY <1>1, <1>2, <1>3

LEMMA DropStep ==
  ASSUME TypeOK, SlotDiscipline, RingNext, NEW p \in Producers,
         pc[p] = "inspect", pc'[p] = "drop"
  PROVE  enqueuePosition = Oldest + Capacity
<1>1. Inspect(p) /\ Difference(p) < 0
  BY DEF RingNext, Producer, Emit, RingReader, TryRead, Begin, LoadPosition, Inspect, Drop,
         Claim, BeginCopy, FinishCopy, Publish, TakeWake, Signal, Unsignal, Kill, ReadBegin,
         CopyOut, ReleaseSlot, AdvanceDequeue, ClearWakePending, ConsumeWake, At, Goto, Return,
         producerVars, TypeOK
<1>2. position[p] \in Nat /\ position[p] <= enqueuePosition /\ Slot(position[p]) \in Slots
  BY SlotInRing DEF TypeOK, SlotDiscipline, StalePositions
<1>3. slotSequence[Slot(position[p])] < position[p]
  BY <1>1, <1>2 DEF Difference, TypeOK
<1>4. Oldest \in Nat /\ enqueuePosition \in Nat /\ slotSequence[Slot(position[p])] \in Nat
  BY <1>2, OldestTyped DEF TypeOK
<1>5. position[p] = enqueuePosition BY <1>2, <1>3, <1>4, NoDropBelowNext
<1> SUFFICES ASSUME enqueuePosition < Oldest + Capacity PROVE FALSE
  BY <1>4, CapacityAssumption DEF SlotDiscipline, PositionsInWindow
<1>6. slotSequence[Slot(enqueuePosition)] = enqueuePosition
  BY <1>4, CapacityAssumption DEF SlotDiscipline, PositionsInWindow
<1> QED BY <1>3, <1>4, <1>5, <1>6

\* A stale position read never makes EmitTraceEvent drop: when it decides to
\* drop an event the ring holds Capacity events the reader has not released.
DropsOnlyWhenFull ==
  [][\A p \in Producers :
       pc[p] = "inspect" /\ pc'[p] = "drop" => enqueuePosition = Oldest + Capacity]_ringVars

\* EmitTraceEvent decides to drop an event only while Capacity events wait
\* for the reader, however old the position it looked at.
THEOREM DropsOnlyWhenFullHolds == RingSpec => DropsOnlyWhenFull
<1> DEFINE D == \A p \in Producers :
                  pc[p] = "inspect" /\ pc'[p] = "drop" => enqueuePosition = Oldest + Capacity
<1>1. TypeOK /\ SlotDiscipline /\ [RingNext]_ringVars => [D]_ringVars
  BY DropStep DEF ringVars
<1>2. RingSpec => [][D]_ringVars
  BY <1>1, TypeCorrect, SlotDisciplineHolds, PTL DEF RingSpec
<1> QED BY <1>2 DEF DropsOnlyWhenFull

-----------------------------------------------------------------------------
(* The ledger: what every position of the ring is there for.               *)

Claimed(i) == \E p \in Producers : Claims(p) /\ position[p] = i

\* Positions up to Oldest are the ones delivered; each later one is claimed or
\* published; and what a producer has copied in, or the reader out, is the
\* event of that position.
Ledger ==
  /\ Len(delivered) = Oldest
  /\ \A i \in Oldest..(enqueuePosition - 1) : Published(i) \/ Claimed(i)
  /\ \A p \in Producers : pc[p] = "publish" => slotEvent[Slot(position[p])] = event[p]
  /\ reader = "copied" => readerEvent = slotEvent[Slot(dequeuePosition)]

LEMMA LedgerInit == RingInit => Ledger
<1> SUFFICES ASSUME RingInit PROVE Ledger OBVIOUS
<1>1. Oldest = 0 /\ enqueuePosition = 0 BY DEF RingInit, Oldest
<1> QED BY <1>1 DEF RingInit, Ledger

\* Different positions in use have different slots.
LEMMA SlotsDiffer ==
  ASSUME TypeOK, SlotDiscipline,
         NEW i \in Oldest..(enqueuePosition - 1), NEW j \in Oldest..(enqueuePosition - 1), i # j
  PROVE  Slot(i) # Slot(j) /\ Slot(i) \in Slots /\ Slot(j) \in Slots
<1>1. Oldest \in Nat /\ enqueuePosition \in Nat BY OldestTyped DEF TypeOK
<1>2. i \in Oldest..(Oldest + Capacity - 1) /\ j \in Oldest..(Oldest + Capacity - 1)
  BY <1>1, CapacityAssumption DEF SlotDiscipline, PositionsInWindow
<1>3. i \in Nat /\ j \in Nat BY <1>1
<1> QED BY <1>1, <1>2, <1>3, WindowUnique, SlotInRing

\* What happens to the event of a position in use in a step that does not
\* release the position: it stays in its slot, or with its claimant, or moves
\* from there to the slot.
StaysPublished(i) ==
  Published(i) => Published(i)' /\ slotEvent'[Slot(i)] = slotEvent[Slot(i)]
StaysClaimed(i) ==
  \A p \in Producers : Claims(p) /\ position[p] = i =>
    \/ Claims(p)' /\ position'[p] = i /\ event'[p] = event[p]
    \/ Published(i)' /\ slotEvent'[Slot(i)] = event[p]

LEMMA PositionsPersist ==
  ASSUME TypeOK, SlotDiscipline, Ledger, [RingNext]_ringVars,
         NEW i \in Oldest..(enqueuePosition - 1), i >= Oldest'
  PROVE  StaysPublished(i) /\ StaysClaimed(i)
<1> USE DEF StaysPublished, StaysClaimed, Published, Claims, At, Goto, Return,
            producerVars, wakeVars, readerVars, slotVars, counterVars
<1>i. i \in Nat /\ Slot(i) \in Slots
  <2>1. Oldest \in Nat /\ enqueuePosition \in Nat BY OldestTyped DEF TypeOK
  <2>2. i \in Nat BY <2>1
  <2> QED BY <2>2, SlotInRing
<1>0. /\ i \in Nat /\ pc \in [Producers -> ProducerStates] /\ position \in [Producers -> Nat]
      /\ event \in [Producers -> Events \union {Empty}]
      /\ slotSequence \in [Slots -> Nat] /\ slotEvent \in [Slots -> Events \union {Empty, Torn}]
      /\ Slot(i) \in Slots
  BY <1>i DEF TypeOK
<1>1. ASSUME NEW p \in Producers, Claims(p)
      PROVE  /\ position[p] \in Oldest..(enqueuePosition - 1)
             /\ ~Published(position[p])
             /\ position[p] # i => Slot(position[p]) # Slot(i) /\ Slot(position[p]) \in Slots
  <2>1. /\ position[p] \in Oldest..(enqueuePosition - 1)
        /\ slotSequence[Slot(position[p])] = position[p]
    BY <1>1 DEF SlotDiscipline, ClaimsDisjoint
  <2>2. position[p] \in Nat BY <1>0
  <2> QED BY <2>1, <2>2, SlotsDiffer
<1>2. ASSUME NEW p \in Producers, Begin(p) PROVE StaysPublished(i) /\ StaysClaimed(i)
  BY <1>0, <1>2 DEF Begin
<1>3. ASSUME NEW p \in Producers,
             LoadPosition(p) \/ Inspect(p) \/ Drop(p) \/ TakeWake(p) \/ Signal(p) \/ Unsignal(p)
      PROVE  StaysPublished(i) /\ StaysClaimed(i)
  BY <1>0, <1>3 DEF LoadPosition, Inspect, Drop, TakeWake, Signal, Unsignal
<1>4. ASSUME NEW p \in Producers, Claim(p) \/ Kill(p) PROVE StaysPublished(i) /\ StaysClaimed(i)
  BY <1>0, <1>4 DEF Claim, Kill
<1>5. ASSUME NEW p \in Producers, BeginCopy(p) \/ FinishCopy(p)
      PROVE  StaysPublished(i) /\ StaysClaimed(i)
  <2>1. Claims(p) BY <1>5 DEF BeginCopy, FinishCopy
  <2>2. Published(i) => slotEvent'[Slot(i)] = slotEvent[Slot(i)]
    BY <1>0, <1>1, <1>5, <2>1 DEF BeginCopy, FinishCopy
  <2>3. \A r \in Producers : Claims(r) => Claims(r)'
    BY <1>0, <1>5 DEF BeginCopy, FinishCopy
  <2>4. UNCHANGED <<slotSequence, position, event>> BY <1>5 DEF BeginCopy, FinishCopy
  <2> QED BY <2>2, <2>3, <2>4
<1>6. ASSUME NEW p \in Producers, Publish(p) PROVE StaysPublished(i) /\ StaysClaimed(i)
  <2>1. Claims(p) /\ slotEvent[Slot(position[p])] = event[p] BY <1>6 DEF Publish, Ledger
  <2>2. UNCHANGED <<slotEvent, position, event>>
        /\ slotSequence' = [slotSequence EXCEPT ![Slot(position[p])] = position[p] + 1]
    BY <1>6 DEF Publish
  <2>3. Published(i) => Published(i)' BY <1>0, <1>1, <2>1, <2>2
  <2>4. position[p] = i => Published(i)' /\ slotEvent'[Slot(i)] = event[p]
    BY <1>0, <2>1, <2>2
  <2>5. \A r \in Producers : Claims(r) /\ r # p => Claims(r)' BY <1>0, <1>6 DEF Publish
  <2> QED BY <2>2, <2>3, <2>4, <2>5
<1>7. CASE ReleaseSlot
  <2>1. /\ UNCHANGED <<slotEvent, pc, position, event>> /\ reader = "copied"
        /\ slotSequence' = [slotSequence EXCEPT ![Slot(dequeuePosition)] = dequeuePosition + Capacity]
    BY <1>7 DEF ReleaseSlot
  <2>2. Oldest = dequeuePosition /\ Oldest' = dequeuePosition + 1 /\ dequeuePosition \in Nat
    BY <1>7 DEF ReleaseSlot, Oldest, TypeOK
  <2>3. dequeuePosition \in Oldest..(enqueuePosition - 1) /\ i # dequeuePosition
    <3>1. i >= dequeuePosition + 1 BY <2>2
    <3>2. enqueuePosition \in Nat BY DEF TypeOK
    <3> QED BY <1>0, <2>2, <3>1, <3>2
  <2>4. Slot(i) # Slot(dequeuePosition) BY <2>3, SlotsDiffer
  <2> QED BY <1>0, <2>1, <2>4
<1>8. CASE ReadBegin \/ CopyOut \/ AdvanceDequeue \/ ClearWakePending \/ ConsumeWake
  BY <1>8 DEF ReadBegin, CopyOut, AdvanceDequeue, ClearWakePending, ConsumeWake
<1>9. CASE UNCHANGED ringVars BY <1>9 DEF ringVars
<1> QED
  BY <1>2, <1>3, <1>4, <1>5, <1>6, <1>7, <1>8, <1>9
  DEF RingNext, Producer, Emit, RingReader, TryRead

\* How one step moves the ends of the window.
Claiming(p) ==
  /\ pc[p] = "cas" /\ position[p] = enqueuePosition /\ pc'[p] = "copy"
  /\ enqueuePosition' = enqueuePosition + 1
  /\ Oldest' = Oldest /\ delivered' = delivered
  /\ position' = position /\ event' = event

LEMMA WindowStep ==
  ASSUME TypeOK, [RingNext]_ringVars
  PROVE  \/ \E p \in Producers : Claim(p) /\ Claiming(p)
         \/ /\ ReleaseSlot /\ reader = "copied" /\ enqueuePosition' = enqueuePosition
            /\ Oldest = dequeuePosition /\ Oldest' = Oldest + 1
            /\ delivered' = Append(delivered, readerEvent)
         \/ /\ enqueuePosition' = enqueuePosition /\ Oldest' = Oldest /\ delivered' = delivered
<1> USE DEF At, Goto, Return, producerVars, wakeVars, readerVars, slotVars, counterVars, Oldest
<1>1. ASSUME NEW p \in Producers, Claim(p)
      PROVE  \/ Claiming(p)
             \/ /\ enqueuePosition' = enqueuePosition /\ Oldest' = Oldest
                /\ delivered' = delivered
  BY <1>1 DEF Claim, Claiming, TypeOK
<1>2. ASSUME NEW p \in Producers,
             Begin(p) \/ LoadPosition(p) \/ Inspect(p) \/ Drop(p) \/ BeginCopy(p) \/ FinishCopy(p)
               \/ Publish(p) \/ TakeWake(p) \/ Signal(p) \/ Unsignal(p) \/ Kill(p)
      PROVE  enqueuePosition' = enqueuePosition /\ Oldest' = Oldest /\ delivered' = delivered
  BY <1>2 DEF Begin, LoadPosition, Inspect, Drop, BeginCopy, FinishCopy, Publish, TakeWake,
              Signal, Unsignal, Kill
<1>3. CASE ReleaseSlot BY <1>3 DEF ReleaseSlot
<1>4. CASE ReadBegin \/ CopyOut \/ AdvanceDequeue \/ ClearWakePending \/ ConsumeWake
  BY <1>4 DEF ReadBegin, CopyOut, AdvanceDequeue, ClearWakePending, ConsumeWake, TypeOK
<1>5. CASE UNCHANGED ringVars BY <1>5 DEF ringVars
<1> QED
  BY <1>1, <1>2, <1>3, <1>4, <1>5 DEF RingNext, Producer, Emit, RingReader, TryRead

\* The last two parts of the ledger.
LEMMA CopiesStep ==
  ASSUME TypeOK, SlotDiscipline, Ledger, [RingNext]_ringVars
  PROVE  /\ \A p \in Producers : pc'[p] = "publish" => slotEvent'[Slot(position'[p])] = event'[p]
         /\ reader' = "copied" => readerEvent' = slotEvent'[Slot(dequeuePosition')]
<1> DEFINE Copied(p) == pc'[p] = "publish" => slotEvent'[Slot(position'[p])] = event'[p]
           CopiedOut == reader' = "copied" => readerEvent' = slotEvent'[Slot(dequeuePosition')]
<1> USE DEF Claims, At, Goto, Return, producerVars, wakeVars, readerVars, slotVars, counterVars
<1>0. /\ pc \in [Producers -> ProducerStates] /\ position \in [Producers -> Nat]
      /\ event \in [Producers -> Events \union {Empty}]
      /\ slotEvent \in [Slots -> Events \union {Empty, Torn}]
  BY DEF TypeOK
<1>1. ASSUME NEW p \in Producers, pc[p] = "publish"
      PROVE  Claims(p) /\ slotEvent[Slot(position[p])] = event[p]
  BY <1>1 DEF Ledger
<1>2. ASSUME NEW p \in Producers, Begin(p) PROVE \A r \in Producers : Copied(r) /\ CopiedOut
  BY <1>0, <1>1, <1>2 DEF Begin, Ledger
<1>3. ASSUME NEW p \in Producers,
             LoadPosition(p) \/ Inspect(p) \/ Drop(p) \/ TakeWake(p) \/ Signal(p) \/ Unsignal(p)
      PROVE  \A r \in Producers : Copied(r) /\ CopiedOut
  BY <1>0, <1>1, <1>3 DEF LoadPosition, Inspect, Drop, TakeWake, Signal, Unsignal, Ledger
<1>4. ASSUME NEW p \in Producers, Claim(p) \/ Kill(p) \/ Publish(p)
      PROVE  \A r \in Producers : Copied(r) /\ CopiedOut
  BY <1>0, <1>1, <1>4 DEF Claim, Kill, Publish, Ledger
<1>5. ASSUME NEW p \in Producers, BeginCopy(p) \/ FinishCopy(p)
      PROVE  \A r \in Producers : Copied(r) /\ CopiedOut
  <2>1. Claims(p) /\ UNCHANGED <<position, event, reader, readerEvent, dequeuePosition>>
        /\ \A s \in Slots : s # Slot(position[p]) => slotEvent'[s] = slotEvent[s]
    BY <1>0, <1>5 DEF BeginCopy, FinishCopy
  <2>2. /\ Slot(position[p]) \in Slots
        /\ \A r \in Producers : r # p /\ Claims(r) =>
             Slot(position[r]) # Slot(position[p]) /\ Slot(position[r]) \in Slots
        /\ reader = "copied" =>
             Slot(position[p]) # Slot(dequeuePosition) /\ Slot(dequeuePosition) \in Slots
    BY <1>0, <2>1, SlotInRing, DisciplineImpliesOwnership DEF SlotOwnership, TypeOK
  <2>3. ASSUME NEW r \in Producers PROVE Copied(r)
    <3>1. CASE r = p
      BY <1>0, <1>5, <2>2, <3>1 DEF BeginCopy, FinishCopy
    <3>2. CASE r # p
      <4>1. pc'[r] = pc[r] BY <1>0, <1>5, <3>2 DEF BeginCopy, FinishCopy
      <4> QED BY <1>1, <2>1, <2>2, <3>2, <4>1
    <3> QED BY <3>1, <3>2
  <2>4. CopiedOut BY <2>1, <2>2 DEF Ledger
  <2> QED BY <2>3, <2>4
<1>6. CASE RingReader
  BY <1>6 DEF RingReader, TryRead, ReadBegin, CopyOut, ReleaseSlot, AdvanceDequeue,
              ClearWakePending, ConsumeWake, Ledger
<1>7. CASE UNCHANGED ringVars BY <1>7 DEF ringVars, Ledger
<1> QED BY <1>2, <1>3, <1>4, <1>5, <1>6, <1>7 DEF RingNext, Producer, Emit

LEMMA LedgerStep == TypeOK /\ SlotDiscipline /\ Ledger /\ [RingNext]_ringVars => Ledger'
<1> SUFFICES ASSUME TypeOK, SlotDiscipline, Ledger, [RingNext]_ringVars PROVE Ledger' OBVIOUS
<1>0. Oldest \in Nat /\ enqueuePosition \in Nat /\ delivered \in Seq(Events \union {Empty, Torn})
      /\ readerEvent \in Events \union {Empty, Torn} /\ Len(delivered) = Oldest
  BY OldestTyped DEF TypeOK, Ledger
<1>1. Len(delivered') = Oldest' BY <1>0, WindowStep DEF Claiming
<1>2. ASSUME NEW i \in Oldest'..(enqueuePosition' - 1)
      PROVE  Published(i)' \/ Claimed(i)'
  <2>1. CASE i \in Oldest..(enqueuePosition - 1)
    <3>1. i >= Oldest' BY <1>0, WindowStep
    <3>2. StaysPublished(i) /\ StaysClaimed(i) BY <2>1, <3>1, PositionsPersist
    <3>3. Published(i) \/ Claimed(i) BY <2>1 DEF Ledger
    <3> QED BY <3>2, <3>3 DEF StaysPublished, StaysClaimed, Claimed
  <2>2. CASE i \notin Oldest..(enqueuePosition - 1)
    <3>1. PICK p \in Producers : Claiming(p) /\ i = enqueuePosition
      BY <1>0, <2>2, WindowStep DEF Claiming
    <3> QED BY <3>1 DEF Claiming, Claimed, Claims
  <2> QED BY <2>1, <2>2
<1> QED BY <1>1, <1>2, CopiesStep DEF Ledger

\* Every position of the ring is accounted for: delivered, published, or in
\* the hands of one hook thread, which still has its event.
THEOREM LedgerHolds == RingSpec => []Ledger
  BY TypeCorrect, SlotDisciplineHolds, LedgerInit, LedgerStep, PTL DEF RingSpec

-----------------------------------------------------------------------------
(* The order of events: what was delivered, then what will be.             *)

PublishedEvents == \A i : Published(i) => EventAt(i) = slotEvent[Slot(i)]
ClaimedEvents == \A p \in Producers : Claims(p) => EventAt(position[p]) = event[p]

LEMMA EventAtPublished == PublishedEvents
  BY DEF EventAt, PublishedEvents

LEMMA EventAtClaimed == TypeOK /\ SlotDiscipline => ClaimedEvents
<1> SUFFICES ASSUME TypeOK, SlotDiscipline, NEW p \in Producers, Claims(p)
             PROVE  EventAt(position[p]) = event[p]
  BY DEF ClaimedEvents
<1>1. slotSequence[Slot(position[p])] = position[p] /\ position[p] \in Nat
  BY DEF SlotDiscipline, ClaimsDisjoint, TypeOK
<1>2. ~Published(position[p]) BY <1>1 DEF Published
<1> DEFINE Owner == CHOOSE q \in Producers : Claims(q) /\ position[q] = position[p]
<1>3. Owner \in Producers /\ Claims(Owner) /\ position[Owner] = position[p] OBVIOUS
<1>4. Owner = p BY <1>3 DEF SlotDiscipline, ClaimsDisjoint
<1> QED BY <1>2, <1>4 DEF EventAt

\* What the slots and the claimants hold are whole events.
LEMMA EventAtTyped ==
  TypeOK /\ SlotDiscipline /\ Ledger =>
    \A i \in Oldest..(enqueuePosition - 1) : EventAt(i) \in Events
<1> SUFFICES ASSUME TypeOK, SlotDiscipline, Ledger, NEW i \in Oldest..(enqueuePosition - 1)
             PROVE  EventAt(i) \in Events
  OBVIOUS
<1>1. CASE Published(i)
  BY <1>1, EventAtPublished DEF SlotDiscipline, ContentsWhole, Published, PublishedEvents
<1>2. CASE ~Published(i)
  <2>1. PICK p \in Producers : Claims(p) /\ position[p] = i BY <1>2 DEF Ledger, Claimed
  <2>2. event[p] \in Events BY <2>1 DEF SlotDiscipline, ContentsWhole, Claims
  <2> QED BY <2>1, <2>2, EventAtClaimed DEF ClaimedEvents
<1> QED BY <1>1, <1>2

\* A position that stays in the ring keeps its event.
LEMMA EventStays ==
  ASSUME TypeOK, SlotDiscipline, TypeOK', SlotDiscipline', Ledger, [RingNext]_ringVars,
         NEW i \in Oldest..(enqueuePosition - 1), i >= Oldest'
  PROVE  EventAt(i)' = EventAt(i)
<1>1. StaysPublished(i) /\ StaysClaimed(i) BY PositionsPersist
<1>2. PublishedEvents /\ PublishedEvents' BY EventAtPublished, PTL
<1>3. ClaimedEvents /\ ClaimedEvents' BY EventAtClaimed, PTL
<1>4. CASE Published(i)
  BY <1>1, <1>2, <1>4 DEF StaysPublished, PublishedEvents
<1>5. CASE ~Published(i)
  <2>1. PICK p \in Producers : Claims(p) /\ position[p] = i BY <1>5 DEF Ledger, Claimed
  <2>2. EventAt(i) = event[p] BY <1>3, <2>1 DEF ClaimedEvents
  <2>3. CASE Claims(p)' /\ position'[p] = i /\ event'[p] = event[p]
    BY <1>3, <2>2, <2>3 DEF ClaimedEvents
  <2>4. CASE Published(i)' /\ slotEvent'[Slot(i)] = event[p]
    BY <1>2, <2>2, <2>4 DEF PublishedEvents
  <2> QED BY <1>1, <2>1, <2>3, <2>4 DEF StaysClaimed
<1> QED BY <1>4, <1>5

AcceptedShape ==
  /\ Oldest \in Nat /\ enqueuePosition \in Nat /\ Oldest <= enqueuePosition
  /\ delivered \in Seq(Events) /\ Len(delivered) = Oldest
  /\ Accepted \in Seq(Events) /\ Len(Accepted) = enqueuePosition
  /\ \A i \in 1..Oldest : Accepted[i] = delivered[i]
  /\ \A i \in (Oldest + 1)..enqueuePosition : Accepted[i] = EventAt(i - 1)

LEMMA AcceptedAt == TypeOK /\ SlotDiscipline /\ Ledger => AcceptedShape
<1> SUFFICES ASSUME TypeOK, SlotDiscipline, Ledger PROVE AcceptedShape OBVIOUS
<1>1. /\ Oldest \in Nat /\ enqueuePosition \in Nat /\ Oldest <= enqueuePosition
      /\ Len(delivered) = Oldest
  BY OldestTyped DEF TypeOK, SlotDiscipline, PositionsInWindow, Ledger
<1>2. delivered \in Seq(Events)
  BY DEF TypeOK, SlotDiscipline, ContentsWhole, WholeEvents
<1> DEFINE n == enqueuePosition - Oldest
           waiting == [i \in 1..n |-> EventAt(Oldest + i - 1)]
<1>3. n \in Nat BY <1>1
<1>4. \A i \in 1..n : EventAt(Oldest + i - 1) \in Events
  <2>1. \A i \in 1..n : Oldest + i - 1 \in Oldest..(enqueuePosition - 1) BY <1>1
  <2> QED BY <2>1, EventAtTyped
<1> HIDE DEF n
<1>5. waiting \in Seq(Events) /\ Len(waiting) = n
  BY <1>3, <1>4
<1>6. Accepted = delivered \o waiting BY DEF Accepted, n
<1>7. \A i \in 1..n : waiting[i] = EventAt(Oldest + i - 1) OBVIOUS
<1> HIDE DEF waiting
<1>8. /\ Accepted \in Seq(Events) /\ Len(Accepted) = Oldest + n
      /\ \A i \in 1..(Oldest + n) :
           Accepted[i] = IF i <= Oldest THEN delivered[i] ELSE waiting[i - Oldest]
  BY <1>1, <1>2, <1>5, <1>6
<1>9. Oldest + n = enqueuePosition BY <1>1 DEF n
<1>10. \A i \in (Oldest + 1)..enqueuePosition : Accepted[i] = EventAt(i - 1)
  <2> SUFFICES ASSUME NEW i \in (Oldest + 1)..enqueuePosition PROVE Accepted[i] = EventAt(i - 1)
    OBVIOUS
  <2>1. i \in 1..(Oldest + n) /\ ~(i <= Oldest) /\ i - Oldest \in 1..n
        /\ Oldest + (i - Oldest) - 1 = i - 1
    BY <1>1, <1>3, <1>9
  <2> QED BY <1>7, <1>8, <2>1
<1> QED BY <1>1, <1>2, <1>8, <1>9, <1>10 DEF AcceptedShape

\* The order only grows, by the event of the producer that claims a position.
LEMMA AcceptedStep ==
  ASSUME TypeOK, SlotDiscipline, Ledger, TypeOK', SlotDiscipline', Ledger', [RingNext]_ringVars
  PROVE  \/ \E p \in Producers : Claim(p) /\ Claiming(p) /\ Accepted' = Append(Accepted, event[p])
         \/ Accepted' = Accepted /\ enqueuePosition' = enqueuePosition
<1>1. AcceptedShape /\ AcceptedShape' BY AcceptedAt, PTL
<1>2. ASSUME NEW i \in (Oldest' + 1)..enqueuePosition
      PROVE  EventAt(i - 1)' = Accepted[i]
  <2>1. Oldest \in Nat /\ enqueuePosition \in Nat /\ Oldest' \in {Oldest, Oldest + 1}
    BY <1>1, WindowStep DEF AcceptedShape, Claiming
  <2>2. i - 1 \in Oldest..(enqueuePosition - 1) /\ i - 1 >= Oldest' /\ i \in (Oldest + 1)..enqueuePosition
    <3>1. CASE Oldest' = Oldest BY <1>2, <2>1, <3>1
    <3>2. CASE Oldest' = Oldest + 1 BY <1>2, <2>1, <3>2
    <3> QED BY <2>1, <3>1, <3>2
  <2>3. EventAt(i - 1)' = EventAt(i - 1) BY <2>2, EventStays
  <2> QED BY <1>1, <2>2, <2>3 DEF AcceptedShape
<1>3. ASSUME NEW p \in Producers, Claim(p), Claiming(p)
      PROVE  Accepted' = Append(Accepted, event[p])
  <2>1. /\ enqueuePosition' = enqueuePosition + 1 /\ Oldest' = Oldest /\ delivered' = delivered
        /\ Claims(p)' /\ position'[p] = enqueuePosition /\ event'[p] = event[p]
    BY <1>3 DEF Claiming, Claims
  <2>2. event[p] \in Events BY <1>3 DEF Claiming, SlotDiscipline, ContentsWhole
  <2>3. ASSUME NEW i \in Nat, i = enqueuePosition PROVE Accepted'[i + 1] = event[p]
    <3>1. ClaimedEvents' BY EventAtClaimed, PTL
    <3>2. EventAt(i)' = event[p] BY <2>1, <2>3, <3>1 DEF ClaimedEvents
    <3>3. i + 1 \in (Oldest' + 1)..enqueuePosition' /\ (i + 1) - 1 = i
      BY <1>1, <2>1, <2>3 DEF AcceptedShape
    <3> QED BY <1>1, <3>2, <3>3 DEF AcceptedShape
  <2>4. Accepted'[enqueuePosition + 1] = event[p] BY <1>1, <2>3 DEF AcceptedShape
  <2>5. \A i \in 1..enqueuePosition : Accepted'[i] = Accepted[i]
    BY <1>1, <1>2, <2>1 DEF AcceptedShape
  <2> QED BY <1>1, <2>1, <2>2, <2>4, <2>5 DEF AcceptedShape
<1>4. ASSUME enqueuePosition' = enqueuePosition, Oldest' = Oldest, delivered' = delivered
      PROVE  Accepted' = Accepted
  <2>1. \A i \in 1..enqueuePosition : Accepted'[i] = Accepted[i]
    BY <1>1, <1>2, <1>4 DEF AcceptedShape
  <2> QED BY <1>1, <1>4, <2>1 DEF AcceptedShape
<1>5. ASSUME ReleaseSlot, reader = "copied", enqueuePosition' = enqueuePosition,
             Oldest = dequeuePosition, Oldest' = Oldest + 1,
             delivered' = Append(delivered, readerEvent)
      PROVE  Accepted' = Accepted
  <2>1. slotSequence[Slot(dequeuePosition)] = dequeuePosition + 1 /\ readerEvent = slotEvent[Slot(dequeuePosition)]
    BY <1>5 DEF SlotDiscipline, ReaderOnPublished, Ledger
  <2>2. EventAt(Oldest) = readerEvent
    BY <1>5, <2>1, EventAtPublished DEF PublishedEvents, Published
  <2>3. Oldest < enqueuePosition BY <1>1, <1>5 DEF AcceptedShape
  <2>4. Accepted[Oldest + 1] = readerEvent BY <1>1, <2>2, <2>3 DEF AcceptedShape
  <2>5. \A i \in 1..Oldest : Accepted'[i] = Accepted[i]
    <3>1. \A i \in 1..Oldest : delivered'[i] = delivered[i] BY <1>1, <1>5 DEF AcceptedShape
    <3> QED BY <1>1, <1>5, <3>1 DEF AcceptedShape
  <2>6. Accepted'[Oldest + 1] = readerEvent
    <3>1. delivered'[Oldest + 1] = readerEvent BY <1>1, <1>5 DEF AcceptedShape
    <3> QED BY <1>1, <1>5, <3>1 DEF AcceptedShape
  <2>7. \A i \in (Oldest + 2)..enqueuePosition : Accepted'[i] = Accepted[i]
    BY <1>1, <1>2, <1>5 DEF AcceptedShape
  <2>8. \A i \in 1..enqueuePosition : Accepted'[i] = Accepted[i]
    <3>1. Oldest \in Nat /\ enqueuePosition \in Nat BY <1>1 DEF AcceptedShape
    <3> QED BY <2>4, <2>5, <2>6, <2>7, <3>1
  <2> QED BY <1>1, <1>5, <2>8 DEF AcceptedShape
<1> QED BY <1>3, <1>4, <1>5, WindowStep
-----------------------------------------------------------------------------
(* The counters.                                                           *)

\* There is only one remainder.
LEMMA OneRemainder ==
  ASSUME NEW m \in Nat, m >= 1, NEW q \in Nat, NEW r \in 0..(m - 1),
         NEW s \in Nat, NEW t \in 0..(m - 1), m * q + r = m * s + t
  PROVE  r = t
<1>1. ASSUME NEW a \in Nat, NEW b \in Nat, a < b PROVE m * a + m <= m * b
  <2>1. PICK d \in Nat : b = a + 1 + d
    <3>1. b - a - 1 \in Nat /\ b = a + 1 + (b - a - 1) BY <1>1
    <3> QED BY <3>1
  <2>2. m * b = m * a + m + m * d BY <2>1, SMT
  <2>3. m * d \in Nat /\ m * a \in Nat BY <2>1, SMT
  <2> QED BY <2>2, <2>3, SMT
<1>2. m * q \in Nat /\ m * s \in Nat OBVIOUS
<1>3. ~(q < s)
  <2> SUFFICES ASSUME q < s PROVE FALSE OBVIOUS
  <2>1. m * q + m <= m * s BY <1>1
  <2> QED BY <2>1, <1>2
<1>4. ~(s < q)
  <2> SUFFICES ASSUME s < q PROVE FALSE OBVIOUS
  <2>1. m * s + m <= m * q BY <1>1
  <2> QED BY <2>1, <1>2
<1>5. q = s BY <1>3, <1>4
<1> QED BY <1>2, <1>5

\* Reducing a summand first does not change a sum of the 32-bit counters.
LEMMA SumModulus ==
  ASSUME NEW a \in Nat, NEW b \in Nat
  PROVE  ((a % CounterModulus) + b) % CounterModulus = (a + b) % CounterModulus
<1> DEFINE m == CounterModulus
<1>1. m \in Nat /\ m >= 1 BY CounterAssumption
<1> HIDE DEF m
<1>2. ASSUME NEW i \in Nat
      PROVE  i \div m \in Nat /\ i % m \in 0..(m - 1) /\ i = m * (i \div m) + (i % m)
  BY <1>1, SMT
<1>3. PICK q \in Nat, r \in 0..(m - 1) : r = a % m /\ a = m * q + r BY <1>2
<1>4. r \in Nat /\ r + b \in Nat /\ a + b \in Nat BY <1>1
<1>5. PICK s \in Nat, t \in 0..(m - 1) : t = (r + b) % m /\ r + b = m * s + t BY <1>2, <1>4
<1>6. PICK u \in Nat, v \in 0..(m - 1) : v = (a + b) % m /\ a + b = m * u + v BY <1>2, <1>4
<1>7. m * (q + s) + t = m * u + v
  <2>1. m * (q + s) = m * q + m * s BY <1>1, SMT
  <2>2. m * q \in Nat /\ m * s \in Nat /\ m * u \in Nat BY <1>1, SMT
  <2> QED BY <1>1, <1>3, <1>5, <1>6, <2>1, <2>2
<1>8. t = v
  <2>1. q + s \in Nat OBVIOUS
  <2> QED BY <1>1, <1>7, <2>1, OneRemainder
<1> QED BY <1>3, <1>5, <1>6, <1>8 DEF m

\* The sets behind the two counts are finite although Producers need not be.
Finite == IsFiniteSet(InFlight)

\* What a step does to the producers in flight and to those that will drop.
Taking(p) ==  \* p takes an event number
  /\ p \notin InFlight /\ InFlight' = InFlight \union {p} /\ Dropping' = Dropping
  /\ eventSequence' = Increment(eventSequence)
  /\ enqueuePosition' = enqueuePosition /\ droppedEvents' = droppedEvents
Deciding(p) ==  \* p decides to drop its event
  /\ InFlight' = InFlight
  /\ p \notin Dropping /\ Dropping' = Dropping \union {p}
  /\ UNCHANGED counterVars
Counting(p) ==  \* p counts its event as dropped
  /\ p \in InFlight /\ InFlight' = InFlight \ {p}
  /\ p \in Dropping /\ Dropping' = Dropping \ {p}
  /\ droppedEvents' = Increment(droppedEvents)
  /\ enqueuePosition' = enqueuePosition /\ eventSequence' = eventSequence
Placing(p) ==  \* p gets a position for its event
  /\ p \in InFlight /\ InFlight' = InFlight \ {p} /\ Dropping' = Dropping
  /\ enqueuePosition' = enqueuePosition + 1
  /\ droppedEvents' = droppedEvents /\ eventSequence' = eventSequence
Elsewhere ==
  InFlight' = InFlight /\ Dropping' = Dropping /\ UNCHANGED counterVars

LEMMA CountersStep ==
  ASSUME TypeOK, [RingNext]_ringVars
  PROVE  \/ \E p \in Producers : Begin(p) /\ Taking(p)
         \/ \E p \in Producers : Inspect(p) /\ Deciding(p)
         \/ \E p \in Producers : Drop(p) /\ Counting(p)
         \/ \E p \in Producers : Claim(p) /\ Claiming(p) /\ Placing(p)
         \/ Elsewhere
<1> USE DEF At, Goto, Return, producerVars, wakeVars, readerVars, slotVars, counterVars,
            InFlight, Dropping
<1>0. /\ pc \in [Producers -> ProducerStates] /\ position \in [Producers -> Nat]
      /\ enqueuePosition \in Nat
  BY DEF TypeOK
<1>1. ASSUME NEW p \in Producers, Begin(p) PROVE Taking(p)
  BY <1>0, <1>1 DEF Begin, Taking
<1>2. ASSUME NEW p \in Producers, Inspect(p) PROVE Deciding(p) \/ Elsewhere
  <2>1. CASE Goto(p, "drop") BY <1>0, <1>2, <2>1 DEF Inspect, Deciding
  <2>2. CASE Goto(p, "cas") \/ Goto(p, "load") BY <1>0, <1>2, <2>2 DEF Inspect, Elsewhere
  <2> QED BY <1>2, <2>1, <2>2 DEF Inspect
<1>3. ASSUME NEW p \in Producers, Drop(p) PROVE Counting(p)
  BY <1>0, <1>3 DEF Drop, Counting
<1>4. ASSUME NEW p \in Producers, Claim(p) PROVE (Claiming(p) /\ Placing(p)) \/ Elsewhere
  <2>1. CASE enqueuePosition = position[p]
    BY <1>0, <1>4, <2>1 DEF Claim, Claiming, Placing, Oldest
  <2>2. CASE enqueuePosition # position[p] BY <1>0, <1>4, <2>2 DEF Claim, Elsewhere
  <2> QED BY <2>1, <2>2
<1>5. ASSUME NEW p \in Producers,
             LoadPosition(p) \/ BeginCopy(p) \/ FinishCopy(p) \/ Publish(p) \/ Kill(p)
      PROVE  Elsewhere
  BY <1>0, <1>5 DEF LoadPosition, BeginCopy, FinishCopy, Publish, Kill, Elsewhere
<1>6. ASSUME NEW p \in Producers, TakeWake(p) \/ Signal(p) \/ Unsignal(p) PROVE Elsewhere
  BY <1>0, <1>6 DEF TakeWake, Signal, Unsignal, Elsewhere
<1>7. CASE RingReader
  BY <1>7 DEF RingReader, TryRead, ReadBegin, CopyOut, ReleaseSlot, AdvanceDequeue,
              ClearWakePending, ConsumeWake, Elsewhere
<1>8. CASE UNCHANGED ringVars BY <1>8 DEF ringVars, Elsewhere
<1> QED
  BY <1>1, <1>2, <1>3, <1>4, <1>5, <1>6, <1>7, <1>8 DEF RingNext, Producer, Emit

LEMMA FiniteInit == RingInit => Finite
  BY FS_EmptySet DEF RingInit, InFlight, Finite

LEMMA FiniteStep == TypeOK /\ Finite /\ [RingNext]_ringVars => Finite'
<1> SUFFICES ASSUME TypeOK, Finite, [RingNext]_ringVars PROVE Finite' OBVIOUS
<1>1. ASSUME NEW p PROVE IsFiniteSet(InFlight \union {p}) /\ IsFiniteSet(InFlight \ {p})
  BY FS_AddElement, FS_RemoveElement DEF Finite
<1> QED
  BY <1>1, CountersStep DEF Finite, Taking, Deciding, Counting, Placing, Elsewhere

\* Sizes of the two sets before and after a step.
LEMMA InFlightSizes ==
  ASSUME Finite
  PROVE  /\ Cardinality(InFlight) \in Nat /\ Cardinality(Dropping) \in Nat
         /\ \A p : p \notin InFlight => Cardinality(InFlight \union {p}) = Cardinality(InFlight) + 1
         /\ \A p : p \in InFlight => Cardinality(InFlight) = Cardinality(InFlight \ {p}) + 1
         /\ \A p : p \notin Dropping => Cardinality(Dropping \union {p}) = Cardinality(Dropping) + 1
         /\ \A p : p \in Dropping => Cardinality(Dropping) = Cardinality(Dropping \ {p}) + 1
         /\ \A p : Cardinality(InFlight \ {p}) \in Nat /\ Cardinality(Dropping \ {p}) \in Nat
<1>1. IsFiniteSet(InFlight) /\ IsFiniteSet(Dropping)
  <2>1. Dropping \in SUBSET InFlight BY DEF InFlight, Dropping
  <2> QED BY <2>1, FS_Subset DEF Finite
<1>2. ASSUME NEW S, IsFiniteSet(S)
      PROVE  /\ Cardinality(S) \in Nat
             /\ \A p : p \notin S => Cardinality(S \union {p}) = Cardinality(S) + 1
             /\ \A p : p \in S => Cardinality(S) = Cardinality(S \ {p}) + 1
             /\ \A p : Cardinality(S \ {p}) \in Nat
  <2>1. Cardinality(S) \in Nat BY <1>2, FS_CardinalityType
  <2>2. ASSUME NEW p, p \notin S PROVE Cardinality(S \union {p}) = Cardinality(S) + 1
    BY <1>2, <2>2, FS_AddElement
  <2>3. ASSUME NEW p, p \in S PROVE Cardinality(S) = Cardinality(S \ {p}) + 1
    BY <1>2, <2>1, <2>3, FS_RemoveElement
  <2>4. ASSUME NEW p PROVE Cardinality(S \ {p}) \in Nat
    <3>1. IsFiniteSet(S \ {p}) BY <1>2, FS_RemoveElement
    <3> QED BY <3>1, FS_CardinalityType
  <2> QED BY <2>1, <2>2, <2>3, <2>4
<1> QED BY <1>1, <1>2

LEMMA AccountingInit == RingInit => Accounting
<1> SUFFICES ASSUME RingInit PROVE Accounting OBVIOUS
<1>1. InFlight = {} BY DEF RingInit, InFlight
<1>2. (0 + 0 + 0) % CounterModulus = 0 BY CounterAssumption
<1> QED BY <1>1, <1>2, FS_EmptySet DEF RingInit, Accounting

LEMMA AccountingStep ==
  TypeOK /\ Finite /\ Accounting /\ [RingNext]_ringVars => Accounting'
<1> SUFFICES ASSUME TypeOK, Finite, Accounting, [RingNext]_ringVars PROVE Accounting' OBVIOUS
<1> DEFINE n == Cardinality(InFlight)
           d == droppedEvents
           e == enqueuePosition
<1>1. n \in Nat /\ d \in Nat /\ e \in Nat /\ eventSequence \in Nat
  BY InFlightSizes, CounterAssumption DEF TypeOK
<1>2. eventSequence = (n + d + e) % CounterModulus BY DEF Accounting
<1>3. ASSUME NEW p, Taking(p) PROVE Accounting'
  <2>1. Cardinality(InFlight') = n + 1 BY <1>3, InFlightSizes DEF Taking
  <2>2. PICK s \in Nat : s = n + d + e BY <1>1
  <2>3. ((s % CounterModulus) + 1) % CounterModulus = (s + 1) % CounterModulus BY SumModulus
  <2>4. s + 1 = (n + 1) + d + e BY <1>1, <2>2
  <2> QED BY <1>2, <1>3, <2>1, <2>2, <2>3, <2>4 DEF Taking, Increment, Accounting
<1>4. ASSUME NEW p, Counting(p) PROVE Accounting'
  <2>1. PICK c \in Nat : c = Cardinality(InFlight') /\ n = c + 1
    BY <1>4, InFlightSizes DEF Counting
  <2>2. PICK x \in Nat : x = d + 1 BY <1>1
  <2>3. PICK y \in Nat : y = c + e BY <1>1, <2>1
  <2>4. PICK z \in Nat : z = x % CounterModulus BY CounterAssumption, SMT
  <2>5. (z + y) % CounterModulus = (x + y) % CounterModulus BY <2>4, SumModulus
  <2>6. x + y = n + d + e /\ z + y = c + z + e BY <1>1, <2>1, <2>2, <2>3
  <2>7. droppedEvents' = z /\ enqueuePosition' = e /\ eventSequence' = eventSequence
    BY <1>4, <2>2, <2>4 DEF Counting, Increment
  <2> QED BY <1>2, <2>1, <2>5, <2>6, <2>7 DEF Accounting
<1>5. ASSUME NEW p, Placing(p) PROVE Accounting'
  <2>1. PICK c \in Nat : c = Cardinality(InFlight') /\ n = c + 1
    BY <1>5, InFlightSizes DEF Placing
  <2>2. c + d + (e + 1) = n + d + e BY <1>1, <2>1
  <2> QED BY <1>2, <1>5, <2>1, <2>2 DEF Placing, Accounting
<1>6. ASSUME NEW p, Deciding(p) \/ Elsewhere PROVE Accounting'
  BY <1>6 DEF Deciding, Elsewhere, Accounting, counterVars
<1> QED BY <1>3, <1>4, <1>5, <1>6, CountersStep

\* Each number taken from eventSequence is in flight, was counted as dropped,
\* or has a position in the ring, across every wrap of the two counters.
THEOREM AccountingHolds == RingSpec => []Accounting
  BY TypeCorrect, FiniteInit, FiniteStep, AccountingInit, AccountingStep, PTL DEF RingSpec

-----------------------------------------------------------------------------
(* The refinement of TracePipe.                                            *)

LEMMA PipeInit == RingInit => Pipe!Init
<1> SUFFICES ASSUME RingInit PROVE Pipe!Init OBVIOUS
<1>1. Oldest = 0 /\ enqueuePosition = 0 /\ delivered = <<>> BY DEF RingInit, Oldest
<1>2. Accepted = <<>> BY <1>1 DEF Accepted
<1>3. ReadyIndices = {} BY <1>1 DEF ReadyIndices
<1>4. Lost = 0
  <2>1. Dropping = {} /\ droppedEvents = 0 BY DEF RingInit, Dropping
  <2>2. (0 + 0) % CounterModulus = 0 BY CounterAssumption
  <2> QED BY <2>1, <2>2, FS_EmptySet DEF Lost
<1> QED BY <1>1, <1>2, <1>3, <1>4 DEF Pipe!Init

\* How the set of ready events changes with the window and the sequence
\* numbers of the slots.
LEMMA ReadySame ==
  ASSUME TypeOK, Oldest' = Oldest, enqueuePosition' = enqueuePosition,
         slotSequence' = slotSequence
  PROVE  ReadyIndices' = ReadyIndices
  BY DEF ReadyIndices, Published

LEMMA ReadyClaim ==
  ASSUME TypeOK, SlotDiscipline, TypeOK', SlotDiscipline',
         NEW p \in Producers, Claim(p), Claiming(p)
  PROVE  ReadyIndices' = ReadyIndices
<1>1. /\ enqueuePosition \in Nat /\ enqueuePosition' = enqueuePosition + 1
      /\ Oldest' = Oldest /\ Oldest \in Nat /\ Oldest <= enqueuePosition
  BY OldestTyped DEF Claiming, TypeOK, SlotDiscipline, PositionsInWindow
<1>2. slotSequence' = slotSequence BY DEF Claim, slotVars
<1>3. slotSequence[Slot(enqueuePosition)] = enqueuePosition
  BY DEF Claiming, SlotDiscipline, StalePositions
<1>4. ASSUME NEW i \in Nat, i = enqueuePosition + 1 PROVE i \notin ReadyIndices'
  <2>1. i - 1 = enqueuePosition /\ ~(i <= Oldest') BY <1>1, <1>4
  <2> QED BY <1>1, <1>2, <1>3, <2>1 DEF ReadyIndices, Published
<1>5. ASSUME NEW i \in 1..enqueuePosition PROVE i \in ReadyIndices' <=> i \in ReadyIndices
  BY <1>1, <1>2 DEF ReadyIndices, Published
<1>6. ReadyIndices \subseteq 1..enqueuePosition /\ ReadyIndices' \subseteq 1..(enqueuePosition + 1)
  BY <1>1 DEF ReadyIndices
<1>7. enqueuePosition + 1 \notin ReadyIndices' BY <1>1, <1>4
<1>8. ASSUME NEW i \in ReadyIndices' PROVE i \in ReadyIndices
  <2>1. i \in 1..enqueuePosition BY <1>1, <1>6, <1>7, <1>8
  <2> QED BY <1>5, <1>8, <2>1
<1> QED BY <1>5, <1>6, <1>8

LEMMA ReadyPublish ==
  ASSUME TypeOK, SlotDiscipline, NEW p \in Producers, Publish(p)
  PROVE  /\ position[p] + 1 \in (1..enqueuePosition) \ ReadyIndices
         /\ ReadyIndices' = ReadyIndices \union {position[p] + 1}
<1>1. Claims(p) BY DEF Publish, At, Claims
<1>2. /\ position[p] \in Oldest..(enqueuePosition - 1)
      /\ slotSequence[Slot(position[p])] = position[p]
  BY <1>1 DEF SlotDiscipline, ClaimsDisjoint
<1>3. Oldest \in Nat /\ enqueuePosition \in Nat /\ position[p] \in Nat
  BY OldestTyped DEF TypeOK
<1>4. /\ slotSequence' = [slotSequence EXCEPT ![Slot(position[p])] = position[p] + 1]
      /\ Oldest' = Oldest /\ enqueuePosition' = enqueuePosition
  BY DEF Publish, Oldest, readerVars, counterVars
<1>5. slotSequence \in [Slots -> Nat] /\ Slot(position[p]) \in Slots
  BY <1>3, SlotInRing DEF TypeOK
<1>6. ASSUME NEW i \in 1..enqueuePosition, i # position[p] + 1
      PROVE  i \in ReadyIndices' <=> i \in ReadyIndices
  <2>1. CASE i <= Oldest BY <1>4, <2>1 DEF ReadyIndices
  <2>2. CASE ~(i <= Oldest)
    <3>1. i - 1 \in Oldest..(enqueuePosition - 1) /\ i - 1 # position[p]
      BY <1>3, <1>6, <2>2
    <3>2. Slot(i - 1) # Slot(position[p]) /\ Slot(i - 1) \in Slots
      BY <1>2, <3>1, SlotsDiffer
    <3>3. slotSequence'[Slot(i - 1)] = slotSequence[Slot(i - 1)] BY <1>4, <1>5, <3>2
    <3> QED BY <1>4, <3>3 DEF ReadyIndices, Published
  <2> QED BY <2>1, <2>2
<1>7. ASSUME NEW i \in Nat, i = position[p] + 1
      PROVE  i \in 1..enqueuePosition /\ i \notin ReadyIndices /\ i \in ReadyIndices'
  <2>1. i \in 1..enqueuePosition /\ ~(i <= Oldest) /\ i - 1 = position[p]
    BY <1>2, <1>3, <1>7
  <2>2. slotSequence'[Slot(position[p])] = position[p] + 1 BY <1>4, <1>5
  <2> QED BY <1>2, <1>3, <1>4, <2>1, <2>2 DEF ReadyIndices, Published
<1>8. position[p] + 1 \in Nat BY <1>3
<1>9. ReadyIndices \subseteq 1..enqueuePosition /\ ReadyIndices' \subseteq 1..enqueuePosition
  BY <1>4 DEF ReadyIndices
<1> QED BY <1>6, <1>7, <1>8, <1>9

LEMMA ReadyRelease ==
  ASSUME TypeOK, SlotDiscipline, ReleaseSlot
  PROVE  Oldest + 1 \in ReadyIndices /\ ReadyIndices' = ReadyIndices
<1>1. /\ Oldest = dequeuePosition /\ Oldest' = dequeuePosition + 1 /\ dequeuePosition \in Nat
      /\ enqueuePosition' = enqueuePosition /\ enqueuePosition \in Nat
      /\ slotSequence' = [slotSequence EXCEPT ![Slot(dequeuePosition)] = dequeuePosition + Capacity]
      /\ slotSequence[Slot(dequeuePosition)] = dequeuePosition + 1
      /\ reader = "copied"
  BY DEF ReleaseSlot, Oldest, TypeOK, counterVars, SlotDiscipline, ReaderOnPublished
<1>2. dequeuePosition < enqueuePosition
  BY <1>1, ReaderInWindow DEF SlotDiscipline
<1>3. ASSUME NEW i \in Nat, i = Oldest + 1
      PROVE  i \in ReadyIndices /\ i \in ReadyIndices'
  <2>1. i \in 1..enqueuePosition /\ i - 1 = dequeuePosition /\ i <= Oldest'
    BY <1>1, <1>2, <1>3
  <2> QED BY <1>1, <2>1 DEF ReadyIndices, Published
<1>4. ASSUME NEW i \in 1..enqueuePosition, i # Oldest + 1
      PROVE  i \in ReadyIndices' <=> i \in ReadyIndices
  <2>1. CASE i <= Oldest
    <3>1. i <= Oldest' BY <1>1, <2>1
    <3> QED BY <1>1, <2>1, <3>1 DEF ReadyIndices
  <2>2. CASE ~(i <= Oldest)
    <3>1. i - 1 \in Oldest..(enqueuePosition - 1) /\ i - 1 # dequeuePosition /\ ~(i <= Oldest')
          /\ dequeuePosition \in Oldest..(enqueuePosition - 1)
      BY <1>1, <1>2, <1>4, <2>2
    <3>2. Slot(i - 1) # Slot(dequeuePosition) /\ Slot(i - 1) \in Slots
      BY <3>1, SlotsDiffer
    <3>3. slotSequence'[Slot(i - 1)] = slotSequence[Slot(i - 1)]
      BY <1>1, <3>2 DEF TypeOK
    <3> QED BY <1>1, <2>2, <3>1, <3>3 DEF ReadyIndices, Published
  <2> QED BY <2>1, <2>2
<1>5. Oldest + 1 \in Nat BY <1>1
<1>6. ReadyIndices \subseteq 1..enqueuePosition /\ ReadyIndices' \subseteq 1..enqueuePosition
  BY <1>1 DEF ReadyIndices
<1> QED BY <1>3, <1>4, <1>5, <1>6

\* The same, for the count of lost events.
LEMMA LostSame ==
  ASSUME Elsewhere \/ \E p \in Producers : Taking(p) \/ Placing(p)
  PROVE  Lost' = Lost
  BY DEF Elsewhere, Taking, Placing, Lost, counterVars

LEMMA LostDeciding ==
  ASSUME TypeOK, Finite, NEW p, Deciding(p)
  PROVE  Lost' = (Lost + 1) % CounterModulus
<1>1. PICK c \in Nat : c = Cardinality(Dropping) BY InFlightSizes
<1>2. Cardinality(Dropping') = c + 1 BY <1>1, InFlightSizes DEF Deciding
<1>3. PICK s \in Nat : s = droppedEvents + c BY <1>1, CounterAssumption DEF TypeOK
<1>4. ((s % CounterModulus) + 1) % CounterModulus = (s + 1) % CounterModulus BY SumModulus
<1>5. droppedEvents' + (c + 1) = s + 1
  BY <1>1, <1>3, CounterAssumption DEF Deciding, counterVars, TypeOK
<1> QED BY <1>1, <1>2, <1>3, <1>4, <1>5 DEF Lost

LEMMA LostCounting ==
  ASSUME TypeOK, Finite, NEW p, Counting(p)
  PROVE  Lost' = Lost
<1>1. PICK c \in Nat : c = Cardinality(Dropping') /\ Cardinality(Dropping) = c + 1
  BY InFlightSizes DEF Counting
<1>2. PICK x \in Nat : x = droppedEvents + 1 BY CounterAssumption DEF TypeOK
<1>3. ((x % CounterModulus) + c) % CounterModulus = (x + c) % CounterModulus BY SumModulus
<1>4. droppedEvents' = x % CounterModulus BY <1>2 DEF Counting, Increment
<1>5. x + c = droppedEvents + (c + 1) BY <1>1, <1>2, CounterAssumption DEF TypeOK
<1> QED BY <1>1, <1>3, <1>4, <1>5 DEF Lost

\* Only publication and release touch a sequence number.
LEMMA SequenceStep ==
  ASSUME TypeOK, [RingNext]_ringVars
  PROVE  \/ \E p \in Producers : Publish(p)
         \/ ReleaseSlot
         \/ slotSequence' = slotSequence /\ Oldest' = Oldest /\ delivered' = delivered
<1> USE DEF producerVars, wakeVars, readerVars, slotVars, counterVars, Oldest
<1> DEFINE Same == slotSequence' = slotSequence /\ Oldest' = Oldest /\ delivered' = delivered
<1>1. ASSUME NEW p \in Producers, Begin(p) \/ Kill(p) PROVE Same BY <1>1 DEF Begin, Kill
<1>2. ASSUME NEW p \in Producers,
             LoadPosition(p) \/ Inspect(p) \/ Drop(p) \/ Claim(p) \/ BeginCopy(p) \/ FinishCopy(p)
               \/ TakeWake(p) \/ Signal(p) \/ Unsignal(p)
      PROVE  Same
  BY <1>2 DEF LoadPosition, Inspect, Drop, Claim, BeginCopy, FinishCopy, TakeWake, Signal, Unsignal
<1>3. CASE ReadBegin \/ CopyOut \/ AdvanceDequeue \/ ClearWakePending \/ ConsumeWake
  BY <1>3 DEF ReadBegin, CopyOut, AdvanceDequeue, ClearWakePending, ConsumeWake, TypeOK
<1>4. CASE UNCHANGED ringVars BY <1>4 DEF ringVars
<1> QED BY <1>1, <1>2, <1>3, <1>4 DEF RingNext, Producer, Emit, RingReader, TryRead

\* Step by step: a claim accepts the event, publication makes it ready, the
\* release of a slot takes it, the decision to drop loses it, and every other
\* step leaves the pipe alone.
LEMMA PipeStep ==
  TypeOK /\ SlotDiscipline /\ Ledger /\ Finite /\ TypeOK' /\ SlotDiscipline' /\ Ledger'
    /\ [RingNext]_ringVars => [Pipe!Next]_(Pipe!pipeVars)
<1> SUFFICES ASSUME TypeOK, SlotDiscipline, Ledger, Finite, TypeOK', SlotDiscipline', Ledger',
                    [RingNext]_ringVars
             PROVE  Pipe!Next \/ UNCHANGED Pipe!pipeVars
  OBVIOUS
<1> USE DEF Pipe!Next, Pipe!pipeVars
<1>1. AcceptedShape /\ AcceptedShape' BY AcceptedAt, PTL
<1>2. ASSUME NEW p \in Producers, Claim(p), Claiming(p), Placing(p) PROVE Pipe!Accept
  <2>1. ReadyIndices' = ReadyIndices BY <1>2, ReadyClaim
  <2>2. Lost' = Lost BY <1>2, LostSame
  <2>3. delivered' = delivered BY <1>2 DEF Claiming
  <2>4. event[p] \in Events BY <1>2 DEF Claiming, SlotDiscipline, ContentsWhole
  <2>5. Accepted' = Append(Accepted, event[p])
    <3>1. enqueuePosition' # enqueuePosition BY <1>1, <1>2 DEF Claiming, AcceptedShape
    <3>2. PICK q \in Producers : Claim(q) /\ Claiming(q) /\ Accepted' = Append(Accepted, event[q])
      BY <3>1, AcceptedStep
    <3>3. q = p BY <1>2, <3>2 DEF Claim, Claiming, Goto, TypeOK
    <3> QED BY <3>2, <3>3
  <2>6. ~Pipe!Full
    <3>1. enqueuePosition + 1 <= Oldest + Capacity
      BY <1>2 DEF Claiming, SlotDiscipline, PositionsInWindow
    <3> QED BY <1>1, <3>1, CapacityAssumption DEF Pipe!Full, AcceptedShape
  <2> QED BY <2>1, <2>2, <2>3, <2>4, <2>5, <2>6 DEF Pipe!Accept
<1>3. ASSUME enqueuePosition' = enqueuePosition PROVE Accepted' = Accepted
  <2>1. ~\E p \in Producers : Claiming(p) BY <1>1, <1>3 DEF Claiming, AcceptedShape
  <2> QED BY <2>1, AcceptedStep
<1>4. ASSUME NEW p \in Producers, Inspect(p), Deciding(p) PROVE Pipe!Lose
  <2>1. UNCHANGED <<slotSequence, reader, dequeuePosition, delivered, enqueuePosition>>
    BY <1>4 DEF Inspect, slotVars, readerVars, counterVars
  <2>2. ReadyIndices' = ReadyIndices BY <2>1, ReadySame DEF Oldest
  <2>3. Lost' = (Lost + 1) % CounterModulus BY <1>4, LostDeciding
  <2>4. enqueuePosition = Oldest + Capacity
    <3>1. pc[p] = "inspect" /\ pc'[p] = "drop"
      BY <1>4 DEF Inspect, Deciding, Dropping, At, Goto, TypeOK
    <3>2. RingNext BY <1>4 DEF RingNext, Producer, Emit
    <3> QED BY <3>1, <3>2, DropStep
  <2>5. Pipe!Full BY <1>1, <2>4, CapacityAssumption DEF Pipe!Full, AcceptedShape
  <2> QED BY <1>3, <2>1, <2>2, <2>3, <2>5 DEF Pipe!Lose
<1>5. ASSUME NEW p \in Producers, Begin(p), Taking(p) PROVE UNCHANGED Pipe!pipeVars
  <2>1. UNCHANGED <<slotSequence, reader, dequeuePosition, delivered, enqueuePosition>>
    BY <1>5 DEF Begin, slotVars, readerVars
  <2>2. ReadyIndices' = ReadyIndices BY <2>1, ReadySame DEF Oldest
  <2> QED BY <1>3, <1>5, <2>1, <2>2, LostSame
<1>6. ASSUME NEW p \in Producers, Drop(p), Counting(p) PROVE UNCHANGED Pipe!pipeVars
  <2>1. UNCHANGED <<slotSequence, reader, dequeuePosition, delivered, enqueuePosition>>
    BY <1>6 DEF Drop, slotVars, readerVars
  <2>2. ReadyIndices' = ReadyIndices BY <2>1, ReadySame DEF Oldest
  <2>3. Lost' = Lost BY <1>6, LostCounting
  <2> QED BY <1>3, <2>1, <2>2, <2>3
<1>7. ASSUME Elsewhere PROVE Pipe!Next \/ UNCHANGED Pipe!pipeVars
  <2>1. Accepted' = Accepted /\ Lost' = Lost /\ enqueuePosition' = enqueuePosition
    BY <1>3, <1>7, LostSame DEF Elsewhere, counterVars
  <2>2. ASSUME NEW p \in Producers, Publish(p) PROVE Pipe!MakeReady
    <3>1. /\ position[p] + 1 \in (1..enqueuePosition) \ ReadyIndices
          /\ ReadyIndices' = ReadyIndices \union {position[p] + 1}
      BY <2>2, ReadyPublish
    <3>2. delivered' = delivered BY <2>2 DEF Publish, readerVars
    <3> QED BY <1>1, <2>1, <3>1, <3>2 DEF Pipe!MakeReady, AcceptedShape
  <2>3. CASE ReleaseSlot
    <3>1. Oldest + 1 \in ReadyIndices /\ ReadyIndices' = ReadyIndices BY <2>3, ReadyRelease
    <3>2. /\ delivered' = Append(delivered, readerEvent) /\ Oldest = dequeuePosition
          /\ reader = "copied"
      BY <2>3 DEF ReleaseSlot, Oldest
    <3>3. EventAt(dequeuePosition) = readerEvent
      <4>1. Published(dequeuePosition) /\ readerEvent = slotEvent[Slot(dequeuePosition)]
        BY <3>2 DEF SlotDiscipline, ReaderOnPublished, Published, Ledger
      <4> QED BY <4>1, EventAtPublished DEF PublishedEvents
    <3>4. Oldest + 1 \in (Oldest + 1)..enqueuePosition /\ (Oldest + 1) - 1 = Oldest
      BY <1>1, <3>1 DEF ReadyIndices, AcceptedShape
    <3>5. Accepted[Len(delivered) + 1] = readerEvent
      BY <1>1, <3>2, <3>3, <3>4 DEF AcceptedShape
    <3> QED BY <1>1, <2>1, <3>1, <3>2, <3>5 DEF Pipe!Take, AcceptedShape
  <2>4. CASE slotSequence' = slotSequence /\ Oldest' = Oldest /\ delivered' = delivered
    BY <2>1, <2>4, ReadySame
  <2> QED BY <2>2, <2>3, <2>4, SequenceStep
<1> QED BY <1>2, <1>4, <1>5, <1>6, <1>7, CountersStep

\* The ring is the pipe: events are taken whole, once, in the order of their
\* positions and without gaps, and lost only when the ring is full, whatever
\* the producers do and whenever they are terminated.
THEOREM RefinesPipeHolds == RingSpec => RefinesPipe
<1>1. RingSpec => [](TypeOK /\ SlotDiscipline /\ Ledger /\ Finite)
  BY TypeCorrect, SlotDisciplineHolds, LedgerHolds, FiniteInit, FiniteStep, PTL DEF RingSpec
<1> QED BY <1>1, PipeInit, PipeStep, PTL DEF RingSpec, RefinesPipe, Pipe!Spec

-----------------------------------------------------------------------------
(* The order of one thread's events.                                       *)

\* While EmitTraceEvent runs, its event is the thread's latest.
OwnEvents ==
  \A p \in Producers : pc[p] # "idle" => event[p] = [thread |-> p, call |-> calls[p]]

\* The events of a thread have their positions in the order of its calls, and
\* one that still has no position is later than all of them.
Ordered ==
  /\ \A i, j \in 1..enqueuePosition :
       i < j /\ Accepted[i].thread = Accepted[j].thread => Accepted[i].call < Accepted[j].call
  /\ \A p \in Producers : \A i \in 1..enqueuePosition : Accepted[i].thread = p =>
       /\ Accepted[i].call <= calls[p]
       /\ p \in InFlight => Accepted[i].call < calls[p]

LEMMA OwnEventsInit == RingInit => OwnEvents
  BY DEF RingInit, OwnEvents

LEMMA OwnEventsStep == TypeOK /\ OwnEvents /\ [RingNext]_ringVars => OwnEvents'
<1> SUFFICES ASSUME TypeOK, OwnEvents, [RingNext]_ringVars PROVE OwnEvents' OBVIOUS
<1> USE DEF OwnEvents, At, Goto, Return, producerVars, wakeVars, readerVars, slotVars, counterVars
<1>0. /\ pc \in [Producers -> ProducerStates] /\ calls \in [Producers -> Nat]
      /\ event \in [Producers -> Events \union {Empty}]
  BY DEF TypeOK
<1>1. ASSUME NEW p \in Producers, Begin(p) PROVE OwnEvents'
  BY <1>0, <1>1 DEF Begin
<1>2. ASSUME NEW p \in Producers,
             LoadPosition(p) \/ Inspect(p) \/ Drop(p) \/ Claim(p) \/ BeginCopy(p) \/ FinishCopy(p)
      PROVE  OwnEvents'
  BY <1>0, <1>2 DEF LoadPosition, Inspect, Drop, Claim, BeginCopy, FinishCopy
<1>3. ASSUME NEW p \in Producers, Publish(p) \/ TakeWake(p) \/ Signal(p) \/ Unsignal(p) \/ Kill(p)
      PROVE  OwnEvents'
  BY <1>0, <1>3 DEF Publish, TakeWake, Signal, Unsignal, Kill
<1>4. CASE RingReader
  BY <1>4 DEF RingReader, TryRead, ReadBegin, CopyOut, ReleaseSlot, AdvanceDequeue,
              ClearWakePending, ConsumeWake
<1>5. CASE UNCHANGED ringVars BY <1>5 DEF ringVars
<1> QED BY <1>1, <1>2, <1>3, <1>4, <1>5 DEF RingNext, Producer, Emit

LEMMA OrderedInit == RingInit => Ordered
  BY DEF RingInit, Ordered

\* calls only grows, and whoever newly is in flight has just begun a call.
LEMMA CallsStep ==
  ASSUME TypeOK, [RingNext]_ringVars, NEW p \in Producers
  PROVE  \/ calls'[p] = calls[p] /\ (p \in InFlight' => p \in InFlight)
         \/ calls'[p] = calls[p] + 1
<1> USE DEF At, Goto, Return, producerVars, wakeVars, readerVars, slotVars, counterVars, InFlight
<1>0. pc \in [Producers -> ProducerStates] /\ calls \in [Producers -> Nat] BY DEF TypeOK
<1> DEFINE Grows == \/ calls'[p] = calls[p] /\ (p \in InFlight' => p \in InFlight)
                    \/ calls'[p] = calls[p] + 1
<1>1. ASSUME NEW q \in Producers, Begin(q) PROVE Grows BY <1>0, <1>1 DEF Begin
<1>2. ASSUME NEW q \in Producers,
             LoadPosition(q) \/ Inspect(q) \/ Drop(q) \/ Claim(q) \/ BeginCopy(q) \/ FinishCopy(q)
      PROVE  Grows
  BY <1>0, <1>2 DEF LoadPosition, Inspect, Drop, Claim, BeginCopy, FinishCopy
<1>3. ASSUME NEW q \in Producers, Publish(q) \/ TakeWake(q) \/ Signal(q) \/ Unsignal(q) \/ Kill(q)
      PROVE  Grows
  BY <1>0, <1>3 DEF Publish, TakeWake, Signal, Unsignal, Kill
<1>4. CASE RingReader
  BY <1>4 DEF RingReader, TryRead, ReadBegin, CopyOut, ReleaseSlot, AdvanceDequeue,
              ClearWakePending, ConsumeWake
<1>5. CASE UNCHANGED ringVars BY <1>5 DEF ringVars
<1> QED BY <1>1, <1>2, <1>3, <1>4, <1>5 DEF RingNext, Producer, Emit

LEMMA OrderedStep ==
  TypeOK /\ SlotDiscipline /\ Ledger /\ OwnEvents /\ Ordered
    /\ TypeOK' /\ SlotDiscipline' /\ Ledger' /\ [RingNext]_ringVars => Ordered'
<1> SUFFICES ASSUME TypeOK, SlotDiscipline, Ledger, OwnEvents, Ordered,
                    TypeOK', SlotDiscipline', Ledger', [RingNext]_ringVars
             PROVE  Ordered'
  OBVIOUS
<1>1. AcceptedShape /\ AcceptedShape' BY AcceptedAt, PTL
<1>2. ASSUME NEW i \in 1..enqueuePosition
      PROVE  Accepted[i] \in Events /\ Accepted[i].call \in Nat
  <2>1. Accepted[i] \in Events BY <1>1 DEF AcceptedShape
  <2>2. \A e \in Events : e.call \in Nat BY BoundAssumption DEF Events
  <2> QED BY <2>1, <2>2
<1>3. calls \in [Producers -> Nat] BY DEF TypeOK
<1>4. CASE Accepted' = Accepted /\ enqueuePosition' = enqueuePosition
  <2>1. ASSUME NEW p \in Producers, NEW i \in 1..enqueuePosition, Accepted[i].thread = p
        PROVE  /\ Accepted[i].call <= calls'[p]
               /\ p \in InFlight' => Accepted[i].call < calls'[p]
    <3>1. /\ Accepted[i].call <= calls[p]
          /\ p \in InFlight => Accepted[i].call < calls[p]
      BY <2>1 DEF Ordered
    <3>2. CASE calls'[p] = calls[p] /\ (p \in InFlight' => p \in InFlight)
      BY <3>1, <3>2
    <3>3. CASE calls'[p] = calls[p] + 1
      BY <1>2, <1>3, <3>1, <3>3
    <3> QED BY <3>2, <3>3, CallsStep
  <2> QED BY <1>4, <2>1 DEF Ordered
<1>5. ASSUME NEW p \in Producers, Claim(p), Claiming(p), Accepted' = Append(Accepted, event[p])
      PROVE  Ordered'
  <2>1. /\ enqueuePosition \in Nat /\ enqueuePosition' = enqueuePosition + 1
        /\ Accepted \in Seq(Events) /\ Len(Accepted) = enqueuePosition
    BY <1>1, <1>5 DEF Claiming, AcceptedShape
  <2>2. /\ event[p] = [thread |-> p, call |-> calls[p]] /\ p \in InFlight
        /\ event[p] \in Events
    BY <1>5 DEF Claiming, OwnEvents, InFlight, SlotDiscipline, ContentsWhole
  <2>3. /\ \A i \in 1..enqueuePosition : Accepted'[i] = Accepted[i]
        /\ \A i \in Nat : i = enqueuePosition + 1 => Accepted'[i] = event[p]
    BY <1>5, <2>1, <2>2
  <2>4. /\ calls' = calls /\ p \notin InFlight' /\ \A q : q \in InFlight' => q \in InFlight
    <3>1. calls' = calls BY <1>5 DEF Claim
    <3>2. pc'[p] = "copy" BY <1>5 DEF Claiming
    <3>3. pc' = [pc EXCEPT ![p] = "copy"]
      BY <1>5 DEF Claim, Claiming, Goto, TypeOK
    <3> QED BY <3>1, <3>2, <3>3 DEF InFlight, TypeOK
  <2>5. ASSUME NEW i \in 1..enqueuePosition, Accepted[i].thread = p
        PROVE  Accepted[i].call < calls[p]
    BY <2>2, <2>5 DEF Ordered
  <2>6. ASSUME NEW i \in 1..enqueuePosition', NEW j \in 1..enqueuePosition', i < j,
               Accepted'[i].thread = Accepted'[j].thread
        PROVE  Accepted'[i].call < Accepted'[j].call
    <3>1. i \in 1..enqueuePosition /\ (j \in 1..enqueuePosition \/ j = enqueuePosition + 1)
      BY <2>1, <2>6
    <3>2. CASE j \in 1..enqueuePosition BY <2>3, <2>6, <3>1, <3>2 DEF Ordered
    <3>3. CASE j = enqueuePosition + 1
      BY <2>1, <2>2, <2>3, <2>5, <2>6, <3>1, <3>3
    <3> QED BY <3>1, <3>2, <3>3
  <2>7. ASSUME NEW q \in Producers, NEW i \in 1..enqueuePosition', Accepted'[i].thread = q
        PROVE  /\ Accepted'[i].call <= calls'[q]
               /\ q \in InFlight' => Accepted'[i].call < calls'[q]
    <3>1. i \in 1..enqueuePosition \/ i = enqueuePosition + 1 BY <2>1
    <3>2. CASE i \in 1..enqueuePosition BY <2>3, <2>4, <2>7, <3>2 DEF Ordered
    <3>3. CASE i = enqueuePosition + 1 BY <1>3, <2>1, <2>2, <2>3, <2>4, <2>7, <3>3
    <3> QED BY <3>1, <3>2, <3>3
  <2> QED BY <2>6, <2>7 DEF Ordered
<1> QED BY <1>4, <1>5, AcceptedStep

LEMMA OrderedDelivered == TypeOK /\ SlotDiscipline /\ Ledger /\ Ordered => PerThreadOrder
<1> SUFFICES ASSUME TypeOK, SlotDiscipline, Ledger, Ordered PROVE PerThreadOrder OBVIOUS
<1>1. AcceptedShape BY AcceptedAt
<1>2. DOMAIN delivered = 1..Oldest /\ \A i \in 1..Oldest : i \in 1..enqueuePosition
  BY <1>1 DEF AcceptedShape
<1>3. \A i \in 1..Oldest : Accepted[i] = delivered[i] BY <1>1 DEF AcceptedShape
<1> QED BY <1>2, <1>3 DEF PerThreadOrder, Ordered

\* TryReadRing returns the events of one thread in the order of its calls and
\* each at most once, although a thread takes its positions in competition
\* with all the others, may lose every race for one, and drops some events.
THEOREM PerThreadOrderHolds == RingSpec => []PerThreadOrder
<1>1. RingSpec => [](TypeOK /\ SlotDiscipline /\ Ledger)
  BY TypeCorrect, SlotDisciplineHolds, LedgerHolds, PTL
<1>2. RingSpec => []OwnEvents
  BY <1>1, OwnEventsInit, OwnEventsStep, PTL DEF RingSpec
<1>3. RingSpec => []Ordered
  BY <1>1, <1>2, OrderedInit, OrderedStep, PTL DEF RingSpec
<1> QED BY <1>1, <1>3, OrderedDelivered, PTL
=============================================================================
