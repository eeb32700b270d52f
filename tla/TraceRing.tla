----------------------------- MODULE TraceRing -----------------------------
(***************************************************************************)
(* The shared-memory ring between the hook image in the traced process     *)
(* (producers: EmitTraceEvent, trace_transport.cpp) and the controller     *)
(* (the one reader: TryReadRing, trace_session.cpp).                       *)
(*                                                                         *)
(* One action is one access that other threads can observe: an Interlocked *)
(* operation, the start and the end of an event copy, one SetEvent call.   *)
(* A producer can be killed between any two of them: the traced program    *)
(* may terminate its own threads and its exit terminates all the others.   *)
(***************************************************************************)
EXTENDS Integers, Sequences, FiniteSets

CONSTANTS Producers,      \* the traced program's threads that run hooks
          Capacity,       \* TRACE_RING_CAPACITY, 4096 in the source
          CounterModulus, \* 2^32: eventSequence and droppedEvents are LONGs
          MaxCalls,       \* bound: EmitTraceEvent calls per producer
          Faults          \* environment failures that may happen

\* Slot sequence i + 1 means "position i published", i + Capacity "slot free
\* for position i + Capacity": a capacity of 1, which the power-of-two
\* static_assert admits, would confuse the two.
ASSUME CapacityAssumption == Capacity \in Nat /\ Capacity >= 2
ASSUME CounterAssumption == CounterModulus \in Nat /\ CounterModulus >= 2
ASSUME BoundAssumption == MaxCalls \in Nat

\* "SetEvent": NtSetEvent may fail; "Kill": threads may be terminated;
\* "Wait": WaitForMultipleObjects may fail (TraceSession).
ASSUME FaultsAssumption == Faults \subseteq {"SetEvent", "Kill", "Wait"}

VARIABLES
  enqueuePosition, dequeuePosition,
  slotSequence, slotEvent,         \* TraceRingSlot::sequence and ::event
  eventSequence, droppedEvents,
  wakePending,                     \* TraceRing::wakePending
  wakeEvent,                       \* the auto-reset event is signalled
  pc, position, event,             \* each producer's place in EmitTraceEvent
  calls,                           \* events each producer has begun to emit
  alive,                           \* producers not terminated
  reader, readerEvent,             \* the reader's place in TryReadRing
  delivered                        \* history: what TryReadRing returned

producerVars == <<pc, position, event, calls, alive>>
wakeVars == <<wakePending, wakeEvent>>
readerVars == <<reader, readerEvent, dequeuePosition, delivered>>
slotVars == <<slotSequence, slotEvent>>
counterVars == <<enqueuePosition, eventSequence, droppedEvents>>
ringVars == <<counterVars, slotVars, producerVars, wakeVars, readerVars>>

\* A recorded event: the thread that made it and that thread's how-manieth it
\* is.  Its text, header.sequence included, is only carried along.
Events == [thread : Producers, call : 1..MaxCalls]
Torn == [thread |-> "torn"]        \* a slot whose copy is in progress
Empty == [thread |-> "none"]       \* zero-filled memory

Slot(i) == i % Capacity
Slots == 0..(Capacity - 1)

ProducerStates == {"idle", "load", "inspect", "drop", "cas", "copy", "copying",
                   "publish", "wake", "signal", "unsignal"}
ReaderStates == {"idle", "copying", "copied", "released"}

\* Producers between the claim of a position and its publication.
Claims(p) == pc[p] \in {"copy", "copying", "publish"}
\* The oldest position whose slot the reader has not given back: it gives the
\* slot back just before it moves dequeuePosition.
Oldest == IF reader = "released" THEN dequeuePosition + 1 ELSE dequeuePosition

RingInit ==
  /\ enqueuePosition = 0
  /\ dequeuePosition = 0
  /\ slotSequence = [s \in Slots |-> s]
  /\ slotEvent = [s \in Slots |-> Empty]
  /\ eventSequence = 0
  /\ droppedEvents = 0
  /\ wakePending = FALSE
  /\ wakeEvent = FALSE
  /\ pc = [p \in Producers |-> "idle"]
  /\ position = [p \in Producers |-> 0]
  /\ event = [p \in Producers |-> Empty]
  /\ calls = [p \in Producers |-> 0]
  /\ alive = [p \in Producers |-> TRUE]
  /\ reader = "idle"
  /\ readerEvent = Empty
  /\ delivered = <<>>

-----------------------------------------------------------------------------
(* Producers: EmitTraceEvent.                                              *)

At(p, label) == alive[p] /\ pc[p] = label
Goto(p, label) == pc' = [pc EXCEPT ![p] = label]
\* EmitTraceEvent returns; its locals are gone.
Return(p) ==
  /\ Goto(p, "idle")
  /\ position' = [position EXCEPT ![p] = 0]
  /\ event' = [event EXCEPT ![p] = Empty]
IncrementUnbounded(counter) == counter + 1  \* defect: no wrap-around
Increment(counter) == (counter + 1) % CounterModulus

\* The call passes the validity checks and takes its sequence number.
Begin(p) ==
  /\ At(p, "idle")
  /\ calls[p] < MaxCalls
  /\ calls' = [calls EXCEPT ![p] = @ + 1]
  /\ eventSequence' = Increment(eventSequence)
  /\ event' = [event EXCEPT ![p] = [thread |-> p, call |-> calls[p] + 1]]
  /\ Goto(p, "load")
  /\ UNCHANGED <<enqueuePosition, droppedEvents, position, alive,
                 slotVars, wakeVars, readerVars>>

LoadPosition(p) ==
  /\ At(p, "load")
  /\ position' = [position EXCEPT ![p] = enqueuePosition]
  /\ Goto(p, "inspect")
  /\ UNCHANGED <<event, calls, alive, counterVars, slotVars, wakeVars, readerVars>>

Difference(p) == slotSequence[Slot(position[p])] - position[p]

\* Defects: a position that went stale is taken for a full ring; a full ring
\* makes the producer wait.
InspectDropsStale(p) ==
  /\ At(p, "inspect")
  /\ Goto(p, IF Difference(p) = 0 THEN "cas" ELSE "drop")
  /\ UNCHANGED <<position, event, calls, alive, counterVars, slotVars, wakeVars, readerVars>>
InspectWaits(p) ==
  /\ At(p, "inspect")
  /\ Goto(p, IF Difference(p) = 0 THEN "cas" ELSE "load")
  /\ UNCHANGED <<position, event, calls, alive, counterVars, slotVars, wakeVars, readerVars>>

Inspect(p) ==
  /\ At(p, "inspect")
  /\ \/ Difference(p) < 0 /\ Goto(p, "drop")
     \/ Difference(p) = 0 /\ Goto(p, "cas")
     \/ Difference(p) > 0 /\ Goto(p, "load")
  /\ UNCHANGED <<position, event, calls, alive, counterVars, slotVars, wakeVars, readerVars>>

DropUncounted(p) ==  \* defect: the event vanishes from the statistics
  /\ At(p, "drop")
  /\ Return(p)
  /\ UNCHANGED <<counterVars, calls, alive, slotVars, wakeVars, readerVars>>

Drop(p) ==
  /\ At(p, "drop")
  /\ droppedEvents' = Increment(droppedEvents)
  /\ Return(p)
  /\ UNCHANGED <<enqueuePosition, eventSequence, calls, alive,
                 slotVars, wakeVars, readerVars>>

ClaimUncompared(p) ==  \* defect: a plain store in place of the compare-exchange
  /\ At(p, "cas")
  /\ enqueuePosition' = position[p] + 1
  /\ Goto(p, "copy")
  /\ UNCHANGED <<eventSequence, droppedEvents, position, event, calls, alive,
                 slotVars, wakeVars, readerVars>>

Claim(p) ==
  /\ At(p, "cas")
  /\ \/ /\ enqueuePosition = position[p]
        /\ enqueuePosition' = position[p] + 1
        /\ Goto(p, "copy")
     \/ /\ enqueuePosition # position[p]
        /\ Goto(p, "load")
        /\ UNCHANGED enqueuePosition
  /\ UNCHANGED <<eventSequence, droppedEvents, position, event, calls, alive,
                 slotVars, wakeVars, readerVars>>

BeginCopyPublished(p) ==  \* defect: the slot is published before the copy
  /\ At(p, "copy")
  /\ slotEvent' = [slotEvent EXCEPT ![Slot(position[p])] = Torn]
  /\ slotSequence' = [slotSequence EXCEPT ![Slot(position[p])] = position[p] + 1]
  /\ Goto(p, "copying")
  /\ UNCHANGED <<position, event, calls, alive, counterVars, wakeVars, readerVars>>

BeginCopy(p) ==
  /\ At(p, "copy")
  /\ slotEvent' = [slotEvent EXCEPT ![Slot(position[p])] = Torn]
  /\ Goto(p, "copying")
  /\ UNCHANGED <<slotSequence, position, event, calls, alive, counterVars, wakeVars, readerVars>>

FinishCopy(p) ==
  /\ At(p, "copying")
  /\ slotEvent' = [slotEvent EXCEPT ![Slot(position[p])] = event[p]]
  /\ Goto(p, "publish")
  /\ UNCHANGED <<slotSequence, position, event, calls, alive, counterVars, wakeVars, readerVars>>

Publish(p) ==
  /\ At(p, "publish")
  /\ slotSequence' = [slotSequence EXCEPT ![Slot(position[p])] = position[p] + 1]
  /\ Goto(p, "wake")
  /\ UNCHANGED <<slotEvent, position, event, calls, alive, counterVars, wakeVars, readerVars>>

\* Whoever turns wakePending on owes the reader a SetEvent.
TakeWake(p) ==
  /\ At(p, "wake")
  /\ wakePending' = TRUE
  /\ \/ wakePending /\ Return(p)
     \/ ~wakePending /\ Goto(p, "signal") /\ UNCHANGED <<position, event>>
  /\ UNCHANGED <<wakeEvent, calls, alive, counterVars, slotVars, readerVars>>

Signal(p) ==
  /\ At(p, "signal")
  /\ \/ /\ wakeEvent' = TRUE
        /\ Return(p)
     \/ /\ "SetEvent" \in Faults
        /\ Goto(p, "unsignal")
        /\ UNCHANGED <<wakeEvent, position, event>>
  /\ UNCHANGED <<wakePending, calls, alive, counterVars, slotVars, readerVars>>

UnsignalForgets(p) ==  \* defect: the flag stays on after a failed SetEvent
  /\ At(p, "unsignal")
  /\ Return(p)
  /\ UNCHANGED <<wakeVars, calls, alive, counterVars, slotVars, readerVars>>

Unsignal(p) ==
  /\ At(p, "unsignal")
  /\ wakePending' = FALSE
  /\ Return(p)
  /\ UNCHANGED <<wakeEvent, calls, alive, counterVars, slotVars, readerVars>>

\* The thread is terminated inside EmitTraceEvent. (A thread terminated
\* between two calls is one that makes no more of them.)
Kill(p) ==
  /\ "Kill" \in Faults
  /\ alive[p] /\ pc[p] # "idle"
  /\ alive' = [alive EXCEPT ![p] = FALSE]
  /\ UNCHANGED <<pc, position, event, calls, counterVars, slotVars, wakeVars, readerVars>>

Emit(p) == \/ LoadPosition(p) \/ Inspect(p) \/ Drop(p) \/ Claim(p)
           \/ BeginCopy(p) \/ FinishCopy(p) \/ Publish(p)
           \/ TakeWake(p) \/ Signal(p) \/ Unsignal(p)

Producer(p) == Begin(p) \/ Emit(p) \/ Kill(p)

-----------------------------------------------------------------------------
(* The reader: TryReadRing, and the two places where it touches the wake   *)
(* state.                                                                  *)

ReadableByPosition == dequeuePosition < enqueuePosition  \* defect: claimed is not published
Readable == slotSequence[Slot(dequeuePosition)] = dequeuePosition + 1

ReadBegin ==
  /\ reader = "idle"
  /\ Readable
  /\ reader' = "copying"
  /\ UNCHANGED <<readerEvent, dequeuePosition, delivered,
                 counterVars, slotVars, producerVars, wakeVars>>

CopyOut ==
  /\ reader = "copying"
  /\ reader' = "copied"
  /\ readerEvent' = slotEvent[Slot(dequeuePosition)]
  /\ UNCHANGED <<dequeuePosition, delivered, counterVars, slotVars, producerVars, wakeVars>>

ReleaseSlotLate ==  \* defect: off by one lap position
  /\ reader = "copied"
  /\ reader' = "released"
  /\ slotSequence' = [slotSequence EXCEPT
                        ![Slot(dequeuePosition)] = dequeuePosition + Capacity + 1]
  /\ delivered' = Append(delivered, readerEvent)
  /\ UNCHANGED <<readerEvent, dequeuePosition, slotEvent, counterVars, producerVars, wakeVars>>

ReleaseSlot ==
  /\ reader = "copied"
  /\ reader' = "released"
  /\ slotSequence' = [slotSequence EXCEPT
                        ![Slot(dequeuePosition)] = dequeuePosition + Capacity]
  /\ delivered' = Append(delivered, readerEvent)
  /\ UNCHANGED <<readerEvent, dequeuePosition, slotEvent, counterVars, producerVars, wakeVars>>

AdvanceDequeue ==
  /\ reader = "released"
  /\ reader' = "idle"
  /\ dequeuePosition' = dequeuePosition + 1
  /\ UNCHANGED <<readerEvent, delivered, counterVars, slotVars, producerVars, wakeVars>>

ClearWakePending ==
  /\ reader = "idle"
  /\ wakePending' = FALSE
  /\ UNCHANGED <<wakeEvent, counterVars, slotVars, producerVars, readerVars>>

\* The wait on the auto-reset event is satisfied and resets it.
ConsumeWake ==
  /\ reader = "idle"
  /\ wakeEvent
  /\ wakeEvent' = FALSE
  /\ UNCHANGED <<wakePending, counterVars, slotVars, producerVars, readerVars>>

TryRead == ReadBegin \/ CopyOut \/ ReleaseSlot \/ AdvanceDequeue
RingReader == TryRead \/ ClearWakePending \/ ConsumeWake

RingNext == (\E p \in Producers : Producer(p)) \/ RingReader

RingSpec == RingInit /\ [][RingNext]_ringVars

RingFairness == \A p \in Producers : WF_ringVars(Emit(p))

-----------------------------------------------------------------------------
(* Properties.                                                             *)

TypeOK ==
  /\ enqueuePosition \in Nat
  /\ dequeuePosition \in Nat
  /\ slotSequence \in [Slots -> Nat]
  /\ slotEvent \in [Slots -> Events \union {Empty, Torn}]
  /\ eventSequence \in 0..(CounterModulus - 1)
  /\ droppedEvents \in 0..(CounterModulus - 1)
  /\ wakePending \in BOOLEAN
  /\ wakeEvent \in BOOLEAN
  /\ pc \in [Producers -> ProducerStates]
  /\ position \in [Producers -> Nat]
  /\ event \in [Producers -> Events \union {Empty}]
  /\ calls \in [Producers -> Nat]
  /\ alive \in [Producers -> BOOLEAN]
  /\ reader \in ReaderStates
  /\ readerEvent \in Events \union {Empty, Torn}
  /\ delivered \in Seq(Events \union {Empty, Torn})

\* EmitTraceEvent and TryReadRing copy whole events with plain stores and
\* loads.  A slot being written belongs to one producer, and never to the
\* reader at the same time, whatever any thread remembered of the positions.
SlotOwnership ==
  /\ \A p, q \in Producers :
       p # q /\ Claims(p) /\ Claims(q) => Slot(position[p]) # Slot(position[q])
  /\ \A p \in Producers :
       Claims(p) /\ reader \in {"copying", "copied"} => Slot(position[p]) # Slot(dequeuePosition)

\* TryReadRing never hands out a slot that is still being copied into, or
\* that nobody wrote.
WholeEvents == \A i \in DOMAIN delivered : delivered[i] \in Events

\* Why those two hold: the discipline of slot sequence numbers.  Positions
\* below enqueuePosition that the reader has not released are either claimed
\* by one producer or published; the next ones up to a full ring are free; and
\* a producer about to claim a position that is still next sees it free.
PositionsInWindow ==
  /\ Oldest <= enqueuePosition /\ enqueuePosition <= Oldest + Capacity
  /\ \A i \in Oldest..(enqueuePosition - 1) : slotSequence[Slot(i)] \in {i, i + 1}
  /\ \A i \in enqueuePosition..(Oldest + Capacity - 1) : slotSequence[Slot(i)] = i
ClaimsDisjoint ==
  /\ \A p \in Producers : Claims(p) =>
       /\ position[p] \in Oldest..(enqueuePosition - 1)
       /\ slotSequence[Slot(position[p])] = position[p]
  /\ \A p, q \in Producers : Claims(p) /\ Claims(q) /\ position[p] = position[q] => p = q
StalePositions ==
  \A p \in Producers :
    /\ pc[p] \in {"inspect", "cas"} => position[p] <= enqueuePosition
    /\ pc[p] = "cas" /\ position[p] = enqueuePosition =>
         slotSequence[Slot(enqueuePosition)] = enqueuePosition
ReaderOnPublished ==
  reader \in {"copying", "copied"} => slotSequence[Slot(dequeuePosition)] = dequeuePosition + 1
ContentsWhole ==
  /\ \A p \in Producers : pc[p] # "idle" => event[p] \in Events
  /\ \A p \in Producers : pc[p] = "publish" => slotEvent[Slot(position[p])] \in Events
  /\ \A i \in Oldest..(enqueuePosition - 1) :
       slotSequence[Slot(i)] = i + 1 => slotEvent[Slot(i)] \in Events
  /\ reader = "copied" => readerEvent \in Events
  /\ WholeEvents
SlotDiscipline ==
  PositionsInWindow /\ ClaimsDisjoint /\ StalePositions /\ ReaderOnPublished /\ ContentsWhole

\* The events one thread records come out in the order it made the calls,
\* each at most once, although sequence numbers are taken before positions.
PerThreadOrder ==
  \A i, j \in {k \in DOMAIN delivered : delivered[k] \in Events} :
    i < j /\ delivered[i].thread = delivered[j].thread => delivered[i].call < delivered[j].call

\* The counters account for every event: each number taken from
\* eventSequence is in flight, was dropped, or has a position in the ring.
InFlight == {p \in Producers : pc[p] \in {"load", "inspect", "drop", "cas"}}
Accounting ==
  eventSequence = (Cardinality(InFlight) + droppedEvents + enqueuePosition) % CounterModulus

\* "Producers never wait for the reader" (README.md), nor for a producer
\* that was terminated between its claim and its publication: every call
\* returns although nothing makes the reader run.
ProducersNeverWait ==
  \A p \in Producers : pc[p] # "idle" ~> (pc[p] = "idle" \/ ~alive[p])

\* The ring implements the pipe.  A position i is occupied by the event its
\* claimant will copy there until it is published, by the slot's afterwards.
Published(i) == slotSequence[Slot(i)] = i + 1
EventAt(i) == IF Published(i) THEN slotEvent[Slot(i)]
              ELSE event[CHOOSE p \in Producers : Claims(p) /\ position[p] = i]

\* Every event that has a position, what was delivered first.
Accepted == delivered \o [i \in 1..(enqueuePosition - Oldest) |-> EventAt(Oldest + i - 1)]
\* Positions count from 0 and the order from 1.
ReadyIndices == {i \in 1..enqueuePosition : i <= Oldest \/ Published(i - 1)}
\* A producer that has decided to drop has lost its event already.
Dropping == {p \in Producers : pc[p] = "drop"}
Lost == (droppedEvents + Cardinality(Dropping)) % CounterModulus

Pipe == INSTANCE TracePipe WITH
  Messages <- Events,
  Bound <- Capacity,
  LossModulus <- CounterModulus,
  accepted <- Accepted,
  ready <- ReadyIndices,
  taken <- delivered,
  lost <- Lost

\* Every behaviour of the ring is one of TracePipe: events are taken whole,
\* once, in claim order, without gaps, and lost only when the ring is full.
RefinesPipe == Pipe!Spec
=============================================================================
