------------------------- MODULE TraceSessionProofs -------------------------
(***************************************************************************)
(* Proofs about TraceSession, for any number of hook threads, any sizes of *)
(* ring, queue and batch, any faults and any way the session ends.         *)
(***************************************************************************)
EXTENDS TraceSession, TraceRingProofs

\* Every step of the session is a step of the ring or leaves it alone.
LEMMA SessionStepUsesRing == [Next]_vars => [RingNext]_ringVars
<1> SUFFICES ASSUME [Next]_vars PROVE RingNext \/ UNCHANGED ringVars
  OBVIOUS
<1>1. ASSUME NEW p \in Producers, Hook(p) PROVE RingNext
  BY <1>1 DEF Hook, HookBegins, HookRuns, HookKilled, RingNext, Producer
<1>2. CASE ReaderLoop
  <2>1. CASE ReaderReads BY <2>1 DEF ReaderReads, RingNext, RingReader
  <2>2. CASE ReaderClearsWake BY <2>2 DEF ReaderClearsWake, RingNext, RingReader
  <2>3. CASE ReaderWoken BY <2>3 DEF ReaderWoken, RingNext, RingReader
  <2>4. CASE \/ ReaderEndsBatch \/ ReaderQueues \/ ReaderSleeps \/ ReaderNotifies
             \/ ReaderReports \/ ReaderFindsNothing \/ ReaderStopping \/ ReaderWaitFails
             \/ ReaderFinishes \/ ReaderReturns
    BY <2>4 DEF ReaderEndsBatch, ReaderQueues, ReaderSleeps, ReaderNotifies, ReaderReports,
                ReaderFindsNothing, ReaderStopping, ReaderWaitFails, ReaderFinishes,
                ReaderReturns
  <2> QED BY <1>2, <2>1, <2>2, <2>3, <2>4 DEF ReaderLoop
<1>3. CASE WriterLoop
  BY <1>3 DEF WriterLoop, WriterPops, WriterSleeps, WriterReturns, WriterNotifies, WriterRenders
<1>4. ASSUME NEW how \in Endings, EndSession(how) PROVE UNCHANGED ringVars
  BY <1>4 DEF EndSession
<1>5. CASE Stop
  BY <1>5 DEF Stop, SetStopEvent, JoinReader, JoinWriter
<1>6. CASE UNCHANGED vars BY <1>6 DEF vars
<1> QED BY <1>1, <1>2, <1>3, <1>4, <1>5, <1>6 DEF Next

\* ReaderLoop, WriterLoop, Stop and Drain touch the shared memory only in the
\* ways TraceRing describes, so that what is proved of the ring holds of it
\* in a session.
LEMMA SessionUsesRing == Spec => RingSpec
<1>1. Init => RingInit BY DEF Init
<1> QED BY <1>1, SessionStepUsesRing, PTL DEF Spec, RingSpec

\* In a session too, however it ends, no slot is copied into by two hook
\* threads or copied into and out of at once.
THEOREM SessionSlotOwnership == Spec => []SlotOwnership
  BY SessionUsesRing, SlotOwnershipHolds, PTL

-----------------------------------------------------------------------------
(* What the session may rely on: the ring keeps its types and discipline.  *)

RingSound == TypeOK /\ SlotDiscipline

LEMMA SessionRingSound == Spec => []RingSound
  BY SessionUsesRing, TypeCorrect, SlotDisciplineHolds, PTL DEF RingSound

\* A hook thread's step leaves the controller's two threads and its reader
\* alone.
LEMMA HookLeavesSession ==
  ASSUME NEW p \in Producers, Hook(p)
  PROVE  UNCHANGED sessionVars /\ UNCHANGED readerVars /\ TargetRuns
  BY DEF Hook, HookBegins, HookRuns, HookKilled, Begin, Emit, LoadPosition, Inspect, Drop, Claim,
         BeginCopy, FinishCopy, Publish, TakeWake, Signal, Unsignal, Kill, readerVars

-----------------------------------------------------------------------------
(* The hand-over from the ring to the reader, the queue and the writer.    *)

\* Outside TryReadRing the reader is idle; what it carries from the ring to
\* the queue is a whole event; the writer holds one only while it works on it.
HandOver ==
  /\ loop \notin {"batch", "raced"} => reader = "idle"
  /\ reader = "released" \/ loop \in {"queue", "sleep"} => readerEvent \in Events
  /\ writer \notin {"notify", "render"} => writerEvent = <<>>

LEMMA SessionInit == Init => SessionTypeOK /\ HandOver /\ PipelineOrder
<1> SUFFICES ASSUME Init PROVE SessionTypeOK /\ HandOver /\ PipelineOrder OBVIOUS
<1> USE DEF Init
<1>1. TypeOK BY TypeInit
<1>2. stopping \in BOOLEAN /\ readerFinished \in BOOLEAN /\ stopEvent \in BOOLEAN BY Zenon
<1>3. queue \in Seq(Events) /\ writerEvent \in Seq(Events) /\ rendered \in Seq(Events)
      /\ Len(queue) = 0 /\ Len(writerEvent) = 0
  OBVIOUS
<1>4. reader = "idle" /\ delivered = <<>> BY DEF RingInit
<1>5. SessionTypeOK
  BY <1>1, <1>2, <1>3, QueueAssumption, BatchAssumption, CounterAssumption
  DEF SessionTypeOK, LoopStates
<1>6. HandOver BY <1>4 DEF HandOver
<1>7. PipelineOrder BY <1>4 DEF PipelineOrder, InReadersHand
<1> QED BY <1>5, <1>6, <1>7

\* The types of the variables that only the session has.
LEMMA SessionTypeStep ==
  ASSUME SessionTypeOK, HandOver, TypeOK', [Next]_vars
  PROVE  SessionTypeOK'
<1> USE DEF SessionTypeOK, LoopGoto, WakeWriter, LoopStates, readerLoopVars, writerVars,
            controllerVars, sessionVars
<1> HIDE DEF TypeOK
<1>1. ASSUME NEW p \in Producers, Hook(p) PROVE SessionTypeOK'
  BY <1>1, HookLeavesSession
<1>2. CASE ReaderReads
  <2>1. /\ loop' \in LoopStates /\ UNCHANGED <<stopping, reportedDropped, readerFinished, queue>>
        /\ UNCHANGED <<writer, writerEvent, rendered, ending, controller, stopEvent>>
    BY <1>2 DEF ReaderReads
  <2>2. eventsRead' \in 0..ReadBatch BY <1>2, BatchAssumption DEF ReaderReads
  <2> QED BY <2>1, <2>2
<1>3. CASE ReaderQueues
  <2>1. readerEvent \in Events BY <1>3 DEF ReaderQueues, HandOver
  <2>2. queue' \in Seq(Events) /\ Len(queue') = Len(queue) + 1 BY <1>3, <2>1 DEF ReaderQueues, IsValidTraceEvent
  <2>3. Len(queue') <= QueueCapacity
    BY <1>3, <2>1, <2>2, QueueAssumption DEF ReaderQueues, IsValidTraceEvent
  <2> QED BY <1>3, <2>2, <2>3 DEF ReaderQueues
<1>4. CASE ReaderReports
  <2>1. droppedEvents \in 0..(CounterModulus - 1) BY DEF TypeOK
  <2>2. reportedDropped' \in 0..(CounterModulus - 1) BY <1>4, <2>1 DEF ReaderReports
  <2>3. 0 \in 0..ReadBatch BY BatchAssumption
  <2> QED BY <1>4, <2>2, <2>3 DEF ReaderReports
<1>5. CASE ReaderEndsBatch BY <1>5 DEF ReaderEndsBatch
<1>6. CASE ReaderSleeps BY <1>6 DEF ReaderSleeps
<1>7. CASE ReaderNotifies BY <1>7 DEF ReaderNotifies
<1>8. CASE ReaderClearsWake BY <1>8 DEF ReaderClearsWake
<1>9. CASE ReaderFindsNothing BY <1>9 DEF ReaderFindsNothing
<1>10. CASE ReaderWoken BY <1>10 DEF ReaderWoken
<1>11. CASE ReaderStopping
  <2>1. stopping' \in BOOLEAN BY <1>11, Zenon DEF ReaderStopping
  <2> QED BY <1>11, <2>1 DEF ReaderStopping
<1>12. CASE ReaderWaitFails BY <1>12 DEF ReaderWaitFails
<1>13. CASE ReaderFinishes
  <2>1. readerFinished' \in BOOLEAN BY <1>13, Zenon DEF ReaderFinishes
  <2> QED BY <1>13, <2>1 DEF ReaderFinishes
<1>14. CASE ReaderReturns BY <1>14 DEF ReaderReturns
<1>15. CASE WriterPops
  <2>1. Head(queue) \in Events /\ Tail(queue) \in Seq(Events) /\ Len(Tail(queue)) = Len(queue) - 1
    BY <1>15 DEF WriterPops
  <2>2. writerEvent' \in Seq(Events) /\ Len(writerEvent') = 1 BY <1>15, <2>1 DEF WriterPops
  <2>3. Len(queue') <= QueueCapacity BY <1>15, <2>1, QueueAssumption DEF WriterPops
  <2> QED BY <1>15, <2>1, <2>2, <2>3 DEF WriterPops
<1>16. CASE WriterSleeps BY <1>16 DEF WriterSleeps
<1>17. CASE WriterReturns BY <1>17 DEF WriterReturns
<1>18. CASE WriterNotifies BY <1>18 DEF WriterNotifies
<1>19. CASE WriterRenders
  <2>1. rendered' \in Seq(Events) BY <1>19 DEF WriterRenders
  <2>2. writerEvent' \in Seq(Events) /\ Len(writerEvent') <= 1 BY <1>19 DEF WriterRenders
  <2> QED BY <1>19, <2>1, <2>2 DEF WriterRenders
<1>20. ASSUME NEW how \in Endings, EndSession(how) PROVE SessionTypeOK'
  BY <1>20 DEF EndSession
<1>21. CASE SetStopEvent
  <2>1. stopEvent' \in BOOLEAN BY <1>21, Zenon DEF SetStopEvent
  <2> QED BY <1>21, <2>1 DEF SetStopEvent
<1>22. CASE JoinReader BY <1>22 DEF JoinReader
<1>23. CASE JoinWriter BY <1>23 DEF JoinWriter
<1>24. CASE UNCHANGED vars BY <1>24 DEF vars
<1> QED
  BY <1>1, <1>2, <1>3, <1>4, <1>5, <1>6, <1>7, <1>8, <1>9, <1>10, <1>11, <1>12, <1>13, <1>14,
     <1>15, <1>16, <1>17, <1>18, <1>19, <1>20, <1>21, <1>22, <1>23, <1>24
  DEF Next, ReaderLoop, WriterLoop, Stop

\* What TryReadRing returns is a whole event, and it is what "delivered" ends
\* in; the other accesses of the ring leave the reader's event alone.
LEMMA ReadDelivers ==
  ASSUME TypeOK, SlotDiscipline, TryRead
  PROVE  \/ /\ reader = "copied" /\ reader' = "released"
            /\ readerEvent \in Events /\ readerEvent' = readerEvent
            /\ delivered' = Append(delivered, readerEvent)
         \/ /\ reader # "released" /\ reader' \notin {"idle", "released"}
            /\ delivered' = delivered
         \/ /\ reader = "released" /\ reader' = "idle"
            /\ readerEvent' = readerEvent /\ delivered' = delivered
  BY DEF TryRead, ReadBegin, CopyOut, ReleaseSlot, AdvanceDequeue, SlotDiscipline, ContentsWhole,
         readerVars

LEMMA HandOverStep ==
  ASSUME SessionTypeOK, SlotDiscipline, HandOver, [Next]_vars
  PROVE  HandOver'
<1> USE DEF HandOver, LoopGoto, WakeWriter, readerLoopVars, writerVars, controllerVars,
            sessionVars, readerVars
<1>0. TypeOK BY DEF SessionTypeOK
<1>1. ASSUME NEW p \in Producers, Hook(p) PROVE HandOver'
  BY <1>1, HookLeavesSession
<1>2. CASE ReaderReads
  BY <1>0, <1>2, ReadDelivers DEF ReaderReads
<1>3. CASE \/ ReaderEndsBatch \/ ReaderQueues \/ ReaderSleeps \/ ReaderNotifies \/ ReaderReports
           \/ ReaderFindsNothing \/ ReaderStopping \/ ReaderWaitFails \/ ReaderFinishes
           \/ ReaderReturns
  BY <1>3 DEF ReaderEndsBatch, ReaderQueues, ReaderSleeps, ReaderNotifies, ReaderReports,
              ReaderFindsNothing, ReaderStopping, ReaderWaitFails, ReaderFinishes,
              ReaderReturns, ringVars
<1>4. CASE ReaderClearsWake \/ ReaderWoken
  BY <1>4 DEF ReaderClearsWake, ReaderWoken, ClearWakePending, ConsumeWake
<1>5. CASE WriterLoop
  BY <1>5 DEF WriterLoop, WriterPops, WriterSleeps, WriterReturns, WriterNotifies,
              WriterRenders, ringVars
<1>6. ASSUME NEW how \in Endings, EndSession(how) PROVE HandOver'
  BY <1>6 DEF EndSession, ringVars
<1>7. CASE Stop
  BY <1>7 DEF Stop, SetStopEvent, JoinReader, JoinWriter, ringVars
<1>8. CASE UNCHANGED vars BY <1>8 DEF vars, ringVars
<1> QED BY <1>1, <1>2, <1>3, <1>4, <1>5, <1>6, <1>7, <1>8 DEF Next, ReaderLoop

\* The types of all variables of a session: ring, queue, the event in the
\* writer's hands, and each thread's place.
THEOREM SessionTypeCorrect == Spec => [](SessionTypeOK /\ HandOver)
<1>1. Init => SessionTypeOK /\ HandOver BY SessionInit
<1>2. RingSound /\ RingSound' /\ SessionTypeOK /\ HandOver /\ [Next]_vars
        => (SessionTypeOK /\ HandOver)'
  BY SessionTypeStep, HandOverStep DEF RingSound
<1> QED BY <1>1, <1>2, SessionRingSound, PTL DEF Spec

LEMMA EmptyHand == \A s \in Seq(Events) : s \o <<>> = s
  OBVIOUS

LEMMA PipelineStep ==
  ASSUME SessionTypeOK, HandOver, SlotDiscipline, PipelineOrder, [Next]_vars
  PROVE  PipelineOrder'
<1> USE DEF PipelineOrder, InReadersHand, LoopGoto, WakeWriter, readerLoopVars, writerVars,
            controllerVars, sessionVars, readerVars
<1>0. /\ TypeOK /\ queue \in Seq(Events) /\ writerEvent \in Seq(Events)
      /\ rendered \in Seq(Events) /\ loop \in LoopStates
  BY DEF SessionTypeOK
<1>1. ASSUME NEW p \in Producers, Hook(p) PROVE PipelineOrder'
  BY <1>1, HookLeavesSession
<1>2. CASE ReaderReads
  <2>1. UNCHANGED <<rendered, writerEvent, queue>> /\ loop \notin {"queue", "sleep"}
    BY <1>2 DEF ReaderReads
  <2>2. CASE reader = "copied" /\ reader' = "released"
    <3>1. readerEvent \in Events /\ readerEvent' = readerEvent
          /\ delivered' = Append(delivered, readerEvent)
      BY <1>0, <1>2, <2>2, ReadDelivers DEF ReaderReads
    <3>2. rendered \o writerEvent \o queue \in Seq(Events) BY <1>0
    <3>3. (rendered \o writerEvent \o queue) \o <<>> = delivered BY <2>1, <2>2
    <3>4. rendered \o writerEvent \o queue = delivered BY <3>2, <3>3, EmptyHand
    <3>5. Append(delivered, readerEvent) = delivered \o <<readerEvent>> BY <3>1, <3>2, <3>4
    <3> QED BY <2>1, <2>2, <3>1, <3>4, <3>5
  <2>3. CASE reader # "copied" \/ reader' # "released"
    BY <1>0, <1>2, <2>1, <2>3, ReadDelivers DEF ReaderReads
  <2> QED BY <2>2, <2>3
<1>3. CASE ReaderQueues
  <2>1. readerEvent \in Events /\ reader = "idle" BY <1>3 DEF HandOver, ReaderQueues
  <2>2. /\ queue' = Append(queue, readerEvent) /\ loop = "queue" /\ loop' = "notify"
        /\ UNCHANGED <<rendered, writerEvent, delivered, reader>>
    BY <1>3, <2>1 DEF ReaderQueues, IsValidTraceEvent, ringVars
  <2>3. rendered \o writerEvent \o Append(queue, readerEvent)
          = rendered \o writerEvent \o queue \o <<readerEvent>>
    BY <1>0, <2>1
  <2>4. rendered \o writerEvent \o Append(queue, readerEvent) \in Seq(Events)
    BY <1>0, <2>1
  <2> QED BY <2>1, <2>2, <2>3, <2>4
<1>4. CASE \/ ReaderEndsBatch \/ ReaderSleeps \/ ReaderNotifies \/ ReaderReports
           \/ ReaderFindsNothing \/ ReaderStopping \/ ReaderWaitFails \/ ReaderFinishes
           \/ ReaderReturns
  BY <1>4 DEF ReaderEndsBatch, ReaderSleeps, ReaderNotifies, ReaderReports,
              ReaderFindsNothing, ReaderStopping, ReaderWaitFails, ReaderFinishes,
              ReaderReturns, ringVars
<1>5. CASE ReaderClearsWake \/ ReaderWoken
  BY <1>5 DEF ReaderClearsWake, ReaderWoken, ClearWakePending, ConsumeWake
<1>6. CASE WriterPops
  <2>1. writerEvent = <<>> BY <1>6 DEF HandOver, WriterPops
  <2>2. Head(queue) \in Events /\ Tail(queue) \in Seq(Events) /\ queue = <<Head(queue)>> \o Tail(queue)
    BY <1>0, <1>6 DEF WriterPops
  <2>3. UNCHANGED <<rendered, loop, reader, readerEvent, delivered>>
        /\ writerEvent' = <<Head(queue)>> /\ queue' = Tail(queue)
    BY <1>6 DEF WriterPops, ringVars
  <2>4. rendered \o writerEvent' \o queue' = rendered \o writerEvent \o queue
    BY <1>0, <2>1, <2>2, <2>3
  <2> QED BY <2>3, <2>4
<1>7. CASE WriterRenders
  <2>1. UNCHANGED <<queue, loop, reader, readerEvent, delivered>>
        /\ writerEvent' = <<>> /\ rendered' = rendered \o writerEvent
    BY <1>7 DEF WriterRenders, ringVars
  <2>2. rendered' \o writerEvent' = rendered \o writerEvent BY <1>0, <2>1
  <2> QED BY <2>1, <2>2
<1>8. CASE WriterSleeps \/ WriterReturns \/ WriterNotifies
  BY <1>8 DEF WriterSleeps, WriterReturns, WriterNotifies, ringVars
<1>9. ASSUME NEW how \in Endings, EndSession(how) PROVE PipelineOrder'
  BY <1>9 DEF EndSession, ringVars
<1>10. CASE Stop
  BY <1>10 DEF Stop, SetStopEvent, JoinReader, JoinWriter, ringVars
<1>11. CASE UNCHANGED vars BY <1>11 DEF vars, ringVars
<1> QED
  BY <1>1, <1>2, <1>3, <1>4, <1>5, <1>6, <1>7, <1>8, <1>9, <1>10, <1>11
  DEF Next, ReaderLoop, WriterLoop

\* Reader, queue and writer neither lose, repeat nor reorder an event, for any
\* capacity of the queue and any batch size, and whatever happens at the end.
THEOREM PipelineOrderHolds == Spec => []PipelineOrder
<1>1. Init => PipelineOrder BY SessionInit
<1>2. RingSound /\ SessionTypeOK /\ HandOver /\ PipelineOrder /\ [Next]_vars => PipelineOrder'
  BY PipelineStep DEF RingSound
<1> QED BY <1>1, <1>2, SessionRingSound, SessionTypeCorrect, PTL DEF Spec

-----------------------------------------------------------------------------
(* The end of a session: who has finished before whom.                     *)

EndingOrder ==
  /\ readerFinished <=> loop \in {"finishNotify", "done"}
  /\ writer = "done" => readerFinished /\ queue = <<>>
  /\ controller \in {"joinWriter", "stopped"} => loop = "done"
  /\ controller = "stopped" => writer = "done"
  /\ controller = "running" <=> ending = "none"
  /\ stopEvent => controller \notin {"running", "stop"}
  /\ stopping => stopEvent

\* The reader goes back to its wait only until it has seen the stop event;
\* then its last look at the ring found nothing, and unless the target runs on
\* nothing has come since.
LastLook ==
  /\ loop = "wait" => ~stopping
  /\ stopping /\ ending # "Detached" /\ loop \in {"finish", "finishNotify", "done"} => ~Readable

LEMMA EndingInit == Init => EndingOrder /\ LastLook
  BY DEF Init, EndingOrder, LastLook

LEMMA EndingOrderStep ==
  ASSUME EndingOrder, [Next]_vars
  PROVE  EndingOrder'
<1> USE DEF EndingOrder, LoopGoto, WakeWriter, readerLoopVars, writerVars, controllerVars,
            sessionVars
<1>1. ASSUME NEW p \in Producers, Hook(p) PROVE EndingOrder'
  BY <1>1, HookLeavesSession
<1>2. CASE ReaderReads BY <1>2 DEF ReaderReads
<1>3. CASE ReaderQueues \/ ReaderSleeps \/ ReaderNotifies \/ ReaderEndsBatch \/ ReaderReports
  BY <1>3 DEF ReaderQueues, ReaderSleeps, ReaderNotifies, ReaderEndsBatch, ReaderReports
<1>4. CASE ReaderClearsWake \/ ReaderFindsNothing \/ ReaderWoken \/ ReaderStopping \/ ReaderWaitFails
  BY <1>4 DEF ReaderClearsWake, ReaderFindsNothing, ReaderWoken, ReaderStopping, ReaderWaitFails
<1>5. CASE ReaderFinishes \/ ReaderReturns
  BY <1>5 DEF ReaderFinishes, ReaderReturns
<1>6. CASE WriterLoop
  BY <1>6 DEF WriterLoop, WriterPops, WriterSleeps, WriterReturns, WriterNotifies, WriterRenders
<1>7. ASSUME NEW how \in Endings, EndSession(how) PROVE EndingOrder'
  BY <1>7, EndingsAssumption DEF EndSession
<1>8. CASE Stop
  BY <1>8 DEF Stop, SetStopEvent, JoinReader, JoinWriter
<1>9. CASE UNCHANGED vars BY <1>9 DEF vars
<1> QED
  BY <1>1, <1>2, <1>3, <1>4, <1>5, <1>6, <1>7, <1>8, <1>9 DEF Next, ReaderLoop

LEMMA LastLookStep ==
  ASSUME EndingOrder, LastLook, [Next]_vars
  PROVE  LastLook'
<1> USE DEF LastLook, LoopGoto, WakeWriter, readerLoopVars, writerVars, controllerVars,
            sessionVars
<1>1. ASSUME NEW p \in Producers, Hook(p) PROVE LastLook'
  <2>1. UNCHANGED <<loop, stopping, ending>> /\ ending \in {"none", "Detached"}
    BY <1>1, HookLeavesSession DEF TargetRuns
  <2>2. stopping => ending # "none" BY DEF EndingOrder
  <2> QED BY <2>1, <2>2
<1>2. CASE ReaderReads BY <1>2 DEF ReaderReads
<1>3. CASE ReaderQueues \/ ReaderSleeps \/ ReaderNotifies \/ ReaderEndsBatch \/ ReaderReports
  BY <1>3 DEF ReaderQueues, ReaderSleeps, ReaderNotifies, ReaderEndsBatch, ReaderReports
<1>4. CASE ReaderClearsWake \/ ReaderWoken \/ ReaderStopping \/ ReaderWaitFails
  BY <1>4 DEF ReaderClearsWake, ReaderWoken, ReaderStopping, ReaderWaitFails
<1>5. CASE ReaderFindsNothing \/ ReaderFinishes \/ ReaderReturns
  BY <1>5 DEF ReaderFindsNothing, ReaderFinishes, ReaderReturns, ringVars, slotVars, readerVars,
              Readable, Slot
<1>6. CASE WriterLoop
  BY <1>6 DEF WriterLoop, WriterPops, WriterSleeps, WriterReturns, WriterNotifies, WriterRenders,
              ringVars, slotVars, readerVars, Readable, Slot
<1>7. ASSUME NEW how \in Endings, EndSession(how) PROVE LastLook'
  BY <1>7 DEF EndSession, EndingOrder
<1>8. CASE Stop
  BY <1>8 DEF Stop, SetStopEvent, JoinReader, JoinWriter, ringVars, slotVars, readerVars,
              Readable, Slot
<1>9. CASE UNCHANGED vars
  BY <1>9 DEF vars, ringVars, slotVars, readerVars, Readable, Slot
<1> QED
  BY <1>1, <1>2, <1>3, <1>4, <1>5, <1>6, <1>7, <1>8, <1>9 DEF Next, ReaderLoop

LEMMA EndingHolds == Spec => [](EndingOrder /\ LastLook)
<1>1. EndingOrder /\ LastLook /\ [Next]_vars => (EndingOrder /\ LastLook)'
  BY EndingOrderStep, LastLookStep
<1> QED BY <1>1, EndingInit, PTL DEF Spec

\* However a session ends, Stop and Drain return only after everything that
\* was read has been rendered; and unless the target runs on, or the wait
\* failed, everything that could be read has been.
THEOREM EndRendersAllReadHolds == Spec => []EndRendersAllRead
<1>1. SessionTypeOK /\ HandOver /\ PipelineOrder /\ EndingOrder /\ LastLook => EndRendersAllRead
  <2> SUFFICES ASSUME SessionTypeOK, HandOver, PipelineOrder, EndingOrder, LastLook,
                      controller = "stopped"
               PROVE  rendered = delivered /\ (stopping /\ ending # "Detached" => ~Readable)
    BY DEF EndRendersAllRead
  <2>1. loop = "done" /\ writer = "done" /\ queue = <<>> BY DEF EndingOrder
  <2>2. reader = "idle" /\ writerEvent = <<>> BY <2>1 DEF HandOver
  <2>3. InReadersHand = <<>> BY <2>1, <2>2 DEF InReadersHand
  <2>4. rendered \in Seq(Events) BY DEF SessionTypeOK
  <2>5. rendered = delivered
    BY <2>1, <2>2, <2>3, <2>4, EmptyHand DEF PipelineOrder
  <2>6. stopping /\ ending # "Detached" => ~Readable BY <2>1 DEF LastLook
  <2> QED BY <2>5, <2>6
<1> QED BY <1>1, SessionTypeCorrect, PipelineOrderHolds, EndingHolds, PTL

-----------------------------------------------------------------------------
(* The wake-up protocol.  Both theorems are about sessions whose hook      *)
(* threads are not terminated: one that dies between setting wakePending   *)
(* and SetEvent does leave the flag on for ever.                           *)

AllAlive == \A p \in Producers : alive[p]

\* While the reader is past its clearing of wakePending, whoever turns the
\* flag on again is on the way to SetEvent or to turning it off.
WakeOwed ==
  loop \in {"raced", "wait"} /\ wakePending =>
    wakeEvent \/ \E p \in Producers : At(p, "signal") \/ At(p, "unsignal")

\* While it waits, what was published since its last look is announced.
PublishedAnnounced ==
  loop = "wait" /\ Readable =>
    wakePending \/ wakeEvent \/ \E p \in Producers : At(p, "wake") \/ At(p, "signal")

NobodyUnsignals == \A p \in Producers : pc[p] # "unsignal"

\* What one step of a hook thread does to the wake state and to the ring.
LEMMA HookWakes ==
  ASSUME TypeOK, AllAlive, "Kill" \notin Faults, NEW p \in Producers, Hook(p)
  PROVE  /\ UNCHANGED <<alive, loop, dequeuePosition>>
         /\ \A q \in Producers \ {p} : pc'[q] = pc[q]
         /\ \/ /\ pc[p] \notin {"wake", "signal", "unsignal"} /\ pc'[p] # "unsignal"
               /\ UNCHANGED wakeVars
               /\ pc'[p] = "wake" \/ UNCHANGED slotSequence
            \/ /\ pc[p] = "wake" /\ wakePending' /\ UNCHANGED <<wakeEvent, slotSequence>>
               /\ pc'[p] = "signal" \/ (pc'[p] = "idle" /\ wakePending)
            \/ /\ pc[p] = "signal" /\ wakeEvent' /\ pc'[p] = "idle"
               /\ UNCHANGED <<wakePending, slotSequence>>
            \/ /\ pc[p] = "signal" /\ "SetEvent" \in Faults /\ pc'[p] = "unsignal"
               /\ UNCHANGED <<wakeVars, slotSequence>>
            \/ /\ pc[p] = "unsignal" /\ pc'[p] = "idle" /\ ~wakePending'
               /\ UNCHANGED <<wakeEvent, slotSequence>>
<1> USE DEF At, Goto, Return, wakeVars, slotVars, counterVars, readerVars
<1>1. UNCHANGED <<loop, dequeuePosition>>
  BY HookLeavesSession DEF sessionVars, readerLoopVars
<1>2. pc \in [Producers -> ProducerStates] BY DEF TypeOK
<1>3. ~HookKilled(p) BY DEF HookKilled, Kill
<1>4. CASE HookBegins(p) BY <1>1, <1>2, <1>4 DEF HookBegins, Begin
<1>5. CASE HookRuns(p) /\ LoadPosition(p) BY <1>1, <1>2, <1>5 DEF LoadPosition
<1>6. CASE HookRuns(p) /\ Inspect(p) BY <1>1, <1>2, <1>6 DEF Inspect
<1>7. CASE HookRuns(p) /\ Drop(p) BY <1>1, <1>2, <1>7 DEF Drop
<1>8. CASE HookRuns(p) /\ Claim(p) BY <1>1, <1>2, <1>8 DEF Claim
<1>9. CASE HookRuns(p) /\ BeginCopy(p) BY <1>1, <1>2, <1>9 DEF BeginCopy
<1>10. CASE HookRuns(p) /\ FinishCopy(p) BY <1>1, <1>2, <1>10 DEF FinishCopy
<1>11. CASE HookRuns(p) /\ Publish(p) BY <1>1, <1>2, <1>11 DEF Publish
<1>12. CASE HookRuns(p) /\ TakeWake(p) BY <1>1, <1>2, <1>12 DEF TakeWake
<1>13. CASE HookRuns(p) /\ Signal(p) BY <1>1, <1>2, <1>13 DEF Signal
<1>14. CASE HookRuns(p) /\ Unsignal(p) BY <1>1, <1>2, <1>14 DEF Unsignal
<1> QED
  BY <1>3, <1>4, <1>5, <1>6, <1>7, <1>8, <1>9, <1>10, <1>11, <1>12, <1>13, <1>14
  DEF Hook, HookRuns, Emit

\* What any other step does to them.
LEMMA SessionWakes ==
  ASSUME [Next]_vars, \A p \in Producers : ~Hook(p)
  PROVE  /\ UNCHANGED <<pc, alive>>
         /\ \/ loop' \notin {"raced", "wait"}
            \/ loop' = "raced" /\ ~wakePending'
            \/ loop' = "raced" /\ loop = "raced" /\ UNCHANGED <<wakePending, wakeEvent>>
            \/ /\ loop' = "wait" /\ loop \in {"raced", "wait"} /\ (loop = "raced" => ~Readable)
               /\ UNCHANGED <<wakePending, wakeEvent, slotSequence, dequeuePosition>>
<1> USE DEF LoopGoto, WakeWriter, readerLoopVars, writerVars, controllerVars, sessionVars,
            ringVars, wakeVars, slotVars, producerVars, counterVars, readerVars
<1>1. CASE ReaderReads
  BY <1>1 DEF ReaderReads, TryRead, ReadBegin, CopyOut, ReleaseSlot, AdvanceDequeue
<1>2. CASE ReaderEndsBatch \/ ReaderQueues \/ ReaderSleeps \/ ReaderNotifies \/ ReaderReports
  BY <1>2 DEF ReaderEndsBatch, ReaderQueues, ReaderSleeps, ReaderNotifies, ReaderReports
<1>3. CASE ReaderClearsWake
  BY <1>3 DEF ReaderClearsWake, ClearWakePending
<1>4. CASE ReaderFindsNothing
  BY <1>4 DEF ReaderFindsNothing
<1>5. CASE ReaderWoken BY <1>5 DEF ReaderWoken, ConsumeWake
<1>6. CASE ReaderStopping \/ ReaderWaitFails \/ ReaderFinishes \/ ReaderReturns
  BY <1>6 DEF ReaderStopping, ReaderWaitFails, ReaderFinishes, ReaderReturns
<1>7. CASE WriterLoop
  BY <1>7 DEF WriterLoop, WriterPops, WriterSleeps, WriterReturns, WriterNotifies, WriterRenders
<1>8. ASSUME NEW how \in Endings, EndSession(how)
      PROVE  UNCHANGED <<pc, alive, loop, wakePending, wakeEvent, slotSequence, dequeuePosition>>
  BY <1>8 DEF EndSession
<1>9. CASE Stop BY <1>9 DEF Stop, SetStopEvent, JoinReader, JoinWriter
<1>10. CASE UNCHANGED vars BY <1>10 DEF vars
<1> QED
  BY <1>1, <1>2, <1>3, <1>4, <1>5, <1>6, <1>7, <1>8, <1>9, <1>10 DEF Next, ReaderLoop

LEMMA WakeInit == Init => AllAlive /\ WakeOwed /\ PublishedAnnounced /\ NobodyUnsignals
  BY DEF Init, RingInit, AllAlive, WakeOwed, PublishedAnnounced, NobodyUnsignals

LEMMA WakeOwedStep ==
  ASSUME TypeOK, "Kill" \notin Faults, AllAlive, WakeOwed, [Next]_vars
  PROVE  AllAlive' /\ WakeOwed'
<1> USE DEF AllAlive, WakeOwed, At
<1>1. ASSUME NEW p \in Producers, Hook(p) PROVE AllAlive' /\ WakeOwed'
  <2>1. AllAlive' BY <1>1, HookWakes
  <2>2. WakeOwed' BY <1>1, <2>1, HookWakes DEF wakeVars
  <2> QED BY <2>1, <2>2
<1>2. CASE \A p \in Producers : ~Hook(p)
  BY <1>2, SessionWakes
<1> QED BY <1>1, <1>2

\* A failed NtSetEvent costs nothing but the wake-up it was for: unless a hook
\* thread is terminated, a waiting reader finds wakePending off, the event
\* signalled, or a live thread that will do one or the other.
THEOREM WakeFlagNeverStuckHolds ==
  ASSUME "Kill" \notin Faults
  PROVE  Spec => []WakeFlagNeverStuck
<1>1. RingSound /\ AllAlive /\ WakeOwed /\ [Next]_vars => (AllAlive /\ WakeOwed)'
  BY WakeOwedStep DEF RingSound
<1>2. WakeOwed => WakeFlagNeverStuck BY DEF WakeOwed, WakeFlagNeverStuck
<1> QED BY <1>1, <1>2, WakeInit, SessionRingSound, PTL DEF Spec

LEMMA PublishedAnnouncedStep ==
  ASSUME TypeOK, "Kill" \notin Faults, "SetEvent" \notin Faults, AllAlive, NobodyUnsignals,
         PublishedAnnounced, [Next]_vars
  PROVE  NobodyUnsignals' /\ PublishedAnnounced'
<1> USE DEF AllAlive, PublishedAnnounced, NobodyUnsignals, At, Readable, Slot
<1>1. ASSUME NEW p \in Producers, Hook(p) PROVE NobodyUnsignals' /\ PublishedAnnounced'
  <2>1. NobodyUnsignals' BY <1>1, HookWakes
  <2>2. alive'[p] /\ \A q \in Producers : alive'[q] BY <1>1, HookWakes
  <2>3. PublishedAnnounced' BY <1>1, <2>2, HookWakes DEF wakeVars
  <2> QED BY <2>1, <2>3
<1>2. CASE \A p \in Producers : ~Hook(p)
  BY <1>2, SessionWakes
<1> QED BY <1>1, <1>2

\* Clearing wakePending before the second look at the ring loses no wake-up:
\* when nothing fails, the reader never waits over a readable event without
\* the event signalled or a hook thread about to signal it.
THEOREM NoLostWakeupHolds ==
  ASSUME "Kill" \notin Faults, "SetEvent" \notin Faults
  PROVE  Spec => []NoLostWakeup
<1> DEFINE Announced == AllAlive /\ WakeOwed /\ NobodyUnsignals /\ PublishedAnnounced
<1>1. RingSound /\ Announced /\ [Next]_vars => Announced'
  BY WakeOwedStep, PublishedAnnouncedStep DEF RingSound
<1>2. Announced => NoLostWakeup
  BY DEF WakeOwed, NobodyUnsignals, PublishedAnnounced, NoLostWakeup, At
<1>3. Init => Announced BY WakeInit
<1> HIDE DEF Announced
<1> QED BY <1>1, <1>2, <1>3, SessionRingSound, PTL DEF Spec

-----------------------------------------------------------------------------
(* A clean stop.                                                           *)

\* The target is frozen with no hook call under way.
IdleWhenQuiescent == ending = "Quiescent" => \A p \in Producers : pc[p] = "idle"

\* The count the reader thread has reported is one the hooks once had; after
\* its last report of a clean stop it is the final one.
DropsReported ==
  /\ reportedDropped <= droppedEvents
  /\ stopping /\ ending = "Quiescent"
       /\ loop \in {"clear", "raced", "finish", "finishNotify", "done"} =>
     reportedDropped = droppedEvents

\* droppedEvents does not wrap around during the session.
DropsOnlyGrow == droppedEvents' >= droppedEvents

LEMMA CleanStopInit == Init => IdleWhenQuiescent /\ DropsReported
  BY DEF Init, RingInit, IdleWhenQuiescent, DropsReported

LEMMA IdleWhenQuiescentStep ==
  ASSUME IdleWhenQuiescent, [Next]_vars
  PROVE  IdleWhenQuiescent'
<1> USE DEF IdleWhenQuiescent, readerLoopVars, writerVars, controllerVars, sessionVars, ringVars,
            producerVars
<1>1. ASSUME NEW p \in Producers, Hook(p) PROVE IdleWhenQuiescent'
  BY <1>1, HookLeavesSession DEF TargetRuns
<1>2. CASE ReaderLoop
  <2>1. UNCHANGED <<ending, pc>>
    BY <1>2
    DEF ReaderLoop, ReaderReads, TryRead, ReadBegin, CopyOut, ReleaseSlot, AdvanceDequeue,
        ReaderQueues, ReaderSleeps, ReaderNotifies, ReaderEndsBatch, ReaderReports,
        ReaderClearsWake, ClearWakePending, ReaderFindsNothing, ReaderWoken, ConsumeWake,
        ReaderStopping, ReaderWaitFails, ReaderFinishes, ReaderReturns
  <2> QED BY <2>1
<1>3. CASE WriterLoop
  BY <1>3 DEF WriterLoop, WriterPops, WriterSleeps, WriterReturns, WriterNotifies, WriterRenders
<1>4. ASSUME NEW how \in Endings, EndSession(how) PROVE IdleWhenQuiescent'
  BY <1>4 DEF EndSession, Quiescent
<1>5. CASE Stop
  BY <1>5 DEF Stop, SetStopEvent, JoinReader, JoinWriter
<1>6. CASE UNCHANGED vars BY <1>6 DEF vars
<1> QED BY <1>1, <1>2, <1>3, <1>4, <1>5, <1>6 DEF Next

LEMMA DropsReportedStep ==
  ASSUME SessionTypeOK, EndingOrder, LastLook, DropsReported, DropsOnlyGrow, [Next]_vars
  PROVE  DropsReported'
<1> USE DEF DropsReported, LoopGoto, WakeWriter, readerLoopVars, writerVars, controllerVars,
            sessionVars, ringVars, counterVars
<1>0. reportedDropped \in Nat /\ droppedEvents \in Nat /\ droppedEvents' >= droppedEvents
      /\ loop \in LoopStates
  BY CounterAssumption DEF SessionTypeOK, TypeOK, DropsOnlyGrow
<1>1. ASSUME NEW p \in Producers, Hook(p) PROVE DropsReported'
  <2>1. UNCHANGED sessionVars /\ ending # "Quiescent" BY <1>1, HookLeavesSession DEF TargetRuns
  <2>2. droppedEvents' \in Nat
    BY <1>0, <1>1, CounterAssumption, SMT
    DEF Hook, HookBegins, HookRuns, HookKilled, Begin, Emit, LoadPosition, Inspect, Drop, Claim,
        BeginCopy, FinishCopy, Publish, TakeWake, Signal, Unsignal, Kill, Increment
  <2> QED BY <1>0, <2>1, <2>2
<1>2. CASE ReaderReads \/ ReaderEndsBatch \/ ReaderQueues \/ ReaderSleeps \/ ReaderNotifies
  BY <1>2 DEF ReaderReads, TryRead, ReadBegin, CopyOut, ReleaseSlot, AdvanceDequeue,
              ReaderEndsBatch, ReaderQueues, ReaderSleeps, ReaderNotifies
<1>3. CASE ReaderReports BY <1>0, <1>3 DEF ReaderReports
<1>4. CASE ReaderClearsWake \/ ReaderFindsNothing \/ ReaderWoken
  BY <1>4 DEF ReaderClearsWake, ClearWakePending, ReaderFindsNothing, ReaderWoken, ConsumeWake
<1>5. CASE ReaderStopping \/ ReaderWaitFails
  BY <1>5 DEF ReaderStopping, ReaderWaitFails, LastLook
<1>6. CASE ReaderFinishes \/ ReaderReturns
  BY <1>6 DEF ReaderFinishes, ReaderReturns
<1>7. CASE WriterLoop
  BY <1>7 DEF WriterLoop, WriterPops, WriterSleeps, WriterReturns, WriterNotifies, WriterRenders
<1>8. ASSUME NEW how \in Endings, EndSession(how) PROVE DropsReported'
  BY <1>8 DEF EndSession, EndingOrder
<1>9. CASE Stop
  BY <1>9 DEF Stop, SetStopEvent, JoinReader, JoinWriter
<1>10. CASE UNCHANGED vars BY <1>10 DEF vars
<1> QED
  BY <1>1, <1>2, <1>3, <1>4, <1>5, <1>6, <1>7, <1>8, <1>9, <1>10 DEF Next, ReaderLoop

\* With the target frozen and idle every position of the ring is delivered or
\* published, and the last look found nothing published.
CleanStopRenders ==
  controller = "stopped" /\ ending = "Quiescent" /\ stopping => Len(rendered) = enqueuePosition

LEMMA EverythingRendered ==
  ASSUME RingSound, Ledger, HandOver, EndingOrder, EndRendersAllRead, IdleWhenQuiescent
  PROVE  CleanStopRenders
<1> SUFFICES ASSUME controller = "stopped", ending = "Quiescent", stopping
             PROVE  Len(rendered) = enqueuePosition
  BY DEF CleanStopRenders
<1>1. rendered = delivered /\ ~Readable BY DEF EndRendersAllRead
<1>2. reader = "idle" BY DEF EndingOrder, HandOver
<1>3. Oldest = dequeuePosition /\ dequeuePosition \in Nat /\ enqueuePosition \in Nat
  BY <1>2 DEF Oldest, RingSound, TypeOK
<1>4. Len(delivered) = dequeuePosition /\ dequeuePosition <= enqueuePosition
  BY <1>3 DEF Ledger, RingSound, SlotDiscipline, PositionsInWindow
<1>5. ~(dequeuePosition < enqueuePosition)
  <2> SUFFICES ASSUME dequeuePosition < enqueuePosition PROVE FALSE OBVIOUS
  <2>1. dequeuePosition \in Oldest..(enqueuePosition - 1) BY <1>3
  <2>2. Published(dequeuePosition) \/ Claimed(dequeuePosition) BY <2>1 DEF Ledger
  <2>3. ~Published(dequeuePosition) BY <1>1 DEF Readable, Published
  <2>4. ~Claimed(dequeuePosition) BY DEF Claimed, Claims, IdleWhenQuiescent
  <2> QED BY <2>2, <2>3, <2>4
<1> QED BY <1>1, <1>3, <1>4, <1>5

\* A session that ended with a clean stop has rendered every event that ever
\* got a position in the ring.
THEOREM CleanStopRendersHolds == Spec => []CleanStopRenders
<1>1. Spec => []Ledger BY SessionUsesRing, LedgerHolds, PTL
<1>2. Spec => []IdleWhenQuiescent
  BY CleanStopInit, IdleWhenQuiescentStep, PTL DEF Spec
<1> QED
  BY <1>1, <1>2, SessionRingSound, SessionTypeCorrect, EndingHolds, EndRendersAllReadHolds,
     EverythingRendered, PTL

\* ... and has reported the final count of dropped events, provided that the
\* 32-bit count never wrapped around (the controller compares it with the last
\* one it reported).
THEOREM CleanStopLosesNothingHolds ==
  Spec /\ [][DropsOnlyGrow]_vars => []CleanStopLosesNothing
<1>1. Spec => [](SessionTypeOK /\ EndingOrder /\ LastLook)
  BY SessionTypeCorrect, EndingHolds, PTL
<1>2. Spec /\ [][DropsOnlyGrow]_vars => []DropsReported
  <2>1. SessionTypeOK /\ EndingOrder /\ LastLook /\ DropsReported /\ [Next]_vars
          /\ [DropsOnlyGrow]_vars => DropsReported'
    <3>1. CASE UNCHANGED vars BY <3>1 DEF vars, ringVars, counterVars, sessionVars, readerLoopVars,
                                          controllerVars, DropsReported
    <3>2. CASE ~UNCHANGED vars BY <3>2, DropsReportedStep
    <3> QED BY <3>1, <3>2
  <2> QED BY <1>1, <2>1, CleanStopInit, PTL DEF Spec
<1>3. EndingOrder /\ DropsReported /\ CleanStopRenders => CleanStopLosesNothing
  BY DEF EndingOrder, DropsReported, CleanStopRenders, CleanStopLosesNothing
<1> QED BY <1>1, <1>2, <1>3, CleanStopRendersHolds, PTL
=============================================================================
