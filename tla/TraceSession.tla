---------------------------- MODULE TraceSession ----------------------------
(***************************************************************************)
(* A running trace session (trace_session.cpp): the ring, the controller's *)
(* reader thread (ReaderLoop), its writer thread (WriterLoop), the bounded *)
(* queue between them, and the controller thread that ends the session     *)
(* (Stop, Drain) in one of the four ways debug_session.cpp does.           *)
(*                                                                         *)
(* A critical section of queueMutex_ is one step.  A condition variable is *)
(* the fact that its only waiter sleeps; a notify step wakes it to look    *)
(* again.                                                                  *)
(***************************************************************************)
EXTENDS TraceRing

CONSTANTS QueueCapacity,  \* TRACE_EVENT_QUEUE_CAPACITY, 4096
          ReadBatch,      \* TRACE_RING_READ_BATCH, 256
          Endings         \* the ways this session may end

ASSUME QueueAssumption == QueueCapacity \in Nat \ {0}
ASSUME BatchAssumption == ReadBatch \in Nat \ {0}

\* "Quiescent": Ctrl+C, no hook call active, the target frozen in a debug
\*   event and its hooks removed (CleanupRemote after IsCleanupQuiescent).
\* "Aborted": a debug event handler failed: the same, whatever the hooks do.
\* "Exited": EXIT_PROCESS_DEBUG_EVENT, every thread is gone (Drain).
\* "Detached": the event loop broke off: the target runs on, still hooked.
ASSUME EndingsAssumption == Endings \subseteq {"Quiescent", "Aborted", "Exited", "Detached"}

VARIABLES
  loop,             \* the reader thread's place in ReaderLoop
  eventsRead, stopping,
  reportedDropped,  \* reportedDroppedCount_
  queue,            \* eventQueue_
  readerFinished,   \* readerFinished_
  writer,           \* the writer thread's place in WriterLoop
  writerEvent,      \* its local event: <<>> or one event
  rendered,         \* history: what RenderEvent wrote
  ending,           \* how the session is ending, "none" while it runs
  controller,       \* the controller thread's place in Stop or Drain
  stopEvent         \* the manual-reset stop event is signalled

readerLoopVars == <<loop, eventsRead, stopping, reportedDropped, readerFinished>>
writerVars == <<writer, writerEvent, rendered>>
controllerVars == <<ending, controller, stopEvent>>
sessionVars == <<readerLoopVars, queue, writerVars, controllerVars>>
vars == <<ringVars, sessionVars>>

Init ==
  /\ RingInit
  /\ loop = "batch" /\ eventsRead = 0 /\ stopping = FALSE
  /\ reportedDropped = 0
  /\ queue = <<>>
  /\ readerFinished = FALSE
  /\ writer = "check" /\ writerEvent = <<>>
  /\ rendered = <<>>
  /\ ending = "none" /\ controller = "running" /\ stopEvent = FALSE

-----------------------------------------------------------------------------
(* The traced program's threads run until it exits or is frozen.           *)

TargetRuns == ending \in {"none", "Detached"}

HookBegins(p) == TargetRuns /\ Begin(p) /\ UNCHANGED sessionVars
HookRuns(p) == TargetRuns /\ Emit(p) /\ UNCHANGED sessionVars
HookKilled(p) == TargetRuns /\ Kill(p) /\ UNCHANGED sessionVars
Hook(p) == HookBegins(p) \/ HookRuns(p) \/ HookKilled(p)

-----------------------------------------------------------------------------
(* ReaderLoop.                                                             *)

LoopGoto(label) == loop' = label

\* TryReadRing in the batch, or once more after the wake flag was cleared.
\* It returns true after AdvanceDequeue, and the event goes to queueEvent;
\* the raced event is not counted, so it too starts the next batch at zero.
ReaderReads ==
  /\ \/ loop = "batch" /\ eventsRead < ReadBatch
     \/ loop = "raced"
  /\ TryRead
  /\ IF reader' = "idle"
     THEN /\ LoopGoto("queue")
          /\ eventsRead' = IF loop = "batch" THEN eventsRead + 1 ELSE eventsRead
     ELSE UNCHANGED <<loop, eventsRead>>
  /\ UNCHANGED <<stopping, reportedDropped, readerFinished, queue, writerVars, controllerVars>>

\* The batch is full or the ring looks empty.
ReaderEndsBatch ==
  /\ loop = "batch" /\ reader = "idle"
  /\ eventsRead = ReadBatch \/ ~Readable
  /\ LoopGoto("report")
  /\ UNCHANGED <<ringVars, eventsRead, stopping, reportedDropped, readerFinished,
                 queue, writerVars, controllerVars>>

\* IsValidTraceEvent, which TraceEvent models field by field: it accepts what
\* a hook built, and is here no more than that.
IsValidTraceEvent(e) == e \in Events

ReaderQueuesOneTooMany ==  \* defect: the bound is off by one
  /\ loop = "queue"
  /\ Len(queue) <= QueueCapacity
  /\ queue' = Append(queue, readerEvent)
  /\ LoopGoto("notify")
  /\ UNCHANGED <<ringVars, eventsRead, stopping, reportedDropped, readerFinished,
                 writerVars, controllerVars>>

\* queueEvent: discard a malformed event, which returns at once; push, or
\* sleep on queueNotFull_ while the queue is full.
ReaderQueues ==
  /\ loop = "queue"
  /\ IF IsValidTraceEvent(readerEvent)
     THEN /\ Len(queue) < QueueCapacity
          /\ queue' = Append(queue, readerEvent)
          /\ LoopGoto("notify")
     ELSE /\ LoopGoto("batch")
          /\ UNCHANGED queue
  /\ UNCHANGED <<ringVars, eventsRead, stopping, reportedDropped, readerFinished,
                 writerVars, controllerVars>>

ReaderSleeps ==
  /\ loop = "queue"
  /\ IsValidTraceEvent(readerEvent)
  /\ Len(queue) >= QueueCapacity
  /\ LoopGoto("sleep")
  /\ UNCHANGED <<ringVars, eventsRead, stopping, reportedDropped, readerFinished,
                 queue, writerVars, controllerVars>>

WakeWriter == writer' = IF writer = "sleep" THEN "check" ELSE writer

\* queueNotEmpty_.notify_one()
ReaderNotifies ==
  /\ loop = "notify"
  /\ WakeWriter
  /\ LoopGoto("batch")
  /\ UNCHANGED <<ringVars, eventsRead, stopping, reportedDropped, readerFinished,
                 queue, writerEvent, rendered, controllerVars>>

\* reportDroppedEvents, then back to the ring if the batch was not empty.
ReaderReports ==
  /\ loop = "report"
  /\ reportedDropped' = IF droppedEvents > reportedDropped THEN droppedEvents ELSE reportedDropped
  /\ LoopGoto(IF eventsRead # 0 THEN "batch" ELSE "clear")
  /\ eventsRead' = 0
  /\ UNCHANGED <<ringVars, stopping, readerFinished, queue, writerVars, controllerVars>>

ReaderClearsAndWaits ==  \* defect: no second look at the ring before the wait
  /\ loop = "clear"
  /\ ClearWakePending
  /\ LoopGoto(IF stopping THEN "finish" ELSE "wait")
  /\ UNCHANGED <<eventsRead, stopping, reportedDropped, readerFinished,
                 queue, writerVars, controllerVars>>

ReaderClearsWake ==
  /\ loop = "clear"
  /\ ClearWakePending
  /\ LoopGoto("raced")
  /\ UNCHANGED <<eventsRead, stopping, reportedDropped, readerFinished,
                 queue, writerVars, controllerVars>>

\* The raced read found nothing.
ReaderFindsNothing ==
  /\ loop = "raced" /\ reader = "idle" /\ ~Readable
  /\ LoopGoto(IF stopping THEN "finish" ELSE "wait")
  /\ UNCHANGED <<ringVars, eventsRead, stopping, reportedDropped, readerFinished,
                 queue, writerVars, controllerVars>>

\* WaitForMultipleObjects: the wake event comes first in the array.
ReaderWoken ==
  /\ loop = "wait"
  /\ ConsumeWake
  /\ LoopGoto("batch")
  /\ UNCHANGED <<eventsRead, stopping, reportedDropped, readerFinished,
                 queue, writerVars, controllerVars>>

ReaderStopsAtOnce ==  \* defect: the stop event ends the loop without a last drain
  /\ loop = "wait"
  /\ stopEvent /\ ~wakeEvent
  /\ stopping' = TRUE
  /\ LoopGoto("finish")
  /\ UNCHANGED <<ringVars, eventsRead, reportedDropped, readerFinished,
                 queue, writerVars, controllerVars>>

ReaderStopping ==
  /\ loop = "wait"
  /\ stopEvent /\ ~wakeEvent
  /\ stopping' = TRUE
  /\ LoopGoto("batch")
  /\ UNCHANGED <<ringVars, eventsRead, reportedDropped, readerFinished,
                 queue, writerVars, controllerVars>>

ReaderWaitFails ==
  /\ "Wait" \in Faults
  /\ loop = "wait"
  /\ LoopGoto("finish")
  /\ UNCHANGED <<ringVars, eventsRead, stopping, reportedDropped, readerFinished,
                 queue, writerVars, controllerVars>>

ReaderFinishes ==
  /\ loop = "finish"
  /\ readerFinished' = TRUE
  /\ LoopGoto("finishNotify")
  /\ UNCHANGED <<ringVars, eventsRead, stopping, reportedDropped,
                 queue, writerVars, controllerVars>>

ReaderReturnsSilently ==  \* defect: the writer is not told
  /\ loop = "finishNotify"
  /\ LoopGoto("done")
  /\ UNCHANGED <<ringVars, eventsRead, stopping, reportedDropped, readerFinished,
                 queue, writerVars, controllerVars>>

ReaderReturns ==
  /\ loop = "finishNotify"
  /\ WakeWriter
  /\ LoopGoto("done")
  /\ UNCHANGED <<ringVars, eventsRead, stopping, reportedDropped, readerFinished,
                 queue, writerEvent, rendered, controllerVars>>

ReaderLoop ==
  \/ ReaderReads \/ ReaderEndsBatch \/ ReaderQueues \/ ReaderSleeps \/ ReaderNotifies
  \/ ReaderReports \/ ReaderClearsWake \/ ReaderFindsNothing \/ ReaderWoken
  \/ ReaderStopping \/ ReaderWaitFails \/ ReaderFinishes \/ ReaderReturns

-----------------------------------------------------------------------------
(* WriterLoop.                                                             *)

WriterPopsNewest ==  \* defect: the wrong end of the queue
  /\ writer = "check"
  /\ queue # <<>>
  /\ writerEvent' = <<queue[Len(queue)]>>
  /\ queue' = SubSeq(queue, 1, Len(queue) - 1)
  /\ writer' = "notify"
  /\ UNCHANGED <<ringVars, readerLoopVars, rendered, controllerVars>>

WriterPops ==
  /\ writer = "check"
  /\ queue # <<>>
  /\ writerEvent' = <<Head(queue)>>
  /\ queue' = Tail(queue)
  /\ writer' = "notify"
  /\ UNCHANGED <<ringVars, readerLoopVars, rendered, controllerVars>>

WriterSleeps ==
  /\ writer = "check"
  /\ queue = <<>> /\ ~readerFinished
  /\ writer' = "sleep"
  /\ UNCHANGED <<ringVars, readerLoopVars, queue, writerEvent, rendered, controllerVars>>

WriterReturnsEarly ==  \* defect: what is still queued is forgotten
  /\ writer = "check"
  /\ readerFinished
  /\ writer' = "done"
  /\ UNCHANGED <<ringVars, readerLoopVars, queue, writerEvent, rendered, controllerVars>>

WriterReturns ==
  /\ writer = "check"
  /\ queue = <<>> /\ readerFinished
  /\ writer' = "done"
  /\ UNCHANGED <<ringVars, readerLoopVars, queue, writerEvent, rendered, controllerVars>>

WriterNotifiesNobody ==  \* defect: the reader, asleep on a full queue, is not told
  /\ writer = "notify"
  /\ writer' = "render"
  /\ UNCHANGED <<ringVars, readerLoopVars, queue, writerEvent, rendered, controllerVars>>

\* queueNotFull_.notify_one()
WriterNotifies ==
  /\ writer = "notify"
  /\ LoopGoto(IF loop = "sleep" THEN "queue" ELSE loop)
  /\ writer' = "render"
  /\ UNCHANGED <<ringVars, eventsRead, stopping, reportedDropped, readerFinished,
                 queue, writerEvent, rendered, controllerVars>>

WriterRenders ==
  /\ writer = "render"
  /\ rendered' = rendered \o writerEvent
  /\ writerEvent' = <<>>
  /\ writer' = "check"
  /\ UNCHANGED <<ringVars, readerLoopVars, queue, controllerVars>>

WriterLoop == \/ WriterPops \/ WriterSleeps \/ WriterReturns
              \/ WriterNotifies \/ WriterRenders

-----------------------------------------------------------------------------
(* The controller thread: the end of the session, then Stop or Drain.      *)

\* ActiveHookCalls is zero: no hook call is under way, nor was any killed.
Quiescent == \A p \in Producers : pc[p] = "idle"

EndSession(how) ==
  /\ controller = "running"
  /\ how = "Quiescent" => Quiescent
  /\ ending' = how
  /\ controller' = "stop"
  /\ UNCHANGED <<ringVars, readerLoopVars, queue, writerVars, stopEvent>>

SetStopEvent ==
  /\ controller = "stop"
  /\ stopEvent' = TRUE
  /\ controller' = "joinReader"
  /\ UNCHANGED <<ringVars, readerLoopVars, queue, writerVars, ending>>

JoinReader ==
  /\ controller = "joinReader" /\ loop = "done"
  /\ controller' = "joinWriter"
  /\ UNCHANGED <<ringVars, readerLoopVars, queue, writerVars, ending, stopEvent>>

\* ... and ReleaseLocalRing: the ring is unmapped here.
JoinWriter ==
  /\ controller = "joinWriter" /\ writer = "done"
  /\ controller' = "stopped"
  /\ UNCHANGED <<ringVars, readerLoopVars, queue, writerVars, ending, stopEvent>>

Stop == SetStopEvent \/ JoinReader \/ JoinWriter

-----------------------------------------------------------------------------
Next ==
  \/ \E p \in Producers : Hook(p)
  \/ ReaderLoop
  \/ WriterLoop
  \/ \E how \in Endings : EndSession(how)
  \/ Stop

Spec == Init /\ [][Next]_vars

\* The scheduler keeps running every thread; nothing makes the program call a
\* hooked function, kill a thread, or the session end.
Fairness ==
  /\ \A p \in Producers : WF_vars(HookRuns(p))
  /\ WF_vars(ReaderLoop) /\ WF_vars(WriterLoop) /\ WF_vars(Stop)
FairSpec == Spec /\ Fairness

-----------------------------------------------------------------------------
(* Properties.                                                             *)

LoopStates == {"batch", "queue", "sleep", "notify", "report", "clear", "raced",
               "wait", "finish", "finishNotify", "done"}
SessionTypeOK ==
  /\ TypeOK
  /\ loop \in LoopStates
  /\ eventsRead \in 0..ReadBatch
  /\ stopping \in BOOLEAN /\ readerFinished \in BOOLEAN /\ stopEvent \in BOOLEAN
  /\ reportedDropped \in 0..(CounterModulus - 1)
  /\ queue \in Seq(Events) /\ Len(queue) <= QueueCapacity
  /\ writer \in {"check", "sleep", "notify", "render", "done"}
  /\ writerEvent \in Seq(Events) /\ Len(writerEvent) <= 1
  /\ rendered \in Seq(Events)
  /\ ending \in {"none"} \union Endings
  /\ controller \in {"running", "stop", "joinReader", "joinWriter", "stopped"}

\* Reader, queue and writer neither lose, repeat nor reorder what the ring
\* delivered, at every step of the hand-over between the two threads; no event
\* reaches the reader that it would have to discard as malformed.
InReadersHand ==
  IF reader = "released" \/ loop \in {"queue", "sleep"} THEN <<readerEvent>> ELSE <<>>
PipelineOrder == rendered \o writerEvent \o queue \o InReadersHand = delivered

\* The reader never sleeps over a readable event that nobody will announce:
\* either the wake event is signalled or a live producer is on its way to
\* SetEvent (wakePending is cleared before the raced read, not after).
NoLostWakeup ==
  loop = "wait" /\ Readable /\ TargetRuns =>
    wakeEvent \/ \E p \in Producers : At(p, "wake") \/ At(p, "signal")

\* When NtSetEvent can fail: wakePending never stays on with nobody alive to
\* signal or to turn it off, so the next published event always tries again.
WakeFlagNeverStuck ==
  loop = "wait" /\ wakePending /\ TargetRuns =>
    wakeEvent \/ \E p \in Producers : At(p, "signal") \/ At(p, "unsignal")

\* A session that ended after a clean stop has rendered every event that
\* entered the ring and reported the final count of dropped ones.
CleanStopLosesNothing ==
  controller = "stopped" /\ ending = "Quiescent" /\ stopping =>
    Len(rendered) = enqueuePosition /\ reportedDropped = droppedEvents

\* However it ended, everything that was read was rendered; and unless the
\* target runs on or the wait failed, all that could be read was.
EndRendersAllRead ==
  controller = "stopped" =>
    /\ rendered = delivered
    /\ stopping /\ ending # "Detached" => ~Readable

\* README.md, on target exit: "Drain queued events".  Every event that was
\* published in the ring when the target exited is rendered.
ExitDrainsQueued ==
  controller = "stopped" /\ ending = "Exited" =>
    \A i \in Oldest..(enqueuePosition - 1) : ~Published(i)

\* Every event that entered the ring is eventually rendered, whatever wakeups
\* coalesce and however full ring and queue get: time and again either some
\* call is still on its way to a position or rendering has caught up.
EventuallyRendered == []<>(InFlight # {} \/ Len(rendered) = enqueuePosition)

\* Stop and Drain return: neither the reader, asleep on the ring or on a full
\* queue, nor the writer, asleep on an empty one, is left behind.
StopReturns == ending # "none" ~> controller = "stopped"
=============================================================================
