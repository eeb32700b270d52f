----------------------------- MODULE RemoteSetup -----------------------------
(***************************************************************************)
(* What a session acquires in the two processes before it traces, and how  *)
(* it lets go: InjectDll and ReflectiveDLLInject (process_manager.cpp),    *)
(* TraceSession::Start, ConfigureTransport and CleanupRemote               *)
(* (trace_session.cpp), InitializeDebuggee and CleanupRemote               *)
(* (debug_session.cpp).  Any call to Windows may fail: one that acquires   *)
(* or writes makes the function undo what it did and the handler clean up; *)
(* one that releases leaves its resource behind.  Hooks are DebugSession's *)
(* subject: here the session ends without any.                             *)
(***************************************************************************)
EXTENDS Naturals, FiniteSets, SequencesExt

\* Resources of the target: the hook image, the view of the ring, the handle
\* of the wake event and the two bypass trampolines.
Remote == {"image", "ring", "wakeHandle", "setEventBypass", "readMemoryBypass"}
\* Resources of the controller.  "threads" are reader and writer.
Local == {"file", "buffer", "localImage", "section", "view", "wakeEvent", "threads"}
\* The hook image's exports that hold something of the transport.
TransportExports == {"TransportRing", "TransportWakeEvent", "TransportNtSetEvent",
                     "TransportNtReadVirtualMemory"}

VARIABLES
  stage,      \* "idle", "setup", "undo", "tracing", "cleanup" or "over"
  step,       \* the set-up call about to be made
  held,       \* resources that exist
  known,      \* those the session's fields still name
  releasing,  \* what the running undo or cleanup has left to release
  exports,    \* transport exports that are not null
  lost,       \* history: resources whose release failed
  lostBefore, \* history: those lost before the cleanup began
  cleaned,    \* CleanupRemote's result so far
  output      \* TraceOutputOptions: [jsonl, quiet, path]

setupVars == <<stage, step, held, known, releasing, exports, lost, lostBefore, cleaned, output>>

-----------------------------------------------------------------------------
(* The calls, in order.  A call may get a resource, which the session may  *)
(* come to know ("as"), drop some, or write an export; undo is what its    *)
(* function releases when it fails.                                        *)

Call(gets, undo) == [gets |-> gets, drops |-> {}, as |-> {}, writes |-> {}, undo |-> undo]
Known(call) == [call EXCEPT !.as = call.gets]
Check(undo) == Call({}, undo)
Write(export, undo) == [Check(undo) EXCEPT !.writes = {export}]
Drop(resources) == [Check(<<>>) EXCEPT !.drops = resources]

\* DebugSetProcessKillOnExit; open, measure, buffer, read, close.
InjectDll ==
  <<Check(<<>>), Call({"file"}, <<>>), Check(<<"file">>), Call({"buffer"}, <<"file">>),
    Check(<<"buffer", "file">>), Drop({"file"})>>

\* Headers; both allocations; sections and relocations in range; write,
\* protect and flush.  InjectDll frees its buffer in any case.
MapperFails == <<"localImage", "image", "buffer">>
ReflectiveDLLInject ==
  <<Check(<<"buffer">>), Call({"image"}, <<"buffer">>), Call({"localImage"}, <<"image", "buffer">>),
    Check(MapperFails), Check(MapperFails), Check(MapperFails), Check(MapperFails),
    [Drop({"localImage", "buffer"}) EXCEPT !.as = {"image"}]>>

\* GetRemoteImageSize, once hookImageBase_ is assigned.
GetRemoteImageSize == <<Check(<<>>)>>

ReleaseLocalRing == <<"wakeEvent", "view", "section">>
CreateSharedRing ==
  <<Known(Call({"section"}, <<>>)), Known(Call({"view"}, <<"section">>)),
    Known(Call({"ring"}, <<"view", "section">>)),
    Known(Call({"wakeEvent"}, <<"ring", "view", "section">>)),
    Known(Call({"wakeHandle"}, <<"ring">> \o ReleaseLocalRing))>>

\* Stop event and output, the ring, three exports, the two threads.
StartFails == <<"ring">> \o ReleaseLocalRing
Start ==
  <<Check(<<>>), Check(<<>>)>> \o CreateSharedRing \o
  <<Write("TransportRing", StartFails), Write("TransportWakeEvent", StartFails), Check(StartFails)>> \o
  <<Known(Call({"threads"}, <<>>))>>

\* CreateBypassTrampolineForFunction: find the export, decode its code,
\* allocate, write the trampoline; only then is the address handed out.
Bypass(b) == <<Check(<<>>), Check(<<>>), Call({b}, <<>>), [Check(<<b>>) EXCEPT !.as = {b}]>>
ConfigureTransport ==
  Bypass("setEventBypass") \o Bypass("readMemoryBypass") \o
  <<Write("TransportNtSetEvent", <<>>), Write("TransportNtReadVirtualMemory", <<>>)>>

SetupCalls == InjectDll \o ReflectiveDLLInject \o GetRemoteImageSize \o Start \o ConfigureTransport

OpenOutputCall == Len(InjectDll \o ReflectiveDLLInject \o GetRemoteImageSize) + 2

\* OpenOutput refuses these before it opens any file.
Refused(options) == ~options.path /\ (options.jsonl \/ options.quiet)

-----------------------------------------------------------------------------
SetupInit ==
  /\ stage = "idle" /\ step = 1
  /\ held = {} /\ known = {} /\ releasing = <<>> /\ exports = {}
  /\ lost = {} /\ lostBefore = {} /\ cleaned = TRUE
  /\ output = [jsonl |-> FALSE, quiet |-> FALSE, path |-> FALSE]

Succeeds ==
  LET call == SetupCalls[step]
  IN /\ stage = "setup"
     /\ step = OpenOutputCall => ~Refused(output)
     /\ held' = (held \union call.gets) \ call.drops
     /\ known' = known \union call.as
     /\ exports' = exports \union call.writes
     /\ IF step = Len(SetupCalls) THEN stage' = "tracing" /\ UNCHANGED step
        ELSE step' = step + 1 /\ UNCHANGED stage
     /\ UNCHANGED <<releasing, lost, lostBefore, cleaned, output>>

\* CloseHandle and VirtualFree of the controller's own do not fail, the
\* threads start, and without a path there is no file to fail to open.
Fails ==
  LET call == SetupCalls[step]
  IN /\ stage = "setup"
     /\ call.drops = {} /\ "threads" \notin call.gets
     /\ step = OpenOutputCall => output.path \/ Refused(output)
     /\ stage' = "undo"
     /\ releasing' = call.undo
     /\ UNCHANGED <<step, held, known, exports, lost, lostBefore, cleaned, output>>

ReleaseKeepingField(r, released) ==  \* defect: the field still names the resource
  /\ released \/ r \in Remote
  /\ held' = IF released THEN held \ {r} ELSE held
  /\ lost' = IF released THEN lost ELSE lost \union {r}
  /\ releasing' = Tail(releasing)
  /\ UNCHANGED known

\* A resource of the target may refuse to go; its field is cleared anyway.
Release(r, released) ==
  /\ released \/ r \in Remote
  /\ held' = IF released THEN held \ {r} ELSE held
  /\ lost' = IF released THEN lost ELSE lost \union {r}
  /\ known' = known \ {r}
  /\ releasing' = Tail(releasing)

UndoOne ==
  /\ stage = "undo" /\ releasing # <<>>
  /\ \E released \in BOOLEAN : Release(Head(releasing), released)
  /\ UNCHANGED <<stage, step, exports, lostBefore, cleaned, output>>

\* DebugSession::CleanupRemote: the trace session's CleanupRemote, Stop, the
\* image.
CleanupOrder ==
  <<"TransportRing", "TransportWakeEvent", "TransportNtSetEvent", "TransportNtReadVirtualMemory",
    "ring", "wakeHandle", "setEventBypass", "readMemoryBypass", "threads">> \o
  ReleaseLocalRing \o <<"image">>

\* Nothing of the target is touched without the image, and nothing is
\* released whose field is null.
IsCleaned(r) ==
  /\ r \in TransportExports \union Remote => "image" \in known
  /\ r \notin TransportExports => r \in known

\* The failed handler's event, or a clean stop's, ends in CleanupRemote.
StartCleanup ==
  /\ \/ stage = "undo" /\ releasing = <<>>
     \/ stage = "tracing"
  /\ stage' = "cleanup"
  /\ releasing' = CleanupOrder
  /\ lostBefore' = lost
  /\ UNCHANGED <<step, held, known, exports, lost, cleaned, output>>

\* One step of the cleanup: an export nulled or a resource released, or not.
CleanStep(done) ==
  IF Head(releasing) \in TransportExports
  THEN /\ exports' = IF done THEN exports \ {Head(releasing)} ELSE exports
       /\ releasing' = Tail(releasing)
       /\ UNCHANGED <<held, known, lost>>
  ELSE Release(Head(releasing), done) /\ UNCHANGED exports

CleanOneShortCircuit ==  \* defect: cleaned && X() skips what follows a failure
  /\ stage = "cleanup" /\ releasing # <<>> /\ IsCleaned(Head(releasing))
  /\ IF ~cleaned /\ Head(releasing) \in Remote
     THEN known' = known \ {Head(releasing)} /\ releasing' = Tail(releasing)
          /\ UNCHANGED <<held, lost, exports, cleaned>>
     ELSE \E done \in BOOLEAN : CleanStep(done) /\ cleaned' = (done /\ cleaned)
  /\ UNCHANGED <<stage, step, lostBefore, output>>

CleanOneLastWins ==  \* defect: cleaned = X() forgets an earlier failure
  /\ stage = "cleanup" /\ releasing # <<>> /\ IsCleaned(Head(releasing))
  /\ \E done \in BOOLEAN : CleanStep(done) /\ cleaned' = done
  /\ UNCHANGED <<stage, step, lostBefore, output>>

\* cleaned = X() && cleaned: each step runs whatever the ones before it did.
CleanOne ==
  /\ stage = "cleanup" /\ releasing # <<>> /\ IsCleaned(Head(releasing))
  /\ \E done \in BOOLEAN : CleanStep(done) /\ cleaned' = (done /\ cleaned)
  /\ UNCHANGED <<stage, step, lostBefore, output>>

\* What is not there is passed over.
PassOver ==
  /\ stage = "cleanup" /\ releasing # <<>> /\ ~IsCleaned(Head(releasing))
  /\ releasing' = Tail(releasing)
  /\ UNCHANGED <<stage, step, held, known, exports, lost, lostBefore, cleaned, output>>

FinishCleanup ==
  /\ stage = "cleanup" /\ releasing = <<>>
  /\ stage' = "over"
  /\ UNCHANGED <<step, held, known, releasing, exports, lost, lostBefore, cleaned, output>>

SetupNext == Succeeds \/ Fails \/ UndoOne \/ StartCleanup \/ CleanOne \/ PassOver \/ FinishCleanup

-----------------------------------------------------------------------------
(* What it promises.                                                       *)

\* Types; the fields (known) never name a resource that is gone, so nothing
\* is released twice, although Start's rollback and CleanupRemote both
\* release the ring (trace_session.cpp:152, 288 and 331); and reader and
\* writer never outlive the ring they read and the event they wait for
\* (TraceSession::Stop joins before it releases).
SetupTypeOK ==
  /\ stage \in {"idle", "setup", "undo", "tracing", "cleanup", "over"}
  /\ step \in 1..Len(SetupCalls)
  /\ known \subseteq held /\ held \subseteq Remote \union Local
  /\ lost \subseteq Remote \intersect held
  /\ exports \subseteq TransportExports
  /\ "threads" \in held => {"view", "wakeEvent"} \subseteq held

\* Whichever call fails and whichever releases fail with it, when the
\* session has let go only those resources are left that would not go
\* (ReflectiveDLLInject's error paths, Start's rollback, CleanupRemote).
OnlyLostRemain == stage = "over" => held = lost

\* No cleanup passes for complete (debug_session.cpp:531) that left an export
\* naming what is gone, or lost a resource.
CompleteMeansClean == stage = "over" /\ cleaned => exports = {} /\ lost = lostBefore
=============================================================================
