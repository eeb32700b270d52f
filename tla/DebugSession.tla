---------------------------- MODULE DebugSession ----------------------------
(***************************************************************************)
(* The debug session (debug_session.cpp) and the hooks it installs in the  *)
(* target (hook_manager.cpp, api_hook.h): the event loop, module records,  *)
(* pending hooks, removal on unload, the clean stop with its quiescence    *)
(* check, cleanup, and the target's threads running through patched        *)
(* exports, handlers and trampolines.                                      *)
(*                                                                         *)
(* The debugger freezes the target from the delivery of a debug event to   *)
(* ContinueDebugEvent.  Every remote call that can fail is a choice among  *)
(* outcomes, open when "Faults" names it.                                  *)
(***************************************************************************)
EXTENDS Naturals, FiniteSets, Sequences, SequencesExt

CONSTANTS
  Threads,      \* the target's threads
  Bases,        \* addresses at which modules are mapped
  Names,        \* module names; "Ntdll" is one
  Ntdll,
  Definitions,  \* options_.hooks: a sequence of hooks, no two alike
  Source,       \* the module a hook names ...
  Home,         \* ... the one its chain of forwarders leads to ...
  Export,       \* ... and the function there, for each hook
  Trampolines,  \* remote memory for trampolines
  Original,     \* the bytes a module's own code begins with
  Null,
  MaxBreaks,    \* bound: breakpoints raised and not yet reported
  MaxForgotten, \* bound: hooks whose removal at an unload fails
  Faults        \* the calls that may fail and the unfriendly things a target may do

Hooks == {Definitions[i] : i \in DOMAIN Definitions}
Entries == Bases \X {Export[h] : h \in Hooks}
Entry(base, h) == <<base, Export[h]>>

ASSUME DefinitionsAssumption ==
  /\ Definitions \in Seq(Hooks)
  /\ \A i, j \in DOMAIN Definitions : Definitions[i] = Definitions[j] => i = j
ASSUME ModulesAssumption ==
  Ntdll \in Names /\ Source \in [Hooks -> Names] /\ Home \in [Hooks -> Names]
ASSUME NullAssumption ==
  /\ Null \notin Names \union Trampolines \union Bases \union Hooks
                  \union Entries \union (Entries \X (Hooks \union {Original}))
  /\ Original \notin Hooks

VARIABLES
  \* the target
  loaded,       \* the module at each base, or Null
  bytes,        \* what an export begins with: Original, or the jump to a hook's handler
  slot,         \* each hook's trampoline variable in the hook image, or Null
  trampoline,   \* trampoline memory: Null when free, or an entry and its moved bytes
  image,        \* the hook image is mapped
  ring,         \* the trace ring is mapped in the target
  bypasses,     \* how many of the two transport bypasses exist
  activeCalls,  \* ActiveHookCalls
  place, call,  \* where each thread is, and in which call
  \* the session
  modules,      \* modules_, in order of their generations
  unnamed,      \* modules that were reported, could not be identified and are not in modules_
  installed,    \* installedHooks_
  transportConfigured, initialBreakpointSeen, stopBreakRequested,
  stopRequested,   \* StopRequested
  breaksPending,   \* DebugBreakProcess calls whose breakpoint is still to come
  retry,           \* retryCleanStop
  loop, next, subject,  \* the controller thread's place, index and module in hand
  ending,          \* "none", "clean" (cleanStop), "failed" (not eventOk), "exited"
  forgotten,       \* hooks erased at an unload although their removal failed
  cleaned,         \* CleanupRemote's result so far
  trace,           \* the trace session: "off", "on", "stopped" or "drained"
  killOnExit,      \* not debugActive_: the system kills the target when the controller exits
  detached         \* "no", "yes", or "refused": DebugActiveProcessStop has failed

memoryVars == <<bytes, slot, trampoline>>
imageVars == <<image, ring, bypasses>>
threadVars == <<activeCalls, place, call>>
tableVars == <<modules, unnamed, installed, transportConfigured>>
stopVars == <<initialBreakpointSeen, stopBreakRequested, stopRequested, breaksPending, retry>>
loopVars == <<loop, next, subject>>
endVars == <<ending, forgotten, cleaned, trace, killOnExit, detached>>
targetVars == <<loaded, memoryVars, imageVars, threadVars>>
sessionVars == <<tableVars, stopVars, loopVars, endVars>>
vars == <<targetVars, sessionVars>>

NoCall == [entry |-> Null, hook |-> Null, trampoline |-> Null]

Init ==
  /\ IF "Attach" \in Faults
     THEN loaded \in {f \in [Bases -> Names \union {Null}] :
                        \A a, b \in Bases : f[a] = f[b] => a = b \/ f[a] = Null}
     ELSE loaded = [b \in Bases |-> Null]
  /\ bytes = [e \in Entries |-> Original]
  /\ slot = [h \in Hooks |-> Null]
  /\ trampoline = [m \in Trampolines |-> Null]
  /\ image = FALSE /\ ring = FALSE /\ bypasses = 0
  /\ activeCalls = 0
  /\ place = [t \in Threads |-> "outside"] /\ call = [t \in Threads |-> NoCall]
  /\ modules = <<>> /\ unnamed = {} /\ installed = <<>> /\ transportConfigured = FALSE
  /\ initialBreakpointSeen = FALSE /\ stopBreakRequested = FALSE
  /\ stopRequested = FALSE /\ breaksPending = 0 /\ retry = FALSE
  /\ loop = "top" /\ next = 1 /\ subject = Null
  /\ ending = "none" /\ forgotten = {} /\ cleaned = TRUE /\ trace = "off"
  /\ killOnExit = TRUE /\ detached = "no"

\* The outcomes of a call, and how far a sequence of n calls gets.
Outcomes(fault) == IF fault \in Faults THEN BOOLEAN ELSE {TRUE}
Reached(fault, n) == IF fault \in Faults THEN 0..n ELSE {n}

-----------------------------------------------------------------------------
(* The target's threads.  A call enters an export, whose first bytes may   *)
(* be the jump to a handler; the handler counts itself (HookCallGuard),    *)
(* calls the original function through the trampoline, emits its event and *)
(* returns.  Between its first and last instruction and the counter it is  *)
(* in the hook image uncounted ("enter", "leave").                         *)

Frozen == loop \in {"install", "unload", "cleanup", "release", "continue"}
TargetRuns == ~Frozen /\ ending # "exited"

InImage == {"enter", "handler", "after", "leave"}
Counted == {"handler", "trampoline", "body", "after"}
Instrumented == InImage \union Counted

\* The next instruction is not there any more, or leads nowhere: the image or
\* the trampoline was freed, the slot was cleared, or the moved bytes are
\* themselves a jump to the handler.
Astray(t) ==
  \/ place[t] = "lost"
  \/ place[t] \in InImage /\ ~image
  \/ place[t] = "handler" /\ slot[call[t].hook] = Null
  \/ place[t] = "trampoline" /\ trampoline[call[t].trampoline] # <<call[t].entry, Original>>

Goes(t, to) == place' = [place EXCEPT ![t] = to]
At(t, where) == TargetRuns /\ place[t] = where /\ ~Astray(t)

Calls(t) ==
  /\ At(t, "outside")
  /\ \E b \in Bases, h \in Hooks :
       /\ loaded[b] = Home[h]
       /\ call' = [call EXCEPT ![t].entry = Entry(b, h)]
  /\ Goes(t, "prologue")
  /\ UNCHANGED <<activeCalls, loaded, memoryVars, imageVars, sessionVars>>

RunsUnhooked(t) ==
  /\ At(t, "prologue") /\ bytes[call[t].entry] = Original
  /\ Goes(t, "outside")
  /\ call' = [call EXCEPT ![t] = NoCall]
  /\ UNCHANGED <<activeCalls, loaded, memoryVars, imageVars, sessionVars>>

RunsJump(t) ==
  /\ At(t, "prologue") /\ bytes[call[t].entry] # Original
  /\ Goes(t, "enter")
  /\ call' = [call EXCEPT ![t].hook = bytes[call[t].entry]]
  /\ UNCHANGED <<activeCalls, loaded, memoryVars, imageVars, sessionVars>>

\* HookCallGuard::HookCallGuard
EntersHandler(t) ==
  /\ At(t, "enter")
  /\ activeCalls' = activeCalls + 1
  /\ Goes(t, "handler")
  /\ UNCHANGED <<call, loaded, memoryVars, imageVars, sessionVars>>

\* CALL_ORIGINAL
CallsOriginal(t) ==
  /\ At(t, "handler")
  /\ call' = [call EXCEPT ![t].trampoline = slot[call[t].hook]]
  /\ Goes(t, "trampoline")
  /\ UNCHANGED <<activeCalls, loaded, memoryVars, imageVars, sessionVars>>

\* The moved instructions, then the jump back behind the patch.
RunsTrampoline(t) ==
  /\ At(t, "trampoline")
  /\ Goes(t, "body")
  /\ UNCHANGED <<activeCalls, call, loaded, memoryVars, imageVars, sessionVars>>

\* The function itself, which may block.
Returns(t) ==
  /\ At(t, "body")
  /\ Goes(t, "after")
  /\ UNCHANGED <<activeCalls, call, loaded, memoryVars, imageVars, sessionVars>>

\* The event is emitted, then HookCallGuard::~HookCallGuard
LeavesHandler(t) ==
  /\ At(t, "after")
  /\ activeCalls' = activeCalls - 1
  /\ Goes(t, "leave")
  /\ UNCHANGED <<call, loaded, memoryVars, imageVars, sessionVars>>

ReturnsToCaller(t) ==
  /\ At(t, "leave")
  /\ Goes(t, "outside")
  /\ call' = [call EXCEPT ![t] = NoCall]
  /\ UNCHANGED <<activeCalls, loaded, memoryVars, imageVars, sessionVars>>

Crashes(t) ==
  /\ TargetRuns /\ Astray(t) /\ place[t] # "lost"
  /\ Goes(t, "lost")
  /\ UNCHANGED <<activeCalls, call, loaded, memoryVars, imageVars, sessionVars>>

\* The thread is terminated where it stands and never counts itself out.
Killed(t) ==
  /\ "Kill" \in Faults /\ TargetRuns
  /\ place[t] \in Instrumented \union {"prologue"}
  /\ Goes(t, "dead")
  /\ call' = [call EXCEPT ![t] = NoCall]
  /\ UNCHANGED <<activeCalls, loaded, memoryVars, imageVars, sessionVars>>

InHook(t) == RunsUnhooked(t) \/ RunsJump(t) \/ EntersHandler(t) \/ CallsOriginal(t)
             \/ RunsTrampoline(t) \/ LeavesHandler(t) \/ ReturnsToCaller(t)
Thread(t) == Calls(t) \/ InHook(t) \/ Returns(t) \/ Crashes(t) \/ Killed(t)

\* Rewriting the first bytes of an export under a thread that is between them.
Rewrite(entry, code) ==
  /\ bytes' = [bytes EXCEPT ![entry] = code]
  /\ place' = [t \in Threads |->
       IF place[t] = "prologue" /\ call[t].entry = entry /\ bytes[entry] # code
       THEN "lost" ELSE place[t]]

-----------------------------------------------------------------------------
(* The hook manager.                                                       *)

\* HookFunction fails, before or after it wrote the slot, and gives slot and
\* trampoline back with calls whose results nobody looks at.
GivesBack(hook, written) ==
  \E cleared, freed \in Outcomes("Rollback") :
    /\ slot' = IF written
               THEN [slot EXCEPT ![hook.hook] = IF cleared THEN Null ELSE hook.trampoline]
               ELSE slot
    /\ trampoline' = IF freed THEN trampoline
                     ELSE [trampoline EXCEPT ![hook.trampoline] = <<hook.entry, hook.saved>>]

\* HookFunction from the moment PatchFunction writes the jump.  If the calls
\* behind it fail the jump stays.
HookFunction(hook, ok) ==
  /\ Rewrite(hook.entry, hook.hook)
  /\ IF ok
     THEN /\ trampoline' = [trampoline EXCEPT ![hook.trampoline] = <<hook.entry, hook.saved>>]
          /\ slot' = [slot EXCEPT ![hook.hook] = hook.trampoline]
     ELSE GivesBack(hook, TRUE)

UnhookKeepsSlot(hook, steps) ==  \* defect: the slot is not cleared
  /\ IF steps >= 1
     THEN Rewrite(hook.entry, hook.saved)
     ELSE UNCHANGED <<bytes, place>>
  /\ trampoline' = IF steps >= 3 THEN [trampoline EXCEPT ![hook.trampoline] = Null] ELSE trampoline
  /\ UNCHANGED slot

\* UnhookFunction: bytes restored, slot cleared, trampoline freed, in this
\* order and as far as it gets.
UnhookFunction(hook, steps) ==
  /\ IF steps >= 1
     THEN Rewrite(hook.entry, hook.saved)
     ELSE UNCHANGED <<bytes, place>>
  /\ slot' = IF steps >= 2 THEN [slot EXCEPT ![hook.hook] = Null] ELSE slot
  /\ trampoline' = IF steps >= 3 THEN [trampoline EXCEPT ![hook.trampoline] = Null] ELSE trampoline

\* ReleaseUnloadedHook: the module's memory is gone and is not touched.
ReleaseUnloadedHook(hook, cleared, freed) ==
  /\ slot' = IF cleared THEN [slot EXCEPT ![hook.hook] = Null] ELSE slot
  /\ trampoline' = IF freed THEN [trampoline EXCEPT ![hook.trampoline] = Null] ELSE trampoline
  /\ UNCHANGED <<bytes, place>>

-----------------------------------------------------------------------------
(* Debug events, delivered while the loop waits; handlers of several steps *)
(* go on below.                                                            *)

Waiting == loop = "wait" /\ TargetRuns
Then(label) == loop' = label
Fails == ending' = "failed" /\ Then("cleanup")

\* InitializeDebuggee: DebugSetProcessKillOnExit, InjectDll, the image size
\* and TraceSession::Start, as far as it gets.  The executable's own module
\* names no hook and the transport is not configured yet.
HandleCreateProcess ==
  /\ Waiting /\ trace = "off"
  /\ \E calls \in Reached("Initialize", 4) :
       /\ killOnExit' = (calls = 0)
       /\ image' = (calls >= 2)
       /\ ring' = (calls = 4)
       /\ IF calls = 4
          THEN trace' = "on" /\ Then("continue") /\ UNCHANGED ending
          ELSE Fails /\ UNCHANGED trace
  /\ UNCHANGED <<loaded, memoryVars, bypasses, threadVars, tableVars, stopVars,
                 next, subject, forgotten, cleaned, detached>>

\* ConfigureTransport, once, when ntdll is there: two bypass trampolines and
\* their addresses in the hook image.
ConfigureTransport ==
  \E ok \in Outcomes("Configure") :
    IF ok
    THEN /\ bypasses' = 2 /\ transportConfigured' = TRUE
         /\ Then("install") /\ UNCHANGED ending
    ELSE bypasses' \in 0..2 /\ Fails /\ UNCHANGED transportConfigured

\* The system reports ntdll before any other module, and two modules of one
\* name are told apart only by when they were loaded.
LoadReported(b, name) ==
  /\ Waiting /\ trace = "on"
  /\ modules = <<>> /\ unnamed = {} => name = Ntdll
  /\ loaded[b] \in {Null, name}
  /\ b \notin unnamed /\ \A i \in DOMAIN modules : modules[i].base # b
  /\ \A a \in Bases : loaded[a] = name /\ a # b => "SameName" \in Faults /\ name # Ntdll
  /\ loaded' = [loaded EXCEPT ![b] = name]

\* RegisterModule
HandleLoadDll(b, name) ==
  /\ LoadReported(b, name)
  /\ modules' = Append(modules, [base |-> b, name |-> name])
  /\ next' = 1
  /\ IF name = Ntdll /\ ~transportConfigured
     THEN ConfigureTransport
     ELSE /\ Then(IF transportConfigured THEN "install" ELSE "continue")
          /\ UNCHANGED <<bypasses, transportConfigured, ending>>
  /\ UNCHANGED <<memoryVars, image, ring, threadVars, unnamed, installed, stopVars, subject,
                 forgotten, cleaned, trace, killOnExit, detached>>

\* ... when neither the file nor the export directory tells the module's name:
\* it is not registered, no hook is tried, and the handler succeeds.
HandleUnnamedDll(b, name) ==
  /\ "Unnamed" \in Faults
  /\ LoadReported(b, name)
  /\ unnamed' = unnamed \union {b}
  /\ Then("continue")
  /\ UNCHANGED <<memoryVars, imageVars, threadVars, modules, installed, transportConfigured,
                 stopVars, next, subject, endVars>>

\* A correct program unloads a module when none of its functions is called.
HandleUnloadDll(b) ==
  /\ Waiting /\ trace = "on"
  /\ b \in unnamed \/ \E i \in DOMAIN modules : modules[i].base = b
  /\ loaded[b] # Ntdll
  /\ \A t \in Threads : call[t].entry # Null => call[t].entry[1] # b
  /\ loaded' = [loaded EXCEPT ![b] = Null]
  /\ bytes' = [e \in Entries |-> IF e[1] = b THEN Original ELSE bytes[e]]
  /\ unnamed' = unnamed \ {b}
  /\ subject' = b /\ next' = 1
  /\ Then("unload")
  /\ UNCHANGED <<slot, trampoline, imageVars, threadVars, modules, installed, transportConfigured,
                 stopVars, endVars>>

InstrumentationImage(t) == place[t] \in InImage  \* defect: no patched bytes, no trampolines

\* IsInstrumentationAddress for the thread's instruction pointer: inside the
\* hook image, the patched bytes or the trampoline of an installed hook.
InstrumentationAddress(t) ==
  \/ place[t] \in InImage
  \/ \E i \in DOMAIN installed :
       \/ place[t] = "prologue" /\ installed[i].entry = call[t].entry
       \/ place[t] = "trampoline" /\ installed[i].trampoline = call[t].trampoline

CountedOutOnly(seen) == image => activeCalls = 0  \* defect: the counter is all there is to see

\* The answer of a scan that looked at the threads "seen".
IsCleanupQuiescent(seen) ==
  image => activeCalls = 0 /\ \A t \in seen : ~InstrumentationAddress(t)

\* A breakpoint: one that DebugBreakProcess raised, or the target's own.  The
\* counter or a thread's context may be unreadable, which counts as a no
\* ("Scan"); a list of threads that cannot be read, or not to its end, counts
\* as a scan of the threads read so far ("Snapshot").
HandleBreakpoint ==
  /\ Waiting /\ trace = "on"
  /\ \/ breaksPending > 0 /\ breaksPending' = breaksPending - 1
     \/ breaksPending < MaxBreaks /\ UNCHANGED breaksPending
  /\ IF stopBreakRequested
     THEN \E readable \in Outcomes("Scan"),
             seen \in (IF "Snapshot" \in Faults THEN SUBSET Threads ELSE {Threads}) :
            IF readable /\ IsCleanupQuiescent(seen)
            THEN ending' = "clean" /\ Then("cleanup") /\ UNCHANGED retry
            ELSE retry' = TRUE /\ Then("continue") /\ UNCHANGED ending
     ELSE Then("continue") /\ UNCHANGED <<ending, retry>>
  /\ initialBreakpointSeen' = (initialBreakpointSeen \/ ~stopBreakRequested)
  /\ UNCHANGED <<targetVars, tableVars, stopBreakRequested, stopRequested,
                 next, subject, forgotten, cleaned, trace, killOnExit, detached>>

HandleExitProcess ==
  /\ Waiting /\ trace = "on"
  /\ ending' = "exited" /\ trace' = "drained"
  /\ place' = [t \in Threads |-> "dead"] /\ call' = [t \in Threads |-> NoCall]
  /\ Then("continue")
  /\ UNCHANGED <<activeCalls, loaded, memoryVars, imageVars, tableVars, stopVars, next, subject,
                 forgotten, cleaned, killOnExit, detached>>

DebugEvent ==
  \/ HandleCreateProcess
  \/ \E b \in Bases, name \in Names : HandleLoadDll(b, name) \/ HandleUnnamedDll(b, name)
  \/ \E b \in Bases : HandleUnloadDll(b)
  \/ HandleBreakpoint
  \/ HandleExitProcess

-----------------------------------------------------------------------------
(* TryInstallPendingHooks, one definition a step.                          *)

\* FindModule: the newest module of that name.
FindModule(name) ==
  LET i == SelectLastInSeq(modules, LAMBDA m : m.name = name)
  IN IF i = 0 THEN Null ELSE modules[i].base

IsInstalled(h) == \E i \in DOMAIN installed : installed[i].hook = h
Pending(h) == FindModule(Source[h]) = Null \/ FindModule(Home[h]) = Null

Installing == loop = "install" /\ next <= Len(Definitions)
Ready(h) == ~IsInstalled(h) /\ ~Pending(h)

SkipsNothing ==  \* defect: the loop does not advance
  /\ Installing
  /\ ~Ready(Definitions[next])
  /\ UNCHANGED vars

SkipsHook ==
  /\ Installing
  /\ ~Ready(Definitions[next])
  /\ next' = next + 1
  /\ UNCHANGED <<targetVars, tableVars, stopVars, loop, subject, endVars>>

Free == {m \in Trampolines : trampoline[m] = Null}

\* The hook of "h" in the newest modules, with its trampoline at "m".
Resolved(h, m) ==
  LET target == FindModule(Home[h])
  IN [hook |-> h, source |-> FindModule(Source[h]), target |-> target,
      entry |-> Entry(target, h), trampoline |-> m, saved |-> bytes[Entry(target, h)]]

Taken(h) == \E i \in DOMAIN installed : installed[i].entry = Entry(FindModule(Home[h]), h)

\* Another hook has the same address, there is no memory, or something fails
\* before the jump is written ("Install"): no such export, a forwarder chain that
\* cannot be followed, instructions that cannot be moved, a remote call.
RefusesHook ==
  /\ Installing /\ Ready(Definitions[next])
  /\ \/ /\ Taken(Definitions[next]) \/ Free = {} \/ "Install" \in Faults
        /\ UNCHANGED <<slot, trampoline>>
     \/ /\ ~Taken(Definitions[next]) /\ "Install" \in Faults
        /\ \E m \in Free, written \in BOOLEAN : GivesBack(Resolved(Definitions[next], m), written)
  /\ Fails
  /\ UNCHANGED <<loaded, bytes, imageVars, threadVars, tableVars, stopVars, next, subject,
                 forgotten, cleaned, trace, killOnExit, detached>>

InstallsHook ==
  /\ Installing /\ Ready(Definitions[next]) /\ ~Taken(Definitions[next])
  /\ \E m \in Free, ok \in Outcomes("Patch") :
       LET hook == Resolved(Definitions[next], m)
       IN /\ HookFunction(hook, ok)
          /\ IF ok
             THEN /\ installed' = Append(installed, hook)
                  /\ next' = next + 1
                  /\ UNCHANGED <<loop, ending>>
             ELSE Fails /\ UNCHANGED <<installed, next>>
  /\ UNCHANGED <<loaded, imageVars, activeCalls, call, modules, unnamed, transportConfigured,
                 stopVars, subject, forgotten, cleaned, trace, killOnExit, detached>>

InstallEndsAtPending ==  \* defect: the first pending hook ends the loop
  /\ loop = "install"
  /\ next <= Len(Definitions) => Pending(Definitions[next])
  /\ Then("continue")
  /\ UNCHANGED <<targetVars, tableVars, stopVars, next, subject, endVars>>

InstallEnds ==
  /\ loop = "install" /\ next > Len(Definitions)
  /\ Then("continue")
  /\ UNCHANGED <<targetVars, tableVars, stopVars, next, subject, endVars>>

TryInstallPendingHooks == SkipsHook \/ RefusesHook \/ InstallsHook \/ InstallEnds

-----------------------------------------------------------------------------
(* HandleUnloadDll after the module is gone, one hook a step.              *)

Unloading == loop = "unload" /\ next <= Len(installed)

KeepsHook ==
  /\ Unloading
  /\ installed[next].target # subject /\ installed[next].source # subject
  /\ next' = next + 1
  /\ UNCHANGED <<targetVars, tableVars, stopVars, loop, subject, endVars>>

\* A removal that fails is complained of, and the hook is erased all the same.
Forgets(hook, removed) ==
  /\ forgotten' = IF removed THEN forgotten ELSE forgotten \union {hook}
  /\ Cardinality(forgotten') <= MaxForgotten

ForgetsHookAndSkips ==  \* defect: erase moves the next hook under the index, which moves on
  /\ Unloading
  /\ \/ /\ installed[next].target = subject
        /\ \E cleared, freed \in Outcomes("Release") :
             /\ ReleaseUnloadedHook(installed[next], cleared, freed)
             /\ Forgets(installed[next], cleared /\ freed)
     \/ /\ installed[next].target # subject /\ installed[next].source = subject
        /\ \E steps \in Reached("UnhookOnUnload", 3) :
             /\ UnhookFunction(installed[next], steps)
             /\ Forgets(installed[next], steps = 3)
  /\ installed' = RemoveAt(installed, next)
  /\ next' = next + 1
  /\ UNCHANGED <<loaded, imageVars, activeCalls, call, modules, unnamed, transportConfigured,
                 stopVars, loop, subject, ending, cleaned, trace, killOnExit, detached>>

ForgetsHook ==
  /\ Unloading
  /\ \/ /\ installed[next].target = subject
        /\ \E cleared, freed \in Outcomes("Release") :
             /\ ReleaseUnloadedHook(installed[next], cleared, freed)
             /\ Forgets(installed[next], cleared /\ freed)
     \/ /\ installed[next].target # subject /\ installed[next].source = subject
        /\ \E steps \in Reached("UnhookOnUnload", 3) :
             /\ UnhookFunction(installed[next], steps)
             /\ Forgets(installed[next], steps = 3)
  /\ installed' = RemoveAt(installed, next)
  /\ UNCHANGED <<loaded, imageVars, activeCalls, call, modules, unnamed, transportConfigured,
                 stopVars, loopVars, ending, cleaned, trace, killOnExit, detached>>

UnloadEnds ==
  /\ loop = "unload" /\ next > Len(installed)
  /\ \/ \E i \in DOMAIN modules : modules[i].base = subject /\ modules' = RemoveAt(modules, i)
     \/ (\A i \in DOMAIN modules : modules[i].base # subject) /\ UNCHANGED modules
  /\ subject' = Null
  /\ Then("continue")
  /\ UNCHANGED <<targetVars, unnamed, installed, transportConfigured, stopVars, next, endVars>>

UnloadHooks == KeepsHook \/ ForgetsHook \/ UnloadEnds

-----------------------------------------------------------------------------
(* CleanupRemote, from the last hook to the first, then the transport, the *)
(* local end of the session and the hook image.                            *)

RemovesHookLastCounts ==  \* defect: a success forgets an earlier failure
  /\ loop = "cleanup" /\ installed # <<>>
  /\ \E steps \in Reached("Unhook", 3) :
       /\ UnhookFunction(Last(installed), steps)
       /\ cleaned' = (steps = 3)
  /\ installed' = Front(installed)
  /\ UNCHANGED <<loaded, imageVars, activeCalls, call, modules, unnamed, transportConfigured,
                 stopVars, loopVars, ending, forgotten, trace, killOnExit, detached>>

RemovesHook ==
  /\ loop = "cleanup" /\ installed # <<>>
  /\ \E steps \in Reached("Unhook", 3) :
       /\ UnhookFunction(Last(installed), steps)
       /\ cleaned' = (cleaned /\ steps = 3)
  /\ installed' = Front(installed)
  /\ UNCHANGED <<loaded, imageVars, activeCalls, call, modules, unnamed, transportConfigured,
                 stopVars, loopVars, ending, forgotten, trace, killOnExit, detached>>

HooksRemovedEarly ==  \* defect: the loop may leave a hook
  /\ loop = "cleanup" /\ Len(installed) <= 1
  /\ Then("release")
  /\ UNCHANGED <<targetVars, tableVars, stopVars, next, subject, endVars>>

HooksRemoved ==
  /\ loop = "cleanup" /\ installed = <<>>
  /\ Then("release")
  /\ UNCHANGED <<targetVars, tableVars, stopVars, next, subject, endVars>>

ReleasesRemote ==
  /\ loop = "release"
  /\ IF image
     THEN \E released, freed \in Outcomes("Cleanup") :
            /\ ring' = (ring /\ ~released)
            /\ bypasses' = IF released THEN 0 ELSE bypasses
            /\ image' = ~freed
            /\ cleaned' = (cleaned /\ released /\ freed)
     ELSE UNCHANGED <<imageVars, cleaned>>
  /\ trace' = "stopped"
  /\ Then("continue")
  /\ UNCHANGED <<loaded, memoryVars, threadVars, tableVars, stopVars, next, subject,
                 ending, forgotten, killOnExit, detached>>

CleanupRemote == RemovesHook \/ HooksRemoved \/ ReleasesRemote

-----------------------------------------------------------------------------
(* The rest of EventLoop.                                                  *)

\* ConsoleControlHandler
StopKey ==
  /\ loop # "over"
  /\ stopRequested' = TRUE
  /\ UNCHANGED <<targetVars, tableVars, initialBreakpointSeen, stopBreakRequested,
                 breaksPending, retry, loopVars, endVars>>

\* The test of StopRequested at the head of every iteration.
BreaksIn ==
  /\ loop = "top" /\ stopRequested /\ ~stopBreakRequested
  /\ \E ok \in Outcomes("Break") :
       IF ok
       THEN /\ stopBreakRequested' = TRUE
            /\ breaksPending' = breaksPending + 1
            /\ Then("wait")
       ELSE Then("broken") /\ UNCHANGED <<stopBreakRequested, breaksPending>>
  /\ UNCHANGED <<targetVars, tableVars, initialBreakpointSeen, stopRequested, retry,
                 next, subject, endVars>>

Waits ==
  /\ loop = "top" /\ (stopRequested => stopBreakRequested)
  /\ Then("wait")
  /\ UNCHANGED <<targetVars, tableVars, stopVars, next, subject, endVars>>

\* WaitForDebugEventEx without an event, after 100 ms or for good.
TimesOut ==
  /\ loop = "wait"
  /\ Then("top")
  /\ UNCHANGED <<targetVars, tableVars, stopVars, next, subject, endVars>>

WaitFails ==
  /\ "Wait" \in Faults /\ loop = "wait"
  /\ Then("broken")
  /\ UNCHANGED <<targetVars, tableVars, stopVars, next, subject, endVars>>

\* ContinueDebugEvent, and what the rest of the iteration does.
ContinuesTarget ==
  /\ loop = "continue"
  /\ \E ok \in Outcomes("Continue") :
       Then(IF ~ok THEN "broken"
            ELSE IF retry THEN "retry"
            ELSE CASE ending = "none" -> "top"
                   [] ending = "exited" -> "over"
                   [] OTHER -> "detach")
  /\ UNCHANGED <<targetVars, tableVars, stopVars, next, subject, endVars>>

RetriesSilently ==  \* defect: no new breakpoint is raised
  /\ loop = "retry"
  /\ retry' = FALSE
  /\ Then("top")
  /\ UNCHANGED <<targetVars, tableVars, initialBreakpointSeen, stopBreakRequested, stopRequested,
                 breaksPending, next, subject, endVars>>

\* Sleep(10), then DebugBreakProcess again
RetriesStop ==
  /\ loop = "retry"
  /\ retry' = FALSE
  /\ \E ok \in Outcomes("Break") :
       IF ok
       THEN Then("top") /\ breaksPending' = breaksPending + 1
       ELSE Then("broken") /\ UNCHANGED breaksPending
  /\ UNCHANGED <<targetVars, tableVars, initialBreakpointSeen, stopBreakRequested, stopRequested,
                 next, subject, endVars>>

\* DebugActiveProcessStop, whose failure is only logged.
Stops == detached' \in IF "Detach" \in Faults THEN {"yes", "refused"} ELSE {"yes"}

\* ... and the trace session is stopped if CleanupRemote has not done so.
Detaches ==
  /\ loop = "detach"
  /\ Stops /\ trace' = "stopped"
  /\ Then("over")
  /\ UNCHANGED <<targetVars, tableVars, stopVars, next, subject, ending, forgotten, cleaned,
                 killOnExit>>

BreaksOffAttached ==  \* defect: the target is not let go
  /\ loop = "broken"
  /\ trace' = IF ending = "exited" THEN trace ELSE "stopped"
  /\ Then("over")
  /\ UNCHANGED <<targetVars, tableVars, stopVars, next, subject, ending, forgotten, cleaned,
                 killOnExit, detached>>

\* The loop broke off: detach if InitializeDebuggee got so far (debugActive_).
BreaksOff ==
  /\ loop = "broken"
  /\ IF killOnExit \/ ending = "exited" THEN UNCHANGED detached ELSE Stops
  /\ trace' = IF ending = "exited" THEN trace ELSE "stopped"
  /\ Then("over")
  /\ UNCHANGED <<targetVars, tableVars, stopVars, next, subject, ending, forgotten, cleaned,
                 killOnExit>>

Controller ==
  \/ TryInstallPendingHooks \/ UnloadHooks \/ CleanupRemote
  \/ BreaksIn \/ Waits \/ TimesOut \/ WaitFails \/ ContinuesTarget \/ RetriesStop \/ Detaches \/ BreaksOff

Next == (\E t \in Threads : Thread(t)) \/ DebugEvent \/ Controller \/ StopKey

Spec == Init /\ [][Next]_vars

\* The controller runs, a raised breakpoint is reported, and threads get on
\* inside the code the session put into the target.
BlockingFairness ==
  /\ WF_vars(Controller)
  /\ SF_vars(HandleBreakpoint /\ breaksPending' < breaksPending)
  /\ \A t \in Threads : WF_vars(InHook(t))
\* ... and the functions of the target return.
Fairness == BlockingFairness /\ \A t \in Threads : WF_vars(Returns(t))

FairSpec == Spec /\ Fairness
BlockingSpec == Spec /\ BlockingFairness

-----------------------------------------------------------------------------
(* Properties.                                                             *)

Places == {"outside", "prologue", "enter", "handler", "trampoline", "body", "after", "leave",
           "lost", "dead"}
InstalledHook == [hook : Hooks, source : Bases, target : Bases, entry : Entries,
                  trampoline : Trampolines, saved : Hooks \union {Original}]
DebugTypeOK ==
  /\ loaded \in [Bases -> Names \union {Null}]
  /\ bytes \in [Entries -> Hooks \union {Original}]
  /\ slot \in [Hooks -> Trampolines \union {Null}]
  /\ trampoline \in [Trampolines -> (Entries \X (Hooks \union {Original})) \union {Null}]
  /\ image \in BOOLEAN /\ ring \in BOOLEAN /\ bypasses \in 0..2
  /\ activeCalls \in Nat
  /\ place \in [Threads -> Places]
  /\ call \in [Threads -> [entry : Entries \union {Null}, hook : Hooks \union {Null},
                           trampoline : Trampolines \union {Null}]]
  /\ modules \in Seq([base : Bases, name : Names]) /\ unnamed \subseteq Bases
  /\ installed \in Seq(InstalledHook)
  /\ transportConfigured \in BOOLEAN /\ initialBreakpointSeen \in BOOLEAN
  /\ stopBreakRequested \in BOOLEAN /\ stopRequested \in BOOLEAN /\ retry \in BOOLEAN
  /\ breaksPending \in Nat
  /\ loop \in {"top", "wait", "install", "unload", "cleanup", "release", "continue", "retry", "detach",
               "broken", "over"}
  /\ next \in Nat \ {0} /\ subject \in Bases \union {Null}
  /\ ending \in {"none", "clean", "failed", "exited"}
  /\ forgotten \subseteq InstalledHook /\ cleaned \in BOOLEAN
  /\ trace \in {"off", "on", "stopped", "drained"}
  /\ killOnExit \in BOOLEAN /\ detached \in {"no", "yes", "refused"}

\* The quiescence check may be trusted: when it answers yes no thread is
\* anywhere inside the instrumentation or about to be led there, although it
\* sees one counter and instruction pointers but no call stacks.
QuiescenceIsReal ==
  image /\ IsCleanupQuiescent(Threads) =>
    \A t \in Threads :
      /\ place[t] \notin Instrumented
      /\ place[t] = "prologue" => bytes[call[t].entry] = Original

\* However threads, modules and a stop interleave, no thread of the target
\* ever runs code that was freed, cleared or rewritten under it, unless a
\* failed handler cut the session short.
NobodyAstray == ending # "failed" => \A t \in Threads : ~Astray(t)

\* Every removal so far, at an unload or in the cleanup, has succeeded.
RemovalsSucceeded == cleaned /\ forgotten = {}

\* The variables have their types, and the hook table and the target's memory
\* agree outside the handlers of loads, unloads and cleanup: each installed
\* hook's export jumps to its handler, its slot leads to a trampoline of its
\* own, and there is no other jump and no other trampoline.  Excepted are
\* sessions in which a handler or the removal of a hook has failed.
HookTable ==
  /\ DebugTypeOK
  /\ ending # "failed" /\ RemovalsSucceeded /\ loop \notin {"install", "unload", "cleanup"} =>
    /\ \A i \in DOMAIN installed :
         LET k == installed[i]
         IN /\ bytes[k.entry] = k.hook /\ k.saved = Original
            /\ slot[k.hook] = k.trampoline
            /\ trampoline[k.trampoline] = <<k.entry, Original>>
    /\ Cardinality({e \in Entries : bytes[e] # Original}) = Len(installed)
    /\ Cardinality({m \in Trampolines : trampoline[m] # Null}) = Len(installed)
    /\ Cardinality({h \in Hooks : slot[h] # Null}) = Len(installed)

\* What the session does to the target is what Instrumentation promises of it:
\* the hook image is mapped before and unmapped after every jump into it, and,
\* unless a handler failed, when no thread is in the instrumentation any more;
\* jumps are written one at a time, into unpatched exports, one for each hook
\* (HookFunction, UnhookFunction, IsCleanupQuiescent, CleanupRemote).
Instruments ==
  INSTANCE Instrumentation WITH
    Doors <- Entries, Handlers <- Hooks, Shut <- Original,
    door <- bytes, inside <- {t \in Threads : place[t] \in Instrumented},
    wing <- IF image THEN "stands" ELSE IF trace = "off" THEN "planned" ELSE "gone",
    cut <- (ending = "failed")
RefinesInstrumentation == Instruments!Spec

\* No hook outlives the modules it was resolved through.
HooksFollowModules ==
  loop # "unload" =>
    \A i \in DOMAIN installed :
      /\ loaded[installed[i].source] = Source[installed[i].hook]
      /\ loaded[installed[i].target] = Home[installed[i].hook]

\* What README.md promises of Ctrl+C: when a stop ends and no removal was
\* complained of, hooks are restored, nothing of the instrumentation is left
\* and no thread is in it.
Pristine ==
  /\ \A e \in Entries : bytes[e] = Original
  /\ \A m \in Trampolines : trampoline[m] = Null
  /\ ~image /\ ~ring /\ bypasses = 0
CleanStopRestores ==
  loop = "over" /\ ending = "clean" /\ RemovalsSucceeded =>
    Pristine /\ detached # "no" /\ \A t \in Threads : place[t] \notin Instrumented

\* A cleanup that reports success, also one after a failed handler, has
\* released everything, and a jump or a trampoline is left only of a hook that
\* HandleUnloadDll complained of and forgot, in whatever order hooks came and
\* went before.  (Of those one may be left, its jump into the freed image:
\* CleanupRemote does not know them any more.)
CleanupRestores ==
  loop = "over" /\ ending \in {"clean", "failed"} /\ cleaned =>
    /\ ~image /\ ~ring /\ bypasses = 0
    /\ \A e \in Entries : bytes[e] # Original => \E k \in forgotten : k.entry = e
    /\ \A m \in Trampolines : trampoline[m] # Null => \E k \in forgotten : k.trampoline = m

\* CONTRIBUTING.md: "always continue or detach the target".  However the loop
\* ends, a target that lives and is still debugged is one that the session has
\* put nothing into, or one that DebugActiveProcessStop refused to release and
\* that the system lets go, unharmed, when the controller exits.
EndsDetached ==
  loop = "over" /\ ending # "exited" /\ detached # "yes" =>
    IF killOnExit THEN Pristine ELSE detached = "refused"

\* When the loop lets the target go on after a module load, every hook whose
\* modules are there is installed.
ReadyHooksInstalled ==
  [][loop = "install" /\ loop' = "continue" => \A h \in Hooks : ~Ready(h)]_vars

\* CONTRIBUTING.md: a partial installation is rolled back on failure.  After a
\* failed handler, in a session without a failed removal, no export is left patched.
RollsBackInstall ==
  loop = "over" /\ ending = "failed" /\ RemovalsSucceeded => \A e \in Entries : bytes[e] = Original

\* The target is never left frozen in a debug event.
AlwaysContinued == Frozen ~> ~Frozen

\* A stop request ends the session if the threads leave the hooked functions
\* alone for long enough, however often the check had to be repeated.
StopEnds ==
  <>[](\A t \in Threads : place[t] = "outside") =>
    (stopRequested /\ trace = "on" ~> loop = "over")

\* README.md: "Press Ctrl+C or Ctrl+Break to restore active hooks, release
\* remote instrumentation, and detach."  Here for a target that, from some time
\* on, is idle or blocked in functions of its own that it called through hooks.
CtrlCDetaches ==
  <>[](\A t \in Threads : place[t] \in {"outside", "body"}) =>
    (stopRequested /\ trace = "on" ~> loop = "over")
=============================================================================
