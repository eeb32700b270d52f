# ApiScope in TLA+

Specifications of ApiScope, the Windows API tracer in this repository, with TLC
configurations that check them on small instances and TLAPS proofs for all
instances. Paths are relative to the repository root.

## 1. The system

`apiscope.exe` (the controller, `src/apiscope/`) starts or attaches to a target
process as its debugger, maps `apiscope-hooks.dll` (the hook image,
`src/apiscope-hooks/`) into it, patches selected exports to jump to handlers of
that image, and shows the events the handlers record.

| Component | Source | State | Operations |
|---|---|---|---|
| Trace ring | `trace_transport.cpp` (EmitTraceEvent), `trace_session.cpp` (TryReadRing), `trace_ring.h` | shared memory: positions, slots, counters, `wakePending`; the wake event | emit (any hook thread), read (one reader) |
| Trace session | `trace_session.cpp` | reader and writer thread, `eventQueue_` (4096), `readerFinished_`, stop event, remote mapping, duplicated handle, two bypass trampolines | Start, ConfigureTransport, ReaderLoop, WriterLoop, Stop, Drain, CleanupRemote |
| Debug session | `debug_session.cpp` | modules with generations, installed hooks, stop and breakpoint flags | event loop, load/unload handlers, pending hooks, quiescence check, cleanup |
| Hook manager | `hook_manager.cpp` | patched bytes and trampolines in the target | HookFunction, UnhookFunction, ReleaseUnloadedHook, CalculatePatchSize |
| Hook handlers | `hooks/*.cpp`, `api_hook.h` | `ActiveHookCalls`, trampoline slots | one handler per hooked API |
| Event builder | `trace_transport.cpp` | a bounded event on the caller's stack | Initialize, AddTrace*, buffer preview |
| Renderer | `trace_renderer.cpp` | none | parse, validate, text, JSON Lines |
| Export resolution | `debug_session.cpp`, `process_manager.cpp` | module records, visited set | forwarder chains over loaded modules, retried after every load |
| Process manager | `process_manager.cpp` | a remote image under construction | InjectDll, ReflectiveDLLInject, remote PE reading |
| Remote set-up | `process_manager.cpp`, `trace_session.cpp`, `debug_session.cpp` | what the session holds in both processes, and the fields that name it | the calls from mapping the image to the bypasses, their error paths, the cleanup |
| Hook registry | `hook_registry.cpp` | none | discovery of descriptors in the hook DLL, lookup |
| Command line | `cli_options.cpp`, `main.cpp` | the options read so far | parsing, expansion of hooks, the target's command line |

How they interact: hook threads call EmitTraceEvent and write to the ring; the
reader thread reads the ring and pushes to the queue; the writer thread pops and
renders; the debug session's thread starts all of it, freezes the target inside
debug events, and ends it through Stop or Drain. Reader and producers share only
the ring and the wake event; reader and writer only the queue, its mutex and two
condition variables; controller and reader only the stop event and the join.

What is hard here:

- many producers against one reader with no lock, each step interruptible, each
  thread liable to be terminated by the target or by its exit;
- a wakeup protocol (`wakePending` and an auto-reset event) that must lose none;
- two condition variables and a bounded queue between two threads, ended by a
  third;
- removal of code that other threads may be executing (quiescence);
- sequences of remote calls that fail one by one (install, remove, map);
- modules that come, go and forward to each other.

What makes each component correct:

- ring: no slot is written by two threads or read while written; events are
  whole, in claim order, once; drops happen only when the ring is full and are
  counted; producers never wait;
- session: queue and output keep the order; the reader never sleeps over an
  event; stopping loses nothing that was readable; stopping returns;
- debug session and hook manager: a clean stop frees instrumentation only when no
  thread can be in it; every installed patch is known, leads to a live trampoline,
  goes with its modules, and is removed on cleanup, or complained of; the target is
  always continued, and once something was put into it, it survives the controller;
- event builder and renderer: what the builder makes, the parser accepts; shown
  are the fields the hook recorded, with this event's values, and a field that is
  missing is told;
- export resolution: it agrees with following the forwarders, an error is final,
  and no hook is left on code that is gone;
- remote set-up: whichever call fails, only what refuses to be released is left
  in either process, and no failure is passed over;
- registry and command line: a session starts exactly on a well-formed command
  line and with the options given; the target gets its arguments unchanged.

`PROJECT.json` lists every component and, under "hazards", every place found
where something can go wrong that a test would hardly reach.

## 2. Modules

| Module | What it is |
|---|---|
| `TraceRing` | EmitTraceEvent and TryReadRing, one action per access to shared memory |
| `TracePipe` | what the ring promises: a bounded, lossy, ordered pipe |
| `TraceSession` | EXTENDS `TraceRing`: ReaderLoop, WriterLoop, queue, Stop/Drain |
| `TraceEvent` | the content of an event: builder, slot, parser, renderer |
| `DebugSession` | the event loop, its handlers, the hook manager, and the target's threads in the patched code |
| `Instrumentation` | what the session and the hook manager promise: the image is there while anything leads into it |
| `ExportResolution` | module records, forwarder chains, and what is installed where |
| `RemoteSetup` | every resource the session acquires before it traces, and every way back |
| `CommandLine` | hook discovery, ParseCommandLine, quoting |
| `Startup` | EXTENDS `CommandLine` and `RemoteSetup`: wmain, from the first option to the last release |
| `MCTraceRing`, `MCTraceSession`, `MCTraceEvent`, `MCDebugSession`, `MCExportResolution`, `MCStartup` | small instances for TLC |
| `TraceRingProofs`, `TraceSessionProofs` | theorems about the ring, its refinement of the pipe, and the session |
| `DebugSessionProofs`, `DebugTableProofs` | theorems about the event loop; about the hook table and the target's threads |
| `ResolutionProofs` | theorems about export resolution |
| `TraceEventProofs` | theorems about the content of events |
| `CommandLineProofs` | theorems about the command line, in a program of the shape of `Startup` |
| `StartupProofs` | EXTENDS `CommandLineProofs`: theorems about the remote set-up and the output options |

How they fit together: `Startup` ends where `DebugSession` and `TraceSession` go
on. `RemoteSetup` takes a set-up apart that is one step that may fail in
`DebugSession` (`HandleCreateProcess`, `ConfigureTransport`, `ReleasesRemote`);
`ExportResolution` takes apart what `DebugSession` is given as `Home`;
`TraceEvent` fills in the contents of what is one value in `TraceRing`.

### TraceRing

Variables bear the source's names. `pc[p]` is producer `p`'s place in
EmitTraceEvent; `position`, `event` are its locals.

| Action | Code (`trace_transport.cpp`) |
|---|---|
| `Begin` | validity checks pass, `_InterlockedIncrement(&eventSequence)`, 259-272 |
| `LoadPosition`, `Inspect` | the two atomic loads and the three-way branch, 277-285 |
| `Drop` | `_InterlockedIncrement(&droppedEvents)`, 281-284 |
| `Claim` | the compare-exchange on `enqueuePosition`, 285-292 |
| `BeginCopy`, `FinishCopy` | CustomMemCpy: the slot is `Torn` in between, 294 |
| `Publish` | `slot->sequence = position + 1`, 295 |
| `TakeWake`, `Signal`, `Unsignal` | the exchange on `wakePending`, NtSetEvent, its failure, 296-302 |
| `Kill` | the thread is terminated where it stands (external) |

The reader's `ReadBegin`, `CopyOut`, `ReleaseSlot`, `AdvanceDequeue` are
TryReadRing's test, copy and two stores (`trace_session.cpp:175-195`);
`ClearWakePending` and `ConsumeWake` are the two other places where ReaderLoop
touches the wakeup. `Oldest` is the oldest position not given back: TryReadRing
gives the slot back one step before it advances `dequeuePosition`, and a
producer may already claim it then.

An event is abstracted to the thread that recorded it and which of its calls it
is. `eventSequence` and `droppedEvents` wrap at `CounterModulus` (2^32); the
64-bit positions do not wrap. The Interlocked operations are full barriers on
x64, so every action is sequentially consistent. The capacity is assumed to be
at least 2: with 1, which the static_assert in `trace_ring.h` would admit,
"published" and "free for the next lap" would be the same number.

`TracePipe` knows only `accepted`, `ready`, `taken` and `lost`. Refinement: a
claimed position is an accepted event whose content is its claimant's until it is
published and the slot's afterwards; a producer that has decided to drop
counts as lost already.

### TraceSession

`loop`, `writer` and `controller` are the places of the three controller threads.
Critical sections of `queueMutex_` are single steps. A condition variable with
one waiter is the fact that this waiter is in state "sleep"; notify moves it back
to its predicate. `ReaderQueues` pushes an event or, as queueEvent does, discards one
that fails IsValidTraceEvent; what that function looks at field by field is
`TraceEvent`'s matter, and here it accepts whole events. `ending` says how the
session ends:

| `ending` | In `debug_session.cpp` | The target's threads |
|---|---|---|
| `Quiescent` | clean stop after IsCleanupQuiescent, 503-535 | frozen, none in a hook |
| `Aborted` | a handler failed (`eventOk` false), 531 | frozen anywhere |
| `Exited` | EXIT_PROCESS_DEBUG_EVENT, 520-526 | gone |
| `Detached` | the loop broke off, 572-579 | running on, still hooked |

`Quiescent` is "no producer inside a call, terminated ones included", because a
thread that dies in a hook never decrements `ActiveHookCalls`. `DebugSession`
models the check itself and shows what it is worth (`QuiescenceIsReal`); its
`ending` values "clean", "failed", "exited" and the loop that broke off are the
four rows above.

### DebugSession

The controller thread's `loop` says where in EventLoop it is; the debug events are
actions enabled while it waits, and what a handler does hook by hook is one action
per hook. The target is frozen from an event's delivery until
ContinueDebugEvent (`Frozen`).

| Action | Code (`debug_session.cpp` unless named) |
|---|---|
| `StopKey`, `BreaksIn`, `Waits`, `TimesOut`, `WaitFails` | ConsoleControlHandler; the head of EventLoop, 473-488 |
| `HandleCreateProcess` | InitializeDebuggee, 103-126, with InjectDll and TraceSession::Start as steps that fail |
| `HandleLoadDll`, `HandleUnnamedDll`, `ConfigureTransport` | RegisterModule, 144-171, with a name and without; `trace_session.cpp` 222-251 |
| `SkipsHook`, `RefusesHook`, `InstallsHook`, `InstallEnds` | TryInstallPendingHooks, 297-344, with HookFunction (`hook_manager.cpp` 50-91), whose rollback is `GivesBack` |
| `HandleUnloadDll`, `KeepsHook`, `ForgetsHook`, `UnloadEnds` | HandleUnloadDll, 184-206, with ReleaseUnloadedHook and UnhookFunction |
| `HandleBreakpoint` | EXCEPTION_BREAKPOINT, 503-519, with IsCleanupQuiescent, given the threads its scan looked at |
| `HandleExitProcess` | EXIT_PROCESS_DEBUG_EVENT, 520-526 |
| `RemovesHook`, `HooksRemoved`, `ReleasesRemote` | CleanupRemote, 346-361, and that of the trace session |
| `ContinuesTarget`, `RetriesStop`, `Detaches`, `BreaksOff` | the tail of EventLoop, 537-579 |
| `Calls` ... `ReturnsToCaller` | a thread on its way through a patched export: the jump, HookCallGuard, CALL_ORIGINAL, the trampoline, the function, and back (`api_hook.h`) |

A thread's `place` distinguishes what matters to removal: in the first bytes of an
export ("prologue"), in the hook image before and after it is counted ("enter",
"leave") and while it is ("handler", "after"), in the trampoline, and in the
function itself ("body", counted, but no instruction of ours is executed).
`Astray` is a thread whose next instruction is gone.

`modules` is a sequence in order of generations, so the newest module of a name is
the last. A hook names its `Source` module; `Home` is the module its chain of
forwarders ends in, taken as resolved. The bytes of an export are the original
ones or the jump of some hook, the ring and the two bypasses are counted, and
instruction decoding is the choice of `RefusesHook`. Assumed of the target: it
unloads a module only when no call into it is going on (that is what the loader's
reference counts are for), and never ntdll.

`cleaned` is CleanupRemote's own result, which starts as true. A removal that fails at
an unload is only complained of and its hook erased all the same; `forgotten` keeps
those hooks for the properties, and no step of the session asks for it.
`killOnExit` is the negation of `debugActive_`, and `detached` what became of
DebugActiveProcessStop, which may have been refused.

`Faults` names the remote calls that may fail and how:

| Fault | What fails |
|---|---|
| Initialize, Configure, Install | the set-up, ConfigureTransport, HookFunction before it writes the jump |
| Patch | PatchFunction after it wrote the jump |
| Rollback | the two calls by which HookFunction gives slot and trampoline back, whose results are ignored |
| Release, UnhookOnUnload | the removals at an unload |
| Unhook, Cleanup | the removals of CleanupRemote |
| Scan | reading the counter or a thread's context, which counts as a no |
| Snapshot | Thread32First or Thread32Next, which counts as the end of the list: the threads not read are taken to be quiescent |
| Break, Wait, Continue, Detach | DebugBreakProcess, WaitForDebugEventEx, ContinueDebugEvent, DebugActiveProcessStop |

and what a target or its user may do besides: terminate threads (Kill), load two
modules of one name (SameName) or one whose name cannot be found out (Unnamed), be
attached to while running (Attach).

`Instrumentation` tells the same as a visitor's wing with doors: it is built once
and torn down once, a door opens only while it stands, no two doors have one
handler, threads come in through open doors only, and it is torn down when all
doors are shut and, unless the session was cut short, nobody is inside. Under the
mapping (`Instruments`) doors are the exports and what is behind them their first
bytes, the wing is the hook image, which is "gone" when the session has been on or
is over without it, inside are the threads in image or trampoline or in a function
called from there, and a session is cut short by a handler that failed. The events
of modules, the tables, the ring, the bypasses and the stop are not seen at all.

### TraceEvent

An event is its header and a payload of cells. A header structure is one cell,
since it is copied whole; a name or value takes a cell for each byte. What a value
is does not matter, only which offer of which event it came from, so that bytes
left over from an older event are told from this event's.

| Definition | Code |
|---|---|
| `InitializeTraceEvent`, `Initialized` | `trace_transport.cpp` 165-189 |
| `AddTraceScalar`, `AddTraceBoolean`, `AddTraceBufferPreview`, `AppendTraceField` | the AddTrace functions, CaptureTraceBuffer and AppendTraceField, 93-141 and 191-256 |
| `EmitTraceEvent`, `CopyToSlot` | the checks and the copy of `header.size` bytes over the slot, 258-272, 294 |
| `ReceiveEvent`, `ParseAccepts`, `ParsedFields` | TryReadRing's copy of the whole slot; ParseTraceEvent, `trace_renderer.cpp` 168-239 |
| `Rendered` | what RenderTraceEventText and RenderTraceEventJsonl have in common, 285-429 |

The properties do not use the builder: `KeptOf` says from a list of offers and the
room its names leave which fields belong in the event (`Well`: a valid name;
`Fresh`: no earlier field of the event has it; `Fits`: behind the ones before), and
the rendered fields and flags are compared with that.
How much of a buffer the bypass can read is up to the target's memory.

### ExportResolution

`modules` is `modules_` with the export table of each module, which may hold
code, something unusable, or a forwarder to any other export. One action per
debug event: `HandleLoadDll` registers the module and tries all pending hooks,
`HandleUnloadDll` forgets the module and the hooks on it.
`ResolveExportAddress` is the recursion of `debug_session.cpp` 220-275 as a
recursive function, in its order: depth, loop, module not loaded, no export,
address, forwarder. The reference definition in `ResolutionFollowsChains` has no
recursion: a chain is a path of distinct exports, each forwarding to the next.
A hook has two names for its module: `SourceName`, as the catalogue has it, under
which the session looks for the module it will be erased with, and, in `NodeOf`,
the one with the default extension, under which its export is resolved. A hook of
`b` and a loaded `b.dll` therefore stay pending until a module named `b` comes too,
and are then resolved in `b.dll`.
A hook of a module that unloads from the *middle* of a chain stays where it is,
as in the code: its code is still there.

### RemoteSetup

`SetupCalls` is the list of calls between the first debug event and the
configured transport, in order; each entry says which resource the call gets,
under which field the session knows it from then on, and what its function
releases when it fails.

| Action | Code |
|---|---|
| `Succeeds`, `Fails` | the next call of InjectDll and ReflectiveDLLInject (`process_manager.cpp` 12-47, 241-396), InitializeDebuggee (`debug_session.cpp` 103-126), OpenOutput, CreateSharedRing, Start, ConfigureTransport (`trace_session.cpp` 57-158, 222-300) |
| `UndoOne` | one release of the failing function's own error path |
| `StartCleanup` | the failed handler's, or a clean stop's, way to CleanupRemote (`debug_session.cpp` 531-535) |
| `CleanOne`, `PassOver`, `FinishCleanup` | the next release of `CleanupOrder`, or its field is null; DebugSession::CleanupRemote, TraceSession::CleanupRemote, Stop (`debug_session.cpp` 346-361, `trace_session.cpp` 302-385) |

`held` is what exists, `known` what a field still names. Every release of a
resource of the target may fail on its own; releases of the controller's own
(CloseHandle, VirtualFree, join) do not. A failing release clears the field all
the same, as in the code, so what is lost stays lost (`lost`), and the property is
that nothing else remains.

### CommandLine and Startup

Each turn of ParseCommandLine's loop is one action (`GivePid`, `GiveHook`,
`GiveFormat`, `GiveOutput`, `GiveQuiet`, `GiveOther`, `Separator`,
`TargetArgument`), and `Finish` is what follows the loop; `items` remembers what was
given, for the properties. A short and a long option are the same option. A
hook request is the sequence of its parts between exclamation marks; `Normalize`
stands for NormalizeModuleName. `DiscoverHooks` works on a sequence of
descriptors. Process identifiers are parsed digit by digit up to `MaxPid`;
arguments are quoted character by character, since the property is about exactly
that conversion. `SplitCommandLine` is the documented rule of CommandLineToArgvW,
by which the target takes its command line apart (external): backslashes count only
before a quote, and in the first argument, which is a file's name, not even there.
`ArgumentsAssumption` says of that first argument what the code relies on: Run
passes it to CreateProcessW as the name of the file to open
(`debug_session.cpp` 55-57), and the name of a file that opens is not empty, has no
quote in it and does not end in a backslash. `Empty` stands for the empty string
where the code asks for it.

`Startup` composes the two: `Parse` until the options are read, `Launch` (Run or
Attach up to the first debug event, or their failure), then `Session`. `Launch`
forgets the command line but for the output options, which are all the set-up
reads.

## 3. What TLC checks

| Run | Question |
|---|---|
| `ring_laps` | two threads, failing SetEvent and terminated threads: types, ownership, discipline, whole events, order per thread, accounting (counters wrap at 3), refinement of `TracePipe`, so that events are lost only when the ring is full; and every call returns although the reader may stand still |
| `session_faults` | all four endings, failing SetEvent and failing wait: types, order through the pipeline, the wake flag is never stuck, a clean stop loses nothing, stops still render all that was read |
| `session_progress` | the reader never sleeps over an event, and every accepted event is eventually rendered, in a session nobody ends |
| `session_stop` | Stop and Drain return, with all faults |
| `session_exit` | (violation) see Findings |
| `debug_stop` | two threads, three bases, terminated threads, a set-up and installations that fail and leave their trampoline: a quiescence check that says yes means that no thread is in or about to enter instrumentation; nobody ever executes freed code; a clean stop leaves nothing; refinement of `Instrumentation`; the target is always continued; stops end once the hooks fall quiet |
| `debug_faults` | one thread, forwarded hooks, every fault but Patch and Rollback, attaching, two modules of one name and nameless ones: hook table and memory agree while removals and handlers succeed; hooks go with their modules; a cleanup that reports success has released everything but what an unload complained of; a target not let go is untouched or was refused release; ready hooks are installed after every load |
| `debug_rollback`, `debug_ctrlc` | (violation) see Findings |
| `event_content` | two events through one slot, up to three fields each, out of six scalars, a Boolean and three buffers: every published event is accepted, rendered as recorded, and says what is missing |
| `export_resolution` | three bases, three names of which one lacks the extension, three hooks, all export tables of two functions: resolution follows the chains, errors are final, hooks lie in live code |
| `startup` | command lines of up to six words on six hook DLLs, then every call and every release of the set-up failing on its own: options as given, arguments intact, output opens, only lost resources remain, complete means clean |

**Bounds.** The ring has two slots: one lap is two events, the smallest size at
which full, empty, lapped and half-claimed rings exist. `MaxCalls` bounds one hook
thread's calls and `MaxTotal` those of all together: 5 in `ring_laps` (one thread
up to 3) take the ring through two and a half laps, 3 in `session_faults`, 4 in
`session_progress` fill ring and queue and still leave one to be dropped, 2 in
`session_stop`. The queue holds 1 or 2 events, so that the reader does sleep on it
where `QueueCapacity` is 1; `ReadBatch` 1 or 2 is reached and cut short. Hook
threads are symmetric in `session_faults`; runs with liveness use no symmetry.

The instances of `DebugSession` have two hooks and two trampolines, so that one
hook is installed, released or skipped while the other stands, and memory runs out
when one leaks; three bases, so that a module can come back elsewhere and two of a
name coexist (`debug_faults`). `MaxBreaks` (1 or 2) bounds the breakpoints raised
and not reported: a stop request and its retries keep one pending, and a
breakpoint of the target's own, after a stop request, adds one. `MaxForgotten` (1)
bounds the hooks an unload erased in spite of a failed removal: when its module comes
back, such a hook is installed again over the jump it left, with or without the
other hook beside it, and is then kept, erased or cleaned up. Calls are not bounded:
the state space is finite as it is. Trampolines, bases and threads are symmetric
in `debug_faults`.

In `event_content` an event has 11 cells (`EventCells`), names up to 2, previews
up to 2: a module and an API name leave room for two to three fields, so that
`MaxOffers` 3 fields fill it exactly, overflow it by one cell, or leave room
for a smaller one; `MaxEvents` 2 puts a shorter event over a longer one. Names may
be empty, too long, misspelled or repeated, buffers empty, as long as a preview,
or longer. In `export_resolution` `MaxDepth` is 3 instead of 8 and there are four
exports in the two modules resolution can reach (the exports of `b`, which none
reaches, are fixed), so that chains of exactly the limit, longer ones and loops exist;
`MaxLoads` 3 gives a name a second generation under a chain through a third module.
In `startup` `MaxOptions` 4 options and `MaxArguments` 3 arguments, together
`MaxWords` 6, let every option repeat and meet every other; `MaxPid` is 15, with
identifiers of 0, at the limit, one above it, and 257, which an accumulator of the
width would wrap; arguments are all of up to two of the characters quoting tells
apart and all of three quotes and backslashes.

Deadlock is checked in all runs but `session_progress`: the MC modules add one
stuttering step, enabled only in the final state they describe, so that any other
state without a successor is reported. In `session_progress` nobody ends the
session and it comes to rest waiting for the next event.

**Fairness.** Weak fairness of each hook thread *inside* a call, of the reader, of
the writer, and of Stop: the scheduler keeps running runnable threads, and none of
them holds a lock while another's step is enabled. There is no fairness for
beginning a call, for faults, or for ending the session. `ring_laps` has no
fairness for the reader at all. The retry loop in EmitTraceEvent is lock-free, not
wait-free: one thread could lose every compare-exchange if the others emitted
for ever; the bound on calls excludes this, so `ProducersNeverWait` says that
neither the reader nor a dead producer can hold a call up. Likewise, `StopReturns`
is not claimed for `Detached`: with the target emitting for ever the stopping
reader might never find the ring empty, and a bound on calls would hide it.

In `DebugSession`: weak fairness of the controller thread and of each thread inside
code the session put into the target; strong fairness of a breakpoint that
DebugBreakProcess raised, because the system queues debug events and the loop
comes back to wait, so it is delivered in the end although other events and
timeouts go first. `Fairness` adds that hooked functions return;
`BlockingFairness`, used by `debug_ctrlc`, does not, since functions such as
NtReadFile may wait for ever. Nothing is fair about new calls, modules, the stop
key or failures.

`TraceEvent`, `ExportResolution` and `Startup` are sequential and state only
safety, without fairness.

Each property is shown to bite by a planted defect, the operators marked
"defect" next to the definitions they replace.

### Findings

- `session_exit`: README.md says queued events are drained when the target exits.
  A thread terminated by the exit between claim and publication leaves a hole at
  its position; TryReadRing stops there for good, so events other threads had
  published behind it are neither rendered nor counted as dropped.

- `debug_rollback`: CONTRIBUTING.md:22 asks for rollback of partial installation.
  If PatchFunction fails after it wrote the jump (restoring the protection or
  flushing the cache), HookFunction gives slot and trampoline back but leaves the
  jump, and the hook is not recorded; cleanup then frees the image the jump leads
  to, reports success and detaches.
- `debug_ctrlc`: README.md:85 promises that Ctrl+C detaches. A thread blocked in a
  hooked function keeps `ActiveHookCalls` above zero, and the stop is retried every
  10 ms for as long as it blocks.

Two more places where the code says less than its documents, which the properties
state as the code has them:

- CONTRIBUTING.md:22, "always continue or detach the target": a loop that breaks off
  before InitializeDebuggee got past DebugSetProcessKillOnExit (a failing wait,
  break-in or continue; a continue after that very call failed) does not detach,
  since `debugActive_` is not set (`debug_session.cpp:563`), and the system ends the
  target with the controller. `EndsDetached` says that this happens only to a target
  nothing was put into. A failing DebugActiveProcessStop (553, 564) leaves the target
  attached until the controller exits, which then does not kill it.
- A cleanup reports success although a hook was not removed: at an unload a failed
  removal is printed (192-199), the hook is erased, and CleanupRemote starts with
  `cleaned = true` (347). A forwarded hook's jump then leads into the freed image.
  `CleanupRestores` says that nothing else can be left, and only of such hooks.

Also met while modelling, without a document that says otherwise: a handler that
fails cleans up at once, under whatever threads are in the hooks (`NobodyAstray`
excepts this ending); unloading a module that a hook merely names removes the hook
from the module it forwards to without a look at threads; attaching, or hooking a
module late, patches exports a thread may be standing in, and a module whose name
cannot be found out may make another late; and a thread list that cannot be read
(Thread32First, 409-410) makes the check answer yes on the counter alone.
`NobodyAstray` is therefore checked for launched targets whose modules can be named,
whose hooks name the module they live in, and without the fault Snapshot.
In the trace session, a failed NtSetEvent can take another thread's wakeup with it
until the next event (why `NoLostWakeup` is checked without that fault and
`WakeFlagNeverStuck` with it), and a thread terminated between `wakePending` and
NtSetEvent silences wakeups for the rest of the session.

## 4. What is proved

Theorems hold for every value of the constants that satisfies the modules' named
assumptions; the hypotheses a theorem has besides are given with it. Faults are
any, unless said otherwise.

### The ring: `TraceRingProofs`

For any finite or infinite set of producers, any `Capacity >= 2`, any
`CounterModulus >= 2` and any `MaxCalls`:

- `TypeCorrect`: `TypeOK`.
- `SlotDisciplineHolds`: `SlotDiscipline`, inductive together with `TypeOK`. Its
  parts: `PositionsInWindow` (slots of positions from `Oldest` up to
  `enqueuePosition` are claimed or published, those up to `Oldest + Capacity`
  free), `ClaimsDisjoint`, `StalePositions` (a producer about to compare-exchange
  the position that is still next sees it free), `ReaderOnPublished`,
  `ContentsWhole`. The properties alone are not inductive: that two producers
  never share a slot depends on what a delayed producer may still believe, and
  that depends on the sequence numbers of the free slots.
- `SlotOwnershipHolds`, `WholeEventsHold`, `DropsOnlyWhenFullHolds` (a call decides to
  drop its event only while the ring is full): consequences.
- `RefinesPipeHolds`: each step of the ring is a step of `TracePipe` or none. What it
  needs besides the discipline is `Ledger` (`LedgerHolds`): every position from the
  first on is delivered, published or claimed by exactly one producer, which still
  holds its event, and what is delivered is what was accepted. It makes the mapped
  `accepted` a sequence without holes, so that claiming appends to it, publishing
  makes one of its positions ready, and the reader's store takes the next.
- `PerThreadOrderHolds`: `PerThreadOrder`, by way of `Ordered`, the same said of the
  accepted positions instead of the delivered ones, and `OwnEvents`, that what a
  producer carries is its latest call.
- `AccountingHolds`: `Accounting`; the sets of calls in flight stay finite
  (`Finite`), and each step moves one call from one summand to another, modulo
  `CounterModulus`.

The argument rests on arithmetic of slots, proved first: positions less than
`Capacity` apart have different slots (`SlotUnique`), `i + Capacity` reuses the
slot of `i` (`SlotReused`), `Capacity` positions in a row use every slot
(`SlotCovered`). Then one lemma per group of actions shows that the discipline is
kept.

### The session: `TraceSessionProofs`

For any capacity of the queue and any batch:

- All of the above holds in a session too (`SessionSlotOwnership`), since it is made of
  the ring's actions; the lemma `SessionUsesRing` says so to the prover.
- `SessionTypeCorrect`, `PipelineOrderHolds`. Inductive with `HandOver`: the reader
  has an event in hand exactly where its place says, the writer likewise.
- `EndRendersAllReadHolds`, from `EndingOrder` (who has finished before whom, and
  with what in the queue) and `LastLook` (a reader that leaves on the stop event has
  found the ring unreadable, and nobody but the hook threads could have changed
  that; after an exit, an abort or a clean stop they do not run).
- `CleanStopRendersHolds`, `CleanStopLosesNothingHolds`: with `IdleWhenQuiescent` (a
  clean stop begins with no hook thread inside EmitTraceEvent, so that no position
  is claimed and unpublished) and `Ledger` everything that has a position is
  rendered; `DropsReported` is the count. The report needs the assumption
  `DropsOnlyGrow`, that the 32-bit counter does not wrap: the code compares it with
  the last value for inequality, and a count that comes back to that value is
  indeed not reported.
- `WakeFlagNeverStuckHolds`, for faults without `Kill`, from `WakeOwed`: a reader
  that waits with the flag on has the event signalled, or some live producer
  between the exchange and its end.
- `NoLostWakeupHolds`, for faults without `Kill` and `SetEvent`, from
  `PublishedAnnounced` in addition: an event the reader did not see has a producer that
  has not looked at the flag yet, or the flag is on. Both hypotheses are needed:
  the end of Findings says how the code loses the wakeup otherwise.

### The debug session: `DebugSessionProofs`, `DebugTableProofs`

For any finite set of threads, any bases, hooks, modules and trampolines:

- `DebugTypeCorrect` and `SessionInvHolds`: types together with `PhaseOrder` (which
  values of `ending`, `trace` and the stop flags go with which place of the loop),
  `MappingOrder` (when hook image, ring and bypasses are mapped) and `ThreadsTyped`
  (`ActiveHookCalls` is at least the number of threads that are counted; it is
  more when threads were terminated in a hook).
- `EndsDetachedHolds`: a living target that is still debugged when the loop is over
  is untouched, or DebugActiveProcessStop refused it (`LetGo`), because
  DebugSetProcessKillOnExit is the first call made on it and nothing else happens to
  a target for which it failed (`Untaken`).
- `ReadyHooksInstalledHolds` (with `InstallProgress`: no definition the loop has passed
  is still ready).
- `TableHolds`: the inductive invariant of the hook manager. `Table` says that an
  installed hook's export jumps to its handler, its slot names its trampoline, its
  trampoline leads to its export, and every jump, used slot and used trampoline
  belongs to exactly one installed hook. It holds while `Sound`: no removal has
  failed, at an unload or in the cleanup (`RemovalsSucceeded`), and no failed handler
  has left a jump, slot or trampoline (`InstallsCleanly`: neither Patch nor Rollback
  is among the faults). Within HandleUnloadDll, which erases
  from the vector it walks, `UnloadProgress` says which hooks are dealt with.
- `HookTableHolds`, and `HooksFollowModulesHolds` (with `ModuleOrder`: generations grow
  along `modules`, and every hook's modules are there).
- `CleanupRestoresHolds`, under `InstallsCleanly`, without which `debug_rollback` shows
  the opposite. `Table` is of no use here, for the cleanup may follow failed removals.
  The invariant `Accounted` holds whatever failed at an unload: every jump and every
  trampoline in use belongs to a hook that is installed or was forgotten, and so
  does a jump that a later hook at the same export has saved as the original code
  and will restore.
- `QuiescenceWhileSound`: `QuiescenceIsReal` in every sound state: a thread that is in
  the image and not counted stands where the scan of instruction pointers finds it,
  and a thread in a patched prologue would be found in the patch. `QuiescenceIsRealHolds`
  is the same without the condition for faults in which removals succeed
  (`RemovalsReliable`, by `RemovalsStay`) and installations leave nothing behind.
- `CleanStopRestoresHolds`, for faults without `Snapshot`: with `ThreadsOut`, which carries the answer of the check
  from the breakpoint, where the target is frozen, to the end.
- `RefinesInstrumentationHolds`: each step of the session or of a thread is a step of
  `Instrumentation` or none, for faults in which removals succeed, installations leave
  nothing behind and thread lists can be read (`Snapshot`). It
  puts the above together: `Table` makes every jump one of a recorded hook, so that
  an empty table means that all doors are shut and a new hook's handler is behind no
  other; `ThreadsOut` that nobody is inside when a clean stop releases the image;
  and `BuiltFirst` that the image is mapped once, before the first hook, and as long
  as there is one. With Patch the cleanup of `debug_rollback` frees the image under an
  open door, and so does one whose Unhook fails; with Snapshot a clean stop frees it
  under a thread that is not counted yet. Rollback is excluded only because `Table`
  speaks of slots and trampolines too; the run `debug_stop` includes it.
- `NobodyAstrayWhileCleaned`, `NobodyAstrayHolds`: `NobodyAstray`, while no removal has
  failed and where none can, for any number of threads, terminated ones included.
  `Undisturbed` excludes the situations in which the code does not keep threads safe
  (a target that was attached to, two modules of one name or one without, a thread
  list that cannot be read, hooks that live in another module than they name; see
  Findings). The invariant `Guarded` says where a thread may be relative to the
  hooks: nobody is in a module that is not loaded (`CallsLoaded`), in a function
  whose hooks are still to come (`Untouched`, `Settled`), or in the image unless
  it is mapped and its slot and trampoline are its hook's (`ThreadSafe`).

### Export resolution: `ResolutionProofs`

For any table of modules, any export tables, spellings and hooks, and any depth
limit:

- `ResolutionFollowsChainsHolds`: ResolveExportAddress and the definition by paths
  agree.
- `ErrorsAreFinalHolds`, `InstalledAreAliveHolds`.

A recursive function of TLA+ is a CHOOSE, so it has first to be shown to exist:
`TailRecursion` builds it level by level from the deepest, since ResolveExportAddress
counts its depth, and `ResolutionUnfolds` is the equation that follows. What holds
of it for every chain is then proved by induction with sets in the place of
predicates (`NaturalInduction`, from the library's theorem that < is well-founded;
`WalkInduction`): that answers are of loaded code (`ResolutionFinds`), that errors
stay errors (`ErrorStays`), that along a chain every call returns what the first
one does (`ChainAnswers`), and that the exports a call has gone through are a chain
(`TrailExplains`).

### The content of events: `TraceEventProofs`

For events of any size, any limits on names and previews, any types of fields, any
names and any sequence of calls:

- `EveryEventAcceptedHolds`. The inductive invariant `EventInv` says that an event
  with its magic is one that ParseTraceEvent accepts at every moment, not only when
  it is published. The steps are lemmas about memory: cells that were written over
  a payload are read back there and nowhere else (`OverlayIs`, `StretchIs`,
  `StretchOf`); an event whose used part agrees with another's is read alike
  (`Extends`, `SameField`, `OldFields`, `SameAccepted`), which is what the copy into
  the slot needs (`CopyAccepted`); a field written behind the used part is found
  there, and the cursor ends behind it (`AppendAccepted`).
- `RenderedAsOfferedHolds`, `FlagsTellMissingHolds`. `ContentInv` says that the event
  holds the offers in `KeptOf`, in their order, that its used part is as long as
  they are together, and that its flags tell of the others. `KeptOf` is a CHOOSE
  with a recursive sum in it: `FilledUnfold` gives the sum its equation,
  `ChosenIsKept` shows by induction that there is at most one such choice, and
  `ChosenAppend` how one more offer changes it; `RepeatedName` that HasTraceField
  finds just the names that were used.

Assumed are what `TraceEvent` names: names fit twice into an event, scalar types have
a positive size, and two texts of one kind with the same characters are one.

### The command line: `CommandLineProofs`

For any hook DLL, any texts for options and hooks, any `MaxPid`, and any number of
options and arguments of any length:

- `ArgumentsArriveIntactHolds`, from `RoundTrip`: a command line that was built from
  arguments is taken apart into them. `IsQuoting` relates the two conversions while
  an argument is being quoted: what the target has of it so far, followed by the
  backslashes QuoteWindowsArgument still holds back, is what it was. A quote makes
  both sides count twice (`HeldThenQuote`), the end of the argument likewise
  (`HeldThenEnd`); an argument without quotes needs `IsPlain`, and the first one,
  where no backslash may stand before the closing quote, `MayStand`. `IsWhole` then
  carries it from argument to argument.
- `AcceptedAsGivenHolds`. The inductive invariant `ParseInv` says of a parse that goes
  on that nothing given so far is to be refused and that the options are those
  last given (`AsGiven`), and of one that has ended that it was accepted exactly
  if it is well formed (`IsAccepted`). It rests on two facts about the code's loops:
  `PidIs` (stopping a numeral as soon as it exceeds the limit tells every numeral's
  worth from one that is too large, however many digits follow) and `ExpandIs` (AddHook
  leaves every hook asked for, once).

The conversions are folds. FoldLeft is a CHOOSE of a recursive function below a
definition that takes an operator, so each fold is first shown to be `FoldOf`, where
the operator is a function of sets: `RunOf` keeps the value after every prefix,
`IterationExists` shows that a function with FoldLeft's equation exists, and the
`...Folds` lemmas read the project's folds as such runs. `FoldEmpty`, `FoldAppend` and
`FoldTyped` are then all that is used of them, and what holds of every sequence
follows by `SequenceInduction`, with sets in the place of predicates.

Assumed are `WordsAssumption` (words are sequences of their parts, digits are 0 to 9
or one other character, `all` is ASCII) and `ArgumentsAssumption` (section 2).

### The remote set-up: `StartupProofs`

For any hook DLL, any command line, and any calls and releases that fail:

- `SetupTypeHolds` (`SetupTypeOK`), `OnlyLostRemainHolds`, `CompleteMeansCleanHolds`;
  `StartupTypeHolds` (`StartupTypeOK`), with the parser's `CliInv`.
- `AcceptedOutputOpensHolds`, from `ParseInv`: an accepted command line is well formed,
  and one that asks for a format or for quiet has a path (`OutputAccepted`).

`Owned(k)` and `Named(k)` say what exists and what the fields name before the k-th
call of the set-up. `EveryCallRight` is the audit of the list, call by call: a call
takes `Owned(k)` to `Owned(k + 1)`, and if it can fail its undo list (`Undoes`) holds,
once each, things that exist, everything no field names among them, never the
image once the session knows it, and nothing the threads use once they run. The
inductive invariant `SetupInv` then has one part for every stage. An undo covers what
is neither named nor lost; a cleanup stands at some place of `CleanupOrder`
(`Cleaning(n)`), all that exists is lost or named by a field whose turn comes, and if
all went well only exports whose turn comes are not null. It needs `Anchored`:
exports and resources of the target are reached by way of the image, so a cleanup
that does not know the image must find none of them. TLC checked `SetupInv` on the
`startup` instance first.

### Only model-checked

- Everything that needs fairness (`ProducersNeverWait`, `EventuallyRendered`,
  `StopReturns`, `AlwaysContinued`, `StopEnds`): liveness and ENABLED are outside the
  prover's logic.
- The three runs that expect a violation, which are counterexamples.

Every invariant and every safety property of the other runs is a theorem.

## 5. What is not modelled

- Wording and layout of the output, logging, file output errors while writing,
  the values of timestamps and thread identifiers, a preview's capture status.
- Which bytes of an image InjectDll, GetRemoteExport and the mapper refuse: the
  outcome of each check is a choice.
- Instruction decoding (Zydis) and the relocation of a prologue into a trampoline:
  a function can be moved or not.
- A controller terminated from outside: nothing of it runs then. A target that
  exits while the session is being set up: its resources go with it.
- In `RemoteSetup`, hooks (`DebugSession` has them), so that the session ends
  without any; in `ExportResolution`, failures of HookFunction.
- wmain's exit codes and messages, the help text.
- Event fields of types no builder function makes; ParseTraceEvent accepts them at any
  size, as here, and the renderer shows them as bytes.
- Events that fail IsValidTraceEvent in `TraceSession`: slots hold what EmitTraceEvent
  copied, which `TraceEvent` shows to be accepted.
- memcpy, memset and comparison written out in `memory_utils.cpp`; scripts, tests
  and build files.

## 6. Plan

Done: all the components above, and a proof of every invariant, action property and
refinement the passing runs check that is not a liveness property.
