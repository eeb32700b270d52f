-------------------------- MODULE DebugTableProofs --------------------------
(***************************************************************************)
(* Proofs about the hook table of a debug session: what installedHooks_    *)
(* says and what the target's memory holds agree, pending hooks are        *)
(* installed, hooks follow their modules, a cleanup that reports no        *)
(* failure has restored everything, and no thread of the target runs into  *)
(* code that was freed, cleared or rewritten under it.                     *)
(***************************************************************************)
EXTENDS DebugSessionProofs

-----------------------------------------------------------------------------
(* Installing.                                                             *)

\* TryInstallPendingHooks has dealt with every definition before its index.
InstallProgress ==
  loop = "install" => \A j \in DOMAIN Definitions : j < next => ~Ready(Definitions[j])

LEMMA FindModuleSame ==
  ASSUME UNCHANGED modules, NEW name
  PROVE  FindModule(name)' = FindModule(name)
  BY DEF FindModule, SelectLastInSeq

\* What Ready is about.
LEMMA ReadySame ==
  ASSUME UNCHANGED <<modules, installed>>, NEW h
  PROVE  Ready(h)' <=> Ready(h)
<1>1. IsInstalled(h)' <=> IsInstalled(h) BY DEF IsInstalled
<1>2. Pending(h)' <=> Pending(h) BY FindModuleSame DEF Pending
<1> QED BY <1>1, <1>2 DEF Ready

\* A step to "install" either starts there or is one of the loop's own.
LEMMA IntoInstall ==
  ASSUME [Next]_vars, loop' = "install"
  PROVE  \/ \E b \in Bases, name \in Names : HandleLoadDll(b, name)
         \/ SkipsHook \/ InstallsHook
         \/ loop = "install" /\ UNCHANGED <<next, modules, installed>>
<1> USE DEF memoryVars, tableVars, stopVars, loopVars, endVars, targetVars, sessionVars, Then, Fails
<1>1. CASE \E t \in Threads : Thread(t) BY <1>1, ThreadFrame
<1>2. CASE Iterates
  <2>1. UNCHANGED <<next, modules, installed>> BY <1>2, IteratesFrame
  <2>2. CASE ContinuesTarget BY <2>2, ContinuesWhere DEF ContinuesAt
  <2>3. CASE BreaksIn \/ RetriesStop BY <2>3 DEF BreaksIn, RetriesStop
  <2>4. CASE Waits \/ TimesOut \/ WaitFails \/ Detaches \/ BreaksOff
    BY <2>4 DEF Waits, TimesOut, WaitFails, Detaches, BreaksOff
  <2>5. CASE StopKey BY <2>5 DEF StopKey
  <2> QED BY <1>2, <2>2, <2>3, <2>4, <2>5 DEF Iterates
<1>3. CASE HandleCreateProcess \/ HandleBreakpoint \/ HandleExitProcess
  BY <1>3 DEF HandleCreateProcess, HandleBreakpoint, HandleExitProcess
<1>4. CASE \E b \in Bases : HandleUnloadDll(b) BY <1>4 DEF HandleUnloadDll
<1>5. CASE RefusesHook \/ InstallEnds BY <1>5 DEF RefusesHook, InstallEnds
<1>9. CASE \E b \in Bases, name \in Names : HandleUnnamedDll(b, name) BY <1>9, UnnamedFrame
<1>6. CASE UnloadHooks BY <1>6 DEF UnloadHooks, KeepsHook, ForgetsHook, UnloadEnds, Unloading
<1>7. CASE CleanupRemote BY <1>7 DEF CleanupRemote, RemovesHook, HooksRemoved, ReleasesRemote
<1>8. CASE UNCHANGED vars BY <1>8 DEF vars
<1> QED
  BY <1>1, <1>2, <1>3, <1>4, <1>5, <1>6, <1>7, <1>8, <1>9
  DEF Next, DebugEvent, Controller, TryInstallPendingHooks, Iterates

LEMMA InstallProgressStep ==
  ASSUME SessionInv, InstallProgress, [Next]_vars
  PROVE  InstallProgress'
<1> SUFFICES ASSUME loop' = "install", NEW j \in DOMAIN Definitions, j < next'
             PROVE  ~Ready(Definitions[j])'
  BY DEF InstallProgress
<1>0. j \in Nat \ {0} /\ next \in Nat \ {0}
  BY DefinitionsAssumption DEF SessionInv, LoopTyped
<1>1. CASE \E b \in Bases, name \in Names : HandleLoadDll(b, name)
  <2>1. next' = 1 BY <1>1 DEF HandleLoadDll
  <2> QED BY <1>0, <2>1
<1>2. CASE SkipsHook
  <2>1. loop = "install" /\ next' = next + 1 /\ ~Ready(Definitions[next])
        /\ UNCHANGED <<modules, installed>>
    BY <1>2 DEF SkipsHook, Installing, tableVars
  <2>2. ~Ready(Definitions[j]) BY <1>0, <2>1 DEF InstallProgress
  <2> QED BY <2>1, <2>2, ReadySame
<1>3. CASE InstallsHook
  <2>1. Installing /\ UNCHANGED modules BY <1>3 DEF InstallsHook
  <2>2. PICK m \in Free : installed' = Append(installed, Resolved(Definitions[next], m)) /\ next' = next + 1
    BY <1>3, Zenon DEF InstallsHook, Fails, Then
  <2>3. installed \in Seq(InstalledHook) BY DEF SessionInv, MemoryTyped
  <2>4. \A i \in DOMAIN installed : i \in DOMAIN installed' /\ installed'[i] = installed[i]
    BY <2>2, <2>3
  <2>5. CASE j = next
    <3>1. Len(installed) + 1 \in DOMAIN installed'
          /\ installed'[Len(installed) + 1] = Resolved(Definitions[next], m)
      BY <2>2, <2>3
    <3>2. IsInstalled(Definitions[j])' BY <2>5, <3>1 DEF IsInstalled, Resolved
    <3> QED BY <3>2 DEF Ready
  <2>6. CASE j < next
    <3>1. ~Ready(Definitions[j]) BY <2>1, <2>6 DEF InstallProgress, Installing
    <3>2. IsInstalled(Definitions[j]) => IsInstalled(Definitions[j])' BY <2>4 DEF IsInstalled
    <3>3. Pending(Definitions[j]) => Pending(Definitions[j])' BY <2>1, FindModuleSame DEF Pending
    <3> QED BY <3>1, <3>2, <3>3 DEF Ready
  <2> QED BY <1>0, <2>2, <2>5, <2>6
<1>4. CASE loop = "install" /\ UNCHANGED <<next, modules, installed>>
  <2>1. ~Ready(Definitions[j]) BY <1>4 DEF InstallProgress
  <2> QED BY <1>4, <2>1, ReadySame
<1> QED BY <1>1, <1>2, <1>3, <1>4, IntoInstall

\* While TryInstallPendingHooks walks the definitions, none that it has passed is
\* still pending with its modules loaded.
THEOREM InstallProgressHolds == Spec => []InstallProgress
<1>1. Init => InstallProgress BY DEF Init, InstallProgress
<1> QED BY <1>1, InstallProgressStep, SessionInvHolds, PTL DEF Spec

\* Only InstallEnds lets the target go on from "install".
LEMMA InstallEndsOnly ==
  ASSUME [Next]_vars, loop = "install", loop' = "continue"
  PROVE  InstallEnds
<1> USE DEF memoryVars, tableVars, stopVars, loopVars, endVars, targetVars, sessionVars, Then, Fails,
            Waiting
<1>1. CASE \E t \in Threads : Thread(t) BY <1>1, ThreadFrame
<1>2. CASE Iterates
  BY <1>2 DEF Iterates, BreaksIn, Waits, TimesOut, WaitFails, ContinuesTarget, RetriesStop,
              Detaches, BreaksOff, StopKey
<1>3. CASE DebugEvent
  BY <1>3 DEF DebugEvent, HandleCreateProcess, HandleLoadDll, HandleUnnamedDll, LoadReported,
              HandleUnloadDll, HandleBreakpoint, HandleExitProcess
<1>4. CASE SkipsHook \/ RefusesHook \/ InstallsHook
  BY <1>4 DEF SkipsHook, RefusesHook, InstallsHook
<1>5. CASE UnloadHooks BY <1>5 DEF UnloadHooks, KeepsHook, ForgetsHook, UnloadEnds, Unloading
<1>6. CASE CleanupRemote BY <1>6 DEF CleanupRemote, RemovesHook, HooksRemoved, ReleasesRemote
<1>7. CASE UNCHANGED vars BY <1>7 DEF vars
<1> QED
  BY <1>1, <1>2, <1>3, <1>4, <1>5, <1>6, <1>7
  DEF Next, Controller, TryInstallPendingHooks, Iterates

\* When the loop lets the target go on after a module load every hook whose
\* modules are there is installed: TryInstallPendingHooks tries each pending
\* definition again, whatever was installed, refused or removed before.
THEOREM ReadyHooksInstalledHolds == Spec => ReadyHooksInstalled
<1>1. SessionInv /\ InstallProgress /\ [Next]_vars =>
        [loop = "install" /\ loop' = "continue" => \A h \in Hooks : ~Ready(h)]_vars
  <2> SUFFICES ASSUME SessionInv, InstallProgress, [Next]_vars,
                      loop = "install", loop' = "continue", NEW h \in Hooks
               PROVE  ~Ready(h)
    OBVIOUS
  <2>1. next > Len(Definitions) /\ next \in Nat
    BY InstallEndsOnly DEF InstallEnds, SessionInv, LoopTyped
  <2>2. PICK j \in DOMAIN Definitions : h = Definitions[j] BY DEF Hooks
  <2>3. j < next BY <2>1, DefinitionsAssumption
  <2> QED BY <2>2, <2>3 DEF InstallProgress
<1> QED BY <1>1, InstallProgressHolds, SessionInvHolds, PTL DEF Spec, ReadyHooksInstalled

-----------------------------------------------------------------------------
(* Unloading.                                                              *)

\* HandleUnloadDll has removed every hook before its index that was resolved
\* through the module that goes.
UnloadProgress ==
  loop = "unload" =>
    \A i \in DOMAIN installed : i < next => installed[i].target # subject /\ installed[i].source # subject

\* A step to "unload" either starts there or is one of the loop's own.
LEMMA IntoUnload ==
  ASSUME [Next]_vars, loop' = "unload"
  PROVE  \/ \E b \in Bases : HandleUnloadDll(b)
         \/ KeepsHook \/ ForgetsHook
         \/ loop = "unload" /\ UNCHANGED <<next, subject, installed>>
<1> USE DEF memoryVars, tableVars, stopVars, loopVars, endVars, targetVars, sessionVars, Then, Fails
<1>1. CASE \E t \in Threads : Thread(t) BY <1>1, ThreadFrame
<1>2. CASE Iterates
  <2>1. UNCHANGED <<next, subject, installed>> BY <1>2, IteratesFrame
  <2>2. CASE ContinuesTarget BY <2>2, ContinuesWhere DEF ContinuesAt
  <2>3. CASE BreaksIn \/ RetriesStop BY <2>3 DEF BreaksIn, RetriesStop
  <2>4. CASE Waits \/ TimesOut \/ WaitFails \/ Detaches \/ BreaksOff
    BY <2>4 DEF Waits, TimesOut, WaitFails, Detaches, BreaksOff
  <2>5. CASE StopKey BY <2>1, <2>5 DEF StopKey
  <2> QED BY <1>2, <2>2, <2>3, <2>4, <2>5 DEF Iterates
<1>3. CASE HandleCreateProcess \/ HandleBreakpoint \/ HandleExitProcess
  BY <1>3 DEF HandleCreateProcess, HandleBreakpoint, HandleExitProcess
<1>4. ASSUME NEW b \in Bases, NEW name \in Names, HandleLoadDll(b, name) PROVE FALSE
  BY <1>4 DEF HandleLoadDll, ConfigureTransport
<1>5. CASE TryInstallPendingHooks
  BY <1>5 DEF TryInstallPendingHooks, SkipsHook, RefusesHook, InstallsHook, InstallEnds, Installing
<1>6. CASE UnloadEnds BY <1>6 DEF UnloadEnds
<1>9. CASE \E b \in Bases, name \in Names : HandleUnnamedDll(b, name) BY <1>9, UnnamedFrame
<1>7. CASE CleanupRemote BY <1>7 DEF CleanupRemote, RemovesHook, HooksRemoved, ReleasesRemote
<1>8. CASE UNCHANGED vars BY <1>8 DEF vars
<1> QED
  BY <1>1, <1>2, <1>3, <1>4, <1>5, <1>6, <1>7, <1>8, <1>9
  DEF Next, DebugEvent, Controller, UnloadHooks, Iterates

LEMMA UnloadProgressStep ==
  ASSUME SessionInv, UnloadProgress, [Next]_vars
  PROVE  UnloadProgress'
<1> SUFFICES ASSUME loop' = "unload", NEW i \in DOMAIN installed', i < next'
             PROVE  (installed[i].target # subject /\ installed[i].source # subject)'
  BY DEF UnloadProgress
<1>0. installed \in Seq(InstalledHook) /\ installed' \in Seq(InstalledHook) /\ next \in Nat \ {0}
  BY SessionInvStep DEF SessionInv, MemoryTyped, LoopTyped
<1>1. i \in Nat \ {0} BY <1>0
<1>2. CASE \E b \in Bases : HandleUnloadDll(b)
  <2>1. next' = 1 BY <1>2 DEF HandleUnloadDll
  <2> QED BY <1>1, <2>1
<1>3. CASE KeepsHook
  <2>1. /\ next' = next + 1 /\ loop = "unload" /\ UNCHANGED <<installed, subject>>
        /\ installed[next].target # subject /\ installed[next].source # subject
    BY <1>3 DEF KeepsHook, Unloading, tableVars
  <2>2. i = next \/ i < next BY <1>0, <1>1, <2>1
  <2> QED BY <2>1, <2>2 DEF UnloadProgress
<1>4. CASE ForgetsHook
  <2>1. /\ next \in DOMAIN installed /\ loop = "unload" /\ UNCHANGED <<next, subject>>
        /\ installed' = RemoveAt(installed, next)
    BY <1>0, <1>4 DEF ForgetsHook, Unloading, loopVars
  <2>2. Without(installed', installed, next) BY <1>0, <2>1, RemoveAtWithout
  <2>3. i \in 1..(next - 1) /\ i \in DOMAIN installed BY <1>0, <1>1, <2>1
  <2>4. installed'[i] = installed[i] BY <2>2, <2>3 DEF Without
  <2> QED BY <2>1, <2>3, <2>4 DEF UnloadProgress
<1>5. CASE loop = "unload" /\ UNCHANGED <<next, subject, installed>>
  BY <1>5 DEF UnloadProgress
<1> QED BY <1>2, <1>3, <1>4, <1>5, IntoUnload

-----------------------------------------------------------------------------
(* The hook table and the target's memory.                                 *)

\* What an installed hook has in the target.  The module's own code is gone
\* with the module while its hooks are being forgotten.
Leads(k) ==
  /\ k.entry = Entry(k.target, k.hook) /\ k.saved = Original
  /\ bytes[k.entry] = IF loop = "unload" /\ k.target = subject THEN Original ELSE k.hook
  /\ slot[k.hook] = k.trampoline
  /\ trampoline[k.trampoline] = <<k.entry, Original>>

Table ==
  /\ \A i \in DOMAIN installed : Leads(installed[i])
  /\ \A i, j \in DOMAIN installed : i # j =>
       /\ installed[i].hook # installed[j].hook
       /\ installed[i].entry # installed[j].entry
       /\ installed[i].trampoline # installed[j].trampoline
  /\ \A e \in Entries : bytes[e] # Original => \E i \in DOMAIN installed : installed[i].entry = e
  /\ \A m \in Trampolines : trampoline[m] # Null => \E i \in DOMAIN installed : installed[i].trampoline = m
  /\ \A h \in Hooks : slot[h] # Null => \E i \in DOMAIN installed : installed[i].hook = h

\* An installation that stops behind its jump, or a hook that is refused and
\* cannot be given back, leaves something of itself in the target.
InstallsCleanly == "Patch" \notin Faults /\ "Rollback" \notin Faults

\* As long as no removal has failed, and, if a handler has failed, nothing of
\* the installation was left behind.
Sound == RemovalsSucceeded /\ (ending = "failed" => InstallsCleanly)

\* Taking one hook away takes away just what belongs to it.
LEMMA RemovalTable ==
  ASSUME MemoryTyped, Table, NEW n \in DOMAIN installed, NEW k, k = installed[n],
         Without(installed', installed, n),
         bytes' = [bytes EXCEPT ![k.entry] = Original],
         slot' = [slot EXCEPT ![k.hook] = Null],
         trampoline' = [trampoline EXCEPT ![k.trampoline] = Null],
         UNCHANGED <<loop, subject>>
  PROVE  Table'
<1>0. installed \in Seq(InstalledHook) BY DEF MemoryTyped
<1>1. \A i \in DOMAIN installed : installed[i] \in InstalledHook BY <1>0, ElementTyped
<1>2. \A i \in DOMAIN installed' : \E j \in DOMAIN installed : j # n /\ installed'[i] = installed[j]
  BY <1>0, WithoutFrom
<1>3. \A j \in DOMAIN installed : j # n => \E i \in DOMAIN installed' : installed'[i] = installed[j]
  BY <1>0, WithoutFrom
<1>4. ASSUME NEW j \in DOMAIN installed, j # n
      PROVE  /\ installed[j].hook # k.hook /\ installed[j].entry # k.entry
             /\ installed[j].trampoline # k.trampoline
  BY <1>4 DEF Table
<1>5. ASSUME NEW i \in DOMAIN installed' PROVE Leads(installed[i])'
  <2>1. PICK j \in DOMAIN installed : j # n /\ installed'[i] = installed[j] BY <1>2
  <2>2. PICK g \in InstalledHook : g = installed[j] BY <1>1
  <2>3. Leads(g) BY <2>2 DEF Table
  <2>4. g.hook # k.hook /\ g.entry # k.entry /\ g.trampoline # k.trampoline BY <1>4, <2>1, <2>2
  <2>5. bytes'[g.entry] = bytes[g.entry] /\ slot'[g.hook] = slot[g.hook]
        /\ trampoline'[g.trampoline] = trampoline[g.trampoline]
    BY <2>2, <2>4 DEF MemoryTyped, InstalledHook
  <2>6. installed'[i] = g BY <2>1, <2>2
  <2> QED BY <2>3, <2>5, <2>6 DEF Leads
<1>6. ASSUME NEW i \in DOMAIN installed', NEW j \in DOMAIN installed', i # j
      PROVE  /\ installed'[i].hook # installed'[j].hook
             /\ installed'[i].entry # installed'[j].entry
             /\ installed'[i].trampoline # installed'[j].trampoline
  <2>1. PICK a, c \in DOMAIN installed :
          a # c /\ installed'[i] = installed[a] /\ installed'[j] = installed[c]
    BY <1>0, <1>6, WithoutApart
  <2> QED BY <2>1 DEF Table
<1>7. k \in InstalledHook BY <1>1
<1>8. ASSUME NEW e \in Entries, bytes'[e] # Original
      PROVE  \E i \in DOMAIN installed' : installed'[i].entry = e
  <2>1. e # k.entry /\ bytes[e] # Original BY <1>7, <1>8 DEF MemoryTyped, InstalledHook
  <2>2. PICK j \in DOMAIN installed : installed[j].entry = e BY <2>1 DEF Table
  <2> QED BY <1>3, <2>1, <2>2
<1>9. ASSUME NEW m \in Trampolines, trampoline'[m] # Null
      PROVE  \E i \in DOMAIN installed' : installed'[i].trampoline = m
  <2>1. m # k.trampoline /\ trampoline[m] # Null BY <1>7, <1>9 DEF MemoryTyped, InstalledHook
  <2>2. PICK j \in DOMAIN installed : installed[j].trampoline = m BY <2>1 DEF Table
  <2> QED BY <1>3, <2>1, <2>2
<1>10. ASSUME NEW h \in Hooks, slot'[h] # Null
       PROVE  \E i \in DOMAIN installed' : installed'[i].hook = h
  <2>1. h # k.hook /\ slot[h] # Null BY <1>7, <1>10 DEF MemoryTyped, InstalledHook
  <2>2. PICK j \in DOMAIN installed : installed[j].hook = h BY <2>1 DEF Table
  <2> QED BY <1>3, <2>1, <2>2
<1> QED BY <1>5, <1>6, <1>8, <1>9, <1>10 DEF Table

\* A failure is never forgotten.
FailuresStick ==
  /\ cleaned' => cleaned
  /\ forgotten \subseteq forgotten'
  /\ ending = "failed" => ending' = "failed"

LEMMA FailuresStickStep ==
  ASSUME SessionInv, [Next]_vars
  PROVE  FailuresStick
<1> USE DEF FailuresStick, tableVars, stopVars, loopVars, endVars, targetVars, sessionVars, Waiting
<1>0. loop \in {"top", "wait", "install", "unload"} => ending = "none"
  BY DEF SessionInv, PhaseOrder
<1>1. CASE \E t \in Threads : Thread(t) BY <1>1, ThreadFrame
<1>2. CASE Iterates BY <1>2, IteratesFrame
<1>3. CASE HandleCreateProcess \/ HandleBreakpoint \/ HandleExitProcess
  BY <1>0, <1>3 DEF HandleCreateProcess, HandleBreakpoint, HandleExitProcess
<1>4. ASSUME NEW b \in Bases, NEW name \in Names, HandleLoadDll(b, name) PROVE FailuresStick
  BY <1>0, <1>4 DEF HandleLoadDll, LoadReported
<1>5. CASE \E b \in Bases : HandleUnloadDll(b) BY <1>0, <1>5 DEF HandleUnloadDll
<1>6. CASE TryInstallPendingHooks
  BY <1>0, <1>6
  DEF TryInstallPendingHooks, SkipsHook, RefusesHook, InstallsHook, InstallEnds, Installing
<1>7. CASE KeepsHook \/ UnloadEnds BY <1>7 DEF KeepsHook, UnloadEnds
<1>8. CASE ForgetsHook
  <2>1. forgotten \subseteq forgotten' BY <1>8 DEF ForgetsHook, Forgets
  <2> QED BY <1>8, <2>1 DEF ForgetsHook
<1>12. CASE \E b \in Bases, name \in Names : HandleUnnamedDll(b, name) BY <1>12, UnnamedFrame
<1>9. CASE RemovesHook BY <1>9 DEF RemovesHook
<1>10. CASE HooksRemoved \/ ReleasesRemote BY <1>10 DEF HooksRemoved, ReleasesRemote
<1>11. CASE UNCHANGED vars BY <1>11 DEF vars
<1> QED
  BY <1>1, <1>2, <1>3, <1>4, <1>5, <1>6, <1>7, <1>8, <1>9, <1>10, <1>11, <1>12
  DEF Next, DebugEvent, Controller, UnloadHooks, CleanupRemote, Iterates

LEMMA SoundBack ==
  ASSUME SessionInv, [Next]_vars
  PROVE  Sound' => Sound
  BY FailuresStickStep DEF FailuresStick, Sound, RemovalsSucceeded

LEMMA IdlesLoop ==
  ASSUME Idles
  PROVE  (loop' = "unload" <=> loop = "unload") /\ (loop = "unload" => subject' = subject)
<1> USE DEF tableVars, stopVars, loopVars, endVars, targetVars, sessionVars, Then, Fails, Waiting
<1>1. CASE \E t \in Threads : Thread(t) BY <1>1, ThreadFrame
<1>2. CASE Iterates
  <2>1. CASE ContinuesTarget
    <3>1. ContinuesAt BY <2>1, ContinuesWhere
    <3>2. loop = "continue" BY <2>1 DEF ContinuesTarget
    <3> QED BY <3>1, <3>2 DEF ContinuesAt
  <2>2. CASE BreaksIn \/ RetriesStop BY <2>2 DEF BreaksIn, RetriesStop
  <2>3. CASE Waits \/ TimesOut \/ WaitFails \/ Detaches \/ BreaksOff \/ StopKey
    BY <2>3 DEF Waits, TimesOut, WaitFails, Detaches, BreaksOff, StopKey
  <2> QED BY <1>2, <2>1, <2>2, <2>3 DEF Iterates
<1>3. CASE HandleCreateProcess \/ HandleBreakpoint \/ HandleExitProcess
  BY <1>3 DEF HandleCreateProcess, HandleBreakpoint, HandleExitProcess
<1>4. CASE SkipsHook \/ InstallEnds
  BY <1>4 DEF SkipsHook, InstallEnds, Installing
<1>5. CASE KeepsHook \/ HooksRemoved \/ ReleasesRemote
  BY <1>5 DEF KeepsHook, HooksRemoved, ReleasesRemote
<1>6. CASE UNCHANGED vars BY <1>6 DEF vars
<1> QED BY <1>1, <1>2, <1>3, <1>4, <1>5, <1>6 DEF Idles

\* The table does not change, and the steps that unload a module neither begin
\* nor end.
LEMMA QuietTable ==
  ASSUME Table, UNCHANGED <<bytes, slot, trampoline, installed>>,
         loop' = "unload" <=> loop = "unload", loop = "unload" => subject' = subject
  PROVE  Table'
  BY DEF Table, Leads

LEMMA UnloadTable ==
  ASSUME SessionInv, Table, NEW b \in Bases, HandleUnloadDll(b)
  PROVE  Table'
<1>1. /\ bytes' = [e \in Entries |-> IF e[1] = b THEN Original ELSE bytes[e]]
      /\ loop = "wait" /\ loop' = "unload" /\ subject' = b
      /\ UNCHANGED <<slot, trampoline, installed>>
  BY DEF HandleUnloadDll, Waiting, Then, tableVars
<1>2. \A i \in DOMAIN installed : installed[i] \in InstalledHook
  BY ElementTyped DEF SessionInv, MemoryTyped
<1>3. ASSUME NEW i \in DOMAIN installed PROVE Leads(installed[i])'
  <2>1. PICK k \in InstalledHook : k = installed[i] BY <1>2
  <2>2. Leads(k) BY <2>1 DEF Table
  <2>3. k.entry[1] = k.target BY <2>2 DEF Leads, Entry
  <2>4. bytes'[k.entry] = IF k.target = b THEN Original ELSE k.hook
    BY <1>1, <2>1, <2>2, <2>3 DEF Leads, InstalledHook
  <2> QED BY <1>1, <2>1, <2>2, <2>4 DEF Leads
<1>4. ASSUME NEW e \in Entries, bytes'[e] # Original
      PROVE  \E i \in DOMAIN installed' : installed'[i].entry = e
  BY <1>1, <1>4 DEF Table
<1> QED BY <1>1, <1>3, <1>4 DEF Table

LEMMA InstallTable ==
  ASSUME SessionInv, Table, Sound', InstallsHook
  PROVE  Table'
<1>1. PICK m \in Free, ok \in Outcomes("Patch") :
        LET hook == Resolved(Definitions[next], m)
        IN /\ HookFunction(hook, ok)
           /\ IF ok THEN installed' = Append(installed, hook) /\ UNCHANGED loop
              ELSE ending' = "failed"
  BY DEF InstallsHook, Fails
<1>2. ok = TRUE BY <1>1 DEF Sound, InstallsCleanly, Outcomes
<1>3. /\ Installing /\ Ready(Definitions[next]) /\ ~Taken(Definitions[next])
  BY DEF InstallsHook
<1>4. m \in Trampolines /\ trampoline[m] = Null /\ Definitions[next] \in Hooks
      /\ Resolved(Definitions[next], m) \in InstalledHook
  BY <1>3, InstallsTyped DEF SessionInv, LoopTyped, Free
<1> PICK k \in InstalledHook, h \in Hooks : k = Resolved(h, m) /\ h = Definitions[next]
  BY <1>4
<1>5. /\ k.hook = h /\ k.trampoline = m /\ k.entry = Entry(k.target, h)
      /\ k.saved = bytes[k.entry] /\ k.entry = Entry(FindModule(Home[h]), h)
  BY DEF Resolved
<1>6. HookFunction(k, ok) /\ installed' = Append(installed, k) /\ loop' = "install"
  BY <1>1, <1>2, <1>3 DEF Installing
<1>7. \A i \in DOMAIN installed : installed[i].entry # k.entry /\ installed[i].hook # h
  BY <1>3, <1>5 DEF Taken, Ready, IsInstalled
<1>8. k.entry \in Entries /\ k.hook \in Hooks /\ k.hook # Original
  BY <1>4, NullAssumption DEF InstalledHook
<1>9. bytes[k.entry] = Original BY <1>7, <1>8 DEF Table
<1>10. /\ bytes' = [bytes EXCEPT ![k.entry] = k.hook]
       /\ slot' = [slot EXCEPT ![k.hook] = k.trampoline]
       /\ trampoline' = [trampoline EXCEPT ![k.trampoline] = <<k.entry, Original>>]
  BY <1>2, <1>5, <1>6, <1>9 DEF HookFunction, Rewrite
<1>11. installed \in Seq(InstalledHook) /\ \A i \in DOMAIN installed : installed[i] \in InstalledHook
  BY ElementTyped DEF SessionInv, MemoryTyped
<1>12. \A i \in DOMAIN installed : installed[i].trampoline # k.trampoline
  <2> SUFFICES ASSUME NEW i \in DOMAIN installed, installed[i].trampoline = k.trampoline PROVE FALSE
    OBVIOUS
  <2>0. Leads(installed[i]) BY DEF Table
  <2>1. Null = <<installed[i].entry, Original>> BY <1>4, <1>5, <2>0 DEF Leads
  <2>2. installed[i].entry \in Entries BY <1>11 DEF InstalledHook
  <2>3. <<installed[i].entry, Original>> \in Entries \X (Hooks \union {Original}) BY <2>2
  <2> QED BY <2>1, <2>3, NullAssumption
<1>13. /\ DOMAIN installed' = DOMAIN installed \union {Len(installed) + 1}
       /\ Len(installed) + 1 \notin DOMAIN installed
       /\ installed'[Len(installed) + 1] = k
       /\ \A i \in DOMAIN installed : installed'[i] = installed[i]
  BY <1>6, <1>11
<1>14. loop = "install" BY <1>3 DEF Installing
<1>15. Leads(k)'
  BY <1>4, <1>5, <1>6, <1>8, <1>9, <1>10 DEF Leads, SessionInv, MemoryTyped
<1>16. ASSUME NEW i \in DOMAIN installed PROVE Leads(installed[i])'
  <2>1. PICK g \in InstalledHook : g = installed[i] BY <1>11
  <2>2. Leads(g) BY <2>1 DEF Table
  <2>3. g.hook # k.hook /\ g.entry # k.entry /\ g.trampoline # k.trampoline
    BY <1>5, <1>7, <1>12, <2>1
  <2>4. bytes'[g.entry] = bytes[g.entry] /\ slot'[g.hook] = slot[g.hook]
        /\ trampoline'[g.trampoline] = trampoline[g.trampoline]
    BY <1>10, <2>1, <2>3 DEF SessionInv, MemoryTyped, InstalledHook
  <2>5. installed'[i] = g BY <1>13, <2>1
  <2> QED BY <1>6, <1>14, <2>2, <2>4, <2>5 DEF Leads
<1>17. \A i \in DOMAIN installed' : Leads(installed[i])' BY <1>13, <1>15, <1>16
<1>18. \A i, j \in DOMAIN installed' : i # j =>
         /\ installed'[i].hook # installed'[j].hook
         /\ installed'[i].entry # installed'[j].entry
         /\ installed'[i].trampoline # installed'[j].trampoline
  BY <1>5, <1>7, <1>12, <1>13 DEF Table
<1>19. ASSUME NEW e \in Entries, bytes'[e] # Original
       PROVE  \E i \in DOMAIN installed' : installed'[i].entry = e
  BY <1>10, <1>13, <1>19 DEF Table, SessionInv, MemoryTyped
<1>20. ASSUME NEW n \in Trampolines, trampoline'[n] # Null
       PROVE  \E i \in DOMAIN installed' : installed'[i].trampoline = n
  BY <1>10, <1>13, <1>20 DEF Table, SessionInv, MemoryTyped
<1>21. ASSUME NEW g \in Hooks, slot'[g] # Null
       PROVE  \E i \in DOMAIN installed' : installed'[i].hook = g
  BY <1>10, <1>13, <1>21 DEF Table, SessionInv, MemoryTyped
<1> QED BY <1>17, <1>18, <1>19, <1>20, <1>21 DEF Table

\* UnhookFunction that gets all the way restores, clears and frees.
LEMMA UnhookAll ==
  ASSUME NEW k, UnhookFunction(k, 3), k.saved = Original
  PROVE  /\ bytes' = [bytes EXCEPT ![k.entry] = Original]
         /\ slot' = [slot EXCEPT ![k.hook] = Null]
         /\ trampoline' = [trampoline EXCEPT ![k.trampoline] = Null]
  BY DEF UnhookFunction, Rewrite

LEMMA ForgetTable ==
  ASSUME SessionInv, Table, Sound', ForgetsHook
  PROVE  Table'
<1>1. /\ next \in DOMAIN installed /\ loop = "unload" /\ UNCHANGED <<loop, subject>>
      /\ installed' = RemoveAt(installed, next) /\ installed \in Seq(InstalledHook)
  BY DEF ForgetsHook, Unloading, loopVars, SessionInv, MemoryTyped, LoopTyped
<1>2. PICK n \in DOMAIN installed : n = next BY <1>1
<1>3. PICK k \in InstalledHook : k = installed[n] BY <1>1, <1>2, ElementTyped
<1>4. Without(installed', installed, n) BY <1>1, <1>2, RemoveAtWithout
<1>5. Leads(k) BY <1>3 DEF Table
<1>6. /\ bytes' = [bytes EXCEPT ![k.entry] = Original]
      /\ slot' = [slot EXCEPT ![k.hook] = Null]
      /\ trampoline' = [trampoline EXCEPT ![k.trampoline] = Null]
  <2>1. CASE k.target = subject
    <3>1. PICK cleared, freed \in Outcomes("Release") :
            ReleaseUnloadedHook(k, cleared, freed) /\ Forgets(k, cleared /\ freed)
      BY <1>2, <1>3, <2>1 DEF ForgetsHook
    <3>2. cleared /\ freed BY <3>1 DEF Sound, RemovalsSucceeded, Forgets
    <3>3. bytes[k.entry] = Original BY <1>1, <1>5, <2>1 DEF Leads
    <3>4. bytes = [bytes EXCEPT ![k.entry] = Original]
      BY <3>3 DEF SessionInv, MemoryTyped, InstalledHook
    <3> QED BY <3>1, <3>2, <3>4 DEF ReleaseUnloadedHook
  <2>2. CASE k.target # subject
    <3>1. PICK steps \in Reached("UnhookOnUnload", 3) :
            UnhookFunction(k, steps) /\ Forgets(k, steps = 3)
      BY <1>2, <1>3, <2>2 DEF ForgetsHook
    <3>2. steps = 3 BY <3>1 DEF Sound, RemovalsSucceeded, Forgets
    <3> QED BY <1>5, <3>1, <3>2, UnhookAll DEF Leads
  <2> QED BY <2>1, <2>2
<1> QED BY <1>1, <1>3, <1>4, <1>6, RemovalTable DEF SessionInv

LEMMA RemoveTable ==
  ASSUME SessionInv, Table, Sound', RemovesHook
  PROVE  Table'
<1>1. /\ installed # <<>> /\ installed \in Seq(InstalledHook) /\ installed' = Front(installed)
      /\ UNCHANGED <<loop, subject>>
  BY DEF RemovesHook, loopVars, SessionInv, MemoryTyped
<1>2. PICK n \in DOMAIN installed : n = Len(installed) BY <1>1, FrontWithout
<1>3. Last(installed) = installed[n] /\ Without(installed', installed, n)
  BY <1>1, <1>2, FrontWithout
<1>4. PICK k \in InstalledHook : k = installed[n] BY <1>1, ElementTyped
<1>5. Leads(k) BY <1>4 DEF Table
<1>6. PICK steps \in Reached("Unhook", 3) :
        UnhookFunction(k, steps) /\ cleaned' = (cleaned /\ steps = 3)
  BY <1>3, <1>4 DEF RemovesHook
<1>7. steps = 3 BY <1>6 DEF Sound, RemovalsSucceeded
<1>8. /\ bytes' = [bytes EXCEPT ![k.entry] = Original]
      /\ slot' = [slot EXCEPT ![k.hook] = Null]
      /\ trampoline' = [trampoline EXCEPT ![k.trampoline] = Null]
  BY <1>5, <1>6, <1>7, UnhookAll DEF Leads
<1> QED BY <1>1, <1>3, <1>4, <1>8, RemovalTable DEF SessionInv

\* UnloadEnds comes when no hook of the module is left.
LEMMA UnloadEndsTable ==
  ASSUME SessionInv, Table, UnloadProgress, UnloadEnds
  PROVE  Table'
<1>1. /\ loop = "unload" /\ loop' = "continue" /\ next > Len(installed)
      /\ UNCHANGED <<bytes, slot, trampoline, installed>>
  BY DEF UnloadEnds, Then, targetVars, memoryVars
<1>2. installed \in Seq(InstalledHook) /\ next \in Nat BY DEF SessionInv, MemoryTyped, LoopTyped
<1>3. \A i \in DOMAIN installed : installed[i].target # subject
  <2> TAKE i \in DOMAIN installed
  <2>1. i < next BY <1>1, <1>2
  <2> QED BY <1>1, <2>1 DEF UnloadProgress
<1> QED BY <1>1, <1>3 DEF Table, Leads

\* What a refused hook has written is given back.
LEMMA RefuseTable ==
  ASSUME SessionInv, Table, Sound', RefusesHook
  PROVE  Table'
<1>1. /\ Installing /\ loop = "install" /\ loop' = "cleanup" /\ ending' = "failed"
      /\ UNCHANGED <<bytes, installed>>
  BY RefusesFrame
<1>2. UNCHANGED <<slot, trampoline>>
  <2> SUFFICES ASSUME NEW m \in Free, NEW written \in BOOLEAN,
                      GivesBack(Resolved(Definitions[next], m), written)
               PROVE  UNCHANGED <<slot, trampoline>>
    BY DEF RefusesHook
  <2>1. PICK h \in Hooks : h = Definitions[next] /\ ~IsInstalled(h)
    BY <1>1, DefinitionTyped DEF RefusesHook, Ready, SessionInv, LoopTyped
  <2>2. Outcomes("Rollback") = {TRUE}
    BY <1>1 DEF Sound, InstallsCleanly, Outcomes
  <2>3. trampoline' = trampoline /\ (slot' = slot \/ slot' = [slot EXCEPT ![h] = Null])
    BY <2>1, <2>2 DEF GivesBack, Resolved
  <2>4. slot[h] = Null BY <2>1 DEF Table, IsInstalled
  <2>5. slot' = slot BY <2>3, <2>4 DEF SessionInv, MemoryTyped
  <2> QED BY <2>3, <2>5
<1> QED BY <1>1, <1>2, QuietTable

SoundTable == Sound => Table

LEMMA TableStep ==
  ASSUME SessionInv, UnloadProgress, SoundTable, [Next]_vars
  PROVE  SoundTable'
<1> SUFFICES ASSUME Sound' PROVE Table' BY DEF SoundTable
<1>0. Table BY SoundBack DEF SoundTable
<1>1. CASE Idles
  <2>1. UNCHANGED <<bytes, slot, trampoline, installed>> BY <1>1, IdlesFrame DEF tableMemory
  <2> QED BY <1>0, <1>1, <2>1, IdlesLoop, QuietTable
<1>2. ASSUME NEW b \in Bases, NEW name \in Names, HandleLoadDll(b, name) PROVE Table'
  <2>1. UNCHANGED <<bytes, slot, trampoline, installed>>
    BY <1>2 DEF HandleLoadDll, memoryVars
  <2>2. loop = "wait" /\ loop' # "unload"
    BY <1>2 DEF HandleLoadDll, LoadReported, Waiting, Then, Fails, ConfigureTransport
  <2> QED BY <1>0, <2>1, <2>2, QuietTable
<1>3. ASSUME NEW b \in Bases, HandleUnloadDll(b) PROVE Table'
  BY <1>0, <1>3, UnloadTable
<1>4. CASE InstallsHook BY <1>0, <1>4, InstallTable
<1>5. CASE ForgetsHook BY <1>0, <1>5, ForgetTable
<1>6. CASE UnloadEnds BY <1>0, <1>6, UnloadEndsTable
<1>7. CASE RemovesHook BY <1>0, <1>7, RemoveTable
<1>8. ASSUME NEW b \in Bases, NEW name \in Names, HandleUnnamedDll(b, name) PROVE Table'
  BY <1>0, <1>8, UnnamedFrame, QuietTable
<1>9. CASE RefusesHook BY <1>0, <1>9, RefuseTable
<1> QED BY <1>1, <1>2, <1>3, <1>4, <1>5, <1>6, <1>7, <1>8, <1>9, StepKinds

\* As long as no removal has failed the table and the target agree: an
\* installed hook's export jumps to its handler, its slot leads to a trampoline
\* that belongs to it alone, and there is no jump, slot or trampoline besides.
THEOREM TableHolds == Spec => [](UnloadProgress /\ SoundTable)
<1>1. Init => UnloadProgress /\ SoundTable
  <2> SUFFICES ASSUME Init PROVE UnloadProgress /\ Table BY DEF SoundTable
  <2>1. installed = <<>> /\ loop = "top" BY DEF Init
  <2>2. /\ \A e \in Entries : bytes[e] = Original
        /\ \A m \in Trampolines : trampoline[m] = Null
        /\ \A h \in Hooks : slot[h] = Null
    BY DEF Init
  <2> QED BY <2>1, <2>2 DEF UnloadProgress, Table
<1>2. SessionInv /\ UnloadProgress /\ SoundTable /\ [Next]_vars => UnloadProgress' /\ SoundTable'
  BY UnloadProgressStep, TableStep
<1> QED BY <1>1, <1>2, SessionInvHolds, PTL DEF Spec

-----------------------------------------------------------------------------
(* The table as the runs check it.                                         *)

\* A set that a sequence of n different members lists has n members.
LEMMA ListedCount ==
  ASSUME NEW n \in Nat, NEW S, NEW f \in [1..n -> S],
         \A i, j \in 1..n : f[i] = f[j] => i = j,
         \A x \in S : \E i \in 1..n : f[i] = x
  PROVE  Cardinality(S) = n
<1>1. f \in Bijection(1..n, S) BY DEF Bijection, Injection, Surjection, IsInjective
<1>2. ExistsBijection(1..n, S) BY <1>1 DEF ExistsBijection
<1>3. IsFiniteSet(1..n) /\ Cardinality(1..n) = n
  <2>1. 1 \in Int /\ n \in Int OBVIOUS
  <2>2. Cardinality(1..n) = (IF 1 > n THEN 0 ELSE n - 1 + 1) /\ IsFiniteSet(1..n)
    BY <2>1, FS_Interval
  <2> QED BY <2>2
<1> QED BY <1>2, <1>3, FS_Bijection

LEMMA TableCounts ==
  ASSUME SessionInv, Table, loop # "unload"
  PROVE  /\ Cardinality({e \in Entries : bytes[e] # Original}) = Len(installed)
         /\ Cardinality({m \in Trampolines : trampoline[m] # Null}) = Len(installed)
         /\ Cardinality({h \in Hooks : slot[h] # Null}) = Len(installed)
<1>1. installed \in Seq(InstalledHook) /\ Len(installed) \in Nat /\ DOMAIN installed = 1..Len(installed)
  BY DEF SessionInv, MemoryTyped
<1>2. PICK n \in Nat : n = Len(installed) BY <1>1
<1>3. ASSUME NEW i \in 1..n
      PROVE  /\ installed[i].entry \in Entries /\ bytes[installed[i].entry] # Original
             /\ installed[i].trampoline \in Trampolines
             /\ trampoline[installed[i].trampoline] # Null
             /\ installed[i].hook \in Hooks /\ slot[installed[i].hook] # Null
  <2>1. PICK k \in InstalledHook : k = installed[i] BY <1>1, <1>2, ElementTyped
  <2>2. Leads(k) BY <1>1, <1>2, <2>1 DEF Table
  <2>3. k.entry \in Entries /\ k.hook \in Hooks /\ k.trampoline \in Trampolines
    BY DEF InstalledHook
  <2>4. bytes[k.entry] # Original BY <2>2, <2>3, NullAssumption DEF Leads
  <2>5. slot[k.hook] # Null BY <2>2, <2>3, NullAssumption DEF Leads
  <2>6. <<k.entry, Original>> \in Entries \X (Hooks \union {Original}) BY <2>3
  <2>7. trampoline[k.trampoline] # Null BY <2>2, <2>6, NullAssumption DEF Leads
  <2> QED BY <2>1, <2>3, <2>4, <2>5, <2>7
<1>4. Cardinality({e \in Entries : bytes[e] # Original}) = n
  <2> DEFINE S == {e \in Entries : bytes[e] # Original}
             f == [i \in 1..n |-> installed[i].entry]
  <2>1. f \in [1..n -> S] BY <1>3
  <2>2. \A i, j \in 1..n : f[i] = f[j] => i = j BY <1>1, <1>2 DEF Table
  <2>3. \A x \in S : \E i \in 1..n : f[i] = x BY <1>1, <1>2 DEF Table
  <2> HIDE DEF f, S
  <2>4. Cardinality(S) = n BY <2>1, <2>2, <2>3, ListedCount
  <2> QED BY <2>4 DEF S
<1>5. Cardinality({m \in Trampolines : trampoline[m] # Null}) = n
  <2> DEFINE S == {m \in Trampolines : trampoline[m] # Null}
             f == [i \in 1..n |-> installed[i].trampoline]
  <2>1. f \in [1..n -> S] BY <1>3
  <2>2. \A i, j \in 1..n : f[i] = f[j] => i = j BY <1>1, <1>2 DEF Table
  <2>3. \A x \in S : \E i \in 1..n : f[i] = x BY <1>1, <1>2 DEF Table
  <2> HIDE DEF f, S
  <2>4. Cardinality(S) = n BY <2>1, <2>2, <2>3, ListedCount
  <2> QED BY <2>4 DEF S
<1>6. Cardinality({h \in Hooks : slot[h] # Null}) = n
  <2> DEFINE S == {h \in Hooks : slot[h] # Null}
             f == [i \in 1..n |-> installed[i].hook]
  <2>1. f \in [1..n -> S] BY <1>3
  <2>2. \A i, j \in 1..n : f[i] = f[j] => i = j BY <1>1, <1>2 DEF Table
  <2>3. \A x \in S : \E i \in 1..n : f[i] = x BY <1>1, <1>2 DEF Table
  <2> HIDE DEF f, S
  <2>4. Cardinality(S) = n BY <2>1, <2>2, <2>3, ListedCount
  <2> QED BY <2>4 DEF S
<1> QED BY <1>2, <1>4, <1>5, <1>6

\* The variables have their types and, whenever the loop is not in the middle
\* of changing it and no removal has failed, the hook table agrees with the
\* patched exports, the slots and the trampolines, one for one.
THEOREM HookTableHolds == Spec => []HookTable
<1>1. SessionInv /\ SoundTable /\ DebugTypeOK => HookTable
  <2> SUFFICES ASSUME SessionInv, SoundTable, DebugTypeOK, ending # "failed", RemovalsSucceeded,
                      loop \notin {"install", "unload", "cleanup"}
               PROVE  /\ \A i \in DOMAIN installed :
                           /\ bytes[installed[i].entry] = installed[i].hook
                           /\ installed[i].saved = Original
                           /\ slot[installed[i].hook] = installed[i].trampoline
                           /\ trampoline[installed[i].trampoline] = <<installed[i].entry, Original>>
                      /\ Cardinality({e \in Entries : bytes[e] # Original}) = Len(installed)
                      /\ Cardinality({m \in Trampolines : trampoline[m] # Null}) = Len(installed)
                      /\ Cardinality({h \in Hooks : slot[h] # Null}) = Len(installed)
    BY DEF HookTable
  <2>1. Table /\ loop # "unload" BY DEF SoundTable, Sound
  <2>2. \A i \in DOMAIN installed : Leads(installed[i]) BY <2>1 DEF Table
  <2> QED BY <2>1, <2>2, TableCounts DEF Leads
<1> QED BY <1>1, SessionInvHolds, TableHolds, DebugTypeCorrect, PTL

-----------------------------------------------------------------------------
(* What an empty table says.                                               *)

\* With an empty table nothing of the hooks is left in the target.
LEMMA EmptyTable ==
  ASSUME Table, installed = <<>>
  PROVE  /\ \A e \in Entries : bytes[e] = Original
         /\ \A m \in Trampolines : trampoline[m] = Null
         /\ \A h \in Hooks : slot[h] = Null
  BY DEF Table

LEMMA OverPristine ==
  ASSUME SessionInv, SoundTable, Sound, ending \in {"clean", "failed"},
         loop \notin {"cleanup", "release"}
  PROVE  Pristine /\ installed = <<>>
<1>1. installed = <<>> BY DEF SessionInv, PhaseOrder
<1>2. ~image /\ ~ring /\ bypasses = 0 BY DEF SessionInv, MappingOrder, Sound, RemovalsSucceeded
<1> QED BY <1>1, <1>2, EmptyTable DEF SoundTable, Pristine

-----------------------------------------------------------------------------
(* What a cleanup that reports success may have left.                      *)

\* Jumps and trampolines belong to hooks that are installed or were forgotten
\* with a complaint, and so do the bytes a later hook has saved in their stead.
LeftAt(e) == \E k \in forgotten : k.entry = e
LeftIn(m) == \E k \in forgotten : k.trampoline = m
Accounted ==
  /\ \A e \in Entries : bytes[e] # Original =>
       LeftAt(e) \/ \E i \in DOMAIN installed : installed[i].entry = e
  /\ \A m \in Trampolines : trampoline[m] # Null =>
       LeftIn(m) \/ \E i \in DOMAIN installed : installed[i].trampoline = m
  /\ \A i \in DOMAIN installed :
       /\ installed[i].entry[1] = installed[i].target
       /\ installed[i].saved = Original \/ LeftAt(installed[i].entry)
  /\ loop = "unload" => \A e \in Entries : e[1] = subject => bytes[e] = Original

\* Taking a hook away touches what is its own, and what it leaves there is
\* accounted for.
TakesAway(k) ==
  /\ \A e \in Entries : e # k.entry => bytes'[e] = bytes[e]
  /\ \A m \in Trampolines : m # k.trampoline => trampoline'[m] = trampoline[m]
  /\ bytes'[k.entry] = Original \/ LeftAt(k.entry)'
  /\ trampoline'[k.trampoline] = Null \/ LeftIn(k.trampoline)'
  /\ loop = "unload" => k.entry[1] # subject \/ bytes'[k.entry] = bytes[k.entry]

LEMMA LeftStays ==
  ASSUME forgotten \subseteq forgotten'
  PROVE  (\A e : LeftAt(e) => LeftAt(e)') /\ (\A m : LeftIn(m) => LeftIn(m)')
  BY DEF LeftAt, LeftIn

LEMMA TakenAway ==
  ASSUME SessionInv, Accounted, NEW n \in DOMAIN installed, NEW k \in InstalledHook,
         k = installed[n], Without(installed', installed, n), TakesAway(k),
         forgotten \subseteq forgotten', UNCHANGED <<loop, subject>>
  PROVE  Accounted'
<1>0. installed \in Seq(InstalledHook) BY DEF SessionInv, MemoryTyped
<1>1. \A i \in DOMAIN installed' : \E j \in DOMAIN installed : j # n /\ installed'[i] = installed[j]
  BY <1>0, WithoutFrom
<1>2. \A j \in DOMAIN installed : j # n => \E i \in DOMAIN installed' : installed'[i] = installed[j]
  BY <1>0, WithoutFrom
<1>3. ASSUME NEW e \in Entries, bytes'[e] # Original, ~LeftAt(e)'
      PROVE  \E i \in DOMAIN installed' : installed'[i].entry = e
  <2>1. e # k.entry BY <1>3 DEF TakesAway
  <2>2. bytes[e] # Original /\ ~LeftAt(e) BY <1>3, <2>1, LeftStays DEF TakesAway
  <2>3. PICK j \in DOMAIN installed : installed[j].entry = e BY <2>2 DEF Accounted
  <2> QED BY <1>2, <2>1, <2>3
<1>4. ASSUME NEW m \in Trampolines, trampoline'[m] # Null, ~LeftIn(m)'
      PROVE  \E i \in DOMAIN installed' : installed'[i].trampoline = m
  <2>1. m # k.trampoline BY <1>4 DEF TakesAway
  <2>2. trampoline[m] # Null /\ ~LeftIn(m) BY <1>4, <2>1, LeftStays DEF TakesAway
  <2>3. PICK j \in DOMAIN installed : installed[j].trampoline = m BY <2>2 DEF Accounted
  <2> QED BY <1>2, <2>1, <2>3
<1>5. ASSUME NEW i \in DOMAIN installed'
      PROVE  /\ installed'[i].entry[1] = installed'[i].target
             /\ installed'[i].saved = Original \/ LeftAt(installed[i].entry)'
  <2>1. PICK j \in DOMAIN installed : installed'[i] = installed[j] BY <1>1
  <2>2. PICK g : g = installed[j] OBVIOUS
  <2>3. g.entry[1] = g.target /\ (g.saved = Original \/ LeftAt(g.entry)) BY <2>2 DEF Accounted
  <2>4. g.saved = Original \/ LeftAt(g.entry)' BY <2>3, LeftStays
  <2>5. installed'[i] = g BY <2>1, <2>2
  <2> QED BY <2>3, <2>4, <2>5 DEF LeftAt
<1>6. loop' = "unload" => \A e \in Entries : e[1] = subject' => bytes'[e] = Original
  <2> SUFFICES ASSUME loop' = "unload", NEW e \in Entries, e[1] = subject'
               PROVE  bytes'[e] = Original
    OBVIOUS
  <2>1. bytes[e] = Original BY DEF Accounted
  <2>2. bytes'[e] = bytes[e] BY DEF TakesAway
  <2> QED BY <2>1, <2>2
<1> QED BY <1>3, <1>4, <1>5, <1>6 DEF Accounted

\* UnhookFunction restores what the hook has saved.
LEMMA UnhookTakes ==
  ASSUME SessionInv, Accounted, NEW n \in DOMAIN installed, NEW k \in InstalledHook,
         k = installed[n], NEW steps, UnhookFunction(k, steps), steps = 3 \/ k \in forgotten',
         forgotten \subseteq forgotten', loop = "unload" => k.entry[1] # subject
  PROVE  TakesAway(k)
<1>1. bytes' = bytes \/ bytes' = [bytes EXCEPT ![k.entry] = k.saved]
  BY DEF UnhookFunction, Rewrite
<1>2. trampoline' = trampoline \/ trampoline' = [trampoline EXCEPT ![k.trampoline] = Null]
  BY DEF UnhookFunction
<1>3. k.entry \in Entries /\ k.trampoline \in Trampolines BY DEF InstalledHook
<1>4. bytes \in [Entries -> Code] /\ DOMAIN trampoline = Trampolines BY DEF SessionInv, MemoryTyped
<1>5. (\A e \in Entries : e # k.entry => bytes'[e] = bytes[e])
      /\ (\A m \in Trampolines : m # k.trampoline => trampoline'[m] = trampoline[m])
  BY <1>1, <1>2, <1>4
<1>6. CASE k \in forgotten'
  <2>1. LeftAt(k.entry)' /\ LeftIn(k.trampoline)' BY <1>6 DEF LeftAt, LeftIn
  <2> QED BY <1>5, <2>1 DEF TakesAway
<1>7. CASE steps = 3
  <2>1. bytes' = [bytes EXCEPT ![k.entry] = k.saved]
        /\ trampoline' = [trampoline EXCEPT ![k.trampoline] = Null]
    BY <1>7 DEF UnhookFunction, Rewrite
  <2>2. bytes'[k.entry] = k.saved /\ trampoline'[k.trampoline] = Null BY <1>3, <1>4, <2>1
  <2>3. k.saved = Original \/ LeftAt(k.entry) BY DEF Accounted
  <2>4. k.saved = Original \/ LeftAt(k.entry)' BY <2>3, LeftStays
  <2> QED BY <1>5, <2>2, <2>4 DEF TakesAway
<1> QED BY <1>6, <1>7

LEMMA ForgetAccounted ==
  ASSUME SessionInv, Accounted, ForgetsHook
  PROVE  Accounted'
<1>1. /\ next \in DOMAIN installed /\ loop = "unload" /\ UNCHANGED <<loop, subject>>
      /\ installed' = RemoveAt(installed, next) /\ installed \in Seq(InstalledHook)
  BY DEF ForgetsHook, Unloading, loopVars, SessionInv, MemoryTyped, LoopTyped
<1>2. PICK n \in DOMAIN installed : n = next BY <1>1
<1>3. PICK k \in InstalledHook : k = installed[n] BY <1>1, <1>2, ElementTyped
<1>4. Without(installed', installed, n) BY <1>1, <1>2, RemoveAtWithout
<1>5. k.entry[1] = k.target BY <1>3 DEF Accounted
<1>6. forgotten \subseteq forgotten' BY DEF ForgetsHook, Forgets
<1>7. CASE k.target = subject
  <2>1. PICK cleared, freed \in Outcomes("Release") :
          ReleaseUnloadedHook(k, cleared, freed) /\ Forgets(k, cleared /\ freed)
    BY <1>2, <1>3, <1>7 DEF ForgetsHook
  <2>2. k.entry \in Entries /\ k.trampoline \in Trampolines /\ DOMAIN trampoline = Trampolines
    BY DEF InstalledHook, SessionInv, MemoryTyped
  <2>3. bytes[k.entry] = Original BY <1>1, <1>5, <1>7, <2>2 DEF Accounted
  <2>4. bytes' = bytes BY <2>1 DEF ReleaseUnloadedHook
  <2>5. trampoline'[k.trampoline] = Null \/ LeftIn(k.trampoline)'
    <3>1. CASE freed BY <2>1, <2>2, <3>1 DEF ReleaseUnloadedHook
    <3>2. CASE ~freed
      <4>1. k \in forgotten' BY <2>1, <3>2 DEF Forgets
      <4> QED BY <4>1 DEF LeftIn
    <3> QED BY <3>1, <3>2
  <2>6. \A m \in Trampolines : m # k.trampoline => trampoline'[m] = trampoline[m]
    BY <2>1, <2>2 DEF ReleaseUnloadedHook
  <2>7. TakesAway(k) BY <2>3, <2>4, <2>5, <2>6 DEF TakesAway
  <2> QED BY <1>1, <1>3, <1>4, <1>6, <2>7, TakenAway
<1>8. CASE k.target # subject
  <2>1. PICK steps \in Reached("UnhookOnUnload", 3) :
          UnhookFunction(k, steps) /\ Forgets(k, steps = 3)
    BY <1>2, <1>3, <1>8 DEF ForgetsHook
  <2>2. steps = 3 \/ k \in forgotten' BY <2>1 DEF Forgets
  <2>3. TakesAway(k) BY <1>3, <1>5, <1>6, <1>8, <2>1, <2>2, UnhookTakes
  <2> QED BY <1>1, <1>3, <1>4, <1>6, <2>3, TakenAway
<1> QED BY <1>7, <1>8

LEMMA RemoveAccounted ==
  ASSUME SessionInv, Accounted, cleaned', RemovesHook
  PROVE  Accounted'
<1>1. /\ installed # <<>> /\ installed \in Seq(InstalledHook) /\ installed' = Front(installed)
      /\ loop = "cleanup" /\ UNCHANGED <<loop, subject, forgotten>>
  BY DEF RemovesHook, loopVars, SessionInv, MemoryTyped
<1>2. PICK n \in DOMAIN installed : n = Len(installed) BY <1>1, FrontWithout
<1>3. Last(installed) = installed[n] /\ Without(installed', installed, n)
  BY <1>1, <1>2, FrontWithout
<1>4. PICK k \in InstalledHook : k = installed[n] BY <1>1, ElementTyped
<1>5. PICK steps \in Reached("Unhook", 3) :
        UnhookFunction(k, steps) /\ cleaned' = (cleaned /\ steps = 3)
  BY <1>3, <1>4 DEF RemovesHook
<1>6. steps = 3 BY <1>5
<1>7. TakesAway(k) BY <1>1, <1>4, <1>5, <1>6, UnhookTakes
<1> QED BY <1>1, <1>3, <1>4, <1>7, TakenAway

\* A hook that is installed where a forgotten one has left its jump saves it.
LEMMA InstallAccounted ==
  ASSUME InstallsCleanly, SessionInv, Accounted, InstallsHook
  PROVE  Accounted'
<1>1. PICK m \in Free, ok \in Outcomes("Patch") :
        LET hook == Resolved(Definitions[next], m)
        IN /\ HookFunction(hook, ok)
           /\ ok => installed' = Append(installed, hook) /\ UNCHANGED loop
  BY DEF InstallsHook
<1>2. ok = TRUE BY <1>1 DEF InstallsCleanly, Outcomes
<1>3. /\ Installing /\ Ready(Definitions[next]) /\ ~Taken(Definitions[next])
      /\ UNCHANGED forgotten
  BY DEF InstallsHook
<1>4. m \in Trampolines /\ Definitions[next] \in Hooks
      /\ Resolved(Definitions[next], m) \in InstalledHook
  BY <1>3, InstallsTyped DEF SessionInv, LoopTyped
<1> PICK k \in InstalledHook, h \in Hooks : k = Resolved(h, m) /\ h = Definitions[next]
  BY <1>4
<1>5. /\ k.trampoline = m /\ k.entry = Entry(k.target, h)
      /\ k.saved = bytes[k.entry] /\ k.entry = Entry(FindModule(Home[h]), h)
      /\ k.entry[1] = k.target
  BY DEF Resolved, Entry
<1>6. HookFunction(k, ok) /\ installed' = Append(installed, k) /\ loop' = loop
  BY <1>1, <1>2
<1>7. \A i \in DOMAIN installed : installed[i].entry # k.entry
  BY <1>3, <1>5 DEF Taken
<1>8. k.entry \in Entries BY DEF InstalledHook
<1>9. k.saved = Original \/ LeftAt(k.entry) BY <1>5, <1>7, <1>8 DEF Accounted
<1>10. \A e \in Entries : e # k.entry => bytes'[e] = bytes[e]
  BY <1>6 DEF HookFunction, Rewrite, SessionInv, MemoryTyped
<1>11. \A n \in Trampolines : n # k.trampoline => trampoline'[n] = trampoline[n]
  BY <1>2, <1>6 DEF HookFunction, SessionInv, MemoryTyped
<1>12. installed \in Seq(InstalledHook) BY DEF SessionInv, MemoryTyped
<1>13. /\ DOMAIN installed' = DOMAIN installed \union {Len(installed) + 1}
       /\ Len(installed) + 1 \notin DOMAIN installed
       /\ installed'[Len(installed) + 1] = k
       /\ \A i \in DOMAIN installed : installed'[i] = installed[i]
  BY <1>6, <1>12
<1>14. (\A e : LeftAt(e)' <=> LeftAt(e)) /\ (\A n : LeftIn(n)' <=> LeftIn(n))
  BY <1>3 DEF LeftAt, LeftIn
<1>15. \A e \in Entries : bytes'[e] # Original =>
         LeftAt(e)' \/ \E i \in DOMAIN installed' : installed'[i].entry = e
  <2> TAKE e \in Entries
  <2>1. CASE e = k.entry BY <1>13, <2>1
  <2>2. CASE e # k.entry BY <1>10, <1>13, <1>14, <2>2 DEF Accounted
  <2> QED BY <2>1, <2>2
<1>16. \A n \in Trampolines : trampoline'[n] # Null =>
         LeftIn(n)' \/ \E i \in DOMAIN installed' : installed'[i].trampoline = n
  <2> TAKE n \in Trampolines
  <2>1. CASE n = k.trampoline BY <1>13, <2>1
  <2>2. CASE n # k.trampoline BY <1>11, <1>13, <1>14, <2>2 DEF Accounted
  <2> QED BY <2>1, <2>2
<1>17. ASSUME NEW i \in DOMAIN installed'
       PROVE  /\ installed'[i].entry[1] = installed'[i].target
              /\ installed'[i].saved = Original \/ LeftAt(installed[i].entry)'
  <2>1. PICK g : g = installed'[i] OBVIOUS
  <2>2. g.entry[1] = g.target /\ (g.saved = Original \/ LeftAt(g.entry))
    BY <1>5, <1>9, <1>13, <2>1 DEF Accounted
  <2>3. g.saved = Original \/ LeftAt(g.entry)' BY <1>14, <2>2
  <2> QED BY <2>1, <2>2, <2>3 DEF LeftAt
<1>18. loop' # "unload" BY <1>3, <1>6 DEF Installing
<1> QED BY <1>15, <1>16, <1>17, <1>18 DEF Accounted

LEMMA QuietAccounted ==
  ASSUME Accounted, UNCHANGED <<bytes, trampoline, installed, forgotten>>,
         loop' = "unload" => loop = "unload" /\ subject' = subject
  PROVE  Accounted'
  BY DEF Accounted, LeftAt, LeftIn

LEMMA AccountedStep ==
  ASSUME InstallsCleanly, SessionInv, cleaned => Accounted, [Next]_vars
  PROVE  cleaned' => Accounted'
<1> SUFFICES ASSUME cleaned' PROVE Accounted' OBVIOUS
<1>0. Accounted BY FailuresStickStep DEF FailuresStick
<1>1. CASE Idles
  <2>1. UNCHANGED <<bytes, trampoline, installed, forgotten>> BY <1>1, IdlesFrame DEF tableMemory
  <2> QED BY <1>0, <1>1, <2>1, IdlesLoop, QuietAccounted
<1>2. CASE \E b \in Bases, name \in Names : HandleLoadDll(b, name)
  <2>1. UNCHANGED <<bytes, trampoline, installed, forgotten>> BY <1>2 DEF HandleLoadDll, memoryVars
  <2>2. loop' # "unload" BY <1>2 DEF HandleLoadDll, Then, Fails, ConfigureTransport
  <2> QED BY <1>0, <2>1, <2>2, QuietAccounted
<1>3. CASE \E b \in Bases, name \in Names : HandleUnnamedDll(b, name)
  BY <1>0, <1>3, UnnamedFrame, QuietAccounted
<1>4. CASE \E b \in Bases : HandleUnloadDll(b)
  <2>1. PICK b \in Bases : HandleUnloadDll(b) BY <1>4
  <2>2. /\ bytes' = [e \in Entries |-> IF e[1] = b THEN Original ELSE bytes[e]]
        /\ subject' = b /\ UNCHANGED <<trampoline, installed, forgotten>>
    BY <2>1 DEF HandleUnloadDll, endVars
  <2>3. \A e \in Entries : bytes'[e] # Original => bytes[e] # Original BY <2>2
  <2>4. \A e \in Entries : e[1] = subject' => bytes'[e] = Original BY <2>2
  <2> QED BY <1>0, <2>2, <2>3, <2>4 DEF Accounted, LeftAt, LeftIn
<1>5. CASE RefusesHook
  <2>1. loop' = "cleanup" /\ UNCHANGED <<bytes, installed, forgotten>> BY <1>5, RefusesFrame
  <2>2. UNCHANGED trampoline
    BY <1>5 DEF RefusesHook, GivesBack, InstallsCleanly, Outcomes
  <2> QED BY <1>0, <2>1, <2>2, QuietAccounted
<1>6. CASE InstallsHook BY <1>0, <1>6, InstallAccounted
<1>7. CASE ForgetsHook BY <1>0, <1>7, ForgetAccounted
<1>8. CASE UnloadEnds
  <2>1. UNCHANGED <<bytes, trampoline, installed, forgotten>> /\ loop' = "continue"
    BY <1>8 DEF UnloadEnds, Then, targetVars, memoryVars, endVars
  <2> QED BY <1>0, <2>1, QuietAccounted
<1>9. CASE RemovesHook BY <1>0, <1>9, RemoveAccounted
<1> QED BY <1>1, <1>2, <1>3, <1>4, <1>5, <1>6, <1>7, <1>8, <1>9, StepKinds

\* A cleanup that reports success has released everything, and what is left of
\* the hooks in the target is left of those that HandleUnloadDll complained of,
\* in whatever order hooks came and went before; that is if an installation
\* that fails leaves nothing behind (MCDebugRollback shows what happens when
\* it does).
THEOREM CleanupRestoresHolds ==
  ASSUME InstallsCleanly
  PROVE  Spec => []CleanupRestores
<1>1. Init => (cleaned => Accounted) BY DEF Init, Accounted
<1>2. SessionInv /\ (cleaned => Accounted) => CleanupRestores
  <2> SUFFICES ASSUME SessionInv, Accounted, loop = "over", ending \in {"clean", "failed"}, cleaned
               PROVE  /\ ~image /\ ~ring /\ bypasses = 0
                      /\ \A e \in Entries : bytes[e] # Original => LeftAt(e)
                      /\ \A m \in Trampolines : trampoline[m] # Null => LeftIn(m)
    BY DEF CleanupRestores, LeftAt, LeftIn
  <2>1. installed = <<>> BY DEF SessionInv, PhaseOrder
  <2>2. ~image /\ ~ring /\ bypasses = 0 BY DEF SessionInv, MappingOrder
  <2> QED BY <2>1, <2>2 DEF Accounted
<1> QED BY <1>1, <1>2, AccountedStep, SessionInvHolds, PTL DEF Spec

-----------------------------------------------------------------------------
(* The quiescence check and the clean stop.                                *)

\* The counter and the instruction pointers together see every thread that is in
\* the instrumentation or about to be led there: counted threads by the counter,
\* uncounted ones in the image, in front of a jump or in a trampoline by their
\* addresses, because the table knows every jump.
LEMMA QuiescenceSound ==
  ASSUME SessionInv, Table
  PROVE  QuiescenceIsReal
<1> SUFFICES ASSUME image, IsCleanupQuiescent(Threads), NEW t \in Threads
             PROVE  /\ place[t] \notin Instrumented
                    /\ place[t] = "prologue" => bytes[call[t].entry] = Original
  BY DEF QuiescenceIsReal
<1>1. activeCalls = 0 /\ ~InstrumentationAddress(t) BY DEF IsCleanupQuiescent
<1>2. place[t] \notin Counted
  <2>1. Cardinality(CountedThreads) = 0
    BY <1>1, FS_CardinalityType DEF SessionInv, ThreadsTyped
  <2>2. CountedThreads = {} BY <2>1, FS_EmptySet DEF SessionInv, ThreadsTyped
  <2> QED BY <2>2 DEF CountedThreads
<1>3. place[t] \notin InImage BY <1>1 DEF InstrumentationAddress
<1>4. ASSUME place[t] = "prologue" PROVE bytes[call[t].entry] = Original
  <2>1. call[t].entry \in Entries BY <1>4 DEF SessionInv, ThreadsTyped
  <2>2. \A i \in DOMAIN installed : installed[i].entry # call[t].entry
    BY <1>1, <1>4 DEF InstrumentationAddress
  <2> QED BY <2>1, <2>2 DEF Table
<1> QED BY <1>2, <1>3, <1>4 DEF Instrumented

\* IsCleanupQuiescent may be trusted as long as no removal of a hook has failed
\* and none was left behind half installed.
THEOREM QuiescenceWhileSound == Spec => [](Sound => QuiescenceIsReal)
<1>1. SessionInv /\ SoundTable => (Sound => QuiescenceIsReal)
  BY QuiescenceSound DEF SoundTable
<1> QED BY <1>1, SessionInvHolds, TableHolds, PTL

\* None of the calls that take something out of the target fails.
RemovalsReliable == Faults \intersect {"Release", "UnhookOnUnload", "Unhook", "Cleanup"} = {}

LEMMA RemovalsStay ==
  ASSUME RemovalsReliable
  PROVE  Spec => []RemovalsSucceeded
<1>1. Init => RemovalsSucceeded BY DEF Init, RemovalsSucceeded
<1>2. RemovalsSucceeded /\ [Next]_vars => RemovalsSucceeded'
  <2> SUFFICES ASSUME RemovalsSucceeded, [Next]_vars PROVE RemovalsSucceeded' OBVIOUS
  <2> USE DEF RemovalsSucceeded, endVars, targetVars, sessionVars, tableVars
  <2>0. /\ Reached("Unhook", 3) = {3} /\ Reached("UnhookOnUnload", 3) = {3}
        /\ Outcomes("Release") = {TRUE} /\ Outcomes("Cleanup") = {TRUE}
    BY DEF RemovalsReliable, Reached, Outcomes
  <2>1. CASE \E t \in Threads : Thread(t) BY <2>1, ThreadFrame
  <2>2. CASE Iterates BY <2>2, IteratesFrame
  <2>3. CASE HandleCreateProcess \/ HandleBreakpoint \/ HandleExitProcess
    BY <2>3 DEF HandleCreateProcess, HandleBreakpoint, HandleExitProcess
  <2>4. ASSUME NEW b \in Bases, NEW name \in Names, HandleLoadDll(b, name) PROVE RemovalsSucceeded'
    BY <2>4 DEF HandleLoadDll
  <2>5. CASE \E b \in Bases : HandleUnloadDll(b) BY <2>5 DEF HandleUnloadDll
  <2>6. CASE TryInstallPendingHooks
    BY <2>6 DEF TryInstallPendingHooks, SkipsHook, RefusesHook, InstallsHook, InstallEnds
  <2>7. CASE ForgetsHook
    <3>1. Forgets(installed[next], TRUE) BY <2>0, <2>7 DEF ForgetsHook
    <3> QED BY <2>7, <3>1 DEF ForgetsHook, Forgets
  <2>8. CASE KeepsHook \/ UnloadEnds BY <2>8 DEF KeepsHook, UnloadEnds
  <2>9. CASE CleanupRemote
    BY <2>0, <2>9 DEF CleanupRemote, RemovesHook, HooksRemoved, ReleasesRemote
  <2>10. CASE UNCHANGED vars BY <2>10 DEF vars
  <2>11. CASE \E b \in Bases, name \in Names : HandleUnnamedDll(b, name) BY <2>11, UnnamedFrame
  <2> QED
    BY <2>1, <2>2, <2>3, <2>4, <2>5, <2>6, <2>7, <2>8, <2>9, <2>10, <2>11
    DEF Next, DebugEvent, Controller, UnloadHooks, Iterates
<1> QED BY <1>1, <1>2, PTL DEF Spec

\* When IsCleanupQuiescent answers yes no thread is in the instrumentation, nor
\* about to be led into it, although the counter misses the first and the last
\* instructions of a handler and the scan sees no call stacks.
THEOREM QuiescenceIsRealHolds ==
  ASSUME RemovalsReliable, InstallsCleanly
  PROVE  Spec => []QuiescenceIsReal
<1>1. RemovalsSucceeded => Sound BY DEF Sound
<1> QED BY <1>1, RemovalsStay, QuiescenceWhileSound, PTL

\* Only a breakpoint at which everything is quiet makes the stop a clean one.
LEMMA IntoClean ==
  ASSUME "Snapshot" \notin Faults, [Next]_vars, ending # "clean", ending' = "clean"
  PROVE  HandleBreakpoint /\ IsCleanupQuiescent(Threads)
<1> USE DEF tableVars, stopVars, loopVars, endVars, targetVars, sessionVars, Fails, Then
<1>1. CASE \E t \in Threads : Thread(t) BY <1>1, ThreadFrame
<1>2. CASE Iterates BY <1>2, IteratesFrame
<1>3. CASE HandleCreateProcess \/ HandleExitProcess
  BY <1>3 DEF HandleCreateProcess, HandleExitProcess
<1>4. ASSUME NEW b \in Bases, NEW name \in Names, HandleLoadDll(b, name) PROVE FALSE
  BY <1>4 DEF HandleLoadDll, ConfigureTransport
<1>5. CASE \E b \in Bases : HandleUnloadDll(b) BY <1>5 DEF HandleUnloadDll
<1>6. CASE TryInstallPendingHooks
  BY <1>6 DEF TryInstallPendingHooks, SkipsHook, RefusesHook, InstallsHook, InstallEnds
<1>7. CASE UnloadHooks BY <1>7 DEF UnloadHooks, KeepsHook, ForgetsHook, UnloadEnds
<1>8. CASE CleanupRemote BY <1>8 DEF CleanupRemote, RemovesHook, HooksRemoved, ReleasesRemote
<1>9. CASE HandleBreakpoint BY <1>9 DEF HandleBreakpoint
<1>10. CASE UNCHANGED vars BY <1>10 DEF vars
<1>11. CASE \E b \in Bases, name \in Names : HandleUnnamedDll(b, name) BY <1>11, UnnamedFrame
<1> QED
  BY <1>1, <1>2, <1>3, <1>4, <1>5, <1>6, <1>7, <1>8, <1>9, <1>10, <1>11
  DEF Next, DebugEvent, Controller, Iterates

\* From the quiet breakpoint on no thread is in the instrumentation and none is
\* led there.
ThreadsOut ==
  ending = "clean" /\ RemovalsSucceeded =>
    \A t \in Threads :
      /\ place[t] \notin Instrumented
      /\ place[t] = "prologue" => bytes[call[t].entry] = Original

LEMMA ThreadsOutStep ==
  ASSUME "Snapshot" \notin Faults, SessionInv, SoundTable, ThreadsOut, [Next]_vars
  PROVE  ThreadsOut'
<1> SUFFICES ASSUME ending' = "clean", RemovalsSucceeded', NEW t \in Threads
             PROVE  /\ place'[t] \notin Instrumented
                    /\ place'[t] = "prologue" => bytes'[call'[t].entry] = Original
  BY DEF ThreadsOut
<1>1. Sound /\ Table /\ RemovalsSucceeded
  BY FailuresStickStep DEF FailuresStick, Sound, SoundTable, RemovalsSucceeded
<1>2. CASE ending # "clean"
  <2>1. HandleBreakpoint /\ IsCleanupQuiescent(Threads) BY <1>2, IntoClean
  <2>2. UNCHANGED <<bytes, place, call>>
    BY <2>1 DEF HandleBreakpoint, targetVars, memoryVars, threadVars
  <2>3. image BY <2>1 DEF HandleBreakpoint, Waiting, SessionInv, PhaseOrder, MappingOrder
  <2> QED BY <1>1, <2>1, <2>2, <2>3, QuiescenceSound DEF QuiescenceIsReal
<1>3. CASE ending = "clean"
  <2>0. /\ place[t] \notin Instrumented
        /\ place[t] = "prologue" => bytes[call[t].entry] = Original
    BY <1>1, <1>3 DEF ThreadsOut
  <2>1. loop \in {"cleanup", "release", "continue", "detach", "broken", "over"}
    BY <1>3 DEF SessionInv, PhaseOrder
  <2>2. CASE \E u \in Threads : Thread(u)
    <3>1. PICK u \in Threads : Thread(u) BY <2>2
    <3>2. UNCHANGED bytes BY <3>1, ThreadFrame DEF memoryVars
    <3>3. CASE u # t
      <4>1. place'[t] = place[t] /\ call'[t] = call[t]
        BY <3>1, <3>3
        DEF Thread, InHook, Calls, RunsUnhooked, RunsJump, EntersHandler, CallsOriginal,
            RunsTrampoline, Returns, LeavesHandler, ReturnsToCaller, Crashes, Killed, Goes,
            SessionInv, ThreadsTyped
      <4> QED BY <2>0, <3>2, <4>1
    <3>4. CASE u = t
      <4>1. TargetRuns
        BY <3>1
        DEF Thread, InHook, Calls, RunsUnhooked, RunsJump, EntersHandler, CallsOriginal,
            RunsTrampoline, Returns, LeavesHandler, ReturnsToCaller, Crashes, Killed, At
      <4>2. \A e \in Entries : bytes[e] = Original
        BY <1>1, <1>3, <2>1, <4>1, OverPristine DEF TargetRuns, Frozen, Pristine
      <4>3. place'[t] \in {"outside", "prologue", "lost", "dead"}
        BY <2>0, <3>1, <3>4, <4>2
        DEF Thread, InHook, Calls, RunsUnhooked, RunsJump, EntersHandler, CallsOriginal,
            RunsTrampoline, Returns, LeavesHandler, ReturnsToCaller, Crashes, Killed, Goes, At,
            SessionInv, ThreadsTyped, Instrumented, InImage, Counted
      <4>4. ThreadsTyped' BY SessionInvStep DEF SessionInv
      <4>5. place'[t] = "prologue" => call'[t].entry \in Entries BY <4>4 DEF ThreadsTyped
      <4> QED BY <3>2, <4>2, <4>3, <4>5 DEF Instrumented, InImage, Counted
    <3> QED BY <3>3, <3>4
  <2>3. CASE ~\E u \in Threads : Thread(u)
    <3>1. /\ ~HandleExitProcess /\ ~InstallsHook /\ ~RefusesHook /\ ~ForgetsHook /\ ~UnloadEnds
          /\ ~\E b \in Bases, name \in Names : HandleLoadDll(b, name)
          /\ ~\E b \in Bases, name \in Names : HandleUnnamedDll(b, name)
          /\ ~\E b \in Bases : HandleUnloadDll(b)
      BY <2>1 DEF HandleExitProcess, InstallsHook, RefusesHook, ForgetsHook, UnloadEnds, HandleLoadDll,
                  HandleUnnamedDll, LoadReported, HandleUnloadDll, Waiting, Installing, Unloading
    <3>2. call' = call /\ (place'[t] = place[t] \/ place'[t] = "lost")
      BY <2>3, <3>1, ControllerThreads DEF Rewrite, threadVars
    <3>3. \A e \in Entries : bytes'[e] = bytes[e] \/ bytes'[e] = Original
      <4>1. CASE Idles BY <4>1, IdlesFrame DEF tableMemory
      <4>2. CASE RemovesHook
        <5>1. installed \in Seq(InstalledHook) /\ installed # <<>>
          BY <4>2 DEF RemovesHook, SessionInv, MemoryTyped
        <5>2. PICK n \in DOMAIN installed : Last(installed) = installed[n] BY <5>1, FrontWithout
        <5>3. PICK k \in InstalledHook : k = installed[n] BY <5>1, ElementTyped
        <5>4. k.saved = Original BY <1>1, <5>3 DEF Table, Leads
        <5>5. bytes' = bytes \/ bytes' = [bytes EXCEPT ![k.entry] = Original]
          BY <4>2, <5>2, <5>3, <5>4 DEF RemovesHook, UnhookFunction, Rewrite
        <5> QED BY <5>5 DEF SessionInv, MemoryTyped
      <4> QED BY <3>1, <4>1, <4>2, StepKinds
    <3>4. place[t] = "prologue" => call[t].entry \in Entries BY DEF SessionInv, ThreadsTyped
    <3> QED BY <2>0, <3>2, <3>3, <3>4 DEF Instrumented, InImage, Counted
  <2> QED BY <2>2, <2>3
<1> QED BY <1>2, <1>3

\* What README.md promises of Ctrl+C: a stop that ends without a complaint has
\* restored every export, released everything, detached as far as the system
\* lets it, and left no thread in the instrumentation, if the list of threads
\* could be read to its end.
THEOREM CleanStopRestoresHolds ==
  ASSUME "Snapshot" \notin Faults
  PROVE  Spec => []CleanStopRestores
<1>1. Init => ThreadsOut BY DEF Init, ThreadsOut
<1>2. SessionInv /\ SoundTable /\ ThreadsOut /\ EndsDetached => CleanStopRestores
  <2> SUFFICES ASSUME SessionInv, SoundTable, ThreadsOut, EndsDetached,
                      loop = "over", ending = "clean", RemovalsSucceeded
               PROVE  Pristine /\ detached # "no" /\ \A t \in Threads : place[t] \notin Instrumented
    BY DEF CleanStopRestores
  <2>1. Pristine BY OverPristine DEF Sound
  <2>2. ~killOnExit BY DEF SessionInv, PhaseOrder
  <2>3. detached # "no" BY <2>2 DEF EndsDetached
  <2> QED BY <2>1, <2>3 DEF ThreadsOut
<1>3. SessionInv /\ SoundTable /\ ThreadsOut /\ [Next]_vars => ThreadsOut' BY ThreadsOutStep
<1> QED
  BY <1>1, <1>2, <1>3, SessionInvHolds, TableHolds, EndsDetachedHolds, PTL DEF Spec

-----------------------------------------------------------------------------
(* Modules and the hooks resolved through them.                            *)

\* modules_ has one record for each module the target has loaded under the
\* debugger's eyes, except that the one being unloaded is forgotten last.
ModuleRecords ==
  /\ \A i, j \in DOMAIN modules : modules[i].base = modules[j].base => i = j
  /\ \A i \in DOMAIN modules :
       (loop = "unload" /\ modules[i].base = subject) \/ loaded[modules[i].base] = modules[i].name
\* A hook's two modules are loaded, unless the hook is about to be forgotten.
Backed(k) ==
  /\ (loop = "unload" /\ k.source = subject) \/ loaded[k.source] = Source[k.hook]
  /\ (loop = "unload" /\ k.target = subject) \/ loaded[k.target] = Home[k.hook]
HooksBacked == \A i \in DOMAIN installed : Backed(installed[i])
ModuleOrder == ModuleRecords /\ HooksBacked

\* FindModule answers with the base of a loaded module of that name.
LEMMA FindModuleLoaded ==
  ASSUME SessionInv, ModuleRecords, loop # "unload", NEW name, FindModule(name) # Null
  PROVE  loaded[FindModule(name)] = name
<1>1. PICK i \in DOMAIN modules : FindModule(name) = modules[i].base /\ modules[i].name = name
  BY FindModuleNewest DEF SessionInv, MemoryTyped
<1> QED BY <1>1 DEF ModuleRecords

\* A module that comes takes none away.
LEMMA BackedStays ==
  ASSUME SessionInv, HooksBacked, loop # "unload", loop' # "unload", UNCHANGED installed,
         NEW b \in Bases, NEW name, loaded' = [loaded EXCEPT ![b] = name], loaded[b] \in {Null, name}
  PROVE  HooksBacked'
<1> SUFFICES ASSUME NEW i \in DOMAIN installed PROVE Backed(installed[i])'
  BY DEF HooksBacked
<1>1. PICK k \in InstalledHook : k = installed[i]
  BY ElementTyped DEF SessionInv, MemoryTyped
<1>2. loaded[k.source] = Source[k.hook] /\ loaded[k.target] = Home[k.hook]
  BY <1>1 DEF HooksBacked, Backed
<1>3. k.source \in Bases /\ k.target \in Bases /\ k.hook \in Hooks BY DEF InstalledHook
<1>4. Source[k.hook] # Null /\ Home[k.hook] # Null
  BY <1>3, ModulesAssumption, NullAssumption
<1>5. loaded'[k.source] = Source[k.hook] /\ loaded'[k.target] = Home[k.hook]
  BY <1>2, <1>3, <1>4 DEF SessionInv, MemoryTyped
<1> QED BY <1>1, <1>5 DEF Backed

LEMMA UnnamedModules ==
  ASSUME SessionInv, ModuleOrder, NEW b \in Bases, NEW name \in Names, HandleUnnamedDll(b, name)
  PROVE  ModuleOrder'
<1>1. /\ \A i \in DOMAIN modules : modules[i].base # b
      /\ loaded[b] \in {Null, name} /\ loaded' = [loaded EXCEPT ![b] = name]
      /\ loop = "wait" /\ loop' = "continue" /\ UNCHANGED <<modules, installed>>
  BY UnnamedFrame
<1>2. \A i \in DOMAIN modules : modules[i] \in [base : Bases, name : Names]
  BY ElementTyped DEF SessionInv, MemoryTyped, ModulesTyped
<1>3. \A i \in DOMAIN modules : loaded'[modules[i].base] = loaded[modules[i].base]
  BY <1>1, <1>2 DEF SessionInv, MemoryTyped
<1>4. ModuleRecords' BY <1>1, <1>3 DEF ModuleOrder, ModuleRecords
<1>5. HooksBacked' BY <1>1, BackedStays DEF ModuleOrder
<1> QED BY <1>4, <1>5 DEF ModuleOrder

LEMMA LoadModules ==
  ASSUME SessionInv, ModuleOrder, NEW b \in Bases, NEW name \in Names, HandleLoadDll(b, name)
  PROVE  ModuleOrder'
<1>1. /\ \A i \in DOMAIN modules : modules[i].base # b
      /\ loaded[b] \in {Null, name}
      /\ loaded' = [loaded EXCEPT ![b] = name]
      /\ modules' = Append(modules, [base |-> b, name |-> name])
      /\ UNCHANGED installed
  BY DEF HandleLoadDll, LoadReported
<1>2. loop = "wait" /\ loop' # "unload"
  BY DEF HandleLoadDll, LoadReported, Waiting, Then, Fails, ConfigureTransport
<1>3. modules \in Seq([base : Bases, name : Names]) /\ loaded \in [Bases -> Names \union {Null}]
  BY DEF SessionInv, MemoryTyped, ModulesTyped
<1>4. \A i \in DOMAIN modules : modules[i] \in [base : Bases, name : Names] BY <1>3, ElementTyped
<1>5. /\ DOMAIN modules' = DOMAIN modules \union {Len(modules) + 1}
      /\ Len(modules) + 1 \notin DOMAIN modules
      /\ modules'[Len(modules) + 1] = [base |-> b, name |-> name]
      /\ \A i \in DOMAIN modules : modules'[i] = modules[i]
  BY <1>1, <1>3
<1>6. ModuleRecords'
  <2>1. \A i, j \in DOMAIN modules' : modules'[i].base = modules'[j].base => i = j
    BY <1>1, <1>5 DEF ModuleOrder, ModuleRecords
  <2>2. \A i \in DOMAIN modules' : loaded'[modules'[i].base] = modules'[i].name
    <3> TAKE i \in DOMAIN modules'
    <3>1. CASE i \in DOMAIN modules
      <4>1. loaded[modules[i].base] = modules[i].name BY <1>2, <3>1 DEF ModuleOrder, ModuleRecords
      <4>2. modules[i].base \in Bases /\ modules[i].base # b BY <1>1, <1>4, <3>1
      <4> QED BY <1>1, <1>3, <1>5, <3>1, <4>1, <4>2
    <3>2. CASE i = Len(modules) + 1 BY <1>1, <1>3, <1>5, <3>2
    <3> QED BY <1>5, <3>1, <3>2
  <2> QED BY <2>1, <2>2 DEF ModuleRecords
<1>7. HooksBacked' BY <1>1, <1>2, BackedStays DEF ModuleOrder
<1> QED BY <1>6, <1>7 DEF ModuleOrder

LEMMA UnloadModules ==
  ASSUME SessionInv, ModuleOrder, NEW b \in Bases, HandleUnloadDll(b)
  PROVE  ModuleOrder'
<1>1. /\ loaded' = [loaded EXCEPT ![b] = Null]
      /\ loop = "wait" /\ loop' = "unload" /\ subject' = b
      /\ UNCHANGED <<modules, installed>>
  BY DEF HandleUnloadDll, Waiting, Then, tableVars
<1>2. \A a \in Bases : a # b => loaded'[a] = loaded[a]
  BY <1>1 DEF SessionInv, MemoryTyped
<1>3. \A i \in DOMAIN modules : modules[i] \in [base : Bases, name : Names]
  BY ElementTyped DEF SessionInv, MemoryTyped, ModulesTyped
<1>4. \A i \in DOMAIN installed : installed[i] \in InstalledHook
  BY ElementTyped DEF SessionInv, MemoryTyped
<1>5. ModuleRecords' BY <1>1, <1>2, <1>3 DEF ModuleOrder, ModuleRecords
<1>6. HooksBacked'
  <2> SUFFICES ASSUME NEW i \in DOMAIN installed PROVE Backed(installed[i])'
    BY <1>1 DEF HooksBacked
  <2>1. installed[i].source \in Bases /\ installed[i].target \in Bases
    BY <1>4 DEF InstalledHook
  <2> QED BY <1>1, <1>2, <2>1 DEF ModuleOrder, HooksBacked, Backed
<1> QED BY <1>5, <1>6 DEF ModuleOrder

LEMMA InstallModules ==
  ASSUME SessionInv, ModuleOrder, InstallsHook
  PROVE  ModuleOrder'
<1>1. PICK m \in Free :
        \/ installed' = Append(installed, Resolved(Definitions[next], m))
        \/ UNCHANGED installed
  BY DEF InstallsHook
<1>2. /\ loop = "install" /\ loop' # "unload" /\ UNCHANGED <<loaded, modules>>
      /\ Installing /\ Ready(Definitions[next])
  BY DEF InstallsHook, Installing, Fails, Then
<1>3. Definitions[next] \in Hooks /\ Resolved(Definitions[next], m) \in InstalledHook
  BY <1>2, InstallsTyped DEF SessionInv, LoopTyped
<1>4. PICK k \in InstalledHook, h \in Hooks : k = Resolved(h, m) /\ h = Definitions[next]
  BY <1>3
<1>5. FindModule(Source[h]) # Null /\ FindModule(Home[h]) # Null
  BY <1>2, <1>4 DEF Ready, Pending
<1>6. k.source = FindModule(Source[h]) /\ k.target = FindModule(Home[h]) /\ k.hook = h
  BY <1>4 DEF Resolved
<1>7. loaded[k.source] = Source[k.hook] /\ loaded[k.target] = Home[k.hook]
  BY <1>2, <1>5, <1>6, FindModuleLoaded DEF ModuleOrder
<1>8. ModuleRecords' BY <1>2 DEF ModuleOrder, ModuleRecords
<1>9. installed \in Seq(InstalledHook) BY DEF SessionInv, MemoryTyped
<1>10. \A i \in DOMAIN installed' :
         (i \in DOMAIN installed /\ installed'[i] = installed[i]) \/ installed'[i] = k
  BY <1>1, <1>4, <1>9
<1>11. HooksBacked'
  <2> SUFFICES ASSUME NEW i \in DOMAIN installed' PROVE Backed(installed[i])'
    BY DEF HooksBacked
  <2>1. CASE i \in DOMAIN installed /\ installed'[i] = installed[i]
    BY <1>2, <2>1 DEF ModuleOrder, HooksBacked, Backed
  <2>2. CASE installed'[i] = k BY <1>2, <1>7, <2>2 DEF Backed
  <2> QED BY <1>10, <2>1, <2>2
<1> QED BY <1>8, <1>11 DEF ModuleOrder

LEMMA ForgetModules ==
  ASSUME SessionInv, ModuleOrder, ForgetsHook \/ RemovesHook
  PROVE  ModuleOrder'
<1>1. UNCHANGED <<loaded, modules, loop, subject>>
  BY DEF ForgetsHook, RemovesHook, loopVars
<1>2. installed \in Seq(InstalledHook) BY DEF SessionInv, MemoryTyped
<1>3. PICK n \in DOMAIN installed : Without(installed', installed, n)
  <2>1. CASE ForgetsHook
    <3>1. next \in DOMAIN installed /\ installed' = RemoveAt(installed, next)
      BY <1>2, <2>1 DEF ForgetsHook, Unloading, SessionInv, LoopTyped
    <3> QED BY <1>2, <3>1, RemoveAtWithout
  <2>2. CASE RemovesHook
    <3>1. installed # <<>> /\ installed' = Front(installed) BY <2>2 DEF RemovesHook
    <3> QED BY <1>2, <3>1, FrontWithout
  <2> QED BY <2>1, <2>2
<1>4. \A i \in DOMAIN installed' : \E j \in DOMAIN installed : installed'[i] = installed[j]
  BY <1>2, <1>3, WithoutFrom
<1>5. ModuleRecords' BY <1>1 DEF ModuleOrder, ModuleRecords
<1>6. HooksBacked' BY <1>1, <1>4 DEF ModuleOrder, HooksBacked, Backed
<1> QED BY <1>5, <1>6 DEF ModuleOrder

LEMMA EndModules ==
  ASSUME SessionInv, ModuleOrder, UnloadProgress, UnloadEnds
  PROVE  ModuleOrder'
<1>1. /\ loop = "unload" /\ loop' = "continue" /\ next > Len(installed)
      /\ UNCHANGED <<loaded, installed>>
  BY DEF UnloadEnds, Then, targetVars
<1>2. modules \in Seq([base : Bases, name : Names]) BY DEF SessionInv, MemoryTyped, ModulesTyped
<1>3. installed \in Seq(InstalledHook) /\ next \in Nat BY DEF SessionInv, MemoryTyped, LoopTyped
<1>4. ASSUME NEW n \in DOMAIN modules, modules[n].base = subject, modules' = RemoveAt(modules, n)
      PROVE  ModuleRecords'
  <2>0. Without(modules', modules, n) BY <1>2, <1>4, RemoveAtWithout
  <2>1. ASSUME NEW i \in DOMAIN modules', NEW j \in DOMAIN modules', i # j
        PROVE  modules'[i].base # modules'[j].base
    <3>1. PICK a, c \in DOMAIN modules : a # c /\ modules'[i] = modules[a] /\ modules'[j] = modules[c]
      BY <1>2, <2>0, <2>1, WithoutApart
    <3> QED BY <3>1 DEF ModuleOrder, ModuleRecords
  <2>2. ASSUME NEW i \in DOMAIN modules' PROVE loaded[modules'[i].base] = modules'[i].name
    <3>1. PICK j \in DOMAIN modules : j # n /\ modules'[i] = modules[j]
      BY <1>2, <2>0, WithoutFrom
    <3>2. modules[j].base # subject BY <1>4, <3>1 DEF ModuleOrder, ModuleRecords
    <3> QED BY <3>1, <3>2 DEF ModuleOrder, ModuleRecords
  <2> QED BY <1>1, <2>1, <2>2 DEF ModuleRecords
<1>5. ASSUME \A i \in DOMAIN modules : modules[i].base # subject, UNCHANGED modules
      PROVE  ModuleRecords'
  BY <1>1, <1>5 DEF ModuleOrder, ModuleRecords
<1>6. ModuleRecords' BY <1>4, <1>5 DEF UnloadEnds
<1>7. HooksBacked'
  <2> SUFFICES ASSUME NEW i \in DOMAIN installed PROVE Backed(installed[i])'
    BY <1>1 DEF HooksBacked
  <2>1. i < next BY <1>1, <1>3
  <2>2. installed[i].target # subject /\ installed[i].source # subject
    BY <1>1, <2>1 DEF UnloadProgress
  <2> QED BY <1>1, <2>2 DEF ModuleOrder, HooksBacked, Backed
<1> QED BY <1>6, <1>7 DEF ModuleOrder

LEMMA ModuleOrderStep ==
  ASSUME SessionInv, UnloadProgress, ModuleOrder, [Next]_vars
  PROVE  ModuleOrder'
<1>1. CASE Idles
  <2>1. UNCHANGED <<loaded, modules, installed>> BY <1>1, IdlesFrame DEF tableMemory
  <2>2. (loop' = "unload" <=> loop = "unload") /\ (loop = "unload" => subject' = subject)
    BY <1>1, IdlesLoop
  <2> QED BY <2>1, <2>2 DEF ModuleOrder, ModuleRecords, HooksBacked, Backed
<1>2. CASE \E b \in Bases, name \in Names : HandleLoadDll(b, name) BY <1>2, LoadModules
<1>3. CASE \E b \in Bases : HandleUnloadDll(b) BY <1>3, UnloadModules
<1>4. CASE InstallsHook BY <1>4, InstallModules
<1>5. CASE ForgetsHook \/ RemovesHook BY <1>5, ForgetModules
<1>6. CASE UnloadEnds BY <1>6, EndModules
<1>7. CASE \E b \in Bases, name \in Names : HandleUnnamedDll(b, name) BY <1>7, UnnamedModules
<1>8. CASE RefusesHook
  BY <1>8, RefusesFrame DEF ModuleOrder, ModuleRecords, HooksBacked, Backed
<1> QED BY <1>1, <1>2, <1>3, <1>4, <1>5, <1>6, <1>7, <1>8, StepKinds

\* No hook outlives a module it was resolved through: HandleUnloadDll finds
\* every hook of the module although it erases from the vector it walks, and
\* with two modules of one name FindModule's answer is a loaded one.
THEOREM HooksFollowModulesHolds == Spec => []HooksFollowModules
<1>1. Init => ModuleOrder
  BY DEF Init, ModuleOrder, ModuleRecords, HooksBacked
<1>2. ModuleOrder => HooksFollowModules
  BY DEF ModuleOrder, HooksBacked, Backed, HooksFollowModules
<1> QED BY <1>1, <1>2, ModuleOrderStep, SessionInvHolds, TableHolds, PTL DEF Spec

-----------------------------------------------------------------------------
(* The target's threads: for a target that was started (not attached to),  *)
(* has no two modules of one name and none that cannot be identified, and  *)
(* is hooked at functions of the modules the hooks name, no thread ever    *)
(* runs into code that was freed, cleared or rewritten under it.           *)

\* What the theorem is about: excluded are the unfriendly situations and the
\* forwarded hooks for which the code does not keep threads safe, and a list of
\* threads that cannot be read to its end.
Undisturbed ==
  Faults \intersect {"Attach", "SameName", "Unnamed", "Snapshot"} = {} /\ Source = Home

-----------------------------------------------------------------------------
(* Steps.                                                                  *)

\* What never comes back.
EndsStick == (ending' = "none" => ending = "none") /\ (trace' = "off" => trace = "off")

LEMMA EndsStickStep ==
  ASSUME SessionInv, [Next]_vars
  PROVE  EndsStick
<1> USE DEF EndsStick, tableVars, stopVars, loopVars, endVars, targetVars, sessionVars, Waiting,
            Then, Fails
<1>0. loop \in {"top", "wait", "install", "unload"} => ending = "none"
  BY DEF SessionInv, PhaseOrder
<1>1. CASE \E t \in Threads : Thread(t) BY <1>1, ThreadFrame
<1>2. CASE Iterates
  <2>1. UNCHANGED ending BY <1>2, IteratesFrame
  <2>2. CASE BreaksIn \/ RetriesStop BY <2>1, <2>2 DEF BreaksIn, RetriesStop
  <2>3. CASE Waits \/ TimesOut \/ WaitFails \/ ContinuesTarget \/ Detaches \/ StopKey
    BY <2>1, <2>3 DEF Waits, TimesOut, WaitFails, ContinuesTarget, Detaches, StopKey
  <2>4. CASE BreaksOff BY <2>1, <2>4 DEF BreaksOff
  <2> QED BY <1>2, <2>2, <2>3, <2>4 DEF Iterates
<1>3. CASE HandleCreateProcess \/ HandleBreakpoint \/ HandleExitProcess
  BY <1>0, <1>3 DEF HandleCreateProcess, HandleBreakpoint, HandleExitProcess
<1>4. ASSUME NEW b \in Bases, NEW name \in Names, HandleLoadDll(b, name) PROVE EndsStick
  BY <1>0, <1>4 DEF HandleLoadDll, LoadReported
<1>5. CASE \E b \in Bases : HandleUnloadDll(b) BY <1>5 DEF HandleUnloadDll
<1>6. CASE TryInstallPendingHooks
  BY <1>0, <1>6
  DEF TryInstallPendingHooks, SkipsHook, RefusesHook, InstallsHook, InstallEnds, Installing
<1>7. CASE UnloadHooks BY <1>7 DEF UnloadHooks, KeepsHook, ForgetsHook, UnloadEnds
<1>8. CASE CleanupRemote BY <1>8 DEF CleanupRemote, RemovesHook, HooksRemoved, ReleasesRemote
<1>9. CASE UNCHANGED vars BY <1>9 DEF vars
<1>10. CASE \E b \in Bases, name \in Names : HandleUnnamedDll(b, name) BY <1>10, UnnamedFrame
<1> QED
  BY <1>1, <1>2, <1>3, <1>4, <1>5, <1>6, <1>7, <1>8, <1>9, <1>10
  DEF Next, DebugEvent, Controller, Iterates

LEMMA IdlesTransport ==
  ASSUME Idles
  PROVE  UNCHANGED transportConfigured
<1> USE DEF tableVars, targetVars, sessionVars
<1>1. CASE \E t \in Threads : Thread(t) BY <1>1, ThreadFrame
<1>2. CASE Iterates BY <1>2, IteratesFrame
<1>3. CASE HandleCreateProcess \/ HandleBreakpoint \/ HandleExitProcess
  BY <1>3 DEF HandleCreateProcess, HandleBreakpoint, HandleExitProcess
<1>4. CASE SkipsHook \/ InstallEnds \/ KeepsHook \/ HooksRemoved \/ ReleasesRemote
  BY <1>4 DEF SkipsHook, InstallEnds, KeepsHook, HooksRemoved, ReleasesRemote
<1>5. CASE UNCHANGED vars BY <1>5 DEF vars
<1> QED BY <1>1, <1>2, <1>3, <1>4, <1>5 DEF Idles

\* Only two steps map or unmap the hook image.
LEMMA ImageFrame ==
  ASSUME [Next]_vars, ~HandleCreateProcess, ~ReleasesRemote
  PROVE  UNCHANGED image
<1> USE DEF imageVars, targetVars
<1>1. CASE \E t \in Threads : Thread(t) BY <1>1, ThreadFrame
<1>2. CASE Iterates BY <1>2, IteratesFrame
<1>3. CASE HandleBreakpoint \/ HandleExitProcess
  BY <1>3 DEF HandleBreakpoint, HandleExitProcess
<1>4. CASE \E b \in Bases, name \in Names : HandleLoadDll(b, name) BY <1>4 DEF HandleLoadDll
<1>5. CASE \E b \in Bases : HandleUnloadDll(b) BY <1>5 DEF HandleUnloadDll
<1>6. CASE TryInstallPendingHooks
  BY <1>6 DEF TryInstallPendingHooks, SkipsHook, RefusesHook, InstallsHook, InstallEnds
<1>7. CASE UnloadHooks BY <1>7 DEF UnloadHooks, KeepsHook, ForgetsHook, UnloadEnds
<1>8. CASE RemovesHook \/ HooksRemoved BY <1>8 DEF RemovesHook, HooksRemoved
<1>9. CASE UNCHANGED vars BY <1>9 DEF vars
<1>10. CASE \E b \in Bases, name \in Names : HandleUnnamedDll(b, name) BY <1>10, UnnamedFrame
<1> QED
  BY <1>1, <1>2, <1>3, <1>4, <1>5, <1>6, <1>7, <1>8, <1>9, <1>10
  DEF Next, DebugEvent, Controller, CleanupRemote, Iterates

\* A thread's step leaves the others alone, and a thread gets to a new export
\* only by calling a function of a loaded module.
LEMMA ThreadMoves ==
  ASSUME SessionInv, NEW t \in Threads, Thread(t)
  PROVE  /\ TargetRuns
         /\ \A u \in Threads : u # t => place'[u] = place[u] /\ call'[u] = call[u]
         /\ \/ Calls(t)
            \/ call'[t].entry \in {call[t].entry, Null} /\ place[t] # "outside"
<1> USE DEF Goes, At
<1>1. place \in [Threads -> Places] /\ call \in [Threads -> CallRecord]
  BY DEF SessionInv, ThreadsTyped
<1>2. CASE Calls(t) BY <1>1, <1>2 DEF Calls
<1>3. CASE RunsUnhooked(t) \/ ReturnsToCaller(t)
  BY <1>1, <1>3 DEF RunsUnhooked, ReturnsToCaller, NoCall
<1>4. CASE RunsJump(t) BY <1>1, <1>4 DEF RunsJump, CallRecord
<1>5. CASE CallsOriginal(t) BY <1>1, <1>5 DEF CallsOriginal, CallRecord
<1>6. CASE EntersHandler(t) \/ RunsTrampoline(t) \/ Returns(t) \/ LeavesHandler(t)
  BY <1>1, <1>6 DEF EntersHandler, RunsTrampoline, Returns, LeavesHandler
<1>7. CASE Crashes(t)
  <2>1. TargetRuns /\ call' = call BY <1>7 DEF Crashes
  <2>2. place' = [place EXCEPT ![t] = "lost"] BY <1>7 DEF Crashes
  <2>3. place[t] # "outside" BY <1>7 DEF Crashes, Astray, InImage
  <2> QED BY <1>1, <2>1, <2>2, <2>3
<1>8. CASE Killed(t)
  BY <1>1, <1>8 DEF Killed, NoCall, Instrumented, InImage, Counted
<1> QED BY <1>2, <1>3, <1>4, <1>5, <1>6, <1>7, <1>8 DEF Thread, InHook

-----------------------------------------------------------------------------
(* What the session knows of the modules.                                  *)

\* Until the session is on, nothing is loaded and nobody moves.
Untouched ==
  trace = "off" =>
    /\ \A b \in Bases : loaded[b] = Null
    /\ installed = <<>>
    /\ \A t \in Threads : place[t] = "outside" /\ call[t].entry = Null

\* modules_ has every loaded module, no two of one name; each hook is in the
\* module it names, which is in modules_; and only the transport's absence
\* keeps hooks from being installed.
ModulesKnown ==
  /\ \A b \in Bases : loaded[b] # Null => \E i \in DOMAIN modules : modules[i].base = b
  /\ \A i, j \in DOMAIN modules : modules[i].name = modules[j].name => i = j
  /\ \A i \in DOMAIN installed :
       /\ installed[i].source = installed[i].target
       /\ \E j \in DOMAIN modules : /\ modules[j].base = installed[i].target
                                    /\ modules[j].name = Home[installed[i].hook]
  /\ modules # <<>> /\ ending # "failed" => transportConfigured
  /\ unnamed = {}
  /\ loop = "unload" => loaded[subject] = Null

\* Threads are in functions of loaded modules.
CallsLoaded ==
  \A t \in Threads : call[t].entry # Null => loaded[call[t].entry[1]] # Null

\* While a hook is installed the image it jumps to is there.
HooksMapped == installed # <<>> => image

LEMMA UntouchedStep ==
  ASSUME SessionInv, Untouched, [Next]_vars
  PROVE  Untouched'
<1> SUFFICES ASSUME trace' = "off"
             PROVE  /\ \A b \in Bases : loaded'[b] = Null
                    /\ installed' = <<>>
                    /\ \A t \in Threads : place'[t] = "outside" /\ call'[t].entry = Null
  BY DEF Untouched
<1>1. trace = "off" BY EndsStickStep DEF EndsStick
<1>2. /\ \A b \in Bases : loaded[b] = Null
      /\ installed = <<>>
      /\ \A t \in Threads : place[t] = "outside" /\ call[t].entry = Null
  BY <1>1 DEF Untouched
<1>3. ASSUME NEW t \in Threads, Thread(t) PROVE FALSE
  <2>1. Calls(t) BY <1>2, <1>3, ThreadMoves
  <2>2. PICK b \in Bases, h \in Hooks : loaded[b] = Home[h] BY <2>1 DEF Calls
  <2> QED BY <1>2, <2>2, ModulesAssumption, NullAssumption
<1>4. /\ ~HandleExitProcess /\ ~InstallsHook /\ ~RefusesHook /\ ~ForgetsHook /\ ~UnloadEnds
      /\ ~RemovesHook
      /\ ~\E b \in Bases, name \in Names : HandleLoadDll(b, name)
      /\ ~\E b \in Bases, name \in Names : HandleUnnamedDll(b, name)
      /\ ~\E b \in Bases : HandleUnloadDll(b)
  BY <1>1, <1>2 DEF HandleExitProcess, InstallsHook, RefusesHook, ForgetsHook, UnloadEnds, HandleLoadDll,
              HandleUnnamedDll, LoadReported, HandleUnloadDll, RemovesHook, Installing, Unloading,
              SessionInv, PhaseOrder
<1>5. UNCHANGED <<loaded, installed>>
  <2>1. Idles BY <1>4, StepKinds
  <2> QED BY <2>1, IdlesFrame DEF tableMemory
<1>6. UNCHANGED threadVars \/ (UNCHANGED call /\ \E entry, code : Rewrite(entry, code))
  BY <1>3, <1>4, ControllerThreads
<1>7. \A t \in Threads : place'[t] = "outside" /\ call'[t].entry = Null
  BY <1>2, <1>6 DEF threadVars, Rewrite
<1> QED BY <1>2, <1>5, <1>7

LEMMA CallsLoadedStep ==
  ASSUME SessionInv, CallsLoaded, [Next]_vars
  PROVE  CallsLoaded'
<1> SUFFICES ASSUME NEW t \in Threads, call'[t].entry # Null
             PROVE  loaded'[call'[t].entry[1]] # Null
  BY DEF CallsLoaded
<1>1. CASE \E u \in Threads : Thread(u)
  <2>1. PICK u \in Threads : Thread(u) BY <1>1
  <2>2. loaded' = loaded BY <2>1, ThreadFrame
  <2>3. CASE u = t /\ Calls(t)
    <3>1. PICK b \in Bases, h \in Hooks :
            loaded[b] = Home[h] /\ call' = [call EXCEPT ![t].entry = Entry(b, h)]
      BY <2>3 DEF Calls
    <3>2. call'[t].entry[1] = b BY <3>1 DEF Entry, SessionInv, ThreadsTyped, CallRecord
    <3> QED BY <2>2, <3>1, <3>2, ModulesAssumption, NullAssumption
  <2>4. CASE call'[t].entry \in {call[t].entry, Null} BY <2>2, <2>4 DEF CallsLoaded
  <2> QED BY <2>1, <2>3, <2>4, ThreadMoves
<1>2. CASE ~\E u \in Threads : Thread(u)
  <2>1. call'[t].entry = call[t].entry
    <3>1. UNCHANGED call \/ HandleExitProcess BY <1>2, ControllerThreads DEF threadVars
    <3>2. HandleExitProcess => call'[t].entry = Null BY DEF HandleExitProcess, NoCall
    <3> QED BY <3>1, <3>2
  <2>2. call[t].entry \in Entries /\ loaded[call[t].entry[1]] # Null
    BY <2>1 DEF CallsLoaded, SessionInv, ThreadsTyped, CallRecord
  <2>3. PICK a \in Bases : a = call[t].entry[1] BY <2>2 DEF Entries
  <2>4. CASE UNCHANGED loaded BY <2>1, <2>2, <2>4
  <2>5. ASSUME NEW b \in Bases, NEW name \in Names, HandleLoadDll(b, name)
        PROVE  loaded'[a] # Null
    BY <2>2, <2>3, <2>5, NullAssumption DEF HandleLoadDll, LoadReported, SessionInv, MemoryTyped
  <2>8. ASSUME NEW b \in Bases, NEW name \in Names, HandleUnnamedDll(b, name)
        PROVE  loaded'[a] # Null
    BY <2>2, <2>3, <2>8, UnnamedFrame, NullAssumption DEF SessionInv, MemoryTyped
  <2>6. ASSUME NEW b \in Bases, HandleUnloadDll(b) PROVE loaded'[a] # Null
    <3>1. a # b BY <2>1, <2>3, <2>6 DEF HandleUnloadDll
    <3> QED BY <2>2, <2>3, <2>6, <3>1 DEF HandleUnloadDll, SessionInv, MemoryTyped
  <2>7. UNCHANGED loaded \/ (\E b \in Bases, name \in Names : HandleLoadDll(b, name))
        \/ (\E b \in Bases, name \in Names : HandleUnnamedDll(b, name))
        \/ \E b \in Bases : HandleUnloadDll(b)
    BY StepKinds, IdlesFrame, RefusesFrame
    DEF tableMemory, InstallsHook, ForgetsHook, UnloadEnds, RemovesHook, targetVars
  <2> QED BY <2>1, <2>3, <2>4, <2>5, <2>6, <2>7, <2>8
<1> QED BY <1>1, <1>2

LEMMA HooksMappedStep ==
  ASSUME SessionInv, trace = "off" => installed = <<>>, HooksMapped, [Next]_vars
  PROVE  HooksMapped'
<1> SUFFICES ASSUME installed' # <<>> PROVE image' BY DEF HooksMapped
<1>1. CASE InstallsHook
  BY <1>1 DEF InstallsHook, Installing, imageVars, SessionInv, PhaseOrder, MappingOrder
<1>2. installed \in Seq(InstalledHook) BY DEF SessionInv, MemoryTyped
<1>3. CASE ~InstallsHook
  <2>1. installed # <<>>
    <3>1. CASE Idles BY <3>1, IdlesFrame DEF tableMemory
    <3>2. CASE ForgetsHook BY <3>2 DEF ForgetsHook, Unloading, SessionInv, LoopTyped
    <3>3. CASE RemovesHook BY <3>3 DEF RemovesHook
    <3>4. CASE UnloadEnds \/ (\E b \in Bases, name \in Names : HandleLoadDll(b, name))
               \/ \E b \in Bases : HandleUnloadDll(b)
      BY <3>4 DEF UnloadEnds, HandleLoadDll, HandleUnloadDll, tableVars
    <3>5. CASE RefusesHook \/ \E b \in Bases, name \in Names : HandleUnnamedDll(b, name)
      BY <3>5, RefusesFrame, UnnamedFrame
    <3> QED BY <1>2, <1>3, <3>1, <3>2, <3>3, <3>4, <3>5, StepKinds
  <2>2. image BY <2>1 DEF HooksMapped
  <2>3. ~HandleCreateProcess BY <2>1 DEF HandleCreateProcess
  <2>4. ~ReleasesRemote BY <2>1 DEF ReleasesRemote, SessionInv, PhaseOrder
  <2>5. UNCHANGED image BY <2>3, <2>4, ImageFrame
  <2> QED BY <2>2, <2>5
<1> QED BY <1>1, <1>3

LEMMA LoadKnown ==
  ASSUME Undisturbed, SessionInv, ModuleOrder, ModulesKnown,
         NEW b \in Bases, NEW name \in Names, HandleLoadDll(b, name)
  PROVE  ModulesKnown'
<1>1. /\ loop = "wait" /\ loop' # "unload" /\ loaded[b] \in {Null, name}
      /\ \A i \in DOMAIN modules : modules[i].base # b
      /\ \A a \in Bases : loaded[a] = name => a = b
      /\ loaded' = [loaded EXCEPT ![b] = name]
      /\ modules' = Append(modules, [base |-> b, name |-> name])
      /\ UNCHANGED installed
      /\ modules = <<>> => name = Ntdll
      /\ unnamed' = {}
  BY DEF HandleLoadDll, LoadReported, Waiting, Then, Fails, ConfigureTransport, Undisturbed,
         ModulesKnown
<1>2. modules \in Seq([base : Bases, name : Names]) /\ loaded \in [Bases -> Names \union {Null}]
  BY DEF SessionInv, MemoryTyped, ModulesTyped
<1>3. \A i \in DOMAIN modules : modules[i] \in [base : Bases, name : Names] BY <1>2, ElementTyped
<1>4. /\ DOMAIN modules' = DOMAIN modules \union {Len(modules) + 1}
      /\ Len(modules) + 1 \notin DOMAIN modules
      /\ modules'[Len(modules) + 1] = [base |-> b, name |-> name]
      /\ \A i \in DOMAIN modules : modules'[i] = modules[i]
  BY <1>1, <1>2
<1>5. \A a \in Bases : loaded'[a] # Null => \E i \in DOMAIN modules' : modules'[i].base = a
  <2> TAKE a \in Bases
  <2>1. CASE a = b BY <1>4, <2>1
  <2>2. CASE a # b
    <3>1. loaded'[a] = loaded[a] BY <1>1, <1>2, <2>2
    <3>2. loaded[a] # Null => \E i \in DOMAIN modules : modules[i].base = a BY DEF ModulesKnown
    <3> QED BY <1>4, <3>1, <3>2
  <2> QED BY <2>1, <2>2
<1>6. \A i \in DOMAIN modules : modules[i].name # name
  <2> SUFFICES ASSUME NEW i \in DOMAIN modules, modules[i].name = name PROVE FALSE
    OBVIOUS
  <2>1. loaded[modules[i].base] = name BY <1>1 DEF ModuleOrder, ModuleRecords
  <2>2. modules[i].base \in Bases BY <1>3
  <2> QED BY <1>1, <2>1, <2>2
<1>7. \A i, j \in DOMAIN modules' : modules'[i].name = modules'[j].name => i = j
  BY <1>4, <1>6 DEF ModulesKnown
<1>8. \A i \in DOMAIN installed' :
        /\ installed'[i].source = installed'[i].target
        /\ \E j \in DOMAIN modules' : /\ modules'[j].base = installed'[i].target
                                      /\ modules'[j].name = Home[installed'[i].hook]
  BY <1>1, <1>4 DEF ModulesKnown
<1>9. ending' # "failed" => transportConfigured'
  <2>1. CASE transportConfigured
    BY <2>1 DEF HandleLoadDll, ConfigureTransport
  <2>2. CASE ~transportConfigured
    <3>1. ending # "failed" BY <1>1 DEF SessionInv, PhaseOrder
    <3>2. name = Ntdll BY <1>1, <2>2, <3>1 DEF ModulesKnown
    <3>3. ConfigureTransport BY <2>2, <3>2 DEF HandleLoadDll
    <3> QED BY <3>3 DEF ConfigureTransport, Fails
  <2> QED BY <2>1, <2>2
<1> QED BY <1>1, <1>5, <1>7, <1>8, <1>9 DEF ModulesKnown

LEMMA InstallKnown ==
  ASSUME Undisturbed, SessionInv, ModulesKnown, InstallsHook
  PROVE  ModulesKnown'
<1>1. PICK m \in Free :
        \/ installed' = Append(installed, Resolved(Definitions[next], m))
        \/ UNCHANGED installed
  BY DEF InstallsHook
<1>2. /\ loop = "install" /\ loop' # "unload" /\ Installing /\ Ready(Definitions[next])
      /\ UNCHANGED <<loaded, modules, unnamed, transportConfigured>>
  BY DEF InstallsHook, Installing, Fails, Then
<1>3. Definitions[next] \in Hooks /\ Resolved(Definitions[next], m) \in InstalledHook
  BY <1>2, InstallsTyped DEF SessionInv, LoopTyped
<1>4. PICK k \in InstalledHook, h \in Hooks : k = Resolved(h, m) /\ h = Definitions[next]
  BY <1>3
<1>5. /\ k.source = FindModule(Source[h]) /\ k.target = FindModule(Home[h]) /\ k.hook = h
      /\ FindModule(Home[h]) # Null
  BY <1>2, <1>4 DEF Resolved, Ready, Pending
<1>6. k.source = k.target BY <1>5 DEF Undisturbed
<1>7. \E j \in DOMAIN modules : modules[j].base = k.target /\ modules[j].name = Home[k.hook]
  BY <1>5, FindModuleNewest DEF SessionInv, MemoryTyped
<1>8. installed \in Seq(InstalledHook) BY DEF SessionInv, MemoryTyped
<1>9. \A i \in DOMAIN installed' :
         (i \in DOMAIN installed /\ installed'[i] = installed[i]) \/ installed'[i] = k
  BY <1>1, <1>4, <1>8
<1>10. \A i \in DOMAIN installed' :
         /\ installed'[i].source = installed'[i].target
         /\ \E j \in DOMAIN modules : /\ modules[j].base = installed'[i].target
                                      /\ modules[j].name = Home[installed'[i].hook]
  BY <1>6, <1>7, <1>9 DEF ModulesKnown
<1>11. ending # "failed" BY <1>2 DEF SessionInv, PhaseOrder
<1> QED BY <1>2, <1>10, <1>11 DEF ModulesKnown

LEMMA ForgetKnown ==
  ASSUME SessionInv, ModulesKnown, [Next]_vars, ForgetsHook \/ RemovesHook
  PROVE  ModulesKnown'
<1>1. UNCHANGED <<loaded, modules, unnamed, loop, subject, transportConfigured, ending>>
  BY DEF ForgetsHook, RemovesHook, loopVars
<1>2. installed \in Seq(InstalledHook) BY DEF SessionInv, MemoryTyped
<1>3. PICK n \in DOMAIN installed : Without(installed', installed, n)
  <2>1. CASE ForgetsHook
    <3>1. next \in DOMAIN installed /\ installed' = RemoveAt(installed, next)
      BY <1>2, <2>1 DEF ForgetsHook, Unloading, SessionInv, LoopTyped
    <3> QED BY <1>2, <3>1, RemoveAtWithout
  <2>2. CASE RemovesHook
    <3>1. installed # <<>> /\ installed' = Front(installed) BY <2>2 DEF RemovesHook
    <3> QED BY <1>2, <3>1, FrontWithout
  <2> QED BY <2>1, <2>2
<1>4. \A i \in DOMAIN installed' : \E j \in DOMAIN installed : installed'[i] = installed[j]
  BY <1>2, <1>3, WithoutFrom
<1>5. \A i \in DOMAIN installed' :
        /\ installed'[i].source = installed'[i].target
        /\ \E j \in DOMAIN modules : /\ modules[j].base = installed'[i].target
                                     /\ modules[j].name = Home[installed'[i].hook]
  BY <1>4 DEF ModulesKnown
<1> QED BY <1>1, <1>5 DEF ModulesKnown

LEMMA EndKnown ==
  ASSUME SessionInv, ModuleOrder, ModulesKnown, UnloadProgress, UnloadEnds
  PROVE  ModulesKnown'
<1>1. /\ loop = "unload" /\ loop' = "continue" /\ next > Len(installed)
      /\ UNCHANGED <<loaded, unnamed, installed, transportConfigured, ending>>
  BY DEF UnloadEnds, Then, targetVars, endVars
<1>2. CASE UNCHANGED modules BY <1>1, <1>2 DEF ModulesKnown
<1>3. ASSUME NEW n \in DOMAIN modules, modules[n].base = subject, modules' = RemoveAt(modules, n)
      PROVE  ModulesKnown'
  <2>1. modules \in Seq([base : Bases, name : Names]) BY DEF SessionInv, MemoryTyped, ModulesTyped
  <2>2. Without(modules', modules, n) BY <1>3, <2>1, RemoveAtWithout
  <2>3. \A j \in DOMAIN modules : j # n => \E i \in DOMAIN modules' : modules'[i] = modules[j]
    BY <2>1, <2>2, WithoutFrom
  <2>4. \A a \in Bases : loaded'[a] # Null => \E i \in DOMAIN modules' : modules'[i].base = a
    BY <1>1, <1>3, <2>3 DEF ModulesKnown
  <2>5. \A i, j \in DOMAIN modules' : modules'[i].name = modules'[j].name => i = j
    <3> SUFFICES ASSUME NEW i \in DOMAIN modules', NEW j \in DOMAIN modules', i # j
                 PROVE  modules'[i].name # modules'[j].name
      OBVIOUS
    <3>1. PICK a, c \in DOMAIN modules : a # c /\ modules'[i] = modules[a] /\ modules'[j] = modules[c]
      BY <2>1, <2>2, WithoutApart
    <3> QED BY <3>1 DEF ModulesKnown
  <2>6. \A i \in DOMAIN installed :
          /\ installed[i].source = installed[i].target
          /\ \E j \in DOMAIN modules' : /\ modules'[j].base = installed[i].target
                                        /\ modules'[j].name = Home[installed[i].hook]
    <3> TAKE i \in DOMAIN installed
    <3>1. i < next BY <1>1 DEF SessionInv, MemoryTyped, LoopTyped
    <3>2. installed[i].target # subject BY <1>1, <3>1 DEF UnloadProgress
    <3> QED BY <1>3, <2>3, <3>2 DEF ModulesKnown
  <2>7. modules' # <<>> /\ ending' # "failed" => transportConfigured'
    BY <1>1, <1>3, <2>1 DEF ModulesKnown
  <2> QED BY <1>1, <2>4, <2>5, <2>6, <2>7 DEF ModulesKnown
<1> QED BY <1>2, <1>3 DEF UnloadEnds

LEMMA ModulesKnownStep ==
  ASSUME Undisturbed, SessionInv, ModuleOrder, UnloadProgress, ModulesKnown, [Next]_vars
  PROVE  ModulesKnown'
<1>1. CASE Idles
  <2>1. UNCHANGED <<loaded, modules, unnamed, installed, transportConfigured>>
    BY <1>1, IdlesFrame, IdlesTransport DEF tableMemory
  <2>2. (loop' = "unload" <=> loop = "unload") /\ (loop = "unload" => subject' = subject)
    BY <1>1, IdlesLoop
  <2>3. ending' # "failed" => ending # "failed" BY FailuresStickStep DEF FailuresStick
  <2> QED BY <2>1, <2>2, <2>3 DEF ModulesKnown
<1>2. CASE \E b \in Bases, name \in Names : HandleLoadDll(b, name) BY <1>2, LoadKnown
<1>3. ASSUME NEW b \in Bases, HandleUnloadDll(b) PROVE ModulesKnown'
  <2>1. /\ loaded' = [loaded EXCEPT ![b] = Null] /\ subject' = b
        /\ unnamed' = unnamed \ {b} /\ UNCHANGED <<modules, installed, transportConfigured, ending>>
    BY <1>3 DEF HandleUnloadDll, endVars
  <2>2. loaded'[b] = Null /\ \A a \in Bases : loaded'[a] # Null => loaded[a] # Null
    BY <2>1 DEF SessionInv, MemoryTyped
  <2> QED BY <2>1, <2>2 DEF ModulesKnown
<1>4. CASE InstallsHook BY <1>4, InstallKnown
<1>5. CASE ForgetsHook \/ RemovesHook BY <1>5, ForgetKnown
<1>6. CASE UnloadEnds BY <1>6, EndKnown
<1>7. ASSUME NEW b \in Bases, NEW name \in Names, HandleUnnamedDll(b, name) PROVE FALSE
  BY <1>7, UnnamedFrame DEF Undisturbed
<1>8. CASE RefusesHook BY <1>8, RefusesFrame DEF ModulesKnown
<1> QED BY <1>1, <1>2, <1>3, <1>4, <1>5, <1>6, <1>7, <1>8, StepKinds

-----------------------------------------------------------------------------
(* Hooks are installed before a module's functions can be called.          *)

\* A hook that could be installed is one of the module that was loaded just
\* now, which no thread can have called, or of the module that is going.
Settled ==
  ending = "none" =>
    \A h \in Hooks : Ready(h) =>
      \/ /\ loop = "install"
         /\ \A t \in Threads : call[t].entry # Null => call[t].entry[1] # FindModule(Home[h])
      \/ loop = "unload" /\ FindModule(Home[h]) = subject

\* With one module of a name, FindModule answers with it.
LEMMA FindModuleIs ==
  ASSUME SessionInv, ModulesKnown, NEW i \in DOMAIN modules
  PROVE  FindModule(modules[i].name) = modules[i].base
<1>1. modules \in Seq([base : Bases, name : Names]) /\ ModulesTyped
  BY DEF SessionInv, MemoryTyped, ModulesTyped
<1>2. PICK n : n = modules[i].name OBVIOUS
<1> DEFINE I == {j \in 1..Len(modules) : modules[j].name = n}
<1>3. i \in I BY <1>1, <1>2
<1>4. Max(I) \in I
  <2>1. I \subseteq 1..Len(modules) /\ Len(modules) \in Nat BY <1>1
  <2> HIDE DEF I
  <2> QED BY <1>3, <2>1, LastExists
<1>5. Max(I) = i BY <1>1, <1>2, <1>4 DEF ModulesKnown
<1>6. i # 0 BY <1>1
<1>7. FindModule(n) = modules[i].base
  BY <1>3, <1>5, <1>6 DEF FindModule, SelectLastInSeq
<1> QED BY <1>2, <1>7

\* FindModule answers with the module of that name, if there is one.
LookupRight ==
  \A h \in Hooks :
    /\ \A i \in DOMAIN modules :
         modules[i].name = Home[h] => FindModule(Home[h]) = modules[i].base
    /\ FindModule(Home[h]) # Null =>
         \E i \in DOMAIN modules : modules[i].name = Home[h] /\ modules[i].base = FindModule(Home[h])

LEMMA Lookup == SessionInv /\ ModulesKnown => LookupRight
<1> SUFFICES ASSUME SessionInv, ModulesKnown, NEW h \in Hooks
             PROVE  /\ \A i \in DOMAIN modules :
                         modules[i].name = Home[h] => FindModule(Home[h]) = modules[i].base
                    /\ FindModule(Home[h]) # Null =>
                         \E i \in DOMAIN modules :
                           modules[i].name = Home[h] /\ modules[i].base = FindModule(Home[h])
  BY DEF LookupRight
<1>1. ASSUME NEW i \in DOMAIN modules, modules[i].name = Home[h]
      PROVE  FindModule(Home[h]) = modules[i].base
  <2>1. FindModule(modules[i].name) = modules[i].base BY FindModuleIs
  <2> QED BY <1>1, <2>1
<1>2. ASSUME FindModule(Home[h]) # Null
      PROVE  \E i \in DOMAIN modules :
               modules[i].name = Home[h] /\ modules[i].base = FindModule(Home[h])
  <2>1. ModulesTyped BY DEF SessionInv, MemoryTyped
  <2> QED BY <1>2, <2>1, FindModuleNewest
<1> QED BY <1>1, <1>2

LEMMA OutOfInstall ==
  ASSUME [Next]_vars, loop = "install", ending' = "none", ~InstallsHook
  PROVE  /\ loop' = "install" \/ InstallEnds
         /\ UNCHANGED <<call, modules, installed>>
<1> USE DEF threadVars, tableVars, stopVars, endVars, targetVars, sessionVars, Then
<1>1. ASSUME NEW t \in Threads, Thread(t) PROVE FALSE
  BY <1>1
  DEF Thread, InHook, Calls, RunsUnhooked, RunsJump, EntersHandler, CallsOriginal, RunsTrampoline,
      Returns, LeavesHandler, ReturnsToCaller, Crashes, Killed, At, TargetRuns, Frozen
<1>2. CASE Iterates
  BY <1>2 DEF Iterates, BreaksIn, Waits, TimesOut, WaitFails, ContinuesTarget, RetriesStop,
              Detaches, BreaksOff, StopKey, loopVars
<1>3. ~DebugEvent
  BY DEF DebugEvent, HandleCreateProcess, HandleLoadDll, HandleUnnamedDll, LoadReported,
         HandleUnloadDll, HandleBreakpoint, HandleExitProcess, Waiting
<1>4. CASE SkipsHook BY <1>4 DEF SkipsHook
<1>5. ~RefusesHook BY DEF RefusesHook, Fails
<1>6. CASE InstallEnds BY <1>6 DEF InstallEnds
<1>7. ~UnloadHooks BY DEF UnloadHooks, KeepsHook, ForgetsHook, UnloadEnds, Unloading
<1>8. ~CleanupRemote BY DEF CleanupRemote, RemovesHook, HooksRemoved, ReleasesRemote
<1>9. CASE UNCHANGED vars BY <1>9 DEF vars, loopVars
<1> QED
  BY <1>1, <1>2, <1>3, <1>4, <1>5, <1>6, <1>7, <1>8, <1>9
  DEF Next, Controller, TryInstallPendingHooks, Iterates

LEMMA LoadSettled ==
  ASSUME Undisturbed, SessionInv, SessionInv', ModulesKnown, ModulesKnown', CallsLoaded, Settled,
         NEW b \in Bases, NEW name \in Names, HandleLoadDll(b, name)
  PROVE  Settled'
<1> SUFFICES ASSUME ending' = "none", NEW h \in Hooks, Ready(h)'
             PROVE  /\ loop' = "install"
                    /\ \A t \in Threads : call'[t].entry # Null => call'[t].entry[1] # FindModule(Home[h])'
  BY DEF Settled
<1>1. /\ loop = "wait"
      /\ \A i \in DOMAIN modules : modules[i].base # b
      /\ modules' = Append(modules, [base |-> b, name |-> name])
      /\ UNCHANGED <<installed, call>>
  BY DEF HandleLoadDll, LoadReported, Waiting, threadVars
<1>2. modules \in Seq([base : Bases, name : Names])
  BY DEF SessionInv, MemoryTyped, ModulesTyped
<1>3. /\ DOMAIN modules' = DOMAIN modules \union {Len(modules) + 1}
      /\ modules'[Len(modules) + 1] = [base |-> b, name |-> name]
      /\ \A i \in DOMAIN modules : modules'[i] = modules[i]
  BY <1>1, <1>2
<1>4. loop' = "install"
  <2>1. transportConfigured'
    BY <1>3 DEF ModulesKnown
  <2> QED BY <2>1 DEF HandleLoadDll, ConfigureTransport, Then, Fails
<1>5. FindModule(Home[h])' # Null /\ ~IsInstalled(h) BY <1>1 DEF Ready, Pending, IsInstalled
<1>6. LookupRight /\ LookupRight' BY Lookup, PTL
<1>7. PICK i \in DOMAIN modules' :
        modules'[i].name = Home[h] /\ modules'[i].base = FindModule(Home[h])'
  BY <1>5, <1>6 DEF LookupRight
<1>8. i = Len(modules) + 1
  <2> SUFFICES ASSUME i \in DOMAIN modules PROVE FALSE BY <1>3
  <2>1. modules[i].name = Home[h] BY <1>3, <1>7
  <2>2. FindModule(Home[h]) = modules[i].base BY <1>6, <2>1 DEF LookupRight
  <2>3. modules[i].base \in Bases
    <3>1. modules[i] \in [base : Bases, name : Names] BY <1>2, ElementTyped
    <3> QED BY <3>1
  <2>4. Ready(h) BY <1>5, <2>2, <2>3, NullAssumption DEF Ready, Pending, Undisturbed
  <2>5. ending = "none" BY <1>1 DEF SessionInv, PhaseOrder
  <2> QED BY <1>1, <2>4, <2>5 DEF Settled
<1>9. FindModule(Home[h])' = b BY <1>3, <1>7, <1>8
<1>10. ASSUME NEW t \in Threads, call'[t].entry # Null PROVE call'[t].entry[1] # b
  <2>1. call[t].entry \in Entries /\ loaded[call[t].entry[1]] # Null
    BY <1>1, <1>10 DEF CallsLoaded, SessionInv, ThreadsTyped, CallRecord
  <2>2. PICK a \in Bases : a = call[t].entry[1] BY <2>1 DEF Entries
  <2>3. \E j \in DOMAIN modules : modules[j].base = a BY <2>1, <2>2 DEF ModulesKnown
  <2> QED BY <1>1, <2>2, <2>3
<1> QED BY <1>4, <1>9, <1>10

\* The first step with the threads running after a module has come is the end
\* of TryInstallPendingHooks; until then nobody calls anything.
LEMMA IdleSettled ==
  ASSUME Undisturbed, SessionInv, InstallProgress, Settled, Idles, [Next]_vars
  PROVE  Settled'
<1> SUFFICES ASSUME ending' = "none", NEW h \in Hooks, Ready(h)'
             PROVE  \/ /\ loop' = "install"
                       /\ \A t \in Threads :
                            call'[t].entry # Null => call'[t].entry[1] # FindModule(Home[h])'
                    \/ loop' = "unload" /\ FindModule(Home[h])' = subject'
  BY DEF Settled
<1>1. UNCHANGED <<modules, installed>> BY IdlesFrame DEF tableMemory
<1>2. ending = "none" BY EndsStickStep DEF EndsStick
<1>3. Ready(h) /\ FindModule(Home[h])' = FindModule(Home[h])
  BY <1>1, ReadySame, FindModuleSame
<1>4. CASE loop = "unload"
  BY <1>2, <1>3, <1>4, IdlesLoop DEF Settled
<1>5. CASE loop = "install"
  <2>1. ~InstallsHook
    <3> SUFFICES ASSUME InstallsHook PROVE FALSE OBVIOUS
    <3>1. \E k : installed' = Append(installed, k) BY DEF InstallsHook, Fails
    <3>2. installed \in Seq(InstalledHook) BY DEF SessionInv, MemoryTyped
    <3>3. Len(installed') = Len(installed) + 1 /\ Len(installed) \in Nat BY <3>1, <3>2
    <3> QED BY <1>1, <3>3
  <2>2. loop' = "install" /\ UNCHANGED call
    <3> SUFFICES ASSUME InstallEnds PROVE FALSE BY <1>5, <2>1, OutOfInstall
    <3>1. PICK j \in DOMAIN Definitions : h = Definitions[j] BY DEF Hooks
    <3>2. j < next BY <3>1, DefinitionsAssumption DEF InstallEnds, SessionInv, LoopTyped
    <3> QED BY <1>3, <1>5, <3>1, <3>2 DEF InstallProgress
  <2> QED BY <1>2, <1>3, <1>5, <2>2 DEF Settled
<1> QED BY <1>2, <1>3, <1>4, <1>5 DEF Settled

LEMMA SettledStep ==
  ASSUME Undisturbed, SessionInv, SessionInv', ModulesKnown, ModulesKnown', CallsLoaded,
         InstallProgress, ModuleRecords, Settled, [Next]_vars
  PROVE  Settled'
<1>1. CASE Idles BY <1>1, IdleSettled
<1>2. CASE \E b \in Bases, name \in Names : HandleLoadDll(b, name) BY <1>2, LoadSettled
<1>3. CASE ~Idles /\ ~\E b \in Bases, name \in Names : HandleLoadDll(b, name)
  <2> SUFFICES ASSUME ending' = "none", NEW h \in Hooks, Ready(h)'
               PROVE  \/ /\ loop' = "install"
                         /\ \A t \in Threads :
                              call'[t].entry # Null => call'[t].entry[1] # FindModule(Home[h])'
                      \/ loop' = "unload" /\ FindModule(Home[h])' = subject'
    BY DEF Settled
  <2>1. ending = "none" BY EndsStickStep DEF EndsStick
  <2>2. LookupRight /\ LookupRight' BY Lookup, PTL
  <2>3. CASE \E b \in Bases : HandleUnloadDll(b)
    <3>1. UNCHANGED <<modules, installed>> /\ loop = "wait"
      BY <2>3 DEF HandleUnloadDll, tableVars, Waiting
    <3>2. Ready(h) BY <3>1, ReadySame
    <3> QED BY <2>1, <3>1, <3>2 DEF Settled
  <2>4. CASE InstallsHook
    <3>1. \E k : installed' = Append(installed, k) BY <2>4 DEF InstallsHook, Fails
    <3>2. UNCHANGED <<modules, loop, call>> /\ loop = "install"
      BY <2>1, <2>4 DEF InstallsHook, Fails, Installing
    <3>3. installed \in Seq(InstalledHook) BY DEF SessionInv, MemoryTyped
    <3>4. \A i \in DOMAIN installed : i \in DOMAIN installed' /\ installed'[i] = installed[i]
      BY <3>1, <3>3
    <3>5. FindModule(Home[h])' = FindModule(Home[h]) /\ (Pending(h)' <=> Pending(h))
      BY <3>2, FindModuleSame DEF Pending
    <3>6. Ready(h) BY <3>4, <3>5 DEF Ready, IsInstalled
    <3> QED BY <2>1, <3>2, <3>5, <3>6 DEF Settled
  <2>5. CASE ForgetsHook
    <3>1. UNCHANGED <<modules, loop, subject>> /\ loop = "unload"
      BY <2>5 DEF ForgetsHook, Unloading, loopVars
    <3>2. installed \in Seq(InstalledHook) /\ next \in DOMAIN installed
      BY <2>5 DEF SessionInv, MemoryTyped, LoopTyped, ForgetsHook, Unloading
    <3>3. FindModule(Home[h])' = FindModule(Home[h]) /\ (Pending(h)' <=> Pending(h))
      BY <3>1, FindModuleSame DEF Pending
    <3>4. CASE Ready(h) BY <2>1, <3>1, <3>3, <3>4 DEF Settled
    <3>5. CASE ~Ready(h)
      <4>1. PICK i \in DOMAIN installed : installed[i].hook = h BY <3>3, <3>5 DEF Ready, IsInstalled
      <4>2. Without(installed', installed, next)
        BY <2>5, <3>2, RemoveAtWithout DEF ForgetsHook
      <4>3. i = next
        <5> SUFFICES ASSUME i # next PROVE FALSE OBVIOUS
        <5>1. \E j \in DOMAIN installed' : installed'[j] = installed[i]
          BY <3>2, <4>2, WithoutFrom
        <5> QED BY <4>1, <5>1 DEF Ready, IsInstalled
      <4>4. installed[i].target = subject BY <2>5, <4>3 DEF ForgetsHook, ModulesKnown
      <4>5. FindModule(Home[h]) = subject BY <2>2, <4>1, <4>4 DEF ModulesKnown, LookupRight
      <4> QED BY <3>1, <3>3, <4>5
    <3> QED BY <3>4, <3>5
  <2>6. CASE UnloadEnds
    <3>1. loop = "unload" /\ UNCHANGED installed BY <2>6 DEF UnloadEnds
    <3>2. modules \in Seq([base : Bases, name : Names])
      BY DEF SessionInv, MemoryTyped, ModulesTyped
    <3>3. PICK i \in DOMAIN modules' : modules'[i].name = Home[h]
      BY <2>2 DEF LookupRight, Ready, Pending
    <3>4. PICK j \in DOMAIN modules : modules'[i] = modules[j] /\ modules[j].base # subject
      <4>1. ASSUME NEW n \in DOMAIN modules, modules[n].base = subject,
                   modules' = RemoveAt(modules, n)
            PROVE  \E j \in DOMAIN modules : modules'[i] = modules[j] /\ modules[j].base # subject
        <5>1. Without(modules', modules, n) BY <3>2, <4>1, RemoveAtWithout
        <5>2. PICK j \in DOMAIN modules : j # n /\ modules'[i] = modules[j]
          BY <3>2, <5>1, WithoutFrom
        <5>3. modules[j].base # subject BY <4>1, <5>2 DEF ModuleRecords
        <5> QED BY <5>2, <5>3
      <4>2. CASE (\A j \in DOMAIN modules : modules[j].base # subject) /\ UNCHANGED modules
        BY <4>2
      <4> QED BY <2>6, <4>1, <4>2 DEF UnloadEnds
    <3>5. modules[j].name = Home[h] BY <3>3, <3>4
    <3>6. FindModule(Home[h]) = modules[j].base BY <2>2, <3>5 DEF LookupRight
    <3>7. modules[j].base \in Bases
      <4>1. modules[j] \in [base : Bases, name : Names] BY <3>2, ElementTyped
      <4> QED BY <4>1
    <3>8. Ready(h)
      <4>1. ~IsInstalled(h) BY <3>1 DEF Ready, IsInstalled
      <4> QED BY <3>6, <3>7, <4>1, NullAssumption DEF Ready, Pending, Undisturbed
    <3>9. modules[j].base = subject BY <2>1, <3>1, <3>6, <3>8 DEF Settled
    <3> QED BY <3>4, <3>9
  <2>7. CASE RemovesHook BY <2>1, <2>7 DEF RemovesHook, SessionInv, PhaseOrder
  <2>8. ~RefusesHook BY RefusesFrame
  <2>9. ~\E b \in Bases, name \in Names : HandleUnnamedDll(b, name)
    BY UnnamedFrame DEF Undisturbed
  <2> QED BY <1>3, <2>3, <2>4, <2>5, <2>6, <2>7, <2>8, <2>9, StepKinds
<1> QED BY <1>1, <1>2, <1>3

-----------------------------------------------------------------------------
(* No thread is led astray.                                                *)

\* What a thread needs to find where it is.
Safe(t) ==
  /\ place[t] # "lost"
  /\ place[t] \in Instrumented => image
  /\ place[t] \in {"enter", "handler"} => bytes[call[t].entry] = call[t].hook
  /\ place[t] = "trampoline" => trampoline[call[t].trampoline] = <<call[t].entry, Original>>

ThreadSafe == RemovalsSucceeded /\ ending # "failed" => \A t \in Threads : Safe(t)

\* A hook whose jump is in place has its slot and its trampoline.
LEMMA JumpLeads ==
  ASSUME SessionInv, Table, NEW e \in Entries, bytes[e] # Original
  PROVE  /\ installed # <<>>
         /\ slot[bytes[e]] \in Trampolines /\ trampoline[slot[bytes[e]]] = <<e, Original>>
<1>1. PICK i \in DOMAIN installed : installed[i].entry = e BY DEF Table
<1>2. PICK k \in InstalledHook : k = installed[i]
  BY ElementTyped DEF SessionInv, MemoryTyped
<1>3. Leads(k) BY <1>2 DEF Table
<1>4. bytes[e] = k.hook BY <1>1, <1>2, <1>3 DEF Leads
<1>5. slot[bytes[e]] = k.trampoline /\ trampoline[k.trampoline] = <<e, Original>>
  BY <1>1, <1>2, <1>3, <1>4 DEF Leads
<1>6. k.trampoline \in Trampolines BY DEF InstalledHook
<1>7. installed # <<>> BY <1>1
<1> QED BY <1>5, <1>6, <1>7

LEMMA SafeNotAstray ==
  ASSUME SessionInv, Table, NEW t \in Threads, Safe(t)
  PROVE  ~Astray(t)
<1>1. ASSUME place[t] = "handler" PROVE slot[call[t].hook] # Null
  <2>1. call[t].entry \in Entries /\ call[t].hook \in Hooks
    BY <1>1 DEF SessionInv, ThreadsTyped, Instrumented, Counted
  <2>2. bytes[call[t].entry] = call[t].hook BY <1>1 DEF Safe
  <2>3. bytes[call[t].entry] # Original BY <2>1, <2>2, NullAssumption
  <2>4. slot[bytes[call[t].entry]] \in Trampolines BY <2>1, <2>3, JumpLeads
  <2> QED BY <2>2, <2>4, NullAssumption
<1> QED BY <1>1 DEF Astray, Safe, Instrumented

LEMMA ThreadSafeMoves ==
  ASSUME SessionInv, Table, HooksMapped, NEW t \in Threads, Thread(t), Safe(t)
  PROVE  Safe(t)'
<1> USE DEF Goes, At, Safe, Instrumented, InImage, Counted
<1>0. /\ place \in [Threads -> Places] /\ call \in [Threads -> CallRecord]
      /\ UNCHANGED <<bytes, slot, trampoline, image>>
  BY ThreadFrame DEF SessionInv, ThreadsTyped, memoryVars, imageVars
<1>1. CASE Calls(t) BY <1>0, <1>1 DEF Calls
<1>2. CASE RunsUnhooked(t) \/ ReturnsToCaller(t)
  BY <1>0, <1>2 DEF RunsUnhooked, ReturnsToCaller
<1>3. CASE RunsJump(t)
  <2>1. place[t] = "prologue" /\ bytes[call[t].entry] # Original BY <1>3 DEF RunsJump
  <2>2. call[t].entry \in Entries BY <2>1 DEF SessionInv, ThreadsTyped
  <2>3. image BY <2>1, <2>2, JumpLeads DEF HooksMapped
  <2>4. place'[t] = "enter" BY <1>0, <1>3 DEF RunsJump
  <2>5. call'[t].entry = call[t].entry /\ call'[t].hook = bytes[call[t].entry]
    BY <1>0, <1>3 DEF RunsJump, CallRecord
  <2> QED BY <1>0, <2>3, <2>4, <2>5
<1>4. CASE EntersHandler(t) BY <1>0, <1>4 DEF EntersHandler
<1>5. CASE CallsOriginal(t)
  <2>1. place[t] = "handler" BY <1>5 DEF CallsOriginal
  <2>2. call[t].entry \in Entries /\ call[t].hook \in Hooks
    BY <2>1 DEF SessionInv, ThreadsTyped
  <2>3. bytes[call[t].entry] = call[t].hook /\ call[t].hook # Original
    BY <2>1, <2>2, NullAssumption
  <2>4. trampoline[slot[call[t].hook]] = <<call[t].entry, Original>>
    BY <2>2, <2>3, JumpLeads
  <2>5. place'[t] = "trampoline" BY <1>0, <1>5 DEF CallsOriginal
  <2>6. call'[t].entry = call[t].entry /\ call'[t].trampoline = slot[call[t].hook]
    BY <1>0, <1>5 DEF CallsOriginal, CallRecord
  <2> QED BY <1>0, <2>1, <2>4, <2>5, <2>6
<1>6. CASE RunsTrampoline(t) \/ Returns(t) \/ LeavesHandler(t)
  BY <1>0, <1>6 DEF RunsTrampoline, Returns, LeavesHandler
<1>7. ~Crashes(t) BY SafeNotAstray DEF Crashes
<1>8. CASE Killed(t) BY <1>0, <1>8 DEF Killed
<1> QED BY <1>1, <1>2, <1>3, <1>4, <1>5, <1>6, <1>7, <1>8 DEF Thread, InHook

\* Rewriting an export under nobody.
LEMMA RewriteHarmless ==
  ASSUME ThreadsTyped, NEW entry, NEW code, Rewrite(entry, code),
         NEW t \in Threads,
         place[t] = "prologue" => call[t].entry # entry \/ bytes[entry] = code
  PROVE  place'[t] = place[t]
  BY DEF Rewrite

LEMMA IdleSafe ==
  ASSUME SessionInv, Untouched, ThreadsOut, ThreadSafe, RemovalsSucceeded, ending # "failed",
         ending' # "failed", Idles, [Next]_vars, ~\E u \in Threads : Thread(u),
         NEW t \in Threads
  PROVE  Safe(t)'
<1>1. UNCHANGED <<bytes, slot, trampoline>> BY IdlesFrame DEF tableMemory
<1>2. CASE HandleExitProcess
  <2>1. place'[t] = "dead" BY <1>2 DEF HandleExitProcess
  <2> QED BY <2>1 DEF Safe, Instrumented, InImage, Counted
<1>3. CASE ~HandleExitProcess
  <2>1. UNCHANGED call /\ place'[t] = place[t]
    <3>1. CASE UNCHANGED threadVars BY <3>1 DEF threadVars
    <3>2. CASE UNCHANGED call /\ \E entry, code : Rewrite(entry, code)
      <4>1. PICK entry, code : Rewrite(entry, code) BY <3>2
      <4>2. ASSUME place[t] = "prologue", call[t].entry = entry PROVE bytes[entry] = code
        <5>1. entry \in Entries BY <4>2 DEF SessionInv, ThreadsTyped
        <5> QED BY <1>1, <4>1, <5>1 DEF Rewrite, SessionInv, MemoryTyped
      <4> QED BY <3>2, <4>1, <4>2, RewriteHarmless DEF SessionInv
    <3> QED BY <1>3, <3>1, <3>2, ControllerThreads
  <2>2. Safe(t) BY DEF ThreadSafe
  <2>3. place[t] \in Instrumented => image'
    <3>1. CASE HandleCreateProcess
      BY <3>1 DEF HandleCreateProcess, Untouched, Instrumented, InImage, Counted
    <3>2. CASE ReleasesRemote
      BY <3>2 DEF ReleasesRemote, SessionInv, PhaseOrder, ThreadsOut
    <3>3. CASE ~HandleCreateProcess /\ ~ReleasesRemote
      BY <2>2, <3>3, ImageFrame DEF Safe
    <3> QED BY <3>1, <3>2, <3>3
  <2> QED BY <1>1, <2>1, <2>2, <2>3 DEF Safe
<1> QED BY <1>2, <1>3

LEMMA InstallSafe ==
  ASSUME SessionInv, Settled, ThreadSafe, RemovalsSucceeded, ending = "none", ending' # "failed",
         InstallsHook, NEW t \in Threads
  PROVE  Safe(t)'
<1>1. PICK m \in Free, ok \in Outcomes("Patch") :
        /\ HookFunction(Resolved(Definitions[next], m), ok)
        /\ ~ok => ending' = "failed"
  BY DEF InstallsHook, Fails
<1>2. ok = TRUE BY <1>1 DEF Outcomes
<1>3. Installing /\ Ready(Definitions[next]) BY DEF InstallsHook
<1>4. m \in Trampolines /\ trampoline[m] = Null /\ Definitions[next] \in Hooks
      /\ Resolved(Definitions[next], m) \in InstalledHook
  BY <1>3, InstallsTyped DEF SessionInv, LoopTyped, Free
<1>5. PICK k \in InstalledHook, h \in Hooks : k = Resolved(h, m) /\ h = Definitions[next]
  BY <1>4
<1>6. k.trampoline = m /\ k.entry[1] = FindModule(Home[h]) BY <1>5 DEF Resolved, Entry
<1>7. /\ Rewrite(k.entry, k.hook)
      /\ trampoline' = [trampoline EXCEPT ![m] = <<k.entry, k.saved>>]
      /\ UNCHANGED <<call, image>>
  BY <1>1, <1>2, <1>5, <1>6 DEF HookFunction, InstallsHook, imageVars
<1>8. call[t].entry # Null => call[t].entry # k.entry
  <2>1. loop = "install" /\ Ready(h) BY <1>3, <1>5 DEF Installing
  <2>2. call[t].entry # Null => call[t].entry[1] # FindModule(Home[h])
    BY <2>1 DEF Settled
  <2> QED BY <1>6, <2>2
<1>9. place'[t] = place[t]
  <2>1. place[t] = "prologue" => call[t].entry # k.entry
    BY <1>8, NullAssumption DEF SessionInv, ThreadsTyped
  <2> QED BY <1>7, <2>1, RewriteHarmless DEF SessionInv
<1>10. Safe(t) BY DEF ThreadSafe
<1>11. place[t] \in {"enter", "handler"} => bytes'[call[t].entry] = bytes[call[t].entry]
  <2>1. place[t] \in {"enter", "handler"} => call[t].entry \in Entries
    BY DEF SessionInv, ThreadsTyped, Instrumented, InImage, Counted
  <2> QED BY <1>7, <1>8, <2>1, NullAssumption DEF Rewrite, SessionInv, MemoryTyped
<1>12. place[t] = "trampoline" => trampoline'[call[t].trampoline] = trampoline[call[t].trampoline]
  <2> SUFFICES ASSUME place[t] = "trampoline"
               PROVE  trampoline'[call[t].trampoline] = trampoline[call[t].trampoline]
    OBVIOUS
  <2>1. trampoline[call[t].trampoline] = <<call[t].entry, Original>> BY <1>10 DEF Safe
  <2>2. call[t].entry \in Entries BY DEF SessionInv, ThreadsTyped, Instrumented, Counted
  <2>3. <<call[t].entry, Original>> \in Entries \X (Hooks \union {Original}) BY <2>2
  <2>4. call[t].trampoline # m BY <1>4, <2>1, <2>3, NullAssumption
  <2> QED BY <1>7, <2>4 DEF SessionInv, MemoryTyped
<1> QED BY <1>7, <1>9, <1>10, <1>11, <1>12 DEF Safe

LEMMA ForgetSafe ==
  ASSUME SessionInv, Table, ModulesKnown, CallsLoaded, ThreadSafe, RemovalsSucceeded,
         ending # "failed", RemovalsSucceeded', ForgetsHook, NEW t \in Threads
  PROVE  Safe(t)'
<1>1. /\ next \in DOMAIN installed /\ loop = "unload"
      /\ UNCHANGED <<call, image>> /\ installed \in Seq(InstalledHook)
  BY DEF ForgetsHook, Unloading, imageVars, SessionInv, MemoryTyped, LoopTyped
<1>2. PICK n \in DOMAIN installed : n = next BY <1>1
<1>3. PICK k \in InstalledHook : k = installed[n] BY <1>1, <1>2, ElementTyped
<1>4. k.target = subject BY <1>2, <1>3 DEF ForgetsHook, ModulesKnown
<1>5. PICK cleared, freed \in Outcomes("Release") :
        ReleaseUnloadedHook(k, cleared, freed) /\ Forgets(k, cleared /\ freed)
  BY <1>2, <1>3, <1>4 DEF ForgetsHook
<1>6. freed BY <1>5 DEF RemovalsSucceeded, Forgets
<1>7. /\ trampoline' = [trampoline EXCEPT ![k.trampoline] = Null]
      /\ UNCHANGED <<bytes, place>>
  BY <1>5, <1>6 DEF ReleaseUnloadedHook
<1>8. Safe(t) BY DEF ThreadSafe
<1>9. ASSUME place[t] = "trampoline" PROVE call[t].trampoline # k.trampoline
  <2> SUFFICES ASSUME call[t].trampoline = k.trampoline PROVE FALSE OBVIOUS
  <2>1. Leads(k) BY <1>3 DEF Table
  <2>2. call[t].entry = k.entry BY <1>8, <1>9, <2>1 DEF Leads, Safe
  <2>3. call[t].entry[1] = subject BY <1>4, <2>1, <2>2 DEF Leads, Entry
  <2>4. call[t].entry \in Entries BY <1>9 DEF SessionInv, ThreadsTyped, Instrumented, Counted
  <2>5. loaded[call[t].entry[1]] # Null BY <2>4, NullAssumption DEF CallsLoaded
  <2> QED BY <1>1, <2>3, <2>5 DEF ModulesKnown
<1> QED BY <1>1, <1>7, <1>8, <1>9 DEF Safe, SessionInv, MemoryTyped

LEMMA RemoveSafe ==
  ASSUME SessionInv, Table, ThreadsOut, ThreadSafe, RemovalsSucceeded, ending # "failed",
         RemovesHook, NEW t \in Threads
  PROVE  Safe(t)'
<1>1. /\ installed \in Seq(InstalledHook) /\ installed # <<>> /\ ending = "clean"
      /\ UNCHANGED call
  BY DEF RemovesHook, SessionInv, MemoryTyped, PhaseOrder
<1>2. PICK n \in DOMAIN installed : Last(installed) = installed[n] BY <1>1, FrontWithout
<1>3. PICK k \in InstalledHook : k = installed[n] BY <1>1, ElementTyped
<1>4. k.saved = Original BY <1>3 DEF Table, Leads
<1>5. PICK steps : UnhookFunction(k, steps) BY <1>2, <1>3 DEF RemovesHook
<1>6. place[t] \notin Instrumented /\ (place[t] = "prologue" => bytes[call[t].entry] = Original)
  BY <1>1 DEF ThreadsOut
<1>7. place'[t] = place[t]
  <2>1. CASE Rewrite(k.entry, Original)
    BY <1>6, <2>1, RewriteHarmless DEF SessionInv
  <2> QED BY <1>4, <1>5, <2>1 DEF UnhookFunction
<1>8. place[t] # "lost" BY DEF ThreadSafe, Safe
<1> QED BY <1>6, <1>7, <1>8 DEF Safe, Instrumented, InImage, Counted

LEMMA ThreadSafeStep ==
  ASSUME SessionInv, SoundTable, ThreadsOut, Untouched, ModulesKnown, CallsLoaded, HooksMapped,
         Settled, ThreadSafe, [Next]_vars
  PROVE  ThreadSafe'
<1> SUFFICES ASSUME RemovalsSucceeded', ending' # "failed", NEW t \in Threads PROVE Safe(t)'
  BY DEF ThreadSafe
<1>0. RemovalsSucceeded /\ ending # "failed"
  BY FailuresStickStep DEF FailuresStick, RemovalsSucceeded
<1>1. RemovalsSucceeded /\ ending # "failed" /\ Table /\ Safe(t)
  BY <1>0 DEF SoundTable, Sound, ThreadSafe
<1>2. CASE \E u \in Threads : Thread(u)
  <2>1. PICK u \in Threads : Thread(u) BY <1>2
  <2>2. CASE u = t BY <1>1, <2>1, <2>2, ThreadSafeMoves
  <2>3. CASE u # t
    <3>1. place'[t] = place[t] /\ call'[t] = call[t] BY <2>1, <2>3, ThreadMoves
    <3>2. UNCHANGED <<bytes, trampoline, image>> BY <2>1, ThreadFrame DEF memoryVars, imageVars
    <3> QED BY <1>1, <3>1, <3>2 DEF Safe
  <2> QED BY <2>2, <2>3
<1>3. CASE Idles /\ ~\E u \in Threads : Thread(u) BY <1>1, <1>3, IdleSafe
<1>4. CASE \E b \in Bases, name \in Names : HandleLoadDll(b, name)
  <2>1. UNCHANGED <<bytes, trampoline, image, place, call>>
    BY <1>4 DEF HandleLoadDll, memoryVars, threadVars
  <2> QED BY <1>1, <2>1 DEF Safe
<1>5. CASE \E b \in Bases : HandleUnloadDll(b)
  <2>1. PICK b \in Bases : HandleUnloadDll(b) BY <1>5
  <2>2. /\ bytes' = [e \in Entries |-> IF e[1] = b THEN Original ELSE bytes[e]]
        /\ call[t].entry # Null => call[t].entry[1] # b
        /\ UNCHANGED <<trampoline, image, place, call>>
    BY <2>1 DEF HandleUnloadDll, imageVars, threadVars
  <2>3. place[t] \in {"enter", "handler"} => call[t].entry \in Entries
    BY DEF SessionInv, ThreadsTyped, Instrumented, InImage, Counted
  <2>4. place[t] \in {"enter", "handler"} => bytes'[call[t].entry] = bytes[call[t].entry]
    BY <2>2, <2>3, NullAssumption
  <2> QED BY <1>1, <2>2, <2>4 DEF Safe
<1>6. CASE InstallsHook
  <2>1. ending = "none" BY <1>6 DEF InstallsHook, Installing, SessionInv, PhaseOrder
  <2> QED BY <1>1, <1>6, <2>1, InstallSafe
<1>7. CASE ForgetsHook BY <1>1, <1>7, ForgetSafe
<1>8. CASE UnloadEnds
  <2>1. UNCHANGED <<bytes, trampoline, image, place, call>>
    BY <1>8 DEF UnloadEnds, targetVars, memoryVars, imageVars, threadVars
  <2> QED BY <1>1, <2>1 DEF Safe
<1>9. CASE RemovesHook BY <1>1, <1>9, RemoveSafe
<1>10. CASE \E b \in Bases, name \in Names : HandleUnnamedDll(b, name)
  BY <1>1, <1>10, UnnamedFrame DEF Safe
<1>11. ~RefusesHook BY RefusesFrame
<1> QED BY <1>2, <1>3, <1>4, <1>5, <1>6, <1>7, <1>8, <1>9, <1>10, <1>11, StepKinds

LEMMA NothingFound ==
  ASSUME modules = <<>>, NEW name
  PROVE  FindModule(name) = Null
<1>1. {i \in 1..Len(modules) : modules[i].name = name} = {} OBVIOUS
<1> QED BY <1>1 DEF FindModule, SelectLastInSeq

\* The invariant, put together.
Guarded ==
  /\ Untouched /\ ModulesKnown /\ CallsLoaded /\ HooksMapped /\ Settled /\ ThreadSafe

\* However threads, module loads and unloads and a stop interleave, no thread of
\* the target runs code that was freed, cleared or rewritten under it, as long
\* as no removal of a hook failed: patches are written and taken back only where
\* no thread can be.
THEOREM NobodyAstrayWhileCleaned ==
  ASSUME Undisturbed
  PROVE  Spec => [](RemovalsSucceeded => NobodyAstray)
<1> DEFINE Before == SessionInv /\ InstallProgress /\ UnloadProgress /\ SoundTable
           Inv == ThreadsOut /\ ModuleOrder /\ Guarded
<1>1. Init => Inv
  <2> SUFFICES ASSUME Init PROVE Inv OBVIOUS
  <2>1. /\ \A b \in Bases : loaded[b] = Null
        /\ \A t \in Threads : place[t] = "outside" /\ call[t].entry = Null
        /\ modules = <<>> /\ unnamed = {} /\ installed = <<>> /\ loop = "top" /\ ending = "none"
    BY DEF Init, Undisturbed, NoCall
  <2>2. ThreadsOut /\ ModuleOrder
    BY <2>1 DEF ThreadsOut, ModuleOrder, ModuleRecords, HooksBacked
  <2>3. Untouched /\ ModulesKnown /\ CallsLoaded /\ HooksMapped
    BY <2>1 DEF Untouched, ModulesKnown, CallsLoaded, HooksMapped
  <2>4. ThreadSafe BY <2>1 DEF ThreadSafe, Safe, Instrumented, InImage, Counted
  <2>5. Settled
    <3>1. \A h \in Hooks : FindModule(Home[h]) = Null
      BY <2>1, NothingFound
    <3> QED BY <3>1 DEF Settled, Ready, Pending
  <2> QED BY <2>2, <2>3, <2>4, <2>5 DEF Guarded
<1>2. Before /\ Before' /\ Inv /\ [Next]_vars => Inv'
  <2> SUFFICES ASSUME Before, Before', Inv, [Next]_vars PROVE Inv' OBVIOUS
  <2>1. ThreadsOut' BY ThreadsOutStep DEF Undisturbed
  <2>2. ModuleOrder' BY ModuleOrderStep
  <2>3. Untouched' /\ CallsLoaded' BY UntouchedStep, CallsLoadedStep DEF Guarded
  <2>4. ModulesKnown' BY ModulesKnownStep DEF Guarded
  <2>5. HooksMapped' BY HooksMappedStep DEF Guarded, Untouched
  <2>6. Settled' BY <2>4, SettledStep DEF Guarded, ModuleOrder
  <2>7. ThreadSafe' BY ThreadSafeStep DEF Guarded
  <2> QED BY <2>1, <2>2, <2>3, <2>4, <2>5, <2>6, <2>7 DEF Guarded
<1>3. Before /\ Inv => (RemovalsSucceeded => NobodyAstray)
  BY SafeNotAstray DEF Guarded, ThreadSafe, SoundTable, Sound, NobodyAstray
<1> HIDE DEF Inv
<1> QED
  BY <1>1, <1>2, <1>3, SessionInvHolds, InstallProgressHolds, TableHolds, PTL DEF Spec

\* No thread of the target ever runs code that was freed, cleared or rewritten
\* under it, when the calls that remove instrumentation succeed.
THEOREM NobodyAstrayHolds ==
  ASSUME Undisturbed, RemovalsReliable
  PROVE  Spec => []NobodyAstray
  BY NobodyAstrayWhileCleaned, RemovalsStay, PTL

-----------------------------------------------------------------------------
(* The session implements Instrumentation.                                 *)

Inside == {t \in Threads : place[t] \in Instrumented}
Wing == IF image THEN "stands" ELSE IF trace = "off" THEN "planned" ELSE "gone"

\* The image is mapped once, before the first hook is installed, and is there
\* while a hook is.
BuiltFirst ==
  /\ trace = "off" => installed = <<>>
  /\ trace = "off" /\ ending = "none" => ~image
  /\ HooksMapped

LEMMA BuiltFirstStep ==
  ASSUME SessionInv, BuiltFirst, [Next]_vars
  PROVE  BuiltFirst'
<1>1. HooksMapped' BY HooksMappedStep DEF BuiltFirst
<1>2. EndsStick BY EndsStickStep
<1>3. ASSUME trace' = "off" PROVE installed' = <<>>
  <2>1. trace = "off" /\ installed = <<>> BY <1>2, <1>3 DEF EndsStick, BuiltFirst
  <2>2. ~InstallsHook BY <2>1 DEF InstallsHook, Installing, SessionInv, PhaseOrder
  <2>3. ~ForgetsHook /\ ~RemovesHook
    BY <2>1 DEF ForgetsHook, RemovesHook, Unloading, SessionInv, LoopTyped
  <2>4. CASE Idles BY <2>1, <2>4, IdlesFrame DEF tableMemory
  <2>5. CASE UnloadEnds \/ (\E b \in Bases, name \in Names : HandleLoadDll(b, name))
             \/ \E b \in Bases : HandleUnloadDll(b)
    BY <2>1, <2>5 DEF UnloadEnds, HandleLoadDll, HandleUnloadDll, tableVars
  <2>6. CASE RefusesHook \/ \E b \in Bases, name \in Names : HandleUnnamedDll(b, name)
    BY <2>1, <2>6, RefusesFrame, UnnamedFrame
  <2> QED BY <2>2, <2>3, <2>4, <2>5, <2>6, StepKinds
<1>4. ASSUME trace' = "off", ending' = "none" PROVE ~image'
  <2>1. ~image BY <1>2, <1>4 DEF EndsStick, BuiltFirst
  <2>2. ~HandleCreateProcess BY <1>4 DEF HandleCreateProcess, Fails
  <2>3. ~ReleasesRemote BY <1>4 DEF ReleasesRemote
  <2> QED BY <2>1, <2>2, <2>3, ImageFrame
<1> QED BY <1>1, <1>3, <1>4 DEF BuiltFirst

\* The actions of Instrumentation that have a parameter.
LEMMA InstrumentsOpen ==
  ASSUME NEW d \in Entries, NEW h \in Hooks, Instruments!Open(d, h)
  PROVE  Instruments!Next
<1>1. \E x \in Entries, y \in Hooks : Instruments!Open(x, y) OBVIOUS
<1> QED BY <1>1 DEF Instruments!Next

LEMMA InstrumentsClose ==
  ASSUME NEW D \in SUBSET Entries, Instruments!Close(D)
  PROVE  Instruments!Next
<1>1. \E X \in SUBSET Entries : Instruments!Close(X) OBVIOUS
<1> QED BY <1>1 DEF Instruments!Next

LEMMA InstrumentsEnter ==
  ASSUME NEW t \in Threads, Instruments!Enter(t)
  PROVE  Instruments!Next
<1>1. \E x \in Threads : Instruments!Enter(x) OBVIOUS
<1> QED BY <1>1 DEF Instruments!Next

LEMMA InstrumentsLeave ==
  ASSUME NEW T \in SUBSET Threads, Instruments!Leave(T)
  PROVE  Instruments!Next
<1>1. \E X \in SUBSET Threads : Instruments!Leave(X) OBVIOUS
<1> QED BY <1>1 DEF Instruments!Next

\* Threads that only get out.
LEMMA OthersLeave ==
  ASSUME \A t \in Threads : place'[t] \in Instrumented => place[t] \in Instrumented,
         UNCHANGED <<bytes, image, trace, ending>>
  PROVE  Instruments!Next
<1>1. PICK T \in SUBSET Threads : T = {t \in Threads : place'[t] \notin Instrumented} OBVIOUS
<1>2. Inside' = Inside \ T BY <1>1 DEF Inside
<1>3. Instruments!Leave(T) BY <1>2 DEF Instruments!Leave, Inside
<1> QED BY <1>3, InstrumentsLeave

LEMMA ThreadVisits ==
  ASSUME SessionInv, SoundTable, Sound, BuiltFirst, NEW t \in Threads, Thread(t)
  PROVE  Instruments!Next
<1>1. UNCHANGED <<bytes, image, trace, ending>>
  BY ThreadFrame DEF memoryVars, imageVars, sessionVars, endVars
<1>2. \A u \in Threads : u # t => place'[u] = place[u] BY ThreadMoves
<1>3. CASE place'[t] \in Instrumented => place[t] \in Instrumented
  BY <1>1, <1>2, <1>3, OthersLeave
<1>4. CASE place'[t] \in Instrumented /\ place[t] \notin Instrumented
  <2>1. RunsJump(t)
    BY <1>4
    DEF Thread, InHook, Calls, RunsUnhooked, RunsJump, EntersHandler, CallsOriginal,
        RunsTrampoline, Returns, LeavesHandler, ReturnsToCaller, Crashes, Killed, Goes, At,
        SessionInv, ThreadsTyped, Instrumented, InImage, Counted
  <2>2. place[t] = "prologue" /\ bytes[call[t].entry] # Original BY <2>1 DEF RunsJump, At
  <2>3. call[t].entry \in Entries BY <2>2 DEF SessionInv, ThreadsTyped
  <2>4. image
    <3>1. installed # <<>> BY <2>2, <2>3 DEF SoundTable, Table
    <3> QED BY <3>1 DEF BuiltFirst, HooksMapped
  <2>5. Inside' = Inside \union {t} /\ t \notin Inside BY <1>2, <1>4 DEF Inside
  <2>6. Instruments!Enter(t)
    BY <1>1, <2>2, <2>3, <2>4, <2>5 DEF Instruments!Enter, Inside
  <2> QED BY <2>6, InstrumentsEnter
<1> QED BY <1>3, <1>4

\* What the steps of the event loop do that only shut doors: they may make a
\* thread lose its way in front of one, and take nobody in.
Shutting(D) ==
  /\ bytes' = [e \in Entries |-> IF e \in D THEN Original ELSE bytes[e]]
  /\ UNCHANGED <<image, trace, ending>>
NobodyIn ==
  \A t \in Threads : place'[t] = place[t] \/ (place[t] = "prologue" /\ place'[t] = "lost")

LEMMA ShutsDoors ==
  ASSUME NEW D \in SUBSET Entries, Shutting(D), NobodyIn
  PROVE  Instruments!Next
<1>1. Inside' = Inside BY DEF NobodyIn, Inside, Instrumented, InImage, Counted
<1>2. Instruments!Close(D) BY <1>1 DEF Instruments!Close, Inside, Shutting
<1> QED BY <1>2, InstrumentsClose

\* Giving one export its own code back.
LEMMA ShutsDoor ==
  ASSUME SessionInv, NEW k \in InstalledHook, bytes' = [bytes EXCEPT ![k.entry] = Original],
         NobodyIn, UNCHANGED <<image, trace, ending>>
  PROVE  Instruments!Next
<1>1. k.entry \in Entries /\ bytes \in [Entries -> Code]
  BY DEF InstalledHook, SessionInv, MemoryTyped
<1>2. PICK D \in SUBSET Entries : D = {k.entry} BY <1>1
<1>3. Shutting(D) BY <1>1, <1>2 DEF Shutting
<1> QED BY <1>3, ShutsDoors

LEMMA UnhookPlaces ==
  ASSUME NEW k, NEW steps, UnhookFunction(k, steps) \/ (\E c, f : ReleaseUnloadedHook(k, c, f))
  PROVE  NobodyIn
<1>1. place' = place \/ \E entry, code : Rewrite(entry, code)
  BY DEF UnhookFunction, ReleaseUnloadedHook
<1> QED BY <1>1 DEF Rewrite, NobodyIn

LEMMA ForgettingShuts ==
  ASSUME SessionInv, SoundTable, Sound, Sound', ForgetsHook
  PROVE  Instruments!Next
<1>1. /\ next \in DOMAIN installed /\ loop = "unload" /\ installed \in Seq(InstalledHook)
      /\ UNCHANGED <<image, trace, ending>>
  BY DEF ForgetsHook, Unloading, imageVars, SessionInv, MemoryTyped, LoopTyped
<1>2. PICK k \in InstalledHook : k = installed[next] BY <1>1, ElementTyped
<1>3. Leads(k) BY <1>1, <1>2 DEF SoundTable, Table
<1>4. CASE k.target = subject
  <2>1. PICK cleared, freed \in Outcomes("Release") : ReleaseUnloadedHook(k, cleared, freed)
    BY <1>2, <1>4 DEF ForgetsHook
  <2>2. bytes[k.entry] = Original BY <1>1, <1>3, <1>4 DEF Leads
  <2>3. bytes' = [bytes EXCEPT ![k.entry] = Original]
    BY <2>1, <2>2 DEF ReleaseUnloadedHook, SessionInv, MemoryTyped, InstalledHook
  <2>4. NobodyIn BY <2>1 DEF ReleaseUnloadedHook, NobodyIn
  <2> QED BY <1>1, <2>3, <2>4, ShutsDoor
<1>5. CASE k.target # subject
  <2>1. PICK steps \in Reached("UnhookOnUnload", 3) :
          UnhookFunction(k, steps) /\ Forgets(k, steps = 3)
    BY <1>2, <1>5 DEF ForgetsHook
  <2>2. steps = 3 BY <2>1 DEF Sound, RemovalsSucceeded, Forgets
  <2>3. bytes' = [bytes EXCEPT ![k.entry] = Original] BY <1>3, <2>1, <2>2, UnhookAll DEF Leads
  <2> QED BY <1>1, <2>1, <2>3, UnhookPlaces, ShutsDoor
<1> QED BY <1>4, <1>5

LEMMA RemovingShuts ==
  ASSUME SessionInv, SoundTable, Sound, Sound', RemovesHook
  PROVE  Instruments!Next
<1>1. /\ installed # <<>> /\ installed \in Seq(InstalledHook)
      /\ UNCHANGED <<image, trace, ending>>
  BY DEF RemovesHook, imageVars, SessionInv, MemoryTyped
<1>2. PICK n \in DOMAIN installed : n = Len(installed) /\ Last(installed) = installed[n]
  BY <1>1, FrontWithout
<1>3. PICK k \in InstalledHook : k = installed[n] BY <1>1, ElementTyped
<1>4. Leads(k) BY <1>3 DEF SoundTable, Table
<1>5. PICK steps \in Reached("Unhook", 3) :
        UnhookFunction(k, steps) /\ cleaned' = (cleaned /\ steps = 3)
  BY <1>2, <1>3 DEF RemovesHook
<1>6. steps = 3 BY <1>5 DEF Sound, RemovalsSucceeded
<1>7. bytes' = [bytes EXCEPT ![k.entry] = Original] BY <1>4, <1>5, <1>6, UnhookAll DEF Leads
<1> QED BY <1>1, <1>5, <1>7, UnhookPlaces, ShutsDoor

LEMMA UnloadingShuts ==
  ASSUME SessionInv, NEW b \in Bases, HandleUnloadDll(b)
  PROVE  Instruments!Next
<1>1. /\ bytes' = [e \in Entries |-> IF e[1] = b THEN Original ELSE bytes[e]]
      /\ UNCHANGED <<image, trace, ending, place>>
  BY DEF HandleUnloadDll, imageVars, endVars, threadVars
<1>2. PICK D \in SUBSET Entries : D = {e \in Entries : e[1] = b} OBVIOUS
<1>3. Shutting(D) BY <1>1, <1>2 DEF Shutting
<1>4. NobodyIn BY <1>1 DEF NobodyIn
<1> QED BY <1>3, <1>4, ShutsDoors

\* The wing is built with InjectDll, if InitializeDebuggee gets that far.
LEMMA CreatingBuilds ==
  ASSUME SessionInv, BuiltFirst, HandleCreateProcess
  PROVE  Instruments!Next
<1>1. ending = "none" /\ trace = "off" /\ ~image
  BY DEF HandleCreateProcess, Waiting, SessionInv, PhaseOrder, BuiltFirst
<1>2. UNCHANGED <<bytes, place>> BY DEF HandleCreateProcess, memoryVars, threadVars
<1>3. /\ ending' \in {"none", "failed"}
      /\ ~image' => ending' = "failed" /\ trace' = "off"
  <2>1. PICK calls \in Reached("Initialize", 4) :
          /\ image' = (calls >= 2)
          /\ IF calls = 4 THEN UNCHANGED ending ELSE ending' = "failed" /\ UNCHANGED trace
    BY DEF HandleCreateProcess, Fails
  <2>2. CASE calls = 4
    <3>1. calls >= 2 BY <2>2
    <3>2. image' = TRUE BY <2>1, <3>1
    <3> QED BY <1>1, <2>1, <2>2, <3>2
  <2>3. CASE calls # 4 BY <1>1, <2>1, <2>3
  <2> QED BY <2>2, <2>3
<1>4. image' \in BOOLEAN BY SessionInvStep DEF SessionInv, FlagsTyped, Next, DebugEvent
<1>5. CASE image'
  <2>1. Instruments!Build BY <1>1, <1>2, <1>5 DEF Instruments!Build
  <2> QED BY <2>1 DEF Instruments!Next
<1>6. CASE ~image'
  <2>1. Instruments!CutShort BY <1>1, <1>2, <1>3, <1>6 DEF Instruments!CutShort
  <2> QED BY <2>1 DEF Instruments!Next
<1> QED BY <1>4, <1>5, <1>6

LEMMA InstallingOpens ==
  ASSUME SessionInv, SoundTable, Sound, "Patch" \notin Faults, InstallsHook
  PROVE  Instruments!Next
<1>1. PICK m \in Free, ok \in Outcomes("Patch") :
        LET hook == Resolved(Definitions[next], m)
        IN /\ HookFunction(hook, ok)
           /\ ok => UNCHANGED ending
  BY DEF InstallsHook
<1>2. ok = TRUE BY DEF Outcomes
<1>3. /\ Installing /\ Ready(Definitions[next]) /\ ~Taken(Definitions[next])
      /\ UNCHANGED <<image, trace>>
  BY DEF InstallsHook, imageVars
<1>4. m \in Trampolines /\ Definitions[next] \in Hooks
      /\ Resolved(Definitions[next], m) \in InstalledHook
  BY <1>3, InstallsTyped DEF SessionInv, LoopTyped
<1>5. PICK k \in InstalledHook, h \in Hooks : k = Resolved(h, m) /\ h = Definitions[next]
  BY <1>4
<1>6. k.hook = h /\ k.entry \in Entries /\ k.entry = Entry(FindModule(Home[h]), h)
  BY <1>5 DEF Resolved, InstalledHook
<1>7. \A i \in DOMAIN installed : installed[i].entry # k.entry /\ installed[i].hook # h
  BY <1>3, <1>5, <1>6 DEF Taken, Ready, IsInstalled
<1>8. bytes[k.entry] = Original BY <1>6, <1>7 DEF SoundTable, Table
<1>9. ASSUME NEW e \in Entries PROVE bytes[e] # h
  <2>1. h # Original BY NullAssumption
  <2>2. CASE bytes[e] # Original
    <3>1. PICK i \in DOMAIN installed : installed[i].entry = e BY <2>2 DEF SoundTable, Table
    <3>2. bytes[e] = installed[i].hook BY <2>2, <3>1 DEF SoundTable, Table, Leads
    <3> QED BY <1>7, <3>2
  <2> QED BY <2>1, <2>2
<1>10. HookFunction(k, ok) BY <1>1, <1>5
<1>11. bytes' = [bytes EXCEPT ![k.entry] = h] /\ NobodyIn
  BY <1>6, <1>10 DEF HookFunction, Rewrite, NobodyIn
<1>12. Inside' = Inside BY <1>11 DEF NobodyIn, Inside, Instrumented, InImage, Counted
<1>13. image /\ ending = "none" /\ ending' = ending
  BY <1>1, <1>2, <1>3 DEF Installing, SessionInv, PhaseOrder, MappingOrder
<1>14. Instruments!Open(k.entry, h)
  BY <1>3, <1>8, <1>9, <1>11, <1>12, <1>13 DEF Instruments!Open, Inside
<1>15. k.entry \in Entries BY <1>6
<1> QED BY <1>14, <1>15, InstrumentsOpen

\* The image goes when every export is itself again and, after a clean stop,
\* when nobody is inside.
LEMMA ReleasingTearsDown ==
  ASSUME SessionInv, SoundTable, Sound, ThreadsOut, cleaned', ReleasesRemote
  PROVE  [Instruments!Next]_(Instruments!instrumentationVars)
<1>1. /\ UNCHANGED <<bytes, place, ending>> /\ trace' = "stopped" /\ loop = "release"
      /\ image => ~image' /\ cleaned' = (cleaned /\ cleaned')
  <2>1. UNCHANGED <<bytes, place, ending>> /\ trace' = "stopped" /\ loop = "release"
    BY DEF ReleasesRemote, memoryVars, threadVars
  <2>2. ASSUME image PROVE ~image'
    <3>1. PICK released, freed \in Outcomes("Cleanup") :
            image' = ~freed /\ cleaned' = (cleaned /\ released /\ freed)
      BY <2>2 DEF ReleasesRemote
    <3> QED BY <3>1
  <2> QED BY <2>1, <2>2 DEF Sound, RemovalsSucceeded
<1>2. installed = <<>> /\ ending \in {"clean", "failed"} BY <1>1 DEF SessionInv, PhaseOrder
<1>3. CASE image
  <2>1. \A e \in Entries : bytes[e] = Original BY <1>2, EmptyTable DEF SoundTable
  <2>2. Inside = {} \/ ending = "failed" BY <1>2 DEF ThreadsOut, Sound, Inside
  <2>3. Instruments!TearDown
    BY <1>1, <1>3, <2>1, <2>2 DEF Instruments!TearDown, Inside
  <2> QED BY <2>3 DEF Instruments!Next
<1>4. CASE ~image
  <2>1. UNCHANGED image BY <1>4 DEF ReleasesRemote, imageVars
  <2>2. CASE trace = "off"
    <3>1. Instruments!Abandon BY <1>1, <1>4, <2>1, <2>2 DEF Instruments!Abandon
    <3> QED BY <3>1 DEF Instruments!Next
  <2>3. CASE trace # "off"
    BY <1>1, <1>4, <2>1, <2>3 DEF Instruments!instrumentationVars
  <2> QED BY <2>2, <2>3
<1> QED BY <1>3, <1>4

\* A session may end before there is anything of it in the target.
LEMMA IteratingAbandons ==
  ASSUME Iterates
  PROVE  [Instruments!Next]_(Instruments!instrumentationVars)
<1>1. UNCHANGED <<bytes, place, image, ending>>
  BY IteratesFrame DEF targetVars, memoryVars, threadVars, imageVars
<1>2. trace' = trace \/ trace' = "stopped"
  <2>1. CASE BreaksIn \/ RetriesStop BY <2>1 DEF BreaksIn, RetriesStop, endVars
  <2>2. CASE Waits \/ TimesOut \/ WaitFails \/ ContinuesTarget \/ StopKey
    BY <2>2 DEF Waits, TimesOut, WaitFails, ContinuesTarget, StopKey, endVars
  <2>3. CASE Detaches \/ BreaksOff BY <2>3 DEF Detaches, BreaksOff
  <2> QED BY <2>1, <2>2, <2>3 DEF Iterates
<1>3. CASE ~image /\ trace = "off" /\ trace' # "off"
  <2>1. Instruments!Abandon BY <1>1, <1>3 DEF Instruments!Abandon
  <2> QED BY <2>1 DEF Instruments!Next
<1>4. CASE image \/ trace # "off" \/ trace' = "off"
  BY <1>1, <1>2, <1>4 DEF Instruments!instrumentationVars
<1> QED BY <1>3, <1>4

LEMMA CutsShort ==
  ASSUME UNCHANGED <<bytes, place, image, trace>>, ending' = ending \/ ending' = "failed"
  PROVE  [Instruments!Next]_(Instruments!instrumentationVars)
<1>1. CASE ending' = ending BY <1>1 DEF Instruments!instrumentationVars
<1>2. CASE ending' = "failed"
  <2>1. Instruments!CutShort BY <1>2 DEF Instruments!CutShort
  <2> QED BY <2>1 DEF Instruments!Next
<1> QED BY <1>1, <1>2

LEMMA InstrumentationStep ==
  ASSUME InstallsCleanly, SessionInv, SoundTable, BuiltFirst, ThreadsOut, RemovalsSucceeded,
         RemovalsSucceeded', [Next]_vars
  PROVE  [Instruments!Next]_(Instruments!instrumentationVars)
<1>0. Sound /\ Sound' /\ cleaned' /\ "Patch" \notin Faults
  BY DEF Sound, InstallsCleanly, RemovalsSucceeded
<1> USE DEF imageVars, memoryVars, threadVars, endVars, targetVars, sessionVars
<1>1. CASE \E t \in Threads : Thread(t) BY <1>0, <1>1, ThreadVisits
<1>2. CASE HandleCreateProcess BY <1>2, CreatingBuilds
<1>3. CASE \E b \in Bases, name \in Names : HandleLoadDll(b, name)
  <2>1. UNCHANGED <<bytes, place, image, trace>> BY <1>3 DEF HandleLoadDll
  <2>2. ending' = ending \/ ending' = "failed" BY <1>3 DEF HandleLoadDll, ConfigureTransport, Fails
  <2> QED BY <2>1, <2>2, CutsShort
<1>4. CASE \E b \in Bases : HandleUnloadDll(b) BY <1>4, UnloadingShuts
<1>5. CASE HandleBreakpoint
  <2>1. UNCHANGED <<bytes, place, image, trace>> BY <1>5 DEF HandleBreakpoint
  <2>2. (ending = "failed") = (ending' = "failed")
    BY <1>5 DEF HandleBreakpoint, Waiting, SessionInv, PhaseOrder
  <2> QED BY <2>1, <2>2 DEF Instruments!instrumentationVars
<1>6. CASE HandleExitProcess
  <2>1. UNCHANGED <<bytes, image>> /\ trace = "on" /\ trace' = "drained" /\ ending' = "exited"
        /\ place' = [t \in Threads |-> "dead"]
    BY <1>6 DEF HandleExitProcess
  <2>2. ending = "none" BY <1>6 DEF HandleExitProcess, Waiting, SessionInv, PhaseOrder
  <2>3. Inside' = Inside \ Threads BY <2>1 DEF Inside, Instrumented, InImage, Counted
  <2>4. Instruments!Leave(Threads) BY <2>1, <2>2, <2>3 DEF Instruments!Leave, Inside
  <2>5. Threads \in SUBSET Threads OBVIOUS
  <2> QED BY <2>4, <2>5, InstrumentsLeave
<1>7. CASE RefusesHook
  <2>1. UNCHANGED <<bytes, place, image, trace>> /\ ending' = "failed"
    BY <1>7 DEF RefusesHook, Fails
  <2> QED BY <2>1, CutsShort
<1>8. CASE InstallsHook BY <1>0, <1>8, InstallingOpens
<1>9. CASE SkipsHook \/ InstallEnds \/ KeepsHook \/ UnloadEnds \/ HooksRemoved \/ UNCHANGED vars
  <2>1. UNCHANGED <<bytes, place, image, trace, ending>>
    BY <1>9 DEF SkipsHook, InstallEnds, KeepsHook, UnloadEnds, HooksRemoved, vars
  <2> QED BY <2>1 DEF Instruments!instrumentationVars
<1>10. CASE ForgetsHook BY <1>0, <1>10, ForgettingShuts
<1>11. CASE RemovesHook BY <1>0, <1>11, RemovingShuts
<1>12. CASE ReleasesRemote BY <1>0, <1>12, ReleasingTearsDown
<1>13. CASE Iterates BY <1>13, IteratingAbandons
<1>14. CASE \E b \in Bases, name \in Names : HandleUnnamedDll(b, name)
  <2>1. UNCHANGED <<bytes, place, image, trace, ending>> BY <1>14, UnnamedFrame
  <2> QED BY <2>1 DEF Instruments!instrumentationVars
<1> QED
  BY <1>1, <1>2, <1>3, <1>4, <1>5, <1>6, <1>7, <1>8, <1>9, <1>10, <1>11, <1>12, <1>13, <1>14
  DEF Next, DebugEvent, Controller, TryInstallPendingHooks, UnloadHooks, CleanupRemote, Iterates

LEMMA InstrumentationInit == Init => Instruments!Init /\ BuiltFirst /\ ThreadsOut
<1> SUFFICES ASSUME Init PROVE Instruments!Init /\ BuiltFirst /\ ThreadsOut OBVIOUS
<1>1. \A t \in Threads : place[t] \notin Instrumented
  BY DEF Init, Instrumented, InImage, Counted
<1>2. Instruments!Init BY <1>1 DEF Init, Instruments!Init
<1> QED BY <1>2 DEF Init, BuiltFirst, HooksMapped, ThreadsOut

\* What the session does to the target is what Instrumentation promises of it,
\* if the calls that remove instrumentation succeed, no installation leaves
\* anything behind, and the list of threads can be read: the image is mapped before the first jump into it and
\* unmapped after the last, with no thread in it unless a handler failed; no
\* two exports lead to one handler; and threads get in through jumps alone.
THEOREM RefinesInstrumentationHolds ==
  ASSUME RemovalsReliable, InstallsCleanly, "Snapshot" \notin Faults
  PROVE  Spec => RefinesInstrumentation
<1>1. SessionInv /\ SoundTable /\ ThreadsOut /\ [Next]_vars => ThreadsOut' BY ThreadsOutStep
<1>2. SessionInv /\ BuiltFirst /\ [Next]_vars => BuiltFirst' BY BuiltFirstStep
<1>3. /\ SessionInv /\ SoundTable /\ BuiltFirst /\ ThreadsOut /\ RemovalsSucceeded
      /\ RemovalsSucceeded' /\ [Next]_vars
      => [Instruments!Next]_(Instruments!instrumentationVars)
  BY InstrumentationStep
<1> QED
  BY <1>1, <1>2, <1>3, InstrumentationInit, SessionInvHolds, TableHolds, RemovalsStay, PTL
  DEF Spec, RefinesInstrumentation, Instruments!Spec
=============================================================================
