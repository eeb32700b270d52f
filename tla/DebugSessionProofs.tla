------------------------- MODULE DebugSessionProofs -------------------------
(***************************************************************************)
(* Proofs about DebugSession, for any threads, modules, hooks and          *)
(* trampolines, and, where nothing else is said, any faults.               *)
(***************************************************************************)
EXTENDS DebugSession, FiniteSetTheorems, WellFoundedInduction, TLAPS

-----------------------------------------------------------------------------
(* Sequences of records.                                                   *)

LEMMA ElementTyped ==
  ASSUME NEW S, NEW s \in Seq(S), NEW i \in DOMAIN s
  PROVE  s[i] \in S /\ i \in 1..Len(s) /\ Len(s) \in Nat
  OBVIOUS

\* The sequence "t" is "s" without its n-th element.
Without(t, s, n) ==
  /\ DOMAIN t = 1..(Len(s) - 1)
  /\ \A i \in 1..(n - 1) : t[i] = s[i]
  /\ \A i \in n..(Len(s) - 1) : t[i] = s[i + 1]

LEMMA RemoveAtWithout ==
  ASSUME NEW S, NEW s \in Seq(S), NEW n \in DOMAIN s
  PROVE  Without(RemoveAt(s, n), s, n) /\ RemoveAt(s, n) \in Seq(S)
<1> DEFINE u == SubSeq(s, 1, n - 1)
           v == SubSeq(s, n + 1, Len(s))
<1>1. n \in 1..Len(s) /\ Len(s) \in Nat OBVIOUS
<1>2. u \in Seq(S) /\ Len(u) = n - 1 /\ \A i \in 1..(n - 1) : u[i] = s[i] OBVIOUS
<1>3. v \in Seq(S) /\ Len(v) = Len(s) - n /\ \A i \in 1..(Len(s) - n) : v[i] = s[i + n]
  BY <1>1
<1>4. RemoveAt(s, n) = u \o v BY DEF RemoveAt
<1> HIDE DEF u, v
<1>5. u \o v \in Seq(S) /\ Len(u \o v) = Len(s) - 1 BY <1>1, <1>2, <1>3
<1>6. \A i \in 1..(n - 1) : (u \o v)[i] = s[i] BY <1>1, <1>2, <1>3
<1>7. ASSUME NEW i \in n..(Len(s) - 1) PROVE (u \o v)[i] = s[i + 1]
  <2>1. (u \o v)[i] = v[i - (n - 1)] BY <1>1, <1>2, <1>3
  <2>2. i - (n - 1) \in 1..(Len(s) - n) /\ (i - (n - 1)) + n = i + 1 BY <1>1
  <2>3. v[i - (n - 1)] = s[(i - (n - 1)) + n] BY <1>3, <2>2
  <2> QED BY <2>1, <2>2, <2>3
<1> QED BY <1>4, <1>5, <1>6, <1>7 DEF Without

LEMMA FrontWithout ==
  ASSUME NEW S, NEW s \in Seq(S), s # <<>>
  PROVE  Without(Front(s), s, Len(s)) /\ Front(s) \in Seq(S) /\ Last(s) = s[Len(s)]
         /\ Len(s) \in DOMAIN s
  BY DEF Front, Last, Without

\* What is left of a sequence comes from it, and nothing but the n-th goes.
LEMMA WithoutFrom ==
  ASSUME NEW S, NEW s \in Seq(S), NEW n \in DOMAIN s, NEW t, Without(t, s, n)
  PROVE  /\ \A i \in DOMAIN t : \E j \in DOMAIN s : j # n /\ t[i] = s[j]
         /\ \A j \in DOMAIN s : j # n => \E i \in DOMAIN t : t[i] = s[j]
<1>1. n \in 1..Len(s) /\ Len(s) \in Nat /\ DOMAIN s = 1..Len(s) OBVIOUS
<1>2. ASSUME NEW i \in DOMAIN t PROVE \E j \in DOMAIN s : j # n /\ t[i] = s[j]
  <2>1. CASE i < n BY <1>1, <2>1 DEF Without
  <2>2. CASE i >= n
    <3>1. i + 1 \in DOMAIN s /\ i + 1 # n /\ t[i] = s[i + 1] BY <1>1, <1>2, <2>2 DEF Without
    <3> QED BY <3>1
  <2> QED BY <1>1, <2>1, <2>2 DEF Without
<1>3. ASSUME NEW j \in DOMAIN s, j # n PROVE \E i \in DOMAIN t : t[i] = s[j]
  <2>1. CASE j < n BY <1>1, <2>1 DEF Without
  <2>2. CASE j > n
    <3>1. j - 1 \in DOMAIN t /\ t[j - 1] = s[j] BY <1>1, <1>3, <2>2 DEF Without
    <3> QED BY <3>1
  <2> QED BY <1>1, <1>3, <2>1, <2>2
<1> QED BY <1>2, <1>3

\* Different positions of what is left come from different positions.
LEMMA WithoutApart ==
  ASSUME NEW S, NEW s \in Seq(S), NEW n \in DOMAIN s, NEW t, Without(t, s, n),
         NEW i \in DOMAIN t, NEW j \in DOMAIN t, i # j
  PROVE  \E a, c \in DOMAIN s : a # c /\ t[i] = s[a] /\ t[j] = s[c]
<1>1. n \in 1..Len(s) /\ Len(s) \in Nat /\ DOMAIN s = 1..Len(s) OBVIOUS
<1>2. PICK a \in DOMAIN s : t[i] = s[a] /\ a = IF i < n THEN i ELSE i + 1
  BY <1>1 DEF Without
<1>3. PICK c \in DOMAIN s : t[j] = s[c] /\ c = IF j < n THEN j ELSE j + 1
  BY <1>1 DEF Without
<1>4. a # c BY <1>1, <1>2, <1>3 DEF Without
<1> QED BY <1>2, <1>3, <1>4

\* A set of positions of a sequence has a last one.
LEMMA LastExists ==
  ASSUME NEW n \in Nat, NEW I, I \subseteq 1..n, I # {}
  PROVE  Max(I) \in I /\ \A i \in I : i <= Max(I)
<1> DEFINE T == {n - i : i \in I}
           R == OpToRel(<, Nat)
<1>1. T \subseteq Nat /\ T # {}
  <2>1. \A i \in I : n - i \in Nat OBVIOUS
  <2> QED BY <2>1
<1>2. \E x \in T : \A y \in T : ~(<<y, x>> \in R)
  <2> HIDE DEF T
  <2> QED BY <1>1, NatLessThanWellFounded, WFMin
<1>3. PICK x \in T : \A y \in T : ~(y < x)
  <2>1. \A x, y \in Nat : <<y, x>> \in R <=> y < x BY DEF OpToRel
  <2> QED BY <1>1, <1>2, <2>1
<1>4. PICK i \in I : x = n - i OBVIOUS
<1>5. \A j \in I : i >= j
  <2> TAKE j \in I
  <2>1. n - j \in T OBVIOUS
  <2>2. ~(n - j < x) BY <1>3, <2>1
  <2>3. i \in 1..n /\ j \in 1..n OBVIOUS
  <2> QED BY <1>4, <2>2, <2>3
<1>6. PICK m \in I : m = Max(I) /\ \A j \in I : m >= j BY <1>5 DEF Max
<1>7. \A j \in I : j <= m BY <1>6
<1> QED BY <1>6, <1>7

-----------------------------------------------------------------------------
(* Lookup of modules and hooks.                                            *)

ModulesTyped == modules \in Seq([base : Bases, name : Names])

\* FindModule answers with the base of the newest record of that name.
LEMMA FindModuleNewest ==
  ASSUME ModulesTyped, NEW name, FindModule(name) # Null
  PROVE  \E i \in DOMAIN modules :
           /\ FindModule(name) = modules[i].base /\ modules[i].name = name
           /\ \A j \in DOMAIN modules : modules[j].name = name => j <= i
<1> DEFINE I == {i \in 1..Len(modules) : modules[i].name = name}
<1>1. I # {}
  BY DEF FindModule, SelectLastInSeq
<1>2. FindModule(name) = modules[Max(I)].base \/ Max(I) = 0
  BY <1>1 DEF FindModule, SelectLastInSeq
<1>3. Max(I) \in I /\ \A i \in I : i <= Max(I)
  <2>1. I \subseteq 1..Len(modules) /\ Len(modules) \in Nat BY DEF ModulesTyped
  <2> HIDE DEF I
  <2> QED BY <1>1, <2>1, LastExists
<1>4. DOMAIN modules = 1..Len(modules) BY DEF ModulesTyped
<1> QED BY <1>2, <1>3, <1>4

\* A hook that is about to be installed is fully typed.
LEMMA ResolvedTyped ==
  ASSUME ModulesTyped, bytes \in [Entries -> Hooks \union {Original}],
         NEW h \in Hooks, ~Pending(h), NEW m \in Trampolines
  PROVE  Resolved(h, m) \in InstalledHook
<1>0. ASSUME NEW name, FindModule(name) # Null PROVE FindModule(name) \in Bases
  <2>1. PICK i \in DOMAIN modules : FindModule(name) = modules[i].base
    BY <1>0, FindModuleNewest
  <2>2. modules[i] \in [base : Bases, name : Names] BY ElementTyped DEF ModulesTyped
  <2> QED BY <2>1, <2>2
<1>1. FindModule(Source[h]) \in Bases BY <1>0 DEF Pending
<1>2. FindModule(Home[h]) \in Bases BY <1>0 DEF Pending
<1>3. Entry(FindModule(Home[h]), h) \in Entries BY <1>2 DEF Entry, Entries
<1> QED BY <1>1, <1>2, <1>3 DEF Resolved, InstalledHook

LEMMA DefinitionTyped ==
  ASSUME Installing, next \in Nat \ {0}
  PROVE  Definitions[next] \in Hooks
  BY DefinitionsAssumption DEF Installing, Hooks

-----------------------------------------------------------------------------
(* Type correctness.                                                       *)

FlagsTyped ==
  /\ image \in BOOLEAN /\ ring \in BOOLEAN
  /\ transportConfigured \in BOOLEAN /\ initialBreakpointSeen \in BOOLEAN
  /\ stopBreakRequested \in BOOLEAN /\ stopRequested \in BOOLEAN /\ retry \in BOOLEAN
  /\ cleaned \in BOOLEAN /\ killOnExit \in BOOLEAN /\ detached \in {"no", "yes", "refused"}

LEMMA OutcomesBoolean == \A f : Outcomes(f) \subseteq BOOLEAN
  BY DEF Outcomes

LEMMA ReachedTyped == \A f : \A n \in Nat : Reached(f, n) \subseteq 0..n
  BY DEF Reached

LEMMA FlagsStep ==
  ASSUME FlagsTyped, [Next]_vars
  PROVE  FlagsTyped'
<1> USE OutcomesBoolean
    DEF FlagsTyped, memoryVars, imageVars, threadVars, tableVars, stopVars, loopVars, endVars,
        targetVars, sessionVars
<1>1. ASSUME NEW t \in Threads, Thread(t) PROVE FlagsTyped'
  BY <1>1
  DEF Thread, InHook, Calls, RunsUnhooked, RunsJump, EntersHandler, CallsOriginal, RunsTrampoline,
      Returns, LeavesHandler, ReturnsToCaller, Crashes, Killed
<1>2. CASE HandleCreateProcess BY <1>2 DEF HandleCreateProcess
<1>3. ASSUME NEW b \in Bases, NEW name \in Names, HandleLoadDll(b, name) PROVE FlagsTyped'
  BY <1>3 DEF HandleLoadDll, LoadReported, ConfigureTransport
<1>4. ASSUME NEW b \in Bases, HandleUnloadDll(b) PROVE FlagsTyped'
  BY <1>4 DEF HandleUnloadDll
<1>5. CASE HandleBreakpoint BY <1>5 DEF HandleBreakpoint
<1>6. CASE HandleExitProcess BY <1>6 DEF HandleExitProcess
<1>7. CASE TryInstallPendingHooks
  BY <1>7 DEF TryInstallPendingHooks, SkipsHook, RefusesHook, InstallsHook, InstallEnds
<1>8. CASE UnloadHooks
  <2>1. CASE KeepsHook BY <2>1 DEF KeepsHook
  <2>2. CASE ForgetsHook BY <2>2 DEF ForgetsHook
  <2>3. CASE UnloadEnds BY <2>3 DEF UnloadEnds
  <2> QED BY <1>8, <2>1, <2>2, <2>3 DEF UnloadHooks
<1>9. CASE CleanupRemote
  <2>1. CASE RemovesHook BY <2>1 DEF RemovesHook
  <2>2. CASE HooksRemoved BY <2>2 DEF HooksRemoved
  <2>3. CASE ReleasesRemote
    <3>1. CASE image
      <4>1. PICK released, freed \in Outcomes("Cleanup") :
              /\ ring' = (ring /\ ~released)
              /\ image' = ~freed
              /\ cleaned' = (cleaned /\ released /\ freed)
        BY <2>3, <3>1 DEF ReleasesRemote
      <4>2. ring' \in BOOLEAN /\ image' \in BOOLEAN /\ cleaned' \in BOOLEAN BY <4>1
      <4> QED BY <2>3, <4>2 DEF ReleasesRemote
    <3>2. CASE ~image BY <2>3, <3>2 DEF ReleasesRemote
    <3> QED BY <3>1, <3>2
  <2> QED BY <1>9, <2>1, <2>2, <2>3 DEF CleanupRemote
<1>10. CASE BreaksIn \/ RetriesStop
  BY <1>10 DEF BreaksIn, RetriesStop
<1>11. CASE Waits \/ TimesOut \/ WaitFails \/ ContinuesTarget \/ Detaches \/ BreaksOff \/ StopKey
  <2>1. CASE Waits \/ TimesOut \/ WaitFails
    BY <2>1 DEF Waits, TimesOut, WaitFails
  <2>2. CASE ContinuesTarget BY <2>2 DEF ContinuesTarget
  <2>3. CASE BreaksOff BY <2>3 DEF BreaksOff, Stops
  <2>4. CASE Detaches BY <2>4 DEF Detaches, Stops
  <2>5. CASE StopKey BY <2>5 DEF StopKey
  <2> QED BY <1>11, <2>1, <2>2, <2>3, <2>4, <2>5
<1>12. CASE UNCHANGED vars BY <1>12 DEF vars
<1>13. ASSUME NEW b \in Bases, NEW name \in Names, HandleUnnamedDll(b, name) PROVE FlagsTyped'
  BY <1>13 DEF HandleUnnamedDll, LoadReported
<1> QED
  BY <1>1, <1>2, <1>3, <1>4, <1>5, <1>6, <1>7, <1>8, <1>9, <1>10, <1>11, <1>12, <1>13
  DEF Next, DebugEvent, Controller

\* A thread of the target moves itself and the counter, and nothing else.
LEMMA ThreadFrame ==
  ASSUME NEW t \in Threads, Thread(t)
  PROVE  UNCHANGED <<loaded, memoryVars, imageVars, sessionVars>>
  BY DEF Thread, InHook, Calls, RunsUnhooked, RunsJump, EntersHandler, CallsOriginal,
         RunsTrampoline, Returns, LeavesHandler, ReturnsToCaller, Crashes, Killed,
         targetVars, sessionVars

\* What the event loop does around the events leaves the target and the tables alone.
Iterates == BreaksIn \/ Waits \/ TimesOut \/ WaitFails \/ ContinuesTarget \/ RetriesStop
            \/ Detaches \/ BreaksOff \/ StopKey

LEMMA IteratesFrame ==
  ASSUME Iterates
  PROVE  UNCHANGED <<targetVars, tableVars, next, subject, ending, forgotten, cleaned, killOnExit>>
  BY DEF Iterates, BreaksIn, Waits, TimesOut, WaitFails, ContinuesTarget, RetriesStop,
         Detaches, BreaksOff, StopKey, loopVars, endVars, stopVars

\* Where the loop goes on when the target has been continued.
ContinuesAt ==
  \/ loop' = "broken"
  \/ loop' = "retry" /\ retry
  \/ loop' = "top" /\ ending = "none" /\ ~retry
  \/ loop' = "over" /\ ending = "exited" /\ ~retry
  \/ loop' = "detach" /\ ending \notin {"none", "exited"} /\ ~retry

LEMMA ContinuesWhere ==
  ASSUME ContinuesTarget
  PROVE  ContinuesAt
<1>1. PICK ok \in Outcomes("Continue") :
        loop' = IF ~ok THEN "broken"
                ELSE IF retry THEN "retry"
                ELSE CASE ending = "none" -> "top"
                       [] ending = "exited" -> "over"
                       [] OTHER -> "detach"
  BY DEF ContinuesTarget, Then
<1> USE DEF ContinuesAt
<1>2. CASE ~ok BY <1>1, <1>2
<1>3. CASE ok /\ retry BY <1>1, <1>3
<1>4. CASE ok /\ ~retry /\ ending = "none" BY <1>1, <1>4
<1>5. CASE ok /\ ~retry /\ ending = "exited" BY <1>1, <1>5
<1>6. CASE ok /\ ~retry /\ ending \notin {"none", "exited"} BY <1>1, <1>6
<1> QED BY <1>2, <1>3, <1>4, <1>5, <1>6

-----------------------------------------------------------------------------
(* The debugger lets go of the target.                                     *)

\* A target that was taken over and lives is let go, or refused to be.
LetGo == loop = "over" /\ ending # "exited" /\ ~killOnExit => detached # "no"

LEMMA LetGoStep ==
  ASSUME LetGo, [Next]_vars
  PROVE  LetGo'
<1> USE DEF LetGo, Then, Fails, memoryVars, imageVars, threadVars, tableVars, stopVars,
            loopVars, endVars, targetVars, sessionVars
<1>1. ASSUME NEW t \in Threads, Thread(t) PROVE LetGo'
  BY <1>1, ThreadFrame
<1>2. CASE HandleCreateProcess BY <1>2 DEF HandleCreateProcess
<1>3. ASSUME NEW b \in Bases, NEW name \in Names, HandleLoadDll(b, name) PROVE LetGo'
  BY <1>3 DEF HandleLoadDll, LoadReported, ConfigureTransport
<1>4. ASSUME NEW b \in Bases, HandleUnloadDll(b) PROVE LetGo'
  BY <1>4 DEF HandleUnloadDll
<1>5. CASE HandleBreakpoint BY <1>5 DEF HandleBreakpoint
<1>6. CASE HandleExitProcess BY <1>6 DEF HandleExitProcess
<1>7. CASE TryInstallPendingHooks
  BY <1>7 DEF TryInstallPendingHooks, SkipsHook, RefusesHook, InstallsHook, InstallEnds, Installing
<1>8. CASE UnloadHooks BY <1>8 DEF UnloadHooks, KeepsHook, ForgetsHook, UnloadEnds, Unloading
<1>9. CASE CleanupRemote
  BY <1>9 DEF CleanupRemote, RemovesHook, HooksRemoved, ReleasesRemote
<1>10. CASE Iterates
  <2>1. CASE BreaksIn \/ RetriesStop BY <2>1 DEF BreaksIn, RetriesStop
  <2>2. CASE Waits \/ TimesOut \/ WaitFails \/ StopKey
    BY <2>2 DEF Waits, TimesOut, WaitFails, StopKey
  <2>3. CASE ContinuesTarget
    <3>1. ContinuesAt BY <2>3, ContinuesWhere
    <3>2. UNCHANGED endVars BY <2>3 DEF ContinuesTarget
    <3> QED BY <3>1, <3>2 DEF ContinuesAt
  <2>4. CASE Detaches BY <2>4 DEF Detaches, Stops
  <2>5. CASE BreaksOff
    <3>1. ~killOnExit /\ ending # "exited" => detached' # "no" BY <2>5 DEF BreaksOff, Stops
    <3> QED BY <2>5, <3>1 DEF BreaksOff
  <2> QED BY <1>10, <2>1, <2>2, <2>3, <2>4, <2>5 DEF Iterates
<1>11. CASE UNCHANGED vars BY <1>11 DEF vars
<1>12. ASSUME NEW b \in Bases, NEW name \in Names, HandleUnnamedDll(b, name) PROVE LetGo'
  BY <1>12 DEF HandleUnnamedDll, LoadReported
<1> QED
  BY <1>1, <1>2, <1>3, <1>4, <1>5, <1>6, <1>7, <1>8, <1>9, <1>10, <1>11, <1>12
  DEF Next, DebugEvent, Controller, Iterates

-----------------------------------------------------------------------------
(* The order of a session's phases.                                        *)

\* A handler that fails and a clean stop go through the cleanup, in which the
\* hooks go first and everything else after them; nothing is installed,
\* unloaded or retried once the session has an ending.
PhaseOrder ==
  /\ ending \in {"none", "clean", "failed", "exited"}
  /\ loop \in {"top", "wait", "install", "unload"} => ending = "none"
  /\ loop \in {"cleanup", "release", "detach"} => ending \in {"clean", "failed"}
  /\ ending \in {"clean", "failed"} =>
       loop \in {"cleanup", "release", "continue", "detach", "broken", "over"}
  /\ retry => ending = "none" /\ loop \in {"continue", "retry", "broken", "over"}
  /\ loop = "retry" => retry
  /\ loop \in {"install", "unload"} => trace = "on"
  /\ ending = "none" /\ loop # "over" /\ trace # "off" => trace = "on"
  /\ trace = "on" \/ ending = "clean" => ~killOnExit
  /\ loop = "release" => installed = <<>>
  /\ ending \in {"clean", "failed"} /\ loop \notin {"cleanup", "release"} => installed = <<>>

\* What stays mapped in the target, and when it is gone.
MappingOrder ==
  /\ trace = "on" /\ ending = "none" => image
  /\ trace = "off" => ~ring /\ bypasses = 0
  /\ cleaned /\ ~image => ~ring /\ bypasses = 0
  /\ ending \in {"clean", "failed"} /\ loop \notin {"cleanup", "release"} /\ cleaned => ~image

LEMMA PhaseOrderStep ==
  ASSUME PhaseOrder, [Next]_vars
  PROVE  PhaseOrder'
<1> USE DEF PhaseOrder, Waiting, Then, Fails, memoryVars, imageVars, threadVars, tableVars,
            stopVars, loopVars, endVars, targetVars, sessionVars
<1>1. ASSUME NEW t \in Threads, Thread(t) PROVE PhaseOrder'
  BY <1>1, ThreadFrame
<1>2. CASE HandleCreateProcess
  <2>1. PICK calls \in Reached("Initialize", 4) :
          /\ killOnExit' = (calls = 0)
          /\ IF calls = 4
             THEN trace' = "on" /\ Then("continue") /\ UNCHANGED ending
             ELSE Fails /\ UNCHANGED trace
    BY <1>2 DEF HandleCreateProcess
  <2>0. calls \in 0..4 BY ReachedTyped
  <2>2. Waiting /\ trace = "off" /\ UNCHANGED <<tableVars, stopVars>>
    BY <1>2 DEF HandleCreateProcess
  <2>3. CASE calls = 4
    <3>0. calls # 0 BY <2>3
    <3>1. ~killOnExit' BY <2>1, <3>0
    <3>2. loop' = "continue" /\ ending' = ending /\ trace' = "on" BY <2>1, <2>3
    <3> QED BY <2>2, <3>1, <3>2
  <2>4. CASE calls # 4 BY <2>0, <2>1, <2>2, <2>4
  <2> QED BY <2>3, <2>4
<1>3. ASSUME NEW b \in Bases, NEW name \in Names, HandleLoadDll(b, name) PROVE PhaseOrder'
  <2>1. ConfigureTransport => (loop' = "install" /\ ending' = ending) \/ Fails
    BY DEF ConfigureTransport
  <2> QED BY <1>3, <2>1 DEF HandleLoadDll, LoadReported
<1>4. ASSUME NEW b \in Bases, HandleUnloadDll(b) PROVE PhaseOrder'
  BY <1>4 DEF HandleUnloadDll
<1>5. CASE HandleBreakpoint BY <1>5 DEF HandleBreakpoint
<1>6. CASE HandleExitProcess BY <1>6 DEF HandleExitProcess
<1>7. CASE TryInstallPendingHooks
  BY <1>7 DEF TryInstallPendingHooks, SkipsHook, RefusesHook, InstallsHook, InstallEnds, Installing
<1>8. CASE UnloadHooks BY <1>8 DEF UnloadHooks, KeepsHook, ForgetsHook, UnloadEnds, Unloading
<1>9. CASE CleanupRemote
  BY <1>9 DEF CleanupRemote, RemovesHook, HooksRemoved, ReleasesRemote
<1>10. CASE Iterates
  <2>1. CASE BreaksIn \/ RetriesStop BY <2>1 DEF BreaksIn, RetriesStop
  <2>2. CASE Waits \/ TimesOut \/ WaitFails \/ StopKey
    BY <2>2 DEF Waits, TimesOut, WaitFails, StopKey
  <2>3. CASE ContinuesTarget
    <3>1. ContinuesAt BY <2>3, ContinuesWhere
    <3>2. loop = "continue" /\ UNCHANGED <<endVars, tableVars, retry>>
      BY <2>3 DEF ContinuesTarget
    <3> QED BY <3>1, <3>2 DEF ContinuesAt
  <2>4. CASE Detaches BY <2>4 DEF Detaches
  <2>5. CASE BreaksOff BY <2>5 DEF BreaksOff
  <2> QED BY <1>10, <2>1, <2>2, <2>3, <2>4, <2>5 DEF Iterates
<1>11. CASE UNCHANGED vars BY <1>11 DEF vars
<1>13. ASSUME NEW b \in Bases, NEW name \in Names, HandleUnnamedDll(b, name) PROVE PhaseOrder'
  BY <1>13 DEF HandleUnnamedDll, LoadReported
<1> QED
  BY <1>1, <1>2, <1>3, <1>4, <1>5, <1>6, <1>7, <1>8, <1>9, <1>10, <1>11, <1>13
  DEF Next, DebugEvent, Controller, Iterates

LEMMA MappingOrderStep ==
  ASSUME PhaseOrder, FlagsTyped, MappingOrder, [Next]_vars
  PROVE  MappingOrder'
<1> USE DEF PhaseOrder, FlagsTyped, MappingOrder, Waiting, Then, Fails, memoryVars, imageVars,
            threadVars, tableVars, stopVars, loopVars, endVars, targetVars, sessionVars
<1>1. ASSUME NEW t \in Threads, Thread(t) PROVE MappingOrder'
  BY <1>1, ThreadFrame
<1>2. CASE HandleCreateProcess
  <2>1. PICK calls \in Reached("Initialize", 4) :
          /\ image' = (calls >= 2)
          /\ ring' = (calls = 4)
          /\ IF calls = 4
             THEN trace' = "on" /\ Then("continue") /\ UNCHANGED ending
             ELSE Fails /\ UNCHANGED trace
    BY <1>2 DEF HandleCreateProcess
  <2>0. calls \in 0..4 BY ReachedTyped
  <2>2. Waiting /\ trace = "off" /\ UNCHANGED <<cleaned, bypasses>>
    BY <1>2 DEF HandleCreateProcess
  <2>3. CASE calls = 4
    <3>0. calls >= 2 BY <2>3
    <3>1. image' = TRUE BY <2>1, <3>0, Zenon
    <3>2. loop' = "continue" /\ ending' = ending /\ trace' = "on" BY <2>1, <2>3
    <3> QED BY <2>2, <3>1, <3>2
  <2>4. CASE calls # 4
    <3>1. ring' = FALSE /\ loop' = "cleanup" /\ ending' = "failed" /\ trace' = "off" /\ bypasses' = 0
      BY <2>0, <2>1, <2>2, <2>4
    <3> QED BY <3>1
  <2> QED BY <2>3, <2>4
<1>3. ASSUME NEW b \in Bases, NEW name \in Names, HandleLoadDll(b, name) PROVE MappingOrder'
  BY <1>3 DEF HandleLoadDll, LoadReported, ConfigureTransport
<1>4. ASSUME NEW b \in Bases, HandleUnloadDll(b) PROVE MappingOrder'
  BY <1>4 DEF HandleUnloadDll
<1>5. CASE HandleBreakpoint BY <1>5 DEF HandleBreakpoint
<1>6. CASE HandleExitProcess BY <1>6 DEF HandleExitProcess
<1>7. CASE TryInstallPendingHooks
  BY <1>7 DEF TryInstallPendingHooks, SkipsHook, RefusesHook, InstallsHook, InstallEnds, Installing
<1>8. CASE UnloadHooks
  BY <1>8 DEF UnloadHooks, KeepsHook, ForgetsHook, UnloadEnds, Unloading
<1>9. CASE CleanupRemote
  <2>1. CASE RemovesHook BY <2>1 DEF RemovesHook
  <2>2. CASE HooksRemoved BY <2>2 DEF HooksRemoved
  <2>3. CASE ReleasesRemote BY <2>3 DEF ReleasesRemote
  <2> QED BY <1>9, <2>1, <2>2, <2>3 DEF CleanupRemote
<1>10. CASE Iterates
  <2>1. CASE BreaksIn \/ RetriesStop BY <2>1 DEF BreaksIn, RetriesStop
  <2>2. CASE Waits \/ TimesOut \/ WaitFails \/ StopKey
    BY <2>2 DEF Waits, TimesOut, WaitFails, StopKey
  <2>3. CASE ContinuesTarget
    <3>1. loop = "continue" /\ UNCHANGED <<endVars, imageVars>> BY <2>3 DEF ContinuesTarget
    <3> QED BY <3>1
  <2>4. CASE Detaches BY <2>4 DEF Detaches
  <2>5. CASE BreaksOff BY <2>5 DEF BreaksOff
  <2> QED BY <1>10, <2>1, <2>2, <2>3, <2>4, <2>5 DEF Iterates
<1>11. CASE UNCHANGED vars BY <1>11 DEF vars
<1>13. ASSUME NEW b \in Bases, NEW name \in Names, HandleUnnamedDll(b, name) PROVE MappingOrder'
  BY <1>13 DEF HandleUnnamedDll, LoadReported
<1> QED
  BY <1>1, <1>2, <1>3, <1>4, <1>5, <1>6, <1>7, <1>8, <1>9, <1>10, <1>11, <1>13
  DEF Next, DebugEvent, Controller, Iterates

\* Until DebugSetProcessKillOnExit has succeeded, and in a session that could not
\* even call it, nothing has been put into the target.
NotTaken == killOnExit \/ (trace = "off" /\ ending = "none")
Untaken == NotTaken => Pristine /\ installed = <<>>
untakenVars == <<bytes, trampoline, image, ring, bypasses, installed>>

LEMMA UntakenStays ==
  ASSUME Untaken, UNCHANGED untakenVars, NotTaken' => NotTaken
  PROVE  Untaken'
  BY DEF Untaken, untakenVars, Pristine

LEMMA UntakenStep ==
  ASSUME PhaseOrder, Untaken, [Next]_vars
  PROVE  Untaken'
<1> USE DEF Waiting, Then, Fails, memoryVars, imageVars,
            threadVars, tableVars, stopVars, loopVars, endVars, targetVars, sessionVars
<1>1. ASSUME trace = "on", UNCHANGED killOnExit, trace' # "off" PROVE Untaken'
  <2>1. ~killOnExit BY <1>1 DEF PhaseOrder
  <2> QED BY <1>1, <2>1 DEF Untaken, NotTaken
<1>2. ASSUME NEW t \in Threads, Thread(t) PROVE Untaken'
  <2>1. UNCHANGED <<untakenVars, killOnExit, trace, ending>>
    BY <1>2, ThreadFrame DEF untakenVars
  <2> QED BY <2>1, UntakenStays DEF NotTaken
<1>3. CASE HandleCreateProcess
  <2>1. PICK calls \in Reached("Initialize", 4) :
          /\ killOnExit' = (calls = 0)
          /\ image' = (calls >= 2)
          /\ ring' = (calls = 4)
          /\ IF calls = 4
             THEN trace' = "on" /\ Then("continue") /\ UNCHANGED ending
             ELSE Fails /\ UNCHANGED trace
    BY <1>3 DEF HandleCreateProcess
  <2>2. NotTaken /\ UNCHANGED <<bytes, trampoline, bypasses, installed>>
    BY <1>3 DEF HandleCreateProcess, PhaseOrder, NotTaken
  <2>3. CASE calls = 0
    <3>0. (calls >= 2) = FALSE /\ (calls = 4) = FALSE BY <2>3
    <3>1. image' = FALSE /\ ring' = FALSE BY <2>1, <3>0, Zenon
    <3> QED BY <2>2, <3>1 DEF Untaken, Pristine
  <2>4. CASE calls # 0
    <3>1. killOnExit' = FALSE /\ (trace' = "on" \/ ending' = "failed") BY <2>1, <2>4
    <3> QED BY <3>1 DEF Untaken, NotTaken
  <2> QED BY <2>3, <2>4
<1>4. ASSUME NEW b \in Bases, NEW name \in Names, HandleLoadDll(b, name) PROVE Untaken'
  BY <1>1, <1>4 DEF HandleLoadDll, LoadReported
<1>5. ASSUME NEW b \in Bases, NEW name \in Names, HandleUnnamedDll(b, name) PROVE Untaken'
  BY <1>1, <1>5 DEF HandleUnnamedDll, LoadReported
<1>6. ASSUME NEW b \in Bases, HandleUnloadDll(b) PROVE Untaken'
  BY <1>1, <1>6 DEF HandleUnloadDll
<1>7. CASE HandleBreakpoint BY <1>1, <1>7 DEF HandleBreakpoint
<1>8. CASE HandleExitProcess BY <1>1, <1>8 DEF HandleExitProcess
<1>9. CASE TryInstallPendingHooks
  <2>1. trace = "on"
    BY <1>9 DEF TryInstallPendingHooks, SkipsHook, RefusesHook, InstallsHook, InstallEnds,
                Installing, PhaseOrder
  <2>2. UNCHANGED <<killOnExit, trace>>
    BY <1>9 DEF TryInstallPendingHooks, SkipsHook, RefusesHook, InstallsHook, InstallEnds
  <2> QED BY <1>1, <2>1, <2>2
<1>10. CASE UnloadHooks
  <2>1. trace = "on"
    BY <1>10 DEF UnloadHooks, KeepsHook, ForgetsHook, UnloadEnds, Unloading, PhaseOrder
  <2>2. UNCHANGED <<killOnExit, trace>>
    BY <1>10 DEF UnloadHooks, KeepsHook, ForgetsHook, UnloadEnds
  <2> QED BY <1>1, <2>1, <2>2
<1>11. CASE CleanupRemote
  <2>1. UNCHANGED <<killOnExit, ending>> /\ (trace' = trace \/ trace' = "stopped")
    BY <1>11 DEF CleanupRemote, RemovesHook, HooksRemoved, ReleasesRemote
  <2>2. NotTaken' => NotTaken BY <2>1 DEF NotTaken
  <2>3. CASE ~NotTaken BY <2>2, <2>3 DEF Untaken
  <2>4. CASE NotTaken
    <3>1. Pristine /\ installed = <<>> BY <2>4 DEF Untaken
    <3>2. UNCHANGED untakenVars
      BY <1>11, <3>1 DEF CleanupRemote, RemovesHook, HooksRemoved, ReleasesRemote, Pristine,
                         untakenVars
    <3> QED BY <2>2, <3>2, UntakenStays
  <2> QED BY <2>3, <2>4
<1>12. CASE Iterates
  <2>1. UNCHANGED <<untakenVars, killOnExit, ending>> BY <1>12, IteratesFrame DEF untakenVars
  <2>2. trace' = trace \/ trace' = "stopped"
    BY <1>12 DEF Iterates, BreaksIn, Waits, TimesOut, WaitFails, ContinuesTarget, RetriesStop,
                 Detaches, BreaksOff, StopKey
  <2> QED BY <2>1, <2>2, UntakenStays DEF NotTaken
<1>13. CASE UNCHANGED vars
  <2>1. UNCHANGED <<untakenVars, killOnExit, trace, ending>> BY <1>13 DEF vars, untakenVars
  <2> QED BY <2>1, UntakenStays DEF NotTaken
<1> QED
  BY <1>2, <1>3, <1>4, <1>5, <1>6, <1>7, <1>8, <1>9, <1>10, <1>11, <1>12, <1>13
  DEF Next, DebugEvent, Controller, Iterates

-----------------------------------------------------------------------------
(* The steps that matter to the hook table.                                *)

\* Steps after which the modules, the hook table and the patched memory are
\* what they were.
Idles ==
  \/ \E t \in Threads : Thread(t)
  \/ Iterates \/ HandleCreateProcess \/ HandleBreakpoint \/ HandleExitProcess
  \/ SkipsHook \/ InstallEnds \/ KeepsHook \/ HooksRemoved \/ ReleasesRemote
  \/ UNCHANGED vars

tableMemory == <<loaded, bytes, slot, trampoline, modules, unnamed, installed, forgotten>>

LEMMA IdlesFrame ==
  ASSUME Idles
  PROVE  UNCHANGED tableMemory
<1> USE DEF tableMemory, memoryVars, tableVars, endVars, targetVars, sessionVars
<1>1. CASE \E t \in Threads : Thread(t) BY <1>1, ThreadFrame
<1>2. CASE Iterates BY <1>2, IteratesFrame
<1>3. CASE HandleCreateProcess \/ HandleBreakpoint \/ HandleExitProcess
  BY <1>3 DEF HandleCreateProcess, HandleBreakpoint, HandleExitProcess
<1>4. CASE SkipsHook \/ InstallEnds \/ KeepsHook \/ HooksRemoved \/ ReleasesRemote
  BY <1>4 DEF SkipsHook, InstallEnds, KeepsHook, HooksRemoved, ReleasesRemote
<1>5. CASE UNCHANGED vars BY <1>5 DEF vars
<1> QED BY <1>1, <1>2, <1>3, <1>4, <1>5 DEF Idles

LEMMA StepKinds ==
  ASSUME [Next]_vars
  PROVE  \/ Idles
         \/ \E b \in Bases, name \in Names : HandleLoadDll(b, name)
         \/ \E b \in Bases, name \in Names : HandleUnnamedDll(b, name)
         \/ \E b \in Bases : HandleUnloadDll(b)
         \/ RefusesHook \/ InstallsHook \/ ForgetsHook \/ UnloadEnds \/ RemovesHook
  BY DEF Next, DebugEvent, Controller, TryInstallPendingHooks, UnloadHooks, CleanupRemote,
         Idles, Iterates

\* A module that is not registered is news to the target alone.
LEMMA UnnamedFrame ==
  ASSUME NEW b \in Bases, NEW name \in Names, HandleUnnamedDll(b, name)
  PROVE  /\ "Unnamed" \in Faults /\ loop = "wait" /\ loop' = "continue" /\ trace = "on"
         /\ loaded' = [loaded EXCEPT ![b] = name] /\ loaded[b] \in {Null, name}
         /\ \A i \in DOMAIN modules : modules[i].base # b
         /\ UNCHANGED <<bytes, slot, trampoline, image, activeCalls, place, call, modules, installed,
                        transportConfigured, subject, ending, forgotten, cleaned, trace>>
  BY DEF HandleUnnamedDll, LoadReported, Waiting, Then, memoryVars, imageVars, threadVars, endVars

\* A hook that is refused ends the session; it may leave its slot and its
\* trampoline behind.
LEMMA RefusesFrame ==
  ASSUME RefusesHook
  PROVE  /\ Installing /\ loop = "install" /\ loop' = "cleanup" /\ ending' = "failed"
         /\ UNCHANGED <<loaded, bytes, image, activeCalls, place, call, modules, unnamed, installed,
                        transportConfigured, next, subject, forgotten, cleaned, trace>>
  BY DEF RefusesHook, Installing, Fails, Then, imageVars, threadVars, tableVars

\* The index the loop works at.
LEMMA NextStep ==
  ASSUME next \in Nat \ {0}, [Next]_vars
  PROVE  next' \in Nat \ {0}
<1> USE DEF tableVars, stopVars, loopVars, endVars, targetVars, sessionVars
<1>1. CASE \E t \in Threads : Thread(t) BY <1>1, ThreadFrame
<1>2. CASE Iterates BY <1>2, IteratesFrame
<1>3. CASE HandleCreateProcess \/ HandleBreakpoint \/ HandleExitProcess
  BY <1>3 DEF HandleCreateProcess, HandleBreakpoint, HandleExitProcess
<1>4. ASSUME NEW b \in Bases, NEW name \in Names, HandleLoadDll(b, name) PROVE next' \in Nat \ {0}
  BY <1>4 DEF HandleLoadDll
<1>10. ASSUME NEW b \in Bases, NEW name \in Names, HandleUnnamedDll(b, name)
       PROVE  next' \in Nat \ {0}
  BY <1>10 DEF HandleUnnamedDll
<1>5. ASSUME NEW b \in Bases, HandleUnloadDll(b) PROVE next' \in Nat \ {0}
  BY <1>5 DEF HandleUnloadDll
<1>6. CASE TryInstallPendingHooks
  BY <1>6 DEF TryInstallPendingHooks, SkipsHook, RefusesHook, InstallsHook, InstallEnds, Fails
<1>7. CASE UnloadHooks BY <1>7 DEF UnloadHooks, KeepsHook, ForgetsHook, UnloadEnds
<1>8. CASE CleanupRemote BY <1>8 DEF CleanupRemote, RemovesHook, HooksRemoved, ReleasesRemote
<1>9. CASE UNCHANGED vars BY <1>9 DEF vars
<1> QED
  BY <1>1, <1>2, <1>3, <1>4, <1>5, <1>6, <1>7, <1>8, <1>9, <1>10
  DEF Next, DebugEvent, Controller, Iterates

-----------------------------------------------------------------------------
(* Types of the tables and of the target's memory.                         *)

Code == Hooks \union {Original}
MemoryTyped ==
  /\ loaded \in [Bases -> Names \union {Null}]
  /\ bytes \in [Entries -> Code]
  /\ slot \in [Hooks -> Trampolines \union {Null}]
  /\ trampoline \in [Trampolines -> (Entries \X Code) \union {Null}]
  /\ ModulesTyped
  /\ installed \in Seq(InstalledHook) /\ forgotten \subseteq InstalledHook

\* The hook an installation step is about.
LEMMA InstallsTyped ==
  ASSUME MemoryTyped, next \in Nat \ {0}, Installing, Ready(Definitions[next]), NEW m \in Free
  PROVE  /\ Definitions[next] \in Hooks /\ m \in Trampolines
         /\ Resolved(Definitions[next], m) \in InstalledHook
<1>1. Definitions[next] \in Hooks BY DefinitionTyped
<1>2. m \in Trampolines /\ ~Pending(Definitions[next]) BY DEF Free, Ready
<1> QED BY <1>1, <1>2, ResolvedTyped DEF MemoryTyped, Code

LEMMA UnhookTyped ==
  ASSUME MemoryTyped, NEW hook \in InstalledHook, NEW steps, UnhookFunction(hook, steps)
  PROVE  /\ bytes' \in [Entries -> Code]
         /\ slot' \in [Hooks -> Trampolines \union {Null}]
         /\ trampoline' \in [Trampolines -> (Entries \X Code) \union {Null}]
<1>1. bytes' = bytes \/ bytes' = [bytes EXCEPT ![hook.entry] = hook.saved]
  BY DEF UnhookFunction, Rewrite
<1>2. slot' = slot \/ slot' = [slot EXCEPT ![hook.hook] = Null]
  BY DEF UnhookFunction
<1>3. trampoline' = trampoline \/ trampoline' = [trampoline EXCEPT ![hook.trampoline] = Null]
  BY DEF UnhookFunction
<1>4. hook.saved \in Code BY DEF InstalledHook, Code
<1>5. bytes' \in [Entries -> Code] BY <1>1, <1>4 DEF MemoryTyped
<1>6. slot' \in [Hooks -> Trampolines \union {Null}] BY <1>2 DEF MemoryTyped
<1>7. trampoline' \in [Trampolines -> (Entries \X Code) \union {Null}] BY <1>3 DEF MemoryTyped
<1> QED BY <1>5, <1>6, <1>7

LEMMA ReleaseTyped ==
  ASSUME MemoryTyped, NEW hook, NEW cleared, NEW freed, ReleaseUnloadedHook(hook, cleared, freed)
  PROVE  /\ bytes' \in [Entries -> Code]
         /\ slot' \in [Hooks -> Trampolines \union {Null}]
         /\ trampoline' \in [Trampolines -> (Entries \X Code) \union {Null}]
<1>1. slot' = slot \/ slot' = [slot EXCEPT ![hook.hook] = Null]
  BY DEF ReleaseUnloadedHook
<1>2. trampoline' = trampoline \/ trampoline' = [trampoline EXCEPT ![hook.trampoline] = Null]
  BY DEF ReleaseUnloadedHook
<1>3. slot' \in [Hooks -> Trampolines \union {Null}] BY <1>1 DEF MemoryTyped
<1>4. trampoline' \in [Trampolines -> (Entries \X Code) \union {Null}] BY <1>2 DEF MemoryTyped
<1> QED BY <1>3, <1>4 DEF MemoryTyped, ReleaseUnloadedHook

LEMMA GivesBackTyped ==
  ASSUME MemoryTyped, NEW hook \in InstalledHook, NEW written, GivesBack(hook, written)
  PROVE  /\ slot' \in [Hooks -> Trampolines \union {Null}]
         /\ trampoline' \in [Trampolines -> (Entries \X Code) \union {Null}]
<1>1. PICK v \in Entries \X Code : v = <<hook.entry, hook.saved>>
  BY DEF InstalledHook, Code
<1>2. /\ slot' = slot \/ slot' = [slot EXCEPT ![hook.hook] = Null]
         \/ slot' = [slot EXCEPT ![hook.hook] = hook.trampoline]
      /\ trampoline' = trampoline \/ trampoline' = [trampoline EXCEPT ![hook.trampoline] = v]
  BY <1>1 DEF GivesBack
<1>3. hook.trampoline \in Trampolines BY DEF InstalledHook
<1>4. slot' \in [Hooks -> Trampolines \union {Null}] BY <1>2, <1>3 DEF MemoryTyped
<1>5. trampoline' \in [Trampolines -> (Entries \X Code) \union {Null}]
  BY <1>1, <1>2 DEF MemoryTyped
<1> QED BY <1>4, <1>5

LEMMA MemoryTypedStep ==
  ASSUME MemoryTyped, next \in Nat \ {0}, [Next]_vars
  PROVE  MemoryTyped'
<1> USE DEF memoryVars, tableVars, endVars, targetVars, sessionVars
<1>1. CASE Idles
  <2>1. UNCHANGED tableMemory BY <1>1, IdlesFrame
  <2> QED BY <2>1 DEF MemoryTyped, ModulesTyped, tableMemory
<1>2. ASSUME NEW b \in Bases, NEW name \in Names, HandleLoadDll(b, name) PROVE MemoryTyped'
  <2>1. /\ loaded' = [loaded EXCEPT ![b] = name]
        /\ UNCHANGED <<bytes, slot, trampoline, installed, forgotten>>
    BY <1>2 DEF HandleLoadDll, LoadReported
  <2>2. modules' = Append(modules, [base |-> b, name |-> name]) BY <1>2 DEF HandleLoadDll
  <2>3. modules' \in Seq([base : Bases, name : Names])
    BY <2>2 DEF MemoryTyped, ModulesTyped
  <2> QED BY <2>1, <2>3 DEF MemoryTyped, ModulesTyped
<1>3. ASSUME NEW b \in Bases, HandleUnloadDll(b) PROVE MemoryTyped'
  <2>1. /\ loaded' = [loaded EXCEPT ![b] = Null]
        /\ UNCHANGED <<slot, trampoline, modules, installed, forgotten>>
        /\ bytes' = [e \in Entries |-> IF e[1] = b THEN Original ELSE bytes[e]]
    BY <1>3 DEF HandleUnloadDll
  <2>2. bytes' \in [Entries -> Code] BY <2>1 DEF MemoryTyped, Code
  <2> QED BY <2>1, <2>2 DEF MemoryTyped, ModulesTyped
<1>4. CASE InstallsHook
  <2>1. PICK m \in Free, ok \in Outcomes("Patch") :
          LET hook == Resolved(Definitions[next], m)
          IN /\ HookFunction(hook, ok)
             /\ IF ok THEN installed' = Append(installed, hook) ELSE installed' = installed
    BY <1>4 DEF InstallsHook
  <2>2. Installing /\ Ready(Definitions[next]) /\ UNCHANGED <<loaded, modules, forgotten>>
    BY <1>4 DEF InstallsHook
  <2> DEFINE hook == Resolved(Definitions[next], m)
  <2>3. hook \in InstalledHook BY <2>2, InstallsTyped
  <2>4. HookFunction(hook, ok) /\ (installed' = Append(installed, hook) \/ installed' = installed)
    BY <2>1
  <2> HIDE DEF hook
  <2>5. /\ hook.entry \in Entries /\ hook.hook \in Hooks /\ hook.trampoline \in Trampolines
        /\ hook.saved \in Code
    BY <2>3 DEF InstalledHook, Code
  <2>6. bytes' \in [Entries -> Code] BY <2>4, <2>5 DEF HookFunction, Rewrite, MemoryTyped, Code
  <2>7. ASSUME ok
        PROVE  /\ slot' \in [Hooks -> Trampolines \union {Null}]
               /\ trampoline' \in [Trampolines -> (Entries \X Code) \union {Null}]
    <3>1. slot' = [slot EXCEPT ![hook.hook] = hook.trampoline] BY <2>4, <2>7 DEF HookFunction
    <3>2. PICK v \in Entries \X Code : v = <<hook.entry, hook.saved>> BY <2>5
    <3>3. trampoline' = [trampoline EXCEPT ![hook.trampoline] = v]
      BY <2>4, <2>7, <3>2 DEF HookFunction
    <3> QED BY <2>5, <3>1, <3>3 DEF MemoryTyped
  <2>8. ASSUME ~ok
        PROVE  /\ slot' \in [Hooks -> Trampolines \union {Null}]
               /\ trampoline' \in [Trampolines -> (Entries \X Code) \union {Null}]
    <3>1. GivesBack(hook, TRUE) BY <2>4, <2>8 DEF HookFunction
    <3> QED BY <2>3, <3>1, GivesBackTyped
  <2>9. installed' \in Seq(InstalledHook) BY <2>3, <2>4 DEF MemoryTyped
  <2> QED BY <2>2, <2>6, <2>7, <2>8, <2>9 DEF MemoryTyped, ModulesTyped
<1>5. CASE ForgetsHook
  <2>1. next \in DOMAIN installed BY <1>5 DEF ForgetsHook, Unloading, MemoryTyped
  <2>2. installed[next] \in InstalledHook BY <2>1, ElementTyped DEF MemoryTyped
  <2>3. /\ bytes' \in [Entries -> Code]
        /\ slot' \in [Hooks -> Trampolines \union {Null}]
        /\ trampoline' \in [Trampolines -> (Entries \X Code) \union {Null}]
    <3>1. \/ \E cleared, freed \in Outcomes("Release") :
               ReleaseUnloadedHook(installed[next], cleared, freed)
          \/ \E steps \in Reached("UnhookOnUnload", 3) : UnhookFunction(installed[next], steps)
      BY <1>5 DEF ForgetsHook
    <3> QED BY <2>2, <3>1, ReleaseTyped, UnhookTyped
  <2>4. installed' \in Seq(InstalledHook)
    BY <1>5, <2>1, RemoveAtWithout DEF ForgetsHook, MemoryTyped
  <2>5. forgotten' \subseteq InstalledHook
    <3>1. forgotten' = forgotten \/ forgotten' = forgotten \union {installed[next]}
      BY <1>5 DEF ForgetsHook, Forgets
    <3> QED BY <2>2, <3>1 DEF MemoryTyped
  <2> QED BY <1>5, <2>3, <2>4, <2>5 DEF ForgetsHook, MemoryTyped, ModulesTyped
<1>6. CASE UnloadEnds
  <2>1. modules' = modules \/ \E i \in DOMAIN modules : modules' = RemoveAt(modules, i)
    BY <1>6 DEF UnloadEnds
  <2>2. ModulesTyped' BY <2>1, RemoveAtWithout DEF ModulesTyped, MemoryTyped
  <2> QED BY <1>6, <2>2 DEF UnloadEnds, MemoryTyped
<1>7. CASE RemovesHook
  <2>1. installed \in Seq(InstalledHook) /\ installed # <<>> BY <1>7 DEF RemovesHook, MemoryTyped
  <2>2. Last(installed) \in InstalledHook BY <2>1, FrontWithout, ElementTyped
  <2>3. \E steps \in Reached("Unhook", 3) : UnhookFunction(Last(installed), steps)
    BY <1>7 DEF RemovesHook
  <2>4. /\ bytes' \in [Entries -> Code]
        /\ slot' \in [Hooks -> Trampolines \union {Null}]
        /\ trampoline' \in [Trampolines -> (Entries \X Code) \union {Null}]
    BY <2>2, <2>3, UnhookTyped
  <2>5. installed' \in Seq(InstalledHook) BY <1>7, <2>1, FrontWithout DEF RemovesHook
  <2> QED BY <1>7, <2>4, <2>5 DEF RemovesHook, MemoryTyped, ModulesTyped
<1>8. ASSUME NEW b \in Bases, NEW name \in Names, HandleUnnamedDll(b, name) PROVE MemoryTyped'
  BY <1>8 DEF HandleUnnamedDll, LoadReported, MemoryTyped, ModulesTyped
<1>9. CASE RefusesHook
  <2>1. UNCHANGED <<loaded, bytes, modules, installed, forgotten>> BY <1>9 DEF RefusesHook
  <2>2. CASE UNCHANGED <<slot, trampoline>> BY <2>1, <2>2 DEF MemoryTyped, ModulesTyped
  <2>3. ASSUME NEW m \in Free, NEW written, GivesBack(Resolved(Definitions[next], m), written)
        PROVE  MemoryTyped'
    <3>1. Resolved(Definitions[next], m) \in InstalledHook
      BY <1>9, InstallsTyped DEF RefusesHook
    <3> QED BY <2>1, <2>3, <3>1, GivesBackTyped DEF MemoryTyped, ModulesTyped
  <2> QED BY <1>9, <2>2, <2>3 DEF RefusesHook
<1> QED BY <1>1, <1>2, <1>3, <1>4, <1>5, <1>6, <1>7, <1>8, <1>9, StepKinds

-----------------------------------------------------------------------------
(* The target's threads and the counter of their calls.                    *)

CallRecord == [entry : Entries \union {Null}, hook : Hooks \union {Null},
               trampoline : Trampolines \union {Null}]
CountedThreads == {t \in Threads : place[t] \in Counted}

\* A thread in the instrumentation knows what it called and which handler it is
\* in, and the counter counts every thread that would still have to count
\* itself out: terminated threads make it too high, never too low.
ThreadsTyped ==
  /\ place \in [Threads -> Places]
  /\ call \in [Threads -> CallRecord]
  /\ \A t \in Threads :
       /\ place[t] \in Instrumented \union {"prologue"} => call[t].entry \in Entries
       /\ place[t] \in Instrumented => call[t].hook \in Hooks
  /\ activeCalls \in Nat
  /\ IsFiniteSet(CountedThreads)
  /\ Cardinality(CountedThreads) <= activeCalls

\* A step that counts nobody in or out.
LEMMA CountedStays ==
  ASSUME ThreadsTyped, UNCHANGED activeCalls,
         \A t \in Threads : place'[t] \in Counted => place[t] \in Counted
  PROVE  /\ activeCalls' \in Nat /\ IsFiniteSet(CountedThreads')
         /\ Cardinality(CountedThreads') <= activeCalls'
<1>1. CountedThreads' \subseteq CountedThreads BY DEF CountedThreads
<1>2. IsFiniteSet(CountedThreads') /\ Cardinality(CountedThreads') <= Cardinality(CountedThreads)
  BY <1>1, FS_Subset DEF ThreadsTyped
<1>3. Cardinality(CountedThreads') \in Nat /\ Cardinality(CountedThreads) \in Nat
  BY <1>2, FS_CardinalityType DEF ThreadsTyped
<1> QED BY <1>2, <1>3 DEF ThreadsTyped

LEMMA RewriteThreads ==
  ASSUME ThreadsTyped, NEW entry, NEW code, Rewrite(entry, code), UNCHANGED <<activeCalls, call>>
  PROVE  ThreadsTyped'
<1>1. \A t \in Threads : place'[t] = place[t] \/ place'[t] = "lost" BY DEF Rewrite
<1>2. place' \in [Threads -> Places] BY DEF Rewrite, ThreadsTyped, Places
<1>3. \A t \in Threads : place'[t] \in Counted => place[t] \in Counted BY <1>1 DEF Counted
<1>4. \A t \in Threads :
        /\ place'[t] \in Instrumented \union {"prologue"} => call'[t].entry \in Entries
        /\ place'[t] \in Instrumented => call'[t].hook \in Hooks
  BY <1>1 DEF ThreadsTyped, Instrumented, InImage, Counted
<1> QED BY <1>2, <1>3, <1>4, CountedStays DEF ThreadsTyped

\* Who but a thread moves threads: patching an export under one, and the end
\* of the process.
LEMMA ControllerThreads ==
  ASSUME [Next]_vars, ~\E t \in Threads : Thread(t)
  PROVE  \/ UNCHANGED threadVars
         \/ UNCHANGED <<activeCalls, call>> /\ \E entry, code : Rewrite(entry, code)
         \/ HandleExitProcess
<1> USE DEF threadVars, targetVars
<1>1. CASE HandleCreateProcess \/ HandleBreakpoint
  BY <1>1 DEF HandleCreateProcess, HandleBreakpoint
<1>2. CASE \E b \in Bases, name \in Names : HandleLoadDll(b, name) \/ HandleUnnamedDll(b, name)
  BY <1>2 DEF HandleLoadDll, HandleUnnamedDll
<1>3. CASE \E b \in Bases : HandleUnloadDll(b) BY <1>3 DEF HandleUnloadDll
<1>4. CASE TryInstallPendingHooks
  BY <1>4 DEF TryInstallPendingHooks, SkipsHook, RefusesHook, InstallsHook, InstallEnds, HookFunction
<1>5. CASE KeepsHook \/ UnloadEnds \/ HooksRemoved \/ ReleasesRemote
  BY <1>5 DEF KeepsHook, UnloadEnds, HooksRemoved, ReleasesRemote
<1>6. CASE ForgetsHook BY <1>6 DEF ForgetsHook, ReleaseUnloadedHook, UnhookFunction
<1>7. CASE RemovesHook BY <1>7 DEF RemovesHook, UnhookFunction
<1>8. CASE Iterates BY <1>8, IteratesFrame
<1>9. CASE UNCHANGED vars BY <1>9 DEF vars
<1> QED
  BY <1>1, <1>2, <1>3, <1>4, <1>5, <1>6, <1>7, <1>8, <1>9
  DEF Next, DebugEvent, Controller, UnloadHooks, CleanupRemote, Iterates

LEMMA ThreadsTypedStep ==
  ASSUME MemoryTyped, ThreadsTyped, [Next]_vars
  PROVE  ThreadsTyped'
<1>1. ASSUME NEW t \in Threads, Thread(t) PROVE ThreadsTyped'
  <2> USE DEF Goes, At
  <2>1. place \in [Threads -> Places] /\ call \in [Threads -> CallRecord] BY DEF ThreadsTyped
  <2>2. CASE EntersHandler(t)
    <3>1. CountedThreads' = CountedThreads \union {t} /\ t \notin CountedThreads
      BY <2>1, <2>2 DEF EntersHandler, CountedThreads, Counted, Places
    <3>2. /\ IsFiniteSet(CountedThreads')
          /\ Cardinality(CountedThreads') = Cardinality(CountedThreads) + 1
      BY <3>1, FS_AddElement DEF ThreadsTyped
    <3>3. Cardinality(CountedThreads) \in Nat BY FS_CardinalityType DEF ThreadsTyped
    <3>4. activeCalls' \in Nat /\ Cardinality(CountedThreads') <= activeCalls'
      BY <2>2, <3>2, <3>3 DEF EntersHandler, ThreadsTyped
    <3> QED BY <2>1, <2>2, <3>2, <3>4
      DEF EntersHandler, ThreadsTyped, Places, Instrumented, InImage, Counted
  <2>3. CASE LeavesHandler(t)
    <3>1. CountedThreads' = CountedThreads \ {t} /\ t \in CountedThreads
      BY <2>1, <2>3 DEF LeavesHandler, CountedThreads, Counted, Places
    <3>2. /\ IsFiniteSet(CountedThreads')
          /\ Cardinality(CountedThreads') = Cardinality(CountedThreads) - 1
      BY <3>1, FS_RemoveElement DEF ThreadsTyped
    <3>3. Cardinality(CountedThreads) \in Nat /\ Cardinality(CountedThreads') \in Nat
      BY <3>2, FS_CardinalityType DEF ThreadsTyped
    <3>4. activeCalls' \in Nat /\ Cardinality(CountedThreads') <= activeCalls'
      BY <2>3, <3>2, <3>3 DEF LeavesHandler, ThreadsTyped
    <3> QED BY <2>1, <2>3, <3>2, <3>4
      DEF LeavesHandler, ThreadsTyped, Places, Instrumented, InImage, Counted
  <2>4. ASSUME UNCHANGED activeCalls, place' \in [Threads -> Places], call' \in [Threads -> CallRecord],
               \A u \in Threads \ {t} : place'[u] = place[u] /\ call'[u] = call[u],
               place'[t] \in Counted => place[t] \in Counted,
               place'[t] \in Instrumented \union {"prologue"} => call'[t].entry \in Entries,
               place'[t] \in Instrumented => call'[t].hook \in Hooks
        PROVE  ThreadsTyped'
    <3>1. \A u \in Threads : place'[u] \in Counted => place[u] \in Counted BY <2>4
    <3>2. /\ activeCalls' \in Nat /\ IsFiniteSet(CountedThreads')
          /\ Cardinality(CountedThreads') <= activeCalls'
      BY <2>4, <3>1, CountedStays
    <3>3. ASSUME NEW u \in Threads
          PROVE  /\ place'[u] \in Instrumented \union {"prologue"} => call'[u].entry \in Entries
                 /\ place'[u] \in Instrumented => call'[u].hook \in Hooks
      BY <2>4 DEF ThreadsTyped
    <3> QED BY <2>4, <3>2, <3>3 DEF ThreadsTyped
  <2> HIDE DEF Goes, At
  <2>5. NoCall \in CallRecord BY DEF NoCall, CallRecord
  <2> USE DEF Goes, At, Places, Instrumented, InImage, Counted
  <2>6. CASE Calls(t)
    <3>1. PICK e \in Entries : call' = [call EXCEPT ![t].entry = e]
      BY <2>6 DEF Calls, Entry, Entries
    <3>2. call' \in [Threads -> CallRecord] BY <2>1, <3>1 DEF CallRecord
    <3>3. call'[t].entry \in Entries BY <2>1, <3>1 DEF CallRecord
    <3> QED BY <2>1, <2>4, <2>6, <3>1, <3>2, <3>3 DEF Calls
  <2>7. CASE RunsUnhooked(t)
    BY <2>1, <2>4, <2>5, <2>7 DEF RunsUnhooked
  <2>8. CASE RunsJump(t)
    <3>1. call[t].entry \in Entries /\ call[t] \in CallRecord BY <2>1, <2>8 DEF RunsJump, ThreadsTyped
    <3>2. PICK h \in Hooks : h = bytes[call[t].entry]
      BY <2>8, <3>1 DEF RunsJump, MemoryTyped, Code
    <3>3. call' = [call EXCEPT ![t].hook = h] BY <2>8, <3>2 DEF RunsJump
    <3>4. call' \in [Threads -> CallRecord] BY <2>1, <3>3 DEF CallRecord
    <3>5. call'[t].hook = h /\ call'[t].entry = call[t].entry BY <2>1, <3>3 DEF CallRecord
    <3> QED BY <2>1, <2>4, <2>8, <3>1, <3>3, <3>4, <3>5 DEF RunsJump
  <2>9. CASE CallsOriginal(t)
    <3>1. call[t].hook \in Hooks /\ call[t].entry \in Entries BY <2>9 DEF CallsOriginal, ThreadsTyped
    <3>2. PICK m \in Trampolines \union {Null} : m = slot[call[t].hook]
      BY <3>1 DEF MemoryTyped
    <3>3. call' = [call EXCEPT ![t].trampoline = m] BY <2>9, <3>2 DEF CallsOriginal
    <3>4. call' \in [Threads -> CallRecord] BY <2>1, <3>3 DEF CallRecord
    <3>5. call'[t].hook = call[t].hook /\ call'[t].entry = call[t].entry
      BY <2>1, <3>3 DEF CallRecord
    <3> QED BY <2>1, <2>4, <2>9, <3>1, <3>3, <3>4, <3>5 DEF CallsOriginal
  <2>10. CASE RunsTrampoline(t) \/ Returns(t)
    <3>1. call[t].hook \in Hooks /\ call[t].entry \in Entries
      BY <2>10 DEF RunsTrampoline, Returns, ThreadsTyped
    <3> QED BY <2>1, <2>4, <2>10, <3>1 DEF RunsTrampoline, Returns
  <2>11. CASE ReturnsToCaller(t)
    BY <2>1, <2>4, <2>5, <2>11 DEF ReturnsToCaller
  <2>12. CASE Crashes(t) BY <2>1, <2>4, <2>12 DEF Crashes
  <2>13. CASE Killed(t) BY <2>1, <2>4, <2>5, <2>13 DEF Killed
  <2> QED
    BY <1>1, <2>2, <2>3, <2>6, <2>7, <2>8, <2>9, <2>10, <2>11, <2>12, <2>13 DEF Thread, InHook
<1>2. CASE UNCHANGED threadVars
  BY <1>2 DEF ThreadsTyped, threadVars, CountedThreads
<1>3. CASE UNCHANGED <<activeCalls, call>> /\ \E entry, code : Rewrite(entry, code)
  BY <1>3, RewriteThreads
<1>4. CASE HandleExitProcess
  <2>1. place' = [t \in Threads |-> "dead"] /\ call' = [t \in Threads |-> NoCall]
        /\ UNCHANGED activeCalls
    BY <1>4 DEF HandleExitProcess
  <2>2. \A t \in Threads : place'[t] \in Counted => place[t] \in Counted BY <2>1 DEF Counted
  <2>3. place' \in [Threads -> Places] /\ call' \in [Threads -> CallRecord]
    BY <2>1 DEF Places, CallRecord, NoCall
  <2>4. \A t \in Threads : place'[t] \notin Instrumented \union {"prologue"}
    BY <2>1 DEF Instrumented, InImage, Counted
  <2> QED BY <2>1, <2>2, <2>3, <2>4, CountedStays DEF ThreadsTyped
<1> QED BY <1>1, <1>2, <1>3, <1>4, ControllerThreads

-----------------------------------------------------------------------------
(* Type correctness, put together.                                         *)

Loops == {"top", "wait", "install", "unload", "cleanup", "release", "continue", "retry", "detach",
          "broken", "over"}
LoopTyped ==
  /\ loop \in Loops
  /\ next \in Nat \ {0} /\ subject \in Bases \union {Null}
  /\ bypasses \in 0..2 /\ breaksPending \in Nat
  /\ trace \in {"off", "on", "stopped", "drained"}
  /\ unnamed \subseteq Bases

LEMMA LoopTypedStep ==
  ASSUME LoopTyped, [Next]_vars
  PROVE  LoopTyped'
<1> USE DEF LoopTyped, Loops, Then, Fails, memoryVars, imageVars, threadVars, tableVars, stopVars,
            loopVars, endVars, targetVars, sessionVars
<1>0. next' \in Nat \ {0} BY NextStep
<1>1. ASSUME NEW t \in Threads, Thread(t) PROVE LoopTyped'
  BY <1>1, ThreadFrame
<1>2. CASE HandleCreateProcess BY <1>2, <1>0 DEF HandleCreateProcess
<1>3. ASSUME NEW b \in Bases, NEW name \in Names, HandleLoadDll(b, name) PROVE LoopTyped'
  BY <1>3, <1>0 DEF HandleLoadDll, LoadReported, ConfigureTransport
<1>4. ASSUME NEW b \in Bases, HandleUnloadDll(b) PROVE LoopTyped'
  BY <1>4, <1>0 DEF HandleUnloadDll
<1>5. CASE HandleBreakpoint
  <2>1. breaksPending' \in Nat BY <1>5 DEF HandleBreakpoint
  <2>2. loop' \in {"cleanup", "continue"} BY <1>5 DEF HandleBreakpoint
  <2>3. UNCHANGED <<subject, bypasses, trace, unnamed>> BY <1>5 DEF HandleBreakpoint
  <2> QED BY <1>0, <2>1, <2>2, <2>3
<1>6. CASE HandleExitProcess BY <1>6, <1>0 DEF HandleExitProcess
<1>7. CASE TryInstallPendingHooks
  BY <1>7, <1>0 DEF TryInstallPendingHooks, SkipsHook, RefusesHook, InstallsHook, InstallEnds
<1>8. CASE UnloadHooks BY <1>8, <1>0 DEF UnloadHooks, KeepsHook, ForgetsHook, UnloadEnds
<1>9. CASE CleanupRemote
  <2>1. CASE RemovesHook BY <2>1, <1>0 DEF RemovesHook
  <2>2. CASE HooksRemoved BY <2>2, <1>0 DEF HooksRemoved
  <2>3. CASE ReleasesRemote BY <2>3, <1>0 DEF ReleasesRemote
  <2> QED BY <1>9, <2>1, <2>2, <2>3 DEF CleanupRemote
<1>10. CASE Iterates
  <2>0. UNCHANGED <<subject, bypasses, unnamed>> BY <1>10, IteratesFrame
  <2>1. CASE BreaksIn \/ RetriesStop
    BY <2>1, <1>0 DEF BreaksIn, RetriesStop
  <2>2. CASE Waits \/ TimesOut \/ WaitFails \/ StopKey
    BY <2>2, <1>0 DEF Waits, TimesOut, WaitFails, StopKey
  <2>3. CASE ContinuesTarget
    <3>1. ContinuesAt BY <2>3, ContinuesWhere
    <3>2. UNCHANGED <<trace, breaksPending>> BY <2>3 DEF ContinuesTarget
    <3> QED BY <1>0, <2>0, <3>1, <3>2 DEF ContinuesAt
  <2>4. CASE Detaches BY <2>4, <1>0 DEF Detaches
  <2>5. CASE BreaksOff
    <3>1. loop' = "over" /\ trace' \in {trace, "stopped"} /\ UNCHANGED breaksPending
      BY <2>5 DEF BreaksOff
    <3> QED BY <1>0, <2>0, <3>1
  <2> QED BY <1>10, <2>1, <2>2, <2>3, <2>4, <2>5 DEF Iterates
<1>11. CASE UNCHANGED vars BY <1>11 DEF vars
<1>13. ASSUME NEW b \in Bases, NEW name \in Names, HandleUnnamedDll(b, name) PROVE LoopTyped'
  BY <1>13, <1>0 DEF HandleUnnamedDll, LoadReported
<1> QED
  BY <1>1, <1>2, <1>3, <1>4, <1>5, <1>6, <1>7, <1>8, <1>9, <1>10, <1>11, <1>13
  DEF Next, DebugEvent, Controller, Iterates

\* Everything above together, for later proofs.
SessionInv ==
  FlagsTyped /\ LoopTyped /\ MemoryTyped /\ ThreadsTyped /\ PhaseOrder /\ MappingOrder

LEMMA SessionInvInit == Init => SessionInv
<1> SUFFICES ASSUME Init PROVE SessionInv OBVIOUS
<1>1. FlagsTyped /\ PhaseOrder /\ MappingOrder BY DEF Init, FlagsTyped, PhaseOrder, MappingOrder
<1>2. LoopTyped BY DEF Init, LoopTyped, Loops
<1>3. MemoryTyped
  <2>1. loaded \in [Bases -> Names \union {Null}] BY DEF Init
  <2>2. bytes \in [Entries -> Code] /\ slot \in [Hooks -> Trampolines \union {Null}]
        /\ trampoline \in [Trampolines -> (Entries \X Code) \union {Null}]
    BY DEF Init, Code
  <2>3. modules = <<>> /\ installed = <<>> /\ forgotten = {} BY DEF Init
  <2> QED BY <2>1, <2>2, <2>3 DEF MemoryTyped, ModulesTyped
<1>4. ThreadsTyped
  <2>1. place \in [Threads -> Places] /\ call \in [Threads -> CallRecord]
    BY DEF Init, Places, CallRecord, NoCall
  <2>2. CountedThreads = {} /\ activeCalls = 0 BY DEF Init, CountedThreads, Counted
  <2>3. \A t \in Threads : place[t] \notin Instrumented \union {"prologue"}
    BY DEF Init, Instrumented, InImage, Counted
  <2> QED BY <2>1, <2>2, <2>3, FS_EmptySet DEF ThreadsTyped
<1> QED BY <1>1, <1>2, <1>3, <1>4 DEF SessionInv

LEMMA SessionInvStep == SessionInv /\ [Next]_vars => SessionInv'
<1> SUFFICES ASSUME SessionInv, [Next]_vars PROVE SessionInv' OBVIOUS
<1>1. FlagsTyped' BY FlagsStep DEF SessionInv
<1>2. LoopTyped' BY LoopTypedStep DEF SessionInv
<1>3. MemoryTyped' BY MemoryTypedStep DEF SessionInv, LoopTyped
<1>4. ThreadsTyped' BY ThreadsTypedStep DEF SessionInv
<1>5. PhaseOrder' BY PhaseOrderStep DEF SessionInv
<1>6. MappingOrder' BY MappingOrderStep DEF SessionInv
<1> QED BY <1>1, <1>2, <1>3, <1>4, <1>5, <1>6 DEF SessionInv

\* The order of a session's phases, what is mapped in each of them, and how many
\* threads ActiveHookCalls counts: what every other argument about the event
\* loop rests on.
THEOREM SessionInvHolds == Spec => []SessionInv
  BY SessionInvInit, SessionInvStep, PTL DEF Spec

\* Every variable of the debug session keeps its type; in particular the call
\* counter never falls below zero, whatever threads are killed in a hook, and
\* every record of installedHooks_ is complete when it is added.
THEOREM DebugTypeCorrect == Spec => []DebugTypeOK
<1>1. SessionInv => DebugTypeOK
  BY DEF SessionInv, FlagsTyped, LoopTyped, Loops, MemoryTyped, ModulesTyped, ThreadsTyped,
         PhaseOrder, CallRecord, Code, DebugTypeOK
<1> QED BY <1>1, SessionInvHolds, PTL

\* Whatever call fails and however the loop ends, a living target that was not
\* released from the debugger is one nothing has been put into, or one
\* DebugActiveProcessStop refused to release after the system had been told
\* not to kill it.  That rests on DebugSetProcessKillOnExit being the first call
\* made on the target.
THEOREM EndsDetachedHolds == Spec => []EndsDetached
<1>1. Init => LetGo /\ Untaken BY DEF Init, LetGo, Untaken, Pristine
<1>2. SessionInv /\ LetGo /\ Untaken /\ [Next]_vars => (LetGo /\ Untaken)'
  BY LetGoStep, UntakenStep DEF SessionInv
<1>3. SessionInv /\ LetGo /\ Untaken => EndsDetached
  BY DEF SessionInv, FlagsTyped, LetGo, Untaken, NotTaken, EndsDetached
<1> QED BY <1>1, <1>2, <1>3, SessionInvHolds, PTL DEF Spec
=============================================================================
