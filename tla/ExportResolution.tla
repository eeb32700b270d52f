-------------------------- MODULE ExportResolution --------------------------
(***************************************************************************)
(* How debug_session.cpp finds the code behind a hook's module!export:     *)
(* RegisterModule and HandleUnloadDll keep the module records, FindModule  *)
(* takes the newest of a name, ResolveExportAddress follows forwarders     *)
(* from export table to export table, TryInstallPendingHooks acts on what  *)
(* it finds.  The export tables are the target's and may hold anything;    *)
(* HookFunction succeeds here, its failures are DebugSession's subject.    *)
(* The session is one whose transport is configured.                       *)
(***************************************************************************)
EXTENDS Naturals, FiniteSets, Sequences, SequencesExt

CONSTANTS
  Bases,      \* where the target maps modules
  Names,      \* normalized module names
  Functions,  \* export names
  Spellings,  \* how forwarders write module names
  Normalize,  \* NormalizeModuleName and the default ".dll": spelling -> name
  Hooks,      \* options_.hooks: the exports to hook, in order; the catalogue
              \* normalized their module names, but gave them no ".dll"
  MaxDepth,   \* 8 in ResolveExportAddress
  MaxLoads    \* bound: loads of modules in a behaviour

\* What resolution is asked for; every name it is given is normalized first.
Nodes == {Normalize[s] : s \in Spellings \union Names} \X Functions

ASSUME SpellingAssumption == Normalize \in [Spellings \union Names -> Names]
ASSUME HookAssumption ==
  Hooks \in Seq(Names \X Functions) /\ \A i, j \in DOMAIN Hooks : Hooks[i] = Hooks[j] => i = j
ASSUME DepthAssumption == MaxDepth \in Nat \ {0} /\ MaxLoads \in Nat

\* What an export table says of a function: its code, a forwarder to another
\* module's export, or nothing that can be followed (no such export, an
\* ordinal or malformed forwarder, unreadable memory).
Code == [kind |-> "code"]
Useless == [kind |-> "useless"]
Forward(spelling, f) == [kind |-> "forward", module |-> spelling, export |-> f]
Exports == {Code, Useless} \union {Forward(s, f) : s \in Spellings, f \in Functions}

VARIABLES
  modules,    \* modules_: base -> name, generation, and the module's exports
  generation, \* moduleGeneration_
  installed,  \* installedHooks_: hook -> address and the two module bases
  over        \* a handler failed: the session has been cleaned up

vars == <<modules, generation, installed, over>>

Init ==
  /\ modules = [b \in {} |-> {}]
  /\ generation = 0
  /\ installed = [i \in {} |-> {}]
  /\ over = FALSE

-----------------------------------------------------------------------------
(* Lookup and resolution, over any table of modules.                       *)

With(f, x, value) == [y \in DOMAIN f \union {x} |-> IF y = x THEN value ELSE f[y]]

Loaded(table, name) == {b \in DOMAIN table : table[b].name = name}

Newest(table, name) ==
  {b \in Loaded(table, name) :
     \A c \in Loaded(table, name) : table[c].generation <= table[b].generation}
FindModule(table, name) == CHOOSE b \in Newest(table, name) : TRUE
ExportAt(table, n) == table[FindModule(table, n[1])].exports[n[2]]

Answer(result) == [result |-> result]
ResolvedAt(b, f) == [result |-> "Resolved", address |-> <<b, f>>, target |-> b]

\* ResolveExportAddress calls itself for what a forwarder names; a walk is the
\* arguments of a call.
Walks == [node : Nodes, depth : Nat, visited : SUBSET Nodes]
Start(node) == [node |-> node, depth |-> 0, visited |-> {}]
Target(export) == <<Normalize[export.module], export.export>>
Onward(table, w) ==
  [node |-> Target(ExportAt(table, w.node)), depth |-> w.depth + 1,
   visited |-> w.visited \union {w.node}]

ResolveFromOne(table, node) ==  \* defect: one forwarder too few is followed
  LET Resolve[w \in Walks] ==
        IF w.depth + 1 >= MaxDepth \/ w.node \in w.visited THEN Answer("Error")
        ELSE IF Loaded(table, w.node[1]) = {} THEN Answer("Pending")
        ELSE IF ExportAt(table, w.node) = Useless THEN Answer("Error")
        ELSE IF ExportAt(table, w.node) = Code
        THEN ResolvedAt(FindModule(table, w.node[1]), w.node[2])
        ELSE Resolve[Onward(table, w)]
  IN Resolve[Start(node)]

ResolveAllOrNothing(table, node) ==  \* defect: a module that is not loaded yet is an error
  LET Resolve[w \in Walks] ==
        IF w.depth >= MaxDepth \/ w.node \in w.visited THEN Answer("Error")
        ELSE IF Loaded(table, w.node[1]) = {} THEN Answer("Error")
        ELSE IF ExportAt(table, w.node) = Useless THEN Answer("Error")
        ELSE IF ExportAt(table, w.node) = Code
        THEN ResolvedAt(FindModule(table, w.node[1]), w.node[2])
        ELSE Resolve[Onward(table, w)]
  IN Resolve[Start(node)]

Resolution(table) ==
  LET Resolve[w \in Walks] ==
        IF w.depth >= MaxDepth \/ w.node \in w.visited THEN Answer("Error")
        ELSE IF Loaded(table, w.node[1]) = {} THEN Answer("Pending")
        ELSE IF ExportAt(table, w.node) = Useless THEN Answer("Error")
        ELSE IF ExportAt(table, w.node) = Code
        THEN ResolvedAt(FindModule(table, w.node[1]), w.node[2])
        ELSE Resolve[Onward(table, w)]
  IN Resolve
ResolveExportAddress(table, node) == Resolution(table)[Start(node)]

\* ResolveHookAddress: pending without its own module, whose base is the
\* source.  That module is looked up as the catalogue writes it; only the name
\* given to ResolveExportAddress gets the default ".dll".
SourceName(i) == Hooks[i][1]
NodeOf(i) == <<Normalize[Hooks[i][1]], Hooks[i][2]>>
ResolveHookAddress(table, i) ==
  IF Loaded(table, SourceName(i)) = {} THEN Answer("Pending")
  ELSE ResolveExportAddress(table, NodeOf(i))

\* TryInstallPendingHooks: one pass over the hooks in order; it fails at the
\* first that cannot be resolved or resolves to an address already hooked.
TryHook(table, pass, i) ==
  LET answer == ResolveHookAddress(table, i)
  IN IF pass.failed \/ i \in DOMAIN pass.installed \/ answer.result = "Pending" THEN pass
     ELSE IF answer.result = "Error" THEN [pass EXCEPT !.failed = TRUE]
     ELSE IF \E j \in DOMAIN pass.installed : pass.installed[j].address = answer.address
     THEN [pass EXCEPT !.failed = TRUE]
     ELSE [pass EXCEPT !.installed = With(@, i,
             [address |-> answer.address, target |-> answer.target,
              source |-> FindModule(table, SourceName(i))])]
Passes(table) ==
  LET Pass[n \in 0..Len(Hooks)] ==
        IF n = 0 THEN [installed |-> installed, failed |-> FALSE]
        ELSE TryHook(table, Pass[n - 1], n)
  IN Pass
TryInstallPendingHooks(table) == Passes(table)[Len(Hooks)]

-----------------------------------------------------------------------------
(* Debug events.                                                           *)

Register(b, name, exports) ==
  With(modules, b, [name |-> name, generation |-> generation + 1, exports |-> exports])

\* LOAD_DLL_DEBUG_EVENT; a module whose name cannot be found out is ignored.
HandleLoadDll(b, name, exports) ==
  /\ ~over /\ generation < MaxLoads /\ b \notin DOMAIN modules
  /\ generation' = generation + 1
  /\ modules' = Register(b, name, exports)
  /\ LET pass == TryInstallPendingHooks(modules')
     IN /\ over' = pass.failed
        /\ installed' = IF pass.failed THEN [i \in {} |-> {}] ELSE pass.installed

ForgetOnlySource(b) ==  \* defect: the module the hook's code is in is not looked at
  [i \in {j \in DOMAIN installed : installed[j].source # b} |-> installed[i]]

\* HandleUnloadDll drops the hooks whose code or whose named module goes; a
\* module in the middle of a chain of forwarders may go.
HooksWithout(b) ==
  [i \in {j \in DOMAIN installed : b \notin {installed[j].source, installed[j].target}} |->
     installed[i]]
HandleUnloadDll(b) ==
  /\ ~over /\ b \in DOMAIN modules
  /\ installed' = HooksWithout(b)
  /\ modules' = [c \in DOMAIN modules \ {b} |-> modules[c]]
  /\ UNCHANGED <<generation, over>>

Next ==
  \/ \E b \in Bases, name \in Names, exports \in [Functions -> Exports] :
       HandleLoadDll(b, name, exports)
  \/ \E b \in Bases : HandleUnloadDll(b)

Spec == Init /\ [][Next]_vars

-----------------------------------------------------------------------------
(* Properties.                                                             *)

\* The values of the variables.
ResolutionTypeOK ==
  /\ DOMAIN modules \subseteq Bases
  /\ \A b \in DOMAIN modules :
       modules[b] \in [name : Names, generation : 1..generation, exports : [Functions -> Exports]]
  /\ generation \in 0..MaxLoads
  /\ DOMAIN installed \subseteq DOMAIN Hooks
  /\ over \in BOOLEAN

\* What resolution should find, said with paths: a chain is a sequence of
\* distinct exports of loaded modules, each in the newest module of its name
\* and forwarding to the next; only its last may be of a module not loaded.
ForwardsTo(n, m) ==
  /\ Loaded(modules, n[1]) # {}
  /\ \E s \in Spellings : ExportAt(modules, n) = Forward(s, m[2]) /\ Normalize[s] = m[1]
Paths == {p \in BoundedSeq(Nodes, MaxDepth) :
            p # <<>> /\ \A i, j \in DOMAIN p : p[i] = p[j] => i = j}
Chains(n) == {p \in Paths : p[1] = n /\ \A i \in 1..(Len(p) - 1) : ForwardsTo(p[i], p[i + 1])}

\* ResolveExportAddress finds an address exactly when a chain of at most
\* MaxDepth exports leads to code, and that code; it is pending exactly when
\* a chain ends at a module that is not loaded; it is an error otherwise:
\* chains that are too long, come back, or end in nothing.
ResolutionFollowsChains ==
  \A n \in Nodes :
    LET answer == ResolveExportAddress(modules, n)
        Ends(p) == Loaded(modules, Last(p)[1]) = {}
    IN /\ answer.result = "Pending" <=> \E p \in Chains(n) : Ends(p)
       /\ answer.result = "Resolved" <=>
            \E p \in Chains(n) : ~Ends(p) /\ ExportAt(modules, Last(p)) = Code
       /\ answer.result = "Resolved" =>
            /\ answer.target \in Newest(modules, modules[answer.target].name) /\ answer.address[1] = answer.target
            /\ <<modules[answer.target].name, answer.address[2]>> \in {Last(p) : p \in Chains(n)}

\* An error is final: no module of a name not loaded before makes it anything
\* else, so ending the session at once gives up nothing.
ErrorsAreFinal ==
  [][\A n \in Nodes :
       /\ ResolveExportAddress(modules, n).result = "Error"
       /\ DOMAIN modules \subseteq DOMAIN modules'
       /\ \A b \in DOMAIN modules' \ DOMAIN modules : Loaded(modules, modules'[b].name) = {}
       => ResolveExportAddress(modules', n).result = "Error"]_vars

\* An installed hook always patches code of a module that is loaded, two never
\* the same code, and the module its name refers to is loaded too, whatever
\* generations come and go under its chain of forwarders.
InstalledAreAlive ==
  /\ ResolutionTypeOK
  /\ \A i \in DOMAIN installed :
       /\ {installed[i].source, installed[i].target} \subseteq DOMAIN modules
       /\ modules[installed[i].source].name = SourceName(i)
       /\ installed[i].address[1] = installed[i].target
       /\ modules[installed[i].target].exports[installed[i].address[2]] = Code
  /\ \A i, j \in DOMAIN installed : installed[i].address = installed[j].address => i = j
=============================================================================
