--------------------------- MODULE ResolutionProofs ---------------------------
(***************************************************************************)
(* Proofs about ExportResolution, for any modules, export tables, hooks,   *)
(* spellings and depth limit.  The recursive functions of the module are   *)
(* shown to exist, and facts about them are proved by induction on the     *)
(* depth that ResolveExportAddress counts.                                 *)
(***************************************************************************)
EXTENDS ExportResolution, WellFoundedInduction, SequenceTheorems, TLAPS

-----------------------------------------------------------------------------
(* Induction, with sets in the place of predicates.                        *)

LEMMA NaturalInduction ==
  ASSUME NEW P, 0 \in P, \A k \in Nat : k \in P => k + 1 \in P
  PROVE  Nat \subseteq P
<1> DEFINE T == Nat \ P
           R == OpToRel(<, Nat)
<1>1. SUFFICES ASSUME T # {} PROVE FALSE OBVIOUS
<1>2. \E x \in T : \A y \in T : ~(<<y, x>> \in R)
  <2>1. T \subseteq Nat OBVIOUS
  <2> HIDE DEF T
  <2> QED BY <1>1, <2>1, NatLessThanWellFounded, WFMin
<1>3. PICK x \in T : \A y \in T : ~(y < x)
  <2>1. \A x, y \in Nat : <<y, x>> \in R <=> y < x BY DEF OpToRel
  <2> QED BY <1>2, <2>1
<1>4. x \in Nat /\ x # 0 OBVIOUS
<1>5. x - 1 \in Nat /\ x - 1 < x /\ (x - 1) + 1 = x BY <1>4
<1>6. x - 1 \in P BY <1>3, <1>5
<1> QED BY <1>5, <1>6

\* A set of numbers between 1 and n has a greatest.
LEMMA GreatestExists ==
  \A n \in Nat : \A I \in SUBSET (1..n) : I # {} => \E m \in I : \A i \in I : i <= m
<1> DEFINE P == {n \in Nat : \A I \in SUBSET (1..n) : I # {} => \E m \in I : \A i \in I : i <= m}
<1>1. 0 \in P
  <2>1. \A I \in SUBSET (1..0) : I = {} OBVIOUS
  <2> QED BY <2>1
<1>2. ASSUME NEW k \in Nat, k \in P PROVE k + 1 \in P
  <2> SUFFICES ASSUME NEW I \in SUBSET (1..(k + 1)), I # {}
               PROVE  \E m \in I : \A i \in I : i <= m
    OBVIOUS
  <2>1. CASE k + 1 \in I BY <2>1
  <2>2. CASE k + 1 \notin I
    <3>1. I \subseteq 1..k BY <2>2
    <3> QED BY <1>2, <3>1
  <2> QED BY <2>1, <2>2
<1> HIDE DEF P
<1>3. Nat \subseteq P BY <1>1, <1>2, NaturalInduction
<1> QED BY <1>3 DEF P

\* A function that answers at once or asks itself, one level deeper, exists
\* when there is a deepest level.
Recursion(X, stop, answer, onward, g) ==
  \A x \in X : g[x] = IF x \in stop THEN answer[x] ELSE g[onward[x]]
Deepens(X, N, depth, stop, onward) ==
  \A x \in X : /\ depth[x] >= N => x \in stop
               /\ x \notin stop => depth[onward[x]] = depth[x] + 1

LEMMA TailRecursion ==
  ASSUME NEW X, NEW R, NEW N \in Nat, NEW depth \in [X -> Nat], NEW stop \in SUBSET X,
         NEW answer \in [X -> R], NEW onward \in [X -> X],
         Deepens(X, N, depth, stop, onward)
  PROVE  \E g \in [X -> R] : Recursion(X, stop, answer, onward, g)
<1> USE DEF Deepens
<1> DEFINE Right(g, x) == g[x] = IF x \in stop THEN answer[x] ELSE g[onward[x]]
           P == {k \in Nat : \E g \in [X -> R] : \A x \in X : depth[x] + k >= N => Right(g, x)}
<1>1. 0 \in P
  <2>1. \A x \in X : depth[x] + 0 >= N => Right(answer, x) OBVIOUS
  <2> QED BY <2>1
<1>2. ASSUME NEW k \in Nat, k \in P PROVE k + 1 \in P
  <2>1. PICK g \in [X -> R] : \A x \in X : depth[x] + k >= N => Right(g, x) BY <1>2
  <2> DEFINE h == [x \in X |-> IF x \in stop THEN answer[x] ELSE g[onward[x]]]
  <2>2. h \in [X -> R] OBVIOUS
  <2>3. ASSUME NEW x \in X, depth[x] + (k + 1) >= N PROVE Right(h, x)
    <3>1. CASE x \in stop BY <3>1
    <3>2. CASE x \notin stop
      <4>1. onward[x] \in X /\ depth[onward[x]] + k >= N BY <2>3, <3>2
      <4>2. Right(g, onward[x]) BY <2>1, <4>1
      <4>3. h[onward[x]] = g[onward[x]] BY <4>1, <4>2
      <4> QED BY <3>2, <4>3
    <3> QED BY <3>1, <3>2
  <2> HIDE DEF h
  <2> QED BY <2>2, <2>3
<1> HIDE DEF P
<1>3. N \in P BY <1>1, <1>2, NaturalInduction
<1>4. PICK g \in [X -> R] : \A x \in X : depth[x] + N >= N => Right(g, x) BY <1>3 DEF P
<1>5. \A x \in X : Right(g, x) BY <1>4
<1> QED BY <1>5 DEF Recursion

-----------------------------------------------------------------------------
(* Tables of modules.                                                      *)

Records == [name : Names, generation : Nat, exports : [Functions -> Exports]]
\* What modules_ can be, now or after a load; generations are bounded.
IsTable(table) ==
  /\ DOMAIN table \subseteq Bases
  /\ \A b \in DOMAIN table : table[b] \in Records
  /\ \E g \in Nat : \A b \in DOMAIN table : table[b].generation \in 1..g

\* FindModule answers with a loaded module of that name, none of which is newer.
LEMMA FindModuleFinds ==
  ASSUME NEW table, IsTable(table), NEW name, Loaded(table, name) # {}
  PROVE  /\ FindModule(table, name) \in Newest(table, name)
         /\ FindModule(table, name) \in Loaded(table, name)
<1>1. PICK g \in Nat : \A b \in DOMAIN table : table[b].generation \in 1..g BY DEF IsTable
<1> DEFINE I == {table[b].generation : b \in Loaded(table, name)}
<1>2. I \in SUBSET (1..g) /\ I # {} BY <1>1 DEF Loaded
<1> HIDE DEF I
<1>3. PICK m \in I : \A i \in I : i <= m BY <1>2, GreatestExists
<1>4. PICK b \in Loaded(table, name) : table[b].generation = m BY <1>3 DEF I
<1>5. \A c \in Loaded(table, name) : table[c].generation <= table[b].generation
  BY <1>3, <1>4 DEF I
<1>6. Newest(table, name) # {} BY <1>5 DEF Newest
<1>7. FindModule(table, name) \in Newest(table, name) BY <1>6 DEF FindModule
<1> QED BY <1>7 DEF Newest

LEMMA ExportTyped ==
  ASSUME NEW table, IsTable(table), NEW n \in Nodes, Loaded(table, n[1]) # {}
  PROVE  /\ FindModule(table, n[1]) \in DOMAIN table
         /\ FindModule(table, n[1]) \in Bases
         /\ table[FindModule(table, n[1])].name = n[1]
         /\ ExportAt(table, n) \in Exports
<1>1. FindModule(table, n[1]) \in DOMAIN table /\ table[FindModule(table, n[1])].name = n[1]
  BY FindModuleFinds DEF Loaded
<1>2. table[FindModule(table, n[1])] \in Records BY <1>1 DEF IsTable
<1>3. n[2] \in Functions BY DEF Nodes
<1> QED BY <1>1, <1>2, <1>3 DEF IsTable, Records, ExportAt

-----------------------------------------------------------------------------
(* ResolveExportAddress, unfolded.                                         *)

\* The calls that go on to what a forwarder names.
GoesOn(table, w) ==
  /\ w.depth < MaxDepth /\ w.node \notin w.visited
  /\ Loaded(table, w.node[1]) # {}
  /\ ExportAt(table, w.node) \notin {Useless, Code}

\* The answer of the others.
AnswerAt(table, w) ==
  IF w.depth >= MaxDepth \/ w.node \in w.visited THEN Answer("Error")
  ELSE IF Loaded(table, w.node[1]) = {} THEN Answer("Pending")
  ELSE IF ExportAt(table, w.node) = Useless THEN Answer("Error")
  ELSE ResolvedAt(FindModule(table, w.node[1]), w.node[2])

Results == {Answer("Error"), Answer("Pending")} \union {ResolvedAt(b, f) : b \in Bases, f \in Functions}

LEMMA OnwardTyped ==
  ASSUME NEW table, IsTable(table), NEW w \in Walks, GoesOn(table, w)
  PROVE  /\ Onward(table, w) \in Walks
         /\ Onward(table, w).depth = w.depth + 1
<1>1. w.node \in Nodes /\ w.depth \in Nat /\ w.visited \in SUBSET Nodes BY DEF Walks
<1>2. ExportAt(table, w.node) \in Exports BY <1>1, ExportTyped DEF GoesOn
<1>3. PICK s \in Spellings, f \in Functions : ExportAt(table, w.node) = Forward(s, f)
  BY <1>2 DEF GoesOn, Exports
<1>4. Target(ExportAt(table, w.node)) = <<Normalize[s], f>> BY <1>3 DEF Target, Forward
<1>5. Target(ExportAt(table, w.node)) \in Nodes BY <1>4, SpellingAssumption DEF Nodes
<1> QED BY <1>1, <1>5 DEF Onward, Walks

LEMMA AnswerTyped ==
  ASSUME NEW table, IsTable(table), NEW w \in Walks, ~GoesOn(table, w)
  PROVE  AnswerAt(table, w) \in Results
<1>1. w.node \in Nodes BY DEF Walks
<1>2. w.node[2] \in Functions BY <1>1 DEF Nodes
<1> QED BY <1>1, <1>2, ExportTyped DEF AnswerAt, Results

\* The recursion of ResolveExportAddress is well-founded.
LEMMA ResolutionUnfolds ==
  ASSUME NEW table, IsTable(table)
  PROVE  \A w \in Walks :
           Resolution(table)[w] =
             IF GoesOn(table, w) THEN Resolution(table)[Onward(table, w)] ELSE AnswerAt(table, w)
<1> DEFINE stop == {w \in Walks : ~GoesOn(table, w)}
           depth == [w \in Walks |-> w.depth]
           answer == [w \in Walks |-> IF w \in stop THEN AnswerAt(table, w) ELSE Answer("Error")]
           onward == [w \in Walks |-> IF w \in stop THEN w ELSE Onward(table, w)]
<1>1. MaxDepth \in Nat BY DepthAssumption
<1>2. depth \in [Walks -> Nat] BY DEF Walks
<1>3. answer \in [Walks -> Results] BY AnswerTyped DEF Results
<1>4. onward \in [Walks -> Walks] BY OnwardTyped
<1>5. \A w \in Walks : depth[w] >= MaxDepth => w \in stop
  BY <1>1, <1>2 DEF GoesOn
<1>6. \A w \in Walks : w \notin stop => depth[onward[w]] = depth[w] + 1
  BY OnwardTyped
<1>7. stop \in SUBSET Walks OBVIOUS
<1> HIDE DEF stop, depth, answer, onward
<1>8. PICK g \in [Walks -> Results] :
        Recursion(Walks, stop, answer, onward, g)
  <2>1. Deepens(Walks, MaxDepth, depth, stop, onward) BY <1>5, <1>6 DEF Deepens
  <2> QED BY <1>1, <1>2, <1>3, <1>4, <1>7, <2>1, TailRecursion
<1> DEFINE Body(f, w) ==
      IF w.depth >= MaxDepth \/ w.node \in w.visited THEN Answer("Error")
      ELSE IF Loaded(table, w.node[1]) = {} THEN Answer("Pending")
      ELSE IF ExportAt(table, w.node) = Useless THEN Answer("Error")
      ELSE IF ExportAt(table, w.node) = Code
      THEN ResolvedAt(FindModule(table, w.node[1]), w.node[2])
      ELSE f[Onward(table, w)]
<1>9. \A f : \A w \in Walks :
        Body(f, w) = IF GoesOn(table, w) THEN f[Onward(table, w)] ELSE AnswerAt(table, w)
  BY <1>1 DEF GoesOn, AnswerAt, Walks
<1>10. g = [w \in Walks |-> Body(g, w)]
  <2>1. \A w \in Walks : (IF w \in stop THEN answer[w] ELSE g[onward[w]]) = Body(g, w)
    BY <1>9 DEF stop, answer, onward
  <2> HIDE DEF Body
  <2> QED BY <1>8, <2>1 DEF Recursion
<1>11. Resolution(table) = CHOOSE f : f = [w \in Walks |-> Body(f, w)]
  BY DEF Resolution
<1> HIDE DEF Body
<1>12. Resolution(table) = [w \in Walks |-> Body(Resolution(table), w)] BY <1>10, <1>11
<1>13. ASSUME NEW w \in Walks
       PROVE  Resolution(table)[w] =
                IF GoesOn(table, w) THEN Resolution(table)[Onward(table, w)] ELSE AnswerAt(table, w)
  <2>1. Resolution(table)[w] = Body(Resolution(table), w) BY <1>12
  <2> QED BY <1>9, <2>1
<1> QED BY <1>13

\* What holds of the calls that answer at once and is handed back by the others
\* holds of all.
LEMMA WalkInduction ==
  ASSUME NEW table, IsTable(table), NEW S,
         \A w \in Walks : ~GoesOn(table, w) => w \in S,
         \A w \in Walks : GoesOn(table, w) /\ Onward(table, w) \in S => w \in S
  PROVE  Walks \subseteq S
<1> DEFINE P == {k \in Nat : \A w \in Walks : w.depth + k >= MaxDepth => w \in S}
<1>0. MaxDepth \in Nat /\ \A w \in Walks : w.depth \in Nat BY DepthAssumption DEF Walks
<1>1. 0 \in P
  <2>1. \A w \in Walks : w.depth + 0 >= MaxDepth => w \in S BY <1>0 DEF GoesOn
  <2> QED BY <2>1
<1>2. ASSUME NEW k \in Nat, k \in P PROVE k + 1 \in P
  <2> SUFFICES ASSUME NEW w \in Walks, w.depth + (k + 1) >= MaxDepth PROVE w \in S
    OBVIOUS
  <2> SUFFICES ASSUME GoesOn(table, w) PROVE w \in S OBVIOUS
  <2>1. Onward(table, w) \in Walks /\ Onward(table, w).depth + k >= MaxDepth
    BY <1>0, OnwardTyped
  <2>2. Onward(table, w) \in S BY <1>2, <2>1
  <2> QED BY <2>2
<1> HIDE DEF P
<1>3. MaxDepth \in P BY <1>0, <1>1, <1>2, NaturalInduction
<1> QED BY <1>0, <1>3 DEF P

\* Whatever is found is code of a loaded module, and of its newest generation.
Found(table, answer) ==
  answer.result = "Resolved" =>
    /\ answer.target \in DOMAIN table
    /\ answer.target \in Newest(table, table[answer.target].name)
    /\ answer.address[1] = answer.target /\ answer.address[2] \in Functions
    /\ table[answer.target].exports[answer.address[2]] = Code

LEMMA ResolutionFinds ==
  ASSUME NEW table, IsTable(table), NEW w \in Walks
  PROVE  Resolution(table)[w] \in Results /\ Found(table, Resolution(table)[w])
<1> DEFINE S == {v \in Walks : Resolution(table)[v] \in Results /\ Found(table, Resolution(table)[v])}
<1>1. ASSUME NEW v \in Walks, ~GoesOn(table, v) PROVE v \in S
  <2>1. Resolution(table)[v] = AnswerAt(table, v) BY <1>1, ResolutionUnfolds
  <2>0. AnswerAt(table, v) \in Results BY <1>1, AnswerTyped
  <2> SUFFICES ASSUME AnswerAt(table, v).result = "Resolved" PROVE Found(table, AnswerAt(table, v))
    BY <2>0, <2>1 DEF Found
  <2>2. /\ Loaded(table, v.node[1]) # {} /\ ExportAt(table, v.node) = Code
        /\ AnswerAt(table, v) = ResolvedAt(FindModule(table, v.node[1]), v.node[2])
    BY <1>1, DepthAssumption DEF AnswerAt, GoesOn, Answer, Walks
  <2>3. v.node \in Nodes /\ v.node[2] \in Functions BY DEF Walks, Nodes
  <2>4. /\ FindModule(table, v.node[1]) \in DOMAIN table
        /\ table[FindModule(table, v.node[1])].name = v.node[1]
    BY <2>2, <2>3, ExportTyped
  <2>5. FindModule(table, v.node[1]) \in Newest(table, v.node[1]) BY <2>2, FindModuleFinds
  <2> QED BY <2>2, <2>3, <2>4, <2>5 DEF Found, ResolvedAt, ExportAt
<1>2. ASSUME NEW v \in Walks, GoesOn(table, v), Onward(table, v) \in S PROVE v \in S
  BY <1>2, ResolutionUnfolds
<1> HIDE DEF S
<1>3. w \in S BY <1>1, <1>2, WalkInduction
<1> QED BY <1>3 DEF S

-----------------------------------------------------------------------------
(* TryInstallPendingHooks.                                                 *)

\* A pass over the hooks, unfolded.
PassStep(table, g, n) ==
  IF n = 0 THEN [installed |-> installed, failed |-> FALSE] ELSE TryHook(table, g[n - 1], n)
PassUpTo(table, g, k) ==
  g = [n \in 0..k |-> g[n]] /\ \A n \in 0..k : g[n] = PassStep(table, g, n)

LEMMA PassesUnfold ==
  ASSUME NEW table
  PROVE  /\ Passes(table)[0] = [installed |-> installed, failed |-> FALSE]
         /\ \A n \in 1..Len(Hooks) : Passes(table)[n] = TryHook(table, Passes(table)[n - 1], n)
<1> DEFINE P == {k \in Nat : \E g : PassUpTo(table, g, k)}
<1>0. Len(Hooks) \in Nat BY HookAssumption
<1>1. 0 \in P
  <2> DEFINE g == [n \in 0..0 |-> PassStep(table, <<>>, 0)]
  <2>1. g = [n \in 0..0 |-> g[n]] /\ \A n \in 0..0 : n = 0 /\ g[n] = PassStep(table, <<>>, 0)
    OBVIOUS
  <2>2. PassStep(table, g, 0) = PassStep(table, <<>>, 0) BY DEF PassStep
  <2> HIDE DEF g
  <2>3. PassUpTo(table, g, 0) BY <2>1, <2>2 DEF PassUpTo
  <2> QED BY <2>3
<1>2. ASSUME NEW k \in Nat, k \in P PROVE k + 1 \in P
  <2>1. PICK g : PassUpTo(table, g, k) BY <1>2
  <2> DEFINE h == [n \in 0..(k + 1) |-> IF n = k + 1 THEN TryHook(table, g[k], n) ELSE g[n]]
  <2>2. h = [n \in 0..(k + 1) |-> h[n]] OBVIOUS
  <2>3. \A n \in 0..k : h[n] = g[n] OBVIOUS
  <2>4. h[k + 1] = TryHook(table, g[k], k + 1) OBVIOUS
  <2> HIDE DEF h
  <2>5. ASSUME NEW n \in 0..(k + 1) PROVE h[n] = PassStep(table, h, n)
    <3>1. CASE n = 0
      <4>1. h[n] = g[n] /\ g[n] = PassStep(table, g, n) BY <2>1, <2>3, <3>1 DEF PassUpTo
      <4> QED BY <3>1, <4>1 DEF PassStep
    <3>2. CASE n # 0 /\ n # k + 1
      <4>1. n - 1 \in 0..k /\ n \in 0..k BY <3>2
      <4>2. h[n - 1] = g[n - 1] /\ h[n] = g[n] BY <2>3, <4>1
      <4>3. g[n] = TryHook(table, g[n - 1], n) BY <2>1, <3>2, <4>1 DEF PassUpTo, PassStep
      <4> QED BY <3>2, <4>2, <4>3 DEF PassStep
    <3>3. CASE n = k + 1
      <4>1. n - 1 = k /\ n # 0 /\ h[k] = g[k] BY <2>3, <3>3
      <4> QED BY <2>4, <3>3, <4>1 DEF PassStep
    <3> QED BY <3>1, <3>2, <3>3
  <2>6. PassUpTo(table, h, k + 1) BY <2>2, <2>5 DEF PassUpTo
  <2> QED BY <2>6
<1> HIDE DEF P
<1>3. Len(Hooks) \in P BY <1>0, <1>1, <1>2, NaturalInduction
<1>4. PICK g : PassUpTo(table, g, Len(Hooks)) BY <1>3 DEF P
<1>5. g = [n \in 0..Len(Hooks) |-> PassStep(table, g, n)] BY <1>4 DEF PassUpTo
<1>6. Passes(table) = CHOOSE f : f = [n \in 0..Len(Hooks) |-> PassStep(table, f, n)]
  BY DEF Passes, PassStep
<1>7. Passes(table) = [n \in 0..Len(Hooks) |-> PassStep(table, Passes(table), n)]
  BY <1>5, <1>6
<1>8. \A n \in 0..Len(Hooks) : Passes(table)[n] = PassStep(table, Passes(table), n) BY <1>7
<1>9. 0 \in 0..Len(Hooks) /\ \A n \in 1..Len(Hooks) : n \in 0..Len(Hooks) /\ n # 0 BY <1>0
<1> QED BY <1>8, <1>9 DEF PassStep

\* What is kept of an installed hook agrees with the table.
Alive(table, i, k) ==
  /\ k.source \in DOMAIN table /\ k.target \in DOMAIN table
  /\ table[k.source].name = SourceName(i)
  /\ k.address[1] = k.target
  /\ table[k.target].exports[k.address[2]] = Code
AllAlive(table, hooks) ==
  /\ DOMAIN hooks \subseteq DOMAIN Hooks
  /\ \A i \in DOMAIN hooks : Alive(table, i, hooks[i])
  /\ \A i, j \in DOMAIN hooks : hooks[i].address = hooks[j].address => i = j

IsPass(table, pass) ==
  \E hooks, failed : /\ pass = [installed |-> hooks, failed |-> failed]
                     /\ failed \in BOOLEAN /\ AllAlive(table, hooks)

LEMMA NodeTyped ==
  ASSUME NEW i \in DOMAIN Hooks
  PROVE  NodeOf(i) \in Nodes
<1>1. Hooks[i] \in Names \X Functions BY HookAssumption
<1> QED BY <1>1, SpellingAssumption DEF NodeOf, Nodes

LEMMA TryHookAlive ==
  ASSUME NEW table, IsTable(table), NEW pass, IsPass(table, pass), NEW i \in DOMAIN Hooks
  PROVE  IsPass(table, TryHook(table, pass, i))
<1>1. PICK hooks, failed : /\ pass = [installed |-> hooks, failed |-> failed]
                           /\ failed \in BOOLEAN /\ AllAlive(table, hooks)
  BY DEF IsPass
<1> DEFINE answer == ResolveHookAddress(table, i)
           k == [address |-> answer.address, target |-> answer.target,
                 source |-> FindModule(table, SourceName(i))]
<1>2. CASE TryHook(table, pass, i) = pass BY <1>2
<1>3. CASE TryHook(table, pass, i) = [pass EXCEPT !.failed = TRUE]
  <2>1. TryHook(table, pass, i) = [installed |-> hooks, failed |-> TRUE] BY <1>1, <1>3
  <2> QED BY <1>1, <2>1 DEF IsPass
<1>4. CASE /\ TryHook(table, pass, i) = [pass EXCEPT !.installed = With(@, i, k)]
           /\ answer.result # "Pending" /\ answer.result # "Error"
           /\ i \notin DOMAIN hooks
           /\ \A j \in DOMAIN hooks : hooks[j].address # answer.address
  <2>1. TryHook(table, pass, i) = [installed |-> With(hooks, i, k), failed |-> failed]
    BY <1>1, <1>4
  <2>2. Loaded(table, SourceName(i)) # {} /\ answer = Resolution(table)[Start(NodeOf(i))]
    BY <1>4 DEF ResolveHookAddress, ResolveExportAddress, Answer
  <2>3. Start(NodeOf(i)) \in Walks BY NodeTyped DEF Start, Walks
  <2>4. answer \in Results /\ Found(table, answer) BY <2>2, <2>3, ResolutionFinds
  <2>5. answer.result = "Resolved" BY <1>4, <2>4 DEF Results, Answer, ResolvedAt
  <2>6. /\ FindModule(table, SourceName(i)) \in DOMAIN table
        /\ table[FindModule(table, SourceName(i))].name = SourceName(i)
    BY <2>2, FindModuleFinds DEF Loaded
  <2> HIDE DEF answer
  <2>7. Alive(table, i, k) BY <2>4, <2>5, <2>6 DEF Alive, Found
  <2>8. k.address = answer.address OBVIOUS
  <2> HIDE DEF k
  <2>9. AllAlive(table, With(hooks, i, k))
    BY <1>1, <1>4, <2>7, <2>8 DEF AllAlive, With
  <2> QED BY <1>1, <2>1, <2>9 DEF IsPass
<1> QED BY <1>1, <1>2, <1>3, <1>4 DEF TryHook

\* Whenever TryInstallPendingHooks succeeds every hook it leaves is alive.
LEMMA InstallAlive ==
  ASSUME NEW table, IsTable(table), AllAlive(table, installed)
  PROVE  IsPass(table, TryInstallPendingHooks(table))
<1> DEFINE P == {n \in Nat : n <= Len(Hooks) => IsPass(table, Passes(table)[n])}
<1>0. Len(Hooks) \in Nat /\ DOMAIN Hooks = 1..Len(Hooks) BY HookAssumption
<1>1. 0 \in P
  <2>1. Passes(table)[0] = [installed |-> installed, failed |-> FALSE] BY PassesUnfold
  <2>2. IsPass(table, Passes(table)[0]) BY <2>1 DEF IsPass
  <2> QED BY <2>2
<1>2. ASSUME NEW k \in Nat, k \in P PROVE k + 1 \in P
  <2> SUFFICES ASSUME k + 1 <= Len(Hooks) PROVE IsPass(table, Passes(table)[k + 1])
    OBVIOUS
  <2>1. k + 1 \in DOMAIN Hooks /\ (k + 1) - 1 = k BY <1>0
  <2>2. IsPass(table, Passes(table)[k]) BY <1>0, <1>2
  <2>3. Passes(table)[k + 1] = TryHook(table, Passes(table)[k], k + 1)
    BY <1>0, <2>1, PassesUnfold
  <2> QED BY <2>1, <2>2, <2>3, TryHookAlive
<1> HIDE DEF P
<1>3. Len(Hooks) \in P BY <1>0, <1>1, <1>2, NaturalInduction
<1> QED BY <1>0, <1>3 DEF P, TryInstallPendingHooks

-----------------------------------------------------------------------------
(* Installed hooks.                                                        *)

LEMMA TypedTable == ResolutionTypeOK => IsTable(modules)
<1> SUFFICES ASSUME ResolutionTypeOK PROVE IsTable(modules) OBVIOUS
<1>1. generation \in Nat BY DepthAssumption DEF ResolutionTypeOK
<1>2. \A b \in DOMAIN modules :
        modules[b] \in [name : Names, generation : 1..generation, exports : [Functions -> Exports]]
  BY DEF ResolutionTypeOK
<1>3. \A b \in DOMAIN modules : modules[b] \in Records BY <1>1, <1>2 DEF Records
<1>4. \A b \in DOMAIN modules : modules[b].generation \in 1..generation BY <1>2
<1> QED BY <1>1, <1>3, <1>4 DEF IsTable, ResolutionTypeOK

\* A load keeps the table's types.
LEMMA LoadTyped ==
  ASSUME ResolutionTypeOK, NEW b \in Bases, NEW name \in Names,
         NEW exports \in [Functions -> Exports], HandleLoadDll(b, name, exports)
  PROVE  /\ DOMAIN modules' = DOMAIN modules \union {b} /\ DOMAIN modules' \subseteq Bases
         /\ \A c \in DOMAIN modules : c # b /\ modules'[c] = modules[c]
         /\ modules'[b] = [name |-> name, generation |-> generation + 1, exports |-> exports]
         /\ \A c \in DOMAIN modules' :
              modules'[c] \in [name : Names, generation : 1..generation',
                               exports : [Functions -> Exports]]
         /\ generation' \in 0..MaxLoads
<1>1. generation \in 0..MaxLoads /\ MaxLoads \in Nat BY DepthAssumption DEF ResolutionTypeOK
<1>2. /\ generation' = generation + 1 /\ generation < MaxLoads /\ b \notin DOMAIN modules
      /\ modules' = Register(b, name, exports)
  BY DEF HandleLoadDll
<1>3. /\ DOMAIN modules' = DOMAIN modules \union {b}
      /\ \A c \in DOMAIN modules : c # b /\ modules'[c] = modules[c]
      /\ modules'[b] = [name |-> name, generation |-> generation + 1, exports |-> exports]
  BY <1>2 DEF Register, With
<1>4. generation' \in 0..MaxLoads /\ 1..generation \subseteq 1..generation'
      /\ generation + 1 \in 1..generation'
  BY <1>1, <1>2
<1>5. \A c \in DOMAIN modules :
        modules[c] \in [name : Names, generation : 1..generation, exports : [Functions -> Exports]]
  BY DEF ResolutionTypeOK
<1>6. ASSUME NEW c \in DOMAIN modules'
      PROVE  modules'[c] \in [name : Names, generation : 1..generation', exports : [Functions -> Exports]]
  <2>1. CASE c = b BY <1>3, <1>4, <2>1
  <2>2. CASE c # b
    <3>1. c \in DOMAIN modules /\ modules'[c] = modules[c] BY <1>3, <2>2
    <3> QED BY <1>4, <1>5, <3>1
  <2> QED BY <2>1, <2>2
<1> QED BY <1>3, <1>4, <1>6 DEF ResolutionTypeOK

LEMMA AliveInit == Init => InstalledAreAlive
<1> SUFFICES ASSUME Init PROVE InstalledAreAlive OBVIOUS
<1>1. DOMAIN modules = {} /\ DOMAIN installed = {} /\ generation = 0 /\ over = FALSE BY DEF Init
<1>2. generation \in 0..MaxLoads BY <1>1, DepthAssumption
<1>3. over \in BOOLEAN BY <1>1
<1>4. ResolutionTypeOK BY <1>1, <1>2, <1>3 DEF ResolutionTypeOK
<1> QED BY <1>1, <1>4 DEF InstalledAreAlive

LEMMA AliveAll == InstalledAreAlive <=> ResolutionTypeOK /\ AllAlive(modules, installed)
  BY DEF InstalledAreAlive, ResolutionTypeOK, AllAlive, Alive

LEMMA LoadAlive ==
  ASSUME InstalledAreAlive, NEW b \in Bases, NEW name \in Names,
         NEW exports \in [Functions -> Exports], HandleLoadDll(b, name, exports)
  PROVE  InstalledAreAlive'
<1>1. ResolutionTypeOK /\ AllAlive(modules, installed) BY AliveAll
<1>2. PICK T : T = modules' OBVIOUS
<1>3. /\ DOMAIN T = DOMAIN modules \union {b} /\ DOMAIN T \subseteq Bases
      /\ \A c \in DOMAIN modules : T[c] = modules[c]
      /\ \A c \in DOMAIN T :
           T[c] \in [name : Names, generation : 1..generation', exports : [Functions -> Exports]]
      /\ generation' \in 0..MaxLoads
  BY <1>1, <1>2, LoadTyped
<1>4. IsTable(T)
  <2>1. generation' \in Nat BY <1>3, DepthAssumption
  <2>2. \A c \in DOMAIN T : T[c] \in Records /\ T[c].generation \in 1..generation'
    BY <1>3, <2>1 DEF Records
  <2>3. PICK g \in Nat : g = generation' BY <2>1
  <2> QED BY <1>3, <2>2, <2>3 DEF IsTable
<1>5. AllAlive(T, installed) BY <1>1, <1>3 DEF AllAlive, Alive
<1>6. IsPass(T, TryInstallPendingHooks(T)) BY <1>4, <1>5, InstallAlive
<1>7. PICK hooks, failed :
        /\ TryInstallPendingHooks(T) = [installed |-> hooks, failed |-> failed]
        /\ failed \in BOOLEAN /\ AllAlive(T, hooks)
  BY <1>6 DEF IsPass
<1>8. over' = failed /\ installed' = IF failed THEN [i \in {} |-> {}] ELSE hooks
  BY <1>2, <1>7 DEF HandleLoadDll
<1>9. AllAlive(T, installed')
  <2>1. CASE failed
    <3>1. DOMAIN installed' = {} BY <1>8, <2>1
    <3> QED BY <3>1 DEF AllAlive
  <2>2. CASE ~failed BY <1>7, <1>8, <2>2
  <2> QED BY <2>1, <2>2
<1>10. AllAlive(modules', installed') BY <1>2, <1>9
<1>11. ResolutionTypeOK'
  BY <1>2, <1>3, <1>7, <1>8, <1>9 DEF ResolutionTypeOK, AllAlive
<1> QED BY <1>10, <1>11 DEF InstalledAreAlive, AllAlive, Alive

LEMMA UnloadAlive ==
  ASSUME InstalledAreAlive, NEW b \in Bases, HandleUnloadDll(b)
  PROVE  InstalledAreAlive'
<1>1. ResolutionTypeOK /\ AllAlive(modules, installed) BY AliveAll
<1>2. /\ DOMAIN modules' = DOMAIN modules \ {b}
      /\ \A c \in DOMAIN modules' : modules'[c] = modules[c]
      /\ UNCHANGED <<generation, over>>
  BY DEF HandleUnloadDll
<1>3. /\ \A i \in DOMAIN installed' : /\ i \in DOMAIN installed /\ installed'[i] = installed[i]
                                      /\ installed[i].source # b /\ installed[i].target # b
  BY DEF HandleUnloadDll, HooksWithout
<1>4. ResolutionTypeOK' BY <1>1, <1>2, <1>3 DEF ResolutionTypeOK
<1>5. \A i \in DOMAIN installed' :
        /\ installed'[i].source \in DOMAIN modules' /\ installed'[i].target \in DOMAIN modules'
        /\ modules'[installed'[i].source].name = SourceName(i)
        /\ installed'[i].address[1] = installed'[i].target
        /\ modules'[installed'[i].target].exports[installed'[i].address[2]] = Code
  BY <1>1, <1>2, <1>3 DEF AllAlive, Alive
<1>6. \A i, j \in DOMAIN installed' : installed'[i].address = installed'[j].address => i = j
  BY <1>1, <1>3 DEF AllAlive
<1> QED BY <1>4, <1>5, <1>6 DEF InstalledAreAlive

\* An installed hook always patches code of a module that is loaded, no two the
\* same code, however modules and their forwarders come and go: what a chain of
\* forwarders once led to is kept by base, and goes with either end's module.
THEOREM InstalledAreAliveHolds == Spec => []InstalledAreAlive
<1>1. InstalledAreAlive /\ [Next]_vars => InstalledAreAlive'
  <2> SUFFICES ASSUME InstalledAreAlive, [Next]_vars PROVE InstalledAreAlive' OBVIOUS
  <2>1. CASE UNCHANGED vars
    BY <2>1 DEF vars, InstalledAreAlive, ResolutionTypeOK
  <2> QED BY <2>1, LoadAlive, UnloadAlive DEF Next
<1> QED BY <1>1, AliveInit, PTL DEF Spec

-----------------------------------------------------------------------------
(* Errors.                                                                 *)

\* "more" has the modules of "table" and others, of names that were not there.
Extends(table, more) ==
  /\ DOMAIN table \subseteq DOMAIN more
  /\ \A b \in DOMAIN table : more[b] = table[b]
  /\ \A b \in DOMAIN more \ DOMAIN table : Loaded(table, more[b].name) = {}

LEMMA ExtendsLooks ==
  ASSUME NEW table, NEW more, IsTable(table), Extends(table, more), NEW n, Loaded(table, n[1]) # {}
  PROVE  Loaded(more, n[1]) # {} /\ ExportAt(more, n) = ExportAt(table, n)
<1>1. Loaded(more, n[1]) = Loaded(table, n[1]) BY DEF Loaded, Extends
<1>2. \A b \in Loaded(table, n[1]) : more[b] = table[b] BY DEF Loaded, Extends
<1>3. Newest(more, n[1]) = Newest(table, n[1]) BY <1>1, <1>2 DEF Newest
<1>4. FindModule(more, n[1]) = FindModule(table, n[1]) BY <1>3 DEF FindModule
<1>5. FindModule(table, n[1]) \in Loaded(table, n[1]) BY FindModuleFinds
<1> QED BY <1>1, <1>2, <1>4, <1>5 DEF ExportAt

LEMMA ErrorStays ==
  ASSUME NEW table, NEW more, IsTable(table), IsTable(more), Extends(table, more),
         NEW w \in Walks, Resolution(table)[w].result = "Error"
  PROVE  Resolution(more)[w].result = "Error"
<1> DEFINE S == {v \in Walks : Resolution(table)[v].result = "Error" => Resolution(more)[v].result = "Error"}
<1>1. ASSUME NEW v \in Walks, ~GoesOn(table, v) PROVE v \in S
  <2> SUFFICES ASSUME Resolution(table)[v].result = "Error"
               PROVE  Resolution(more)[v].result = "Error"
    OBVIOUS
  <2>1. AnswerAt(table, v).result = "Error" BY <1>1, ResolutionUnfolds
  <2>2. \/ v.depth >= MaxDepth \/ v.node \in v.visited
        \/ Loaded(table, v.node[1]) # {} /\ ExportAt(table, v.node) = Useless
    BY <2>1 DEF AnswerAt, Answer, ResolvedAt
  <2>3. \/ v.depth >= MaxDepth \/ v.node \in v.visited
        \/ Loaded(more, v.node[1]) # {} /\ ExportAt(more, v.node) = Useless
    BY <2>2, ExtendsLooks
  <2>4. v.depth \in Nat /\ MaxDepth \in Nat BY DepthAssumption DEF Walks
  <2>5. ~GoesOn(more, v) /\ AnswerAt(more, v) = Answer("Error")
    BY <2>3, <2>4 DEF GoesOn, AnswerAt
  <2>6. Resolution(more)[v] = Answer("Error") BY <2>5, ResolutionUnfolds
  <2> QED BY <2>6 DEF Answer
<1>2. ASSUME NEW v \in Walks, GoesOn(table, v), Onward(table, v) \in S PROVE v \in S
  <2> SUFFICES ASSUME Resolution(table)[v].result = "Error"
               PROVE  Resolution(more)[v].result = "Error"
    OBVIOUS
  <2>1. Loaded(more, v.node[1]) # {} /\ ExportAt(more, v.node) = ExportAt(table, v.node)
    BY <1>2, ExtendsLooks DEF GoesOn
  <2>2. GoesOn(more, v) /\ Onward(more, v) = Onward(table, v)
    BY <1>2, <2>1 DEF GoesOn, Onward
  <2>3. Resolution(table)[Onward(table, v)].result = "Error" BY <1>2, ResolutionUnfolds
  <2>4. Resolution(more)[Onward(table, v)].result = "Error" BY <1>2, <2>3
  <2> QED BY <2>2, <2>4, ResolutionUnfolds
<1> HIDE DEF S
<1>3. w \in S BY <1>1, <1>2, WalkInduction
<1> QED BY <1>3 DEF S

LEMMA ErrorsStep ==
  ASSUME InstalledAreAlive, InstalledAreAlive', [Next]_vars, NEW n \in Nodes,
         ResolveExportAddress(modules, n).result = "Error",
         DOMAIN modules \subseteq DOMAIN modules',
         \A b \in DOMAIN modules' \ DOMAIN modules : Loaded(modules, modules'[b].name) = {}
  PROVE  ResolveExportAddress(modules', n).result = "Error"
<1>1. PICK T, U : T = modules /\ U = modules' OBVIOUS
<1>2. IsTable(T) /\ IsTable(U)
  <2>1. IsTable(modules) BY TypedTable DEF InstalledAreAlive
  <2>2. IsTable(modules)'
    <3>1. ResolutionTypeOK' BY DEF InstalledAreAlive
    <3> QED BY <3>1, TypedTable, PTL
  <2>3. IsTable(U) BY <1>1, <2>2 DEF IsTable
  <2> QED BY <1>1, <2>1, <2>3
<1>3. Extends(T, U)
  <2>1. \A b \in DOMAIN modules : modules'[b] = modules[b]
    <3>1. CASE UNCHANGED vars BY <3>1 DEF vars
    <3>2. ASSUME NEW b \in Bases, NEW name \in Names, NEW exports \in [Functions -> Exports],
                 HandleLoadDll(b, name, exports)
          PROVE  \A c \in DOMAIN modules : modules'[c] = modules[c]
      BY <3>2, LoadTyped DEF InstalledAreAlive
    <3>3. ASSUME NEW b \in Bases, HandleUnloadDll(b) PROVE FALSE
      BY <3>3 DEF HandleUnloadDll
    <3> QED BY <3>1, <3>2, <3>3 DEF Next
  <2> QED BY <1>1, <2>1 DEF Extends
<1>4. Start(n) \in Walks BY DEF Start, Walks
<1>5. Resolution(T)[Start(n)].result = "Error" BY <1>1 DEF ResolveExportAddress
<1>6. Resolution(U)[Start(n)].result = "Error" BY <1>2, <1>3, <1>4, <1>5, ErrorStays
<1> QED BY <1>1, <1>6 DEF ResolveExportAddress

\* A chain that ends in an error stays one whatever modules of other names are
\* still to come: ending the session at the first error gives up nothing.
THEOREM ErrorsAreFinalHolds == Spec => ErrorsAreFinal
<1>1. InstalledAreAlive /\ InstalledAreAlive' /\ [Next]_vars =>
        [\A n \in Nodes :
           /\ ResolveExportAddress(modules, n).result = "Error"
           /\ DOMAIN modules \subseteq DOMAIN modules'
           /\ \A b \in DOMAIN modules' \ DOMAIN modules : Loaded(modules, modules'[b].name) = {}
           => ResolveExportAddress(modules', n).result = "Error"]_vars
  BY ErrorsStep
<1> QED BY <1>1, InstalledAreAliveHolds, PTL DEF Spec, ErrorsAreFinal

-----------------------------------------------------------------------------
(* Resolution and chains of forwarders.                                    *)

\* Chains, without the bound in which they are enumerated.
IsChain(n, p) ==
  /\ p \in Seq(Nodes) /\ Len(p) \in 1..MaxDepth /\ p[1] = n
  /\ \A i, j \in 1..Len(p) : p[i] = p[j] => i = j
  /\ \A i \in 1..(Len(p) - 1) : ForwardsTo(p[i], p[i + 1])

LEMMA ChainsAre == ASSUME NEW n, NEW p PROVE p \in Chains(n) <=> IsChain(n, p)
<1>0. MaxDepth \in Nat BY DepthAssumption
<1>1. ASSUME p \in BoundedSeq(Nodes, MaxDepth), p # <<>>
      PROVE  p \in Seq(Nodes) /\ Len(p) \in 1..MaxDepth
  <2>1. PICK m \in 0..MaxDepth : p \in [1..m -> Nodes] BY <1>1 DEF BoundedSeq, SeqOf
  <2>2. p \in Seq(Nodes) BY <1>0, <2>1
  <2>3. Len(p) = m BY <1>0, <2>1, <2>2
  <2>4. Len(p) # 0 BY <1>1, <2>2
  <2> QED BY <1>0, <2>2, <2>3, <2>4
<1>2. ASSUME p \in Seq(Nodes), Len(p) \in 1..MaxDepth
      PROVE  p \in BoundedSeq(Nodes, MaxDepth) /\ p # <<>>
  <2>1. p \in [1..Len(p) -> Nodes] BY <1>2
  <2>2. Len(p) \in 0..MaxDepth BY <1>0, <1>2
  <2>3. p # <<>> BY <1>2
  <2> QED BY <2>1, <2>2, <2>3 DEF BoundedSeq, SeqOf
<1>3. p \in Seq(Nodes) => DOMAIN p = 1..Len(p) OBVIOUS
<1> QED BY <1>1, <1>2, <1>3 DEF Chains, Paths, IsChain

\* A chain goes on where ResolveExportAddress does.
LEMMA ForwardsOnward ==
  ASSUME IsTable(modules), NEW n \in Nodes, NEW m \in Nodes
  PROVE  ForwardsTo(n, m) <=>
           /\ Loaded(modules, n[1]) # {} /\ ExportAt(modules, n) \notin {Useless, Code}
           /\ Target(ExportAt(modules, n)) = m
<1>1. m = <<m[1], m[2]>> BY DEF Nodes
<1>2. ASSUME NEW s, ExportAt(modules, n) = Forward(s, m[2]), Normalize[s] = m[1]
      PROVE  /\ ExportAt(modules, n) \notin {Useless, Code}
             /\ Target(ExportAt(modules, n)) = m
  BY <1>1, <1>2 DEF Forward, Useless, Code, Target
<1>3. ASSUME Loaded(modules, n[1]) # {}, ExportAt(modules, n) \notin {Useless, Code},
             Target(ExportAt(modules, n)) = m
      PROVE  \E s \in Spellings : ExportAt(modules, n) = Forward(s, m[2]) /\ Normalize[s] = m[1]
  <2>1. ExportAt(modules, n) \in Exports BY <1>3, ExportTyped
  <2>2. PICK s \in Spellings, f \in Functions : ExportAt(modules, n) = Forward(s, f)
    BY <1>3, <2>1 DEF Exports
  <2>3. m = <<Normalize[s], f>> BY <1>3, <2>2 DEF Target, Forward
  <2> QED BY <2>2, <2>3
<1> QED BY <1>2, <1>3 DEF ForwardsTo

\* The call of ResolveExportAddress for the i-th export of a chain.
CallFor(p, i) == [node |-> p[i], depth |-> i - 1, visited |-> {p[j] : j \in 1..(i - 1)}]

LEMMA CallTyped ==
  ASSUME NEW p \in Seq(Nodes), NEW i \in 1..Len(p)
  PROVE  CallFor(p, i) \in Walks
<1>1. p[i] \in Nodes /\ i - 1 \in Nat BY ElementOfSeq
<1>2. \A j \in 1..(i - 1) : p[j] \in Nodes
  <2> SUFFICES ASSUME NEW j \in 1..(i - 1) PROVE p[j] \in Nodes OBVIOUS
  <2>1. j \in 1..Len(p) BY LenProperties
  <2> QED BY <2>1, ElementOfSeq
<1>3. {p[j] : j \in 1..(i - 1)} \in SUBSET Nodes BY <1>2
<1> QED BY <1>1, <1>3 DEF CallFor, Walks

\* Of an export that forwards it makes the call for the next.
LEMMA CallGoesOn ==
  ASSUME IsTable(modules), NEW p \in Seq(Nodes), NEW i \in 1..(Len(p) - 1),
         i - 1 < MaxDepth, \A j \in 1..(i - 1) : p[i] # p[j], ForwardsTo(p[i], p[i + 1])
  PROVE  /\ GoesOn(modules, CallFor(p, i))
         /\ Onward(modules, CallFor(p, i)) = CallFor(p, i + 1)
<1>0. Len(p) \in Nat /\ i \in 1..Len(p) /\ i + 1 \in 1..Len(p) BY LenProperties
<1>1. p[i] \in Nodes /\ p[i + 1] \in Nodes BY <1>0, ElementOfSeq
<1>2. /\ Loaded(modules, p[i][1]) # {} /\ ExportAt(modules, p[i]) \notin {Useless, Code}
      /\ Target(ExportAt(modules, p[i])) = p[i + 1]
  BY <1>1, ForwardsOnward
<1>3. p[i] \notin {p[j] : j \in 1..(i - 1)} OBVIOUS
<1>4. 1..((i + 1) - 1) = 1..(i - 1) \union {i} /\ (i - 1) + 1 = (i + 1) - 1 BY <1>0
<1>5. {p[j] : j \in 1..((i + 1) - 1)} = {p[j] : j \in 1..(i - 1)} \union {p[i]} BY <1>4
<1> QED BY <1>2, <1>3, <1>4, <1>5 DEF GoesOn, Onward, CallFor

\* So along a chain every call returns what the first one does.
LEMMA ChainAnswers ==
  ASSUME IsTable(modules), NEW n, NEW p, IsChain(n, p)
  PROVE  Resolution(modules)[Start(n)] = Resolution(modules)[CallFor(p, Len(p))]
<1> DEFINE P == {k \in Nat : k + 1 <= Len(p) =>
                   Resolution(modules)[CallFor(p, k + 1)] = Resolution(modules)[Start(n)]}
<1>0. MaxDepth \in Nat /\ p \in Seq(Nodes) /\ Len(p) \in 1..MaxDepth /\ p[1] = n
  BY DepthAssumption DEF IsChain
<1>1. 0 \in P
  <2>1. 0 + 1 = 1 /\ 1 - 1 = 0 /\ {p[j] : j \in 1..0} = {} OBVIOUS
  <2>2. CallFor(p, 1) = Start(n) BY <1>0, <2>1 DEF CallFor, Start
  <2> QED BY <2>1, <2>2
<1>2. ASSUME NEW k \in Nat, k \in P PROVE k + 1 \in P
  <2> SUFFICES ASSUME (k + 1) + 1 <= Len(p)
               PROVE  Resolution(modules)[CallFor(p, (k + 1) + 1)] = Resolution(modules)[Start(n)]
    OBVIOUS
  <2>1. k + 1 \in 1..(Len(p) - 1) /\ k + 1 \in 1..Len(p) /\ (k + 1) - 1 < MaxDepth BY <1>0
  <2>2. \A j \in 1..((k + 1) - 1) : p[k + 1] # p[j]
    <3> SUFFICES ASSUME NEW j \in 1..((k + 1) - 1) PROVE p[k + 1] # p[j] OBVIOUS
    <3>1. j \in 1..Len(p) /\ j # k + 1 BY <1>0, <2>1
    <3> QED BY <2>1, <3>1 DEF IsChain
  <2>3. ForwardsTo(p[k + 1], p[(k + 1) + 1]) BY <2>1 DEF IsChain
  <2>4. /\ GoesOn(modules, CallFor(p, k + 1))
        /\ Onward(modules, CallFor(p, k + 1)) = CallFor(p, (k + 1) + 1)
    BY <1>0, <2>1, <2>2, <2>3, CallGoesOn
  <2>5. CallFor(p, k + 1) \in Walks BY <1>0, <2>1, CallTyped
  <2>6. Resolution(modules)[CallFor(p, k + 1)] = Resolution(modules)[CallFor(p, (k + 1) + 1)]
    BY <2>4, <2>5, ResolutionUnfolds
  <2>7. Resolution(modules)[CallFor(p, k + 1)] = Resolution(modules)[Start(n)] BY <1>0, <1>2, <2>1
  <2> QED BY <2>6, <2>7
<1> HIDE DEF P
<1>3. Nat \subseteq P BY <1>1, <1>2, NaturalInduction
<1>4. Len(p) - 1 \in P BY <1>0, <1>3
<1> QED BY <1>0, <1>4 DEF P

\* The exports gone through on the way to a call; its own may be among them.
IsTrail(n, p, w) ==
  /\ p \in Seq(Nodes) /\ Len(p) \in 1..(MaxDepth + 1) /\ p[1] = n /\ w = CallFor(p, Len(p))
  /\ \A i, j \in 1..(Len(p) - 1) : p[i] = p[j] => i = j
  /\ \A i \in 1..(Len(p) - 1) : ForwardsTo(p[i], p[i + 1])

\* An answer and the chains it stands for.
EndsUnloaded(p) == Loaded(modules, Last(p)[1]) = {}
EndsInCode(p) == ~EndsUnloaded(p) /\ ExportAt(modules, Last(p)) = Code
Explains(n, answer) ==
  /\ answer.result = "Pending" => \E p : IsChain(n, p) /\ EndsUnloaded(p)
  /\ answer.result = "Resolved" =>
       \E p : /\ IsChain(n, p) /\ EndsInCode(p)
              /\ modules[answer.target].name = Last(p)[1] /\ answer.address[2] = Last(p)[2]

LEMMA LastAnswer ==
  ASSUME IsTable(modules), NEW n, NEW p, IsChain(n, p)
  PROVE  /\ EndsUnloaded(p) => Resolution(modules)[CallFor(p, Len(p))] = Answer("Pending")
         /\ EndsInCode(p) => Resolution(modules)[CallFor(p, Len(p))] =
                               ResolvedAt(FindModule(modules, Last(p)[1]), Last(p)[2])
<1>0. /\ MaxDepth \in Nat /\ p \in Seq(Nodes) /\ Len(p) \in 1..MaxDepth
      /\ Len(p) \in 1..Len(p) /\ Len(p) - 1 < MaxDepth
  BY DepthAssumption DEF IsChain
<1>1. Last(p) \notin {p[j] : j \in 1..(Len(p) - 1)}
  <2> SUFFICES ASSUME NEW j \in 1..(Len(p) - 1) PROVE p[Len(p)] # p[j] BY DEF Last
  <2>1. j \in 1..Len(p) /\ j # Len(p) BY <1>0
  <2> QED BY <1>0, <2>1 DEF IsChain
<1> DEFINE w == CallFor(p, Len(p))
<1>2. w.node = Last(p) /\ w.depth = Len(p) - 1 /\ w.visited = {p[j] : j \in 1..(Len(p) - 1)}
  BY DEF CallFor, Last
<1>3. w \in Walks BY <1>0, CallTyped
<1> HIDE DEF w
<1>4. w.depth < MaxDepth /\ ~(w.depth >= MaxDepth) /\ w.node \notin w.visited
  BY <1>0, <1>1, <1>2
<1>5. ASSUME EndsUnloaded(p) PROVE Resolution(modules)[w] = Answer("Pending")
  <2>1. ~GoesOn(modules, w) /\ AnswerAt(modules, w) = Answer("Pending")
    BY <1>2, <1>4, <1>5 DEF GoesOn, AnswerAt, EndsUnloaded
  <2> QED BY <1>3, <2>1, ResolutionUnfolds
<1>6. ASSUME EndsInCode(p)
      PROVE  Resolution(modules)[w] = ResolvedAt(FindModule(modules, Last(p)[1]), Last(p)[2])
  <2>1. Code # Useless BY DEF Code, Useless
  <2>2. /\ ~GoesOn(modules, w)
        /\ AnswerAt(modules, w) = ResolvedAt(FindModule(modules, Last(p)[1]), Last(p)[2])
    BY <1>2, <1>4, <1>6, <2>1 DEF GoesOn, AnswerAt, EndsInCode, EndsUnloaded
  <2> QED BY <1>3, <2>2, ResolutionUnfolds
<1> QED BY <1>5, <1>6 DEF w

LEMMA TrailExplains ==
  ASSUME IsTable(modules), NEW n, NEW w \in Walks
  PROVE  \A p : IsTrail(n, p, w) => Explains(n, Resolution(modules)[w])
<1> DEFINE S == {v \in Walks : \A p : IsTrail(n, p, v) => Explains(n, Resolution(modules)[v])}
<1>0. MaxDepth \in Nat BY DepthAssumption
<1>1. ASSUME NEW v \in Walks, ~GoesOn(modules, v), NEW p, IsTrail(n, p, v)
      PROVE  Explains(n, Resolution(modules)[v])
  <2>1. Resolution(modules)[v] = AnswerAt(modules, v) BY <1>1, ResolutionUnfolds
  <2>2. CASE v.depth >= MaxDepth \/ v.node \in v.visited
    BY <2>1, <2>2 DEF AnswerAt, Explains, Answer
  <2>3. CASE ~(v.depth >= MaxDepth \/ v.node \in v.visited)
    <3>1. /\ p \in Seq(Nodes) /\ Len(p) \in 1..(MaxDepth + 1) /\ v.node = p[Len(p)]
          /\ v.depth = Len(p) - 1 /\ v.visited = {p[j] : j \in 1..(Len(p) - 1)}
      BY <1>1 DEF IsTrail, CallFor
    <3>2. Len(p) \in 1..MaxDepth BY <1>0, <2>3, <3>1
    <3>3. \A j \in 1..(Len(p) - 1) : p[j] # p[Len(p)] BY <2>3, <3>1
    <3>4. ASSUME NEW i \in 1..Len(p), NEW j \in 1..Len(p), p[i] = p[j] PROVE i = j
      <4>1. CASE i = Len(p) /\ j # Len(p)
        <5>1. j \in 1..(Len(p) - 1) BY <3>2, <4>1
        <5> QED BY <3>3, <3>4, <4>1, <5>1
      <4>2. CASE i # Len(p) /\ j = Len(p)
        <5>1. i \in 1..(Len(p) - 1) BY <3>2, <4>2
        <5> QED BY <3>3, <3>4, <4>2, <5>1
      <4>3. CASE i # Len(p) /\ j # Len(p)
        <5>1. i \in 1..(Len(p) - 1) /\ j \in 1..(Len(p) - 1) BY <3>2, <4>3
        <5> QED BY <1>1, <3>4, <5>1 DEF IsTrail
      <4> QED BY <4>1, <4>2, <4>3
    <3>5. IsChain(n, p) BY <1>1, <3>1, <3>2, <3>4 DEF IsTrail, IsChain
    <3>6. v.node = Last(p) /\ v.node \in Nodes BY <3>1 DEF Last, Walks
    <3>7. CASE EndsUnloaded(p)
      <4>1. AnswerAt(modules, v) = Answer("Pending") BY <2>3, <3>6, <3>7 DEF AnswerAt, EndsUnloaded
      <4> QED BY <2>1, <3>5, <3>7, <4>1 DEF Explains, Answer
    <3>8. CASE ~EndsUnloaded(p) /\ ExportAt(modules, v.node) = Useless
      <4>1. AnswerAt(modules, v) = Answer("Error") BY <2>3, <3>6, <3>8 DEF AnswerAt, EndsUnloaded
      <4> QED BY <2>1, <4>1 DEF Explains, Answer
    <3>9. CASE ~EndsUnloaded(p) /\ ExportAt(modules, v.node) # Useless
      <4>1. AnswerAt(modules, v) = ResolvedAt(FindModule(modules, v.node[1]), v.node[2])
        BY <2>3, <3>6, <3>9 DEF AnswerAt, EndsUnloaded
      <4>2. EndsInCode(p)
        BY <1>0, <1>1, <2>3, <3>1, <3>2, <3>6, <3>9 DEF GoesOn, EndsInCode, EndsUnloaded
      <4>3. modules[FindModule(modules, v.node[1])].name = v.node[1]
        BY <3>6, <3>9, ExportTyped DEF EndsUnloaded
      <4> QED BY <2>1, <3>5, <3>6, <4>1, <4>2, <4>3 DEF Explains, ResolvedAt
    <3> QED BY <3>7, <3>8, <3>9
  <2> QED BY <2>2, <2>3
<1>2. ASSUME NEW v \in Walks, GoesOn(modules, v), Onward(modules, v) \in S, NEW p, IsTrail(n, p, v)
      PROVE  Explains(n, Resolution(modules)[v])
  <2>0. Resolution(modules)[v] = Resolution(modules)[Onward(modules, v)] BY <1>2, ResolutionUnfolds
  <2>1. /\ p \in Seq(Nodes) /\ Len(p) \in 1..(MaxDepth + 1) /\ v.node = p[Len(p)]
        /\ v.depth = Len(p) - 1 /\ v.visited = {p[j] : j \in 1..(Len(p) - 1)}
        /\ v.depth < MaxDepth /\ v.node \notin v.visited
    BY <1>2 DEF IsTrail, CallFor, GoesOn
  <2> DEFINE m == Onward(modules, v).node
             q == Append(p, m)
  <2>2. m = Target(ExportAt(modules, v.node)) /\ m \in Nodes /\ v.node \in Nodes
    BY <1>2, OnwardTyped DEF Onward, Walks
  <2>3. ForwardsTo(v.node, m) BY <1>2, <2>2, ForwardsOnward DEF GoesOn
  <2> HIDE DEF m
  <2>4. /\ q \in Seq(Nodes) /\ Len(q) = Len(p) + 1 /\ q[Len(p) + 1] = m
        /\ \A i \in 1..Len(p) : q[i] = p[i]
    BY <2>1, <2>2, AppendProperties
  <2> HIDE DEF q
  <2>5. Len(q) \in 1..(MaxDepth + 1) /\ Len(q) - 1 = Len(p) /\ q[1] = n
    BY <1>0, <1>2, <2>1, <2>4 DEF IsTrail
  <2>6. ASSUME NEW i \in 1..Len(p), NEW j \in 1..Len(p), q[i] = q[j] PROVE i = j
    <3>1. p[i] = p[j] BY <2>4, <2>6
    <3>2. \A k \in 1..(Len(p) - 1) : p[k] # p[Len(p)] BY <2>1
    <3>3. CASE i = Len(p) /\ j # Len(p)
      <4>1. j \in 1..(Len(p) - 1) BY <2>1, <3>3
      <4> QED BY <3>1, <3>2, <3>3, <4>1
    <3>4. CASE i # Len(p) /\ j = Len(p)
      <4>1. i \in 1..(Len(p) - 1) BY <2>1, <3>4
      <4> QED BY <3>1, <3>2, <3>4, <4>1
    <3>5. CASE i # Len(p) /\ j # Len(p)
      <4>1. i \in 1..(Len(p) - 1) /\ j \in 1..(Len(p) - 1) BY <2>1, <3>5
      <4> QED BY <1>2, <3>1, <4>1 DEF IsTrail
    <3> QED BY <3>3, <3>4, <3>5
  <2>7. ASSUME NEW i \in 1..Len(p) PROVE ForwardsTo(q[i], q[i + 1])
    <3>1. CASE i = Len(p) BY <2>1, <2>3, <2>4, <3>1
    <3>2. CASE i # Len(p)
      <4>1. i \in 1..(Len(p) - 1) /\ i + 1 \in 1..Len(p) BY <2>1, <3>2
      <4>2. ForwardsTo(p[i], p[i + 1]) BY <1>2, <4>1 DEF IsTrail
      <4> QED BY <2>4, <4>1, <4>2
    <3> QED BY <3>1, <3>2
  <2>8. Onward(modules, v) = CallFor(q, Len(q))
    <3>1. Onward(modules, v) = [node |-> m, depth |-> v.depth + 1, visited |-> v.visited \union {v.node}]
      BY <2>2 DEF Onward
    <3>2. v.depth + 1 = Len(q) - 1 /\ q[Len(q)] = m BY <2>1, <2>4
    <3>3. 1..(Len(q) - 1) = 1..(Len(p) - 1) \union {Len(p)} BY <2>1, <2>4
    <3>4. \A j \in 1..(Len(p) - 1) : q[j] = p[j] BY <2>1, <2>4
    <3>5. q[Len(p)] = v.node BY <2>1, <2>4
    <3>6. {q[j] : j \in 1..(Len(q) - 1)} = v.visited \union {v.node}
      <4>1. {q[j] : j \in 1..(Len(q) - 1)} = {q[j] : j \in 1..(Len(p) - 1)} \union {q[Len(p)]}
        BY <3>3
      <4>2. {q[j] : j \in 1..(Len(p) - 1)} = {p[j] : j \in 1..(Len(p) - 1)} BY <3>4
      <4>3. {p[j] : j \in 1..(Len(p) - 1)} = v.visited BY <2>1
      <4> QED BY <3>5, <4>1, <4>2, <4>3
    <3> QED BY <3>1, <3>2, <3>6 DEF CallFor
  <2>9. IsTrail(n, q, Onward(modules, v)) BY <2>4, <2>5, <2>6, <2>7, <2>8 DEF IsTrail
  <2> QED BY <1>2, <2>0, <2>9
<1>3. \A v \in Walks : ~GoesOn(modules, v) => v \in S BY <1>1
<1>4. \A v \in Walks : GoesOn(modules, v) /\ Onward(modules, v) \in S => v \in S BY <1>2
<1> HIDE DEF S
<1>5. w \in S BY <1>3, <1>4, WalkInduction
<1> QED BY <1>5 DEF S

LEMMA ChainsExplain ==
  ASSUME InstalledAreAlive, NEW n \in Nodes
  PROVE  LET answer == ResolveExportAddress(modules, n)
         IN /\ answer.result = "Pending" <=> \E p : IsChain(n, p) /\ EndsUnloaded(p)
            /\ answer.result = "Resolved" <=> \E p : IsChain(n, p) /\ EndsInCode(p)
            /\ answer.result = "Resolved" =>
                 /\ answer.target \in Newest(modules, modules[answer.target].name)
                 /\ answer.address[1] = answer.target
                 /\ \E p : /\ IsChain(n, p)
                           /\ <<modules[answer.target].name, answer.address[2]>> = Last(p)
<1>1. IsTable(modules) BY TypedTable DEF InstalledAreAlive
<1>2. Start(n) \in Walks BY DEF Start, Walks
<1> DEFINE answer == Resolution(modules)[Start(n)]
<1>3. answer \in Results /\ Found(modules, answer) BY <1>1, <1>2, ResolutionFinds
<1>4. Explains(n, answer)
  <2> DEFINE p == <<n>>
  <2>1. p \in Seq(Nodes) /\ Len(p) = 1 /\ p[1] = n OBVIOUS
  <2>2. MaxDepth \in Nat BY DepthAssumption
  <2>3. Len(p) \in 1..(MaxDepth + 1) /\ 1..(Len(p) - 1) = {} BY <2>1, <2>2
  <2>4. Start(n) = CallFor(p, Len(p)) BY <2>1, <2>3 DEF Start, CallFor
  <2> HIDE DEF p
  <2>5. IsTrail(n, p, Start(n)) BY <2>1, <2>3, <2>4 DEF IsTrail
  <2> QED BY <1>1, <1>2, <2>5, TrailExplains
<1>5. ASSUME NEW p, IsChain(n, p), EndsUnloaded(p) PROVE answer.result = "Pending"
  BY <1>1, <1>5, ChainAnswers, LastAnswer DEF Answer
<1>6. ASSUME NEW p, IsChain(n, p), EndsInCode(p) PROVE answer.result = "Resolved"
  <2>1. answer = ResolvedAt(FindModule(modules, Last(p)[1]), Last(p)[2])
    BY <1>1, <1>6, ChainAnswers, LastAnswer
  <2> HIDE DEF answer
  <2> QED BY <2>1 DEF ResolvedAt
<1>7. ASSUME NEW p, IsChain(n, p) PROVE Last(p) = <<Last(p)[1], Last(p)[2]>>
  <2>1. p \in Seq(Nodes) /\ Len(p) \in 1..Len(p) BY <1>7, DepthAssumption DEF IsChain
  <2>2. Last(p) \in Nodes BY <2>1, ElementOfSeq DEF Last
  <2> QED BY <2>2 DEF Nodes
<1>8. answer = ResolveExportAddress(modules, n) BY DEF ResolveExportAddress
<1> HIDE DEF answer
<1> QED BY <1>3, <1>4, <1>5, <1>6, <1>7, <1>8 DEF Explains, Found

\* ResolveExportAddress, with its recursion, depth limit and list of visited
\* exports, finds exactly what following the forwarders by definition finds.
THEOREM ResolutionFollowsChainsHolds == Spec => []ResolutionFollowsChains
<1>1. InstalledAreAlive => ResolutionFollowsChains
  BY ChainsExplain, ChainsAre DEF ResolutionFollowsChains, EndsUnloaded, EndsInCode
<1> QED BY <1>1, InstalledAreAliveHolds, PTL
=============================================================================
