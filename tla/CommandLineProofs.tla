-------------------------- MODULE CommandLineProofs --------------------------
(***************************************************************************)
(* Proofs about the command line: whatever arguments the target is given,  *)
(* it takes its command line apart into them; and a session begins exactly *)
(* on a well-formed command line, with the options given.                  *)
(***************************************************************************)
EXTENDS Startup, SequenceTheorems, FiniteSetTheorems, NaturalsInduction, TLAPS

-----------------------------------------------------------------------------
(* Induction, with sets in the place of predicates.                        *)

LEMMA NaturalInduction ==
  ASSUME NEW P, 0 \in P, \A k \in Nat : k \in P => k + 1 \in P
  PROVE  Nat \subseteq P
<1> DEFINE T == Nat \ P
           R == OpToRel(<, Nat)
<1>1. SUFFICES ASSUME T # {} PROVE FALSE OBVIOUS
<1>2. \E x \in T : \A y \in T : ~(<<y, x>> \in R)
  <2>1. T \subseteq Nat OBVIOUS
  <2> HIDE DEF T
  <2> QED BY <1>1, <2>1, NatLessThanWellFounded, WFMin
<1>3. PICK x \in T : \A y \in T : ~(y < x)
  <2>1. \A x, y \in Nat : <<y, x>> \in R <=> y < x BY DEF OpToRel
  <2> QED BY <1>2, <2>1
<1>4. x \in Nat /\ x # 0 OBVIOUS
<1>5. x - 1 \in Nat /\ x - 1 < x /\ (x - 1) + 1 = x BY <1>4
<1>6. x - 1 \in P BY <1>3, <1>5
<1> QED BY <1>5, <1>6

LEMMA SuccessorInduction ==
  ASSUME NEW P, 0 \in P, \A k, m \in Nat : m = k + 1 /\ k \in P => m \in P
  PROVE  Nat \subseteq P
<1>1. \A k \in Nat : k \in P => k + 1 \in P OBVIOUS
<1> QED BY <1>1, NaturalInduction

LEMMA Appending ==
  ASSUME NEW A, NEW s \in Seq(A), NEW a \in A
  PROVE  /\ Append(s, a) \in Seq(A) /\ Len(Append(s, a)) = Len(s) + 1 /\ Len(s) \in Nat
         /\ Append(s, a)[Len(s) + 1] = a /\ \A k \in 1..Len(s) : Append(s, a)[k] = s[k]
         /\ Append(s, a) # <<>>
  OBVIOUS

LEMMA ConcatAppend ==
  ASSUME NEW A, NEW s \in Seq(A), NEW t \in Seq(A), NEW a \in A
  PROVE  s \o Append(t, a) = Append(s \o t, a)
<1>1. <<a>> \in Seq(A) /\ s \o t \in Seq(A) BY ConcatProperties
<1>2. Append(t, a) = t \o <<a>> /\ Append(s \o t, a) = (s \o t) \o <<a>>
  BY <1>1, AppendIsConcat
<1>3. s \o (t \o <<a>>) = (s \o t) \o <<a>> BY <1>1, ConcatAssociative
<1> QED BY <1>2, <1>3

\* Every sequence but the empty one is a shorter one with an element appended.
LEMMA LastSplits ==
  ASSUME NEW A, NEW s \in Seq(A), NEW n \in Nat, Len(s) = n + 1
  PROVE  \E t \in Seq(A), a \in A : Len(t) = n /\ s = Append(t, a)
<1> DEFINE t == [k \in 1..n |-> s[k]]
<1>1. /\ n + 1 \in 1..Len(s) /\ \A k \in 1..n : k \in 1..Len(s) OBVIOUS
<1>2. t \in Seq(A) /\ Len(t) = n BY <1>1
<1>3. s[n + 1] \in A BY <1>1
<1>4. Append(t, s[n + 1]) \in Seq(A) /\ Len(Append(t, s[n + 1])) = n + 1 BY <1>2, <1>3
<1>5. \A k \in 1..(n + 1) : Append(t, s[n + 1])[k] = s[k] BY <1>2, <1>3
<1>6. s = Append(t, s[n + 1]) BY <1>4, <1>5, SeqEqual
<1> QED BY <1>2, <1>3, <1>6

LEMMA SequenceInduction ==
  ASSUME NEW A, NEW P, <<>> \in P, \A s \in Seq(A), a \in A : s \in P => Append(s, a) \in P
  PROVE  Seq(A) \subseteq P
<1> DEFINE N == {n \in Nat : \A s \in Seq(A) : Len(s) = n => s \in P}
<1>1. 0 \in N
  <2>1. \A s \in Seq(A) : Len(s) = 0 => s = <<>> OBVIOUS
  <2> QED BY <2>1
<1>2. ASSUME NEW n \in Nat, n \in N PROVE n + 1 \in N
  <2>1. ASSUME NEW s \in Seq(A), Len(s) = n + 1 PROVE s \in P
    <3>1. PICK t \in Seq(A), a \in A : Len(t) = n /\ s = Append(t, a) BY <2>1, LastSplits
    <3> QED BY <1>2, <3>1
  <2> QED BY <2>1
<1> HIDE DEF N
<1>3. Nat \subseteq N BY <1>1, <1>2, NaturalInduction
<1>4. \A s \in Seq(A) : Len(s) \in N BY <1>3
<1> QED BY <1>4 DEF N

-----------------------------------------------------------------------------
(* Folds.  turn[a] is what element a makes of a value; a run keeps the     *)
(* value after every prefix of s, and FoldOf is the last one.              *)

IsRun(F, base, s, turn) ==
  F[0] = base /\ \A k \in 1..Len(s) : F[k] = turn[s[k]][F[k - 1]]

RunOf(X, turn, base, s) == CHOOSE F : F \in [0..Len(s) -> X] /\ IsRun(F, base, s, turn)

FoldOf(X, turn, base, s) == RunOf(X, turn, base, s)[Len(s)]

LEMMA RunExists ==
  ASSUME NEW A, NEW X, NEW turn \in [A -> [X -> X]], NEW base \in X
  PROVE  \A s \in Seq(A) : \E F \in [0..Len(s) -> X] : IsRun(F, base, s, turn)
<1> DEFINE P == {s \in Seq(A) : \E F \in [0..Len(s) -> X] : IsRun(F, base, s, turn)}
<1>1. <<>> \in P
  <2>1. [k \in 0..0 |-> base] \in [0..Len(<<>>) -> X] OBVIOUS
  <2>2. IsRun([k \in 0..0 |-> base], base, <<>>, turn) BY DEF IsRun
  <2> QED BY <2>1, <2>2, EmptySeq
<1>2. ASSUME NEW s \in Seq(A), NEW a \in A, s \in P PROVE Append(s, a) \in P
  <2>1. PICK F \in [0..Len(s) -> X] : IsRun(F, base, s, turn) BY <1>2
  <2> DEFINE n == Len(s)
             t == Append(s, a)
             G == [k \in 0..(n + 1) |-> IF k = n + 1 THEN turn[a][F[n]] ELSE F[k]]
  <2>2. /\ t \in Seq(A) /\ Len(t) = n + 1 /\ n \in Nat
        /\ t[n + 1] = a /\ \A k \in 1..n : t[k] = s[k]
    BY Appending
  <2> HIDE DEF t, n
  <2>3. F \in [0..n -> X] BY <2>1 DEF n
  <2>4. G \in [0..Len(t) -> X]
    <3>1. F[n] \in X /\ turn[a] \in [X -> X] BY <2>2, <2>3
    <3>2. \A k \in 0..(n + 1) : k # n + 1 => k \in 0..n BY <2>2
    <3> QED BY <2>2, <2>3, <3>1, <3>2
  <2>5. G[0] = base BY <2>1, <2>2 DEF IsRun
  <2>6. ASSUME NEW k \in 1..(n + 1) PROVE G[k] = turn[t[k]][G[k - 1]]
    <3>1. CASE k = n + 1 BY <2>2, <3>1
    <3>2. CASE k # n + 1
      <4>1. k \in 1..n /\ k \in 0..(n + 1) /\ k - 1 \in 0..(n + 1) /\ k - 1 # n + 1 BY <2>2, <3>2
      <4>2. F[k] = turn[s[k]][F[k - 1]] BY <2>1, <4>1 DEF IsRun, n
      <4> QED BY <2>2, <3>2, <4>1, <4>2
    <3> QED BY <3>1, <3>2
  <2> HIDE DEF G
  <2>7. IsRun(G, base, t, turn) BY <2>2, <2>5, <2>6 DEF IsRun
  <2> QED BY <2>2, <2>4, <2>7 DEF t
<1> HIDE DEF P
<1>3. Seq(A) \subseteq P BY <1>1, <1>2, SequenceInduction
<1> QED BY <1>3 DEF P

LEMMA RunUnique ==
  ASSUME NEW A, NEW s \in Seq(A), NEW turn, NEW base, NEW F, NEW G,
         IsRun(F, base, s, turn), IsRun(G, base, s, turn)
  PROVE  \A k \in 0..Len(s) : F[k] = G[k]
<1> DEFINE P == {k \in Nat : k \in 0..Len(s) => F[k] = G[k]}
<1>0. Len(s) \in Nat OBVIOUS
<1>1. 0 \in P BY DEF IsRun
<1>2. ASSUME NEW k \in Nat, k \in P PROVE k + 1 \in P
  <2>1. ASSUME k + 1 \in 0..Len(s) PROVE F[k + 1] = G[k + 1]
    <3>1. k \in 0..Len(s) /\ k + 1 \in 1..Len(s) /\ (k + 1) - 1 = k BY <1>0, <2>1
    <3>2. F[k] = G[k] BY <1>2, <3>1
    <3>3. F[k + 1] = turn[s[k + 1]][F[(k + 1) - 1]] /\ G[k + 1] = turn[s[k + 1]][G[(k + 1) - 1]]
      BY <3>1 DEF IsRun
    <3> QED BY <3>1, <3>2, <3>3
  <2> QED BY <2>1
<1> HIDE DEF P
<1>3. Nat \subseteq P BY <1>1, <1>2, NaturalInduction
<1>4. \A k \in 0..Len(s) : k \in P BY <1>0, <1>3
<1> QED BY <1>4 DEF P

\* What a proof about a fold needs: its type, its value on nothing, and what
\* one more element does to it.
LEMMA FoldTyped ==
  ASSUME NEW A, NEW X, NEW turn \in [A -> [X -> X]], NEW base \in X, NEW s \in Seq(A)
  PROVE  /\ FoldOf(X, turn, base, s) \in X
         /\ IsRun(RunOf(X, turn, base, s), base, s, turn)
<1>1. \E F \in [0..Len(s) -> X] : IsRun(F, base, s, turn) BY RunExists
<1>2. /\ RunOf(X, turn, base, s) \in [0..Len(s) -> X]
      /\ IsRun(RunOf(X, turn, base, s), base, s, turn)
  BY <1>1 DEF RunOf
<1>3. Len(s) \in 0..Len(s) OBVIOUS
<1> QED BY <1>2, <1>3 DEF FoldOf

LEMMA FoldIsRun ==
  ASSUME NEW A, NEW X, NEW turn \in [A -> [X -> X]], NEW base \in X, NEW s \in Seq(A),
         NEW F, IsRun(F, base, s, turn)
  PROVE  FoldOf(X, turn, base, s) = F[Len(s)]
<1>1. IsRun(RunOf(X, turn, base, s), base, s, turn) BY FoldTyped
<1>2. \A k \in 0..Len(s) : RunOf(X, turn, base, s)[k] = F[k] BY <1>1, RunUnique
<1>3. Len(s) \in 0..Len(s) OBVIOUS
<1> QED BY <1>2, <1>3 DEF FoldOf

LEMMA FoldEmpty ==
  ASSUME NEW A, NEW X, NEW turn \in [A -> [X -> X]], NEW base \in X
  PROVE  FoldOf(X, turn, base, <<>>) = base
<1> DEFINE none == <<>>
           F == RunOf(X, turn, base, none)
<1>1. none \in Seq(A) /\ Len(none) = 0 OBVIOUS
<1> HIDE DEF none
<1>2. IsRun(F, base, none, turn) BY <1>1, FoldTyped
<1>3. F[0] = base BY <1>2 DEF IsRun
<1>4. FoldOf(X, turn, base, none) = F[0] BY <1>1 DEF FoldOf
<1> QED BY <1>3, <1>4 DEF none

LEMMA FoldAppend ==
  ASSUME NEW A, NEW X, NEW turn \in [A -> [X -> X]], NEW base \in X, NEW s \in Seq(A), NEW a \in A
  PROVE  FoldOf(X, turn, base, Append(s, a)) = turn[a][FoldOf(X, turn, base, s)]
<1> DEFINE t == Append(s, a)
           n == Len(s)
<1>1. /\ t \in Seq(A) /\ Len(t) = n + 1 /\ n \in Nat
      /\ t[n + 1] = a /\ \A k \in 1..n : t[k] = s[k]
  BY Appending
<1> HIDE DEF t, n
<1>2. PICK F \in [0..Len(t) -> X] : IsRun(F, base, t, turn) BY <1>1, RunExists
<1>3. FoldOf(X, turn, base, t) = F[n + 1] BY <1>1, <1>2, FoldIsRun
<1>4. n + 1 \in 1..Len(t) /\ (n + 1) - 1 = n BY <1>1
<1>5. F[n + 1] = turn[t[n + 1]][F[(n + 1) - 1]] BY <1>2, <1>4 DEF IsRun
<1>6. IsRun(F, base, s, turn)
  <2>1. \A k \in 1..n : k \in 1..Len(t) BY <1>1
  <2> QED BY <1>1, <1>2, <2>1 DEF IsRun, n
<1>7. FoldOf(X, turn, base, s) = F[n] BY <1>6, FoldIsRun DEF n
<1> QED BY <1>1, <1>3, <1>4, <1>5, <1>7 DEF t

\* Folding over two sequences, one after the other.
LEMMA FoldConcat ==
  ASSUME NEW A, NEW X, NEW turn \in [A -> [X -> X]], NEW base \in X, NEW s \in Seq(A)
  PROVE  \A t \in Seq(A) : FoldOf(X, turn, base, s \o t) =
                             FoldOf(X, turn, FoldOf(X, turn, base, s), t)
<1> DEFINE After == FoldOf(X, turn, base, s)
           P == {t \in Seq(A) : FoldOf(X, turn, base, s \o t) = FoldOf(X, turn, After, t)}
<1>0. After \in X BY FoldTyped
<1> HIDE DEF After
<1>1. <<>> \in P
  <2>1. s \o <<>> = s /\ <<>> \in Seq(A) BY ConcatEmptySeq
  <2>2. FoldOf(X, turn, After, <<>>) = After BY <1>0, FoldEmpty
  <2> QED BY <2>1, <2>2 DEF After
<1>2. ASSUME NEW t \in Seq(A), NEW a \in A, t \in P PROVE Append(t, a) \in P
  <2> DEFINE u == s \o t
  <2>0. u \in Seq(A) /\ Append(t, a) \in Seq(A) BY AppendProperties
  <2>1. s \o Append(t, a) = Append(u, a) BY ConcatAppend
  <2> HIDE DEF u
  <2>2. FoldOf(X, turn, base, Append(u, a)) = turn[a][FoldOf(X, turn, base, u)]
    BY <2>0, FoldAppend
  <2>3. FoldOf(X, turn, After, Append(t, a)) = turn[a][FoldOf(X, turn, After, t)]
    BY <1>0, FoldAppend
  <2> QED BY <1>2, <2>0, <2>1, <2>2, <2>3 DEF u
<1> HIDE DEF P
<1>3. Seq(A) \subseteq P BY <1>1, <1>2, SequenceInduction
<1> QED BY <1>3 DEF P, After

-----------------------------------------------------------------------------
(* FoldLeft.  It folds over the positions of its sequence by way of a      *)
(* function on sets of positions, which has to be shown to exist.          *)

LEMMA GreatestExists ==
  \A n \in Nat : \A I \in SUBSET (1..n) : I # {} => \E m \in I : \A i \in I : m >= i
<1> DEFINE P == {n \in Nat : \A I \in SUBSET (1..n) : I # {} => \E m \in I : \A i \in I : m >= i}
<1>1. 0 \in P
  <2>1. \A I \in SUBSET (1..0) : I = {} OBVIOUS
  <2> QED BY <2>1
<1>2. ASSUME NEW k \in Nat, k \in P PROVE k + 1 \in P
  <2>1. ASSUME NEW I \in SUBSET (1..(k + 1)), I # {} PROVE \E m \in I : \A i \in I : m >= i
    <3>1. CASE k + 1 \in I BY <3>1
    <3>2. CASE k + 1 \notin I
      <4>1. I \in SUBSET (1..k) BY <3>2
      <4> QED BY <1>2, <2>1, <4>1
    <3> QED BY <3>1, <3>2
  <2> QED BY <2>1
<1> HIDE DEF P
<1>3. Nat \subseteq P BY <1>1, <1>2, NaturalInduction
<1> QED BY <1>3 DEF P

LEMMA MaxIn ==
  ASSUME NEW n \in Nat, NEW I \in SUBSET (1..n), I # {}
  PROVE  Max(I) \in I /\ \A i \in I : Max(I) >= i
<1>1. \E m \in I : \A i \in I : m >= i BY GreatestExists
<1> QED BY <1>1 DEF Max

LEMMA MaxOfFirst ==
  ASSUME NEW k \in Nat, k # 0
  PROVE  Max(1..k) = k /\ (1..k) \ {k} = 1..(k - 1)
<1>1. 1..k \in SUBSET (1..k) /\ k \in 1..k OBVIOUS
<1>2. Max(1..k) \in 1..k /\ Max(1..k) >= k BY <1>1, MaxIn
<1> QED BY <1>2

IsIteration(it, s, turn, base, n) ==
  \A T \in SUBSET (1..n) :
    it[T] = IF T = {} THEN base ELSE turn[s[Max(T)]][it[T \ {Max(T)}]]

LEMMA IterationExists ==
  ASSUME NEW A, NEW X, NEW turn \in [A -> [X -> X]], NEW base \in X, NEW s \in Seq(A)
  PROVE  \E it \in [SUBSET (1..Len(s)) -> X] : IsIteration(it, s, turn, base, Len(s))
<1> DEFINE n == Len(s)
           UpTo(k) == \E it \in [SUBSET (1..n) -> X] : IsIteration(it, s, turn, base, k)
           P == {k \in Nat : k <= n => UpTo(k)}
<1>0. n \in Nat /\ \A k \in 1..n : s[k] \in A OBVIOUS
<1> HIDE DEF n
<1>1. 0 \in P
  <2>1. [T \in SUBSET (1..n) |-> base] \in [SUBSET (1..n) -> X] OBVIOUS
  <2>2. \A T \in SUBSET (1..0) : T = {} /\ T \in SUBSET (1..n) OBVIOUS
  <2>3. IsIteration([T \in SUBSET (1..n) |-> base], s, turn, base, 0) BY <2>2 DEF IsIteration
  <2>4. UpTo(0) BY <2>1, <2>3
  <2> HIDE DEF UpTo
  <2> QED BY <2>4
<1>2. ASSUME NEW k \in Nat, k \in P PROVE k + 1 \in P
  <2> HIDE DEF UpTo
  <2> SUFFICES ASSUME k + 1 <= n PROVE UpTo(k + 1) OBVIOUS
  <2>0. UpTo(k) BY <1>0, <1>2
  <2> USE DEF UpTo
  <2> HIDE DEF P
  <2>1. PICK it \in [SUBSET (1..n) -> X] : IsIteration(it, s, turn, base, k) BY <2>0
  <2> DEFINE Next1(T) == turn[s[Max(T)]][it[T \ {Max(T)}]]
             g == [T \in SUBSET (1..n) |-> IF T \subseteq 1..k THEN it[T] ELSE Next1(T)]
  <2>2. ASSUME NEW T \in SUBSET (1..n), T # {} PROVE Next1(T) \in X
    <3>1. Max(T) \in T BY <1>0, <2>2, MaxIn
    <3>2. s[Max(T)] \in A /\ T \ {Max(T)} \in SUBSET (1..n) BY <1>0, <3>1
    <3>3. it[T \ {Max(T)}] \in X /\ turn[s[Max(T)]] \in [X -> X] BY <3>2
    <3> QED BY <3>3
  <2>3. g \in [SUBSET (1..n) -> X]
    <3>1. ASSUME NEW T \in SUBSET (1..n) PROVE (IF T \subseteq 1..k THEN it[T] ELSE Next1(T)) \in X
      <4>1. ~(T \subseteq 1..k) => T # {} OBVIOUS
      <4> HIDE DEF Next1
      <4> QED BY <2>2, <4>1
    <3> QED BY <3>1
  <2>4. ASSUME NEW T \in SUBSET (1..(k + 1))
        PROVE  g[T] = IF T = {} THEN base ELSE turn[s[Max(T)]][g[T \ {Max(T)}]]
    <3>1. T \in SUBSET (1..n) BY <1>0
    <3>2. CASE T = {}
      <4>1. T \in SUBSET (1..k) BY <3>2
      <4>2. it[T] = base BY <2>1, <3>2, <4>1 DEF IsIteration
      <4> QED BY <3>1, <3>2, <4>1, <4>2
    <3>3. CASE T # {}
      <4> DEFINE m == Max(T)
                 U == T \ {m}
      <4>1. m \in T /\ \A i \in T : m >= i BY <1>0, <3>1, <3>3, MaxIn
      <4>2. U \in SUBSET (1..n) /\ U \subseteq 1..k
        <5> HIDE DEF m
        <5>1. ASSUME NEW i \in T, i # m PROVE i \in 1..k
          <6>1. i \in 1..(k + 1) /\ m \in 1..(k + 1) /\ m >= i BY <4>1
          <6> QED BY <5>1, <6>1
        <5> QED BY <3>1, <5>1
      <4>3. g[U] = it[U] BY <4>2
      <4>4. CASE T \subseteq 1..k
        <5>1. it[T] = turn[s[m]][it[U]] BY <2>1, <3>3, <4>4 DEF IsIteration
        <5> HIDE DEF m, U
        <5> QED BY <3>1, <3>3, <4>3, <4>4, <5>1 DEF m, U
      <4>5. CASE ~(T \subseteq 1..k)
        <5>1. g[T] = turn[s[m]][it[U]] BY <3>1, <4>5
        <5> HIDE DEF m, U, g
        <5> QED BY <3>3, <4>3, <5>1 DEF m, U
      <4> QED BY <4>4, <4>5
    <3> QED BY <3>2, <3>3
  <2> HIDE DEF g
  <2>5. IsIteration(g, s, turn, base, k + 1) BY <2>4 DEF IsIteration
  <2> QED BY <2>3, <2>5
<1> HIDE DEF P
<1>3. n \in P BY <1>0, <1>1, <1>2, NaturalInduction
<1>4. UpTo(n)
  <2> HIDE DEF UpTo
  <2> QED BY <1>0, <1>3 DEF P
<1> QED BY <1>4 DEF n

\* Whatever iterates like it ends with the value of the fold.
Iterates(it, X, turn, base, s) ==
  /\ it[{}] = base
  /\ \A k \in 1..Len(s) :
       it[1..(k - 1)] \in X => it[1..k] = turn[s[k]][it[1..(k - 1)]]

LEMMA IterationFolds ==
  ASSUME NEW A, NEW X, NEW turn \in [A -> [X -> X]], NEW base \in X, NEW s \in Seq(A), NEW it,
         Iterates(it, X, turn, base, s)
  PROVE  it[1..Len(s)] = FoldOf(X, turn, base, s)
<1> USE DEF Iterates
<1> DEFINE n == Len(s)
           F == [k \in 0..n |-> it[1..k]]
           P == {k \in Nat : k <= n => F[k] \in X}
<1>0. n \in Nat /\ \A k \in 1..n : s[k] \in A OBVIOUS
<1>1. F[0] = base
  <2>1. 1..0 = {} OBVIOUS
  <2> QED BY <1>0, <2>1
<1>2. \A k \in 1..n : F[k - 1] \in X => F[k] = turn[s[k]][F[k - 1]] BY <1>0
<1> HIDE DEF F, n
<1>3. 0 \in P BY <1>1
<1>4. ASSUME NEW k \in Nat, k \in P PROVE k + 1 \in P
  <2>1. ASSUME k + 1 <= n PROVE F[k + 1] \in X
    <3>1. k + 1 \in 1..n /\ (k + 1) - 1 = k /\ k <= n BY <1>0, <2>1
    <3>2. F[k] \in X BY <1>4, <3>1
    <3>3. F[k + 1] = turn[s[k + 1]][F[k]] BY <1>2, <3>1, <3>2
    <3>4. turn[s[k + 1]] \in [X -> X] BY <1>0, <3>1
    <3> QED BY <3>2, <3>3, <3>4
  <2> QED BY <2>1
<1> HIDE DEF P
<1>5. Nat \subseteq P BY <1>3, <1>4, NaturalInduction
<1>6. ASSUME NEW k \in 1..n PROVE F[k] = turn[s[k]][F[k - 1]]
  <2>1. k - 1 \in Nat /\ k - 1 <= n BY <1>0
  <2>2. F[k - 1] \in X BY <1>5, <2>1 DEF P
  <2> QED BY <1>2, <2>2
<1>7. IsRun(F, base, s, turn) BY <1>1, <1>6 DEF IsRun, n
<1>8. FoldOf(X, turn, base, s) = F[n] BY <1>7, FoldIsRun DEF n
<1>9. n \in 0..n BY <1>0
<1> QED BY <1>8, <1>9 DEF F, n

\* The set of positions 1..k, and what an iteration makes of it.
LEMMA IterationSteps ==
  ASSUME NEW k \in Nat, k # 0, NEW n \in Nat, k <= n
  PROVE  /\ 1..k \in SUBSET (1..n) /\ 1..k # {} /\ Max(1..k) = k
         /\ (1..k) \ {Max(1..k)} = 1..(k - 1)
<1>1. Max(1..k) = k /\ (1..k) \ {k} = 1..(k - 1) BY MaxOfFirst
<1>2. k \in 1..k /\ 1..k \in SUBSET (1..n) OBVIOUS
<1> QED BY <1>1, <1>2

LEMMA IterationTyped ==
  ASSUME NEW A, NEW X, NEW s \in Seq(A), NEW it \in [SUBSET (1..Len(s)) -> X],
         NEW T \in SUBSET (1..Len(s)), T # {}
  PROVE  s[Max(T)] \in A /\ it[T \ {Max(T)}] \in X
<1>1. Len(s) \in Nat OBVIOUS
<1>2. Max(T) \in T BY <1>1, MaxIn
<1>3. Max(T) \in 1..Len(s) /\ T \ {Max(T)} \in SUBSET (1..Len(s)) BY <1>2
<1> QED BY <1>3

-----------------------------------------------------------------------------
(* Quoting.                                                                *)

Characters ==
  {"space", "quote", "backslash"} \union UNION {ToSet(a) : a \in Arguments \union {Program}}

Quotes == [text : Seq(Characters), held : Nat]
QuoteStep == [c \in Characters |-> [st \in Quotes |-> QuoteCharacter(st, c)]]
Opened == [text |-> <<"quote">>, held |-> 0]

LEMMA ThreeCharacters ==
  "space" \in Characters /\ "quote" \in Characters /\ "backslash" \in Characters
  BY Zenon DEF Characters

LEMMA BackslashesAre ==
  ASSUME NEW n \in Nat
  PROVE  Backslashes(n) \in Seq(Characters) /\ Len(Backslashes(n)) = n
<1>1. "backslash" \in Characters BY ThreeCharacters
<1> QED BY <1>1 DEF Backslashes

LEMMA QuoteTyped ==
  /\ QuoteStep \in [Characters -> [Quotes -> Quotes]]
  /\ \A c \in Characters, st \in Quotes : QuoteStep[c][st] = QuoteCharacter(st, c)
  /\ Opened \in Quotes
<1>1. ASSUME NEW c \in Characters, NEW st \in Quotes PROVE QuoteCharacter(st, c) \in Quotes
  <2> DEFINE n == IF c = "quote" THEN 2 * st.held + 1 ELSE st.held
  <2>1. n \in Nat /\ st.text \in Seq(Characters) /\ st.held + 1 \in Nat BY DEF Quotes
  <2>2. CASE c = "backslash" BY <2>1, <2>2 DEF QuoteCharacter, Quotes
  <2>3. CASE c # "backslash"
    <3>1. Backslashes(n) \in Seq(Characters) BY <2>1, BackslashesAre
    <3>2. QuoteCharacter(st, c) = [text |-> st.text \o Backslashes(n) \o <<c>>, held |-> 0]
      BY <2>3 DEF QuoteCharacter
    <3> HIDE DEF n
    <3>3. <<c>> \in Seq(Characters) OBVIOUS
    <3>4. st.text \o Backslashes(n) \o <<c>> \in Seq(Characters) BY <2>1, <3>1, <3>3
    <3> QED BY <3>2, <3>4 DEF Quotes
  <2> QED BY <2>2, <2>3
<1>2. <<"quote">> \in Seq(Characters) BY ThreeCharacters
<1> QED BY <1>1, <1>2 DEF QuoteStep, Opened, Quotes

LEMMA QuoteFolds ==
  ASSUME NEW s \in Seq(Characters)
  PROVE  FoldLeft(QuoteCharacter, Opened, s) = FoldOf(Quotes, QuoteStep, Opened, s)
<1> DEFINE n == Len(s)
           it == CHOOSE it : it = [T \in SUBSET (DOMAIN s) |->
                   IF T = {} THEN Opened ELSE QuoteCharacter(it[T \ {Max(T)}], s[Max(T)])]
<1>0. n \in Nat /\ DOMAIN s = 1..n /\ \A k \in 1..n : s[k] \in Characters OBVIOUS
<1>1. FoldLeft(QuoteCharacter, Opened, s) = it[DOMAIN s] BY DEF FoldLeft, MapThenFoldSet
<1>2. PICK g \in [SUBSET (1..n) -> Quotes] : IsIteration(g, s, QuoteStep, Opened, n)
  BY QuoteTyped, IterationExists
<1>3. g = [T \in SUBSET (DOMAIN s) |->
             IF T = {} THEN Opened ELSE QuoteCharacter(g[T \ {Max(T)}], s[Max(T)])]
  <2>1. ASSUME NEW T \in SUBSET (1..n), T # {}
        PROVE  g[T] = QuoteCharacter(g[T \ {Max(T)}], s[Max(T)])
    BY <1>2, <2>1, QuoteTyped, IterationTyped DEF IsIteration
  <2> QED BY <1>0, <1>2, <2>1 DEF IsIteration
<1>4. it = [T \in SUBSET (DOMAIN s) |->
              IF T = {} THEN Opened ELSE QuoteCharacter(it[T \ {Max(T)}], s[Max(T)])]
  BY <1>3
<1> HIDE DEF it
<1>5. it[{}] = Opened BY <1>0, <1>4
<1>6. ASSUME NEW k \in 1..n, it[1..(k - 1)] \in Quotes
      PROVE  it[1..k] = QuoteStep[s[k]][it[1..(k - 1)]]
  <2>1. /\ 1..k \in SUBSET (1..n) /\ 1..k # {} /\ Max(1..k) = k
        /\ (1..k) \ {Max(1..k)} = 1..(k - 1)
    BY <1>0, IterationSteps
  <2>2. it[1..k] = QuoteCharacter(it[1..(k - 1)], s[k]) BY <1>0, <1>4, <2>1
  <2> QED BY <1>0, <1>6, <2>2, QuoteTyped
<1>7. Iterates(it, Quotes, QuoteStep, Opened, s) BY <1>5, <1>6 DEF Iterates
<1>8. it[1..n] = FoldOf(Quotes, QuoteStep, Opened, s) BY <1>7, QuoteTyped, IterationFolds
<1> QED BY <1>0, <1>1, <1>8

-----------------------------------------------------------------------------
(* Splitting.                                                              *)

Places == {"between", "word", "quotes"}
Splits == [text : Seq(Characters), held : Nat, place : Places, done : Seq(Seq(Characters))]
SplitStep == [c \in Characters |-> [st \in Splits |-> SplitCharacter(st, c)]]
At(t, h, p, d) == [text |-> t, held |-> h, place |-> p, done |-> d]
Fresh(d) == At(<<>>, 0, "between", d)
Within(p) == IF p = "between" THEN "word" ELSE p

LEMMA EveryAt == \A st \in Splits : st = At(st.text, st.held, st.place, st.done)
  BY DEF Splits, At

LEMMA AtTyped ==
  ASSUME NEW t \in Seq(Characters), NEW h \in Nat, NEW p \in Places,
         NEW d \in Seq(Seq(Characters))
  PROVE  At(t, h, p, d) \in Splits
  BY DEF Splits, At

\* What SplitCharacter does, case by case.
LEMMA SplitBackslash ==
  ASSUME NEW t, NEW h, NEW p, NEW d, d # <<>>
  PROVE  SplitCharacter(At(t, h, p, d), "backslash") = At(t, h + 1, Within(p), d)
  BY DEF SplitCharacter, At, Within

LEMMA SplitOddQuote ==
  ASSUME NEW t, NEW h, IsOdd(h), NEW p, NEW d
  PROVE  SplitCharacter(At(t, h, p, d), "quote") =
           At(Append(t \o Backslashes(Half(h)), "quote"), 0, p, d)
  BY DEF SplitCharacter, At

LEMMA SplitEvenQuote ==
  ASSUME NEW t, NEW h, ~IsOdd(h), NEW p, NEW d
  PROVE  SplitCharacter(At(t, h, p, d), "quote") =
           At(t \o Backslashes(Half(h)), 0, IF p = "quotes" THEN "word" ELSE "quotes", d)
  BY DEF SplitCharacter, At

LEMMA SplitSpace ==
  ASSUME NEW t, NEW h, NEW p, p # "quotes", NEW d
  PROVE  SplitCharacter(At(t, h, p, d), "space") =
           Fresh(IF p = "word" THEN Append(d, t \o Backslashes(h)) ELSE d)
  BY DEF SplitCharacter, At, Fresh

LEMMA SplitOther ==
  ASSUME NEW t, NEW h, NEW p, NEW d, NEW c, c # "quote",
         c = "backslash" => d = <<>>, c = "space" => p = "quotes"
  PROVE  SplitCharacter(At(t, h, p, d), c) =
           At(Append(t \o Backslashes(h), c), 0, Within(p), d)
  BY DEF SplitCharacter, At, Within

LEMMA SplitTyped ==
  /\ SplitStep \in [Characters -> [Splits -> Splits]]
  /\ \A c \in Characters, st \in Splits : SplitStep[c][st] = SplitCharacter(st, c)
  /\ Fresh(<<>>) \in Splits
<1>1. ASSUME NEW c \in Characters, NEW st \in Splits PROVE SplitCharacter(st, c) \in Splits
  <2> DEFINE t == st.text
             h == st.held
             p == st.place
             d == st.done
             half == Half(h)
             more == h + 1
             toggled == IF p = "quotes" THEN "word" ELSE "quotes"
             b == t \o Backslashes(h)
             b2 == t \o Backslashes(half)
             complete == IF p = "word" THEN Append(d, b) ELSE d
  <2>1. /\ st = At(t, h, p, d) /\ t \in Seq(Characters) /\ h \in Nat /\ d \in Seq(Seq(Characters))
        /\ p \in Places /\ Within(p) \in Places
    BY EveryAt DEF Splits, Places, Within
  <2>2. half \in Nat /\ more \in Nat /\ toggled \in Places
    BY <2>1 DEF Half, Places
  <2> HIDE DEF t, h, p, d, half, more, toggled
  <2>3. Backslashes(h) \in Seq(Characters) /\ Backslashes(half) \in Seq(Characters)
    BY <2>1, <2>2, BackslashesAre
  <2>4. b \in Seq(Characters) /\ b2 \in Seq(Characters) BY <2>1, <2>3
  <2> HIDE DEF b, b2
  <2> DEFINE bc == Append(b, c)
             b2c == Append(b2, c)
             p2 == Within(p)
  <2>5. /\ bc \in Seq(Characters) /\ b2c \in Seq(Characters)
        /\ Append(d, b) \in Seq(Seq(Characters)) /\ <<>> \in Seq(Characters)
    BY <2>1, <2>4
  <2>11. p2 \in Places /\ complete \in Seq(Seq(Characters)) BY <2>1, <2>5
  <2> HIDE DEF p2, complete, bc, b2c
  <2>6. CASE c = "backslash" /\ d # <<>>
    <3>1. SplitCharacter(st, c) = At(t, more, p2, d) BY <2>1, <2>6, SplitBackslash DEF p2, more
    <3> QED BY <2>1, <2>2, <2>11, <3>1, AtTyped
  <2>7. CASE c = "quote" /\ IsOdd(h)
    <3>1. SplitCharacter(st, c) = At(b2c, 0, p, d)
      BY <2>1, <2>7, SplitOddQuote DEF b2, b2c, half
    <3> QED BY <2>1, <2>5, <3>1, AtTyped
  <2>8. CASE c = "quote" /\ ~IsOdd(h)
    <3>1. SplitCharacter(st, c) = At(b2, 0, toggled, d)
      BY <2>1, <2>8, SplitEvenQuote DEF b2, half, toggled
    <3> QED BY <2>1, <2>2, <2>4, <3>1, AtTyped
  <2>9. CASE c = "space" /\ p # "quotes"
    <3>1. SplitCharacter(st, c) = At(<<>>, 0, "between", complete)
      BY <2>1, <2>9, SplitSpace DEF b, Fresh, complete
    <3>2. "between" \in Places BY DEF Places
    <3> QED BY <3>2, <2>1, <2>5, <2>11, <3>1, AtTyped
  <2>10. CASE c # "quote" /\ (c = "backslash" => d = <<>>) /\ (c = "space" => p = "quotes")
    <3>1. SplitCharacter(st, c) = At(bc, 0, p2, d)
      BY <2>1, <2>10, SplitOther DEF b, bc, p2
    <3> QED BY <2>1, <2>5, <2>11, <3>1, AtTyped
  <2> QED BY <2>6, <2>7, <2>8, <2>9, <2>10
<1>2. Fresh(<<>>) \in Splits BY DEF Fresh, At, Splits, Places
<1> QED BY <1>1, <1>2 DEF SplitStep

LEMMA SplitFolds ==
  ASSUME NEW s \in Seq(Characters)
  PROVE  FoldLeft(SplitCharacter, Fresh(<<>>), s) = FoldOf(Splits, SplitStep, Fresh(<<>>), s)
<1> DEFINE n == Len(s)
           it == CHOOSE it : it = [T \in SUBSET (DOMAIN s) |->
                   IF T = {} THEN Fresh(<<>>) ELSE SplitCharacter(it[T \ {Max(T)}], s[Max(T)])]
<1>0. n \in Nat /\ DOMAIN s = 1..n /\ \A k \in 1..n : s[k] \in Characters OBVIOUS
<1>1. FoldLeft(SplitCharacter, Fresh(<<>>), s) = it[DOMAIN s] BY DEF FoldLeft, MapThenFoldSet
<1>2. PICK g \in [SUBSET (1..n) -> Splits] : IsIteration(g, s, SplitStep, Fresh(<<>>), n)
  BY SplitTyped, IterationExists
<1>3. g = [T \in SUBSET (DOMAIN s) |->
             IF T = {} THEN Fresh(<<>>) ELSE SplitCharacter(g[T \ {Max(T)}], s[Max(T)])]
  <2>1. ASSUME NEW T \in SUBSET (1..n), T # {}
        PROVE  g[T] = SplitCharacter(g[T \ {Max(T)}], s[Max(T)])
    BY <1>2, <2>1, SplitTyped, IterationTyped DEF IsIteration
  <2> QED BY <1>0, <1>2, <2>1 DEF IsIteration
<1>4. it = [T \in SUBSET (DOMAIN s) |->
              IF T = {} THEN Fresh(<<>>) ELSE SplitCharacter(it[T \ {Max(T)}], s[Max(T)])]
  BY <1>3
<1> HIDE DEF it
<1>5. it[{}] = Fresh(<<>>) BY <1>0, <1>4
<1>6. ASSUME NEW k \in 1..n, it[1..(k - 1)] \in Splits
      PROVE  it[1..k] = SplitStep[s[k]][it[1..(k - 1)]]
  <2>1. /\ 1..k \in SUBSET (1..n) /\ 1..k # {} /\ Max(1..k) = k
        /\ (1..k) \ {Max(1..k)} = 1..(k - 1)
    BY <1>0, IterationSteps
  <2>2. it[1..k] = SplitCharacter(it[1..(k - 1)], s[k]) BY <1>0, <1>4, <2>1
  <2> QED BY <1>0, <1>6, <2>2, SplitTyped
<1>7. Iterates(it, Splits, SplitStep, Fresh(<<>>), s) BY <1>5, <1>6 DEF Iterates
<1>8. it[1..n] = FoldOf(Splits, SplitStep, Fresh(<<>>), s) BY <1>7, SplitTyped, IterationFolds
<1> QED BY <1>0, <1>1, <1>8

\* The state after a command line, and what one more character does to it.
After(st, line) == FoldOf(Splits, SplitStep, st, line)

LEMMA AfterIs ==
  ASSUME NEW st \in Splits
  PROVE  /\ After(st, <<>>) = st
         /\ \A line \in Seq(Characters) : After(st, line) \in Splits
         /\ \A line \in Seq(Characters), c \in Characters :
              After(st, Append(line, c)) = SplitCharacter(After(st, line), c)
         /\ \A line, more \in Seq(Characters) :
              After(st, line \o more) = After(After(st, line), more)
<1>1. SplitStep \in [Characters -> [Splits -> Splits]] BY SplitTyped
<1>2. After(st, <<>>) = st BY <1>1, FoldEmpty DEF After
<1>3. \A line \in Seq(Characters) : After(st, line) \in Splits BY <1>1, FoldTyped DEF After
<1>4. ASSUME NEW line \in Seq(Characters), NEW c \in Characters
      PROVE  After(st, Append(line, c)) = SplitCharacter(After(st, line), c)
  BY <1>1, <1>3, SplitTyped, FoldAppend DEF After
<1>5. ASSUME NEW line \in Seq(Characters), NEW more \in Seq(Characters)
      PROVE  After(st, line \o more) = After(After(st, line), more)
  BY <1>1, FoldConcat DEF After
<1> QED BY <1>2, <1>3, <1>4, <1>5

-----------------------------------------------------------------------------
(* What a quoted argument is split into.                                   *)

QuoteAfter(s) == FoldOf(Quotes, QuoteStep, Opened, s)

LEMMA QuoteAfterIs ==
  /\ QuoteAfter(<<>>) = Opened
  /\ \A s \in Seq(Characters) : QuoteAfter(s) \in Quotes
  /\ \A s \in Seq(Characters), c \in Characters :
       QuoteAfter(Append(s, c)) = QuoteCharacter(QuoteAfter(s), c)
<1>1. QuoteStep \in [Characters -> [Quotes -> Quotes]] /\ Opened \in Quotes BY QuoteTyped
<1>2. QuoteAfter(<<>>) = Opened BY <1>1, FoldEmpty DEF QuoteAfter
<1>3. \A s \in Seq(Characters) : QuoteAfter(s) \in Quotes BY <1>1, FoldTyped DEF QuoteAfter
<1>4. ASSUME NEW s \in Seq(Characters), NEW c \in Characters
      PROVE  QuoteAfter(Append(s, c)) = QuoteCharacter(QuoteAfter(s), c)
  BY <1>1, <1>3, QuoteTyped, FoldAppend DEF QuoteAfter
<1> QED BY <1>2, <1>3, <1>4

LEMMA MoreBackslashes ==
  /\ Backslashes(0) = <<>>
  /\ \A n, m \in Nat : m = n + 1 => Backslashes(m) = Append(Backslashes(n), "backslash")
<1>1. Backslashes(0) = <<>> BY DEF Backslashes
<1>2. ASSUME NEW n \in Nat, NEW m \in Nat, m = n + 1
      PROVE  Backslashes(m) = Append(Backslashes(n), "backslash")
  <2> DEFINE b == Backslashes(n)
             b1 == Backslashes(m)
  <2>1. b \in Seq(Characters) /\ Len(b) = n /\ \A i \in 1..n : b[i] = "backslash"
    BY BackslashesAre DEF Backslashes
  <2>3. b1 \in Seq(Characters) /\ Len(b1) = n + 1 BY <1>2, BackslashesAre
  <2>4. \A i \in 1..(n + 1) : b1[i] = "backslash" BY <1>2 DEF Backslashes
  <2> HIDE DEF b, b1
  <2>5. Append(b, "backslash") \in Seq(Characters) /\ Len(Append(b, "backslash")) = n + 1
    BY <2>1, ThreeCharacters
  <2>6. \A i \in 1..(n + 1) : Append(b, "backslash")[i] = b1[i] BY <2>1, <2>4, ThreeCharacters
  <2>7. b1 = Append(b, "backslash") BY <2>3, <2>5, <2>6, SeqEqual
  <2> QED BY <2>7 DEF b, b1
<1> QED BY <1>1, <1>2

\* Backslashes within quotes: held back, or themselves in the program's name.
LEMMA AfterBackslashes ==
  ASSUME NEW t \in Seq(Characters), NEW d \in Seq(Seq(Characters))
  PROVE  \A n \in Nat : After(At(t, 0, "quotes", d), Backslashes(n)) =
                          IF d = <<>> THEN At(t \o Backslashes(n), 0, "quotes", d)
                          ELSE At(t, n, "quotes", d)
<1> DEFINE st == At(t, 0, "quotes", d)
           End(n) == IF d = <<>> THEN At(t \o Backslashes(n), 0, "quotes", d)
                     ELSE At(t, n, "quotes", d)
           P == {n \in Nat : After(st, Backslashes(n)) = End(n)}
<1>0. st \in Splits
  <2>1. "quotes" \in Places /\ 0 \in Nat BY DEF Places
  <2> QED BY <2>1, AtTyped
<1>1. 0 \in P
  <2>1. t \o <<>> = t BY ConcatEmptySeq
  <2>2. End(0) = st BY <2>1, MoreBackslashes
  <2> HIDE DEF st, End
  <2>3. After(st, Backslashes(0)) = st BY <1>0, AfterIs, MoreBackslashes
  <2> QED BY <2>2, <2>3
<1>2. ASSUME NEW n \in Nat, NEW m \in Nat, m = n + 1, n \in P PROVE m \in P
  <2> DEFINE b == Backslashes(n)
  <2>1. /\ b \in Seq(Characters) /\ Backslashes(m) = Append(b, "backslash")
        /\ "backslash" \in Characters
    BY <1>2, BackslashesAre, MoreBackslashes, ThreeCharacters
  <2> HIDE DEF b
  <2>2. After(st, Append(b, "backslash")) = SplitCharacter(After(st, b), "backslash")
    <3> HIDE DEF st
    <3> QED BY <1>0, <2>1, AfterIs
  <2>3. After(st, b) = End(n)
    <3> HIDE DEF End, st
    <3> QED BY <1>2 DEF b
  <2>4. CASE d = <<>>
    <3> DEFINE u == t \o b
    <3>1. End(n) = At(u, 0, "quotes", d) BY <2>4 DEF b
    <3> HIDE DEF u
    <3>2. SplitCharacter(At(u, 0, "quotes", d), "backslash") =
            At(Append(u \o Backslashes(0), "backslash"), 0, Within("quotes"), d)
      BY <2>4, SplitOther
    <3>3. u \in Seq(Characters) BY <2>1 DEF u
    <3>4. u \o Backslashes(0) = u BY <3>3, MoreBackslashes, ConcatEmptySeq
    <3>5. Append(u, "backslash") = t \o Backslashes(m)
      <4>1. t \o Append(b, "backslash") = Append(t \o b, "backslash") BY <2>1, ConcatAppend
      <4> QED BY <2>1, <4>1 DEF u
    <3>6. SplitCharacter(End(n), "backslash") = At(t \o Backslashes(m), 0, "quotes", d)
      <4> HIDE DEF End
      <4> QED BY <3>1, <3>2, <3>4, <3>5 DEF Within
    <3>7. SplitCharacter(End(n), "backslash") = End(m) BY <2>4, <3>6
    <3> HIDE DEF End, st
    <3> QED BY <2>1, <2>2, <2>3, <3>7
  <2>5. CASE d # <<>>
    <3>1. SplitCharacter(At(t, n, "quotes", d), "backslash") = At(t, m, Within("quotes"), d)
      BY <1>2, <2>5, SplitBackslash
    <3>2. SplitCharacter(End(n), "backslash") = End(m) BY <2>5, <3>1 DEF Within
    <3> HIDE DEF End, st
    <3> QED BY <2>1, <2>2, <2>3, <3>2
  <2> QED BY <2>4, <2>5
<1> HIDE DEF P
<1>3. Nat \subseteq P BY <1>1, <1>2, SuccessorInduction
<1> QED BY <1>3 DEF P

\* Backslashes and what follows them.
LEMMA HeldThen ==
  ASSUME NEW t \in Seq(Characters), NEW d \in Seq(Seq(Characters)), NEW n \in Nat,
         NEW c \in Characters
  PROVE  After(At(t, 0, "quotes", d), Append(Backslashes(n), c)) =
           SplitCharacter(IF d = <<>> THEN At(t \o Backslashes(n), 0, "quotes", d)
                          ELSE At(t, n, "quotes", d), c)
<1> DEFINE st == At(t, 0, "quotes", d)
           b == Backslashes(n)
<1>1. st \in Splits
  <2>1. "quotes" \in Places /\ 0 \in Nat BY DEF Places
  <2> QED BY <2>1, AtTyped
<1>2. b \in Seq(Characters) BY BackslashesAre
<1>3. After(st, b) = IF d = <<>> THEN At(t \o b, 0, "quotes", d) ELSE At(t, n, "quotes", d)
  BY AfterBackslashes
<1>4. After(st, Append(b, c)) = SplitCharacter(After(st, b), c)
  <2> HIDE DEF st, b
  <2> QED BY <1>1, <1>2, AfterIs
<1> QED BY <1>3, <1>4

LEMMA HeldThenOther ==
  ASSUME NEW t \in Seq(Characters), NEW d \in Seq(Seq(Characters)), NEW n \in Nat,
         NEW c \in Characters, c # "quote", c # "backslash"
  PROVE  After(At(t, 0, "quotes", d), Append(Backslashes(n), c)) =
           At(Append(t \o Backslashes(n), c), 0, "quotes", d)
<1> DEFINE u == t \o Backslashes(n)
<1>1. SplitCharacter(At(t, n, "quotes", d), c) = At(Append(u, c), 0, Within("quotes"), d)
  BY SplitOther
<1>2. u \in Seq(Characters) BY BackslashesAre
<1>3. SplitCharacter(At(u, 0, "quotes", d), c) = At(Append(u, c), 0, Within("quotes"), d)
  <2> HIDE DEF u
  <2>1. u \o Backslashes(0) = u BY <1>2, MoreBackslashes, ConcatEmptySeq
  <2>2. SplitCharacter(At(u, 0, "quotes", d), c) =
          At(Append(u \o Backslashes(0), c), 0, Within("quotes"), d)
    BY SplitOther
  <2> QED BY <2>1, <2>2
<1> QED BY <1>1, <1>3, HeldThen DEF Within

LEMMA HeldThenQuote ==
  ASSUME NEW t \in Seq(Characters), NEW d \in Seq(Seq(Characters)), d # <<>>, NEW n \in Nat
  PROVE  After(At(t, 0, "quotes", d), Append(Backslashes(2 * n + 1), "quote")) =
           At(Append(t \o Backslashes(n), "quote"), 0, "quotes", d)
<1> DEFINE m == 2 * n + 1
<1>1. m \in Nat /\ IsOdd(m) /\ Half(m) = n BY DEF IsOdd, Half
<1> HIDE DEF m
<1>2. After(At(t, 0, "quotes", d), Append(Backslashes(m), "quote")) =
        SplitCharacter(At(t, m, "quotes", d), "quote")
  BY <1>1, HeldThen, ThreeCharacters
<1>3. SplitCharacter(At(t, m, "quotes", d), "quote") =
        At(Append(t \o Backslashes(n), "quote"), 0, "quotes", d)
  BY <1>1, SplitOddQuote
<1> QED BY <1>2, <1>3 DEF m

LEMMA HeldThenEnd ==
  ASSUME NEW t \in Seq(Characters), NEW d \in Seq(Seq(Characters)), NEW n \in Nat,
         d = <<>> => n = 0
  PROVE  After(At(t, 0, "quotes", d), Append(Backslashes(2 * n), "quote")) =
           At(t \o Backslashes(n), 0, "word", d)
<1> DEFINE m == 2 * n
<1>1. m \in Nat /\ ~IsOdd(m) /\ Half(m) = n /\ (n = 0 => m = 0) BY DEF IsOdd, Half
<1> HIDE DEF m
<1>2. After(At(t, 0, "quotes", d), Append(Backslashes(m), "quote")) =
        SplitCharacter(IF d = <<>> THEN At(t \o Backslashes(m), 0, "quotes", d)
                       ELSE At(t, m, "quotes", d), "quote")
  BY <1>1, HeldThen, ThreeCharacters
<1>3. SplitCharacter(At(t, m, "quotes", d), "quote") = At(t \o Backslashes(n), 0, "word", d)
  BY <1>1, SplitEvenQuote
<1>4. CASE d # <<>> BY <1>2, <1>3, <1>4 DEF m
<1>5. CASE d = <<>>
  <2>1. n = 0 /\ m = 0 BY <1>1, <1>5
  <2>2. t \o Backslashes(m) = t BY <2>1, MoreBackslashes, ConcatEmptySeq
  <2> QED BY <1>2, <1>3, <1>5, <2>1, <2>2 DEF m
<1> QED BY <1>4, <1>5

LEMMA ConcatThree ==
  ASSUME NEW x \in Seq(Characters), NEW b \in Seq(Characters), NEW c \in Characters
  PROVE  /\ Append(b, c) \in Seq(Characters) /\ Append(b, c) # <<>>
         /\ x \o b \o <<c>> = x \o Append(b, c)
<1>1. Append(b, c) \in Seq(Characters) /\ Append(b, c) # <<>> OBVIOUS
<1>2. Append(b, c) = b \o <<c>> BY AppendIsConcat
<1>3. <<c>> \in Seq(Characters) OBVIOUS
<1>4. (x \o b) \o <<c>> = x \o (b \o <<c>>) BY <1>3, ConcatAssociative
<1> QED BY <1>1, <1>2, <1>4

\* While an argument is being quoted, what the target has of it is what it was
\* but for the backslashes held back.
IsQuoting(d, s, q) ==
  /\ \E t \in Seq(Characters) :
       After(Fresh(d), q.text) = At(t, 0, "quotes", d) /\ t \o Backslashes(q.held) = s
  /\ q.held # 0 => s # <<>> /\ s[Len(s)] = "backslash"

\* An argument, or the program's name, character by character.
Alphabet(d) == IF d = <<>> THEN Characters \ {"quote"} ELSE Characters

LEMMA QuotingStarts ==
  ASSUME NEW d \in Seq(Seq(Characters))
  PROVE  IsQuoting(d, <<>>, QuoteAfter(<<>>)) /\ Fresh(d) \in Splits
<1>1. Fresh(d) \in Splits
  <2>1. "between" \in Places /\ 0 \in Nat /\ <<>> \in Seq(Characters) BY DEF Places
  <2> QED BY <2>1, AtTyped DEF Fresh
<1>2. QuoteAfter(<<>>) = Opened /\ Opened.text = <<"quote">> /\ Opened.held = 0
  BY QuoteAfterIs DEF Opened
<1>3. <<"quote">> = Append(<<>>, "quote") /\ <<>> \in Seq(Characters) OBVIOUS
<1>4. After(Fresh(d), <<"quote">>) = SplitCharacter(Fresh(d), "quote")
  <2>1. After(Fresh(d), Append(<<>>, "quote")) = SplitCharacter(After(Fresh(d), <<>>), "quote")
    BY <1>1, <1>3, AfterIs, ThreeCharacters
  <2>2. After(Fresh(d), <<>>) = Fresh(d) BY <1>1, AfterIs
  <2> QED BY <1>3, <2>1, <2>2
<1> DEFINE e == <<>>
           z == 0
<1>5. e \in Seq(Characters) /\ e \o Backslashes(0) = e BY MoreBackslashes, ConcatEmptySeq, <1>3
<1>6. z = 0 /\ ~IsOdd(z) /\ Half(z) = z BY DEF IsOdd, Half
<1> HIDE DEF e, z
<1>7. SplitCharacter(At(e, z, "between", d), "quote") = At(e \o Backslashes(z), 0, "quotes", d)
  BY <1>6, SplitEvenQuote
<1>8. SplitCharacter(Fresh(d), "quote") = At(e, 0, "quotes", d) BY <1>5, <1>6, <1>7 DEF Fresh, e
<1>9. IsQuoting(d, e, QuoteAfter(e)) BY <1>2, <1>4, <1>5, <1>8 DEF IsQuoting, e
<1> QED BY <1>1, <1>9 DEF e

LEMMA QuotingGoesOn ==
  ASSUME NEW d \in Seq(Seq(Characters)), NEW s \in Seq(Characters), NEW q \in Quotes,
         IsQuoting(d, s, q), NEW c \in Alphabet(d), NEW next, next = Append(s, c),
         NEW r, r = QuoteCharacter(q, c)
  PROVE  IsQuoting(d, next, r)
<1> DEFINE h == q.held
           x == q.text
<1>0. c \in Characters /\ (d = <<>> => c # "quote") BY DEF Alphabet
<1>1. x \in Seq(Characters) /\ h \in Nat BY DEF Quotes
<1>2. next \in Seq(Characters) /\ next # <<>> /\ next[Len(next)] = c BY <1>0
<1>3. PICK t \in Seq(Characters) :
        After(Fresh(d), x) = At(t, 0, "quotes", d) /\ t \o Backslashes(h) = s
  BY DEF IsQuoting
<1> HIDE DEF h, x
<1>4. CASE c = "backslash"
  <2>1. r.text = x /\ r.held = h + 1 BY <1>1, <1>4 DEF QuoteCharacter, Quotes, x, h
  <2>2. t \o Backslashes(r.held) = next
    <3> DEFINE b == Backslashes(h)
    <3>0. r.held \in Nat BY <1>1, <2>1
    <3>1. Backslashes(r.held) = Append(b, c) BY <1>1, <1>4, <2>1, <3>0, MoreBackslashes
    <3>2. b \in Seq(Characters) BY <1>1, BackslashesAre
    <3> HIDE DEF b
    <3>3. t \o Append(b, c) = Append(t \o b, c) BY <1>0, <3>2, ConcatAppend
    <3> QED BY <1>3, <3>1, <3>3 DEF b
  <2>3. After(Fresh(d), r.text) = At(t, 0, "quotes", d) BY <1>3, <2>1
  <2> QED BY <1>2, <1>4, <2>2, <2>3 DEF IsQuoting
<1>5. CASE c # "backslash"
  <2> DEFINE n == IF c = "quote" THEN 2 * h + 1 ELSE h
             b == Backslashes(n)
             u == Append(t \o Backslashes(h), c)
             bc == Append(b, c)
  <2>1. n \in Nat BY <1>1
  <2>2. r = [text |-> x \o b \o <<c>>, held |-> 0] BY <1>5 DEF QuoteCharacter, x, h
  <2>3. After(At(t, 0, "quotes", d), bc) = At(u, 0, "quotes", d)
    <3>1. CASE c = "quote"
      <4>1. d # <<>> BY <1>0, <3>1
      <4> QED BY <1>1, <3>1, <4>1, HeldThenQuote
    <3>2. CASE c # "quote" BY <1>0, <1>1, <1>5, <3>2, HeldThenOther
    <3> QED BY <3>1, <3>2
  <2>4. u = next BY <1>3
  <2> HIDE DEF n, u
  <2>5. b \in Seq(Characters) BY <2>1, BackslashesAre
  <2> HIDE DEF b
  <2>6. bc \in Seq(Characters) /\ x \o b \o <<c>> = x \o bc BY <1>0, <1>1, <2>5, ConcatThree
  <2>7. r.text = x \o b \o <<c>> /\ r.held = 0 BY <2>2
  <2>8. r.text = x \o bc /\ r.held = 0 BY <2>6, <2>7
  <2> HIDE DEF bc
  <2>9. Fresh(d) \in Splits BY QuotingStarts
  <2>10. After(Fresh(d), x \o bc) = After(After(Fresh(d), x), bc) BY <1>1, <2>6, <2>9, AfterIs
  <2>11. After(Fresh(d), r.text) = At(next, 0, "quotes", d) BY <1>3, <2>3, <2>4, <2>8, <2>10
  <2>12. next \o Backslashes(r.held) = next BY <1>2, <2>8, MoreBackslashes, ConcatEmptySeq
  <2> QED BY <1>2, <2>8, <2>11, <2>12 DEF IsQuoting
<1> QED BY <1>4, <1>5

LEMMA QuotingAll ==
  ASSUME NEW d \in Seq(Seq(Characters))
  PROVE  \A s \in Seq(Alphabet(d)) : s \in Seq(Characters) /\ IsQuoting(d, s, QuoteAfter(s))
<1> DEFINE P == {s \in Seq(Characters) : IsQuoting(d, s, QuoteAfter(s))}
<1>1. <<>> \in P BY QuotingStarts
<1>2. ASSUME NEW s \in Seq(Alphabet(d)), NEW c \in Alphabet(d), s \in P PROVE Append(s, c) \in P
  <2>1. c \in Characters BY DEF Alphabet
  <2>2. /\ QuoteAfter(s) \in Quotes /\ Append(s, c) \in Seq(Characters)
        /\ QuoteAfter(Append(s, c)) = QuoteCharacter(QuoteAfter(s), c)
    BY <1>2, <2>1, QuoteAfterIs
  <2>3. IsQuoting(d, Append(s, c), QuoteAfter(Append(s, c))) BY <1>2, <2>2, QuotingGoesOn
  <2> QED BY <2>2, <2>3
<1> HIDE DEF P
<1>3. Seq(Alphabet(d)) \subseteq P BY <1>1, <1>2, SequenceInduction
<1> QED BY <1>3 DEF P

\* Arrives: the target has the argument once the next space is read.
Arrives(d, s, line) ==
  /\ line \in Seq(Characters) /\ line # <<>>
  /\ SplitCharacter(After(Fresh(d), line), "space") = Fresh(Append(d, s))

LEMMA WordArrives ==
  ASSUME NEW d, NEW s, NEW line \in Seq(Characters), line # <<>>, NEW t, NEW h,
         After(Fresh(d), line) = At(t, h, "word", d), t \o Backslashes(h) = s
  PROVE  Arrives(d, s, line)
<1>1. SplitCharacter(At(t, h, "word", d), "space") = Fresh(Append(d, t \o Backslashes(h)))
  BY SplitSpace
<1> QED BY <1>1 DEF Arrives

\* What may stand in the place of an argument: anything, but the first one is a
\* file's name.
MayStand(d, s) ==
  /\ s \in Seq(Alphabet(d))
  /\ d = <<>> => s # <<>> /\ s[Len(s)] # "backslash"

LEMMA QuotedArrives ==
  ASSUME NEW d \in Seq(Seq(Characters)), NEW s, MayStand(d, s), NeedsQuotes(s)
  PROVE  Arrives(d, s, QuoteWindowsArgument(s))
<1> DEFINE q == QuoteAfter(s)
           h == q.held
           x == q.text
           m == 2 * h
           b == Backslashes(m)
           be == Append(b, "quote")
           line == QuoteWindowsArgument(s)
<1>1. s \in Seq(Characters) /\ IsQuoting(d, s, q) /\ s \in Seq(Alphabet(d))
  BY QuotingAll DEF MayStand
<1>2. q \in Quotes /\ x \in Seq(Characters) /\ h \in Nat /\ m \in Nat
  BY <1>1, QuoteAfterIs DEF Quotes
<1>3. FoldLeft(QuoteCharacter, Opened, s) = q BY <1>1, QuoteFolds DEF QuoteAfter
<1>4. line = x \o b \o <<"quote">> BY <1>3 DEF QuoteWindowsArgument, Opened
<1>5. PICK t \in Seq(Characters) :
        After(Fresh(d), x) = At(t, 0, "quotes", d) /\ t \o Backslashes(h) = s
  BY <1>1 DEF IsQuoting
<1>6. d = <<>> => h = 0
  <2> HIDE DEF q
  <2> QED BY <1>1 DEF IsQuoting, MayStand
<1> HIDE DEF q, h, x, line
<1>7. After(At(t, 0, "quotes", d), be) = At(s, 0, "word", d)
  BY <1>2, <1>5, <1>6, HeldThenEnd
<1>8. b \in Seq(Characters) BY <1>2, BackslashesAre
<1> HIDE DEF m, b
<1>9. be \in Seq(Characters) /\ be # <<>> /\ x \o b \o <<"quote">> = x \o be
  BY <1>2, <1>8, ThreeCharacters, ConcatThree
<1>11. line = x \o be /\ be # <<>> BY <1>4, <1>9
<1> HIDE DEF be
<1>12. line \in Seq(Characters) /\ line # <<>> BY <1>2, <1>9, <1>11
<1>13. Fresh(d) \in Splits BY QuotingStarts
<1>14. After(Fresh(d), x \o be) = After(After(Fresh(d), x), be) BY <1>2, <1>9, <1>13, AfterIs
<1>15. After(Fresh(d), line) = At(s, 0, "word", d) BY <1>5, <1>7, <1>11, <1>14
<1>16. s \o Backslashes(0) = s BY <1>1, MoreBackslashes, ConcatEmptySeq
<1>17. Arrives(d, s, line) BY <1>12, <1>15, <1>16, WordArrives
<1> QED BY <1>17 DEF line

\* An argument that needs no quotes.
IsPlain(d, s) ==
  \E t \in Seq(Characters), h \in Nat :
    /\ After(Fresh(d), s) = At(t, h, IF s = <<>> THEN "between" ELSE "word", d)
    /\ t \o Backslashes(h) = s
    /\ d = <<>> => h = 0

LEMMA PlainGoesOn ==
  ASSUME NEW d \in Seq(Seq(Characters)), NEW s \in Seq(Characters), IsPlain(d, s),
         NEW c \in Characters \ {"space", "quote"}, NEW next, next = Append(s, c)
  PROVE  IsPlain(d, next)
<1> DEFINE p == IF s = <<>> THEN "between" ELSE "word"
<1>1. PICK t \in Seq(Characters), h \in Nat :
        After(Fresh(d), s) = At(t, h, p, d) /\ t \o Backslashes(h) = s /\ (d = <<>> => h = 0)
  BY DEF IsPlain
<1>2. next \in Seq(Characters) /\ next # <<>> BY AppendProperties
<1>3. Within(p) = "word" /\ p # "quotes" BY DEF Within
<1> HIDE DEF p
<1>4. After(Fresh(d), next) = SplitCharacter(At(t, h, p, d), c)
  <2>1. Fresh(d) \in Splits BY QuotingStarts
  <2> QED BY <1>1, <2>1, AfterIs
<1>5. CASE c = "backslash" /\ d # <<>>
  <2> DEFINE m == h + 1
             b == Backslashes(h)
  <2>0. m \in Nat /\ m = h + 1 OBVIOUS
  <2>1. m \in Nat /\ Backslashes(m) = Append(b, c)
    <3> HIDE DEF m
    <3> QED BY <1>5, <2>0, MoreBackslashes
  <2>2. SplitCharacter(At(t, h, p, d), c) = At(t, m, "word", d) BY <1>3, <1>5, SplitBackslash
  <2>3. b \in Seq(Characters) BY BackslashesAre
  <2> HIDE DEF m, b
  <2>4. t \o Append(b, c) = Append(t \o b, c) BY <2>3, ConcatAppend
  <2>5. t \o Backslashes(m) = next BY <1>1, <2>1, <2>4 DEF b
  <2> QED BY <1>2, <1>4, <1>5, <2>1, <2>2, <2>5 DEF IsPlain
<1>6. CASE c = "backslash" => d = <<>>
  <2>1. SplitCharacter(At(t, h, p, d), c) = At(Append(t \o Backslashes(h), c), 0, Within(p), d)
    BY <1>6, SplitOther
  <2>2. SplitCharacter(At(t, h, p, d), c) = At(next, 0, "word", d) BY <1>1, <1>3, <2>1
  <2>3. next \o Backslashes(0) = next BY <1>2, MoreBackslashes, ConcatEmptySeq
  <2> QED BY <1>2, <1>4, <2>2, <2>3 DEF IsPlain
<1> QED BY <1>5, <1>6

LEMMA PlainArrives ==
  ASSUME NEW d \in Seq(Seq(Characters)), NEW s, MayStand(d, s), ~NeedsQuotes(s)
  PROVE  Arrives(d, s, QuoteWindowsArgument(s))
<1> DEFINE A == Characters \ {"space", "quote"}
           P == {u \in Seq(Characters) : IsPlain(d, u)}
<1>1. s \in Seq(Characters) /\ s # <<>> BY QuotingAll DEF MayStand, NeedsQuotes
<1>2. s \in Seq(A)
  <2>1. \A i \in 1..Len(s) : s[i] \in A
    <3>1. ToSet(s) \intersect {"space", "quote"} = {} BY DEF NeedsQuotes
    <3>2. \A i \in 1..Len(s) : s[i] \in ToSet(s) BY <1>1 DEF ToSet
    <3> QED BY <1>1, <3>1, <3>2
  <2> HIDE DEF A
  <2> QED BY <1>1, <2>1
<1>3. <<>> \in P
  <2> DEFINE e == <<>>
             z == 0
  <2>1. e \in Seq(Characters) /\ e \o Backslashes(0) = e
    BY MoreBackslashes, ConcatEmptySeq, EmptySeq
  <2>2. After(Fresh(d), e) = Fresh(d) BY QuotingStarts, AfterIs
  <2>3. Fresh(d) = At(e, z, IF e = <<>> THEN "between" ELSE "word", d) BY DEF Fresh
  <2>4. z \in Nat /\ z = 0 OBVIOUS
  <2> HIDE DEF e, z
  <2>5. IsPlain(d, e) BY <2>1, <2>2, <2>3, <2>4 DEF IsPlain
  <2> QED BY <2>1, <2>5 DEF e
<1>4. ASSUME NEW u \in Seq(A), NEW c \in A, u \in P PROVE Append(u, c) \in P
  <2>1. Append(u, c) \in Seq(Characters) BY <1>4
  <2> QED BY <1>4, <2>1, PlainGoesOn
<1>5. s \in P
  <2> HIDE DEF P, A
  <2> QED BY <1>2, <1>3, <1>4, SequenceInduction
<1>6. PICK t \in Seq(Characters), h \in Nat :
        After(Fresh(d), s) = At(t, h, "word", d) /\ t \o Backslashes(h) = s
  BY <1>1, <1>5 DEF IsPlain
<1>7. Arrives(d, s, s) BY <1>1, <1>6, WordArrives
<1> QED BY <1>7 DEF QuoteWindowsArgument

LEMMA ArgumentArrives ==
  ASSUME NEW d \in Seq(Seq(Characters)), NEW s, MayStand(d, s)
  PROVE  Arrives(d, s, QuoteWindowsArgument(s))
  BY QuotedArrives, PlainArrives

-----------------------------------------------------------------------------
(* The whole command line.                                                 *)

Words == Seq(Characters)
LineStep == [s \in Words |-> [line \in Words |-> AddArgument(line, s)]]

LEMMA QuoteWindowsTyped ==
  ASSUME NEW s \in Words
  PROVE  QuoteWindowsArgument(s) \in Seq(Characters)
<1>1. s \in Seq(Characters) BY DEF Words
<1>2. CASE ~NeedsQuotes(s) BY <1>1, <1>2 DEF QuoteWindowsArgument
<1>3. CASE NeedsQuotes(s)
  <2> DEFINE q == QuoteAfter(s)
             b == Backslashes(2 * q.held)
  <2>1. q \in Quotes /\ q.text \in Seq(Characters) /\ 2 * q.held \in Nat
    BY <1>1, QuoteAfterIs DEF Quotes
  <2>2. FoldLeft(QuoteCharacter, Opened, s) = q BY <1>1, QuoteFolds DEF QuoteAfter
  <2>3. QuoteWindowsArgument(s) = q.text \o b \o <<"quote">>
    BY <1>3, <2>2 DEF QuoteWindowsArgument, Opened
  <2>4. b \in Seq(Characters) BY <2>1, BackslashesAre
  <2> HIDE DEF q, b
  <2>5. <<"quote">> \in Seq(Characters) BY ThreeCharacters
  <2>6. q.text \o b \in Seq(Characters) BY <2>1, <2>4
  <2>7. (q.text \o b) \o <<"quote">> \in Seq(Characters) BY <2>5, <2>6
  <2> QED BY <2>3, <2>7
<1> QED BY <1>2, <1>3

LEMMA LineTyped ==
  /\ LineStep \in [Words -> [Words -> Words]]
  /\ \A s \in Words, line \in Words : LineStep[s][line] = AddArgument(line, s)
  /\ <<>> \in Words
<1>1. ASSUME NEW s \in Words, NEW line \in Words
      PROVE  AddArgument(line, s) \in Words
  <2> DEFINE l == IF line = <<>> THEN line ELSE Append(line, "space")
             w == QuoteWindowsArgument(s)
  <2>1. l \in Seq(Characters) /\ w \in Seq(Characters)
    BY ThreeCharacters, QuoteWindowsTyped DEF Words
  <2> HIDE DEF l, w
  <2>2. l \o w \in Seq(Characters) BY <2>1
  <2> QED BY <2>2 DEF l, w, AddArgument, Words
<1>2. <<>> \in Words BY DEF Words
<1> QED BY <1>1, <1>2 DEF LineStep

LEMMA LineFolds ==
  ASSUME NEW s \in Seq(Words)
  PROVE  FoldLeft(AddArgument, <<>>, s) = FoldOf(Words, LineStep, <<>>, s)
<1> DEFINE n == Len(s)
           it == CHOOSE it : it = [T \in SUBSET (DOMAIN s) |->
                   IF T = {} THEN <<>> ELSE AddArgument(it[T \ {Max(T)}], s[Max(T)])]
<1>0. n \in Nat /\ DOMAIN s = 1..n /\ \A k \in 1..n : s[k] \in Words OBVIOUS
<1>1. FoldLeft(AddArgument, <<>>, s) = it[DOMAIN s] BY DEF FoldLeft, MapThenFoldSet
<1>2. PICK g \in [SUBSET (1..n) -> Words] : IsIteration(g, s, LineStep, <<>>, n)
  BY LineTyped, IterationExists
<1>3. g = [T \in SUBSET (DOMAIN s) |->
             IF T = {} THEN <<>> ELSE AddArgument(g[T \ {Max(T)}], s[Max(T)])]
  <2>1. ASSUME NEW T \in SUBSET (1..n), T # {}
        PROVE  g[T] = AddArgument(g[T \ {Max(T)}], s[Max(T)])
    BY <1>2, <2>1, LineTyped, IterationTyped DEF IsIteration
  <2> QED BY <1>0, <1>2, <2>1 DEF IsIteration
<1>4. it = [T \in SUBSET (DOMAIN s) |->
              IF T = {} THEN <<>> ELSE AddArgument(it[T \ {Max(T)}], s[Max(T)])]
  BY <1>3
<1> HIDE DEF it
<1>5. it[{}] = <<>> BY <1>0, <1>4
<1>6. ASSUME NEW k \in 1..n, it[1..(k - 1)] \in Words
      PROVE  it[1..k] = LineStep[s[k]][it[1..(k - 1)]]
  <2>1. /\ 1..k \in SUBSET (1..n) /\ 1..k # {} /\ Max(1..k) = k
        /\ (1..k) \ {Max(1..k)} = 1..(k - 1)
    BY <1>0, IterationSteps
  <2>2. it[1..k] = AddArgument(it[1..(k - 1)], s[k]) BY <1>0, <1>4, <2>1
  <2> QED BY <1>0, <1>6, <2>2, LineTyped
<1>7. Iterates(it, Words, LineStep, <<>>, s) BY <1>5, <1>6 DEF Iterates
<1>8. it[1..n] = FoldOf(Words, LineStep, <<>>, s) BY <1>7, LineTyped, IterationFolds
<1> QED BY <1>0, <1>1, <1>8

LineOf(arguments) == FoldOf(Words, LineStep, <<>>, arguments)

LEMMA LineOfIs ==
  /\ LineOf(<<>>) = <<>>
  /\ \A args \in Seq(Words), a \in Words :
       LineOf(Append(args, a)) = AddArgument(LineOf(args), a)
<1>1. LineStep \in [Words -> [Words -> Words]] /\ <<>> \in Words BY LineTyped
<1>2. LineOf(<<>>) = <<>> BY <1>1, FoldEmpty DEF LineOf
<1>3. \A args \in Seq(Words) : LineOf(args) \in Words BY <1>1, FoldTyped DEF LineOf
<1>4. ASSUME NEW args \in Seq(Words), NEW a \in Words
      PROVE  LineOf(Append(args, a)) = AddArgument(LineOf(args), a)
  BY <1>1, <1>3, LineTyped, FoldAppend DEF LineOf
<1> QED BY <1>2, <1>4

IsTarget(arguments) ==
  arguments \in Seq(Words) /\ (arguments # <<>> => MayStand(<<>>, arguments[1]))

\* A command line is whole when reading on from it the target has every
\* argument so far.
IsWhole(arguments, line) ==
  /\ line \in Words /\ (line = <<>> <=> arguments = <<>>)
  /\ line # <<>> => After(Fresh(<<>>), Append(line, "space")) = Fresh(arguments)

LEMMA LineGoesOn ==
  ASSUME NEW args \in Seq(Words), NEW a \in Words, NEW line, IsWhole(args, line),
         NEW next, next = Append(args, a), IsTarget(next)
  PROVE  IsWhole(next, AddArgument(line, a))
<1> DEFINE pre == IF line = <<>> THEN line ELSE Append(line, "space")
           w == QuoteWindowsArgument(a)
           start == Fresh(<<>>)
<1>0. start \in Splits /\ <<>> \in Seq(Seq(Characters)) BY QuotingStarts, EmptySeq
<1>1. line \in Seq(Characters) /\ pre \in Seq(Characters)
  BY ThreeCharacters DEF IsWhole, Words
<1>2. After(start, pre) = Fresh(args)
  <2>1. CASE line = <<>>
    <3>1. After(start, <<>>) = start
      <4> HIDE DEF start
      <4> QED BY <1>0, AfterIs
    <3> QED BY <2>1, <3>1 DEF IsWhole
  <2>2. CASE line # <<>> BY <2>2 DEF IsWhole
  <2> QED BY <2>1, <2>2
<1>3. MayStand(args, a)
  <2>1. CASE args = <<>>
    <3>1. next[1] = a /\ next # <<>> BY <2>1
    <3> QED BY <2>1, <3>1 DEF IsTarget
  <2>2. CASE args # <<>> BY <2>2 DEF MayStand, Alphabet, Words
  <2> QED BY <2>1, <2>2
<1>4. Arrives(args, a, w) BY <1>3, ArgumentArrives DEF Words
<1>5. AddArgument(line, a) = pre \o w BY DEF AddArgument
<1>6. next # <<>> BY AppendProperties
<1> HIDE DEF pre, w, start
<1>7. w \in Seq(Characters) /\ w # <<>> BY <1>4 DEF Arrives
<1>8. pre \o w \in Seq(Characters) /\ pre \o w # <<>> BY <1>1, <1>7
<1>9. After(start, pre \o w) = After(After(start, pre), w) BY <1>0, <1>1, <1>7, AfterIs
<1>10. After(start, Append(pre \o w, "space")) = SplitCharacter(After(start, pre \o w), "space")
  <2> DEFINE l == pre \o w
  <2>1. l \in Seq(Characters) BY <1>8
  <2> HIDE DEF l
  <2>2. After(start, Append(l, "space")) = SplitCharacter(After(start, l), "space")
    BY <1>0, <2>1, AfterIs, ThreeCharacters
  <2> QED BY <2>2 DEF l
<1>11. After(start, Append(pre \o w, "space")) = Fresh(next)
  BY <1>2, <1>4, <1>9, <1>10 DEF Arrives
<1> QED BY <1>5, <1>6, <1>8, <1>11 DEF IsWhole, Words, start

LEMMA LineIsWhole ==
  \A args \in Seq(Words) : IsTarget(args) => IsWhole(args, LineOf(args))
<1> DEFINE P == {args \in Seq(Words) : IsTarget(args) => IsWhole(args, LineOf(args))}
<1>1. <<>> \in P
  <2>1. <<>> \in Seq(Words) /\ <<>> \in Words BY DEF Words
  <2>2. IsWhole(<<>>, LineOf(<<>>)) BY <2>1, LineOfIs DEF IsWhole
  <2> QED BY <2>1, <2>2
<1>2. ASSUME NEW args \in Seq(Words), NEW a \in Words, args \in P PROVE Append(args, a) \in P
  <2> DEFINE next == Append(args, a)
  <2>1. /\ next \in Seq(Words) /\ (args # <<>> => next # <<>> /\ next[1] = args[1])
        /\ next = Append(args, a)
    OBVIOUS
  <2> HIDE DEF next
  <2>2. ASSUME IsTarget(next) PROVE IsWhole(next, LineOf(next))
    <3>1. IsTarget(args) BY <2>1, <2>2 DEF IsTarget
    <3>2. IsWhole(args, LineOf(args)) BY <1>2, <3>1
    <3>3. IsWhole(next, AddArgument(LineOf(args), a)) BY <2>1, <2>2, <3>2, LineGoesOn
    <3> QED BY <2>1, <3>3, LineOfIs
  <2> QED BY <2>1, <2>2 DEF next
<1> HIDE DEF P
<1>3. Seq(Words) \subseteq P BY <1>1, <1>2, SequenceInduction
<1> QED BY <1>3 DEF P

\* The round trip: whatever the arguments, they are what the target's command
\* line is split into.
LEMMA RoundTrip ==
  ASSUME NEW args, IsTarget(args)
  PROVE  SplitCommandLine(BuildWindowsCommandLine(args)) = args
<1> DEFINE line == LineOf(args)
           l == Append(line, "space")
<1>1. args \in Seq(Words) BY DEF IsTarget
<1>2. BuildWindowsCommandLine(args) = line
  BY <1>1, LineFolds DEF BuildWindowsCommandLine, LineOf
<1>3. IsWhole(args, line) BY <1>1, LineIsWhole
<1> HIDE DEF line
<1>4. line \in Seq(Characters) /\ l \in Seq(Characters) BY <1>3, ThreeCharacters DEF IsWhole, Words
<1>5. After(Fresh(<<>>), l) = Fresh(args)
  <2>1. CASE line # <<>> BY <1>3, <2>1 DEF IsWhole
  <2>2. CASE line = <<>>
    <3>1. Fresh(<<>>) \in Splits /\ After(Fresh(<<>>), line) = Fresh(<<>>)
      BY <2>2, QuotingStarts, AfterIs, EmptySeq
    <3>2. After(Fresh(<<>>), l) = SplitCharacter(Fresh(<<>>), "space")
      BY <1>4, <3>1, AfterIs, ThreeCharacters
    <3>3. SplitCharacter(At(<<>>, 0, "between", <<>>), "space") = Fresh(<<>>) BY SplitSpace
    <3>4. args = <<>> BY <1>3, <2>2 DEF IsWhole
    <3> QED BY <3>2, <3>3, <3>4 DEF Fresh
  <2> QED BY <2>1, <2>2
<1> HIDE DEF l
<1>6. FoldLeft(SplitCharacter, Fresh(<<>>), l) = Fresh(args) BY <1>4, <1>5, SplitFolds DEF After
<1>7. FoldLeft(SplitCharacter, Fresh(<<>>), l).done = args BY <1>6 DEF Fresh, At
<1> QED BY <1>2, <1>7 DEF SplitCommandLine, Fresh, At, l

-----------------------------------------------------------------------------
(* The hooks of the DLL.                                                   *)

Listed == ToSet(NameOrder)
Selections == Seq(Listed)
Selected(names, kept, n) == IF n \in names THEN Append(kept, n) ELSE kept
SelectStep(names) == [n \in Listed |-> [kept \in Selections |-> Selected(names, kept, n)]]

LEMMA SelectTyped ==
  ASSUME NEW names, NEW turn, turn = SelectStep(names)
  PROVE  /\ turn \in [Listed -> [Selections -> Selections]]
         /\ \A n \in Listed, kept \in Selections : turn[n][kept] = Selected(names, kept, n)
         /\ <<>> \in Selections
<1>1. \A n \in Listed, kept \in Selections : Append(kept, n) \in Selections BY DEF Selections
<1>2. <<>> \in Selections BY DEF Selections
<1>3. \A n \in Listed, kept \in Selections : Selected(names, kept, n) \in Selections
  BY <1>1 DEF Selected
<1> QED BY <1>2, <1>3 DEF SelectStep

LEMMA SelectFolds ==
  ASSUME NEW names, NEW turn, turn = SelectStep(names), NEW s \in Seq(Listed)
  PROVE  FoldLeft(LAMBDA kept, m : IF m \in names THEN Append(kept, m) ELSE kept, <<>>, s)
           = FoldOf(Selections, turn, <<>>, s)
<1> DEFINE n == Len(s)
           it == CHOOSE it : it = [T \in SUBSET (DOMAIN s) |->
                   IF T = {} THEN <<>> ELSE Selected(names, it[T \ {Max(T)}], s[Max(T)])]
<1>0. n \in Nat /\ DOMAIN s = 1..n /\ \A k \in 1..n : s[k] \in Listed OBVIOUS
<1>1. FoldLeft(LAMBDA kept, m : IF m \in names THEN Append(kept, m) ELSE kept, <<>>, s)
        = it[DOMAIN s]
  BY DEF FoldLeft, MapThenFoldSet, Selected
<1>2. /\ turn \in [Listed -> [Selections -> Selections]] /\ <<>> \in Selections
      /\ \A a \in Listed, x \in Selections : turn[a][x] = Selected(names, x, a)
  BY SelectTyped
<1>3. PICK g \in [SUBSET (1..n) -> Selections] : IsIteration(g, s, turn, <<>>, n)
  BY <1>2, IterationExists
<1>4. g = [T \in SUBSET (DOMAIN s) |->
             IF T = {} THEN <<>> ELSE Selected(names, g[T \ {Max(T)}], s[Max(T)])]
  <2>1. ASSUME NEW T \in SUBSET (1..n), T # {}
        PROVE  g[T] = Selected(names, g[T \ {Max(T)}], s[Max(T)])
    <3>1. s[Max(T)] \in Listed /\ g[T \ {Max(T)}] \in Selections BY <2>1, IterationTyped
    <3>2. g[T] = turn[s[Max(T)]][g[T \ {Max(T)}]] BY <1>3, <2>1 DEF IsIteration
    <3> QED BY <1>2, <3>1, <3>2
  <2> QED BY <1>0, <1>3, <2>1 DEF IsIteration
<1>5. it = [T \in SUBSET (DOMAIN s) |->
              IF T = {} THEN <<>> ELSE Selected(names, it[T \ {Max(T)}], s[Max(T)])]
  BY <1>4
<1> HIDE DEF it
<1>6. it[{}] = <<>> BY <1>0, <1>5
<1>7. ASSUME NEW k \in 1..n, it[1..(k - 1)] \in Selections
      PROVE  it[1..k] = turn[s[k]][it[1..(k - 1)]]
  <2>1. /\ 1..k \in SUBSET (1..n) /\ 1..k # {} /\ Max(1..k) = k
        /\ (1..k) \ {Max(1..k)} = 1..(k - 1)
    BY <1>0, IterationSteps
  <2>2. it[1..k] = Selected(names, it[1..(k - 1)], s[k]) BY <1>0, <1>5, <2>1
  <2> QED BY <1>0, <1>2, <1>7, <2>2
<1>8. Iterates(it, Selections, turn, <<>>, s) BY <1>6, <1>7 DEF Iterates
<1>9. it[1..n] = FoldOf(Selections, turn, <<>>, s) BY <1>2, <1>8, IterationFolds
<1> QED BY <1>0, <1>1, <1>9

LEMMA DiscoverTyped ==
  ASSUME NEW library
  PROVE  DiscoverHooks(library) \in Selections
<1> DEFINE names == {Canonical(d) : d \in ToSet(library)}
           chosen == FoldLeft(LAMBDA kept, n : IF n \in names THEN Append(kept, n) ELSE kept,
                              <<>>, NameOrder)
           turn == SelectStep(names)
<1>1. chosen \in Selections
  <2> HIDE DEF names, turn
  <2>1. NameOrder \in Seq(Listed) BY WordsAssumption DEF Listed
  <2>2. turn = SelectStep(names) BY DEF turn
  <2>3. chosen = FoldOf(Selections, turn, <<>>, NameOrder) BY <2>1, <2>2, SelectFolds
  <2>4. turn \in [Listed -> [Selections -> Selections]] /\ <<>> \in Selections
    BY <2>2, SelectTyped
  <2> HIDE DEF chosen
  <2> QED BY <2>1, <2>3, <2>4, FoldTyped
<1>2. DiscoverHooks(library) \in {chosen, <<>>} BY DEF DiscoverHooks
<1>3. <<>> \in Selections BY DEF Selections
<1> HIDE DEF chosen
<1> QED BY <1>1, <1>2, <1>3

-----------------------------------------------------------------------------
(* The options, field by field.                                            *)

IsOptions(o) ==
  o = [pid |-> o.pid, requested |-> o.requested, jsonl |-> o.jsonl, formatGiven |-> o.formatGiven,
       path |-> o.path, quiet |-> o.quiet, hooks |-> o.hooks, target |-> o.target,
       attach |-> o.attach]

\* Options that differ at most in what is named.
SamePid(n, o) == n.pid = o.pid /\ n.attach = o.attach
SameOutput(n, o) ==
  n.jsonl = o.jsonl /\ n.formatGiven = o.formatGiven /\ n.path = o.path /\ n.quiet = o.quiet
SameTarget(n, o) == n.target = o.target
SameHooks(n, o) == n.requested = o.requested /\ n.hooks = o.hooks

LEMMA PidChanges ==
  ASSUME NEW o, IsOptions(o), NEW x, NEW n, n = [o EXCEPT !.pid = x]
  PROVE  /\ IsOptions(n) /\ n.pid = x
         /\ n.attach = o.attach /\ SameOutput(n, o) /\ SameTarget(n, o) /\ SameHooks(n, o)
  BY DEF IsOptions, SamePid, SameOutput, SameTarget, SameHooks

LEMMA RequestedChanges ==
  ASSUME NEW o, IsOptions(o), NEW x, NEW n, n = [o EXCEPT !.requested = x]
  PROVE  /\ IsOptions(n) /\ n.requested = x
         /\ n.hooks = o.hooks /\ SamePid(n, o) /\ SameOutput(n, o) /\ SameTarget(n, o)
  BY DEF IsOptions, SamePid, SameOutput, SameTarget, SameHooks

LEMMA JsonlChanges ==
  ASSUME NEW o, IsOptions(o), NEW x, NEW n, n = [o EXCEPT !.jsonl = x]
  PROVE  /\ IsOptions(n) /\ n.jsonl = x
         /\ n.formatGiven = o.formatGiven /\ n.path = o.path /\ n.quiet = o.quiet
         /\ SamePid(n, o) /\ SameTarget(n, o) /\ SameHooks(n, o)
  BY DEF IsOptions, SamePid, SameOutput, SameTarget, SameHooks

LEMMA FormatGivenChanges ==
  ASSUME NEW o, IsOptions(o), NEW x, NEW n, n = [o EXCEPT !.formatGiven = x]
  PROVE  /\ IsOptions(n) /\ n.formatGiven = x
         /\ n.jsonl = o.jsonl /\ n.path = o.path /\ n.quiet = o.quiet
         /\ SamePid(n, o) /\ SameTarget(n, o) /\ SameHooks(n, o)
  BY DEF IsOptions, SamePid, SameOutput, SameTarget, SameHooks

LEMMA PathChanges ==
  ASSUME NEW o, IsOptions(o), NEW x, NEW n, n = [o EXCEPT !.path = x]
  PROVE  /\ IsOptions(n) /\ n.path = x
         /\ n.jsonl = o.jsonl /\ n.formatGiven = o.formatGiven /\ n.quiet = o.quiet
         /\ SamePid(n, o) /\ SameTarget(n, o) /\ SameHooks(n, o)
  BY DEF IsOptions, SamePid, SameOutput, SameTarget, SameHooks

LEMMA QuietChanges ==
  ASSUME NEW o, IsOptions(o), NEW x, NEW n, n = [o EXCEPT !.quiet = x]
  PROVE  /\ IsOptions(n) /\ n.quiet = x
         /\ n.jsonl = o.jsonl /\ n.formatGiven = o.formatGiven /\ n.path = o.path
         /\ SamePid(n, o) /\ SameTarget(n, o) /\ SameHooks(n, o)
  BY DEF IsOptions, SamePid, SameOutput, SameTarget, SameHooks

LEMMA HooksChange ==
  ASSUME NEW o, IsOptions(o), NEW x, NEW n, n = [o EXCEPT !.hooks = x]
  PROVE  /\ IsOptions(n) /\ n.hooks = x
         /\ n.requested = o.requested /\ SamePid(n, o) /\ SameOutput(n, o) /\ SameTarget(n, o)
  BY DEF IsOptions, SamePid, SameOutput, SameTarget, SameHooks

LEMMA TargetChanges ==
  ASSUME NEW o, IsOptions(o), NEW x, NEW n, n = [o EXCEPT !.target = x]
  PROVE  /\ IsOptions(n) /\ n.target = x
         /\ SamePid(n, o) /\ SameOutput(n, o) /\ SameHooks(n, o)
  BY DEF IsOptions, SamePid, SameOutput, SameTarget, SameHooks

LEMMA AttachChanges ==
  ASSUME NEW o, IsOptions(o), NEW x, NEW n, n = [o EXCEPT !.attach = x]
  PROVE  /\ IsOptions(n) /\ n.attach = x
         /\ n.pid = o.pid /\ SameOutput(n, o) /\ SameTarget(n, o) /\ SameHooks(n, o)
  BY DEF IsOptions, SamePid, SameOutput, SameTarget, SameHooks

LEMMA NoOptionsAre ==
  /\ IsOptions(NoOptions) /\ NoOptions.pid = 0 /\ NoOptions.attach = FALSE
  /\ NoOptions.requested = <<>> /\ NoOptions.hooks = <<>> /\ NoOptions.target = <<>>
  /\ NoOptions.jsonl = FALSE /\ NoOptions.formatGiven = FALSE
  /\ NoOptions.path = Empty /\ NoOptions.quiet = FALSE
  BY DEF IsOptions, NoOptions

-----------------------------------------------------------------------------
(* What the parse keeps.                                                   *)

Kinds == {"pid", "hook", "format", "output", "quiet", "other", "separator"}
Values == PidTexts \union HookTexts \union Paths \union {"text", "jsonl", "other", Empty}
Items == Kinds \X Values

IsLine(target) == target \in Seq(Words) /\ (target # <<>> => target[1] = Program)

CliInv ==
  /\ IsOptions(options) /\ CliTypeOK /\ IsLine(options.target)
  /\ available \in Selections /\ items \in Seq(Items)
  /\ phase = "start" => items = <<>> /\ options = NoOptions
  /\ phase \in {"start", "options"} => options.target = <<>>
  /\ phase = "target" => ~options.attach
  /\ phase # "parsed" => mode = "Error"

LEMMA PidTyped == \A text : ParseProcessId(text) \in 0..MaxPid
<1>1. MaxPid \in Nat BY WordsAssumption
<1> QED BY <1>1 DEF ParseProcessId

LEMMA WordsTyped ==
  /\ Program \in Words /\ Arguments \subseteq Words /\ IsLine(<<>>)
  /\ \A target : IsLine(target) => IsTarget(target)
<1>1. ASSUME NEW a \in Arguments \union {Program} PROVE a \in Words
  <2>1. a \in Seq(ToSet(a)) BY ArgumentsAssumption
  <2>2. ToSet(a) \subseteq Characters BY DEF Characters
  <2> QED BY <2>1, <2>2 DEF Words
<1>2. MayStand(<<>>, Program)
  <2>1. /\ Program \in Seq(ToSet(Program)) /\ "quote" \notin ToSet(Program)
        /\ Program # <<>> /\ Program[Len(Program)] # "backslash"
    BY ArgumentsAssumption
  <2>2. ToSet(Program) \subseteq Characters \ {"quote"} BY <2>1 DEF Characters
  <2>3. Program \in Seq(Characters \ {"quote"}) BY <2>1, <2>2
  <2> QED BY <2>1, <2>3 DEF MayStand, Alphabet
<1> QED BY <1>1, <1>2 DEF IsLine, IsTarget

\* An option is taken, or it ends the parse.
LEMMA GiveEffect ==
  ASSUME NEW option, NEW value, NEW refused, NEW taken, Give(option, value, refused, taken)
  PROVE  /\ phase = "options" /\ items' = Append(items, <<option, value>>)
         /\ available' = available
         /\ \/ refused /\ phase' = "parsed" /\ mode' = "Error" /\ options' = options
            \/ ~refused /\ phase' = phase /\ mode' = mode /\ options' = taken
  BY DEF Give, Ends

LEMMA GiveKeeps ==
  ASSUME CliInv, NEW option \in Kinds, NEW value \in Values, NEW refused, NEW taken,
         Give(option, value, refused, taken), IsOptions(taken),
         taken.target = options.target, taken.pid \in 0..MaxPid
  PROVE  CliInv'
<1>1. /\ phase = "options" /\ items' = Append(items, <<option, value>>)
      /\ available' = available
      /\ \/ phase' = "parsed" /\ mode' = "Error" /\ options' = options
         \/ phase' = phase /\ mode' = mode /\ options' = taken
  BY GiveEffect
<1>2. <<option, value>> \in Items BY DEF Items
<1>3. items' \in Seq(Items) BY <1>1, <1>2 DEF CliInv
<1>4. IsOptions(options') /\ options'.target = options.target /\ options'.pid \in 0..MaxPid
  BY <1>1 DEF CliInv, CliTypeOK
<1>5. IsLine(options'.target) BY <1>4 DEF CliInv
<1>6. mode' = "Error" /\ phase' \in {"options", "parsed"} BY <1>1 DEF CliInv
<1>7. CliTypeOK' BY <1>1, <1>4, <1>6 DEF CliInv, CliTypeOK
<1>8. phase' \in {"start", "options"} => options'.target = <<>> BY <1>1, <1>4 DEF CliInv
<1> QED BY <1>1, <1>3, <1>4, <1>5, <1>6, <1>7, <1>8 DEF CliInv

LEMMA CliInvStep == CliInv /\ CliNext => CliInv'
<1> SUFFICES ASSUME CliInv, CliNext PROVE CliInv' OBVIOUS
<1>0. IsOptions(options) /\ options.pid \in 0..MaxPid BY DEF CliInv, CliTypeOK
<1>1. CASE SingleWord
  <2>1. /\ options' = options /\ phase = "start" /\ phase' = "parsed" /\ items' = items
        /\ mode' \in {"Help", "Version", "ListHooks", "Error"} /\ available' = available
    BY <1>1 DEF SingleWord, Ends
  <2> QED BY <2>1 DEF CliInv, CliTypeOK
<1>2. CASE Command
  <2>1. PICK attach \in BOOLEAN : options' = [NoOptions EXCEPT !.attach = attach]
    BY <1>2 DEF Command
  <2>2. /\ phase = "start" /\ phase' = "options" /\ mode' = mode /\ items' = items
        /\ available' = available
    BY <1>2 DEF Command
  <2> DEFINE given == [NoOptions EXCEPT !.attach = attach]
  <2>4. IsOptions(NoOptions) /\ NoOptions.pid = 0 /\ NoOptions.target = <<>> BY NoOptionsAre
  <2>5. IsOptions(given) /\ given.pid = NoOptions.pid /\ SameTarget(given, NoOptions)
    BY <2>4, AttachChanges
  <2> HIDE DEF given
  <2>3. IsOptions(options') /\ options'.pid = 0 /\ options'.target = <<>>
    BY <2>1, <2>4, <2>5 DEF SameTarget, given
  <2> QED BY <2>2, <2>3, WordsTyped, WordsAssumption DEF CliInv, CliTypeOK
<1>3. CASE GivePid
  <2>1. PICK text \in PidTexts :
          Give("pid", text, ~options.attach \/ ParseProcessId(text) = 0,
               [options EXCEPT !.pid = ParseProcessId(text)])
    BY <1>3 DEF GivePid
  <2> DEFINE taken == [options EXCEPT !.pid = ParseProcessId(text)]
  <2>2. IsOptions(taken) /\ taken.pid = ParseProcessId(text) /\ taken.target = options.target
    BY <1>0, PidChanges DEF SameTarget
  <2>3. Give("pid", text, ~options.attach \/ ParseProcessId(text) = 0, taken) BY <2>1
  <2>4. text \in Values /\ "pid" \in Kinds BY DEF Values, Kinds
  <2> HIDE DEF taken
  <2> QED BY <2>2, <2>3, <2>4, PidTyped, GiveKeeps
<1>4. CASE GiveHook
  <2>1. PICK text \in HookTexts :
          Give("hook", text, text \in NonAscii \/ text = <<Empty>>,
               [options EXCEPT !.requested = Append(@, text)])
    BY <1>4 DEF GiveHook
  <2> DEFINE asked == Append(options.requested, text)
             taken == [options EXCEPT !.requested = asked]
  <2>3. Give("hook", text, text \in NonAscii \/ text = <<Empty>>, taken) BY <2>1
  <2> HIDE DEF asked
  <2>2. IsOptions(taken) /\ taken.pid = options.pid /\ taken.target = options.target
    BY <1>0, RequestedChanges DEF SamePid, SameTarget
  <2>4. text \in Values /\ "hook" \in Kinds BY DEF Values, Kinds
  <2> HIDE DEF taken
  <2> QED BY <1>0, <2>2, <2>3, <2>4, GiveKeeps
<1>5. CASE GiveFormat
  <2>1. PICK text \in {"text", "jsonl", "other"} :
          Give("format", text, text = "other",
               [options EXCEPT !.jsonl = (text = "jsonl"), !.formatGiven = TRUE])
    BY <1>5 DEF GiveFormat
  <2> DEFINE x == (text = "jsonl")
             first == [options EXCEPT !.jsonl = x]
             taken == [first EXCEPT !.formatGiven = TRUE]
  <2>2. taken = [options EXCEPT !.jsonl = x, !.formatGiven = TRUE] OBVIOUS
  <2>3. Give("format", text, text = "other", taken) BY <2>1, <2>2
  <2> HIDE DEF x
  <2>4. IsOptions(first) /\ SamePid(first, options) /\ SameTarget(first, options)
    BY <1>0, JsonlChanges
  <2> HIDE DEF first
  <2>5. IsOptions(taken) /\ SamePid(taken, first) /\ SameTarget(taken, first)
    BY <2>4, FormatGivenChanges
  <2>6. text \in Values /\ "format" \in Kinds BY DEF Values, Kinds
  <2> HIDE DEF taken
  <2>7. taken.pid = options.pid /\ taken.target = options.target
    BY <2>4, <2>5 DEF SamePid, SameTarget
  <2> QED BY <1>0, <2>3, <2>5, <2>6, <2>7, GiveKeeps
<1>6. CASE GiveOutput
  <2>1. PICK text \in Paths : Give("output", text, FALSE, [options EXCEPT !.path = text])
    BY <1>6 DEF GiveOutput
  <2> DEFINE taken == [options EXCEPT !.path = text]
  <2>2. IsOptions(taken) /\ taken.pid = options.pid /\ taken.target = options.target
    BY <1>0, PathChanges DEF SamePid, SameTarget
  <2>3. Give("output", text, FALSE, taken) BY <2>1
  <2>4. text \in Values /\ "output" \in Kinds BY DEF Values, Kinds
  <2> HIDE DEF taken
  <2> QED BY <1>0, <2>2, <2>3, <2>4, GiveKeeps
<1>7. CASE GiveQuiet
  <2> DEFINE taken == [options EXCEPT !.quiet = TRUE]
  <2>2. IsOptions(taken) /\ taken.pid = options.pid /\ taken.target = options.target
    BY <1>0, QuietChanges DEF SamePid, SameTarget
  <2>3. Give("quiet", Empty, FALSE, taken) BY <1>7 DEF GiveQuiet
  <2>4. Empty \in Values /\ "quiet" \in Kinds BY DEF Values, Kinds
  <2> HIDE DEF taken
  <2> QED BY <1>0, <2>2, <2>3, <2>4, GiveKeeps
<1>8. CASE GiveOther
  <2>1. Give("other", Empty, TRUE, options) BY <1>8 DEF GiveOther
  <2>2. Empty \in Values /\ "other" \in Kinds BY DEF Values, Kinds
  <2> QED BY <1>0, <2>1, <2>2, GiveKeeps
<1>9. CASE Separator
  <2>1. /\ phase = "options" /\ options' = options /\ available' = available
        /\ items' = Append(items, <<"separator", Empty>>)
        /\ \/ phase' = "parsed" /\ mode' = "Error"
           \/ ~options.attach /\ phase' = "target" /\ mode' = mode
    BY <1>9 DEF Separator, Ends
  <2>2. <<"separator", Empty>> \in Items BY DEF Items, Kinds, Values
  <2>3. items' \in Seq(Items) BY <2>1, <2>2 DEF CliInv
  <2> QED BY <2>1, <2>3 DEF CliInv, CliTypeOK
<1>10. CASE TargetArgument
  <2>1. PICK argument \in IF options.target = <<>> THEN {Program} ELSE Arguments :
          options' = [options EXCEPT !.target = Append(@, argument)]
    BY <1>10 DEF TargetArgument
  <2>2. /\ phase = "target" /\ phase' = phase /\ mode' = mode /\ items' = items
        /\ available' = available
    BY <1>10 DEF TargetArgument
  <2>3. /\ IsOptions(options') /\ options'.target = Append(options.target, argument)
        /\ SamePid(options', options)
    BY <1>0, <2>1, TargetChanges
  <2>4. IsLine(options'.target)
    <3>1. IsLine(options.target) /\ argument \in Words
          /\ (options.target = <<>> => argument = Program)
      BY <2>1, WordsTyped DEF CliInv
    <3>2. options.target \in Seq(Words) BY <3>1 DEF IsLine
    <3>3. options'.target \in Seq(Words) BY <2>3, <3>1, <3>2
    <3>4. options'.target[1] = Program
      <4>1. CASE options.target = <<>> BY <2>3, <3>1, <4>1
      <4>2. CASE options.target # <<>> BY <2>3, <3>1, <3>2, <4>2 DEF IsLine
      <4> QED BY <4>1, <4>2
    <3> QED BY <3>3, <3>4 DEF IsLine
  <2> QED BY <2>2, <2>3, <2>4 DEF CliInv, CliTypeOK, SamePid
<1>11. CASE Finish
  <2>1. /\ phase' = "parsed" /\ mode' \in {"Error", "Run", "Attach"}
        /\ items' = items /\ available' = available
        /\ \/ options' = options
           \/ options' = [options EXCEPT !.hooks = ExpandHooks(options.requested)]
    BY <1>11 DEF Finish, Ends
  <2>2. /\ IsOptions(options') /\ options'.target = options.target
        /\ options'.pid = options.pid
    BY <1>0, <2>1, HooksChange DEF SameTarget, SamePid
  <2> QED BY <2>1, <2>2 DEF CliInv, CliTypeOK
<1> QED BY <1>1, <1>2, <1>3, <1>4, <1>5, <1>6, <1>7, <1>8, <1>9, <1>10, <1>11 DEF CliNext

LEMMA SelectionListed ==
  <<>> \in Selections /\ \A s \in Selections : ToSet(s) \subseteq ToSet(NameOrder)
<1>1. ASSUME NEW s \in Selections, NEW x \in ToSet(s) PROVE x \in Listed
  <2>1. s \in Seq(Listed) BY DEF Selections
  <2>2. PICK k \in DOMAIN s : x = s[k] BY DEF ToSet
  <2>3. k \in 1..Len(s) BY <2>1, <2>2
  <2> QED BY <2>1, <2>2, <2>3
<1>2. <<>> \in Selections BY DEF Selections
<1> QED BY <1>1, <1>2 DEF Listed

LEMMA CliInvHolds == StartupSpec => []CliInv
<1>1. StartupInit => CliInv
  <2> SUFFICES ASSUME StartupInit PROVE CliInv OBVIOUS
  <2>1. /\ phase = "start" /\ mode = "Error" /\ items = <<>> /\ options = NoOptions
        /\ \E library \in Libraries : available = DiscoverHooks(library)
    BY DEF StartupInit, CliInit
  <2>2. available \in Selections BY <2>1, DiscoverTyped
  <2>3. ToSet(available) \subseteq ToSet(NameOrder) BY <2>2, SelectionListed
  <2>4. items \in Seq(Items) BY <2>1
  <2> QED BY <2>1, <2>2, <2>3, <2>4, NoOptionsAre, WordsTyped, WordsAssumption
    DEF CliInv, CliTypeOK
<1>2. CliInv /\ [StartupNext]_startupVars => CliInv'
  <2> SUFFICES ASSUME CliInv, [StartupNext]_startupVars PROVE CliInv' OBVIOUS
  <2>1. CASE Parse BY <2>1, CliInvStep DEF Parse
  <2>2. CASE Launch
    <3>1. /\ phase' = "start" /\ mode' = "Error" /\ items' = <<>>
          /\ options' = NoOptions /\ available' = <<>>
      BY <2>2 DEF Launch
    <3>2. available' \in Selections /\ ToSet(available') \subseteq ToSet(NameOrder)
      BY <3>1, SelectionListed
    <3>3. items' \in Seq(Items) BY <3>1
    <3> QED BY <3>1, <3>2, <3>3, NoOptionsAre, WordsTyped, WordsAssumption
      DEF CliInv, CliTypeOK
  <2>3. CASE Session \/ UNCHANGED startupVars
    <3>1. UNCHANGED cliVars BY <2>3 DEF Session, startupVars
    <3> QED BY <3>1 DEF CliInv, CliTypeOK, cliVars
  <2> QED BY <2>1, <2>2, <2>3 DEF StartupNext
<1> QED BY <1>1, <1>2, PTL DEF StartupSpec

\* Whatever arguments the command line gives the target, with whatever spaces,
\* quotes and backslashes, the target takes its command line apart into exactly
\* these (QuoteWindowsArgument, BuildWindowsCommandLine).
THEOREM ArgumentsArriveIntactHolds == StartupSpec => []ArgumentsArriveIntact
<1>1. CliInv => ArgumentsArriveIntact
  BY WordsTyped, RoundTrip DEF CliInv, ArgumentsArriveIntact
<1> QED BY <1>1, CliInvHolds, PTL

-----------------------------------------------------------------------------
(* What was given to an option.                                            *)

Answers == Seq(Values)
Gathered(option, values, item) == IF item[1] = option THEN Append(values, item[2]) ELSE values
GivenStep(option) == [item \in Items |-> [values \in Answers |-> Gathered(option, values, item)]]

LEMMA GivenTyped ==
  ASSUME NEW option, NEW turn, turn = GivenStep(option)
  PROVE  /\ turn \in [Items -> [Answers -> Answers]]
         /\ \A item \in Items, values \in Answers :
              turn[item][values] = Gathered(option, values, item)
         /\ <<>> \in Answers
<1>1. ASSUME NEW item \in Items, NEW values \in Answers
      PROVE  Gathered(option, values, item) \in Answers
  <2>1. item[2] \in Values BY DEF Items
  <2>2. Append(values, item[2]) \in Answers BY <2>1 DEF Answers
  <2> QED BY <2>2 DEF Gathered
<1>2. <<>> \in Answers BY DEF Answers
<1> QED BY <1>1, <1>2 DEF GivenStep

LEMMA GivenFolds ==
  ASSUME NEW option, NEW turn, turn = GivenStep(option), NEW s \in Seq(Items)
  PROVE  FoldLeft(LAMBDA values, item : IF item[1] = option THEN Append(values, item[2])
                                        ELSE values, <<>>, s)
           = FoldOf(Answers, turn, <<>>, s)
<1> DEFINE n == Len(s)
           it == CHOOSE it : it = [T \in SUBSET (DOMAIN s) |->
                   IF T = {} THEN <<>> ELSE Gathered(option, it[T \ {Max(T)}], s[Max(T)])]
<1>0. n \in Nat /\ DOMAIN s = 1..n /\ \A k \in 1..n : s[k] \in Items OBVIOUS
<1>1. FoldLeft(LAMBDA values, item : IF item[1] = option THEN Append(values, item[2])
                                     ELSE values, <<>>, s)
        = it[DOMAIN s]
  BY DEF FoldLeft, MapThenFoldSet, Gathered
<1>2. /\ turn \in [Items -> [Answers -> Answers]] /\ <<>> \in Answers
      /\ \A a \in Items, x \in Answers : turn[a][x] = Gathered(option, x, a)
  BY GivenTyped
<1>3. PICK g \in [SUBSET (1..n) -> Answers] : IsIteration(g, s, turn, <<>>, n)
  BY <1>2, IterationExists
<1>4. g = [T \in SUBSET (DOMAIN s) |->
             IF T = {} THEN <<>> ELSE Gathered(option, g[T \ {Max(T)}], s[Max(T)])]
  <2>1. ASSUME NEW T \in SUBSET (1..n), T # {}
        PROVE  g[T] = Gathered(option, g[T \ {Max(T)}], s[Max(T)])
    <3>1. s[Max(T)] \in Items /\ g[T \ {Max(T)}] \in Answers BY <2>1, IterationTyped
    <3>2. g[T] = turn[s[Max(T)]][g[T \ {Max(T)}]] BY <1>3, <2>1 DEF IsIteration
    <3> QED BY <1>2, <3>1, <3>2
  <2> QED BY <1>0, <1>3, <2>1 DEF IsIteration
<1>5. it = [T \in SUBSET (DOMAIN s) |->
              IF T = {} THEN <<>> ELSE Gathered(option, it[T \ {Max(T)}], s[Max(T)])]
  BY <1>4
<1> HIDE DEF it
<1>6. it[{}] = <<>> BY <1>0, <1>5
<1>7. ASSUME NEW k \in 1..n, it[1..(k - 1)] \in Answers
      PROVE  it[1..k] = turn[s[k]][it[1..(k - 1)]]
  <2>1. /\ 1..k \in SUBSET (1..n) /\ 1..k # {} /\ Max(1..k) = k
        /\ (1..k) \ {Max(1..k)} = 1..(k - 1)
    BY <1>0, IterationSteps
  <2>2. it[1..k] = Gathered(option, it[1..(k - 1)], s[k]) BY <1>0, <1>5, <2>1
  <2> QED BY <1>0, <1>2, <1>7, <2>2
<1>8. Iterates(it, Answers, turn, <<>>, s) BY <1>6, <1>7 DEF Iterates
<1>9. it[1..n] = FoldOf(Answers, turn, <<>>, s) BY <1>2, <1>8, IterationFolds
<1> QED BY <1>0, <1>1, <1>9

GivenIn(option, s) == FoldOf(Answers, GivenStep(option), <<>>, s)

LEMMA GivenIs ==
  ASSUME NEW option
  PROVE  /\ GivenIn(option, <<>>) = <<>>
         /\ \A s \in Seq(Items) : GivenIn(option, s) \in Answers
         /\ \A s \in Seq(Items), item \in Items :
              GivenIn(option, Append(s, item)) = Gathered(option, GivenIn(option, s), item)
<1> DEFINE turn == GivenStep(option)
<1>1. /\ turn \in [Items -> [Answers -> Answers]] /\ <<>> \in Answers
      /\ \A item \in Items, values \in Answers :
           turn[item][values] = Gathered(option, values, item)
  BY GivenTyped
<1> HIDE DEF turn
<1>2. FoldOf(Answers, turn, <<>>, <<>>) = <<>> BY <1>1, FoldEmpty
<1>3. \A s \in Seq(Items) : FoldOf(Answers, turn, <<>>, s) \in Answers BY <1>1, FoldTyped
<1>4. ASSUME NEW s \in Seq(Items), NEW item \in Items
      PROVE  FoldOf(Answers, turn, <<>>, Append(s, item))
               = Gathered(option, FoldOf(Answers, turn, <<>>, s), item)
  BY <1>1, <1>3, FoldAppend
<1> QED BY <1>2, <1>3, <1>4 DEF GivenIn, turn

IsMore(next, s, kind, value) == next = Append(s, <<kind, value>>)

\* An item more adds its value to what its option was given, and to no other.
LEMMA GivenMore ==
  ASSUME NEW s \in Seq(Items), NEW kind \in Kinds, NEW value \in Values,
         NEW next, IsMore(next, s, kind, value)
  PROVE  /\ next \in Seq(Items)
         /\ GivenIn(kind, next) = Append(GivenIn(kind, s), value)
         /\ \A option : option # kind => GivenIn(option, next) = GivenIn(option, s)
<1> DEFINE item == <<kind, value>>
<1>1. item \in Items /\ item[1] = kind /\ item[2] = value BY DEF Items
<1> HIDE DEF item
<1>2. next = Append(s, item) BY DEF IsMore, item
<1>3. next \in Seq(Items) BY <1>1, <1>2
<1>4. ASSUME NEW option PROVE GivenIn(option, next) = Gathered(option, GivenIn(option, s), item)
  BY <1>1, <1>2, GivenIs
<1> QED BY <1>1, <1>3, <1>4 DEF Gathered

LEMMA GivenReads ==
  /\ items \in Seq(Items) => \A option : Given(option) = GivenIn(option, items)
  /\ items' \in Seq(Items) => \A option : Given(option)' = GivenIn(option, items')
<1>1. ASSUME NEW option, NEW s \in Seq(Items)
      PROVE  FoldLeft(LAMBDA values, item : IF item[1] = option THEN Append(values, item[2])
                                            ELSE values, <<>>, s)
               = GivenIn(option, s)
  <2> DEFINE turn == GivenStep(option)
  <2>1. turn = GivenStep(option) OBVIOUS
  <2> HIDE DEF turn
  <2> QED BY <2>1, GivenFolds DEF GivenIn
<1>2. ASSUME items \in Seq(Items), NEW option PROVE Given(option) = GivenIn(option, items)
  BY <1>1, <1>2 DEF Given
<1>3. ASSUME items' \in Seq(Items), NEW option PROVE Given(option)' = GivenIn(option, items')
  BY <1>1, <1>3 DEF Given, FoldLeft, MapThenFoldSet
<1> QED BY <1>2, <1>3

-----------------------------------------------------------------------------
(* The hooks asked for.                                                    *)

Names == Listed \union {RequestedName(text) : text \in Values}
HookLists == Seq(Names)
AddStep == [hook \in Names |-> [hooks \in HookLists |-> AddHook(hooks, hook)]]

NoRepeats(hooks) == IsFiniteSet(ToSet(hooks)) /\ Cardinality(ToSet(hooks)) = Len(hooks)

LEMMA AppendedSet ==
  ASSUME NEW A, NEW s \in Seq(A), NEW a \in A
  PROVE  ToSet(Append(s, a)) = ToSet(s) \union {a}
<1> DEFINE t == Append(s, a)
<1>1. /\ DOMAIN s = 1..Len(s) /\ DOMAIN t = 1..(Len(s) + 1) /\ Len(s) \in Nat
      /\ t[Len(s) + 1] = a /\ \A k \in 1..Len(s) : t[k] = s[k]
  OBVIOUS
<1> HIDE DEF t
<1>2. ASSUME NEW x \in ToSet(t) PROVE x \in ToSet(s) \union {a}
  <2>1. PICK k \in 1..(Len(s) + 1) : x = t[k] BY <1>1 DEF ToSet
  <2>2. CASE k = Len(s) + 1 BY <1>1, <2>1, <2>2
  <2>3. CASE k # Len(s) + 1
    <3>1. k \in 1..Len(s) BY <1>1, <2>3
    <3> QED BY <1>1, <2>1, <3>1 DEF ToSet
  <2> QED BY <2>2, <2>3
<1>3. ASSUME NEW x \in ToSet(s) PROVE x \in ToSet(t)
  <2>1. PICK k \in 1..Len(s) : x = s[k] BY <1>1 DEF ToSet
  <2>2. k \in 1..(Len(s) + 1) BY <1>1
  <2> QED BY <1>1, <2>1, <2>2 DEF ToSet
<1>4. a \in ToSet(t)
  <2>1. Len(s) + 1 \in 1..(Len(s) + 1) BY <1>1
  <2> QED BY <1>1, <2>1 DEF ToSet
<1>5. ToSet(t) = ToSet(s) \union {a} BY <1>2, <1>3, <1>4
<1> QED BY <1>5 DEF t

LEMMA AddHookAdds ==
  ASSUME NEW h \in HookLists, NoRepeats(h), NEW hook \in Names, NEW n, n = AddHook(h, hook)
  PROVE  n \in HookLists /\ NoRepeats(n) /\ ToSet(n) = ToSet(h) \union {hook}
<1>0. h \in Seq(Names) BY DEF HookLists
<1>1. Contains(h, hook) <=> hook \in ToSet(h)
  <2>1. DOMAIN h = 1..Len(h) BY <1>0
  <2> QED BY <2>1 DEF Contains, ToSet
<1>2. CASE Contains(h, hook)
  <2>1. n = h /\ ToSet(h) \union {hook} = ToSet(h) BY <1>1, <1>2 DEF AddHook
  <2> QED BY <2>1
<1>3. CASE ~Contains(h, hook)
  <2>1. n = Append(h, hook) BY <1>3 DEF AddHook
  <2>2. ToSet(n) = ToSet(h) \union {hook} BY <1>0, <2>1, AppendedSet
  <2>3. n \in Seq(Names) /\ Len(n) = Len(h) + 1 BY <1>0, <2>1, Appending
  <2>4. IsFiniteSet(ToSet(n)) /\ Cardinality(ToSet(n)) = Cardinality(ToSet(h)) + 1
    BY <1>1, <1>3, <2>2, FS_AddElement DEF NoRepeats
  <2> QED BY <2>2, <2>3, <2>4 DEF NoRepeats, HookLists
<1> QED BY <1>2, <1>3

LEMMA AddTyped ==
  /\ AddStep \in [Names -> [HookLists -> HookLists]]
  /\ \A hook \in Names, hooks \in HookLists : AddStep[hook][hooks] = AddHook(hooks, hook)
<1>1. \A hook \in Names, hooks \in HookLists : AddHook(hooks, hook) \in HookLists
  <2>1. \A hook \in Names, hooks \in HookLists : Append(hooks, hook) \in HookLists
    BY DEF HookLists
  <2> QED BY <2>1 DEF AddHook
<1> QED BY <1>1 DEF AddStep

LEMMA AddFolds ==
  ASSUME NEW h \in HookLists, NEW s \in Seq(Names)
  PROVE  FoldLeft(AddHook, h, s)
           = FoldOf(HookLists, AddStep, h, s)
<1> DEFINE n == Len(s)
           it == CHOOSE it : it = [T \in SUBSET (DOMAIN s) |->
                   IF T = {} THEN h ELSE AddHook(it[T \ {Max(T)}], s[Max(T)])]
<1>0. n \in Nat /\ DOMAIN s = 1..n /\ \A k \in 1..n : s[k] \in Names OBVIOUS
<1>1. FoldLeft(AddHook, h, s) = it[DOMAIN s]
  BY DEF FoldLeft, MapThenFoldSet
<1>2. /\ AddStep \in [Names -> [HookLists -> HookLists]] /\ h \in HookLists
      /\ \A a \in Names, x \in HookLists : AddStep[a][x] = AddHook(x, a)
  BY AddTyped
<1>3. PICK g \in [SUBSET (1..n) -> HookLists] : IsIteration(g, s, AddStep, h, n)
  BY <1>2, IterationExists
<1>4. g = [T \in SUBSET (DOMAIN s) |->
             IF T = {} THEN h ELSE AddHook(g[T \ {Max(T)}], s[Max(T)])]
  <2>1. ASSUME NEW T \in SUBSET (1..n), T # {}
        PROVE  g[T] = AddHook(g[T \ {Max(T)}], s[Max(T)])
    <3>1. s[Max(T)] \in Names /\ g[T \ {Max(T)}] \in HookLists BY <2>1, IterationTyped
    <3>2. g[T] = AddStep[s[Max(T)]][g[T \ {Max(T)}]] BY <1>3, <2>1 DEF IsIteration
    <3> QED BY <1>2, <3>1, <3>2
  <2> QED BY <1>0, <1>3, <2>1 DEF IsIteration
<1>5. it = [T \in SUBSET (DOMAIN s) |->
              IF T = {} THEN h ELSE AddHook(it[T \ {Max(T)}], s[Max(T)])]
  BY <1>4
<1> HIDE DEF it
<1>6. it[{}] = h BY <1>0, <1>5
<1>7. ASSUME NEW k \in 1..n, it[1..(k - 1)] \in HookLists
      PROVE  it[1..k] = AddStep[s[k]][it[1..(k - 1)]]
  <2>1. /\ 1..k \in SUBSET (1..n) /\ 1..k # {} /\ Max(1..k) = k
        /\ (1..k) \ {Max(1..k)} = 1..(k - 1)
    BY <1>0, IterationSteps
  <2>2. it[1..k] = AddHook(it[1..(k - 1)], s[k]) BY <1>0, <1>5, <2>1
  <2> QED BY <1>0, <1>2, <1>7, <2>2
<1>8. Iterates(it, HookLists, AddStep, h, s) BY <1>6, <1>7 DEF Iterates
<1>9. it[1..n] = FoldOf(HookLists, AddStep, h, s) BY <1>2, <1>8, IterationFolds
<1> QED BY <1>0, <1>1, <1>9

LEMMA AddAll ==
  ASSUME NEW h \in HookLists, NoRepeats(h), NEW s \in HookLists,
         NEW n, n = FoldLeft(AddHook, h, s)
  PROVE  n \in HookLists /\ NoRepeats(n) /\ ToSet(n) = ToSet(h) \union ToSet(s)
<1> DEFINE F(r) == FoldOf(HookLists, AddStep, h, r)
           P == {r \in Seq(Names) : /\ F(r) \in HookLists /\ NoRepeats(F(r))
                                    /\ ToSet(F(r)) = ToSet(h) \union ToSet(r)}
<1>1. <<>> \in P
  <2>1. F(<<>>) = h BY AddTyped, FoldEmpty
  <2>2. <<>> \in Seq(Names) /\ ToSet(<<>>) = {} BY DEF ToSet
  <2> HIDE DEF F
  <2> QED BY <2>1, <2>2
<1>2. ASSUME NEW r \in Seq(Names), NEW hook \in Names, r \in P PROVE Append(r, hook) \in P
  <2>1. F(Append(r, hook)) = AddStep[hook][F(r)] BY AddTyped, FoldAppend
  <2> HIDE DEF F
  <2> DEFINE f == F(r)
             t == Append(r, hook)
  <2>2. f \in HookLists /\ NoRepeats(f) /\ ToSet(f) = ToSet(h) \union ToSet(r) BY <1>2
  <2>3. F(t) = AddStep[hook][f] BY <2>1
  <2>4. ToSet(t) = ToSet(r) \union {hook} /\ t \in Seq(Names) BY AppendedSet, Appending
  <2> HIDE DEF f, t
  <2>5. F(t) = AddHook(f, hook) BY <2>2, <2>3, AddTyped
  <2>6. /\ F(t) \in HookLists /\ NoRepeats(F(t))
        /\ ToSet(F(t)) = ToSet(f) \union {hook}
    BY <2>2, <2>5, AddHookAdds
  <2> QED BY <2>2, <2>4, <2>6 DEF t
<1> HIDE DEF P, F
<1>3. Seq(Names) \subseteq P BY <1>1, <1>2, SequenceInduction
<1>4. s \in Seq(Names) BY DEF HookLists
<1>5. n = F(s) BY <1>4, AddFolds DEF F
<1>6. s \in P BY <1>3, <1>4
<1> QED BY <1>5, <1>6 DEF P

\* What a request asks for: every hook found, or the one it names.
AskedSet(text) == IF text = All THEN ToSet(available) ELSE {RequestedName(text)}

LEMMA AskedIs ==
  ASSUME available \in Selections, NEW text \in Values
  PROVE  Asked(text) \in HookLists /\ ToSet(Asked(text)) = AskedSet(text)
<1>1. CASE text = All
  <2>1. available \in Seq(Listed) /\ Listed \subseteq Names BY DEF Selections, Names
  <2>2. available \in Seq(Names) BY <2>1
  <2> QED BY <1>1, <2>2 DEF Asked, AskedSet, HookLists
<1>2. CASE text # All
  <2> DEFINE name == RequestedName(text)
  <2>1. name \in Names BY DEF Names
  <2>2. Asked(text) = <<name>> /\ AskedSet(text) = {name} BY <1>2 DEF Asked, AskedSet
  <2> HIDE DEF name
  <2>3. <<name>> \in Seq(Names) /\ DOMAIN <<name>> = {1} BY <2>1
  <2>4. ToSet(<<name>>) = {name} BY <2>3 DEF ToSet
  <2> QED BY <2>2, <2>3, <2>4 DEF HookLists
<1> QED BY <1>1, <1>2

ExpandStep == [text \in Values |-> [hooks \in HookLists |-> AddHooks(hooks, text)]]

LEMMA AddHooksTyped ==
  ASSUME available \in Selections, NEW hooks \in HookLists, NEW text \in Values
  PROVE  AddHooks(hooks, text) \in HookLists
<1> DEFINE asked == Asked(text)
<1>1. asked \in HookLists BY AskedIs
<1>2. AddHooks(hooks, text) = FoldLeft(AddHook, hooks, asked) BY DEF AddHooks
<1> HIDE DEF asked
<1>3. asked \in Seq(Names) BY <1>1 DEF HookLists
<1>4. FoldLeft(AddHook, hooks, asked) = FoldOf(HookLists, AddStep, hooks, asked)
  BY <1>3, AddFolds
<1> QED BY <1>2, <1>3, <1>4, AddTyped, FoldTyped

LEMMA ExpandTyped ==
  ASSUME available \in Selections
  PROVE  /\ ExpandStep \in [Values -> [HookLists -> HookLists]] /\ <<>> \in HookLists
         /\ \A text \in Values, hooks \in HookLists :
              ExpandStep[text][hooks] = AddHooks(hooks, text)
<1>1. \A text \in Values, hooks \in HookLists : AddHooks(hooks, text) \in HookLists
  BY AddHooksTyped
<1>2. <<>> \in HookLists BY DEF HookLists
<1> QED BY <1>1, <1>2 DEF ExpandStep

LEMMA ExpandFolds ==
  ASSUME available \in Selections, NEW s \in Seq(Values)
  PROVE  FoldLeft(AddHooks, <<>>, s)
           = FoldOf(HookLists, ExpandStep, <<>>, s)
<1> DEFINE n == Len(s)
           it == CHOOSE it : it = [T \in SUBSET (DOMAIN s) |->
                   IF T = {} THEN <<>> ELSE AddHooks(it[T \ {Max(T)}], s[Max(T)])]
<1>0. n \in Nat /\ DOMAIN s = 1..n /\ \A k \in 1..n : s[k] \in Values OBVIOUS
<1>1. FoldLeft(AddHooks, <<>>, s) = it[DOMAIN s]
  BY DEF FoldLeft, MapThenFoldSet
<1>2. /\ ExpandStep \in [Values -> [HookLists -> HookLists]] /\ <<>> \in HookLists
      /\ \A a \in Values, x \in HookLists : ExpandStep[a][x] = AddHooks(x, a)
  BY ExpandTyped
<1>3. PICK g \in [SUBSET (1..n) -> HookLists] : IsIteration(g, s, ExpandStep, <<>>, n)
  BY <1>2, IterationExists
<1>4. g = [T \in SUBSET (DOMAIN s) |->
             IF T = {} THEN <<>> ELSE AddHooks(g[T \ {Max(T)}], s[Max(T)])]
  <2>1. ASSUME NEW T \in SUBSET (1..n), T # {}
        PROVE  g[T] = AddHooks(g[T \ {Max(T)}], s[Max(T)])
    <3>1. s[Max(T)] \in Values /\ g[T \ {Max(T)}] \in HookLists BY <2>1, IterationTyped
    <3>2. g[T] = ExpandStep[s[Max(T)]][g[T \ {Max(T)}]] BY <1>3, <2>1 DEF IsIteration
    <3> QED BY <1>2, <3>1, <3>2
  <2> QED BY <1>0, <1>3, <2>1 DEF IsIteration
<1>5. it = [T \in SUBSET (DOMAIN s) |->
              IF T = {} THEN <<>> ELSE AddHooks(it[T \ {Max(T)}], s[Max(T)])]
  BY <1>4
<1> HIDE DEF it
<1>6. it[{}] = <<>> BY <1>0, <1>5
<1>7. ASSUME NEW k \in 1..n, it[1..(k - 1)] \in HookLists
      PROVE  it[1..k] = ExpandStep[s[k]][it[1..(k - 1)]]
  <2>1. /\ 1..k \in SUBSET (1..n) /\ 1..k # {} /\ Max(1..k) = k
        /\ (1..k) \ {Max(1..k)} = 1..(k - 1)
    BY <1>0, IterationSteps
  <2>2. it[1..k] = AddHooks(it[1..(k - 1)], s[k]) BY <1>0, <1>5, <2>1
  <2> QED BY <1>0, <1>2, <1>7, <2>2
<1>8. Iterates(it, HookLists, ExpandStep, <<>>, s) BY <1>6, <1>7 DEF Iterates
<1>9. it[1..n] = FoldOf(HookLists, ExpandStep, <<>>, s) BY <1>2, <1>8, IterationFolds
<1> QED BY <1>0, <1>1, <1>9

\* Expanding requests gives every hook they ask for, each once.
LEMMA ExpandIs ==
  ASSUME available \in Selections, NEW s \in Answers, NEW n, n = ExpandHooks(s)
  PROVE  /\ n \in HookLists /\ NoRepeats(n)
         /\ ToSet(n) = UNION {AskedSet(text) : text \in ToSet(s)}
<1> DEFINE F(r) == FoldOf(HookLists, ExpandStep, <<>>, r)
           U(r) == UNION {AskedSet(text) : text \in ToSet(r)}
           P == {r \in Seq(Values) : F(r) \in HookLists /\ NoRepeats(F(r)) /\ ToSet(F(r)) = U(r)}
<1>0. /\ ExpandStep \in [Values -> [HookLists -> HookLists]] /\ <<>> \in HookLists
      /\ \A text \in Values, hooks \in HookLists : ExpandStep[text][hooks] = AddHooks(hooks, text)
  BY ExpandTyped
<1>1. <<>> \in P
  <2>1. F(<<>>) = <<>> BY <1>0, FoldEmpty
  <2>2. <<>> \in Seq(Values) /\ ToSet(<<>>) = {} BY DEF ToSet
  <2>3. U(<<>>) = {} BY <2>2
  <2>4. NoRepeats(<<>>) BY <2>2, FS_EmptySet DEF NoRepeats
  <2> HIDE DEF F, U
  <2> QED BY <1>0, <2>1, <2>2, <2>3, <2>4
<1>2. ASSUME NEW r \in Seq(Values), NEW text \in Values, r \in P PROVE Append(r, text) \in P
  <2> DEFINE f == F(r)
             t == Append(r, text)
             asked == Asked(text)
  <2>1. F(t) = ExpandStep[text][f] BY <1>0, FoldAppend
  <2>2. ToSet(t) = ToSet(r) \union {text} /\ t \in Seq(Values) BY AppendedSet, Appending
  <2>3. U(t) = U(r) \union AskedSet(text) BY <2>2
  <2> HIDE DEF F, U
  <2>4. f \in HookLists /\ NoRepeats(f) /\ ToSet(f) = U(r) BY <1>2
  <2>5. asked \in HookLists /\ ToSet(asked) = AskedSet(text) BY AskedIs
  <2> HIDE DEF f, t
  <2>6. F(t) = FoldLeft(AddHook, f, asked) BY <1>0, <2>1, <2>4 DEF AddHooks
  <2> HIDE DEF asked
  <2>7. F(t) \in HookLists /\ NoRepeats(F(t)) /\ ToSet(F(t)) = ToSet(f) \union ToSet(asked)
    BY <2>4, <2>5, <2>6, AddAll
  <2>8. ToSet(F(t)) = U(t) BY <2>3, <2>4, <2>5, <2>7
  <2> QED BY <2>2, <2>7, <2>8 DEF t
<1> HIDE DEF P, F, U
<1>3. Seq(Values) \subseteq P BY <1>1, <1>2, SequenceInduction
<1>4. s \in Seq(Values) BY DEF Answers
<1>5. n = F(s) BY <1>4, ExpandFolds DEF F, ExpandHooks
<1>6. s \in P BY <1>3, <1>4
<1> QED BY <1>5, <1>6 DEF P, U

-----------------------------------------------------------------------------
(* Process identifiers.                                                    *)

Digits == 0..10
Totals == Nat
Worth(worth, digit) == worth * 10 + digit
WorthStep == [digit \in Digits |-> [worth \in Totals |-> Worth(worth, digit)]]
ShiftStep == [digit \in Digits |-> [parsed \in Totals |-> Shift(parsed, digit)]]

LEMMA WorthTyped ==
  /\ WorthStep \in [Digits -> [Totals -> Totals]] /\ 0 \in Totals
  /\ \A digit \in Digits, worth \in Totals : WorthStep[digit][worth] = Worth(worth, digit)
<1>1. \A digit \in Digits, worth \in Totals : Worth(worth, digit) \in Totals
  BY DEF Worth, Digits, Totals
<1> QED BY <1>1 DEF WorthStep, Totals

LEMMA ShiftTyped ==
  /\ ShiftStep \in [Digits -> [Totals -> Totals]] /\ 0 \in Totals
  /\ \A digit \in Digits, parsed \in Totals : ShiftStep[digit][parsed] = Shift(parsed, digit)
<1>1. \A digit \in Digits, parsed \in Totals : Shift(parsed, digit) \in Totals
  BY WordsAssumption DEF Shift, Digits, Totals
<1> QED BY <1>1 DEF ShiftStep, Totals

LEMMA WorthFolds ==
  ASSUME NEW s \in Seq(Digits)
  PROVE  FoldLeft(LAMBDA worth, digit : worth * 10 + digit, 0, s)
           = FoldOf(Totals, WorthStep, 0, s)
<1> DEFINE n == Len(s)
           it == CHOOSE it : it = [T \in SUBSET (DOMAIN s) |->
                   IF T = {} THEN 0 ELSE Worth(it[T \ {Max(T)}], s[Max(T)])]
<1>0. n \in Nat /\ DOMAIN s = 1..n /\ \A k \in 1..n : s[k] \in Digits OBVIOUS
<1>1. FoldLeft(LAMBDA worth, digit : worth * 10 + digit, 0, s) = it[DOMAIN s]
  BY DEF FoldLeft, MapThenFoldSet, Worth
<1>2. /\ WorthStep \in [Digits -> [Totals -> Totals]] /\ 0 \in Totals
      /\ \A a \in Digits, x \in Totals : WorthStep[a][x] = Worth(x, a)
  BY WorthTyped
<1>3. PICK g \in [SUBSET (1..n) -> Totals] : IsIteration(g, s, WorthStep, 0, n)
  BY <1>2, IterationExists
<1>4. g = [T \in SUBSET (DOMAIN s) |->
             IF T = {} THEN 0 ELSE Worth(g[T \ {Max(T)}], s[Max(T)])]
  <2>1. ASSUME NEW T \in SUBSET (1..n), T # {}
        PROVE  g[T] = Worth(g[T \ {Max(T)}], s[Max(T)])
    <3>1. s[Max(T)] \in Digits /\ g[T \ {Max(T)}] \in Totals BY <2>1, IterationTyped
    <3>2. g[T] = WorthStep[s[Max(T)]][g[T \ {Max(T)}]] BY <1>3, <2>1 DEF IsIteration
    <3> QED BY <1>2, <3>1, <3>2
  <2> QED BY <1>0, <1>3, <2>1 DEF IsIteration
<1>5. it = [T \in SUBSET (DOMAIN s) |->
              IF T = {} THEN 0 ELSE Worth(it[T \ {Max(T)}], s[Max(T)])]
  BY <1>4
<1> HIDE DEF it
<1>6. it[{}] = 0 BY <1>0, <1>5
<1>7. ASSUME NEW k \in 1..n, it[1..(k - 1)] \in Totals
      PROVE  it[1..k] = WorthStep[s[k]][it[1..(k - 1)]]
  <2>1. /\ 1..k \in SUBSET (1..n) /\ 1..k # {} /\ Max(1..k) = k
        /\ (1..k) \ {Max(1..k)} = 1..(k - 1)
    BY <1>0, IterationSteps
  <2>2. it[1..k] = Worth(it[1..(k - 1)], s[k]) BY <1>0, <1>5, <2>1
  <2> QED BY <1>0, <1>2, <1>7, <2>2
<1>8. Iterates(it, Totals, WorthStep, 0, s) BY <1>6, <1>7 DEF Iterates
<1>9. it[1..n] = FoldOf(Totals, WorthStep, 0, s) BY <1>2, <1>8, IterationFolds
<1> QED BY <1>0, <1>1, <1>9

LEMMA ShiftFolds ==
  ASSUME NEW s \in Seq(Digits)
  PROVE  FoldLeft(Shift, 0, s)
           = FoldOf(Totals, ShiftStep, 0, s)
<1> DEFINE n == Len(s)
           it == CHOOSE it : it = [T \in SUBSET (DOMAIN s) |->
                   IF T = {} THEN 0 ELSE Shift(it[T \ {Max(T)}], s[Max(T)])]
<1>0. n \in Nat /\ DOMAIN s = 1..n /\ \A k \in 1..n : s[k] \in Digits OBVIOUS
<1>1. FoldLeft(Shift, 0, s) = it[DOMAIN s]
  BY DEF FoldLeft, MapThenFoldSet
<1>2. /\ ShiftStep \in [Digits -> [Totals -> Totals]] /\ 0 \in Totals
      /\ \A a \in Digits, x \in Totals : ShiftStep[a][x] = Shift(x, a)
  BY ShiftTyped
<1>3. PICK g \in [SUBSET (1..n) -> Totals] : IsIteration(g, s, ShiftStep, 0, n)
  BY <1>2, IterationExists
<1>4. g = [T \in SUBSET (DOMAIN s) |->
             IF T = {} THEN 0 ELSE Shift(g[T \ {Max(T)}], s[Max(T)])]
  <2>1. ASSUME NEW T \in SUBSET (1..n), T # {}
        PROVE  g[T] = Shift(g[T \ {Max(T)}], s[Max(T)])
    <3>1. s[Max(T)] \in Digits /\ g[T \ {Max(T)}] \in Totals BY <2>1, IterationTyped
    <3>2. g[T] = ShiftStep[s[Max(T)]][g[T \ {Max(T)}]] BY <1>3, <2>1 DEF IsIteration
    <3> QED BY <1>2, <3>1, <3>2
  <2> QED BY <1>0, <1>3, <2>1 DEF IsIteration
<1>5. it = [T \in SUBSET (DOMAIN s) |->
              IF T = {} THEN 0 ELSE Shift(it[T \ {Max(T)}], s[Max(T)])]
  BY <1>4
<1> HIDE DEF it
<1>6. it[{}] = 0 BY <1>0, <1>5
<1>7. ASSUME NEW k \in 1..n, it[1..(k - 1)] \in Totals
      PROVE  it[1..k] = ShiftStep[s[k]][it[1..(k - 1)]]
  <2>1. /\ 1..k \in SUBSET (1..n) /\ 1..k # {} /\ Max(1..k) = k
        /\ (1..k) \ {Max(1..k)} = 1..(k - 1)
    BY <1>0, IterationSteps
  <2>2. it[1..k] = Shift(it[1..(k - 1)], s[k]) BY <1>0, <1>5, <2>1
  <2> QED BY <1>0, <1>2, <1>7, <2>2
<1>8. Iterates(it, Totals, ShiftStep, 0, s) BY <1>6, <1>7 DEF Iterates
<1>9. it[1..n] = FoldOf(Totals, ShiftStep, 0, s) BY <1>2, <1>8, IterationFolds
<1> QED BY <1>0, <1>1, <1>9

\* A value no larger than MaxPid, or MaxPid + 1 for every other.
Capped(n) == IF n > MaxPid THEN MaxPid + 1 ELSE n

LEMMA ShiftCaps ==
  ASSUME NEW n \in Nat, NEW digit \in Digits
  PROVE  Shift(Capped(n), digit) = Capped(Worth(n, digit))
<1>1. MaxPid \in Nat /\ digit \in 0..10 BY WordsAssumption DEF Digits
<1> QED BY <1>1 DEF Shift, Capped, Worth

\* Refusing what is too large as soon as it is loses no identifier.
LEMMA ShiftIsWorth ==
  ASSUME NEW text \in Seq(Digits)
  PROVE  /\ FoldOf(Totals, WorthStep, 0, text) \in Nat
         /\ FoldOf(Totals, ShiftStep, 0, text) = Capped(FoldOf(Totals, WorthStep, 0, text))
<1> DEFINE W(r) == FoldOf(Totals, WorthStep, 0, r)
           S(r) == FoldOf(Totals, ShiftStep, 0, r)
           P == {r \in Seq(Digits) : W(r) \in Nat /\ S(r) = Capped(W(r))}
<1>1. <<>> \in P
  <2>1. W(<<>>) = 0 /\ S(<<>>) = 0 BY WorthTyped, ShiftTyped, FoldEmpty
  <2>2. Capped(0) = 0 BY WordsAssumption DEF Capped
  <2> HIDE DEF W, S
  <2> QED BY <2>1, <2>2
<1>2. ASSUME NEW r \in Seq(Digits), NEW digit \in Digits, r \in P PROVE Append(r, digit) \in P
  <2> DEFINE t == Append(r, digit)
             w == W(r)
             s == S(r)
  <2>1. W(t) = WorthStep[digit][w] BY WorthTyped, FoldAppend
  <2>2. S(t) = ShiftStep[digit][s] BY ShiftTyped, FoldAppend
  <2> HIDE DEF W, S
  <2>3. w \in Nat /\ w \in Totals /\ s = Capped(w) BY <1>2 DEF Totals
  <2>4. t \in Seq(Digits) BY Appending
  <2> HIDE DEF w, s, t
  <2>5. s \in Totals BY <2>3, WordsAssumption DEF Capped, Totals
  <2>6. W(t) = Worth(w, digit) /\ W(t) \in Nat
    <3>1. W(t) = Worth(w, digit) /\ W(t) \in Totals BY <2>1, <2>3, WorthTyped
    <3> QED BY <3>1 DEF Totals
  <2>7. S(t) = Shift(s, digit) BY <2>2, <2>5, ShiftTyped
  <2>8. S(t) = Capped(W(t)) BY <2>3, <2>6, <2>7, ShiftCaps
  <2> QED BY <2>4, <2>6, <2>8 DEF t
<1> HIDE DEF P, W, S
<1>3. Seq(Digits) \subseteq P BY <1>1, <1>2, SequenceInduction
<1> QED BY <1>3 DEF P, W, S

LEMMA PidIs ==
  ASSUME NEW text \in PidTexts
  PROVE  ParseProcessId(text) = IF Numeral(text) \in 1..MaxPid THEN Numeral(text) ELSE 0
<1> DEFINE shifted == FoldLeft(Shift, 0, text)
           w == FoldOf(Totals, WorthStep, 0, text)
<1>1. text \in Seq(Digits) /\ MaxPid \in Nat BY WordsAssumption DEF Digits
<1>2. shifted = Capped(w) /\ w \in Nat BY <1>1, ShiftFolds, ShiftIsWorth
<1>3. Numeral(text) = IF text = <<>> \/ 10 \in ToSet(text) THEN MaxPid + 1 ELSE w
  BY <1>1, WorthFolds DEF Numeral
<1>4. ParseProcessId(text) = IF text # <<>> /\ (\A i \in DOMAIN text : text[i] <= 9)
                                /\ shifted \in 1..MaxPid
                             THEN shifted ELSE 0
  BY DEF ParseProcessId
<1>5. (\A i \in DOMAIN text : text[i] <= 9) <=> 10 \notin ToSet(text)
  <2>1. \A i \in DOMAIN text : text[i] \in 0..10 BY <1>1 DEF Digits
  <2> QED BY <2>1 DEF ToSet
<1> HIDE DEF shifted, w
<1>6. CASE text = <<>> \/ 10 \in ToSet(text)
  <2>1. Numeral(text) = MaxPid + 1 /\ ParseProcessId(text) = 0 BY <1>3, <1>4, <1>5, <1>6
  <2> QED BY <1>1, <2>1
<1>7. CASE ~(text = <<>> \/ 10 \in ToSet(text))
  <2>1. Numeral(text) = w BY <1>3, <1>7
  <2>2. ParseProcessId(text) = IF shifted \in 1..MaxPid THEN shifted ELSE 0
    BY <1>4, <1>5, <1>7
  <2> QED BY <1>1, <1>2, <2>1, <2>2 DEF Capped
<1> QED BY <1>6, <1>7

-----------------------------------------------------------------------------
(* The options against what was given.                                     *)

LastIn(kind, s, default) ==
  IF GivenIn(kind, s) = <<>> THEN default ELSE Last(GivenIn(kind, s))

\* Nothing given so far is refused, and the options are the last ones given.
PidAsGiven(s, o) ==
  /\ o.pid = IF GivenIn("pid", s) = <<>> THEN 0 ELSE Numeral(Last(GivenIn("pid", s)))
  /\ o.attach => \A text \in ToSet(GivenIn("pid", s)) : Numeral(text) \in 1..MaxPid
  /\ ~o.attach => GivenIn("pid", s) = <<>>
HooksAsGiven(s, o) ==
  /\ o.requested = GivenIn("hook", s)
  /\ \A text \in ToSet(GivenIn("hook", s)) : text \notin NonAscii
FormatAsGiven(s, o) ==
  /\ "other" \notin ToSet(GivenIn("format", s))
  /\ o.jsonl \in BOOLEAN /\ (o.jsonl <=> LastIn("format", s, "text") = "jsonl")
  /\ o.formatGiven \in BOOLEAN /\ (o.formatGiven <=> GivenIn("format", s) # <<>>)
PathAsGiven(s, o) == o.path = LastIn("output", s, Empty)
QuietAsGiven(s, o) == o.quiet \in BOOLEAN /\ (o.quiet <=> GivenIn("quiet", s) # <<>>)
OthersAsGiven(s, o) ==
  GivenIn("other", s) = <<>> /\ (o.attach => GivenIn("separator", s) = <<>>)

AsGiven(s, o) ==
  /\ PidAsGiven(s, o) /\ HooksAsGiven(s, o) /\ FormatAsGiven(s, o)
  /\ PathAsGiven(s, o) /\ QuietAsGiven(s, o) /\ OthersAsGiven(s, o)

\* Wanted, WellFormed and AcceptedAsGiven of any items, options, mode and hooks.
WantedFrom(s, hooks) ==
  UNION {IF text = All THEN ToSet(hooks) ELSE {RequestedName(text)} :
           text \in ToSet(GivenIn("hook", s))}

HooksWell(s, hooks) ==
  /\ \A text \in ToSet(GivenIn("hook", s)) :
       text = All \/ (IsQualified(text) /\ text \notin NonAscii)
  /\ WantedFrom(s, hooks) # {} /\ WantedFrom(s, hooks) \subseteq ToSet(hooks)
OutputWell(s) ==
  LastIn("output", s, Empty) = Empty => GivenIn("format", s) = <<>> /\ GivenIn("quiet", s) = <<>>
TargetWell(s, o) ==
  IF o.attach
  THEN /\ GivenIn("separator", s) = <<>> /\ GivenIn("pid", s) # <<>>
       /\ \A text \in ToSet(GivenIn("pid", s)) : Numeral(text) \in 1..MaxPid
  ELSE GivenIn("pid", s) = <<>> /\ o.target # <<>>

IsWellFormed(s, o, hooks) ==
  /\ GivenIn("other", s) = <<>> /\ "other" \notin ToSet(GivenIn("format", s))
  /\ HooksWell(s, hooks) /\ OutputWell(s) /\ TargetWell(s, o)

AsAsked(s, o, hooks) ==
  /\ o.pid = IF o.attach THEN Numeral(LastIn("pid", s, <<>>)) ELSE 0
  /\ o.jsonl = (LastIn("format", s, "text") = "jsonl")
  /\ o.path = LastIn("output", s, Empty)
  /\ o.quiet = (GivenIn("quiet", s) # <<>>)
  /\ ToSet(o.hooks) = WantedFrom(s, hooks)
  /\ Len(o.hooks) = Cardinality(WantedFrom(s, hooks))

IsAccepted(s, o, m, hooks) ==
  /\ m \in {"Run", "Attach"} <=> IsWellFormed(s, o, hooks)
  /\ IsWellFormed(s, o, hooks) => AsAsked(s, o, hooks)

ParseInv ==
  /\ CliInv
  /\ phase \in {"options", "target"} => AsGiven(items, options)
  /\ phase = "parsed" => IsAccepted(items, options, mode, available)

LEMMA ParseInvPromises == ParseInv => AcceptedAsGiven
<1> SUFFICES ASSUME ParseInv, phase = "parsed" PROVE AcceptedAsGiven BY DEF AcceptedAsGiven
<1>1. \A option : Given(option) = GivenIn(option, items) BY GivenReads DEF ParseInv, CliInv
<1>2. \A option, default : LastGiven(option, default) = LastIn(option, items, default)
  BY <1>1 DEF LastGiven, LastIn
<1>3. Wanted = WantedFrom(items, available) BY <1>1 DEF Wanted, WantedFrom
<1>4. WellFormed <=> IsWellFormed(items, options, available)
  BY <1>1, <1>2, <1>3 DEF WellFormed, IsWellFormed, HooksWell, OutputWell, TargetWell
<1>5. IsAccepted(items, options, mode, available) BY DEF ParseInv
<1> QED BY <1>1, <1>2, <1>3, <1>4, <1>5 DEF AcceptedAsGiven, IsAccepted, AsAsked

LEMMA LastAppended ==
  ASSUME NEW A, NEW s \in Seq(A), NEW a \in A, NEW t, t = Append(s, a)
  PROVE  t # <<>> /\ Last(t) = a /\ a \in ToSet(t) /\ ToSet(t) = ToSet(s) \union {a}
<1>1. t # <<>> /\ Len(t) = Len(s) + 1 /\ t[Len(s) + 1] = a BY Appending
<1>2. ToSet(t) = ToSet(s) \union {a} BY AppendedSet
<1> QED BY <1>1, <1>2 DEF Last

LEMMA LastInSet ==
  ASSUME NEW A, NEW s \in Seq(A), s # <<>>
  PROVE  Last(s) \in ToSet(s)
<1>1. DOMAIN s = 1..Len(s) /\ Len(s) \in Nat /\ Len(s) # 0 BY EmptySeq
<1>2. Len(s) \in DOMAIN s BY <1>1
<1> QED BY <1>2 DEF Last, ToSet

LEMMA RefusalRight ==
  ASSUME NEW s, NEW o, NEW hooks, ~IsWellFormed(s, o, hooks)
  PROVE  IsAccepted(s, o, "Error", hooks)
<1>1. "Error" \notin {"Run", "Attach"} OBVIOUS
<1> QED BY <1>1 DEF IsAccepted

\* Options and items of another kind leave what was given to an option alone.
SameGiven(kinds, s, next) == \A kind \in kinds : GivenIn(kind, next) = GivenIn(kind, s)
SameButFor(kind, s, next) == SameGiven(Kinds \ {kind}, s, next)
LastGivenIs(kind, next, value) ==
  GivenIn(kind, next) # <<>> /\ Last(GivenIn(kind, next)) = value
AddsTo(kind, s, next, value) ==
  /\ value \in ToSet(GivenIn(kind, next))
  /\ ToSet(GivenIn(kind, next)) = ToSet(GivenIn(kind, s)) \union {value}

LEMMA OthersSame ==
  ASSUME NEW s \in Seq(Items), NEW kind \in Kinds, NEW value \in Values,
         NEW next, IsMore(next, s, kind, value)
  PROVE  /\ SameButFor(kind, s, next) /\ LastGivenIs(kind, next, value)
         /\ AddsTo(kind, s, next, value)
<1> DEFINE given == GivenIn(kind, s)
           more == GivenIn(kind, next)
<1>1. more = Append(given, value) /\ SameButFor(kind, s, next)
  BY GivenMore DEF SameGiven, SameButFor
<1>2. given \in Seq(Values) BY GivenIs DEF Answers
<1> HIDE DEF given, more
<1>3. /\ more # <<>> /\ Last(more) = value /\ value \in ToSet(more)
      /\ ToSet(more) = ToSet(given) \union {value}
  BY <1>1, <1>2, LastAppended
<1> QED BY <1>1, <1>3 DEF given, more, LastGivenIs, AddsTo

LEMMA PidSame ==
  ASSUME NEW s, NEW o, PidAsGiven(s, o), NEW next, SameGiven({"pid"}, s, next),
         NEW n, SamePid(n, o)
  PROVE  PidAsGiven(next, n)
  BY DEF PidAsGiven, SamePid, SameGiven

LEMMA HooksSame ==
  ASSUME NEW s, NEW o, HooksAsGiven(s, o), NEW next, SameGiven({"hook"}, s, next),
         NEW n, n.requested = o.requested
  PROVE  HooksAsGiven(next, n)
  BY DEF HooksAsGiven, SameGiven

LEMMA FormatSame ==
  ASSUME NEW s, NEW o, FormatAsGiven(s, o), NEW next, SameGiven({"format"}, s, next),
         NEW n, n.jsonl = o.jsonl, n.formatGiven = o.formatGiven
  PROVE  FormatAsGiven(next, n)
  BY DEF FormatAsGiven, SameGiven, LastIn

LEMMA PathSame ==
  ASSUME NEW s, NEW o, PathAsGiven(s, o), NEW next, SameGiven({"output"}, s, next),
         NEW n, n.path = o.path
  PROVE  PathAsGiven(next, n)
  BY DEF PathAsGiven, SameGiven, LastIn

LEMMA QuietSame ==
  ASSUME NEW s, NEW o, QuietAsGiven(s, o), NEW next, SameGiven({"quiet"}, s, next),
         NEW n, n.quiet = o.quiet
  PROVE  QuietAsGiven(next, n)
  BY DEF QuietAsGiven, SameGiven

LEMMA OthersStay ==
  ASSUME NEW s, NEW o, OthersAsGiven(s, o), NEW next, SameGiven({"other", "separator"}, s, next),
         NEW n, n.attach = o.attach
  PROVE  OthersAsGiven(next, n)
  BY DEF OthersAsGiven, SameGiven

\* The parts of AsGiven that an option of another kind leaves alone.
RestAsGiven(kind, s, o) ==
  /\ kind # "pid" => PidAsGiven(s, o)
  /\ kind # "hook" => HooksAsGiven(s, o)
  /\ kind # "format" => FormatAsGiven(s, o)
  /\ kind # "output" => PathAsGiven(s, o)
  /\ kind # "quiet" => QuietAsGiven(s, o)
  /\ kind \notin {"other", "separator"} => OthersAsGiven(s, o)

\* What an option of that kind may change of the options.
ChangesOnly(kind, n, o) ==
  /\ IsOptions(n) /\ n.attach = o.attach
  /\ kind # "pid" => n.pid = o.pid
  /\ kind # "hook" => n.requested = o.requested
  /\ kind # "format" => n.jsonl = o.jsonl /\ n.formatGiven = o.formatGiven
  /\ kind # "output" => n.path = o.path
  /\ kind # "quiet" => n.quiet = o.quiet

LEMMA RestStays ==
  ASSUME NEW s, NEW o, AsGiven(s, o), NEW kind \in Kinds, NEW next, SameButFor(kind, s, next),
         NEW n, ChangesOnly(kind, n, o)
  PROVE  RestAsGiven(kind, next, n)
<1>1. /\ kind # "pid" => SameGiven({"pid"}, s, next)
      /\ kind # "hook" => SameGiven({"hook"}, s, next)
      /\ kind # "format" => SameGiven({"format"}, s, next)
      /\ kind # "output" => SameGiven({"output"}, s, next)
      /\ kind # "quiet" => SameGiven({"quiet"}, s, next)
      /\ kind \notin {"other", "separator"} => SameGiven({"other", "separator"}, s, next)
  BY DEF SameButFor, SameGiven, Kinds
<1>2. kind # "pid" => PidAsGiven(next, n) BY <1>1, PidSame DEF AsGiven, ChangesOnly, SamePid
<1>3. kind # "hook" => HooksAsGiven(next, n) BY <1>1, HooksSame DEF AsGiven, ChangesOnly
<1>4. kind # "format" => FormatAsGiven(next, n) BY <1>1, FormatSame DEF AsGiven, ChangesOnly
<1>5. kind # "output" => PathAsGiven(next, n) BY <1>1, PathSame DEF AsGiven, ChangesOnly
<1>6. kind # "quiet" => QuietAsGiven(next, n) BY <1>1, QuietSame DEF AsGiven, ChangesOnly
<1>7. kind \notin {"other", "separator"} => OthersAsGiven(next, n)
  BY <1>1, OthersStay DEF AsGiven, ChangesOnly
<1> QED BY <1>2, <1>3, <1>4, <1>5, <1>6, <1>7 DEF RestAsGiven

\* One kind of option more, and its part of AsGiven.
LEMMA PidGiven ==
  ASSUME CliInv, AsGiven(items, options), NEW text \in PidTexts,
         NEW next, IsMore(next, items, "pid", text),
         NEW taken, taken = [options EXCEPT !.pid = ParseProcessId(text)]
  PROVE  IF ~options.attach \/ ParseProcessId(text) = 0
         THEN ~IsWellFormed(next, options, available)
         ELSE AsGiven(next, taken)
<1>0. "pid" \in Kinds /\ text \in Values /\ items \in Seq(Items) /\ IsOptions(options)
  BY DEF Kinds, Values, CliInv
<1>9. /\ SameButFor("pid", items, next) /\ LastGivenIs("pid", next, text)
      /\ AddsTo("pid", items, next, text)
  BY <1>0, OthersSame
<1>1. /\ SameGiven(Kinds \ {"pid"}, items, next)
      /\ GivenIn("pid", next) # <<>> /\ Last(GivenIn("pid", next)) = text
      /\ text \in ToSet(GivenIn("pid", next))
      /\ ToSet(GivenIn("pid", next)) = ToSet(GivenIn("pid", items)) \union {text}
  BY <1>9 DEF SameButFor, LastGivenIs, AddsTo
<1>2. ParseProcessId(text) = IF Numeral(text) \in 1..MaxPid THEN Numeral(text) ELSE 0 BY PidIs
<1>3. CASE ~options.attach
  <2>1. ~TargetWell(next, options) BY <1>1, <1>3 DEF TargetWell
  <2> QED BY <1>3, <2>1 DEF IsWellFormed
<1>4. CASE options.attach /\ ParseProcessId(text) = 0
  <2>1. Numeral(text) \notin 1..MaxPid BY <1>2, <1>4, WordsAssumption
  <2>2. ~TargetWell(next, options) BY <1>1, <1>4, <2>1 DEF TargetWell
  <2> QED BY <1>4, <2>2 DEF IsWellFormed
<1>5. CASE options.attach /\ ParseProcessId(text) # 0
  <2>1. taken.pid = ParseProcessId(text) /\ ChangesOnly("pid", taken, options)
    <3> DEFINE p == ParseProcessId(text)
    <3>1. taken = [options EXCEPT !.pid = p] OBVIOUS
    <3> HIDE DEF p
    <3>2. taken.pid = p /\ ChangesOnly("pid", taken, options)
      BY <1>0, <3>1 DEF IsOptions, ChangesOnly
    <3> QED BY <3>2 DEF p
  <2>2. Numeral(text) \in 1..MaxPid /\ taken.pid = Numeral(text) BY <1>2, <1>5, <2>1
  <2>3. PidAsGiven(next, taken)
    BY <1>1, <1>5, <2>1, <2>2 DEF AsGiven, PidAsGiven, ChangesOnly
  <2>4. RestAsGiven("pid", next, taken) BY <1>0, <1>9, <2>1, RestStays
  <2>5. AsGiven(next, taken) BY <2>3, <2>4 DEF AsGiven, RestAsGiven
  <2> QED BY <1>5, <2>5
<1> QED BY <1>3, <1>4, <1>5

LEMMA EmptyIsNotAll == <<Empty>> # <<"all">>
<1>1. Empty # "all" BY Zenon DEF Empty
<1> QED BY <1>1

LEMMA HookGiven ==
  ASSUME CliInv, AsGiven(items, options), NEW text \in HookTexts,
         NEW next, IsMore(next, items, "hook", text),
         NEW taken, taken = [options EXCEPT !.requested = Append(options.requested, text)]
  PROVE  IF text \in NonAscii \/ text = <<Empty>>
         THEN ~IsWellFormed(next, options, available)
         ELSE AsGiven(next, taken)
<1>0. "hook" \in Kinds /\ text \in Values /\ items \in Seq(Items) /\ IsOptions(options)
  BY DEF Kinds, Values, CliInv
<1>1. /\ SameButFor("hook", items, next) /\ AddsTo("hook", items, next, text)
      /\ GivenIn("hook", next) = Append(GivenIn("hook", items), text)
  BY <1>0, OthersSame, GivenMore
<1>2. CASE text \in NonAscii \/ text = <<Empty>>
  <2>1. text # All /\ ~(IsQualified(text) /\ text \notin NonAscii)
    <3>1. All \notin NonAscii /\ All = <<"all">> /\ Len(<<Empty>>) = 1
      BY WordsAssumption DEF All
    <3>2. <<Empty>> # All BY <3>1, EmptyIsNotAll
    <3> QED BY <1>2, <3>1, <3>2 DEF IsQualified
  <2>2. ~HooksWell(next, available) BY <1>1, <2>1 DEF HooksWell, AddsTo
  <2> QED BY <1>2, <2>2 DEF IsWellFormed
<1>3. CASE ~(text \in NonAscii \/ text = <<Empty>>)
  <2>1. /\ taken.requested = Append(options.requested, text)
        /\ ChangesOnly("hook", taken, options)
    <3> DEFINE asked == Append(options.requested, text)
    <3>1. taken = [options EXCEPT !.requested = asked] OBVIOUS
    <3> HIDE DEF asked
    <3>2. taken.requested = asked /\ ChangesOnly("hook", taken, options)
      BY <1>0, <3>1 DEF IsOptions, ChangesOnly
    <3> QED BY <3>2 DEF asked
  <2>2. HooksAsGiven(next, taken)
    <3>1. taken.requested = GivenIn("hook", next) BY <1>1, <2>1 DEF AsGiven, HooksAsGiven
    <3>2. \A t \in ToSet(GivenIn("hook", next)) : t \notin NonAscii
      BY <1>1, <1>3 DEF AsGiven, HooksAsGiven, AddsTo
    <3> QED BY <3>1, <3>2 DEF HooksAsGiven
  <2>3. RestAsGiven("hook", next, taken) BY <1>0, <1>1, <2>1, RestStays
  <2>4. AsGiven(next, taken) BY <2>2, <2>3 DEF AsGiven, RestAsGiven
  <2> QED BY <1>3, <2>4
<1> QED BY <1>2, <1>3

LEMMA FormatGiven ==
  ASSUME CliInv, AsGiven(items, options), NEW text \in {"text", "jsonl", "other"},
         NEW next, IsMore(next, items, "format", text),
         NEW taken, taken = [options EXCEPT !.jsonl = (text = "jsonl"), !.formatGiven = TRUE]
  PROVE  IF text = "other" THEN ~IsWellFormed(next, options, available)
         ELSE AsGiven(next, taken)
<1>0. "format" \in Kinds /\ text \in Values /\ items \in Seq(Items) /\ IsOptions(options)
  BY DEF Kinds, Values, CliInv
<1>1. /\ SameButFor("format", items, next) /\ AddsTo("format", items, next, text)
      /\ LastGivenIs("format", next, text)
  BY <1>0, OthersSame
<1>2. CASE text = "other"
  <2>1. "other" \in ToSet(GivenIn("format", next)) BY <1>1, <1>2 DEF AddsTo
  <2> QED BY <1>2, <2>1 DEF IsWellFormed
<1>3. CASE text # "other"
  <2>1. /\ taken.jsonl = (text = "jsonl") /\ taken.formatGiven = TRUE
        /\ ChangesOnly("format", taken, options)
    <3> DEFINE x == (text = "jsonl")
               first == [options EXCEPT !.jsonl = x]
    <3>1. taken = [first EXCEPT !.formatGiven = TRUE] OBVIOUS
    <3> HIDE DEF x
    <3>2. first.jsonl = x /\ ChangesOnly("format", first, options)
      BY <1>0 DEF IsOptions, ChangesOnly
    <3> HIDE DEF first
    <3>3. /\ taken.jsonl = first.jsonl /\ taken.formatGiven = TRUE
          /\ ChangesOnly("format", taken, first)
      BY <3>1, <3>2 DEF IsOptions, ChangesOnly
    <3>4. ChangesOnly("format", taken, options) BY <3>2, <3>3 DEF ChangesOnly
    <3> QED BY <3>2, <3>3, <3>4 DEF x
  <2>2. FormatAsGiven(next, taken)
    <3>1. "other" \notin ToSet(GivenIn("format", next))
      BY <1>1, <1>3 DEF AsGiven, FormatAsGiven, AddsTo
    <3>2. LastIn("format", next, "text") = text /\ GivenIn("format", next) # <<>>
      BY <1>1 DEF LastIn, LastGivenIs
    <3> QED BY <2>1, <3>1, <3>2 DEF FormatAsGiven
  <2>3. RestAsGiven("format", next, taken) BY <1>0, <1>1, <2>1, RestStays
  <2>4. AsGiven(next, taken) BY <2>2, <2>3 DEF AsGiven, RestAsGiven
  <2> QED BY <1>3, <2>4
<1> QED BY <1>2, <1>3

LEMMA OutputGiven ==
  ASSUME CliInv, AsGiven(items, options), NEW text \in Paths,
         NEW next, IsMore(next, items, "output", text),
         NEW taken, taken = [options EXCEPT !.path = text]
  PROVE  AsGiven(next, taken)
<1>0. "output" \in Kinds /\ text \in Values /\ items \in Seq(Items) /\ IsOptions(options)
  BY DEF Kinds, Values, CliInv
<1>1. SameButFor("output", items, next) /\ LastGivenIs("output", next, text)
  BY <1>0, OthersSame
<1>2. taken.path = text /\ ChangesOnly("output", taken, options)
  BY <1>0 DEF IsOptions, ChangesOnly
<1>3. PathAsGiven(next, taken) BY <1>1, <1>2 DEF PathAsGiven, LastIn, LastGivenIs
<1>4. RestAsGiven("output", next, taken) BY <1>0, <1>1, <1>2, RestStays
<1> QED BY <1>3, <1>4 DEF AsGiven, RestAsGiven

LEMMA QuietGiven ==
  ASSUME CliInv, AsGiven(items, options), NEW next, IsMore(next, items, "quiet", Empty),
         NEW taken, taken = [options EXCEPT !.quiet = TRUE]
  PROVE  AsGiven(next, taken)
<1>0. "quiet" \in Kinds /\ Empty \in Values /\ items \in Seq(Items) /\ IsOptions(options)
  BY DEF Kinds, Values, CliInv
<1>1. SameButFor("quiet", items, next) /\ LastGivenIs("quiet", next, Empty)
  BY <1>0, OthersSame
<1>2. taken.quiet = TRUE /\ ChangesOnly("quiet", taken, options)
  BY <1>0 DEF IsOptions, ChangesOnly
<1>3. QuietAsGiven(next, taken) BY <1>1, <1>2 DEF QuietAsGiven, LastGivenIs
<1>4. RestAsGiven("quiet", next, taken) BY <1>0, <1>1, <1>2, RestStays
<1> QED BY <1>3, <1>4 DEF AsGiven, RestAsGiven

LEMMA OtherGiven ==
  ASSUME CliInv, NEW next, IsMore(next, items, "other", Empty)
  PROVE  ~IsWellFormed(next, options, available)
<1>1. "other" \in Kinds /\ Empty \in Values /\ items \in Seq(Items)
  BY DEF Kinds, Values, CliInv
<1>2. GivenIn("other", next) # <<>> BY <1>1, OthersSame DEF LastGivenIs
<1> QED BY <1>2 DEF IsWellFormed

LEMMA SeparatorGiven ==
  ASSUME CliInv, AsGiven(items, options), NEW next, IsMore(next, items, "separator", Empty)
  PROVE  IF options.attach THEN ~IsWellFormed(next, options, available)
         ELSE AsGiven(next, options)
<1>0. "separator" \in Kinds /\ Empty \in Values /\ items \in Seq(Items) /\ IsOptions(options)
  BY DEF Kinds, Values, CliInv
<1>1. SameButFor("separator", items, next) /\ LastGivenIs("separator", next, Empty)
  BY <1>0, OthersSame
<1>2. CASE options.attach
  <2>1. ~TargetWell(next, options) BY <1>1, <1>2 DEF TargetWell, LastGivenIs
  <2> QED BY <1>2, <2>1 DEF IsWellFormed
<1>3. CASE ~options.attach
  <2>1. ChangesOnly("separator", options, options) BY <1>0 DEF ChangesOnly
  <2>2. RestAsGiven("separator", next, options) BY <1>0, <1>1, <2>1, RestStays
  <2>3. OthersAsGiven(next, options)
    <3>1. GivenIn("other", next) = GivenIn("other", items)
      BY <1>1 DEF SameButFor, SameGiven, Kinds
    <3> QED BY <1>3, <3>1 DEF AsGiven, OthersAsGiven
  <2>4. AsGiven(next, options) BY <2>2, <2>3 DEF AsGiven, RestAsGiven
  <2> QED BY <1>3, <2>4
<1> QED BY <1>2, <1>3

LEMMA NothingGiven ==
  ASSUME NEW attach \in BOOLEAN, NEW o, o = [NoOptions EXCEPT !.attach = attach]
  PROVE  AsGiven(<<>>, o)
<1> DEFINE none == <<>>
<1>1. \A kind : GivenIn(kind, none) = none BY GivenIs
<1>2. ToSet(none) = {} BY DEF ToSet
<1>3. /\ o.pid = 0 /\ o.requested = none /\ o.jsonl = FALSE /\ o.formatGiven = FALSE
      /\ o.path = Empty /\ o.quiet = FALSE
  BY DEF NoOptions
<1> HIDE DEF none
<1>4. PidAsGiven(none, o) BY <1>1, <1>2, <1>3 DEF PidAsGiven, none
<1>5. HooksAsGiven(none, o) BY <1>1, <1>2, <1>3 DEF HooksAsGiven
<1>6. FormatAsGiven(none, o) BY <1>1, <1>2, <1>3 DEF FormatAsGiven, LastIn, none
<1>7. PathAsGiven(none, o) BY <1>1, <1>3 DEF PathAsGiven, LastIn, none
<1>8. QuietAsGiven(none, o) BY <1>1, <1>3 DEF QuietAsGiven, none
<1>9. OthersAsGiven(none, o) BY <1>1 DEF OthersAsGiven, none
<1>10. AsGiven(none, o) BY <1>4, <1>5, <1>6, <1>7, <1>8, <1>9 DEF AsGiven
<1> QED BY <1>10 DEF none

\* An empty command line, or one of a single word, asks for no session.
LEMMA NothingAsked == ~IsWellFormed(<<>>, NoOptions, available)
<1>1. GivenIn("hook", <<>>) = <<>> BY GivenIs
<1>2. ToSet(<<>>) = {} BY DEF ToSet
<1>3. WantedFrom(<<>>, available) = {} BY <1>1, <1>2 DEF WantedFrom
<1> QED BY <1>3 DEF IsWellFormed, HooksWell

-----------------------------------------------------------------------------
(* The checks after the loop.                                              *)

LEMMA TargetCheck ==
  ASSUME CliInv, AsGiven(items, options)
  PROVE  LacksTarget <=> ~TargetWell(items, options)
<1>1. PidAsGiven(items, options) /\ OthersAsGiven(items, options) BY DEF AsGiven
<1>2. CASE options.attach
  <2>1. options.pid = 0 <=> GivenIn("pid", items) = <<>>
    <3>1. CASE GivenIn("pid", items) = <<>> BY <1>1, <3>1 DEF PidAsGiven
    <3>2. CASE GivenIn("pid", items) # <<>>
      <4>1. GivenIn("pid", items) \in Seq(Values) BY GivenIs DEF CliInv, Answers
      <4>2. Last(GivenIn("pid", items)) \in ToSet(GivenIn("pid", items))
        BY <3>2, <4>1, LastInSet
      <4>3. options.pid \in 1..MaxPid BY <1>1, <1>2, <3>2, <4>2 DEF PidAsGiven
      <4> QED BY <3>2, <4>3, WordsAssumption
    <3> QED BY <3>1, <3>2
  <2> QED BY <1>1, <1>2, <2>1 DEF LacksTarget, TargetWell, PidAsGiven, OthersAsGiven
<1>3. CASE ~options.attach BY <1>1, <1>3 DEF LacksTarget, TargetWell, PidAsGiven
<1> QED BY <1>2, <1>3

LEMMA OutputCheck ==
  ASSUME AsGiven(items, options)
  PROVE  LacksOutput <=> ~OutputWell(items)
<1>1. /\ FormatAsGiven(items, options) /\ PathAsGiven(items, options)
      /\ QuietAsGiven(items, options)
  BY DEF AsGiven
<1> QED BY <1>1 DEF LacksOutput, OutputWell, FormatAsGiven, PathAsGiven, QuietAsGiven

LEMMA HooksCheck ==
  ASSUME CliInv, AsGiven(items, options), NEW hooks, hooks = ExpandHooks(options.requested)
  PROVE  /\ LacksHooks <=> ~HooksWell(items, available)
         /\ ToSet(hooks) = WantedFrom(items, available)
         /\ Len(hooks) = Cardinality(WantedFrom(items, available))
<1> DEFINE asked == GivenIn("hook", items)
           wanted == WantedFrom(items, available)
<1>1. /\ options.requested = asked /\ asked \in Answers /\ available \in Selections
      /\ \A text \in ToSet(asked) : text \notin NonAscii
  BY GivenIs DEF CliInv, AsGiven, HooksAsGiven
<1>2. wanted = UNION {AskedSet(text) : text \in ToSet(asked)} BY DEF WantedFrom, AskedSet
<1>3. /\ LacksHooks <=> (~\A i \in DOMAIN asked : IsSupported(asked[i])) \/ hooks = <<>>
      /\ hooks = ExpandHooks(asked)
  BY <1>1 DEF LacksHooks
<1>4. /\ HooksWell(items, available)
           <=> /\ \A text \in ToSet(asked) :
                     text = All \/ (IsQualified(text) /\ text \notin NonAscii)
               /\ wanted # {} /\ wanted \subseteq ToSet(available)
  BY DEF HooksWell
<1> HIDE DEF wanted, asked
<1>5. hooks \in HookLists /\ NoRepeats(hooks) /\ ToSet(hooks) = wanted
  BY <1>1, <1>2, <1>3, ExpandIs
<1>6. hooks = <<>> <=> wanted = {}
  <2>1. hooks \in Seq(Names) BY <1>5 DEF HookLists
  <2>2. DOMAIN hooks = 1..Len(hooks) /\ Len(hooks) \in Nat /\ (hooks = <<>> <=> Len(hooks) = 0)
    BY <2>1, EmptySeq
  <2>3. CASE hooks = <<>> BY <1>5, <2>3 DEF ToSet
  <2>4. CASE hooks # <<>>
    <3>1. 1 \in DOMAIN hooks BY <2>2, <2>4
    <3> QED BY <1>5, <2>4, <3>1 DEF ToSet
  <2> QED BY <2>3, <2>4
<1>7. (\A i \in DOMAIN asked : IsSupported(asked[i]))
        <=> \A text \in ToSet(asked) : IsSupported(text)
  BY DEF ToSet
<1>8. ASSUME NEW text
      PROVE  IsSupported(text)
               <=> text = All \/ (IsQualified(text) /\ RequestedName(text) \in ToSet(available))
  <2>1. available \in Seq(Listed) BY <1>1 DEF Selections
  <2>2. DOMAIN available = 1..Len(available) BY <2>1
  <2>3. Contains(available, RequestedName(text)) <=> RequestedName(text) \in ToSet(available)
    BY <2>2 DEF Contains, ToSet
  <2> QED BY <2>3 DEF IsSupported
<1>9. wanted \subseteq ToSet(available)
        <=> \A text \in ToSet(asked) : text = All \/ RequestedName(text) \in ToSet(available)
  BY <1>2 DEF AskedSet
<1>10. LacksHooks <=> ~HooksWell(items, available)
  BY <1>1, <1>3, <1>4, <1>6, <1>7, <1>8, <1>9
<1> QED BY <1>5, <1>10 DEF NoRepeats, wanted

LEMMA FinishChecks ==
  ASSUME CliInv, AsGiven(items, options)
  PROVE  LacksTarget \/ LacksOutput \/ LacksHooks <=> ~IsWellFormed(items, options, available)
<1>1. GivenIn("other", items) = <<>> /\ "other" \notin ToSet(GivenIn("format", items))
  BY DEF AsGiven, OthersAsGiven, FormatAsGiven
<1>2. LacksHooks <=> ~HooksWell(items, available) BY HooksCheck
<1> QED BY <1>1, <1>2, TargetCheck, OutputCheck DEF IsWellFormed

LEMMA FinishAccepts ==
  ASSUME CliInv, AsGiven(items, options), IsWellFormed(items, options, available),
         NEW o, o = [options EXCEPT !.hooks = ExpandHooks(options.requested)],
         NEW m \in {"Run", "Attach"}
  PROVE  IsAccepted(items, o, m, available)
<1> DEFINE hooks == ExpandHooks(options.requested)
<1>1. /\ ToSet(hooks) = WantedFrom(items, available)
      /\ Len(hooks) = Cardinality(WantedFrom(items, available))
  BY HooksCheck
<1>2. o = [options EXCEPT !.hooks = hooks] OBVIOUS
<1> HIDE DEF hooks
<1>3. /\ o.hooks = hooks /\ o.pid = options.pid /\ o.attach = options.attach
      /\ o.jsonl = options.jsonl /\ o.path = options.path /\ o.quiet = options.quiet
      /\ o.target = options.target
  BY <1>2 DEF CliInv, IsOptions
<1>4. IsWellFormed(items, o, available) BY <1>3 DEF IsWellFormed, TargetWell
<1>5. o.pid = IF o.attach THEN Numeral(LastIn("pid", items, <<>>)) ELSE 0
  <2>1. PidAsGiven(items, options) /\ TargetWell(items, options) BY DEF AsGiven, IsWellFormed
  <2> QED BY <1>3, <2>1 DEF PidAsGiven, TargetWell, LastIn
<1>6. o.jsonl = (LastIn("format", items, "text") = "jsonl")
  <2>1. FormatAsGiven(items, options) BY DEF AsGiven
  <2> QED BY <1>3, <2>1 DEF FormatAsGiven
<1>7. o.quiet = (GivenIn("quiet", items) # <<>>)
  <2>1. QuietAsGiven(items, options) BY DEF AsGiven
  <2> QED BY <1>3, <2>1 DEF QuietAsGiven
<1>8. o.path = LastIn("output", items, Empty) BY <1>3 DEF AsGiven, PathAsGiven
<1>9. AsAsked(items, o, available) BY <1>1, <1>3, <1>5, <1>6, <1>7, <1>8 DEF AsAsked
<1> QED BY <1>4, <1>9 DEF IsAccepted

LEMMA ParseInvStep == ParseInv /\ CliNext => ParseInv'
<1> SUFFICES ASSUME ParseInv, CliNext PROVE ParseInv' OBVIOUS
<1>0. CliInv /\ CliInv' BY CliInvStep DEF ParseInv
<1> SUFFICES /\ phase' \in {"options", "target"} => AsGiven(items', options')
             /\ phase' = "parsed" => IsAccepted(items', options', mode', available')
  BY <1>0 DEF ParseInv
<1>1. CASE SingleWord
  <2>1. /\ phase = "start" /\ phase' = "parsed" /\ items' = items /\ options' = options
        /\ mode' \in {"Help", "Version", "ListHooks", "Error"} /\ available' = available
    BY <1>1 DEF SingleWord, Ends
  <2>2. items = <<>> /\ options = NoOptions BY <1>0, <2>1 DEF CliInv
  <2>3. mode' \notin {"Run", "Attach"} BY <2>1
  <2>4. ~IsWellFormed(items', options', available') BY <2>1, <2>2, NothingAsked
  <2>5. IsAccepted(items', options', mode', available') BY <2>3, <2>4 DEF IsAccepted
  <2> QED BY <2>1, <2>5
<1>2. CASE Command
  <2>1. PICK attach \in BOOLEAN : options' = [NoOptions EXCEPT !.attach = attach]
    BY <1>2 DEF Command
  <2>2. phase = "start" /\ phase' = "options" /\ items' = items BY <1>2 DEF Command
  <2>3. items' = <<>> BY <1>0, <2>2 DEF CliInv
  <2> QED BY <2>1, <2>2, <2>3, NothingGiven
<1>3. ASSUME NEW option, NEW value, NEW refused, NEW taken,
             Give(option, value, refused, taken),
             IsMore(items', items, option, value) /\ AsGiven(items, options) =>
               IF refused THEN ~IsWellFormed(items', options, available)
               ELSE AsGiven(items', taken)
      PROVE  /\ phase' \in {"options", "target"} => AsGiven(items', options')
             /\ phase' = "parsed" => IsAccepted(items', options', mode', available')
  <2>1. /\ phase = "options" /\ IsMore(items', items, option, value) /\ available' = available
        /\ \/ refused /\ phase' = "parsed" /\ mode' = "Error" /\ options' = options
           \/ ~refused /\ phase' = phase /\ mode' = mode /\ options' = taken
    BY <1>3, GiveEffect DEF IsMore
  <2>2. AsGiven(items, options) BY <2>1 DEF ParseInv
  <2>3. CASE refused
    <3>1. phase' = "parsed" /\ mode' = "Error" /\ options' = options BY <2>1, <2>3
    <3>2. IsAccepted(items', options, "Error", available)
      BY <1>3, <2>1, <2>2, <2>3, RefusalRight
    <3> QED BY <2>1, <3>1, <3>2
  <2>4. CASE ~refused
    <3>1. phase' = "options" /\ options' = taken BY <2>1, <2>4
    <3> QED BY <1>3, <2>1, <2>2, <2>4, <3>1
  <2> QED BY <2>3, <2>4
<1>4. CASE GivePid
  <2>1. PICK text \in PidTexts :
          Give("pid", text, ~options.attach \/ ParseProcessId(text) = 0,
               [options EXCEPT !.pid = ParseProcessId(text)])
    BY <1>4 DEF GivePid
  <2>2. IsMore(items', items, "pid", text) /\ AsGiven(items, options) =>
          IF ~options.attach \/ ParseProcessId(text) = 0
          THEN ~IsWellFormed(items', options, available)
          ELSE AsGiven(items', [options EXCEPT !.pid = ParseProcessId(text)])
    BY <1>0, PidGiven
  <2> QED BY <1>3, <2>1, <2>2
<1>5. CASE GiveHook
  <2>1. PICK text \in HookTexts :
          Give("hook", text, text \in NonAscii \/ text = <<Empty>>,
               [options EXCEPT !.requested = Append(options.requested, text)])
    BY <1>5 DEF GiveHook
  <2>2. IsMore(items', items, "hook", text) /\ AsGiven(items, options) =>
          IF text \in NonAscii \/ text = <<Empty>>
          THEN ~IsWellFormed(items', options, available)
          ELSE AsGiven(items', [options EXCEPT !.requested = Append(options.requested, text)])
    BY <1>0, HookGiven
  <2> QED BY <1>3, <2>1, <2>2
<1>6. CASE GiveFormat
  <2>1. PICK text \in {"text", "jsonl", "other"} :
          Give("format", text, text = "other",
               [options EXCEPT !.jsonl = (text = "jsonl"), !.formatGiven = TRUE])
    BY <1>6 DEF GiveFormat
  <2>2. IsMore(items', items, "format", text) /\ AsGiven(items, options) =>
          IF text = "other" THEN ~IsWellFormed(items', options, available)
          ELSE AsGiven(items', [options EXCEPT !.jsonl = (text = "jsonl"), !.formatGiven = TRUE])
    BY <1>0, FormatGiven
  <2> QED BY <1>3, <2>1, <2>2
<1>7. CASE GiveOutput
  <2>1. PICK text \in Paths : Give("output", text, FALSE, [options EXCEPT !.path = text])
    BY <1>7 DEF GiveOutput
  <2>2. IsMore(items', items, "output", text) /\ AsGiven(items, options) =>
          AsGiven(items', [options EXCEPT !.path = text])
    BY <1>0, OutputGiven
  <2> QED BY <1>3, <2>1, <2>2
<1>8. CASE GiveQuiet
  <2>1. Give("quiet", Empty, FALSE, [options EXCEPT !.quiet = TRUE]) BY <1>8 DEF GiveQuiet
  <2>2. IsMore(items', items, "quiet", Empty) /\ AsGiven(items, options) =>
          AsGiven(items', [options EXCEPT !.quiet = TRUE])
    BY <1>0, QuietGiven
  <2> QED BY <1>3, <2>1, <2>2
<1>9. CASE GiveOther
  <2>1. Give("other", Empty, TRUE, options) BY <1>9 DEF GiveOther
  <2>2. IsMore(items', items, "other", Empty) => ~IsWellFormed(items', options, available)
    BY <1>0, OtherGiven
  <2> QED BY <1>3, <2>1, <2>2
<1>10. CASE Separator
  <2>1. /\ phase = "options" /\ options' = options /\ available' = available
        /\ IsMore(items', items, "separator", Empty)
        /\ \/ options.attach /\ phase' = "parsed" /\ mode' = "Error"
           \/ ~options.attach /\ phase' = "target"
    BY <1>10 DEF Separator, Ends, IsMore
  <2>2. AsGiven(items, options) BY <2>1 DEF ParseInv
  <2>3. IF options.attach THEN ~IsWellFormed(items', options, available)
        ELSE AsGiven(items', options)
    BY <1>0, <2>1, <2>2, SeparatorGiven
  <2>4. CASE options.attach
    <3>1. IsAccepted(items', options, "Error", available) BY <2>3, <2>4, RefusalRight
    <3> QED BY <2>1, <2>4, <3>1
  <2>5. CASE ~options.attach BY <2>1, <2>3, <2>5
  <2> QED BY <2>4, <2>5
<1>11. CASE TargetArgument
  <2>1. PICK argument : options' = [options EXCEPT !.target = Append(options.target, argument)]
    BY <1>11 DEF TargetArgument
  <2>2. phase = "target" /\ phase' = "target" /\ items' = items BY <1>11 DEF TargetArgument
  <2>3. AsGiven(items, options) BY <2>2 DEF ParseInv
  <2>4. /\ SamePid(options', options) /\ options'.requested = options.requested
        /\ options'.jsonl = options.jsonl /\ options'.formatGiven = options.formatGiven
        /\ options'.path = options.path /\ options'.quiet = options.quiet
        /\ options'.attach = options.attach
    BY <1>0, <2>1 DEF CliInv, IsOptions, SamePid
  <2>5. AsGiven(items, options')
    BY <2>3, <2>4 DEF AsGiven, PidAsGiven, HooksAsGiven, FormatAsGiven, PathAsGiven,
                      QuietAsGiven, OthersAsGiven, SamePid
  <2> QED BY <2>2, <2>5
<1>12. CASE Finish
  <2>1. /\ phase \in {"options", "target"} /\ phase' = "parsed" /\ items' = items
        /\ available' = available
        /\ IF LacksTarget \/ LacksOutput \/ LacksHooks
           THEN mode' = "Error" /\ options' = options
           ELSE /\ mode' \in {"Run", "Attach"}
                /\ options' = [options EXCEPT !.hooks = ExpandHooks(options.requested)]
    BY <1>12 DEF Finish, Ends
  <2>2. AsGiven(items, options) BY <2>1 DEF ParseInv
  <2>3. LacksTarget \/ LacksOutput \/ LacksHooks <=> ~IsWellFormed(items, options, available)
    BY <1>0, <2>2, FinishChecks
  <2>4. CASE LacksTarget \/ LacksOutput \/ LacksHooks
    <3>1. mode' = "Error" /\ options' = options BY <2>1, <2>4
    <3>2. IsAccepted(items, options, "Error", available) BY <2>3, <2>4, RefusalRight
    <3> QED BY <2>1, <3>1, <3>2
  <2>5. CASE ~(LacksTarget \/ LacksOutput \/ LacksHooks)
    <3>1. /\ mode' \in {"Run", "Attach"}
          /\ options' = [options EXCEPT !.hooks = ExpandHooks(options.requested)]
      BY <2>1, <2>5
    <3>2. IsWellFormed(items, options, available) BY <2>3, <2>5
    <3>3. IsAccepted(items, options', mode', available)
      BY <1>0, <2>2, <3>1, <3>2, FinishAccepts
    <3> QED BY <2>1, <3>3
  <2> QED BY <2>4, <2>5
<1> QED
  BY <1>1, <1>2, <1>4, <1>5, <1>6, <1>7, <1>8, <1>9, <1>10, <1>11, <1>12 DEF CliNext

LEMMA ParseInvHolds == StartupSpec => []ParseInv
<1>1. StartupInit /\ CliInv => ParseInv BY DEF StartupInit, CliInit, ParseInv
<1>2. ParseInv /\ CliInv' /\ [StartupNext]_startupVars => ParseInv'
  <2> SUFFICES ASSUME ParseInv, CliInv', [StartupNext]_startupVars PROVE ParseInv' OBVIOUS
  <2>1. CASE Parse BY <2>1, ParseInvStep DEF Parse
  <2>2. CASE Launch
    <3>1. phase' = "start" BY <2>2 DEF Launch
    <3> QED BY <3>1 DEF ParseInv
  <2>3. CASE Session \/ UNCHANGED startupVars
    <3>1. UNCHANGED cliVars BY <2>3 DEF Session, startupVars
    <3> QED BY <3>1 DEF ParseInv, cliVars
  <2> QED BY <2>1, <2>2, <2>3 DEF StartupNext
<1> QED BY <1>1, <1>2, CliInvHolds, PTL DEF StartupSpec

\* A session begins exactly when the whole command line is well formed, and
\* with the options given last and the hooks asked for, each once, however many
\* options there are and in whatever order (ParseCommandLine, ParseProcessId,
\* ExpandAndValidateHooks).
THEOREM AcceptedAsGivenHolds == StartupSpec => []AcceptedAsGiven
<1> QED BY ParseInvPromises, ParseInvHolds, PTL
=============================================================================
