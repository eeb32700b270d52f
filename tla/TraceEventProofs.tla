--------------------------- MODULE TraceEventProofs ---------------------------
(***************************************************************************)
(* Proofs about TraceEvent, for events of any size, any names, fields and  *)
(* previews: what the builder makes and the slot passes on the parser      *)
(* accepts, and it reads what the hook recorded.                           *)
(***************************************************************************)
EXTENDS TraceEvent, WellFoundedInduction, SequenceTheorems, FiniteSetTheorems, TLAPS

-----------------------------------------------------------------------------
(* Induction and recursion over numbers.                                   *)

\* Induction, with a set in the place of the predicate.
LEMMA NaturalInduction ==
  ASSUME NEW P, 0 \in P, \A k \in Nat : k \in P => k + 1 \in P
  PROVE  Nat \subseteq P
<1> DEFINE T == Nat \ P
           R == OpToRel(<, Nat)
<1>1. SUFFICES ASSUME T # {} PROVE FALSE OBVIOUS
<1>2. \E x \in T : \A y \in T : ~(<<y, x>> \in R)
  <2>1. T \subseteq Nat OBVIOUS
  <2> HIDE DEF T
  <2> QED BY <1>1, <2>1, NatLessThanWellFounded, WFMin
<1>3. PICK x \in T : \A y \in T : ~(y < x)
  <2>1. \A x, y \in Nat : <<y, x>> \in R <=> y < x BY DEF OpToRel
  <2> QED BY <1>2, <2>1
<1>4. x \in Nat /\ x # 0 OBVIOUS
<1>5. x - 1 \in Nat /\ x - 1 < x /\ (x - 1) + 1 = x BY <1>4
<1>6. x - 1 \in P BY <1>3, <1>5
<1> QED BY <1>5, <1>6

\* A function on 0..n given by its first value and by how each value follows
\* from the one before.
Follows(g, n, first, step) == g[0] = first /\ \A i \in 1..n : g[i] = step[<<i, g[i - 1]>>]

LEMMA RecursionExists ==
  ASSUME NEW S, NEW first \in S, NEW step \in [Nat \X S -> S], NEW n \in Nat
  PROVE  \E g \in [0..n -> S] : Follows(g, n, first, step)
<1> DEFINE P == {k \in Nat : \E g \in [0..k -> S] : Follows(g, k, first, step)}
<1>1. 0 \in P
  <2> DEFINE g == [i \in 0..0 |-> first]
  <2>1. g \in [0..0 -> S] /\ g[0] = first /\ 1..0 = {} OBVIOUS
  <2>2. Follows(g, 0, first, step) BY <2>1 DEF Follows
  <2> QED BY <2>1, <2>2
<1>2. ASSUME NEW k \in Nat, k \in P PROVE k + 1 \in P
  <2>1. PICK g \in [0..k -> S] : Follows(g, k, first, step) BY <1>2
  <2> DEFINE h == [i \in 0..(k + 1) |-> IF i = k + 1 THEN step[<<k + 1, g[k]>>] ELSE g[i]]
  <2>2. step[<<k + 1, g[k]>>] \in S
    <3>1. <<k + 1, g[k]>> \in Nat \X S OBVIOUS
    <3> QED BY <3>1
  <2>3. h \in [0..(k + 1) -> S] BY <2>2
  <2>4. h[k + 1] = step[<<k + 1, g[k]>>] /\ \A i \in 0..k : h[i] = g[i] OBVIOUS
  <2> HIDE DEF h
  <2>5. h[0] = first BY <2>1, <2>4 DEF Follows
  <2>6. ASSUME NEW i \in 1..(k + 1) PROVE h[i] = step[<<i, h[i - 1]>>]
    <3>1. CASE i = k + 1
      <4>1. i - 1 = k /\ h[k] = g[k] BY <2>4, <3>1
      <4> QED BY <2>4, <3>1, <4>1
    <3>2. CASE i # k + 1
      <4>1. i \in 1..k /\ i \in 0..k /\ i - 1 \in 0..k BY <3>2
      <4> QED BY <2>1, <2>4, <4>1 DEF Follows
    <3> QED BY <3>1, <3>2
  <2> QED BY <2>3, <2>5, <2>6 DEF Follows
<1> HIDE DEF P
<1>3. n \in P BY <1>1, <1>2, NaturalInduction
<1> QED BY <1>3 DEF P

-----------------------------------------------------------------------------
(* Types.                                                                  *)

FieldTypes == DOMAIN Scalars \union {"Bytes", "Boolean"}
Spellings == SUBSET {"module", "api", "field"}
CharCells == [kind : {"char"}, text : {s.text : s \in Texts}, at : Nat, spelled : Spellings]
FieldCells == [kind : {"field"}, type : FieldTypes, nameLength : Nat, valueSize : Nat]
BytesCells == [kind : {"bytes"}, requested : Nat, captured : Nat]
ValueCells == [kind : {"value"}, event : Nat, offer : Nat, at : Nat]
BooleanCells == [kind : {"boolean"}, encoded : {0, 1}]
AnyCell == {Zero} \union CharCells \union FieldCells \union BytesCells \union ValueCells
             \union BooleanCells

PayloadCells == EventCells - HeaderCells
Flags == SUBSET {"Truncated", "FieldError"}
Headers == [magic : BOOLEAN, size : Nat, flags : Flags, fieldCount : Nat,
            moduleNameLength : Nat, apiNameLength : Nat]
AnyEvent == [header : Headers, payload : [1..PayloadCells -> AnyCell]]
Values == Seq(AnyCell)
AnyOffer == [type : FieldTypes, name : Texts, value : Values]

LEMMA PayloadSize == EventCells \in Nat /\ PayloadCells \in Nat /\ PayloadCells >= 2 * MaxNameCells
  BY EventAssumption, NameAssumption DEF PayloadCells, HeaderCells

LEMMA FieldCellTyped ==
  ASSUME NEW c \in AnyCell, c.kind = "field"
  PROVE  c.type \in FieldTypes /\ c.nameLength \in Nat /\ c.valueSize \in Nat
  BY DEF AnyCell, Zero, CharCells, FieldCells, BytesCells, ValueCells, BooleanCells

\* n cells of a payload from behind "at" on.
Stretch(payload, at, n) == [j \in 1..n |-> payload[at + j]]

LEMMA StretchIs ==
  ASSUME NEW payload \in [1..PayloadCells -> AnyCell], NEW at \in Nat, NEW n \in Nat,
         at + n <= PayloadCells
  PROVE  /\ SubSeq(payload, at + 1, at + n) = Stretch(payload, at, n)
         /\ Stretch(payload, at, n) \in Seq(AnyCell)
         /\ Len(Stretch(payload, at, n)) = n
<1>0. PayloadCells \in Nat BY PayloadSize
<1>1. payload \in Seq(AnyCell) /\ Len(payload) = PayloadCells BY <1>0
<1>2. \A j \in 1..n : at + j \in 1..PayloadCells BY <1>0
<1>3. Stretch(payload, at, n) \in [1..n -> AnyCell] BY <1>2 DEF Stretch
<1>4. Stretch(payload, at, n) \in Seq(AnyCell) /\ Len(Stretch(payload, at, n)) = n BY <1>3
<1>5. SubSeq(payload, at + 1, at + n) = Stretch(payload, at, n)
  <2>1. (at + n) - (at + 1) + 1 = n OBVIOUS
  <2>2. /\ SubSeq(payload, at + 1, at + n) \in Seq(AnyCell)
        /\ Len(SubSeq(payload, at + 1, at + n)) = n
        /\ \A j \in 1..n : SubSeq(payload, at + 1, at + n)[j] = payload[at + j]
    BY <1>0, <1>1, <1>2
  <2> QED BY <1>4, <2>2, SeqEqual DEF Stretch
<1> QED BY <1>4, <1>5

-----------------------------------------------------------------------------
(* The cursor of ParseTraceEvent and HasTraceField.                        *)

\* Where the field behind the one at this cursor begins.
Behind(ev, at) ==
  IF at \in 0..(EventCells - HeaderCells - 1) /\ ev.payload[at + 1].kind = "field"
  THEN at + 1 + ev.payload[at + 1].nameLength + ev.payload[at + 1].valueSize
  ELSE EventCells

LEMMA BehindTyped ==
  ASSUME NEW ev \in AnyEvent, NEW at \in Nat
  PROVE  Behind(ev, at) \in Nat
<1>1. EventCells \in Nat BY PayloadSize
<1>2. CASE at \in 0..(EventCells - HeaderCells - 1) /\ ev.payload[at + 1].kind = "field"
  <2>1. at + 1 \in 1..PayloadCells BY <1>1, <1>2, PayloadSize DEF PayloadCells, HeaderCells
  <2>2. ev.payload[at + 1] \in AnyCell BY <2>1 DEF AnyEvent
  <2>3. ev.payload[at + 1].nameLength \in Nat /\ ev.payload[at + 1].valueSize \in Nat
    BY <1>2, <2>2, FieldCellTyped
  <2> QED BY <1>2, <2>3 DEF Behind
<1> QED BY <1>1, <1>2 DEF Behind

LEMMA StartsUnfold ==
  ASSUME NEW ev \in AnyEvent
  PROVE  /\ \A i \in 1..(ev.header.fieldCount + 1) : FieldStarts(ev)[i] \in Nat
         /\ FieldStarts(ev)[1] = NameCells(ev)
         /\ \A i \in 1..ev.header.fieldCount : FieldStarts(ev)[i + 1] = Behind(ev, FieldStarts(ev)[i])
<1> DEFINE n == ev.header.fieldCount
           step == [p \in Nat \X Nat |-> Behind(ev, p[2])]
<1>1. n \in Nat /\ NameCells(ev) \in Nat BY DEF AnyEvent, Headers, NameCells
<1>2. step \in [Nat \X Nat -> Nat] BY BehindTyped
<1>3. \A i, at \in Nat : step[<<i, at>>] = Behind(ev, at) OBVIOUS
<1> HIDE DEF step
<1>4. PICK g \in [0..n -> Nat] : Follows(g, n, NameCells(ev), step) BY <1>1, <1>2, RecursionExists
<1> HIDE DEF n
<1> DEFINE h == [i \in 1..(n + 1) |-> g[i - 1]]
           Body(f, i) == IF i = 1 THEN NameCells(ev)
                         ELSE LET at == f[i - 1]
                              IN IF at \in 0..(EventCells - HeaderCells - 1) /\ ev.payload[at + 1].kind = "field"
                                 THEN at + 1 + ev.payload[at + 1].nameLength + ev.payload[at + 1].valueSize
                                 ELSE EventCells
<1>5. \A f, i : Body(f, i) = IF i = 1 THEN NameCells(ev) ELSE Behind(ev, f[i - 1]) BY DEF Behind
<1>6. FieldStarts(ev) = CHOOSE f : f = [i \in 1..(n + 1) |-> Body(f, i)]
  BY DEF FieldStarts, n
<1> HIDE DEF Body
<1>7. h = [i \in 1..(n + 1) |-> Body(h, i)]
  <2> SUFFICES ASSUME NEW i \in 1..(n + 1) PROVE g[i - 1] = Body(h, i) OBVIOUS
  <2>1. CASE i = 1 BY <1>4, <1>5, <2>1 DEF Follows
  <2>2. CASE i # 1
    <3>1. i - 1 \in 1..n /\ i - 1 \in 1..(n + 1) /\ i - 1 \in Nat /\ (i - 1) - 1 \in 0..n
      BY <1>1, <2>2
    <3>2. g[i - 1] = step[<<i - 1, g[(i - 1) - 1]>>] BY <1>4, <3>1 DEF Follows
    <3>3. h[i - 1] = g[(i - 1) - 1] /\ g[(i - 1) - 1] \in Nat BY <3>1
    <3>4. g[i - 1] = Behind(ev, h[i - 1]) BY <1>3, <3>1, <3>2, <3>3
    <3> QED BY <1>5, <2>2, <3>4
  <2> QED BY <2>1, <2>2
<1>8. \A i \in 1..(n + 1) : h[i] \in Nat BY <1>1
<1> HIDE DEF h
<1>9. FieldStarts(ev) = [i \in 1..(n + 1) |-> Body(FieldStarts(ev), i)] BY <1>6, <1>7
<1>10. \A i \in 1..(n + 1) : FieldStarts(ev)[i] =
         IF i = 1 THEN NameCells(ev) ELSE Behind(ev, FieldStarts(ev)[i - 1])
  <2> SUFFICES ASSUME NEW i \in 1..(n + 1)
               PROVE  FieldStarts(ev)[i] =
                        IF i = 1 THEN NameCells(ev) ELSE Behind(ev, FieldStarts(ev)[i - 1])
    OBVIOUS
  <2>1. FieldStarts(ev)[i] = Body(FieldStarts(ev), i) BY <1>9
  <2> QED BY <1>5, <2>1
<1>11. FieldStarts(ev)[1] = NameCells(ev) BY <1>1, <1>10
<1>12. ASSUME NEW i \in 1..n PROVE FieldStarts(ev)[i + 1] = Behind(ev, FieldStarts(ev)[i])
  <2>1. i + 1 \in 1..(n + 1) /\ i + 1 # 1 /\ (i + 1) - 1 = i BY <1>1
  <2> QED BY <1>10, <2>1
<1>13. \A i \in 1..(n + 1) : FieldStarts(ev)[i] \in Nat
  <2> DEFINE P == {k \in Nat : k + 1 <= n + 1 => FieldStarts(ev)[k + 1] \in Nat}
  <2>1. 0 \in P BY <1>1, <1>11
  <2>2. ASSUME NEW k \in Nat, k \in P PROVE k + 1 \in P
    <3> SUFFICES ASSUME (k + 1) + 1 <= n + 1 PROVE FieldStarts(ev)[(k + 1) + 1] \in Nat OBVIOUS
    <3>1. k + 1 \in 1..n BY <1>1
    <3>2. FieldStarts(ev)[k + 1] \in Nat BY <1>1, <2>2, <3>1
    <3> QED BY <1>12, <3>1, <3>2, BehindTyped
  <2> HIDE DEF P
  <2>3. Nat \subseteq P BY <2>1, <2>2, NaturalInduction
  <2> SUFFICES ASSUME NEW i \in 1..(n + 1) PROVE FieldStarts(ev)[i] \in Nat OBVIOUS
  <2>4. i - 1 \in P /\ (i - 1) + 1 = i BY <1>1, <2>3
  <2> QED BY <1>1, <2>4 DEF P
<1> QED BY <1>11, <1>12, <1>13 DEF n

-----------------------------------------------------------------------------
(* Events that agree on what the parser reads.                             *)

\* The cells that the size in the header covers.
Used(ev) == ev.header.size - HeaderCells

LEMMA AcceptedSizes ==
  ASSUME NEW ev \in AnyEvent, ParseAccepts(ev)
  PROVE  /\ Used(ev) \in 0..PayloadCells /\ NameCells(ev) \in 0..Used(ev)
         /\ ev.header.moduleNameLength \in Nat /\ ev.header.apiNameLength \in Nat
         /\ NameCells(ev) = ev.header.moduleNameLength + ev.header.apiNameLength
  BY PayloadSize DEF ParseAccepts, AnyEvent, Headers, NameCells, Used, HeaderCells, PayloadCells

LEMMA FieldStretches ==
  ASSUME NEW ev \in AnyEvent, Used(ev) \in 0..PayloadCells, NEW at \in Nat, FieldParses(ev, at)
  PROVE  LET h == ev.payload[at + 1]
         IN /\ at + 1 \in 1..Used(ev) /\ at + 1 \in 1..PayloadCells
            /\ h \in AnyCell /\ h.type \in FieldTypes /\ h.nameLength \in Nat /\ h.valueSize \in Nat
            /\ at + 1 + h.nameLength + h.valueSize <= Used(ev)
            /\ FieldName(ev, at) = Stretch(ev.payload, at + 1, h.nameLength)
            /\ FieldValue(ev, at) = Stretch(ev.payload, at + 1 + h.nameLength, h.valueSize)
            /\ Behind(ev, at) = at + 1 + h.nameLength + h.valueSize
<1> DEFINE h == ev.payload[at + 1]
<1>0. PayloadCells \in Nat /\ EventCells \in Nat /\ PayloadCells = EventCells - 1 /\ Used(ev) \in Nat
  BY PayloadSize DEF PayloadCells, HeaderCells
<1>1. at < Used(ev) /\ h.kind = "field" /\ at + 1 + h.nameLength + h.valueSize <= Used(ev)
  BY DEF FieldParses, Used
<1>2. at + 1 \in 1..Used(ev) /\ at + 1 \in 1..PayloadCells BY <1>0, <1>1
<1>3. h \in AnyCell BY <1>2 DEF AnyEvent
<1>4. h.type \in FieldTypes /\ h.nameLength \in Nat /\ h.valueSize \in Nat
  BY <1>1, <1>3, FieldCellTyped
<1>5. ev.payload \in [1..PayloadCells -> AnyCell] BY DEF AnyEvent
<1>6. FieldName(ev, at) = Stretch(ev.payload, at + 1, h.nameLength)
  <2> DEFINE a == at + 1
  <2>1. a \in Nat /\ a + h.nameLength <= PayloadCells /\ a + 1 = at + 2 BY <1>0, <1>1, <1>4
  <2>2. FieldName(ev, at) = SubSeq(ev.payload, a + 1, a + h.nameLength) BY <2>1 DEF FieldName
  <2> HIDE DEF a
  <2>3. SubSeq(ev.payload, a + 1, a + h.nameLength) = Stretch(ev.payload, a, h.nameLength)
    BY <1>4, <1>5, <2>1, StretchIs
  <2> QED BY <2>2, <2>3 DEF a
<1>7. FieldValue(ev, at) = Stretch(ev.payload, at + 1 + h.nameLength, h.valueSize)
  <2> DEFINE b == at + 1 + h.nameLength
  <2>1. b \in Nat /\ b + h.valueSize <= PayloadCells BY <1>0, <1>1, <1>4
  <2>2. b + 1 = at + 2 + h.nameLength BY <1>4
  <2>3. FieldValue(ev, at) = SubSeq(ev.payload, b + 1, b + h.valueSize)
    BY <2>2 DEF FieldValue
  <2> HIDE DEF b
  <2>4. SubSeq(ev.payload, b + 1, b + h.valueSize) = Stretch(ev.payload, b, h.valueSize)
    BY <1>4, <1>5, <2>1, StretchIs
  <2> QED BY <2>3, <2>4 DEF b
<1>8. Behind(ev, at) = at + 1 + h.nameLength + h.valueSize
  <2>1. at \in 0..(EventCells - HeaderCells - 1) BY <1>0, <1>2 DEF HeaderCells
  <2> QED BY <1>1, <2>1 DEF Behind
<1> QED BY <1>1, <1>2, <1>3, <1>4, <1>6, <1>7, <1>8

\* "other" holds what "ev" does, and possibly more behind it.
Extends(ev, other) ==
  /\ other.header.moduleNameLength = ev.header.moduleNameLength
  /\ other.header.apiNameLength = ev.header.apiNameLength
  /\ other.header.fieldCount >= ev.header.fieldCount
  /\ Used(ev) <= Used(other) /\ Used(other) \in 0..PayloadCells
  /\ \A j \in 1..Used(ev) : other.payload[j] = ev.payload[j]

LEMMA StretchSame ==
  ASSUME NEW ev, NEW other, Extends(ev, other), NEW at \in Nat, NEW n \in Nat, Used(ev) \in Nat,
         at + n <= Used(ev)
  PROVE  Stretch(other.payload, at, n) = Stretch(ev.payload, at, n)
<1>1. \A j \in 1..n : at + j \in 1..Used(ev) OBVIOUS
<1> QED BY <1>1 DEF Extends, Stretch

LEMMA SameField ==
  ASSUME NEW ev \in AnyEvent, NEW other \in AnyEvent, Extends(ev, other),
         Used(ev) \in 0..PayloadCells, NEW at \in Nat, FieldParses(ev, at)
  PROVE  /\ FieldParses(other, at)
         /\ other.payload[at + 1] = ev.payload[at + 1]
         /\ FieldName(other, at) = FieldName(ev, at)
         /\ FieldValue(other, at) = FieldValue(ev, at)
         /\ Behind(other, at) = Behind(ev, at)
<1> DEFINE h == ev.payload[at + 1]
<1>0. PayloadCells \in Nat /\ Used(ev) \in Nat /\ Used(other) \in Nat /\ EventCells \in Nat
      /\ Used(ev) <= Used(other) /\ Used(other) <= PayloadCells /\ PayloadCells = EventCells - 1
  BY PayloadSize DEF Extends, PayloadCells, HeaderCells
<1>1. /\ at + 1 \in 1..Used(ev) /\ h.nameLength \in Nat /\ h.valueSize \in Nat
      /\ at + 1 + h.nameLength + h.valueSize <= Used(ev)
      /\ FieldName(ev, at) = Stretch(ev.payload, at + 1, h.nameLength)
      /\ FieldValue(ev, at) = Stretch(ev.payload, at + 1 + h.nameLength, h.valueSize)
  BY FieldStretches
<1>2. other.payload[at + 1] = h BY <1>1 DEF Extends
<1>3. Stretch(other.payload, at + 1, h.nameLength) = Stretch(ev.payload, at + 1, h.nameLength)
  <2>1. at + 1 \in Nat /\ (at + 1) + h.nameLength <= Used(ev) BY <1>0, <1>1
  <2> QED BY <1>0, <1>1, <2>1, StretchSame
<1>4. Stretch(other.payload, at + 1 + h.nameLength, h.valueSize)
        = Stretch(ev.payload, at + 1 + h.nameLength, h.valueSize)
  <2>1. at + 1 + h.nameLength \in Nat /\ (at + 1 + h.nameLength) + h.valueSize <= Used(ev)
    BY <1>0, <1>1
  <2> QED BY <1>0, <1>1, <2>1, StretchSame
<1> HIDE DEF h
<1>5. other.payload \in [1..PayloadCells -> AnyCell] BY DEF AnyEvent
<1>6. FieldName(other, at) = Stretch(other.payload, at + 1, h.nameLength)
  <2>1. at + 1 \in Nat /\ (at + 1) + h.nameLength <= PayloadCells /\ (at + 1) + 1 = at + 2 BY <1>0, <1>1
  <2>2. SubSeq(other.payload, (at + 1) + 1, (at + 1) + h.nameLength)
          = Stretch(other.payload, at + 1, h.nameLength)
    BY <1>1, <1>5, <2>1, StretchIs
  <2> QED BY <1>2, <2>1, <2>2 DEF FieldName
<1>7. FieldValue(other, at) = Stretch(other.payload, at + 1 + h.nameLength, h.valueSize)
  <2> DEFINE b == at + 1 + h.nameLength
  <2>1. b \in Nat /\ b + h.valueSize <= PayloadCells /\ b + 1 = at + 2 + h.nameLength BY <1>0, <1>1
  <2>2. FieldValue(other, at) = SubSeq(other.payload, b + 1, b + h.valueSize)
    BY <1>2, <2>1 DEF FieldValue
  <2> HIDE DEF b
  <2>3. SubSeq(other.payload, b + 1, b + h.valueSize) = Stretch(other.payload, b, h.valueSize)
    BY <1>1, <1>5, <2>1, StretchIs
  <2> QED BY <2>2, <2>3 DEF b
<1>8. FieldName(other, at) = FieldName(ev, at) /\ FieldValue(other, at) = FieldValue(ev, at)
  BY <1>1, <1>3, <1>4, <1>6, <1>7 DEF h
<1>9. FieldParses(other, at)
  <2>1. /\ h.kind = "field" /\ IsSpelled(FieldName(ev, at), "field")
        /\ HasExpectedValueSize(h.type, FieldValue(ev, at))
    BY DEF FieldParses, h
  <2>2. at < Used(other) /\ at + 1 + h.nameLength + h.valueSize <= Used(other) BY <1>0, <1>1 DEF h
  <2> QED BY <1>2, <1>8, <2>1, <2>2 DEF FieldParses, Used
<1>10. Behind(other, at) = Behind(ev, at) BY <1>2 DEF Behind, h
<1> QED BY <1>2, <1>8, <1>9, <1>10 DEF h

LEMMA SameStarts ==
  ASSUME NEW ev \in AnyEvent, NEW other \in AnyEvent, ParseAccepts(ev), Extends(ev, other)
  PROVE  \A i \in 1..(ev.header.fieldCount + 1) : FieldStarts(other)[i] = FieldStarts(ev)[i]
<1> DEFINE n == ev.header.fieldCount
           P == {k \in Nat : k + 1 <= n + 1 => FieldStarts(other)[k + 1] = FieldStarts(ev)[k + 1]}
<1>0. n \in Nat /\ other.header.fieldCount \in Nat /\ n <= other.header.fieldCount
  BY DEF AnyEvent, Headers, Extends
<1>1. 0 \in P
  <2>1. NameCells(other) = NameCells(ev) BY DEF Extends, NameCells
  <2>2. FieldStarts(other)[1] = FieldStarts(ev)[1] BY <2>1, StartsUnfold
  <2> QED BY <2>2
<1>2. ASSUME NEW k \in Nat, k \in P PROVE k + 1 \in P
  <2> SUFFICES ASSUME (k + 1) + 1 <= n + 1
               PROVE  FieldStarts(other)[(k + 1) + 1] = FieldStarts(ev)[(k + 1) + 1]
    OBVIOUS
  <2>1. k + 1 \in 1..n /\ k + 1 \in 1..(n + 1) /\ k + 1 \in 1..other.header.fieldCount BY <1>0
  <2>2. FieldStarts(other)[k + 1] = FieldStarts(ev)[k + 1] BY <1>0, <1>2, <2>1
  <2>3. FieldParses(ev, FieldStarts(ev)[k + 1]) BY <2>1 DEF ParseAccepts
  <2>4. FieldStarts(ev)[k + 1] \in Nat BY <2>1, StartsUnfold
  <2>5. Behind(other, FieldStarts(ev)[k + 1]) = Behind(ev, FieldStarts(ev)[k + 1])
    BY <2>3, <2>4, AcceptedSizes, SameField
  <2> QED BY <2>1, <2>2, <2>5, StartsUnfold
<1> HIDE DEF P
<1>3. Nat \subseteq P BY <1>1, <1>2, NaturalInduction
<1> SUFFICES ASSUME NEW i \in 1..(n + 1) PROVE FieldStarts(other)[i] = FieldStarts(ev)[i] OBVIOUS
<1>4. i - 1 \in P /\ (i - 1) + 1 = i BY <1>0, <1>3
<1> QED BY <1>0, <1>4 DEF P

\* What the parser reads of an event it accepts, it also reads of one that
\* holds the same and more.
LEMMA OldFields ==
  ASSUME NEW ev \in AnyEvent, NEW other \in AnyEvent, ParseAccepts(ev), Extends(ev, other)
  PROVE  /\ \A i \in 1..ev.header.fieldCount :
              /\ FieldParses(other, FieldStarts(other)[i])
              /\ FieldName(other, FieldStarts(other)[i]) = FieldName(ev, FieldStarts(ev)[i])
              /\ ParsedFields(other)[i] = ParsedFields(ev)[i]
         /\ IsSpelled(SubSeq(other.payload, 1, other.header.moduleNameLength), "module")
         /\ IsSpelled(SubSeq(other.payload, other.header.moduleNameLength + 1, NameCells(other)), "api")
<1> DEFINE n == ev.header.fieldCount
           m == ev.header.moduleNameLength
           a == ev.header.apiNameLength
<1>0. n \in Nat /\ other.header.fieldCount \in Nat /\ n <= other.header.fieldCount
  BY DEF AnyEvent, Headers, Extends
<1>1. Used(ev) \in 0..PayloadCells /\ NameCells(ev) \in 0..Used(ev) /\ m \in Nat /\ a \in Nat
      /\ NameCells(ev) = m + a /\ PayloadCells \in Nat
  BY AcceptedSizes, PayloadSize
<1>2. other.header.moduleNameLength = m /\ NameCells(other) = m + a BY DEF Extends, NameCells
<1>3. ev.payload \in [1..PayloadCells -> AnyCell] /\ other.payload \in [1..PayloadCells -> AnyCell]
  BY DEF AnyEvent
<1>4. SubSeq(other.payload, 1, m) = SubSeq(ev.payload, 1, m)
  <2>1. 0 + m <= Used(ev) /\ 0 + m <= PayloadCells /\ 0 \in Nat /\ 0 + 1 = 1 /\ 0 + m = m BY <1>1
  <2> HIDE DEF m
  <2>2. Stretch(other.payload, 0, m) = Stretch(ev.payload, 0, m) BY <1>1, <2>1, StretchSame
  <2>3. SubSeq(ev.payload, 0 + 1, 0 + m) = Stretch(ev.payload, 0, m)
        /\ SubSeq(other.payload, 0 + 1, 0 + m) = Stretch(other.payload, 0, m)
    BY <1>1, <1>3, <2>1, StretchIs
  <2> QED BY <2>1, <2>2, <2>3
<1>5. SubSeq(other.payload, m + 1, m + a) = SubSeq(ev.payload, m + 1, m + a)
  <2>1. m + a <= Used(ev) /\ m + a <= PayloadCells BY <1>1
  <2> HIDE DEF m, a
  <2>2. Stretch(other.payload, m, a) = Stretch(ev.payload, m, a) BY <1>1, <2>1, StretchSame
  <2>3. SubSeq(ev.payload, m + 1, m + a) = Stretch(ev.payload, m, a)
        /\ SubSeq(other.payload, m + 1, m + a) = Stretch(other.payload, m, a)
    BY <1>1, <1>3, <2>1, StretchIs
  <2> QED BY <2>2, <2>3
<1>6. IsSpelled(SubSeq(ev.payload, 1, m), "module") /\ IsSpelled(SubSeq(ev.payload, m + 1, m + a), "api")
  BY <1>1 DEF ParseAccepts
<1>7. ASSUME NEW i \in 1..n
      PROVE  /\ FieldParses(other, FieldStarts(other)[i])
             /\ FieldName(other, FieldStarts(other)[i]) = FieldName(ev, FieldStarts(ev)[i])
             /\ ParsedFields(other)[i] = ParsedFields(ev)[i]
  <2> DEFINE at == FieldStarts(ev)[i]
  <2>1. i \in 1..(n + 1) /\ i \in 1..other.header.fieldCount BY <1>0
  <2>2. FieldStarts(other)[i] = at BY <2>1, SameStarts
  <2>3. at \in Nat BY <2>1, StartsUnfold
  <2>4. FieldParses(ev, at) BY DEF ParseAccepts
  <2> HIDE DEF at
  <2>5. /\ FieldParses(other, at) /\ other.payload[at + 1] = ev.payload[at + 1]
        /\ FieldName(other, at) = FieldName(ev, at) /\ FieldValue(other, at) = FieldValue(ev, at)
    BY <1>1, <2>3, <2>4, SameField
  <2>6. ParsedFields(other)[i] =
          [type |-> other.payload[at + 1].type, name |-> FieldName(other, at), value |-> FieldValue(other, at)]
    BY <2>1, <2>2 DEF ParsedFields
  <2>7. ParsedFields(ev)[i] =
          [type |-> ev.payload[at + 1].type, name |-> FieldName(ev, at), value |-> FieldValue(ev, at)]
    BY DEF ParsedFields, at
  <2>8. FieldName(other, FieldStarts(other)[i]) = FieldName(ev, FieldStarts(ev)[i])
    BY <2>2, <2>5 DEF at
  <2> QED BY <2>2, <2>5, <2>6, <2>7, <2>8
<1> QED BY <1>2, <1>4, <1>5, <1>6, <1>7

\* An event that holds the same in its used part reads the same.
LEMMA SameAccepted ==
  ASSUME NEW ev \in AnyEvent, NEW other \in AnyEvent, ParseAccepts(ev), Extends(ev, other),
         other.header.magic = ev.header.magic, other.header.size = ev.header.size,
         other.header.fieldCount = ev.header.fieldCount
  PROVE  ParseAccepts(other) /\ ParsedFields(other) = ParsedFields(ev)
<1> DEFINE n == ev.header.fieldCount
<1>1. n \in Nat BY DEF AnyEvent, Headers
<1>2. other.header.fieldCount = n /\ NameCells(other) = NameCells(ev) BY DEF Extends, NameCells
<1>3. \A i \in 1..n : /\ FieldParses(other, FieldStarts(other)[i])
                       /\ FieldName(other, FieldStarts(other)[i]) = FieldName(ev, FieldStarts(ev)[i])
                       /\ ParsedFields(other)[i] = ParsedFields(ev)[i]
  BY OldFields
<1>4. FieldStarts(other)[n + 1] = FieldStarts(ev)[n + 1]
  <2>1. n + 1 \in 1..(n + 1) BY <1>1
  <2> QED BY <2>1, SameStarts
<1>5. ParseAccepts(other)
  <2>1. other.header.magic /\ other.header.size \in (HeaderCells + NameCells(other))..EventCells
    BY <1>2 DEF ParseAccepts
  <2>2. /\ IsSpelled(SubSeq(other.payload, 1, other.header.moduleNameLength), "module")
        /\ IsSpelled(SubSeq(other.payload, other.header.moduleNameLength + 1, NameCells(other)), "api")
    BY OldFields
  <2>3. \A i, j \in 1..n : i # j =>
          FieldName(other, FieldStarts(other)[i]) # FieldName(other, FieldStarts(other)[j])
    <3>1. \A i, j \in 1..n : i # j =>
            FieldName(ev, FieldStarts(ev)[i]) # FieldName(ev, FieldStarts(ev)[j])
      BY DEF ParseAccepts
    <3> QED BY <1>3, <3>1
  <2>4. FieldStarts(other)[n + 1] = other.header.size - HeaderCells BY <1>4 DEF ParseAccepts
  <2>5. \A i \in 1..n : FieldParses(other, FieldStarts(other)[i]) BY <1>3
  <2> QED BY <1>2, <2>1, <2>2, <2>3, <2>4, <2>5 DEF ParseAccepts
<1>6. ParsedFields(other) = ParsedFields(ev)
  <2>1. ParsedFields(other) = [i \in 1..n |-> ParsedFields(other)[i]] BY <1>2 DEF ParsedFields
  <2>2. ParsedFields(ev) = [i \in 1..n |-> ParsedFields(ev)[i]] BY DEF ParsedFields
  <2> QED BY <1>3, <2>1, <2>2
<1> QED BY <1>5, <1>6

\* The slot holds what was copied into it, whatever it held before.
LEMMA CopyAccepted ==
  ASSUME NEW ev \in AnyEvent, NEW old \in AnyEvent, ParseAccepts(ev)
  PROVE  /\ CopyToSlot(ev, old) \in AnyEvent /\ CopyToSlot(ev, old).header = ev.header
         /\ ParseAccepts(CopyToSlot(ev, old))
         /\ ParsedFields(CopyToSlot(ev, old)) = ParsedFields(ev)
<1> DEFINE other == CopyToSlot(ev, old)
           cells == SubSeq(ev.payload, 1, Used(ev))
<1>1. Used(ev) \in 0..PayloadCells /\ Used(ev) \in Nat /\ PayloadCells \in Nat
  BY AcceptedSizes, PayloadSize
<1>2. ev.payload \in [1..PayloadCells -> AnyCell] /\ old.payload \in [1..PayloadCells -> AnyCell]
      /\ ev.header \in Headers
  BY DEF AnyEvent
<1>3. cells = Stretch(ev.payload, 0, Used(ev)) /\ Len(cells) = Used(ev)
  <2>1. 0 + Used(ev) <= PayloadCells /\ 0 \in Nat /\ 0 + 1 = 1 /\ 0 + Used(ev) = Used(ev) BY <1>1
  <2>2. SubSeq(ev.payload, 0 + 1, 0 + Used(ev)) = Stretch(ev.payload, 0, Used(ev))
        /\ Len(Stretch(ev.payload, 0, Used(ev))) = Used(ev)
    BY <1>1, <1>2, <2>1, StretchIs
  <2> QED BY <2>1, <2>2
<1>4. \A j \in 1..Used(ev) : cells[j] = ev.payload[j]
  <2> HIDE DEF cells
  <2>1. \A j \in 1..Used(ev) : cells[j] = ev.payload[0 + j] BY <1>3 DEF Stretch
  <2>2. \A j \in 1..Used(ev) : 0 + j = j BY <1>1
  <2> QED BY <2>1, <2>2
<1>5. other.header = ev.header /\ other = [header |-> ev.header, payload |-> other.payload]
      /\ other.payload = Overlay(old.payload, 0, cells)
  BY DEF CopyToSlot, Used
<1> HIDE DEF other, cells
<1>6. other.payload = [i \in 1..PayloadCells |-> IF i \in 1..Used(ev) THEN ev.payload[i] ELSE old.payload[i]]
  <2>1. DOMAIN old.payload = 1..PayloadCells BY <1>2
  <2>2. other.payload = [i \in 1..PayloadCells |->
                           IF i \in (0 + 1)..(0 + Used(ev)) THEN cells[i - 0] ELSE old.payload[i]]
    BY <1>3, <1>5, <2>1 DEF Overlay
  <2>3. ASSUME NEW i \in 1..PayloadCells
        PROVE  (IF i \in (0 + 1)..(0 + Used(ev)) THEN cells[i - 0] ELSE old.payload[i])
                 = IF i \in 1..Used(ev) THEN ev.payload[i] ELSE old.payload[i]
    BY <1>1, <1>4
  <2> QED BY <2>2, <2>3
<1>7. \A i \in 1..PayloadCells : (IF i \in 1..Used(ev) THEN ev.payload[i] ELSE old.payload[i]) \in AnyCell
  BY <1>2
<1>8. other.payload \in [1..PayloadCells -> AnyCell] BY <1>6, <1>7
<1>9. other \in AnyEvent BY <1>2, <1>5, <1>8 DEF AnyEvent
<1>10. \A j \in 1..Used(ev) : other.payload[j] = ev.payload[j] BY <1>1, <1>6
<1>11. ev.header.fieldCount \in Nat BY <1>2 DEF Headers
<1>12. Extends(ev, other) BY <1>1, <1>5, <1>10, <1>11 DEF Extends, Used
<1>13. ParseAccepts(other) /\ ParsedFields(other) = ParsedFields(ev)
  BY <1>5, <1>9, <1>12, SameAccepted
<1> QED BY <1>5, <1>9, <1>13 DEF other

-----------------------------------------------------------------------------
(* A field behind the others.                                              *)

LEMMA CharsTyped ==
  ASSUME NEW s \in Texts
  PROVE  /\ s.length \in Nat /\ Chars(s) \in Seq(AnyCell) /\ Len(Chars(s)) = s.length
         /\ Chars(s) = [i \in 1..s.length |-> Chars(s)[i]]
         /\ \A kind : IsValidName(s, kind) => IsSpelled(Chars(s), kind)
<1>1. s.length \in Nat /\ s.spelled \in Spellings BY TextAssumption DEF Spellings
<1>2. \A i \in 1..s.length :
        [kind |-> "char", text |-> s.text, at |-> i, spelled |-> s.spelled] \in CharCells
  BY <1>1 DEF CharCells
<1>3. \A i \in 1..s.length :
        [kind |-> "char", text |-> s.text, at |-> i, spelled |-> s.spelled] \in AnyCell
  BY <1>2 DEF AnyCell
<1>4. Chars(s) \in [1..s.length -> AnyCell] BY <1>3 DEF Chars
<1>5. Chars(s) \in Seq(AnyCell) /\ Len(Chars(s)) = s.length /\ DOMAIN Chars(s) = 1..s.length BY <1>1, <1>4
<1>6. ASSUME NEW kind, IsValidName(s, kind) PROVE IsSpelled(Chars(s), kind)
  <2>1. \A i \in 1..s.length : Chars(s)[i].kind = "char" /\ kind \in Chars(s)[i].spelled
    BY <1>6 DEF Chars, IsValidName
  <2> QED BY <1>5, <1>6, <2>1 DEF IsSpelled, IsValidName
<1> QED BY <1>1, <1>4, <1>5, <1>6

FieldCellsOf(type, name, value) == <<FieldHeader(type, name.length, Len(value))>> \o Chars(name) \o value

LEMMA FieldCellsAre ==
  ASSUME NEW type \in FieldTypes, NEW name \in Texts, NEW value \in Values
  PROVE  LET cells == FieldCellsOf(type, name, value)
         IN /\ cells \in Seq(AnyCell) /\ Len(cells) = 1 + name.length + Len(value)
            /\ cells[1] = FieldHeader(type, name.length, Len(value))
            /\ \A j \in 1..name.length : cells[1 + j] = Chars(name)[j]
            /\ \A j \in 1..Len(value) : cells[1 + name.length + j] = value[j]
<1> DEFINE h == FieldHeader(type, name.length, Len(value))
           named == <<h>> \o Chars(name)
<1>1. name.length \in Nat /\ Chars(name) \in Seq(AnyCell) /\ Len(Chars(name)) = name.length
  BY CharsTyped
<1>2. value \in Seq(AnyCell) /\ Len(value) \in Nat BY DEF Values
<1>3. h \in AnyCell BY <1>1, <1>2 DEF FieldHeader, FieldCells, AnyCell
<1> HIDE DEF h
<1>4. <<h>> \in Seq(AnyCell) /\ Len(<<h>>) = 1 /\ <<h>>[1] = h BY <1>3
<1>5. named \in Seq(AnyCell) /\ Len(named) = 1 + name.length BY <1>1, <1>4, ConcatProperties
<1>6. named[1] = h BY <1>1, <1>4
<1>7. \A j \in 1..name.length : named[1 + j] = Chars(name)[j] BY <1>1, <1>4
<1> HIDE DEF named
<1>8. FieldCellsOf(type, name, value) = named \o value BY DEF FieldCellsOf, named, h
<1>9. named \o value \in Seq(AnyCell) /\ Len(named \o value) = 1 + name.length + Len(value)
  BY <1>1, <1>2, <1>5, ConcatProperties
<1>10. (named \o value)[1] = h BY <1>1, <1>2, <1>5, <1>6
<1>11. ASSUME NEW j \in 1..name.length PROVE (named \o value)[1 + j] = Chars(name)[j]
  <2>1. 1 + j \in 1..Len(named) BY <1>1, <1>5
  <2>2. (named \o value)[1 + j] = named[1 + j] BY <1>2, <1>5, <2>1
  <2> QED BY <1>7, <2>2
<1>12. \A j \in 1..Len(value) : (named \o value)[1 + name.length + j] = value[j]
  BY <1>1, <1>2, <1>5
<1> QED BY <1>8, <1>9, <1>10, <1>11, <1>12 DEF h

\* Writing cells over a payload.
LEMMA OverlayIs ==
  ASSUME NEW payload \in [1..PayloadCells -> AnyCell], NEW at \in Nat, NEW cells \in Seq(AnyCell),
         at + Len(cells) <= PayloadCells
  PROVE  /\ Overlay(payload, at, cells) \in [1..PayloadCells -> AnyCell]
         /\ \A j \in 1..at : Overlay(payload, at, cells)[j] = payload[j]
         /\ \A j \in 1..Len(cells) : Overlay(payload, at, cells)[at + j] = cells[j]
<1>0. PayloadCells \in Nat /\ Len(cells) \in Nat /\ DOMAIN payload = 1..PayloadCells BY PayloadSize
<1>1. ASSUME NEW i \in 1..PayloadCells, i \in (at + 1)..(at + Len(cells)) PROVE cells[i - at] \in AnyCell
  <2>1. i - at \in 1..Len(cells) BY <1>0, <1>1
  <2> QED BY <2>1
<1>2. Overlay(payload, at, cells) =
        [i \in 1..PayloadCells |-> IF i \in (at + 1)..(at + Len(cells)) THEN cells[i - at] ELSE payload[i]]
  BY <1>0 DEF Overlay
<1>3. \A i \in 1..PayloadCells :
        (IF i \in (at + 1)..(at + Len(cells)) THEN cells[i - at] ELSE payload[i]) \in AnyCell
  BY <1>1
<1>4. Overlay(payload, at, cells) \in [1..PayloadCells -> AnyCell] BY <1>2, <1>3
<1>5. ASSUME NEW j \in 1..at PROVE Overlay(payload, at, cells)[j] = payload[j]
  <2>1. j \in 1..PayloadCells /\ ~(j \in (at + 1)..(at + Len(cells))) BY <1>0
  <2> QED BY <1>2, <2>1
<1>6. ASSUME NEW j \in 1..Len(cells) PROVE Overlay(payload, at, cells)[at + j] = cells[j]
  <2>1. at + j \in 1..PayloadCells /\ at + j \in (at + 1)..(at + Len(cells)) /\ (at + j) - at = j BY <1>0
  <2> QED BY <1>2, <2>1
<1> QED BY <1>4, <1>5, <1>6

\* A stretch of a payload that was overlaid with a text is that text.
LEMMA StretchOf ==
  ASSUME NEW payload \in [1..PayloadCells -> AnyCell], NEW at \in Nat, NEW cells \in Seq(AnyCell),
         at + Len(cells) <= PayloadCells,
         \A j \in 1..Len(cells) : payload[at + j] = cells[j]
  PROVE  SubSeq(payload, at + 1, at + Len(cells)) = cells
<1>1. Len(cells) \in Nat OBVIOUS
<1>2. SubSeq(payload, at + 1, at + Len(cells)) = Stretch(payload, at, Len(cells))
      /\ Stretch(payload, at, Len(cells)) \in Seq(AnyCell)
      /\ Len(Stretch(payload, at, Len(cells))) = Len(cells)
  BY <1>1, StretchIs
<1>3. \A j \in 1..Len(cells) : Stretch(payload, at, Len(cells))[j] = cells[j] BY DEF Stretch
<1> HIDE DEF Stretch
<1>4. Stretch(payload, at, Len(cells)) = cells BY <1>2, <1>3, SeqEqual
<1> QED BY <1>2, <1>4

\* The header when a field of n cells was added.
LongerHeader(ev, n) == [ev.header EXCEPT !.size = @ + n, !.fieldCount = @ + 1]

LEMMA AppendCellsAre ==
  ASSUME NEW ev \in AnyEvent, NEW cells
  PROVE  AppendCells(ev, cells) =
           [header |-> LongerHeader(ev, Len(cells)), payload |-> Overlay(ev.payload, Used(ev), cells)]
<1>1. ev = [header |-> ev.header, payload |-> ev.payload] BY DEF AnyEvent
<1>2. PICK P : P = Overlay(ev.payload, ev.header.size - HeaderCells, cells) OBVIOUS
<1>3. PICK n : n = ev.header.size + Len(cells) OBVIOUS
<1>4. PICK k : k = ev.header.fieldCount + 1 OBVIOUS
<1>5. PICK h : h = ev.header OBVIOUS
<1>6. PICK h2 : h2 = [h EXCEPT !.size = n] OBVIOUS
<1>7. PICK h3 : h3 = [h2 EXCEPT !.fieldCount = k] OBVIOUS
<1>8. [ev EXCEPT !.payload = P] = [header |-> h, payload |-> P] BY <1>1, <1>5
<1>9. [[header |-> h, payload |-> P] EXCEPT !.header.size = n] = [header |-> h2, payload |-> P] BY <1>6
<1>10. [[header |-> h2, payload |-> P] EXCEPT !.header.fieldCount = k] = [header |-> h3, payload |-> P]
  BY <1>7
<1>11. AppendCells(ev, cells) = [ev EXCEPT !.payload = P, !.header.size = n, !.header.fieldCount = k]
  BY <1>2, <1>3, <1>4 DEF AppendCells
<1>12. LongerHeader(ev, Len(cells)) = h3 BY <1>3, <1>4, <1>5, <1>6, <1>7 DEF LongerHeader
<1>13. P = Overlay(ev.payload, Used(ev), cells) BY <1>2 DEF Used
<1> QED BY <1>8, <1>9, <1>10, <1>11, <1>12, <1>13

\* What the new field adds to what the parser reads.
FieldOf(type, name, value) == [type |-> type, name |-> Chars(name), value |-> value]

LEMMA AppendAccepted ==
  ASSUME NEW ev \in AnyEvent, ParseAccepts(ev),
         NEW type \in FieldTypes, NEW name \in Texts, NEW value \in Values,
         HasExpectedValueSize(type, value), IsValidName(name, "field"), ~HasTraceField(ev, name),
         Used(ev) + 1 + name.length + Len(value) <= PayloadCells
  PROVE  LET new == AppendCells(ev, FieldCellsOf(type, name, value))
             n == ev.header.fieldCount
         IN /\ new \in AnyEvent /\ ParseAccepts(new)
            /\ new.header = LongerHeader(ev, 1 + name.length + Len(value))
            /\ \A i \in 1..n : ParsedFields(new)[i] = ParsedFields(ev)[i]
            /\ ParsedFields(new)[n + 1] = FieldOf(type, name, value)
<1> DEFINE n == ev.header.fieldCount
           cells == FieldCellsOf(type, name, value)
           new == AppendCells(ev, cells)
           L == name.length
           V == Len(value)
           U == Used(ev)
           h == FieldHeader(type, L, V)
<1>1. U \in 0..PayloadCells /\ U \in Nat /\ PayloadCells \in Nat /\ EventCells \in Nat
      /\ PayloadCells = EventCells - 1 /\ NameCells(ev) \in 0..U
  BY AcceptedSizes, PayloadSize DEF PayloadCells, HeaderCells
<1>2. /\ ev.payload \in [1..PayloadCells -> AnyCell] /\ ev.header \in Headers
      /\ n \in Nat /\ ev.header.size \in Nat /\ ev.header.size = U + 1
  BY DEF AnyEvent, Headers, Used, HeaderCells
<1>3. L \in Nat /\ V \in Nat /\ value \in Seq(AnyCell) /\ Chars(name) \in Seq(AnyCell)
      /\ Len(Chars(name)) = L /\ IsSpelled(Chars(name), "field")
  BY CharsTyped DEF Values
<1>4. /\ cells \in Seq(AnyCell) /\ Len(cells) = 1 + L + V /\ cells[1] = h
      /\ \A j \in 1..L : cells[1 + j] = Chars(name)[j]
      /\ \A j \in 1..V : cells[1 + L + j] = value[j]
  BY FieldCellsAre
<1>5. U + Len(cells) <= PayloadCells BY <1>1, <1>3, <1>4
<1>6. /\ new.header = LongerHeader(ev, Len(cells))
      /\ new.payload = Overlay(ev.payload, U, cells)
      /\ new = [header |-> new.header, payload |-> new.payload]
  BY AppendCellsAre
<1> HIDE DEF cells, new
<1>7. /\ new.payload \in [1..PayloadCells -> AnyCell]
      /\ \A j \in 1..U : new.payload[j] = ev.payload[j]
      /\ \A j \in 1..Len(cells) : new.payload[U + j] = cells[j]
  <2>1. new.payload = Overlay(ev.payload, U, cells) BY <1>6
  <2>2. cells \in Seq(AnyCell) /\ ev.payload \in [1..PayloadCells -> AnyCell] BY <1>2, <1>4
  <2> HIDE DEF U
  <2>3. /\ Overlay(ev.payload, U, cells) \in [1..PayloadCells -> AnyCell]
        /\ \A j \in 1..U : Overlay(ev.payload, U, cells)[j] = ev.payload[j]
        /\ \A j \in 1..Len(cells) : Overlay(ev.payload, U, cells)[U + j] = cells[j]
    BY <1>1, <1>5, <2>2, OverlayIs
  <2> QED BY <2>1, <2>3
<1>8. new.header = LongerHeader(ev, 1 + L + V) BY <1>4, <1>6
<1>9. new.header \in Headers
  <2>1. ev.header.size + (1 + L + V) \in Nat /\ ev.header.fieldCount + 1 \in Nat BY <1>2, <1>3
  <2> QED BY <1>2, <1>8, <2>1 DEF Headers, LongerHeader
<1>10. new \in AnyEvent BY <1>6, <1>7, <1>9 DEF AnyEvent
<1>11. /\ new.header.fieldCount = n + 1 /\ new.header.size = U + 1 + 1 + L + V
       /\ new.header.magic = ev.header.magic
       /\ new.header.moduleNameLength = ev.header.moduleNameLength
       /\ new.header.apiNameLength = ev.header.apiNameLength
  <2>1. ev.header.size + (1 + L + V) = U + 1 + 1 + L + V BY <1>2, <1>3
  <2> QED BY <1>2, <1>8, <2>1 DEF Headers, LongerHeader
<1>12. Used(new) = U + 1 + L + V /\ NameCells(new) = NameCells(ev)
       /\ Used(new) \in 0..PayloadCells /\ U <= Used(new)
  <2> HIDE DEF U, L, V
  <2>1. new.header.size - 1 = U + 1 + L + V BY <1>1, <1>3, <1>11
  <2>2. Used(new) = U + 1 + L + V BY <2>1 DEF Used, HeaderCells
  <2>3. NameCells(new) = NameCells(ev) BY <1>11 DEF NameCells
  <2>4. U + 1 + L + V <= PayloadCells BY DEF U, L, V
  <2>5. U + 1 + L + V \in Nat /\ U <= U + 1 + L + V BY <1>1, <1>3
  <2> QED BY <1>1, <2>2, <2>3, <2>4, <2>5
<1>13. Extends(ev, new) BY <1>2, <1>7, <1>11, <1>12 DEF Extends
\* The new field, behind what was used.
<1>14. new.payload[U + 1] = h
  <2>1. 1 \in 1..Len(cells) BY <1>3, <1>4
  <2> QED BY <1>4, <1>7, <2>1
<1>15. FieldName(new, U) = Chars(name)
  <2> DEFINE a == U + 1
  <2>1. a \in Nat /\ a + 1 = U + 2 /\ a + Len(Chars(name)) <= PayloadCells BY <1>1, <1>3
  <2>2. ASSUME NEW j \in 1..Len(Chars(name)) PROVE new.payload[a + j] = Chars(name)[j]
    <3> HIDE DEF U, L, V
    <3>0. j \in 1..L /\ Len(cells) = 1 + L + V BY <1>3, <1>4
    <3>1. 1 + j \in 1..Len(cells) /\ U + (1 + j) = a + j BY <1>1, <1>3, <3>0
    <3> QED BY <1>3, <1>4, <1>7, <3>1
  <2>3. FieldName(new, U) = SubSeq(new.payload, a + 1, a + Len(Chars(name)))
    <3>1. new.payload[U + 1].nameLength = L BY <1>14 DEF FieldHeader
    <3>2. Len(Chars(name)) = L BY <1>3
    <3> HIDE DEF U, L, V
    <3> QED BY <2>1, <3>1, <3>2 DEF FieldName
  <2> HIDE DEF a
  <2> QED BY <1>3, <1>7, <2>1, <2>2, <2>3, StretchOf
<1>16. FieldValue(new, U) = value
  <2> DEFINE b == U + 1 + L
  <2>1. b \in Nat /\ b + 1 = U + 2 + L /\ b + V <= PayloadCells BY <1>1, <1>3
  <2>2. ASSUME NEW j \in 1..V PROVE new.payload[b + j] = value[j]
    <3> HIDE DEF U, L, V
    <3>0. Len(cells) = 1 + L + V /\ L \in Nat /\ V \in Nat /\ U \in Nat BY <1>1, <1>3, <1>4
    <3>1. 1 + L + j \in 1..Len(cells) /\ U + (1 + L + j) = b + j BY <3>0
    <3> QED BY <1>4, <1>7, <3>1
  <2>3. FieldValue(new, U) = SubSeq(new.payload, b + 1, b + V)
    <3>1. new.payload[U + 1].nameLength = L /\ new.payload[U + 1].valueSize = V
      BY <1>14 DEF FieldHeader
    <3> HIDE DEF U, L, V
    <3> QED BY <2>1, <3>1 DEF FieldValue
  <2> HIDE DEF b
  <2> QED BY <1>3, <1>7, <2>1, <2>2, <2>3, StretchOf
<1>17. FieldParses(new, U) /\ Behind(new, U) = Used(new)
  <2>1. h.kind = "field" /\ h.type = type /\ h.nameLength = L /\ h.valueSize = V BY DEF FieldHeader
  <2> HIDE DEF h
  <2>2. U < Used(new) /\ U + 1 + L + V <= Used(new) BY <1>1, <1>3, <1>12
  <2>3. U \in 0..(EventCells - HeaderCells - 1) BY <1>1, <1>3, <1>12 DEF HeaderCells
  <2>4. FieldParses(new, U) BY <1>3, <1>14, <1>15, <1>16, <2>1, <2>2 DEF FieldParses, Used
  <2>5. Behind(new, U) = Used(new) BY <1>12, <1>14, <2>1, <2>3 DEF Behind
  <2> QED BY <2>4, <2>5
<1>18. FieldStarts(new)[n + 1] = U /\ FieldStarts(new)[n + 2] = Used(new)
  <2>1. n + 1 \in 1..(n + 1) /\ n + 1 \in 1..new.header.fieldCount /\ (n + 1) + 1 = n + 2 BY <1>2, <1>11
  <2>2. FieldStarts(new)[n + 1] = FieldStarts(ev)[n + 1] BY <1>10, <1>13, <2>1, SameStarts
  <2>3. FieldStarts(ev)[n + 1] = U BY DEF ParseAccepts, Used
  <2>4. FieldStarts(new)[(n + 1) + 1] = Behind(new, FieldStarts(new)[n + 1]) BY <1>10, <2>1, StartsUnfold
  <2> QED BY <1>17, <2>1, <2>2, <2>3, <2>4
\* The fields together.
<1>19. \A i \in 1..n : /\ FieldParses(new, FieldStarts(new)[i])
                       /\ FieldName(new, FieldStarts(new)[i]) = FieldName(ev, FieldStarts(ev)[i])
                       /\ ParsedFields(new)[i] = ParsedFields(ev)[i]
  BY <1>10, <1>13, OldFields
<1>20. \A i \in 1..(n + 1) : i \in 1..n \/ i = n + 1 BY <1>2
<1>21. ParseAccepts(new)
  <2>1. new.header.magic BY <1>11 DEF ParseAccepts
  <2>2. new.header.size \in (HeaderCells + NameCells(new))..EventCells
    <3> HIDE DEF U, L, V
    <3>1. new.header.size = 1 + Used(new) BY <1>1, <1>3, <1>11, <1>12
    <3>2. NameCells(new) \in Nat /\ NameCells(new) <= Used(new) BY <1>1, <1>12
    <3> QED BY <1>1, <1>12, <3>1, <3>2 DEF HeaderCells
  <2>3. /\ IsSpelled(SubSeq(new.payload, 1, new.header.moduleNameLength), "module")
        /\ IsSpelled(SubSeq(new.payload, new.header.moduleNameLength + 1, NameCells(new)), "api")
    BY <1>10, <1>13, OldFields
  <2>4. \A i \in 1..new.header.fieldCount : FieldParses(new, FieldStarts(new)[i])
    BY <1>11, <1>17, <1>18, <1>19, <1>20
  <2>5. \A i \in 1..n : FieldName(new, FieldStarts(new)[i]) # FieldName(new, FieldStarts(new)[n + 1])
    <3>1. \A i \in 1..n : FieldName(ev, FieldStarts(ev)[i]) # Chars(name) BY DEF HasTraceField
    <3> QED BY <1>15, <1>18, <1>19, <3>1
  <2>6. \A i, j \in 1..n : i # j =>
          FieldName(new, FieldStarts(new)[i]) # FieldName(new, FieldStarts(new)[j])
    <3>1. \A i, j \in 1..n : i # j =>
            FieldName(ev, FieldStarts(ev)[i]) # FieldName(ev, FieldStarts(ev)[j])
      BY DEF ParseAccepts
    <3> QED BY <1>19, <3>1
  <2>7. \A i, j \in 1..new.header.fieldCount : i # j =>
          FieldName(new, FieldStarts(new)[i]) # FieldName(new, FieldStarts(new)[j])
    BY <1>11, <1>20, <2>5, <2>6
  <2>8. FieldStarts(new)[new.header.fieldCount + 1] = new.header.size - HeaderCells
    <3>1. new.header.fieldCount + 1 = n + 2 BY <1>2, <1>11
    <3> QED BY <1>18, <3>1 DEF Used
  <2> QED BY <2>1, <2>2, <2>3, <2>4, <2>7, <2>8 DEF ParseAccepts
<1>22. ParsedFields(new)[n + 1] = FieldOf(type, name, value)
  <2>1. n + 1 \in 1..new.header.fieldCount BY <1>2, <1>11
  <2>2. ParsedFields(new)[n + 1] =
          [type |-> new.payload[U + 1].type, name |-> FieldName(new, U), value |-> FieldValue(new, U)]
    BY <1>18, <2>1 DEF ParsedFields
  <2> QED BY <1>14, <1>15, <1>16, <2>2 DEF FieldHeader, FieldOf
<1> QED BY <1>8, <1>10, <1>19, <1>21, <1>22 DEF new, cells

-----------------------------------------------------------------------------
(* The builder.                                                            *)

\* A flag changes nothing of what is read.
LEMMA FlagAccepted ==
  ASSUME NEW ev \in AnyEvent, NEW flag \in {"Truncated", "FieldError"}
  PROVE  /\ Flag(ev, flag) \in AnyEvent
         /\ Flag(ev, flag).header = [ev.header EXCEPT !.flags = @ \union {flag}]
         /\ ParseAccepts(ev) => /\ ParseAccepts(Flag(ev, flag))
                                /\ ParsedFields(Flag(ev, flag)) = ParsedFields(ev)
<1>1. ev = [header |-> ev.header, payload |-> ev.payload] /\ ev.header \in Headers
      /\ ev.payload \in [1..PayloadCells -> AnyCell]
  BY DEF AnyEvent
<1>2. PICK flags : flags = ev.header.flags \union {flag} OBVIOUS
<1>3. PICK h : h = [ev.header EXCEPT !.flags = flags] OBVIOUS
<1>4. flags \in Flags BY <1>1, <1>2 DEF Headers, Flags
<1>5. h \in Headers BY <1>1, <1>3, <1>4 DEF Headers
<1>6. [ev EXCEPT !.header.flags = flags] = [header |-> h, payload |-> ev.payload] BY <1>1, <1>3
<1>7. Flag(ev, flag) = [header |-> h, payload |-> ev.payload] BY <1>2, <1>6 DEF Flag
<1>8. Flag(ev, flag) \in AnyEvent BY <1>1, <1>5, <1>7 DEF AnyEvent
<1>9. Flag(ev, flag).header = h /\ Flag(ev, flag).payload = ev.payload BY <1>7
<1>10. /\ h.magic = ev.header.magic /\ h.size = ev.header.size
       /\ h.fieldCount = ev.header.fieldCount /\ h.fieldCount \in Nat
       /\ h.moduleNameLength = ev.header.moduleNameLength /\ h.apiNameLength = ev.header.apiNameLength
  BY <1>1, <1>3 DEF Headers
<1>11. ASSUME ParseAccepts(ev)
       PROVE  ParseAccepts(Flag(ev, flag)) /\ ParsedFields(Flag(ev, flag)) = ParsedFields(ev)
  <2>1. Used(ev) \in 0..PayloadCells BY <1>11, AcceptedSizes
  <2>2. Used(Flag(ev, flag)) = Used(ev) BY <1>9, <1>10 DEF Used
  <2>3. Used(ev) <= Used(ev) /\ ev.header.fieldCount <= ev.header.fieldCount BY <1>10, <2>1
  <2>4. Extends(ev, Flag(ev, flag)) BY <1>9, <1>10, <2>1, <2>2, <2>3 DEF Extends
  <2> QED BY <1>8, <1>9, <1>10, <1>11, <2>4, SameAccepted
<1>12. Flag(ev, flag).header = [ev.header EXCEPT !.flags = @ \union {flag}] BY <1>2, <1>3, <1>9
<1> QED BY <1>8, <1>11, <1>12

LEMMA BlankTyped == Blank \in [1..PayloadCells -> AnyCell]
<1>1. Zero \in AnyCell BY DEF AnyCell
<1> QED BY <1>1 DEF Blank, PayloadCells

\* An event begins with its names and no fields.
LEMMA InitializedAccepted ==
  ASSUME NEW module \in Modules, NEW api \in Apis
  PROVE  LET ev == Initialized(module, api)
         IN /\ ev \in AnyEvent /\ ev.header.fieldCount = 0
            /\ ev.header.magic => /\ ParseAccepts(ev) /\ ev.header.flags = {}
                                  /\ Used(ev) = NameCells(ev)
<1> DEFINE ev == Initialized(module, api)
           m == module.length
           a == api.length
           cells == Chars(module) \o Chars(api)
<1>0. module \in Texts /\ api \in Texts BY DEF Texts
<1>1. PayloadCells \in Nat /\ EventCells \in Nat /\ PayloadCells >= 2 * MaxNameCells
      /\ PayloadCells = EventCells - 1 /\ MaxNameCells \in Nat
  BY PayloadSize, NameAssumption DEF PayloadCells, HeaderCells
<1>2. CASE IsValidName(module, "module") /\ IsValidName(api, "api")
  <2>1. m \in Nat /\ a \in Nat /\ m \in 1..MaxNameCells /\ a \in 1..MaxNameCells
        /\ Chars(module) \in Seq(AnyCell) /\ Len(Chars(module)) = m
        /\ Chars(api) \in Seq(AnyCell) /\ Len(Chars(api)) = a
        /\ IsSpelled(Chars(module), "module") /\ IsSpelled(Chars(api), "api")
    BY <1>0, <1>2, CharsTyped DEF IsValidName
  <2>2. cells \in Seq(AnyCell) /\ Len(cells) = m + a
    <3>1. Len(cells) = Len(Chars(module)) + Len(Chars(api)) /\ cells \in Seq(AnyCell)
      BY <2>1, ConcatProperties
    <3> HIDE DEF cells, m, a
    <3> QED BY <2>1, <3>1
  <2>3. \A j \in 1..m : cells[j] = Chars(module)[j] BY <2>1
  <2>4. \A j \in 1..a : cells[m + j] = Chars(api)[j] BY <2>1
  <2> DEFINE h == [magic |-> TRUE, size |-> HeaderCells + m + a, flags |-> {}, fieldCount |-> 0,
                   moduleNameLength |-> m, apiNameLength |-> a]
  <2>5. ev = [header |-> h, payload |-> Overlay(Blank, 0, cells)]
    BY <1>2 DEF Initialized, NoHeader
  <2> HIDE DEF cells, m, a
  <2>6. HeaderCells + m + a \in Nat /\ m + a <= PayloadCells /\ HeaderCells + m + a = m + a + 1
    BY <1>1, <2>1 DEF HeaderCells
  <2>7. h \in Headers BY <2>1, <2>6 DEF Headers, Flags
  <2>8. /\ h.magic /\ h.size = m + a + 1 /\ h.flags = {} /\ h.fieldCount = 0
        /\ h.moduleNameLength = m /\ h.apiNameLength = a
    BY <2>6
  <2> HIDE DEF h
  <2>9. ev.header = h /\ ev.payload = Overlay(Blank, 0, cells) BY <2>5
  <2> HIDE DEF ev
  <2>10. /\ ev.payload \in [1..PayloadCells -> AnyCell]
         /\ \A j \in 1..(m + a) : ev.payload[0 + j] = cells[j]
    <3>1. 0 \in Nat /\ 0 + Len(cells) <= PayloadCells BY <1>1, <2>1, <2>2, <2>6
    <3>2. /\ Overlay(Blank, 0, cells) \in [1..PayloadCells -> AnyCell]
          /\ \A j \in 1..Len(cells) : Overlay(Blank, 0, cells)[0 + j] = cells[j]
      BY <2>2, <3>1, BlankTyped, OverlayIs
    <3> QED BY <2>2, <2>9, <3>2
  <2>11. ev \in AnyEvent BY <2>5, <2>7, <2>9, <2>10 DEF AnyEvent
  <2>12. SubSeq(ev.payload, 1, m) = Chars(module)
    <3>1. 0 \in Nat /\ 0 + Len(Chars(module)) <= PayloadCells /\ 0 + m = m /\ 0 + 1 = 1 BY <1>1, <2>1, <2>6
    <3>2. ASSUME NEW j \in 1..Len(Chars(module)) PROVE ev.payload[0 + j] = Chars(module)[j]
      <4>1. j \in 1..m /\ j \in 1..(m + a) BY <2>1
      <4> QED BY <2>3, <2>10, <4>1
    <3>3. SubSeq(ev.payload, 0 + 1, 0 + Len(Chars(module))) = Chars(module)
      BY <2>1, <2>10, <3>1, <3>2, StretchOf
    <3> QED BY <2>1, <3>1, <3>3
  <2>13. SubSeq(ev.payload, m + 1, m + a) = Chars(api)
    <3>1. ASSUME NEW j \in 1..Len(Chars(api)) PROVE ev.payload[m + j] = Chars(api)[j]
      <4>1. j \in 1..a /\ m + j \in 1..(m + a) /\ 0 + (m + j) = m + j BY <2>1
      <4> QED BY <2>4, <2>10, <4>1
    <3>2. m + Len(Chars(api)) <= PayloadCells BY <1>1, <2>1, <2>6
    <3>3. SubSeq(ev.payload, m + 1, m + Len(Chars(api))) = Chars(api)
      BY <2>1, <2>10, <3>1, <3>2, StretchOf
    <3> QED BY <2>1, <3>3
  <2>14. NameCells(ev) = m + a /\ Used(ev) = m + a BY <2>1, <2>8, <2>9 DEF NameCells, Used, HeaderCells
  <2>15. ParseAccepts(ev)
    <3>1. ev.header.magic /\ 1..ev.header.fieldCount = {} BY <2>8, <2>9
    <3>2. ev.header.size \in (HeaderCells + NameCells(ev))..EventCells
      BY <1>1, <2>1, <2>6, <2>8, <2>9, <2>14 DEF HeaderCells
    <3>3. FieldStarts(ev)[ev.header.fieldCount + 1] = ev.header.size - HeaderCells
      <4>1. ev.header.fieldCount + 1 = 1 BY <2>8, <2>9
      <4> QED BY <2>11, <2>14, <4>1, StartsUnfold DEF Used
    <3>4. /\ IsSpelled(SubSeq(ev.payload, 1, ev.header.moduleNameLength), "module")
          /\ IsSpelled(SubSeq(ev.payload, ev.header.moduleNameLength + 1, NameCells(ev)), "api")
      BY <2>1, <2>8, <2>9, <2>12, <2>13, <2>14
    <3> QED BY <3>1, <3>2, <3>3, <3>4 DEF ParseAccepts
  <2> QED BY <2>8, <2>9, <2>11, <2>14, <2>15 DEF ev
<1>3. CASE ~(IsValidName(module, "module") /\ IsValidName(api, "api"))
  <2> DEFINE h == [magic |-> FALSE, size |-> 0, flags |-> {"FieldError"}, fieldCount |-> 0,
                   moduleNameLength |-> 0, apiNameLength |-> 0]
  <2>1. ev = [header |-> h, payload |-> Blank] BY <1>3 DEF Initialized, NoHeader
  <2>2. h \in Headers BY DEF Headers, Flags
  <2>3. h.magic = FALSE /\ h.fieldCount = 0 OBVIOUS
  <2> HIDE DEF h
  <2>4. ev \in AnyEvent /\ ev.header = h BY <2>1, <2>2, BlankTyped DEF AnyEvent
  <2> QED BY <2>3, <2>4
<1> QED BY <1>2, <1>3

\* A value that AddTraceScalar, AddTraceBoolean or AddTraceBufferPreview hands on.
Fitting(type, value) == value \in Values /\ HasExpectedValueSize(type, value)

LEMMA CellsTyped ==
  ASSUME emitted \in Nat, offers \in Seq(AnyOffer), NEW n \in Nat
  PROVE  Cells(n) \in Seq(AnyCell) /\ Len(Cells(n)) = n
<1>1. Len(offers) + 1 \in Nat OBVIOUS
<1>2. \A i \in 1..n :
        [kind |-> "value", event |-> emitted, offer |-> Len(offers) + 1, at |-> i] \in ValueCells
  BY <1>1 DEF ValueCells
<1>3. \A i \in 1..n :
        [kind |-> "value", event |-> emitted, offer |-> Len(offers) + 1, at |-> i] \in AnyCell
  BY <1>2 DEF AnyCell
<1>4. Cells(n) \in [1..n -> AnyCell] BY <1>3 DEF Cells
<1> QED BY <1>4

LEMMA ScalarFitting ==
  ASSUME emitted \in Nat, offers \in Seq(AnyOffer), NEW offer \in ScalarOffers
  PROVE  /\ offer.type \in FieldTypes /\ offer.name \in Texts
         /\ Fitting(offer.type, Cells(Scalars[offer.type]))
<1>1. offer.type \in DOMAIN Scalars /\ offer.type \notin {"Bytes", "Boolean"} /\ Scalars[offer.type] \in Nat
  BY ScalarAssumption
<1>2. offer.type \in FieldTypes BY <1>1 DEF FieldTypes
<1>3. offer.name \in Texts BY DEF Texts
<1>4. Cells(Scalars[offer.type]) \in Seq(AnyCell) /\ Len(Cells(Scalars[offer.type])) = Scalars[offer.type]
  BY <1>1, CellsTyped
<1>5. Fitting(offer.type, Cells(Scalars[offer.type]))
  BY <1>1, <1>4 DEF Fitting, Values, HasExpectedValueSize
<1> QED BY <1>2, <1>3, <1>5

BooleanOf(encoded) == <<[kind |-> "boolean", encoded |-> encoded]>>

LEMMA BooleanFitting ==
  ASSUME NEW name \in BooleanOffers, NEW encoded \in {0, 1}
  PROVE  name \in Texts /\ Fitting("Boolean", BooleanOf(encoded))
<1> DEFINE b == [kind |-> "boolean", encoded |-> encoded]
<1>1. b \in AnyCell /\ b.kind = "boolean" /\ b.encoded \in {0, 1} BY DEF AnyCell, BooleanCells
<1> HIDE DEF b
<1>2. <<b>> \in Seq(AnyCell) /\ Len(<<b>>) = 1 /\ <<b>>[1] = b BY <1>1
<1>3. Fitting("Boolean", <<b>>) BY <1>1, <1>2 DEF Fitting, Values, HasExpectedValueSize
<1>4. BooleanOf(encoded) = <<b>> BY DEF BooleanOf, b
<1>5. name \in Texts BY DEF Texts
<1> QED BY <1>3, <1>4, <1>5

PreviewOf(length, captured) ==
  <<[kind |-> "bytes", requested |-> length, captured |-> captured]>> \o Cells(captured)

LEMMA PreviewFitting ==
  ASSUME emitted \in Nat, offers \in Seq(AnyOffer), NEW offer \in BufferOffers,
         NEW captured \in 0..MaxBufferCells, captured <= CaptureLength(offer.length)
  PROVE  offer.name \in Texts /\ Fitting("Bytes", PreviewOf(offer.length, captured))
<1> DEFINE b == [kind |-> "bytes", requested |-> offer.length, captured |-> captured]
           value == <<b>> \o Cells(captured)
<1>1. offer.length \in Nat /\ MaxBufferCells \in Nat /\ captured \in Nat /\ captured <= MaxBufferCells
  BY ScalarAssumption, NameAssumption
<1>2. captured <= offer.length BY <1>1 DEF CaptureLength
<1>3. b \in AnyCell /\ b.kind = "bytes" /\ b.requested = offer.length /\ b.captured = captured
  BY <1>1 DEF AnyCell, BytesCells
<1> HIDE DEF b
<1>4. Cells(captured) \in Seq(AnyCell) /\ Len(Cells(captured)) = captured BY <1>1, CellsTyped
<1>5. <<b>> \in Seq(AnyCell) /\ Len(<<b>>) = 1 /\ <<b>>[1] = b BY <1>3
<1>6. value \in Seq(AnyCell) /\ Len(value) = 1 + captured
  <2>1. value \in Seq(AnyCell) /\ Len(value) = Len(<<b>>) + Len(Cells(captured))
    BY <1>4, <1>5, ConcatProperties
  <2> HIDE DEF value
  <2> QED BY <1>4, <1>5, <2>1
<1>7. value[1] = b BY <1>4, <1>5
<1> HIDE DEF value
<1>8. Fitting("Bytes", value) BY <1>1, <1>2, <1>3, <1>6, <1>7 DEF Fitting, Values, HasExpectedValueSize
<1>9. PreviewOf(offer.length, captured) = value BY DEF PreviewOf, value, b
<1>10. offer.name \in Texts BY DEF Texts
<1> QED BY <1>8, <1>9, <1>10

\* The three ends of AppendTraceField for an event under construction.
Added(ev, new, type, name, value) ==
  /\ ParseAccepts(new)
  /\ new.header = LongerHeader(ev, 1 + name.length + Len(value))
  /\ \A i \in 1..ev.header.fieldCount : ParsedFields(new)[i] = ParsedFields(ev)[i]
  /\ ParsedFields(new)[ev.header.fieldCount + 1] = FieldOf(type, name, value)
Flagged(ev, new, flag) ==
  /\ new.header = [ev.header EXCEPT !.flags = @ \union {flag}]
  /\ ParseAccepts(ev) => ParseAccepts(new) /\ ParsedFields(new) = ParsedFields(ev)

LEMMA AppendOutcome ==
  ASSUME NEW ev \in AnyEvent, ev.header.magic => ParseAccepts(ev),
         NEW type \in FieldTypes, NEW name \in Texts, NEW value, Fitting(type, value)
  PROVE  LET new == AppendTraceField(ev, type, name, value)
             fits == Used(ev) + 1 + name.length + Len(value) <= PayloadCells
         IN /\ new \in AnyEvent
            /\ ~ev.header.magic => Flagged(ev, new, "FieldError")
            /\ ev.header.magic =>
                 IF ~IsValidName(name, "field") \/ HasTraceField(ev, name)
                 THEN Flagged(ev, new, "FieldError")
                 ELSE IF ~fits THEN Flagged(ev, new, "Truncated")
                 ELSE Added(ev, new, type, name, value)
<1> DEFINE new == AppendTraceField(ev, type, name, value)
           cells == FieldCellsOf(type, name, value)
           fits == Used(ev) + 1 + name.length + Len(value) <= PayloadCells
<1>1. value \in Values /\ HasExpectedValueSize(type, value) BY DEF Fitting
<1>2. Len(cells) = 1 + name.length + Len(value) BY <1>1, FieldCellsAre
<1>3. name.length \in Nat /\ Len(value) \in Nat /\ ev.header.size \in Nat /\ EventCells \in Nat
  BY <1>1, CharsTyped, PayloadSize DEF Values, AnyEvent, Headers
<1>4. ev.header.size + Len(cells) > EventCells <=> ~fits
  <2>1. PICK l \in Nat, v \in Nat, s \in Nat, e \in Nat :
          l = name.length /\ v = Len(value) /\ s = ev.header.size /\ e = EventCells
    BY <1>3
  <2>2. Used(ev) = s - 1 /\ PayloadCells = e - 1 BY <2>1 DEF Used, HeaderCells, PayloadCells
  <2>3. s + (1 + l + v) > e <=> ~(s - 1 + 1 + l + v <= e - 1) OBVIOUS
  <2> HIDE DEF cells
  <2> QED BY <1>2, <2>1, <2>2, <2>3
<1>5. new = IF ~ev.header.magic THEN Flag(ev, "FieldError")
            ELSE IF ~IsValidName(name, "field") \/ HasTraceField(ev, name) THEN Flag(ev, "FieldError")
            ELSE IF ~fits THEN Flag(ev, "Truncated")
            ELSE AppendCells(ev, cells)
  <2>1. new = IF ~ev.header.magic THEN Flag(ev, "FieldError")
              ELSE IF ~IsValidName(name, "field") \/ HasTraceField(ev, name) THEN Flag(ev, "FieldError")
              ELSE IF ev.header.size + Len(cells) > EventCells THEN Flag(ev, "Truncated")
              ELSE AppendCells(ev, cells)
    BY DEF AppendTraceField, FieldCellsOf
  <2> HIDE DEF new, cells, fits
  <2> QED BY <1>4, <2>1
<1> HIDE DEF new, cells
<1>6. \A flag \in {"Truncated", "FieldError"} :
        Flag(ev, flag) \in AnyEvent /\ Flagged(ev, Flag(ev, flag), flag)
  BY FlagAccepted DEF Flagged
<1>7. ASSUME ev.header.magic, IsValidName(name, "field"), ~HasTraceField(ev, name), fits
      PROVE  new \in AnyEvent /\ Added(ev, new, type, name, value)
  <2>1. new = AppendCells(ev, FieldCellsOf(type, name, value)) BY <1>5, <1>7 DEF cells
  <2>2. ParseAccepts(ev) BY <1>7
  <2>3. /\ new \in AnyEvent /\ ParseAccepts(new)
        /\ new.header = LongerHeader(ev, 1 + name.length + Len(value))
        /\ \A i \in 1..ev.header.fieldCount : ParsedFields(new)[i] = ParsedFields(ev)[i]
        /\ ParsedFields(new)[ev.header.fieldCount + 1] = FieldOf(type, name, value)
    BY <1>1, <1>7, <2>1, <2>2, AppendAccepted
  <2> QED BY <2>3 DEF Added
<1> HIDE DEF fits
<1>8. new \in AnyEvent BY <1>5, <1>6, <1>7
<1>9. ~ev.header.magic => Flagged(ev, new, "FieldError") BY <1>5, <1>6
<1>10. ev.header.magic =>
         IF ~IsValidName(name, "field") \/ HasTraceField(ev, name)
         THEN Flagged(ev, new, "FieldError")
         ELSE IF ~fits THEN Flagged(ev, new, "Truncated")
         ELSE Added(ev, new, type, name, value)
  BY <1>5, <1>6, <1>7
<1> QED BY <1>8, <1>9, <1>10 DEF new, fits

-----------------------------------------------------------------------------
(* What the builder makes, the slot passes on and the parser accepts.      *)

\* An event with its magic is one the parser accepts, one without is empty.
Sound(ev) == ev \in AnyEvent /\ IF ev.header.magic THEN ParseAccepts(ev) ELSE ev.header.size = 0

OffersInv ==
  /\ offers \in Seq(AnyOffer) /\ Len(offers) <= MaxOffers
  /\ \A i \in DOMAIN offers : Fitting(offers[i].type, offers[i].value)
PhaseInv ==
  /\ phase \in {"idle", "building", "published", "received"} /\ emitted \in 0..MaxEvents
  /\ phase = "building" => emitted < MaxEvents
  /\ phase = "idle" => ~event.header.magic
  /\ phase = "published" =>
       event.header.magic /\ slot.header = event.header /\ ParsedFields(slot) = ParsedFields(event)
  /\ IF phase = "received" THEN event.header.magic /\ received = <<Rendered(event)>> ELSE received = <<>>
EventInv ==
  /\ Sound(event) /\ event.header.fieldCount <= Len(offers)
  /\ Sound(slot) /\ slot.header.fieldCount <= MaxOffers
  /\ OffersInv /\ PhaseInv

\* What is rendered depends on the header and the fields alone.
LEMMA RenderedSame ==
  ASSUME NEW ev, NEW other, other.header = ev.header, ParsedFields(other) = ParsedFields(ev)
  PROVE  Rendered(other) = Rendered(ev)
  BY DEF Rendered

LEMMA EventInvInit == Init => EventInv
<1> SUFFICES ASSUME Init PROVE EventInv OBVIOUS
<1>1. NoHeader \in Headers /\ ~NoHeader.magic /\ NoHeader.size = 0 /\ NoHeader.fieldCount = 0
  BY DEF NoHeader, Headers, Flags
<1>2. event = [header |-> NoHeader, payload |-> Blank] /\ slot = event BY DEF Init
<1>3. Sound(event) /\ Sound(slot) /\ event.header = NoHeader /\ slot.header = NoHeader
  BY <1>1, <1>2, BlankTyped DEF Sound, AnyEvent
<1>4. offers = <<>> /\ received = <<>> /\ phase = "idle" /\ emitted = 0 BY DEF Init
<1>5. MaxOffers \in Nat /\ MaxEvents \in Nat BY BoundAssumption
<1>6. offers \in Seq(AnyOffer) /\ Len(offers) = 0 /\ DOMAIN offers = {} BY <1>4
<1>7. OffersInv BY <1>5, <1>6 DEF OffersInv
<1>8. PhaseInv BY <1>1, <1>3, <1>4, <1>5 DEF PhaseInv
<1> QED BY <1>1, <1>3, <1>5, <1>6, <1>7, <1>8 DEF EventInv

LEMMA InitializeStep ==
  ASSUME EventInv, NEW module \in Modules, NEW api \in Apis, InitializeTraceEvent(module, api)
  PROVE  EventInv'
<1>1. /\ event' = Initialized(module, api) /\ phase' = "building" /\ offers' = <<>> /\ received' = <<>>
      /\ slot' = slot /\ emitted' = emitted
  BY DEF InitializeTraceEvent
<1>2. /\ event' \in AnyEvent /\ event'.header.fieldCount = 0
      /\ event'.header.magic => ParseAccepts(event')
  BY <1>1, InitializedAccepted
<1>3. ~event'.header.magic => event'.header.size = 0 BY <1>1 DEF Initialized, NoHeader
<1>4. Sound(event)' BY <1>2, <1>3 DEF Sound
<1>5. Sound(slot)' /\ slot'.header.fieldCount <= MaxOffers BY <1>1 DEF EventInv, Sound
<1>6. offers' \in Seq(AnyOffer) /\ Len(offers') = 0 /\ DOMAIN offers' = {} BY <1>1
<1>7. OffersInv' BY <1>6, BoundAssumption DEF OffersInv
<1>8. PhaseInv' BY <1>1 DEF EventInv, PhaseInv, InitializeTraceEvent
<1> QED BY <1>2, <1>4, <1>5, <1>6, <1>7, <1>8 DEF EventInv

LEMMA OfferStep ==
  ASSUME EventInv, NEW type \in FieldTypes, NEW name \in Texts, NEW value, Fitting(type, value),
         Offer(type, name, value)
  PROVE  EventInv'
<1> DEFINE x == [type |-> type, name |-> name, value |-> value]
           n == event.header.fieldCount
<1>1. /\ phase = "building" /\ Len(offers) < MaxOffers
      /\ event' = AppendTraceField(event, type, name, value)
      /\ offers' = Append(offers, x)
      /\ slot' = slot /\ phase' = phase /\ received' = received /\ emitted' = emitted
  BY DEF Offer
<1>2. event \in AnyEvent /\ offers \in Seq(AnyOffer) /\ (event.header.magic => ParseAccepts(event))
      /\ (~event.header.magic => event.header.size = 0) /\ n <= Len(offers)
  BY DEF EventInv, Sound, OffersInv
<1>3. n \in Nat /\ Len(offers) \in Nat /\ MaxOffers \in Nat BY <1>2, BoundAssumption DEF AnyEvent, Headers
<1>4. x \in AnyOffer /\ x.type = type /\ x.value = value BY DEF AnyOffer, Fitting
<1> HIDE DEF x
<1>5. offers' \in Seq(AnyOffer) /\ Len(offers') = Len(offers) + 1
      /\ \A i \in 1..(Len(offers) + 1) :
           offers'[i] = IF i <= Len(offers) THEN offers[i] ELSE x
  BY <1>1, <1>2, <1>4, AppendProperties
<1>6. OffersInv'
  <2>1. ASSUME NEW i \in DOMAIN offers' PROVE Fitting(offers'[i].type, offers'[i].value)
    <3>1. i \in 1..(Len(offers) + 1) BY <1>5
    <3>2. CASE i <= Len(offers)
      <4>1. i \in DOMAIN offers /\ offers'[i] = offers[i] BY <1>2, <1>5, <3>1, <3>2
      <4>2. Fitting(offers[i].type, offers[i].value) BY <4>1 DEF EventInv, OffersInv
      <4> QED BY <4>1, <4>2
    <3>3. CASE ~(i <= Len(offers)) BY <1>4, <1>5, <3>1, <3>3
    <3> QED BY <3>2, <3>3
  <2>2. Len(offers') <= MaxOffers BY <1>1, <1>3, <1>5
  <2>3. \A i \in DOMAIN offers' : Fitting(offers'[i].type, offers'[i].value) BY <2>1
  <2> QED BY <1>5, <2>2, <2>3 DEF OffersInv
<1>7. /\ event' \in AnyEvent
      /\ ~event.header.magic => Flagged(event, event', "FieldError")
      /\ event.header.magic =>
           \/ \E flag \in {"Truncated", "FieldError"} : Flagged(event, event', flag)
           \/ Added(event, event', type, name, value)
  BY <1>1, <1>2, AppendOutcome
<1>8. event.header \in Headers BY <1>2 DEF AnyEvent
<1>9. Sound(event)' /\ event'.header.magic = event.header.magic /\ event'.header.fieldCount <= n + 1
  <2>1. CASE \E flag \in {"Truncated", "FieldError"} : Flagged(event, event', flag)
    <3>1. PICK flag \in {"Truncated", "FieldError"} : Flagged(event, event', flag) BY <2>1
    <3>2. /\ event'.header.magic = event.header.magic /\ event'.header.size = event.header.size
          /\ event'.header.fieldCount = n
      BY <1>8, <3>1 DEF Flagged, Headers
    <3>3. event.header.magic => ParseAccepts(event') BY <1>2, <3>1 DEF Flagged
    <3> QED BY <1>2, <1>3, <1>7, <3>2, <3>3 DEF Sound
  <2>2. CASE event.header.magic /\ Added(event, event', type, name, value)
    <3>1. event'.header.magic = event.header.magic /\ event'.header.fieldCount = n + 1
      BY <1>8, <2>2 DEF Added, LongerHeader, Headers
    <3>2. ParseAccepts(event') BY <2>2 DEF Added
    <3>3. n + 1 <= n + 1 BY <1>3
    <3> QED BY <1>7, <2>2, <3>1, <3>2, <3>3 DEF Sound
  <2> QED BY <1>7, <2>1, <2>2
<1>10. event'.header.fieldCount <= Len(offers')
  <2>1. event'.header.fieldCount \in Nat BY <1>7 DEF AnyEvent, Headers
  <2> QED BY <1>2, <1>3, <1>5, <1>9, <2>1
<1>11. Sound(slot)' /\ slot'.header.fieldCount <= MaxOffers BY <1>1 DEF EventInv, Sound
<1>12. PhaseInv' BY <1>1 DEF EventInv, PhaseInv
<1> QED BY <1>6, <1>9, <1>10, <1>11, <1>12 DEF EventInv

LEMMA EmitStep ==
  ASSUME EventInv, EmitTraceEvent
  PROVE  EventInv'
<1>1. /\ phase = "building" /\ event' = event /\ received' = received /\ offers' = offers
      /\ IF event.header.magic /\ event.header.size \in (HeaderCells + NameCells(event))..EventCells
         THEN slot' = CopyToSlot(event, slot) /\ phase' = "published" /\ emitted' = emitted + 1
         ELSE phase' = "idle" /\ slot' = slot /\ emitted' = emitted
  BY DEF EmitTraceEvent
<1>2. Sound(event) /\ Sound(slot) /\ OffersInv /\ emitted \in 0..MaxEvents /\ received = <<>>
  BY <1>1 DEF EventInv, PhaseInv
<1>3. MaxEvents \in Nat /\ emitted < MaxEvents /\ emitted \in Nat
  BY <1>1, <1>2, BoundAssumption DEF EventInv, PhaseInv
<1>4. event.header.magic => /\ ParseAccepts(event)
                            /\ event.header.size \in (HeaderCells + NameCells(event))..EventCells
  BY <1>2 DEF Sound, ParseAccepts
<1>5. OffersInv' BY <1>1, <1>2 DEF OffersInv
<1>6. Sound(event)' /\ event'.header.fieldCount <= Len(offers') BY <1>1 DEF EventInv, Sound
<1>7. CASE event.header.magic
  <2>1. slot' = CopyToSlot(event, slot) /\ phase' = "published" /\ emitted' = emitted + 1
    BY <1>1, <1>4, <1>7
  <2>2. /\ slot' \in AnyEvent /\ slot'.header = event.header
        /\ ParseAccepts(slot') /\ ParsedFields(slot') = ParsedFields(event)
    BY <1>2, <1>4, <1>7, <2>1, CopyAccepted DEF Sound
  <2>3. Sound(slot)' BY <1>7, <2>2 DEF Sound
  <2>4. slot'.header.fieldCount <= MaxOffers
    <3>1. event.header.fieldCount \in Nat /\ Len(offers) \in Nat /\ MaxOffers \in Nat
      BY <1>2, BoundAssumption DEF Sound, AnyEvent, Headers, OffersInv
    <3>2. event.header.fieldCount <= Len(offers) /\ Len(offers) <= MaxOffers
      BY <1>2 DEF EventInv, OffersInv
    <3> QED BY <2>2, <3>1, <3>2
  <2>5. PhaseInv' BY <1>1, <1>2, <1>3, <1>7, <2>1, <2>2 DEF PhaseInv
  <2> QED BY <1>5, <1>6, <2>3, <2>4, <2>5 DEF EventInv
<1>8. CASE ~event.header.magic
  <2>1. phase' = "idle" /\ slot' = slot /\ emitted' = emitted BY <1>1, <1>8
  <2>2. Sound(slot)' /\ slot'.header.fieldCount <= MaxOffers BY <2>1 DEF EventInv, Sound
  <2>3. PhaseInv' BY <1>1, <1>2, <1>8, <2>1 DEF PhaseInv
  <2> QED BY <1>5, <1>6, <2>2, <2>3 DEF EventInv
<1> QED BY <1>7, <1>8

LEMMA ReceiveStep ==
  ASSUME EventInv, ReceiveEvent
  PROVE  EventInv'
<1>1. /\ phase = "published" /\ phase' = "received"
      /\ received' = IF ParseAccepts(slot) THEN <<Rendered(slot)>> ELSE <<>>
      /\ event' = event /\ slot' = slot /\ offers' = offers /\ emitted' = emitted
  BY DEF ReceiveEvent
<1>2. /\ event.header.magic /\ slot.header = event.header /\ ParsedFields(slot) = ParsedFields(event)
      /\ emitted \in 0..MaxEvents
  BY <1>1 DEF EventInv, PhaseInv
<1>3. ParseAccepts(slot) BY <1>2 DEF EventInv, Sound
<1>4. received' = <<Rendered(event)>> BY <1>1, <1>2, <1>3, RenderedSame
<1>5. Rendered(event)' = Rendered(event) BY <1>1
<1>6. PhaseInv' BY <1>1, <1>2, <1>4, <1>5 DEF PhaseInv
<1>7. Sound(event)' /\ Sound(slot)' /\ slot'.header.fieldCount <= MaxOffers
      /\ event'.header.fieldCount <= Len(offers')
  BY <1>1 DEF EventInv, Sound
<1>8. OffersInv' BY <1>1 DEF EventInv, OffersInv
<1> QED BY <1>6, <1>7, <1>8 DEF EventInv

\* A step is one of the builder or the controller, with what it was given.
LEMMA NextCases ==
  ASSUME EventInv, Next
  PROVE  \/ \E module \in Modules, api \in Apis : InitializeTraceEvent(module, api)
         \/ \E type \in FieldTypes, name \in Texts, value \in Values :
              Fitting(type, value) /\ Offer(type, name, value)
         \/ EmitTraceEvent
         \/ ReceiveEvent
<1>1. emitted \in Nat /\ offers \in Seq(AnyOffer) BY BoundAssumption DEF EventInv, OffersInv, PhaseInv
<1>2. ASSUME NEW offer \in ScalarOffers, AddTraceScalar(offer.type, offer.name)
      PROVE  \E type \in FieldTypes, name \in Texts, value \in Values :
               Fitting(type, value) /\ Offer(type, name, value)
  <2>1. Offer(offer.type, offer.name, Cells(Scalars[offer.type])) BY <1>2 DEF AddTraceScalar
  <2>2. /\ offer.type \in FieldTypes /\ offer.name \in Texts
        /\ Fitting(offer.type, Cells(Scalars[offer.type]))
    BY <1>1, ScalarFitting
  <2>3. Cells(Scalars[offer.type]) \in Values BY <2>2 DEF Fitting
  <2> QED BY <2>1, <2>2, <2>3
<1>3. ASSUME NEW offer \in BufferOffers, NEW captured \in 0..MaxBufferCells,
             AddTraceBufferPreview(offer.name, offer.length, captured)
      PROVE  \E type \in FieldTypes, name \in Texts, value \in Values :
               Fitting(type, value) /\ Offer(type, name, value)
  <2>1. captured <= CaptureLength(offer.length)
        /\ Offer("Bytes", offer.name, PreviewOf(offer.length, captured))
    BY <1>3 DEF AddTraceBufferPreview, PreviewOf
  <2>2. offer.name \in Texts /\ Fitting("Bytes", PreviewOf(offer.length, captured))
    BY <1>1, <2>1, PreviewFitting
  <2>3. PreviewOf(offer.length, captured) \in Values BY <2>2 DEF Fitting
  <2>4. "Bytes" \in FieldTypes BY DEF FieldTypes
  <2> QED BY <2>1, <2>2, <2>3, <2>4
<1>4. ASSUME NEW text \in BooleanOffers, NEW encoded \in {0, 1}, AddTraceBoolean(text, encoded)
      PROVE  \E type \in FieldTypes, name \in Texts, value \in Values :
               Fitting(type, value) /\ Offer(type, name, value)
  <2>1. Offer("Boolean", text, BooleanOf(encoded)) BY <1>4 DEF AddTraceBoolean, BooleanOf
  <2>2. text \in Texts /\ Fitting("Boolean", BooleanOf(encoded)) BY BooleanFitting
  <2>3. BooleanOf(encoded) \in Values BY <2>2 DEF Fitting
  <2>4. "Boolean" \in FieldTypes BY DEF FieldTypes
  <2> QED BY <2>1, <2>2, <2>3, <2>4
<1> QED BY <1>2, <1>3, <1>4 DEF Next

\* The invariant is inductive.
THEOREM EventInvInductive == Spec => []EventInv
<1>1. Init => EventInv BY EventInvInit
<1>2. EventInv /\ [Next]_vars => EventInv'
  <2> SUFFICES ASSUME EventInv, [Next]_vars PROVE EventInv' OBVIOUS
  <2>1. CASE Next
    <3>1. ASSUME NEW module \in Modules, NEW api \in Apis, InitializeTraceEvent(module, api)
          PROVE  EventInv'
      BY <3>1, InitializeStep
    <3>2. ASSUME NEW type \in FieldTypes, NEW name \in Texts, NEW value \in Values,
                 Fitting(type, value), Offer(type, name, value)
          PROVE  EventInv'
      BY <3>2, OfferStep
    <3>3. CASE EmitTraceEvent BY <3>3, EmitStep
    <3>4. CASE ReceiveEvent BY <3>4, ReceiveStep
    <3> QED BY <2>1, <3>1, <3>2, <3>3, <3>4, NextCases
  <2>2. CASE UNCHANGED vars
    BY <2>2 DEF vars, EventInv, Sound, OffersInv, PhaseInv
  <2> QED BY <2>1, <2>2
<1> QED BY <1>1, <1>2, PTL DEF Spec

\* What the builder builds is published and accepted: its checks and those of
\* ParseTraceEvent agree on every event.
THEOREM EveryEventAcceptedHolds == Spec => []EveryEventAccepted
<1>1. EventInv => EveryEventAccepted
  <2> SUFFICES ASSUME EventInv PROVE EveryEventAccepted OBVIOUS
  <2>1. ASSUME NEW ev \in {event, slot}
        PROVE  /\ ev.header.size \in 0..EventCells
               /\ ev.header.magic => ev.header.size >= HeaderCells + NameCells(ev)
               /\ ev.header.flags \subseteq {"Truncated", "FieldError"}
               /\ ev.header.fieldCount \in 0..MaxOffers
               /\ DOMAIN ev.payload = 1..(EventCells - HeaderCells)
    <3>1. Sound(ev) BY DEF EventInv
    <3>2. ev.header \in Headers /\ ev.payload \in [1..PayloadCells -> AnyCell]
          /\ HeaderCells + NameCells(ev) \in Nat
      BY <3>1 DEF Sound, AnyEvent, Headers, NameCells, HeaderCells
    <3>3. EventCells \in Nat /\ MaxOffers \in Nat BY PayloadSize, BoundAssumption
    <3>4. ev.header.fieldCount \in Nat /\ ev.header.fieldCount <= MaxOffers
      <4>1. ev.header.fieldCount \in Nat BY <3>2 DEF Headers
      <4>2. event.header.fieldCount <= Len(offers) /\ Len(offers) <= MaxOffers /\ Len(offers) \in Nat
            /\ slot.header.fieldCount <= MaxOffers
        BY DEF EventInv, OffersInv
      <4> QED BY <3>3, <4>1, <4>2
    <3>5. CASE ev.header.magic
      <4>1. ev.header.size \in (HeaderCells + NameCells(ev))..EventCells
        BY <3>1, <3>5 DEF Sound, ParseAccepts
      <4>2. ev.header.size \in Nat BY <3>2 DEF Headers
      <4> QED BY <3>2, <3>3, <3>4, <4>1, <4>2 DEF Headers, Flags, PayloadCells
    <3>6. CASE ~ev.header.magic
      <4>1. ev.header.size = 0 BY <3>1, <3>6 DEF Sound
      <4> QED BY <3>2, <3>3, <3>4, <3>6, <4>1 DEF Headers, Flags, PayloadCells
    <3> QED BY <3>5, <3>6
  <2>2. /\ phase \in {"idle", "building", "published", "received"} /\ emitted \in 0..MaxEvents
        /\ Len(offers) <= MaxOffers
        /\ IF phase = "received" THEN received = <<Rendered(event)>> ELSE received = <<>>
        /\ phase = "idle" => ~event.header.magic
    BY DEF EventInv, PhaseInv, OffersInv
  <2>3. Len(received) <= 1 /\ (received # <<>> => phase = "received")
        /\ (phase = "received" => received # <<>>)
    <3>1. PICK shown : shown = Rendered(event) OBVIOUS
    <3>2. Len(<<shown>>) = 1 /\ <<shown>> # <<>> /\ Len(<<>>) = 0 OBVIOUS
    <3>3. CASE phase = "received"
      <4>1. received = <<shown>> BY <2>2, <3>1, <3>3
      <4>2. Len(received) = 1 /\ received # <<>> BY <3>2, <4>1
      <4> QED BY <3>3, <4>2
    <3>4. CASE phase # "received"
      <4>1. received = <<>> BY <2>2, <3>4
      <4>2. Len(received) = 0 BY <3>2, <4>1
      <4> QED BY <3>4, <4>1, <4>2
    <3> QED BY <3>3, <3>4
  <2> QED BY <2>1, <2>2, <2>3 DEF EveryEventAccepted, EventTypeOK
<1> QED BY <1>1, EventInvInductive, PTL

-----------------------------------------------------------------------------
(* The fields that belong in an event.                                     *)

Offered == Seq(AnyOffer)

LEMMA WeightTyped == \A offer \in AnyOffer : Weight(offer) \in Nat
<1> SUFFICES ASSUME NEW offer \in AnyOffer PROVE Weight(offer) \in Nat OBVIOUS
<1>1. offer.name.length \in Nat BY TextAssumption DEF AnyOffer
<1>2. Len(offer.value) \in Nat BY DEF AnyOffer, Values
<1> QED BY <1>1, <1>2 DEF Weight

LEMMA FilledUnfold ==
  ASSUME NEW list \in Offered, NEW K
  PROVE  /\ \A i \in 0..Len(list) : Filled(list, K)[i] \in Nat
         /\ Filled(list, K)[0] = 0
         /\ \A i \in 1..Len(list) :
              Filled(list, K)[i] = Filled(list, K)[i - 1] + (IF i \in K THEN Weight(list[i]) ELSE 0)
<1> DEFINE n == Len(list)
           more(i) == IF i \in K THEN Weight(list[i]) ELSE 0
           step == [p \in Nat \X Nat |-> IF p[1] \in 1..n THEN p[2] + more(p[1]) ELSE 0]
           Body(f, i) == IF i = 0 THEN 0 ELSE f[i - 1] + (IF i \in K THEN Weight(list[i]) ELSE 0)
<1>1. n \in Nat BY DEF Offered
<1>2. \A i \in 1..n : more(i) \in Nat
  <2>1. \A i \in 1..n : list[i] \in AnyOffer BY DEF Offered
  <2> QED BY <2>1, WeightTyped
<1>3. step \in [Nat \X Nat -> Nat]
  <2> HIDE DEF more
  <2> QED BY <1>2
<1>4. \A i \in 1..n : \A s \in Nat : step[<<i, s>>] = s + more(i)
  <2> HIDE DEF more
  <2> QED BY <1>1
<1> HIDE DEF step
<1>5. PICK g \in [0..n -> Nat] : Follows(g, n, 0, step) BY <1>1, <1>3, RecursionExists
<1>6. Filled(list, K) = CHOOSE f : f = [i \in 0..n |-> Body(f, i)] BY DEF Filled
<1>7. \A f, i : Body(f, i) = IF i = 0 THEN 0 ELSE f[i - 1] + more(i) OBVIOUS
<1> HIDE DEF Body, more, n
<1>8. g = [i \in 0..n |-> Body(g, i)]
  <2> SUFFICES ASSUME NEW i \in 0..n PROVE g[i] = Body(g, i) OBVIOUS
  <2>1. CASE i = 0 BY <1>5, <1>7, <2>1 DEF Follows
  <2>2. CASE i # 0
    <3>1. i \in 1..n /\ i - 1 \in 0..n BY <1>1, <2>2
    <3>2. g[i] = step[<<i, g[i - 1]>>] /\ g[i - 1] \in Nat BY <1>5, <3>1 DEF Follows
    <3> QED BY <1>4, <1>7, <2>2, <3>1, <3>2
  <2> QED BY <2>1, <2>2
<1>9. Filled(list, K) = [i \in 0..n |-> Body(Filled(list, K), i)] BY <1>6, <1>8
<1> DEFINE F == Filled(list, K)
<1> HIDE DEF F
<1>10. \A i \in 0..n : F[i] = IF i = 0 THEN 0 ELSE F[i - 1] + more(i)
  <2> SUFFICES ASSUME NEW i \in 0..n PROVE F[i] = IF i = 0 THEN 0 ELSE F[i - 1] + more(i) OBVIOUS
  <2>1. F[i] = Body(F, i) BY <1>9 DEF F
  <2> QED BY <1>7, <2>1
<1>11. F[0] = 0 BY <1>1, <1>10
<1>12. \A i \in 1..n : F[i] = F[i - 1] + more(i) BY <1>1, <1>10
<1>13. \A i \in 0..n : F[i] \in Nat
  <2> DEFINE P == {k \in Nat : k <= n => F[k] \in Nat}
  <2>1. 0 \in P BY <1>11
  <2>2. ASSUME NEW k \in Nat, k \in P PROVE k + 1 \in P
    <3> SUFFICES ASSUME k + 1 <= n PROVE F[k + 1] \in Nat OBVIOUS
    <3>1. k <= n /\ k + 1 \in 1..n /\ (k + 1) - 1 = k BY <1>1
    <3>2. F[k] \in Nat BY <2>2, <3>1
    <3>3. F[k + 1] = F[k] + more(k + 1) /\ more(k + 1) \in Nat BY <1>2, <1>12, <3>1
    <3> QED BY <3>2, <3>3
  <2> HIDE DEF P
  <2>3. Nat \subseteq P BY <2>1, <2>2, NaturalInduction
  <2> SUFFICES ASSUME NEW i \in 0..n PROVE F[i] \in Nat OBVIOUS
  <2>4. i \in Nat /\ i <= n BY <1>1
  <2> QED BY <2>3, <2>4 DEF P
<1> QED BY <1>11, <1>12, <1>13 DEF F, n, more

\* Two lists, and two sets, are alike up to n.
Alike(list, K, other, M, n) ==
  /\ n <= Len(list) /\ n <= Len(other)
  /\ \A i \in 1..n : other[i] = list[i] /\ (i \in M <=> i \in K)

LEMMA FilledAlike ==
  ASSUME NEW list \in Offered, NEW other \in Offered, NEW K, NEW M, NEW n \in Nat,
         Alike(list, K, other, M, n)
  PROVE  \A i \in 0..n : Filled(other, M)[i] = Filled(list, K)[i]
<1> DEFINE P == {k \in Nat : k <= n => Filled(other, M)[k] = Filled(list, K)[k]}
<1>1. 0 \in P BY FilledUnfold
<1>2. ASSUME NEW k \in Nat, k \in P PROVE k + 1 \in P
  <2> SUFFICES ASSUME k + 1 <= n PROVE Filled(other, M)[k + 1] = Filled(list, K)[k + 1] OBVIOUS
  <2>1. k <= n /\ k + 1 \in 1..n /\ (k + 1) - 1 = k OBVIOUS
  <2>2. k + 1 \in 1..Len(list) /\ k + 1 \in 1..Len(other) BY <2>1 DEF Alike, Offered
  <2>3. Filled(other, M)[k] = Filled(list, K)[k] BY <1>2, <2>1
  <2>4. other[k + 1] = list[k + 1] /\ (k + 1 \in M <=> k + 1 \in K) BY <2>1 DEF Alike
  <2>5. Filled(list, K)[k + 1] = Filled(list, K)[k] + (IF k + 1 \in K THEN Weight(list[k + 1]) ELSE 0)
    BY <2>1, <2>2, FilledUnfold
  <2>6. Filled(other, M)[k + 1] = Filled(other, M)[k] + (IF k + 1 \in M THEN Weight(other[k + 1]) ELSE 0)
    BY <2>1, <2>2, FilledUnfold
  <2> QED BY <2>3, <2>4, <2>5, <2>6
<1> HIDE DEF P
<1>3. Nat \subseteq P BY <1>1, <1>2, NaturalInduction
<1> SUFFICES ASSUME NEW i \in 0..n PROVE Filled(other, M)[i] = Filled(list, K)[i] OBVIOUS
<1>4. i \in Nat /\ i <= n OBVIOUS
<1> QED BY <1>3, <1>4 DEF P

\* Whether an offer belongs depends on those before it alone.
LEMMA ChoiceAlike ==
  ASSUME NEW list \in Offered, NEW other \in Offered, NEW n \in Nat, NEW i \in Nat, NEW room,
         NEW K \in SUBSET (Nat \ {0}), NEW M \in SUBSET (Nat \ {0}),
         Alike(list, K, other, M, n), i \in 1..(n + 1), i <= Len(list), i <= Len(other),
         other[i] = list[i]
  PROVE  /\ Fresh(other, i, M) <=> Fresh(list, i, K)
         /\ Fits(other, i, M, room) <=> Fits(list, i, K, room)
<1>1. \A j \in Nat \ {0} : j < i => j \in 1..n /\ other[j] = list[j] /\ (j \in M <=> j \in K)
  BY DEF Alike
<1>2. Fresh(other, i, M) <=> Fresh(list, i, K) BY <1>1 DEF Fresh
<1>3. i - 1 \in 0..n OBVIOUS
<1>4. Filled(other, M)[i - 1] = Filled(list, K)[i - 1] BY <1>3, FilledAlike
<1>5. Fits(other, i, M, room) <=> Fits(list, i, K, room) BY <1>4 DEF Fits
<1> QED BY <1>2, <1>5

\* K is a choice of offers as KeptOf describes it.
Chosen(list, room, K) ==
  /\ K \in SUBSET DOMAIN list
  /\ \A i \in DOMAIN list : i \in K <=> Well(list[i]) /\ Fresh(list, i, K) /\ Fits(list, i, K, room)

\* There is at most one, and if there is one it is KeptOf.
LEMMA ChosenIsKept ==
  ASSUME NEW list \in Offered, NEW room, NEW K, Chosen(list, room, K)
  PROVE  KeptOf(list, room) = K
<1>1. ASSUME NEW M, Chosen(list, room, M) PROVE M = K
  <2> DEFINE n == Len(list)
             P == {k \in Nat : k <= n => \A i \in 1..k : i \in M <=> i \in K}
  <2>1. n \in Nat /\ DOMAIN list = 1..n BY DEF Offered
  <2>2. K \in SUBSET (1..n) /\ M \in SUBSET (1..n) BY <1>1, <2>1 DEF Chosen
  <2>3. K \in SUBSET (Nat \ {0}) /\ M \in SUBSET (Nat \ {0}) BY <2>1, <2>2
  <2>4. 0 \in P OBVIOUS
  <2>5. ASSUME NEW k \in Nat, k \in P PROVE k + 1 \in P
    <3> SUFFICES ASSUME k + 1 <= n PROVE \A i \in 1..(k + 1) : i \in M <=> i \in K OBVIOUS
    <3>1. k <= n /\ k + 1 \in 1..n /\ k + 1 \in Nat BY <2>1
    <3>2. \A i \in 1..k : i \in M <=> i \in K BY <2>5, <3>1
    <3>3. Alike(list, K, list, M, k) BY <3>1, <3>2 DEF Alike
    <3>4. k + 1 \in 1..(k + 1) OBVIOUS
    <3>5. /\ Fresh(list, k + 1, M) <=> Fresh(list, k + 1, K)
          /\ Fits(list, k + 1, M, room) <=> Fits(list, k + 1, K, room)
      BY <2>1, <2>3, <3>1, <3>3, <3>4, ChoiceAlike
    <3>6. k + 1 \in M <=> k + 1 \in K BY <1>1, <2>1, <3>1, <3>5 DEF Chosen
    <3>7. \A i \in 1..(k + 1) : i \in 1..k \/ i = k + 1 OBVIOUS
    <3> QED BY <3>2, <3>6, <3>7
  <2> HIDE DEF P
  <2>6. n \in P BY <2>1, <2>4, <2>5, NaturalInduction
  <2>7. \A i \in 1..n : i \in M <=> i \in K BY <2>1, <2>6 DEF P
  <2> QED BY <2>2, <2>7
<1>2. KeptOf(list, room) = CHOOSE M \in SUBSET DOMAIN list :
        \A i \in DOMAIN list : i \in M <=> Well(list[i]) /\ Fresh(list, i, M) /\ Fits(list, i, M, room)
  BY DEF KeptOf
<1>3. Chosen(list, room, KeptOf(list, room)) BY <1>2 DEF Chosen
<1> QED BY <1>1, <1>3

\* What one more offer does to the choice.
LEMMA ChosenAppend ==
  ASSUME NEW list \in Offered, NEW x \in AnyOffer, NEW room, NEW K, Chosen(list, room, K)
  PROVE  LET n == Len(list)
             longer == Append(list, x)
             fresh == \A j \in K : list[j].name # x.name
             fits == Filled(list, K)[n] + Weight(x) <= room
             M == IF Well(x) /\ fresh /\ fits THEN K \union {n + 1} ELSE K
         IN /\ longer \in Offered /\ Chosen(longer, room, M) /\ Alike(list, K, longer, M, n)
            /\ \A i \in 1..n : Fresh(longer, i, M) <=> Fresh(list, i, K)
            /\ Fresh(longer, n + 1, M) <=> fresh
            /\ Filled(longer, M)[n + 1] = Filled(list, K)[n] + (IF n + 1 \in M THEN Weight(x) ELSE 0)
            /\ n + 1 \in M <=> Well(x) /\ fresh /\ fits
<1> DEFINE n == Len(list)
           longer == Append(list, x)
           fresh == \A j \in K : list[j].name # x.name
           fits == Filled(list, K)[n] + Weight(x) <= room
           M == IF Well(x) /\ fresh /\ fits THEN K \union {n + 1} ELSE K
<1>1. n \in Nat /\ DOMAIN list = 1..n BY DEF Offered
<1>2. /\ longer \in Offered /\ Len(longer) = n + 1 /\ DOMAIN longer = 1..(n + 1)
      /\ \A i \in 1..n : longer[i] = list[i]
      /\ longer[n + 1] = x
  BY DEF Offered
<1> HIDE DEF longer
<1>3. K \in SUBSET (1..n) /\ n + 1 \notin K BY <1>1 DEF Chosen
<1> HIDE DEF n, fresh, fits
<1>4. M \in SUBSET (1..(n + 1)) /\ (\A i \in 1..n : i \in M <=> i \in K)
      /\ (n + 1 \in M <=> Well(x) /\ fresh /\ fits)
  BY <1>1, <1>3
<1> HIDE DEF M
<1>5. K \in SUBSET (Nat \ {0}) /\ M \in SUBSET (Nat \ {0}) BY <1>1, <1>3, <1>4
<1>6. Alike(list, K, longer, M, n)
  <2>1. n <= Len(list) /\ n <= Len(longer) BY <1>1, <1>2 DEF n
  <2> QED BY <1>2, <1>4, <2>1 DEF Alike
<1>7. ASSUME NEW i \in 1..n
      PROVE  /\ Fresh(longer, i, M) <=> Fresh(list, i, K)
             /\ Fits(longer, i, M, room) <=> Fits(list, i, K, room)
  <2>1. i \in Nat /\ i \in 1..(n + 1) /\ i <= Len(list) /\ i <= Len(longer) /\ longer[i] = list[i]
    BY <1>1, <1>2 DEF n
  <2> QED BY <1>1, <1>2, <1>5, <1>6, <2>1, ChoiceAlike
<1>8. Fresh(longer, n + 1, M) <=> fresh
  <2>1. \A j \in M : j < n + 1 <=> j \in K BY <1>1, <1>3, <1>4
  <2>2. \A j \in K : j \in M /\ longer[j] = list[j] BY <1>2, <1>3, <1>4
  <2> QED BY <1>2, <2>1, <2>2 DEF Fresh, fresh
<1>9. Filled(longer, M)[n] = Filled(list, K)[n]
  <2>1. n \in 0..n BY <1>1
  <2> QED BY <1>1, <1>2, <1>6, <2>1, FilledAlike
<1>10. Fits(longer, n + 1, M, room) <=> fits
  <2>1. (n + 1) - 1 = n BY <1>1
  <2> QED BY <1>2, <1>9, <2>1 DEF Fits, fits
<1>11. Filled(longer, M)[n + 1] = Filled(list, K)[n] + (IF n + 1 \in M THEN Weight(x) ELSE 0)
  <2>1. n + 1 \in 1..Len(longer) /\ (n + 1) - 1 = n BY <1>1, <1>2
  <2>2. Filled(longer, M)[n + 1] = Filled(longer, M)[n] + (IF n + 1 \in M THEN Weight(longer[n + 1]) ELSE 0)
    BY <1>2, <2>1, FilledUnfold
  <2> QED BY <1>2, <1>9, <2>2
<1>12. Chosen(longer, room, M)
  <2>1. ASSUME NEW i \in 1..(n + 1)
        PROVE  i \in M <=> Well(longer[i]) /\ Fresh(longer, i, M) /\ Fits(longer, i, M, room)
    <3>1. CASE i \in 1..n
      <4>1. i \in K <=> Well(list[i]) /\ Fresh(list, i, K) /\ Fits(list, i, K, room)
        BY <1>1, <3>1 DEF Chosen
      <4> QED BY <1>2, <1>4, <1>7, <3>1, <4>1
    <3>2. CASE i = n + 1 BY <1>2, <1>4, <1>8, <1>10, <3>2
    <3> QED BY <1>1, <3>1, <3>2
  <2> QED BY <1>2, <1>4, <2>1 DEF Chosen
<1> QED BY <1>2, <1>4, <1>6, <1>7, <1>8, <1>11, <1>12 DEF n, longer, fresh, fits, M

\* An offer that did not fit, and one with a bad or repeated name.
Unfitting(list, K) == \E i \in DOMAIN list \ K : Well(list[i]) /\ Fresh(list, i, K)
Refused(list, K) == \E i \in DOMAIN list : ~Well(list[i]) \/ ~Fresh(list, i, K)

LEMMA MissingAppend ==
  ASSUME NEW list \in Offered, NEW x \in AnyOffer, NEW K \in SUBSET (1..Len(list)),
         NEW M \in SUBSET (1..(Len(list) + 1)), NEW fresh \in BOOLEAN,
         Alike(list, K, Append(list, x), M, Len(list)),
         \A i \in 1..Len(list) : Fresh(Append(list, x), i, M) <=> Fresh(list, i, K),
         Fresh(Append(list, x), Len(list) + 1, M) <=> fresh
  PROVE  /\ Unfitting(Append(list, x), M) <=>
              Unfitting(list, K) \/ (Len(list) + 1 \notin M /\ Well(x) /\ fresh)
         /\ Refused(Append(list, x), M) <=> Refused(list, K) \/ ~Well(x) \/ ~fresh
<1> DEFINE n == Len(list)
           longer == Append(list, x)
<1>1. n \in Nat /\ DOMAIN list = 1..n BY DEF Offered
<1>2. DOMAIN longer = 1..(n + 1) /\ longer[n + 1] = x /\ n + 1 \in 1..(n + 1) BY DEF Offered
<1>3. \A i \in 1..n : /\ i \in 1..(n + 1) /\ longer[i] = list[i]
                      /\ (i \in M <=> i \in K)
                      /\ (Fresh(longer, i, M) <=> Fresh(list, i, K))
  BY <1>1 DEF Alike
<1>4. \A i \in 1..(n + 1) : i \in 1..n \/ i = n + 1 BY <1>1
<1>5. Fresh(longer, n + 1, M) <=> fresh OBVIOUS
<1> HIDE DEF n, longer
<1>6. Unfitting(longer, M) <=> Unfitting(list, K) \/ (n + 1 \notin M /\ Well(x) /\ fresh)
  <2>1. Unfitting(longer, M) <=>
          \E i \in 1..(n + 1) : i \notin M /\ Well(longer[i]) /\ Fresh(longer, i, M)
    BY <1>2 DEF Unfitting
  <2>2. Unfitting(list, K) <=> \E i \in 1..n : i \notin K /\ Well(list[i]) /\ Fresh(list, i, K)
    BY <1>1 DEF Unfitting
  <2> QED BY <1>2, <1>3, <1>4, <1>5, <2>1, <2>2
<1>7. Refused(longer, M) <=> Refused(list, K) \/ ~Well(x) \/ ~fresh
  <2>1. Refused(longer, M) <=> \E i \in 1..(n + 1) : ~Well(longer[i]) \/ ~Fresh(longer, i, M)
    BY <1>2 DEF Refused
  <2>2. Refused(list, K) <=> \E i \in 1..n : ~Well(list[i]) \/ ~Fresh(list, i, K)
    BY <1>1 DEF Refused
  <2> QED BY <1>2, <1>3, <1>4, <1>5, <2>1, <2>2
<1> QED BY <1>6, <1>7 DEF n, longer

\* The place of an offer among those of K.
Rank(K, i) == Cardinality({j \in K : j <= i})

LEMMA RankTyped ==
  ASSUME NEW n \in Nat, NEW K \in SUBSET (1..n)
  PROVE  /\ IsFiniteSet(K) /\ Cardinality(K) \in Nat
         /\ \A i \in K : Rank(K, i) \in 1..Cardinality(K)
<1>1. IsFiniteSet(1..n) BY FS_Interval
<1>2. IsFiniteSet(K) /\ Cardinality(K) \in Nat BY <1>1, FS_Subset, FS_CardinalityType
<1>3. ASSUME NEW i \in K PROVE Rank(K, i) \in 1..Cardinality(K)
  <2> DEFINE B == {j \in K : j <= i}
  <2>1. B \subseteq K /\ i \in B OBVIOUS
  <2> HIDE DEF B
  <2>2. IsFiniteSet(B) /\ Cardinality(B) \in Nat /\ Cardinality(B) <= Cardinality(K)
    BY <1>2, <2>1, FS_Subset, FS_CardinalityType
  <2>3. Cardinality(B) # 0 BY <2>1, <2>2, FS_EmptySet
  <2> QED BY <1>2, <2>2, <2>3 DEF Rank, B
<1> QED BY <1>2, <1>3

LEMMA RankAppend ==
  ASSUME NEW n \in Nat, NEW K \in SUBSET (1..n)
  PROVE  LET M == K \union {n + 1}
         IN /\ \A i \in K : Rank(M, i) = Rank(K, i)
            /\ Rank(M, n + 1) = Cardinality(M)
            /\ Cardinality(M) = Cardinality(K) + 1
<1> DEFINE M == K \union {n + 1}
<1>1. ASSUME NEW i \in K PROVE {j \in M : j <= i} = {j \in K : j <= i}
  <2>1. i \in 1..n /\ ~(n + 1 <= i) OBVIOUS
  <2> QED BY <2>1
<1>2. {j \in M : j <= n + 1} = M
  <2>1. \A j \in M : j <= n + 1 OBVIOUS
  <2> QED BY <2>1
<1>3. n + 1 \notin K OBVIOUS
<1>4. Cardinality(M) = Cardinality(K) + 1 BY <1>3, RankTyped, FS_AddElement
<1> HIDE DEF M
<1> QED BY <1>1, <1>2, <1>4 DEF Rank, M

LEMMA CharsInjective ==
  ASSUME NEW s \in Texts, NEW t \in Texts, s.length >= 1, Chars(s) = Chars(t)
  PROVE  s = t
<1>1. s.length = t.length /\ s.length \in Nat BY CharsTyped
<1>2. 1 \in 1..s.length /\ 1 \in 1..t.length BY <1>1
<1>3. Chars(s)[1] = [kind |-> "char", text |-> s.text, at |-> 1, spelled |-> s.spelled]
  BY <1>2 DEF Chars
<1>4. Chars(t)[1] = [kind |-> "char", text |-> t.text, at |-> 1, spelled |-> t.spelled]
  BY <1>2 DEF Chars
<1>5. s.text = t.text /\ s.spelled = t.spelled BY <1>3, <1>4
<1>6. s = [text |-> s.text, length |-> s.length, spelled |-> s.spelled]
      /\ t = [text |-> t.text, length |-> t.length, spelled |-> t.spelled]
  BY TextAssumption
<1> QED BY <1>1, <1>5, <1>6

-----------------------------------------------------------------------------
(* What an event holds of what was offered.                                *)

\* The event holds the offers in K, in their order, and its flags tell of the
\* others.
Content(ev, list, room, K) ==
  /\ Chosen(list, room, K)
  /\ ev.header.fieldCount = Cardinality(K)
  /\ \A i \in K : ParsedFields(ev)[Rank(K, i)] = FieldOf(list[i].type, list[i].name, list[i].value)
  /\ \A p \in 1..Cardinality(K) : \E i \in K : Rank(K, i) = p
  /\ Used(ev) = NameCells(ev) + Filled(list, K)[Len(list)]
  /\ "Truncated" \in ev.header.flags <=> Unfitting(list, K)
  /\ "FieldError" \in ev.header.flags <=> Refused(list, K)

\* HasTraceField finds the names that earlier fields of the event have.
LEMMA RepeatedName ==
  ASSUME NEW ev \in AnyEvent, NEW list \in Offered, NEW room, NEW K, Content(ev, list, room, K),
         NEW name \in Texts, IsValidName(name, "field")
  PROVE  HasTraceField(ev, name) <=> \E i \in K : list[i].name = name
<1>1. K \in SUBSET (1..Len(list)) /\ Len(list) \in Nat BY DEF Content, Chosen, Offered
<1>2. \A i \in K : list[i].name \in Texts
  <2>1. \A i \in K : list[i] \in AnyOffer BY <1>1 DEF Offered
  <2> QED BY <2>1 DEF AnyOffer
<1>3. \A i \in K : list[i].name.length >= 1
  <2>1. \A i \in K : Well(list[i]) BY DEF Content, Chosen
  <2>2. \A i \in K : list[i].name.length \in 1..MaxNameCells BY <2>1 DEF Well, IsValidName
  <2> QED BY <2>2, NameAssumption
<1>4. \A p \in 1..ev.header.fieldCount : ParsedFields(ev)[p].name = FieldName(ev, FieldStarts(ev)[p])
  BY DEF ParsedFields
<1>5. \A i \in K : /\ Rank(K, i) \in 1..ev.header.fieldCount
                   /\ ParsedFields(ev)[Rank(K, i)].name = Chars(list[i].name)
  <2>1. \A i \in K : Rank(K, i) \in 1..Cardinality(K) BY <1>1, RankTyped
  <2>2. ev.header.fieldCount = Cardinality(K) BY DEF Content
  <2>3. \A i \in K :
          ParsedFields(ev)[Rank(K, i)] = FieldOf(list[i].type, list[i].name, list[i].value)
    BY DEF Content
  <2>4. ASSUME NEW i \in K PROVE ParsedFields(ev)[Rank(K, i)].name = Chars(list[i].name)
    <3>1. FieldOf(list[i].type, list[i].name, list[i].value).name = Chars(list[i].name) BY DEF FieldOf
    <3> QED BY <2>3, <3>1
  <2> QED BY <2>1, <2>2, <2>4
<1>6. ASSUME NEW i \in K, list[i].name = name PROVE HasTraceField(ev, name)
  BY <1>4, <1>5, <1>6 DEF HasTraceField
<1>7. ASSUME HasTraceField(ev, name) PROVE \E i \in K : list[i].name = name
  <2>1. PICK p \in 1..ev.header.fieldCount : FieldName(ev, FieldStarts(ev)[p]) = Chars(name)
    BY <1>7 DEF HasTraceField
  <2>2. PICK i \in K : Rank(K, i) = p BY DEF Content
  <2>3. Chars(list[i].name) = Chars(name) BY <1>4, <1>5, <2>1, <2>2
  <2>4. list[i].name = name BY <1>2, <1>3, <2>3, CharsInjective
  <2> QED BY <2>4
<1> QED BY <1>6, <1>7

\* One more offer, and what AppendTraceField makes of it.
LEMMA ContentAppend ==
  ASSUME NEW ev \in AnyEvent, ParseAccepts(ev),
         NEW list \in Offered, NEW K, Content(ev, list, PayloadCells - NameCells(ev), K),
         NEW type \in FieldTypes, NEW name \in Texts, NEW value, Fitting(type, value)
  PROVE  LET new == AppendTraceField(ev, type, name, value)
             x == [type |-> type, name |-> name, value |-> value]
         IN \E M : Content(new, Append(list, x), PayloadCells - NameCells(ev), M)
<1> DEFINE new == AppendTraceField(ev, type, name, value)
           x == [type |-> type, name |-> name, value |-> value]
           n == Len(list)
           longer == Append(list, x)
           room == PayloadCells - NameCells(ev)
           fresh == \A j \in K : list[j].name # x.name
           fits == Filled(list, K)[n] + Weight(x) <= room
           M == IF Well(x) /\ fresh /\ fits THEN K \union {n + 1} ELSE K
           c == Cardinality(K)
<1>1. x \in AnyOffer /\ x.type = type /\ x.name = name /\ x.value = value BY DEF AnyOffer, Fitting
<1> HIDE DEF x
<1>2. Chosen(list, room, K) BY DEF Content
<1>3. /\ longer \in Offered /\ Chosen(longer, room, M) /\ Alike(list, K, longer, M, n)
      /\ \A i \in 1..n : Fresh(longer, i, M) <=> Fresh(list, i, K)
      /\ Fresh(longer, n + 1, M) <=> fresh
      /\ Filled(longer, M)[n + 1] = Filled(list, K)[n] + (IF n + 1 \in M THEN Weight(x) ELSE 0)
      /\ n + 1 \in M <=> Well(x) /\ fresh /\ fits
  <2> HIDE DEF room
  <2> QED BY <1>1, <1>2, ChosenAppend
<1>4. n \in Nat /\ DOMAIN list = 1..n /\ DOMAIN longer = 1..(n + 1) /\ Len(longer) = n + 1
      /\ (\A i \in 1..n : longer[i] = list[i]) /\ longer[n + 1] = x
  BY <1>1 DEF Offered
<1>5. K \in SUBSET (1..n) /\ M \in SUBSET (1..(n + 1)) BY <1>2, <1>3, <1>4 DEF Chosen
<1>6. /\ Used(ev) \in Nat /\ NameCells(ev) \in Nat /\ PayloadCells \in Nat /\ Weight(x) \in Nat
      /\ Weight(x) = 1 + name.length + Len(value) /\ name.length \in Nat /\ Len(value) \in Nat
      /\ Filled(list, K)[n] \in Nat /\ Used(ev) = NameCells(ev) + Filled(list, K)[n]
  <2>1. Used(ev) \in Nat /\ NameCells(ev) \in Nat BY AcceptedSizes, PayloadSize
  <2>2. Weight(x) = 1 + name.length + Len(value) BY <1>1 DEF Weight
  <2>3. name.length \in Nat BY CharsTyped
  <2>4. Len(value) \in Nat BY DEF Fitting, Values
  <2>5. Filled(list, K)[n] \in Nat
    <3>1. n \in 0..Len(list) BY <1>4
    <3> QED BY <3>1, FilledUnfold
  <2>6. Used(ev) = NameCells(ev) + Filled(list, K)[n] BY DEF Content
  <2> QED BY <1>1, <2>1, <2>2, <2>3, <2>4, <2>5, <2>6, PayloadSize, WeightTyped
<1>7. fits <=> Used(ev) + 1 + name.length + Len(value) <= PayloadCells
  <2>1. PICK f \in Nat : f = Filled(list, K)[n] BY <1>6
  <2>2. PICK w \in Nat : w = Weight(x) BY <1>6
  <2>3. f + w <= PayloadCells - NameCells(ev) <=> Used(ev) + 1 + name.length + Len(value) <= PayloadCells
    <3> HIDE DEF n, x
    <3>1. Used(ev) = NameCells(ev) + f /\ w = 1 + name.length + Len(value) BY <1>6, <2>1, <2>2
    <3>2. PICK u \in Nat, m \in Nat, p \in Nat : u = Used(ev) /\ m = NameCells(ev) /\ p = PayloadCells
      BY <1>6
    <3>3. PICK l \in Nat, v \in Nat : l = name.length /\ v = Len(value) BY <1>6
    <3>4. u = m + f /\ w = 1 + l + v BY <3>1, <3>2, <3>3
    <3>5. f + w <= p - m <=> u + 1 + l + v <= p BY <3>4
    <3> QED BY <3>2, <3>3, <3>5
  <2> QED BY <2>1, <2>2, <2>3
<1>8. Well(x) <=> IsValidName(name, "field") BY <1>1 DEF Well
<1>9. Well(x) => (HasTraceField(ev, name) <=> ~fresh)
  <2> HIDE DEF room
  <2> QED BY <1>1, <1>8, RepeatedName
<1>10. /\ Unfitting(longer, M) <=> Unfitting(list, K) \/ (n + 1 \notin M /\ Well(x) /\ fresh)
       /\ Refused(longer, M) <=> Refused(list, K) \/ ~Well(x) \/ ~fresh
  <2>1. fresh \in BOOLEAN OBVIOUS
  <2> HIDE DEF fresh, M
  <2> QED BY <1>1, <1>3, <1>5, <2>1, MissingAppend
<1>11. /\ new \in AnyEvent
       /\ IF ~Well(x) \/ ~fresh THEN Flagged(ev, new, "FieldError")
          ELSE IF ~fits THEN Flagged(ev, new, "Truncated")
          ELSE Added(ev, new, type, name, value)
  <2>1. ev.header.magic BY DEF ParseAccepts
  <2>2. /\ new \in AnyEvent
        /\ IF ~IsValidName(name, "field") \/ HasTraceField(ev, name)
           THEN Flagged(ev, new, "FieldError")
           ELSE IF ~(Used(ev) + 1 + name.length + Len(value) <= PayloadCells)
           THEN Flagged(ev, new, "Truncated")
           ELSE Added(ev, new, type, name, value)
    BY <2>1, AppendOutcome
  <2> HIDE DEF new, fits, fresh
  <2> QED BY <1>7, <1>8, <1>9, <2>2
<1>12. c \in Nat /\ ev.header.fieldCount = c /\ (\A i \in K : Rank(K, i) \in 1..c)
  BY <1>4, <1>5, RankTyped DEF Content
<1>13. ev.header \in Headers BY DEF AnyEvent
<1>14. \A i \in K : ParsedFields(ev)[Rank(K, i)] = FieldOf(list[i].type, list[i].name, list[i].value)
  BY DEF Content
<1>15. \A p \in 1..c : \E i \in K : Rank(K, i) = p BY DEF Content
<1>16. /\ "Truncated" \in ev.header.flags <=> Unfitting(list, K)
       /\ "FieldError" \in ev.header.flags <=> Refused(list, K)
  BY DEF Content
<1> HIDE DEF new, n, longer, fits, fresh, room, c
<1>17. CASE Well(x) /\ fresh /\ fits
  <2>1. M = K \union {n + 1} /\ n + 1 \in M BY <1>17
  <2> HIDE DEF M
  <2>2. Added(ev, new, type, name, value) BY <1>11, <1>17
  <2>3. Cardinality(M) = c + 1 /\ Rank(M, n + 1) = c + 1 /\ \A i \in K : Rank(M, i) = Rank(K, i)
    BY <1>4, <1>5, <2>1, RankAppend DEF c
  <2>4. /\ new.header.fieldCount = c + 1 /\ new.header.flags = ev.header.flags
        /\ new.header.size = ev.header.size + (1 + name.length + Len(value))
        /\ new.header.moduleNameLength = ev.header.moduleNameLength
        /\ new.header.apiNameLength = ev.header.apiNameLength
    BY <1>12, <1>13, <2>2 DEF Added, LongerHeader, Headers
  <2>5. new.header.fieldCount = Cardinality(M) BY <2>3, <2>4
  <2>6. ASSUME NEW i \in M
        PROVE  ParsedFields(new)[Rank(M, i)] = FieldOf(longer[i].type, longer[i].name, longer[i].value)
    <3>1. CASE i \in K
      <4>1. Rank(M, i) = Rank(K, i) /\ Rank(K, i) \in 1..ev.header.fieldCount BY <1>12, <2>3, <3>1
      <4>2. ParsedFields(new)[Rank(K, i)] = ParsedFields(ev)[Rank(K, i)] BY <2>2, <4>1 DEF Added
      <4>3. longer[i] = list[i] BY <1>4, <1>5, <3>1
      <4> QED BY <1>14, <3>1, <4>1, <4>2, <4>3
    <3>2. CASE i = n + 1
      <4>1. ParsedFields(new)[c + 1] = FieldOf(type, name, value) BY <1>12, <2>2 DEF Added
      <4> QED BY <1>1, <1>4, <2>3, <3>2, <4>1
    <3> QED BY <2>1, <3>1, <3>2
  <2>7. ASSUME NEW p \in 1..Cardinality(M) PROVE \E i \in M : Rank(M, i) = p
    <3>1. CASE p = c + 1 BY <2>1, <2>3, <3>1
    <3>2. CASE p # c + 1
      <4>1. p \in 1..c BY <1>12, <2>3, <3>2
      <4>2. PICK i \in K : Rank(K, i) = p BY <1>15, <4>1
      <4> QED BY <2>1, <2>3, <4>2
    <3> QED BY <3>1, <3>2
  <2>8. Used(new) = NameCells(new) + Filled(longer, M)[Len(longer)]
    <3>1. NameCells(new) = NameCells(ev) BY <2>4 DEF NameCells
    <3>2. ev.header.size \in Nat BY <1>13 DEF Headers
    <3>3. Used(new) = Used(ev) + Weight(x)
      <4>1. PICK w \in Nat : w = Weight(x) BY <1>6
      <4>2. new.header.size = ev.header.size + w BY <1>6, <2>4, <4>1
      <4>3. (ev.header.size + w) - HeaderCells = (ev.header.size - HeaderCells) + w
        BY <3>2 DEF HeaderCells
      <4> QED BY <4>1, <4>2, <4>3 DEF Used
    <3>4. Filled(longer, M)[Len(longer)] = Filled(list, K)[n] + Weight(x) BY <1>3, <1>4, <2>1
    <3> QED BY <1>6, <3>1, <3>3, <3>4
  <2>9. /\ "Truncated" \in new.header.flags <=> Unfitting(longer, M)
        /\ "FieldError" \in new.header.flags <=> Refused(longer, M)
    BY <1>10, <1>16, <1>17, <2>1, <2>4
  <2>10. Content(new, longer, room, M) BY <1>3, <2>5, <2>6, <2>7, <2>8, <2>9 DEF Content
  <2> QED BY <2>10 DEF new, longer, room, x
<1>18. CASE ~(Well(x) /\ fresh /\ fits)
  <2>1. M = K /\ n + 1 \notin M BY <1>3, <1>18
  <2> HIDE DEF M
  <2>2. PICK flag \in {"Truncated", "FieldError"} :
          Flagged(ev, new, flag) /\ (flag = "FieldError" <=> ~Well(x) \/ ~fresh)
    BY <1>11, <1>18
  <2>3. /\ new.header.fieldCount = c /\ new.header.flags = ev.header.flags \union {flag}
        /\ new.header.size = ev.header.size
        /\ new.header.moduleNameLength = ev.header.moduleNameLength
        /\ new.header.apiNameLength = ev.header.apiNameLength
    BY <1>12, <1>13, <2>2 DEF Flagged, Headers
  <2>4. ParsedFields(new) = ParsedFields(ev) BY <2>2 DEF Flagged
  <2>5. new.header.fieldCount = Cardinality(M) BY <2>1, <2>3 DEF c
  <2>6. ASSUME NEW i \in M
        PROVE  ParsedFields(new)[Rank(M, i)] = FieldOf(longer[i].type, longer[i].name, longer[i].value)
    <3>1. longer[i] = list[i] BY <1>4, <1>5, <2>1
    <3> QED BY <1>14, <2>1, <2>4, <3>1
  <2>7. \A p \in 1..Cardinality(M) : \E i \in M : Rank(M, i) = p BY <1>15, <2>1 DEF c
  <2>8. Used(new) = NameCells(new) + Filled(longer, M)[Len(longer)]
    <3>1. NameCells(new) = NameCells(ev) BY <2>3 DEF NameCells
    <3>2. Used(new) = Used(ev) BY <2>3 DEF Used
    <3>3. Filled(longer, M)[Len(longer)] = Filled(list, K)[n] BY <1>3, <1>4, <1>6, <2>1
    <3> QED BY <1>6, <3>1, <3>2, <3>3
  <2>9. /\ "Truncated" \in new.header.flags <=> Unfitting(longer, M)
        /\ "FieldError" \in new.header.flags <=> Refused(longer, M)
    BY <1>10, <1>16, <2>1, <2>2, <2>3
  <2>10. Content(new, longer, room, M) BY <1>3, <2>5, <2>6, <2>7, <2>8, <2>9 DEF Content
  <2> QED BY <2>10 DEF new, longer, room, x
<1> QED BY <1>17, <1>18 DEF new, longer, room, x

ContentInv == event.header.magic => Content(event, offers, Room, Kept)

LEMMA ContentInitialize ==
  ASSUME NEW module \in Modules, NEW api \in Apis, InitializeTraceEvent(module, api)
  PROVE  ContentInv'
<1> SUFFICES ASSUME event'.header.magic PROVE Content(event', offers', Room', Kept')
  BY DEF ContentInv
<1>1. event' = Initialized(module, api) /\ offers' = <<>> BY DEF InitializeTraceEvent
<1>2. /\ event' \in AnyEvent /\ event'.header.fieldCount = 0 /\ event'.header.flags = {}
      /\ Used(event') = NameCells(event')
  BY <1>1, InitializedAccepted
<1>3. offers' \in Offered /\ DOMAIN offers' = {} /\ Len(offers') = 0 BY <1>1 DEF Offered
<1>4. Chosen(offers', Room', {}) BY <1>3 DEF Chosen
<1>5. Kept' = {} BY <1>3, <1>4, ChosenIsKept DEF Kept
<1>6. Cardinality({}) = 0 BY FS_EmptySet
<1>7. Filled(offers', {})[0] = 0 BY <1>3, FilledUnfold
<1>8. NameCells(event') \in Nat BY <1>2 DEF AnyEvent, Headers, NameCells
<1>9. ~Unfitting(offers', {}) /\ ~Refused(offers', {}) BY <1>3 DEF Unfitting, Refused
<1>10. 1..Cardinality({}) = {} BY <1>6
<1>11. Used(event') = NameCells(event') + Filled(offers', {})[Len(offers')] BY <1>2, <1>3, <1>7, <1>8
<1> QED BY <1>2, <1>4, <1>5, <1>6, <1>9, <1>10, <1>11 DEF Content

LEMMA ContentOffer ==
  ASSUME EventInv, ContentInv, NEW type \in FieldTypes, NEW name \in Texts, NEW value,
         Fitting(type, value), Offer(type, name, value)
  PROVE  ContentInv'
<1> SUFFICES ASSUME event'.header.magic PROVE Content(event', offers', Room', Kept')
  BY DEF ContentInv
<1> DEFINE x == [type |-> type, name |-> name, value |-> value]
<1>1. event' = AppendTraceField(event, type, name, value) /\ offers' = Append(offers, x)
  BY DEF Offer
<1>2. event \in AnyEvent /\ event.header \in Headers /\ offers \in Offered
  BY DEF EventInv, Sound, AnyEvent, OffersInv, Offered
<1>3. /\ event' \in AnyEvent
      /\ \/ \E flag \in {"Truncated", "FieldError"} : Flagged(event, event', flag)
         \/ Added(event, event', type, name, value)
  <2>1. event.header.magic => ParseAccepts(event) BY DEF EventInv, Sound
  <2> QED BY <1>1, <1>2, <2>1, AppendOutcome
<1>4. /\ event.header.magic = event'.header.magic
      /\ event'.header.moduleNameLength = event.header.moduleNameLength
      /\ event'.header.apiNameLength = event.header.apiNameLength
  BY <1>2, <1>3 DEF Flagged, Added, LongerHeader, Headers
<1>5. NameCells(event') = NameCells(event) BY <1>4 DEF NameCells
<1>6. Room' = PayloadCells - NameCells(event) /\ Room = PayloadCells - NameCells(event)
  <2>1. Room' = PayloadCells - NameCells(event') BY DEF Room, PayloadCells
  <2>2. Room = PayloadCells - NameCells(event) BY DEF Room, PayloadCells
  <2> QED BY <1>5, <2>1, <2>2
<1>7. ParseAccepts(event) BY <1>4 DEF EventInv, Sound
<1>8. Content(event, offers, PayloadCells - NameCells(event), Kept) BY <1>4, <1>6 DEF ContentInv
<1>9. PICK M : Content(event', offers', Room', M)
  <2>1. PICK K : K = Kept OBVIOUS
  <2>2. Content(event, offers, PayloadCells - NameCells(event), K) BY <1>8, <2>1
  <2>3. \E M : Content(AppendTraceField(event, type, name, value), Append(offers, x),
                       PayloadCells - NameCells(event), M)
    BY <1>2, <1>7, <2>2, ContentAppend
  <2> QED BY <1>1, <1>6, <2>3
<1>10. offers' \in Offered
  <2>1. x \in AnyOffer BY DEF AnyOffer, Fitting
  <2> HIDE DEF x
  <2> QED BY <1>1, <1>2, <2>1 DEF Offered
<1>11. Chosen(offers', Room', M) BY <1>9 DEF Content
<1>12. Kept' = M BY <1>10, <1>11, ChosenIsKept DEF Kept
<1> QED BY <1>9, <1>12

\* With every event that is published the choice of the offers is settled.
THEOREM ContentInvHolds == Spec => [](EventInv /\ ContentInv)
<1>1. Init => EventInv /\ ContentInv
  <2>1. Init => ~event.header.magic BY DEF Init, NoHeader
  <2> QED BY <2>1, EventInvInit DEF ContentInv
<1>2. EventInv /\ ContentInv /\ [Next]_vars => ContentInv'
  <2> SUFFICES ASSUME EventInv, ContentInv, [Next]_vars PROVE ContentInv' OBVIOUS
  <2>1. CASE event' = event /\ offers' = offers
    BY <2>1 DEF ContentInv, Room, Kept
  <2>2. CASE Next
    <3>1. ASSUME NEW module \in Modules, NEW api \in Apis, InitializeTraceEvent(module, api)
          PROVE  ContentInv'
      BY <3>1, ContentInitialize
    <3>2. ASSUME NEW type \in FieldTypes, NEW name \in Texts, NEW value \in Values,
                 Fitting(type, value), Offer(type, name, value)
          PROVE  ContentInv'
      BY <3>2, ContentOffer
    <3>3. CASE EmitTraceEvent BY <2>1, <3>3 DEF EmitTraceEvent
    <3>4. CASE ReceiveEvent BY <2>1, <3>4 DEF ReceiveEvent
    <3> QED BY <2>2, <3>1, <3>2, <3>3, <3>4, NextCases
  <2>3. CASE UNCHANGED vars BY <2>1, <2>3 DEF vars
  <2> QED BY <2>2, <2>3
<1> QED BY <1>1, <1>2, EventInvInductive, PTL DEF Spec

\* What was rendered is the event, and the event is complete.
LEMMA ShownIsEvent ==
  ASSUME EventInv, ContentInv, NEW shown \in Range(received)
  PROVE  shown = Rendered(event) /\ Content(event, offers, Room, Kept)
<1>1. IF phase = "received" THEN event.header.magic /\ received = <<Rendered(event)>> ELSE received = <<>>
  BY DEF EventInv, PhaseInv
<1>2. CASE phase = "received"
  <2>1. PICK r : r = Rendered(event) OBVIOUS
  <2>2. received = <<r>> BY <1>1, <1>2, <2>1
  <2>3. shown = r BY <2>2 DEF Range
  <2> QED BY <1>1, <1>2, <2>1, <2>3 DEF ContentInv
<1>3. CASE phase # "received"
  <2>1. received = <<>> BY <1>1, <1>3
  <2> QED BY <2>1 DEF Range
<1> QED BY <1>2, <1>3

\* The fields shown are the offers that belong in the event, in the order of
\* the calls, with the values of this event.
THEOREM RenderedAsOfferedHolds == Spec => []RenderedAsOffered
<1>1. EventInv /\ ContentInv => RenderedAsOffered
  <2> SUFFICES ASSUME EventInv, ContentInv, NEW shown \in Range(received)
               PROVE  /\ Len(shown.fields) = Cardinality(Kept)
                      /\ \A i \in Kept :
                           LET field == shown.fields[Cardinality({j \in Kept : j <= i})]
                               preview == offers[i].type = "Bytes"
                           IN /\ field.name = Chars(offers[i].name)
                              /\ field.value = IF preview THEN Tail(offers[i].value) ELSE offers[i].value
                              /\ field.cut <=>
                                   preview /\ Len(offers[i].value) - 1 # offers[i].value[1].requested
    BY DEF RenderedAsOffered
  <2> DEFINE c == Cardinality(Kept)
  <2>1. shown = Rendered(event) /\ Content(event, offers, Room, Kept) BY ShownIsEvent
  <2>2. offers \in Offered /\ Kept \in SUBSET (1..Len(offers)) /\ Len(offers) \in Nat
        /\ \A i \in Kept : Fitting(offers[i].type, offers[i].value)
    BY <2>1 DEF EventInv, OffersInv, Offered, Content, Chosen
  <2>3. c \in Nat /\ event.header.fieldCount = c /\ \A i \in Kept : Rank(Kept, i) \in 1..c
    BY <2>1, <2>2, RankTyped DEF Content
  <2>4. shown.fields = [i \in 1..c |-> Shown(ParsedFields(event)[i])] BY <2>1, <2>3 DEF Rendered
  <2> HIDE DEF c
  <2>5. Len(shown.fields) = c BY <2>3, <2>4
  <2>6. ASSUME NEW i \in Kept
        PROVE  LET field == shown.fields[Cardinality({j \in Kept : j <= i})]
                   preview == offers[i].type = "Bytes"
               IN /\ field.name = Chars(offers[i].name)
                  /\ field.value = IF preview THEN Tail(offers[i].value) ELSE offers[i].value
                  /\ field.cut <=> preview /\ Len(offers[i].value) - 1 # offers[i].value[1].requested
    <3> DEFINE type == offers[i].type
               value == offers[i].value
               f == FieldOf(type, offers[i].name, value)
    <3>1. shown.fields[Rank(Kept, i)] = Shown(f)
      <4>1. ParsedFields(event)[Rank(Kept, i)] = f BY <2>1 DEF Content
      <4> QED BY <2>3, <2>4, <4>1
    <3>2. f.type = type /\ f.name = Chars(offers[i].name) /\ f.value = value BY DEF FieldOf
    <3>3. Fitting(type, value) BY <2>2
    <3> HIDE DEF f, type, value
    <3>4. /\ Shown(f).name = Chars(offers[i].name)
          /\ Shown(f).value = IF type = "Bytes" THEN Tail(value) ELSE value
          /\ Shown(f).cut <=> type = "Bytes" /\ value[1].captured < value[1].requested
      BY <3>2 DEF Shown
    <3>5. type = "Bytes" => (value[1].captured < value[1].requested <=> Len(value) - 1 # value[1].requested)
      <4> SUFFICES ASSUME type = "Bytes"
                   PROVE  value[1].captured < value[1].requested <=> Len(value) - 1 # value[1].requested
        OBVIOUS
      <4>1. /\ Len(value) >= 1 /\ value[1].kind = "bytes"
            /\ value[1].captured <= value[1].requested /\ Len(value) = 1 + value[1].captured
            /\ value \in Seq(AnyCell)
        BY <3>3 DEF Fitting, Values, HasExpectedValueSize
      <4>2. value[1] \in AnyCell BY <4>1
      <4>3. value[1].captured \in Nat /\ value[1].requested \in Nat
        BY <4>1, <4>2 DEF AnyCell, Zero, CharCells, FieldCells, BytesCells, ValueCells, BooleanCells
      <4>4. PICK k \in Nat, r \in Nat : k = value[1].captured /\ r = value[1].requested BY <4>3
      <4>5. PICK l : l = Len(value) OBVIOUS
      <4>6. k <= r /\ l = 1 + k BY <4>1, <4>4, <4>5
      <4>7. k < r <=> l - 1 # r BY <4>6
      <4> QED BY <4>4, <4>5, <4>7
    <3> QED BY <3>1, <3>4, <3>5 DEF Rank, type, value
  <2> QED BY <2>5, <2>6 DEF c
<1> QED BY <1>1, ContentInvHolds, PTL

\* A field that is missing is told.
THEOREM FlagsTellMissingHolds == Spec => []FlagsTellMissing
<1>1. EventInv /\ ContentInv => FlagsTellMissing
  <2> SUFFICES ASSUME EventInv, ContentInv, NEW shown \in Range(received)
               PROVE  /\ shown.truncated <=>
                           \E i \in DOMAIN offers \ Kept : Well(offers[i]) /\ Fresh(offers, i, Kept)
                      /\ shown.fieldError <=>
                           \E i \in DOMAIN offers : ~Well(offers[i]) \/ ~Fresh(offers, i, Kept)
    BY DEF FlagsTellMissing
  <2>1. shown = Rendered(event) /\ Content(event, offers, Room, Kept) BY ShownIsEvent
  <2>2. /\ shown.truncated <=> "Truncated" \in event.header.flags
        /\ shown.fieldError <=> "FieldError" \in event.header.flags
    BY <2>1 DEF Rendered
  <2> QED BY <2>1, <2>2 DEF Content, Unfitting, Refused
<1> QED BY <1>1, ContentInvHolds, PTL
=============================================================================
