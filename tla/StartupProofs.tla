---------------------------- MODULE StartupProofs ----------------------------
(***************************************************************************)
(* Proofs about Startup: whatever the command lines, whichever call of the *)
(* set-up fails and whichever releases fail with it, what the session owns *)
(* at each call is what the calls before it got, each call's undo list     *)
(* releases what no field names yet, and CleanupRemote the rest.           *)
(***************************************************************************)
EXTENDS CommandLineProofs

-----------------------------------------------------------------------------
(* The list of calls.                                                      *)

Things == Remote \union Local \union TransportExports

LEMMA UndoLists ==
  /\ MapperFails = <<"localImage", "image", "buffer">>
  /\ ReleaseLocalRing = <<"wakeEvent", "view", "section">>
  /\ StartFails \in Seq(Things) /\ Len(StartFails) = 4
  /\ StartFails[1] = "ring" /\ StartFails[2] = "wakeEvent" /\ StartFails[3] = "view"
  /\ StartFails[4] = "section"
  BY DEF MapperFails, ReleaseLocalRing, StartFails, Things, Remote, Local


IsList(s, n) == n \in Nat /\ Len(s) = n /\ \E S : s \in Seq(S)

LEMMA Tuples ==
  ASSUME NEW a, NEW b, NEW c, NEW d, NEW e, NEW f, NEW g, NEW h
  PROVE  /\ IsList(<<a>>, 1) /\ IsList(<<a, b>>, 2) /\ IsList(<<a, b, c>>, 3)
         /\ IsList(<<a, b, c, d>>, 4) /\ IsList(<<a, b, c, d, e>>, 5)
         /\ IsList(<<a, b, c, d, e, f>>, 6) /\ IsList(<<a, b, c, d, e, f, g, h>>, 8)
<1> DEFINE S == {a, b, c, d, e, f, g, h}
<1>1. <<a>> \in Seq(S) /\ <<a, b>> \in Seq(S) /\ <<a, b, c>> \in Seq(S) OBVIOUS
<1>2. <<a, b, c, d>> \in Seq(S) /\ <<a, b, c, d, e>> \in Seq(S) OBVIOUS
<1>3. <<a, b, c, d, e, f>> \in Seq(S) /\ <<a, b, c, d, e, f, g, h>> \in Seq(S) OBVIOUS
<1> HIDE DEF S
<1> QED BY <1>1, <1>2, <1>3 DEF IsList

IsJoin(u, s, m, t, n) ==
  /\ IsList(u, m + n)
  /\ \A i \in 1..m : u[i] = s[i]
  /\ \A i \in 1..n : u[m + i] = t[i]

LEMMA Joined ==
  ASSUME NEW s, NEW t, NEW m, NEW n, IsList(s, m), IsList(t, n)
  PROVE  IsJoin(s \o t, s, m, t, n)
<1>1. PICK S : s \in Seq(S) BY DEF IsList
<1>2. PICK T : t \in Seq(T) BY DEF IsList
<1>3. s \in Seq(S \union T) /\ t \in Seq(S \union T) BY <1>1, <1>2
<1>4. m \in Nat /\ n \in Nat /\ Len(s) = m /\ Len(t) = n BY DEF IsList
<1>5. /\ s \o t \in Seq(S \union T) /\ Len(s \o t) = m + n
      /\ \A i \in 1..(m + n) : (s \o t)[i] = IF i <= m THEN s[i] ELSE t[i - m]
  BY <1>3, <1>4, ConcatProperties
<1>6. IsList(s \o t, m + n) BY <1>4, <1>5 DEF IsList
<1>7. \A i \in 1..m : (s \o t)[i] = s[i] BY <1>4, <1>5
<1>8. ASSUME NEW i \in 1..n PROVE (s \o t)[m + i] = t[i]
  <2>1. m + i \in 1..(m + n) /\ ~(m + i <= m) /\ (m + i) - m = i BY <1>4
  <2> QED BY <1>5, <2>1
<1> QED BY <1>6, <1>7, <1>8 DEF IsJoin

LEMMA Lists ==
  /\ IsList(InjectDll, 6) /\ IsList(ReflectiveDLLInject, 8) /\ IsList(GetRemoteImageSize, 1)
  /\ IsList(CreateSharedRing, 5) /\ \A b : IsList(Bypass(b), 4)
  BY Tuples DEF InjectDll, ReflectiveDLLInject, GetRemoteImageSize, CreateSharedRing, Bypass


\* Start's calls and ConfigureTransport's, and where each function's calls
\* stand among all.
LEMMA StartCalls ==
  /\ IsList(Start, 11)
  /\ Start[1] = Check(<<>>) /\ Start[2] = Check(<<>>)
  /\ \A i \in 1..5 : Start[2 + i] = CreateSharedRing[i]
  /\ Start[8] = Write("TransportRing", StartFails)
  /\ Start[9] = Write("TransportWakeEvent", StartFails)
  /\ Start[10] = Check(StartFails)
  /\ Start[11] = Known(Call({"threads"}, <<>>))
<1> DEFINE A == <<Check(<<>>), Check(<<>>)>>
           B == <<Write("TransportRing", StartFails), Write("TransportWakeEvent", StartFails),
                  Check(StartFails)>>
           C == <<Known(Call({"threads"}, <<>>))>>
<1>1. IsList(A, 2) /\ IsList(B, 3) /\ IsList(C, 1) BY Tuples
<1>2. A[1] = Check(<<>>) /\ A[2] = Check(<<>>) OBVIOUS
<1>3. /\ B[1] = Write("TransportRing", StartFails) /\ B[2] = Write("TransportWakeEvent", StartFails)
      /\ B[3] = Check(StartFails)
  OBVIOUS
<1>4. C[1] = Known(Call({"threads"}, <<>>)) OBVIOUS
<1> DEFINE U == A \o CreateSharedRing
           V == U \o B
<1>5. Start = V \o C BY DEF Start
<1> HIDE DEF A, B, C
<1>6. IsJoin(U, A, 2, CreateSharedRing, 5) BY <1>1, Lists, Joined
<1> HIDE DEF U
<1>7. /\ IsList(U, 7) /\ U[1] = A[1] /\ U[2] = A[2]
      /\ \A i \in 1..5 : U[2 + i] = CreateSharedRing[i]
  <2>1. /\ IsList(U, 2 + 5) /\ \A i \in 1..2 : U[i] = A[i]
        /\ \A i \in 1..5 : U[2 + i] = CreateSharedRing[i]
    BY <1>6 DEF IsJoin
  <2> QED BY <2>1
<1>8. IsJoin(V, U, 7, B, 3) BY <1>1, <1>7, Joined
<1> HIDE DEF V
<1>9. /\ IsList(V, 10)
      /\ \A i \in 1..7 : V[i] = U[i]
      /\ \A i \in 1..3 : V[7 + i] = B[i]
  BY <1>8 DEF IsJoin
<1>10. IsJoin(Start, V, 10, C, 1) BY <1>1, <1>5, <1>9, Joined
<1>11. /\ IsList(Start, 11)
       /\ \A i \in 1..10 : Start[i] = V[i]
       /\ \A i \in 1..1 : Start[10 + i] = C[i]
  BY <1>10 DEF IsJoin
<1>12. Start[1] = A[1] /\ Start[2] = A[2] BY <1>7, <1>9, <1>11
<1>13. ASSUME NEW i \in 1..5 PROVE Start[2 + i] = CreateSharedRing[i]
  <2>1. 2 + i \in 1..7 /\ 2 + i \in 1..10 OBVIOUS
  <2> QED BY <1>7, <1>9, <1>11, <2>1
<1>14. Start[8] = B[1] /\ Start[9] = B[2] /\ Start[10] = B[3]
  <2>1. 7 + 1 = 8 /\ 7 + 2 = 9 /\ 7 + 3 = 10 OBVIOUS
  <2>2. 8 \in 1..10 /\ 9 \in 1..10 /\ 10 \in 1..10 OBVIOUS
  <2>3. 1 \in 1..3 /\ 2 \in 1..3 /\ 3 \in 1..3 OBVIOUS
  <2> QED BY <1>9, <1>11, <2>1, <2>2, <2>3
<1>15. Start[11] = C[1]
  <2>1. 10 + 1 = 11 /\ 1 \in 1..1 OBVIOUS
  <2> QED BY <1>11, <2>1
<1> QED BY <1>2, <1>3, <1>4, <1>11, <1>12, <1>13, <1>14, <1>15

LEMMA TransportCalls ==
  /\ IsList(ConfigureTransport, 10)
  /\ \A i \in 1..4 : ConfigureTransport[i] = Bypass("setEventBypass")[i]
  /\ \A i \in 1..4 : ConfigureTransport[4 + i] = Bypass("readMemoryBypass")[i]
  /\ ConfigureTransport[9] = Write("TransportNtSetEvent", <<>>)
  /\ ConfigureTransport[10] = Write("TransportNtReadVirtualMemory", <<>>)
<1> DEFINE A == Bypass("setEventBypass")
           B == Bypass("readMemoryBypass")
           C == <<Write("TransportNtSetEvent", <<>>), Write("TransportNtReadVirtualMemory", <<>>)>>
           U == A \o B
<1>1. IsList(A, 4) /\ IsList(B, 4) /\ IsList(C, 2) BY Tuples, Lists
<1>2. /\ C[1] = Write("TransportNtSetEvent", <<>>)
      /\ C[2] = Write("TransportNtReadVirtualMemory", <<>>)
  OBVIOUS
<1>3. ConfigureTransport = U \o C BY DEF ConfigureTransport
<1> HIDE DEF A, B, C
<1>4. IsJoin(U, A, 4, B, 4) BY <1>1, Joined
<1> HIDE DEF U
<1>5. /\ IsList(U, 8) /\ \A i \in 1..4 : U[i] = A[i] /\ U[4 + i] = B[i]
  BY <1>4 DEF IsJoin
<1>6. IsJoin(ConfigureTransport, U, 8, C, 2) BY <1>1, <1>3, <1>5, Joined
<1>7. /\ IsList(ConfigureTransport, 10)
      /\ \A i \in 1..8 : ConfigureTransport[i] = U[i]
      /\ \A i \in 1..2 : ConfigureTransport[8 + i] = C[i]
  BY <1>6 DEF IsJoin
<1>8. \A i \in 1..4 : ConfigureTransport[i] = A[i] /\ ConfigureTransport[4 + i] = B[i]
  BY <1>5, <1>7
<1>9. ConfigureTransport[9] = C[1] /\ ConfigureTransport[10] = C[2]
  <2>1. 8 + 1 = 9 /\ 8 + 2 = 10 /\ 1 \in 1..2 /\ 2 \in 1..2 OBVIOUS
  <2> QED BY <1>7, <2>1
<1> QED BY <1>2, <1>7, <1>8, <1>9 DEF A, B

\* The five functions, one after the other.
LEMMA CallsInOrder ==
  /\ IsList(SetupCalls, 36)
  /\ \A i \in 1..6 : SetupCalls[i] = InjectDll[i]
  /\ \A i \in 1..8 : SetupCalls[6 + i] = ReflectiveDLLInject[i]
  /\ SetupCalls[15] = GetRemoteImageSize[1]
  /\ \A i \in 1..11 : SetupCalls[15 + i] = Start[i]
  /\ \A i \in 1..10 : SetupCalls[26 + i] = ConfigureTransport[i]
  /\ OpenOutputCall = 17
<1> DEFINE U == InjectDll \o ReflectiveDLLInject
           V == U \o GetRemoteImageSize
           W == V \o Start
<1>1. SetupCalls = W \o ConfigureTransport BY DEF SetupCalls
<1>2. OpenOutputCall = Len(V) + 2 BY DEF OpenOutputCall
<1>3. IsJoin(U, InjectDll, 6, ReflectiveDLLInject, 8) BY Lists, Joined
<1> HIDE DEF U
<1>4. /\ IsList(U, 14)
      /\ \A i \in 1..6 : U[i] = InjectDll[i]
      /\ \A i \in 1..8 : U[6 + i] = ReflectiveDLLInject[i]
  BY <1>3 DEF IsJoin
<1>5. IsJoin(V, U, 14, GetRemoteImageSize, 1) BY <1>4, Lists, Joined
<1> HIDE DEF V
<1>6. /\ IsList(V, 15)
      /\ \A i \in 1..14 : V[i] = U[i]
      /\ \A i \in 1..1 : V[14 + i] = GetRemoteImageSize[i]
  BY <1>5 DEF IsJoin
<1>7. IsJoin(W, V, 15, Start, 11) BY <1>6, StartCalls, Joined
<1> HIDE DEF W
<1>8. /\ IsList(W, 26)
      /\ \A i \in 1..15 : W[i] = V[i]
      /\ \A i \in 1..11 : W[15 + i] = Start[i]
  BY <1>7 DEF IsJoin
<1>9. IsJoin(SetupCalls, W, 26, ConfigureTransport, 10) BY <1>1, <1>8, TransportCalls, Joined
<1>10. /\ IsList(SetupCalls, 36)
       /\ \A i \in 1..26 : SetupCalls[i] = W[i]
       /\ \A i \in 1..10 : SetupCalls[26 + i] = ConfigureTransport[i]
  BY <1>9 DEF IsJoin
<1>11. \A i \in 1..6 : SetupCalls[i] = InjectDll[i] BY <1>4, <1>6, <1>8, <1>10
<1>12. ASSUME NEW i \in 1..8 PROVE SetupCalls[6 + i] = ReflectiveDLLInject[i]
  <2>1. 6 + i \in 1..14 /\ 6 + i \in 1..15 /\ 6 + i \in 1..26 OBVIOUS
  <2> QED BY <2>1, <1>4, <1>6, <1>8, <1>10
<1>13. SetupCalls[15] = GetRemoteImageSize[1]
  <2>1. 14 + 1 = 15 /\ 1 \in 1..1 /\ 15 \in 1..15 /\ 15 \in 1..26 OBVIOUS
  <2> QED BY <2>1, <1>6, <1>8, <1>10
<1>14. ASSUME NEW i \in 1..11 PROVE SetupCalls[15 + i] = Start[i]
  <2>1. 15 + i \in 1..26 OBVIOUS
  <2> QED BY <2>1, <1>8, <1>10
<1>15. OpenOutputCall = 17 BY <1>2, <1>6 DEF IsList
<1> QED BY <1>10, <1>11, <1>12, <1>13, <1>14, <1>15

-----------------------------------------------------------------------------
(* What the session owns when it is about to make call k, and what its     *)
(* fields name.                                                            *)

Owned(k) ==
  {r \in Remote \union Local :
     \/ r = "file" /\ k \in 3..6
     \/ r = "buffer" /\ k \in 5..14
     \/ r = "image" /\ k > 8
     \/ r = "localImage" /\ k \in 10..14
     \/ r = "section" /\ k > 18
     \/ r = "view" /\ k > 19
     \/ r = "ring" /\ k > 20
     \/ r = "wakeEvent" /\ k > 21
     \/ r = "wakeHandle" /\ k > 22
     \/ r = "threads" /\ k > 26
     \/ r = "setEventBypass" /\ k > 29
     \/ r = "readMemoryBypass" /\ k > 33}

Named(k) ==
  {r \in Owned(k) :
     /\ r \notin {"file", "buffer", "localImage"}
     /\ r = "image" => k > 14
     /\ r = "setEventBypass" => k > 30
     /\ r = "readMemoryBypass" => k > 34}

\* What the undo list of a call that may fail must be: it releases, once
\* each, things there are, those no field names among them; never the image
\* once the session knows it, nor what reader and writer use once they run.
Undoes(k, undo) ==
  /\ undo \in Seq(Things)
  /\ \A i, j \in 1..Len(undo) : undo[i] = undo[j] => i = j
  /\ ToSet(undo) \subseteq Owned(k) /\ Owned(k) \ Named(k) \subseteq ToSet(undo)
  /\ k > 14 => "image" \notin ToSet(undo)
  /\ k > 26 => ToSet(undo) \intersect {"view", "wakeEvent"} = {}

CallRight(k, n, call) ==
  /\ Owned(n) = (Owned(k) \union call.gets) \ call.drops
  /\ Named(n) = Named(k) \union call.as
  /\ call.writes \subseteq TransportExports /\ (call.writes # {} => k > 14)
  /\ call.drops = {} => Undoes(k, call.undo)

LEMMA UndoNothing ==
  ASSUME NEW k, Owned(k) = Named(k)
  PROVE  Undoes(k, <<>>)
<1>1. <<>> \in Seq(Things) /\ Len(<<>>) = 0 OBVIOUS
<1>2. ToSet(<<>>) = {} BY DEF ToSet
<1> QED BY <1>1, <1>2 DEF Undoes

LEMMA UndoThree ==
  ASSUME NEW k, NEW a \in Things, NEW b \in Things, NEW c \in Things, a # b, a # c, b # c,
         {a, b, c} \subseteq Owned(k), Owned(k) \ Named(k) \subseteq {a, b, c},
         k \in 1..26, k > 14 => "image" \notin {a, b, c}
  PROVE  Undoes(k, <<a, b, c>>)
<1> DEFINE s == <<a, b, c>>
<1>1. s \in Seq(Things) /\ Len(s) = 3 /\ s[1] = a /\ s[2] = b /\ s[3] = c OBVIOUS
<1>2. ToSet(s) = {a, b, c} BY DEF ToSet
<1> HIDE DEF s
<1>3. \A i, j \in 1..Len(s) : s[i] = s[j] => i = j
  <2>1. 1..Len(s) = {1, 2, 3} BY <1>1
  <2> QED BY <1>1, <2>1
<1> QED BY <1>1, <1>2, <1>3 DEF Undoes, s

LEMMA UndoOneThing ==
  ASSUME NEW k \in Nat, NEW a \in Things, a \in Owned(k), Owned(k) \ Named(k) \subseteq {a},
         k > 14 => a # "image", k > 26 => a \notin {"view", "wakeEvent"}
  PROVE  Undoes(k, <<a>>)
<1> DEFINE s == <<a>>
<1>1. s \in Seq(Things) /\ Len(s) = 1 /\ s[1] = a OBVIOUS
<1>2. ToSet(s) = {a} BY DEF ToSet
<1> HIDE DEF s
<1>3. \A i, j \in 1..Len(s) : s[i] = s[j] => i = j
  <2>1. 1..Len(s) = {1} BY <1>1
  <2> QED BY <1>1, <2>1
<1> QED BY <1>1, <1>2, <1>3 DEF Undoes, s

LEMMA UndoTwo ==
  ASSUME NEW k, NEW a \in Things, NEW b \in Things, a # b,
         {a, b} \subseteq Owned(k), Owned(k) \ Named(k) \subseteq {a, b},
         k \in 1..26, k > 14 => "image" \notin {a, b}
  PROVE  Undoes(k, <<a, b>>)
<1> DEFINE s == <<a, b>>
<1>1. s \in Seq(Things) /\ Len(s) = 2 /\ s[1] = a /\ s[2] = b OBVIOUS
<1>2. ToSet(s) = {a, b} BY DEF ToSet
<1> HIDE DEF s
<1>3. \A i, j \in 1..Len(s) : s[i] = s[j] => i = j
  <2>1. 1..Len(s) = {1, 2} BY <1>1
  <2> QED BY <1>1, <2>1
<1> QED BY <1>1, <1>2, <1>3 DEF Undoes, s

\* Start's own undo, and CreateSharedRing's last.
LEMMA UndoRing ==
  ASSUME NEW k \in 22..26
  PROVE  Undoes(k, StartFails)
<1>1. /\ StartFails \in Seq(Things) /\ Len(StartFails) = 4
      /\ StartFails[1] = "ring" /\ StartFails[2] = "wakeEvent" /\ StartFails[3] = "view"
      /\ StartFails[4] = "section"
  BY UndoLists
<1>2. DOMAIN StartFails = {1, 2, 3, 4} BY <1>1
<1>3. ToSet(StartFails) = {"ring", "wakeEvent", "view", "section"} BY <1>1, <1>2 DEF ToSet
<1>4. \A i, j \in 1..Len(StartFails) : StartFails[i] = StartFails[j] => i = j
  <2>1. 1..Len(StartFails) = {1, 2, 3, 4} BY <1>1
  <2> QED BY <1>1, <2>1
<1>5. {"ring", "wakeEvent", "view", "section"} \subseteq Owned(k) BY DEF Owned, Remote, Local
<1>6. Owned(k) \ Named(k) = {} BY DEF Owned, Named, Remote, Local
<1> QED BY <1>1, <1>3, <1>4, <1>5, <1>6 DEF Undoes

\* The kinds of call.
LEMMA CheckRight ==
  ASSUME NEW k, NEW n, NEW undo, NEW call, call = Check(undo),
         Owned(n) = Owned(k), Named(n) = Named(k), Undoes(k, undo)
  PROVE  CallRight(k, n, call)
<1>1. call.gets = {} /\ call.drops = {} /\ call.as = {} /\ call.writes = {} /\ call.undo = undo
  BY DEF Check, Call
<1> QED BY <1>1 DEF CallRight

LEMMA GetRight ==
  ASSUME NEW k, NEW n, NEW undo, NEW gets, NEW call, call = Call(gets, undo),
         Owned(n) = Owned(k) \union gets, Named(n) = Named(k), Undoes(k, undo)
  PROVE  CallRight(k, n, call)
<1>1. call.gets = gets /\ call.drops = {} /\ call.as = {} /\ call.writes = {} /\ call.undo = undo
  BY DEF Call
<1> QED BY <1>1 DEF CallRight

LEMMA KnownRight ==
  ASSUME NEW k, NEW n, NEW undo, NEW gets, NEW call, call = Known(Call(gets, undo)),
         Owned(n) = Owned(k) \union gets, Named(n) = Named(k) \union gets, Undoes(k, undo)
  PROVE  CallRight(k, n, call)
<1>1. call.gets = gets /\ call.drops = {} /\ call.as = gets /\ call.writes = {} /\ call.undo = undo
  BY DEF Known, Call
<1> QED BY <1>1 DEF CallRight

LEMMA DropRight ==
  ASSUME NEW k, NEW n, NEW resources, NEW call, call = Drop(resources), resources # {},
         Owned(n) = Owned(k) \ resources, Named(n) = Named(k)
  PROVE  CallRight(k, n, call)
<1>1. call.gets = {} /\ call.drops = resources /\ call.as = {} /\ call.writes = {}
  BY DEF Drop, Check, Call
<1> QED BY <1>1 DEF CallRight

LEMMA WriteRight ==
  ASSUME NEW k \in 15..36, NEW n, NEW undo, NEW export \in TransportExports,
         Owned(n) = Owned(k), Named(n) = Named(k), Undoes(k, undo)
  PROVE  CallRight(k, n, Write(export, undo))
<1> DEFINE call == Write(export, undo)
<1>1. /\ call.gets = {} /\ call.drops = {} /\ call.as = {} /\ call.writes = {export}
      /\ call.undo = undo
  BY DEF Write, Check, Call
<1> HIDE DEF call
<1>2. CallRight(k, n, call) BY <1>1 DEF CallRight
<1> QED BY <1>2 DEF call

\* Most calls are checks.
LEMMA NothingChanges ==
  \A k \in {1, 3, 5, 7, 10, 11, 12, 13, 15, 16, 17, 23, 24, 25, 27, 28, 31, 32, 35, 36} :
    \A n : n = k + 1 => Owned(n) = Owned(k) /\ Named(n) = Named(k)
  BY DEF Owned, Named, Remote, Local

\* InjectDll's calls.
LEMMA InjectRight == \A k \in 1..6 : \A n : n = k + 1 => CallRight(k, n, SetupCalls[k])
<1>1. /\ SetupCalls[1] = Check(<<>>) /\ SetupCalls[2] = Call({"file"}, <<>>)
      /\ SetupCalls[3] = Check(<<"file">>) /\ SetupCalls[4] = Call({"buffer"}, <<"file">>)
      /\ SetupCalls[5] = Check(<<"buffer", "file">>) /\ SetupCalls[6] = Drop({"file"})
  BY CallsInOrder DEF InjectDll
<1> USE DEF Things
<1>2. CallRight(1, 2, SetupCalls[1])
  <2>1. Undoes(1, <<>>) BY UndoNothing DEF Owned, Named, Remote, Local
  <2>2. Owned(2) = Owned(1) /\ Named(2) = Named(1) BY NothingChanges
  <2> QED BY <1>1, <2>1, <2>2, CheckRight
<1>3. CallRight(2, 3, SetupCalls[2])
  <2>1. Undoes(2, <<>>) BY UndoNothing DEF Owned, Named, Remote, Local
  <2>2. Owned(3) = Owned(2) \union {"file"} /\ Named(3) = Named(2)
    BY DEF Owned, Named, Remote, Local
  <2> QED BY <1>1, <2>1, <2>2, GetRight
<1>4. CallRight(3, 4, SetupCalls[3])
  <2>1. Undoes(3, <<"file">>) BY UndoOneThing DEF Owned, Named, Remote, Local
  <2>2. Owned(4) = Owned(3) /\ Named(4) = Named(3) BY NothingChanges
  <2> QED BY <1>1, <2>1, <2>2, CheckRight
<1>5. CallRight(4, 5, SetupCalls[4])
  <2>1. Undoes(4, <<"file">>) BY UndoOneThing DEF Owned, Named, Remote, Local
  <2>2. Owned(5) = Owned(4) \union {"buffer"} /\ Named(5) = Named(4)
    BY DEF Owned, Named, Remote, Local
  <2> QED BY <1>1, <2>1, <2>2, GetRight
<1>6. CallRight(5, 6, SetupCalls[5])
  <2>1. Undoes(5, <<"buffer", "file">>)
    <3>1. {"buffer", "file"} \subseteq Owned(5) BY DEF Owned, Remote, Local
    <3>2. Owned(5) \ Named(5) \subseteq {"buffer", "file"} BY DEF Owned, Named, Remote, Local
    <3>3. {"buffer", "file"} \subseteq Things BY DEF Things, Remote, Local
    <3> QED BY <3>1, <3>2, <3>3, UndoTwo
  <2>2. Owned(6) = Owned(5) /\ Named(6) = Named(5) BY NothingChanges
  <2> QED BY <1>1, <2>1, <2>2, CheckRight
<1>7. CallRight(6, 7, SetupCalls[6])
  <2>1. Owned(7) = Owned(6) \ {"file"} /\ Named(7) = Named(6) BY DEF Owned, Named, Remote, Local
  <2> QED BY <1>1, <2>1, DropRight
<1> QED BY <1>2, <1>3, <1>4, <1>5, <1>6, <1>7


\* ReflectiveDLLInject's and GetRemoteImageSize's calls.
LEMMA MapperRight == \A k \in 7..15 : \A n : n = k + 1 => CallRight(k, n, SetupCalls[k])
<1>1. /\ SetupCalls[7] = Check(<<"buffer">>) /\ SetupCalls[8] = Call({"image"}, <<"buffer">>)
      /\ SetupCalls[9] = Call({"localImage"}, <<"image", "buffer">>)
      /\ SetupCalls[10] = Check(MapperFails) /\ SetupCalls[11] = Check(MapperFails)
      /\ SetupCalls[12] = Check(MapperFails) /\ SetupCalls[13] = Check(MapperFails)
      /\ SetupCalls[14] = [Drop({"localImage", "buffer"}) EXCEPT !.as = {"image"}]
      /\ SetupCalls[15] = Check(<<>>)
  <2>1. /\ SetupCalls[6 + 1] = ReflectiveDLLInject[1] /\ SetupCalls[6 + 2] = ReflectiveDLLInject[2]
        /\ SetupCalls[6 + 3] = ReflectiveDLLInject[3] /\ SetupCalls[6 + 4] = ReflectiveDLLInject[4]
        /\ SetupCalls[6 + 5] = ReflectiveDLLInject[5] /\ SetupCalls[6 + 6] = ReflectiveDLLInject[6]
        /\ SetupCalls[6 + 7] = ReflectiveDLLInject[7] /\ SetupCalls[6 + 8] = ReflectiveDLLInject[8]
    BY CallsInOrder
  <2>2. /\ SetupCalls[7] = ReflectiveDLLInject[1] /\ SetupCalls[8] = ReflectiveDLLInject[2]
        /\ SetupCalls[9] = ReflectiveDLLInject[3] /\ SetupCalls[10] = ReflectiveDLLInject[4]
        /\ SetupCalls[11] = ReflectiveDLLInject[5] /\ SetupCalls[12] = ReflectiveDLLInject[6]
        /\ SetupCalls[13] = ReflectiveDLLInject[7] /\ SetupCalls[14] = ReflectiveDLLInject[8]
    BY <2>1
  <2>3. SetupCalls[15] = GetRemoteImageSize[1] BY CallsInOrder
  <2> QED BY <2>2, <2>3 DEF ReflectiveDLLInject, GetRemoteImageSize
<1> USE DEF Things
<1>2. CallRight(7, 8, SetupCalls[7])
  <2>1. Undoes(7, <<"buffer">>) BY UndoOneThing DEF Owned, Named, Remote, Local
  <2>2. Owned(8) = Owned(7) /\ Named(8) = Named(7) BY NothingChanges
  <2> QED BY <1>1, <2>1, <2>2, CheckRight
<1>3. CallRight(8, 9, SetupCalls[8])
  <2>1. Undoes(8, <<"buffer">>) BY UndoOneThing DEF Owned, Named, Remote, Local
  <2>2. Owned(9) = Owned(8) \union {"image"} /\ Named(9) = Named(8)
    BY DEF Owned, Named, Remote, Local
  <2> QED BY <1>1, <2>1, <2>2, GetRight
<1>4. CallRight(9, 10, SetupCalls[9])
  <2>1. Undoes(9, <<"image", "buffer">>)
    <3>1. {"image", "buffer"} \subseteq Owned(9) BY DEF Owned, Remote, Local
    <3>2. Owned(9) \ Named(9) \subseteq {"image", "buffer"} BY DEF Owned, Named, Remote, Local
    <3>3. {"image", "buffer"} \subseteq Things BY DEF Things, Remote, Local
    <3> QED BY <3>1, <3>2, <3>3, UndoTwo
  <2>2. Owned(10) = Owned(9) \union {"localImage"} /\ Named(10) = Named(9)
    BY DEF Owned, Named, Remote, Local
  <2> QED BY <1>1, <2>1, <2>2, GetRight
<1>5. CallRight(10, 11, SetupCalls[10])
  <2>1. Undoes(10, MapperFails)
    <3>1. {"localImage", "image", "buffer"} \subseteq Owned(10) BY DEF Owned, Remote, Local
    <3>2. Owned(10) \ Named(10) \subseteq {"localImage", "image", "buffer"}
      BY DEF Owned, Named, Remote, Local
    <3>3. {"localImage", "image", "buffer"} \subseteq Things BY DEF Things, Remote, Local
    <3> QED BY <3>1, <3>2, <3>3, UndoThree, UndoLists
  <2>2. Owned(11) = Owned(10) /\ Named(11) = Named(10) BY NothingChanges
  <2> QED BY <1>1, <2>1, <2>2, CheckRight
<1>6. CallRight(11, 12, SetupCalls[11])
  <2>1. Undoes(11, MapperFails)
    <3>1. {"localImage", "image", "buffer"} \subseteq Owned(11) BY DEF Owned, Remote, Local
    <3>2. Owned(11) \ Named(11) \subseteq {"localImage", "image", "buffer"}
      BY DEF Owned, Named, Remote, Local
    <3>3. {"localImage", "image", "buffer"} \subseteq Things BY DEF Things, Remote, Local
    <3> QED BY <3>1, <3>2, <3>3, UndoThree, UndoLists
  <2>2. Owned(12) = Owned(11) /\ Named(12) = Named(11) BY NothingChanges
  <2> QED BY <1>1, <2>1, <2>2, CheckRight
<1>7. CallRight(12, 13, SetupCalls[12])
  <2>1. Undoes(12, MapperFails)
    <3>1. {"localImage", "image", "buffer"} \subseteq Owned(12) BY DEF Owned, Remote, Local
    <3>2. Owned(12) \ Named(12) \subseteq {"localImage", "image", "buffer"}
      BY DEF Owned, Named, Remote, Local
    <3>3. {"localImage", "image", "buffer"} \subseteq Things BY DEF Things, Remote, Local
    <3> QED BY <3>1, <3>2, <3>3, UndoThree, UndoLists
  <2>2. Owned(13) = Owned(12) /\ Named(13) = Named(12) BY NothingChanges
  <2> QED BY <1>1, <2>1, <2>2, CheckRight
<1>8. CallRight(13, 14, SetupCalls[13])
  <2>1. Undoes(13, MapperFails)
    <3>1. {"localImage", "image", "buffer"} \subseteq Owned(13) BY DEF Owned, Remote, Local
    <3>2. Owned(13) \ Named(13) \subseteq {"localImage", "image", "buffer"}
      BY DEF Owned, Named, Remote, Local
    <3>3. {"localImage", "image", "buffer"} \subseteq Things BY DEF Things, Remote, Local
    <3> QED BY <3>1, <3>2, <3>3, UndoThree, UndoLists
  <2>2. Owned(14) = Owned(13) /\ Named(14) = Named(13) BY NothingChanges
  <2> QED BY <1>1, <2>1, <2>2, CheckRight
<1>9. CallRight(14, 15, SetupCalls[14])
  <2>1. /\ Owned(15) = Owned(14) \ {"localImage", "buffer"}
        /\ Named(15) = Named(14) \union {"image"}
    BY DEF Owned, Named, Remote, Local
  <2>2. /\ SetupCalls[14].gets = {} /\ SetupCalls[14].drops = {"localImage", "buffer"}
        /\ SetupCalls[14].as = {"image"} /\ SetupCalls[14].writes = {}
    BY <1>1 DEF Drop, Check, Call
  <2> QED BY <2>1, <2>2 DEF CallRight
<1>10. CallRight(15, 16, SetupCalls[15])
  <2>1. Undoes(15, <<>>) BY UndoNothing DEF Owned, Named, Remote, Local
  <2>2. Owned(16) = Owned(15) /\ Named(16) = Named(15) BY NothingChanges
  <2> QED BY <1>1, <2>1, <2>2, CheckRight
<1> QED BY <1>2, <1>3, <1>4, <1>5, <1>6, <1>7, <1>8, <1>9, <1>10

\* TraceSession::Start's calls.
LEMMA StartRight == \A k \in 16..26 : \A n : n = k + 1 => CallRight(k, n, SetupCalls[k])
<1>1. /\ SetupCalls[16] = Check(<<>>) /\ SetupCalls[17] = Check(<<>>)
      /\ SetupCalls[18] = Known(Call({"section"}, <<>>))
      /\ SetupCalls[19] = Known(Call({"view"}, <<"section">>))
      /\ SetupCalls[20] = Known(Call({"ring"}, <<"view", "section">>))
      /\ SetupCalls[21] = Known(Call({"wakeEvent"}, <<"ring", "view", "section">>))
      /\ SetupCalls[22] = Known(Call({"wakeHandle"}, StartFails))
      /\ SetupCalls[23] = Write("TransportRing", StartFails)
      /\ SetupCalls[24] = Write("TransportWakeEvent", StartFails)
      /\ SetupCalls[25] = Check(StartFails)
      /\ SetupCalls[26] = Known(Call({"threads"}, <<>>))
  <2>1. \A i \in 1..11 : SetupCalls[15 + i] = Start[i] BY CallsInOrder
  <2>2. /\ SetupCalls[16] = Start[1] /\ SetupCalls[17] = Start[2] /\ SetupCalls[18] = Start[3]
        /\ SetupCalls[19] = Start[4] /\ SetupCalls[20] = Start[5] /\ SetupCalls[21] = Start[6]
        /\ SetupCalls[22] = Start[7] /\ SetupCalls[23] = Start[8] /\ SetupCalls[24] = Start[9]
        /\ SetupCalls[25] = Start[10] /\ SetupCalls[26] = Start[11]
    <3>1. 15 + 1 = 16 /\ 15 + 2 = 17 /\ 15 + 3 = 18 /\ 15 + 4 = 19 /\ 15 + 5 = 20 /\ 15 + 6 = 21
      OBVIOUS
    <3>2. 15 + 7 = 22 /\ 15 + 8 = 23 /\ 15 + 9 = 24 /\ 15 + 10 = 25 /\ 15 + 11 = 26 OBVIOUS
    <3> QED BY <2>1, <3>1, <3>2
  <2>3. \A i \in 1..5 : Start[2 + i] = CreateSharedRing[i] BY StartCalls
  <2>4. /\ Start[3] = CreateSharedRing[1] /\ Start[4] = CreateSharedRing[2]
        /\ Start[5] = CreateSharedRing[3] /\ Start[6] = CreateSharedRing[4]
        /\ Start[7] = CreateSharedRing[5]
    <3>1. 2 + 1 = 3 /\ 2 + 2 = 4 /\ 2 + 3 = 5 /\ 2 + 4 = 6 /\ 2 + 5 = 7 OBVIOUS
    <3> QED BY <2>3, <3>1
  <2>5. /\ CreateSharedRing[1] = Known(Call({"section"}, <<>>))
        /\ CreateSharedRing[2] = Known(Call({"view"}, <<"section">>))
        /\ CreateSharedRing[3] = Known(Call({"ring"}, <<"view", "section">>))
        /\ CreateSharedRing[4] = Known(Call({"wakeEvent"}, <<"ring", "view", "section">>))
        /\ CreateSharedRing[5] = Known(Call({"wakeHandle"}, StartFails))
    BY DEF CreateSharedRing, StartFails
  <2> QED BY <2>2, <2>4, <2>5, StartCalls
<1> USE DEF Things
<1>2. CallRight(16, 17, SetupCalls[16])
  <2>1. Undoes(16, <<>>) BY UndoNothing DEF Owned, Named, Remote, Local
  <2>2. Owned(17) = Owned(16) /\ Named(17) = Named(16) BY NothingChanges
  <2> QED BY <1>1, <2>1, <2>2, CheckRight
<1>3. CallRight(17, 18, SetupCalls[17])
  <2>1. Undoes(17, <<>>) BY UndoNothing DEF Owned, Named, Remote, Local
  <2>2. Owned(18) = Owned(17) /\ Named(18) = Named(17) BY NothingChanges
  <2> QED BY <1>1, <2>1, <2>2, CheckRight
<1>4. CallRight(18, 19, SetupCalls[18])
  <2>1. Undoes(18, <<>>) BY UndoNothing DEF Owned, Named, Remote, Local
  <2>2. Owned(19) = Owned(18) \union {"section"} /\ Named(19) = Named(18) \union {"section"}
    BY DEF Owned, Named, Remote, Local
  <2> QED BY <1>1, <2>1, <2>2, KnownRight
<1>5. CallRight(19, 20, SetupCalls[19])
  <2>1. Undoes(19, <<"section">>) BY UndoOneThing DEF Owned, Named, Remote, Local
  <2>2. Owned(20) = Owned(19) \union {"view"} /\ Named(20) = Named(19) \union {"view"}
    BY DEF Owned, Named, Remote, Local
  <2> QED BY <1>1, <2>1, <2>2, KnownRight
<1>6. CallRight(20, 21, SetupCalls[20])
  <2>1. Undoes(20, <<"view", "section">>)
    <3>1. {"view", "section"} \subseteq Owned(20) BY DEF Owned, Remote, Local
    <3>2. Owned(20) \ Named(20) \subseteq {"view", "section"} BY DEF Owned, Named, Remote, Local
    <3>3. {"view", "section"} \subseteq Things BY DEF Things, Remote, Local
    <3> QED BY <3>1, <3>2, <3>3, UndoTwo
  <2>2. Owned(21) = Owned(20) \union {"ring"} /\ Named(21) = Named(20) \union {"ring"}
    BY DEF Owned, Named, Remote, Local
  <2> QED BY <1>1, <2>1, <2>2, KnownRight
<1>7. CallRight(21, 22, SetupCalls[21])
  <2>1. Undoes(21, <<"ring", "view", "section">>)
    <3>1. {"ring", "view", "section"} \subseteq Owned(21) BY DEF Owned, Remote, Local
    <3>2. Owned(21) \ Named(21) \subseteq {"ring", "view", "section"}
      BY DEF Owned, Named, Remote, Local
    <3>3. {"ring", "view", "section"} \subseteq Things BY DEF Things, Remote, Local
    <3> QED BY <3>1, <3>2, <3>3, UndoThree
  <2>2. Owned(22) = Owned(21) \union {"wakeEvent"} /\ Named(22) = Named(21) \union {"wakeEvent"}
    BY DEF Owned, Named, Remote, Local
  <2> QED BY <1>1, <2>1, <2>2, KnownRight
<1>8. CallRight(22, 23, SetupCalls[22])
  <2>1. Undoes(22, StartFails) BY UndoRing DEF Owned, Named, Remote, Local
  <2>2. Owned(23) = Owned(22) \union {"wakeHandle"} /\ Named(23) = Named(22) \union {"wakeHandle"}
    BY DEF Owned, Named, Remote, Local
  <2> QED BY <1>1, <2>1, <2>2, KnownRight
<1>9. CallRight(23, 24, SetupCalls[23])
  <2>1. Undoes(23, StartFails) BY UndoRing DEF Owned, Named, Remote, Local
  <2>2. Owned(24) = Owned(23) /\ Named(24) = Named(23) BY NothingChanges
  <2>3. 23 \in 15..36 /\ "TransportRing" \in TransportExports BY DEF TransportExports
  <2> QED BY <1>1, <2>1, <2>2, <2>3, WriteRight
<1>10. CallRight(24, 25, SetupCalls[24])
  <2>1. Undoes(24, StartFails) BY UndoRing DEF Owned, Named, Remote, Local
  <2>2. Owned(25) = Owned(24) /\ Named(25) = Named(24) BY NothingChanges
  <2>3. 24 \in 15..36 /\ "TransportWakeEvent" \in TransportExports BY DEF TransportExports
  <2> QED BY <1>1, <2>1, <2>2, <2>3, WriteRight
<1>11. CallRight(25, 26, SetupCalls[25])
  <2>1. Undoes(25, StartFails) BY UndoRing DEF Owned, Named, Remote, Local
  <2>2. Owned(26) = Owned(25) /\ Named(26) = Named(25) BY NothingChanges
  <2> QED BY <1>1, <2>1, <2>2, CheckRight
<1>12. CallRight(26, 27, SetupCalls[26])
  <2>1. Undoes(26, <<>>) BY UndoNothing DEF Owned, Named, Remote, Local
  <2>2. Owned(27) = Owned(26) \union {"threads"} /\ Named(27) = Named(26) \union {"threads"}
    BY DEF Owned, Named, Remote, Local
  <2> QED BY <1>1, <2>1, <2>2, KnownRight
<1> QED BY <1>2, <1>3, <1>4, <1>5, <1>6, <1>7, <1>8, <1>9, <1>10, <1>11, <1>12

\* ConfigureTransport's calls.
LEMMA TransportRight == \A k \in 27..36 : \A n : n = k + 1 => CallRight(k, n, SetupCalls[k])
<1>1. /\ SetupCalls[27] = Check(<<>>) /\ SetupCalls[28] = Check(<<>>)
      /\ SetupCalls[29] = Call({"setEventBypass"}, <<>>)
      /\ SetupCalls[30] = [Check(<<"setEventBypass">>) EXCEPT !.as = {"setEventBypass"}]
      /\ SetupCalls[31] = Check(<<>>) /\ SetupCalls[32] = Check(<<>>)
      /\ SetupCalls[33] = Call({"readMemoryBypass"}, <<>>)
      /\ SetupCalls[34] = [Check(<<"readMemoryBypass">>) EXCEPT !.as = {"readMemoryBypass"}]
      /\ SetupCalls[35] = Write("TransportNtSetEvent", <<>>)
      /\ SetupCalls[36] = Write("TransportNtReadVirtualMemory", <<>>)
  <2>1. \A i \in 1..10 : SetupCalls[26 + i] = ConfigureTransport[i] BY CallsInOrder
  <2>2. /\ SetupCalls[27] = ConfigureTransport[1] /\ SetupCalls[28] = ConfigureTransport[2]
        /\ SetupCalls[29] = ConfigureTransport[3] /\ SetupCalls[30] = ConfigureTransport[4]
        /\ SetupCalls[31] = ConfigureTransport[5] /\ SetupCalls[32] = ConfigureTransport[6]
        /\ SetupCalls[33] = ConfigureTransport[7] /\ SetupCalls[34] = ConfigureTransport[8]
        /\ SetupCalls[35] = ConfigureTransport[9] /\ SetupCalls[36] = ConfigureTransport[10]
    <3>1. 26 + 1 = 27 /\ 26 + 2 = 28 /\ 26 + 3 = 29 /\ 26 + 4 = 30 /\ 26 + 5 = 31 OBVIOUS
    <3>2. 26 + 6 = 32 /\ 26 + 7 = 33 /\ 26 + 8 = 34 /\ 26 + 9 = 35 /\ 26 + 10 = 36 OBVIOUS
    <3> QED BY <2>1, <3>1, <3>2
  <2>3. \A i \in 1..4 : /\ ConfigureTransport[i] = Bypass("setEventBypass")[i]
                        /\ ConfigureTransport[4 + i] = Bypass("readMemoryBypass")[i]
    BY TransportCalls
  <2>4. /\ ConfigureTransport[5] = Bypass("readMemoryBypass")[1]
        /\ ConfigureTransport[6] = Bypass("readMemoryBypass")[2]
        /\ ConfigureTransport[7] = Bypass("readMemoryBypass")[3]
        /\ ConfigureTransport[8] = Bypass("readMemoryBypass")[4]
    <3>1. 4 + 1 = 5 /\ 4 + 2 = 6 /\ 4 + 3 = 7 /\ 4 + 4 = 8 OBVIOUS
    <3> QED BY <2>3, <3>1
  <2>5. \A b : /\ Bypass(b)[1] = Check(<<>>) /\ Bypass(b)[2] = Check(<<>>)
               /\ Bypass(b)[3] = Call({b}, <<>>) /\ Bypass(b)[4] = [Check(<<b>>) EXCEPT !.as = {b}]
    BY DEF Bypass
  <2> QED BY <2>2, <2>3, <2>4, <2>5, TransportCalls
<1> USE DEF Things
<1>2. CallRight(27, 28, SetupCalls[27])
  <2>1. Undoes(27, <<>>) BY UndoNothing DEF Owned, Named, Remote, Local
  <2>2. Owned(28) = Owned(27) /\ Named(28) = Named(27) BY NothingChanges
  <2> QED BY <1>1, <2>1, <2>2, CheckRight
<1>3. CallRight(28, 29, SetupCalls[28])
  <2>1. Undoes(28, <<>>) BY UndoNothing DEF Owned, Named, Remote, Local
  <2>2. Owned(29) = Owned(28) /\ Named(29) = Named(28) BY NothingChanges
  <2> QED BY <1>1, <2>1, <2>2, CheckRight
<1>4. CallRight(29, 30, SetupCalls[29])
  <2>1. Undoes(29, <<>>) BY UndoNothing DEF Owned, Named, Remote, Local
  <2>2. Owned(30) = Owned(29) \union {"setEventBypass"} /\ Named(30) = Named(29)
    BY DEF Owned, Named, Remote, Local
  <2> QED BY <1>1, <2>1, <2>2, GetRight
<1>5. CallRight(30, 31, SetupCalls[30])
  <2>1. Undoes(30, <<"setEventBypass">>) BY UndoOneThing DEF Owned, Named, Remote, Local
  <2>2. Owned(31) = Owned(30) /\ Named(31) = Named(30) \union {"setEventBypass"}
    BY DEF Owned, Named, Remote, Local
  <2>3. /\ SetupCalls[30].gets = {} /\ SetupCalls[30].drops = {}
        /\ SetupCalls[30].as = {"setEventBypass"} /\ SetupCalls[30].writes = {}
        /\ SetupCalls[30].undo = <<"setEventBypass">>
    BY <1>1 DEF Check, Call
  <2> QED BY <2>1, <2>2, <2>3 DEF CallRight
<1>6. CallRight(31, 32, SetupCalls[31])
  <2>1. Undoes(31, <<>>) BY UndoNothing DEF Owned, Named, Remote, Local
  <2>2. Owned(32) = Owned(31) /\ Named(32) = Named(31) BY NothingChanges
  <2> QED BY <1>1, <2>1, <2>2, CheckRight
<1>7. CallRight(32, 33, SetupCalls[32])
  <2>1. Undoes(32, <<>>) BY UndoNothing DEF Owned, Named, Remote, Local
  <2>2. Owned(33) = Owned(32) /\ Named(33) = Named(32) BY NothingChanges
  <2> QED BY <1>1, <2>1, <2>2, CheckRight
<1>8. CallRight(33, 34, SetupCalls[33])
  <2>1. Undoes(33, <<>>) BY UndoNothing DEF Owned, Named, Remote, Local
  <2>2. Owned(34) = Owned(33) \union {"readMemoryBypass"} /\ Named(34) = Named(33)
    BY DEF Owned, Named, Remote, Local
  <2> QED BY <1>1, <2>1, <2>2, GetRight
<1>9. CallRight(34, 35, SetupCalls[34])
  <2>1. Undoes(34, <<"readMemoryBypass">>) BY UndoOneThing DEF Owned, Named, Remote, Local
  <2>2. Owned(35) = Owned(34) /\ Named(35) = Named(34) \union {"readMemoryBypass"}
    BY DEF Owned, Named, Remote, Local
  <2>3. /\ SetupCalls[34].gets = {} /\ SetupCalls[34].drops = {}
        /\ SetupCalls[34].as = {"readMemoryBypass"} /\ SetupCalls[34].writes = {}
        /\ SetupCalls[34].undo = <<"readMemoryBypass">>
    BY <1>1 DEF Check, Call
  <2> QED BY <2>1, <2>2, <2>3 DEF CallRight
<1>10. CallRight(35, 36, SetupCalls[35])
  <2>1. Undoes(35, <<>>) BY UndoNothing DEF Owned, Named, Remote, Local
  <2>2. Owned(36) = Owned(35) /\ Named(36) = Named(35) BY NothingChanges
  <2>3. 35 \in 15..36 /\ "TransportNtSetEvent" \in TransportExports BY DEF TransportExports
  <2> QED BY <1>1, <2>1, <2>2, <2>3, WriteRight
<1>11. CallRight(36, 37, SetupCalls[36])
  <2>1. Undoes(36, <<>>) BY UndoNothing DEF Owned, Named, Remote, Local
  <2>2. Owned(37) = Owned(36) /\ Named(37) = Named(36) BY NothingChanges
  <2>3. 36 \in 15..36 /\ "TransportNtReadVirtualMemory" \in TransportExports BY DEF TransportExports
  <2> QED BY <1>1, <2>1, <2>2, <2>3, WriteRight
<1> QED BY <1>2, <1>3, <1>4, <1>5, <1>6, <1>7, <1>8, <1>9, <1>10, <1>11

\* Every call of the set-up fits what is owned before it.
LEMMA EveryCallRight ==
  \A k \in 1..36 : \A n : n = k + 1 => CallRight(k, n, SetupCalls[k])
<1>1. \A k \in 1..36 : k \in 1..6 \/ k \in 7..15 \/ k \in 16..26 \/ k \in 27..36 OBVIOUS
<1> QED BY <1>1, InjectRight, MapperRight, StartRight, TransportRight


-----------------------------------------------------------------------------
(* The inductive invariant.                                                *)

Distinct(s) == \A i, j \in 1..Len(s) : s[i] = s[j] => i = j

\* The transport's exports and what it holds of the target are let go of by
\* way of the image: none outlasts the session's knowledge of it.
Anchored == exports # {} \/ known \intersect Remote # {} => "image" \in known

Idle ==
  /\ step = 1
  /\ held = {} /\ known = {} /\ exports = {} /\ lost = {} /\ lostBefore = {}

InSetup ==
  /\ held = Owned(step) /\ known = Named(step) /\ lost = {}
  /\ exports # {} => step > 15

\* What no field names is on the list; the image only while nothing depends
\* on it.
InUndo ==
  /\ Distinct(releasing)
  /\ ToSet(releasing) \subseteq held \ lost
  /\ held \ lost \subseteq known \union ToSet(releasing)
  /\ "image" \in ToSet(releasing) => known = {} /\ exports = {}
  /\ "threads" \in held => ToSet(releasing) \intersect {"view", "wakeEvent"} = {}
  /\ Anchored

InTracing == held = known /\ lost = {} /\ Anchored

\* The cleanup stands before the n-th of its releases.  Only the fields of
\* those to come name something, and if all went well only exports to come
\* are not null.
Cleaning(n) ==
  /\ Len(releasing) = 14 - n
  /\ \A i \in 1..(14 - n) : releasing[i] = CleanupOrder[n - 1 + i]
  /\ held \ lost = known
  /\ \A i \in 1..(n - 1) : CleanupOrder[i] \notin known
  /\ cleaned => lost = lostBefore /\ \A i \in 1..(n - 1) : CleanupOrder[i] \notin exports
  /\ n < 14 => Anchored

InCleanup == \E n \in 1..14 : Cleaning(n)

Over == held = lost /\ (cleaned => exports = {} /\ lost = lostBefore)

SetupInv ==
  /\ SetupTypeOK
  /\ cleaned \in BOOLEAN
  /\ releasing \in Seq(Things)
  /\ lost \intersect known = {}
  /\ known \intersect {"file", "buffer", "localImage"} = {}
  /\ stage = "idle" => Idle
  /\ stage = "setup" => InSetup
  /\ stage = "undo" => InUndo
  /\ stage = "tracing" => InTracing
  /\ stage = "cleanup" => InCleanup
  /\ stage = "over" => Over

LEMMA SetupInvPromises == SetupInv => SetupTypeOK /\ OnlyLostRemain /\ CompleteMeansClean
  BY DEF SetupInv, Over, OnlyLostRemain, CompleteMeansClean

-----------------------------------------------------------------------------
(* What the steps need.                                                    *)

LEMMA TailOf ==
  ASSUME NEW s \in Seq(Things), s # <<>>, Distinct(s)
  PROVE  /\ Tail(s) \in Seq(Things) /\ Distinct(Tail(s))
         /\ Head(s) \in Things /\ Head(s) \in ToSet(s) /\ ToSet(Tail(s)) = ToSet(s) \ {Head(s)}
<1>1. /\ Head(s) \in Things /\ Tail(s) \in Seq(Things) /\ Len(Tail(s)) = Len(s) - 1
      /\ \A i \in 1..Len(Tail(s)) : Tail(s)[i] = s[i + 1]
  BY HeadTailProperties
<1>2. Len(s) \in Nat /\ Len(s) >= 1 /\ Head(s) = s[1] BY EmptySeq, SMT
<1>3. DOMAIN s = 1..Len(s) /\ DOMAIN Tail(s) = 1..Len(Tail(s)) BY <1>1
<1>4. Distinct(Tail(s)) BY <1>1, <1>2 DEF Distinct
<1>5. Head(s) \in ToSet(s) BY <1>2, <1>3 DEF ToSet
<1>6. ASSUME NEW x \in ToSet(Tail(s)) PROVE x \in ToSet(s) /\ x # Head(s)
  <2>1. PICK i \in 1..Len(Tail(s)) : x = Tail(s)[i] BY <1>3 DEF ToSet
  <2>2. i + 1 \in 1..Len(s) /\ i + 1 # 1 /\ x = s[i + 1] BY <1>1, <1>2, <2>1
  <2> QED BY <1>2, <1>3, <2>2 DEF ToSet, Distinct
<1>7. ASSUME NEW x \in ToSet(s), x # Head(s) PROVE x \in ToSet(Tail(s))
  <2>1. PICK i \in 1..Len(s) : x = s[i] BY <1>3 DEF ToSet
  <2>2. i - 1 \in 1..Len(Tail(s)) /\ Tail(s)[i - 1] = x BY <1>1, <1>2, <1>7, <2>1
  <2> QED BY <1>3, <2>2 DEF ToSet
<1> QED BY <1>1, <1>4, <1>5, <1>6, <1>7

LEMMA ThingsJoined ==
  ASSUME NEW s \in Seq(Things), NEW t \in Seq(Things), NEW u, u = s \o t
  PROVE  /\ u \in Seq(Things) /\ Len(u) = Len(s) + Len(t)
         /\ \A i \in 1..Len(u) : u[i] = IF i <= Len(s) THEN s[i] ELSE t[i - Len(s)]
<1> HIDE DEF Things
<1> QED BY ConcatProperties

LEMMA OrderList ==
  /\ CleanupOrder \in Seq(Things) /\ Len(CleanupOrder) = 13
  /\ CleanupOrder[1] = "TransportRing" /\ CleanupOrder[2] = "TransportWakeEvent"
  /\ CleanupOrder[3] = "TransportNtSetEvent"
  /\ CleanupOrder[4] = "TransportNtReadVirtualMemory"
  /\ CleanupOrder[5] = "ring" /\ CleanupOrder[6] = "wakeHandle"
  /\ CleanupOrder[7] = "setEventBypass" /\ CleanupOrder[8] = "readMemoryBypass"
  /\ CleanupOrder[9] = "threads" /\ CleanupOrder[10] = "wakeEvent" /\ CleanupOrder[11] = "view"
  /\ CleanupOrder[12] = "section" /\ CleanupOrder[13] = "image"
<1> DEFINE A == <<"TransportRing", "TransportWakeEvent", "TransportNtSetEvent",
                  "TransportNtReadVirtualMemory", "ring", "wakeHandle", "setEventBypass",
                  "readMemoryBypass", "threads">>
           B == <<"wakeEvent", "view", "section">>
           C == <<"image">>
           U == A \o B
<1>1. /\ A \in Seq(Things) /\ Len(A) = 9
      /\ A[1] = "TransportRing" /\ A[2] = "TransportWakeEvent" /\ A[3] = "TransportNtSetEvent"
      /\ A[4] = "TransportNtReadVirtualMemory" /\ A[5] = "ring" /\ A[6] = "wakeHandle"
      /\ A[7] = "setEventBypass" /\ A[8] = "readMemoryBypass" /\ A[9] = "threads"
  BY DEF Things, Remote, Local, TransportExports
<1>2. B \in Seq(Things) /\ Len(B) = 3 /\ B[1] = "wakeEvent" /\ B[2] = "view" /\ B[3] = "section"
  BY DEF Things, Remote, Local
<1>3. C \in Seq(Things) /\ Len(C) = 1 /\ C[1] = "image" BY DEF Things, Remote
<1>4. CleanupOrder = U \o C BY DEF CleanupOrder, ReleaseLocalRing
<1> HIDE DEF A, B, C
<1>5. /\ U \in Seq(Things) /\ Len(U) = 12
      /\ \A i \in 1..12 : U[i] = IF i <= 9 THEN A[i] ELSE B[i - 9]
  <2>1. /\ U \in Seq(Things) /\ Len(U) = Len(A) + Len(B)
        /\ \A i \in 1..Len(U) : U[i] = IF i <= Len(A) THEN A[i] ELSE B[i - Len(A)]
    BY <1>1, <1>2, ThingsJoined
  <2> HIDE DEF U
  <2> QED BY <1>1, <1>2, <2>1
<1> HIDE DEF U
<1>6. /\ CleanupOrder \in Seq(Things) /\ Len(CleanupOrder) = 13
      /\ \A i \in 1..13 : CleanupOrder[i] = IF i <= 12 THEN U[i] ELSE C[i - 12]
  <2>1. U \in Seq(Things) /\ C \in Seq(Things) BY <1>3, <1>5
  <2>2. /\ CleanupOrder \in Seq(Things) /\ Len(CleanupOrder) = Len(U) + Len(C)
        /\ \A i \in 1..Len(CleanupOrder) :
             CleanupOrder[i] = IF i <= Len(U) THEN U[i] ELSE C[i - Len(U)]
    BY <1>4, <2>1, ThingsJoined
  <2> QED BY <1>3, <1>5, <2>2
<1>7. /\ \A i \in 1..9 : CleanupOrder[i] = A[i]
      /\ \A i \in 10..12 : CleanupOrder[i] = B[i - 9]
      /\ CleanupOrder[13] = C[1]
  BY <1>5, <1>6
<1>8. CleanupOrder[10] = B[1] /\ CleanupOrder[11] = B[2] /\ CleanupOrder[12] = B[3] BY <1>7
<1> QED BY <1>1, <1>2, <1>3, <1>6, <1>7, <1>8

\* The table of what is owned, read as the invariant needs it.
LEMMA Ownership ==
  ASSUME NEW k \in 1..37
  PROVE  /\ Owned(k) \subseteq Remote \union Local /\ Named(k) \subseteq Owned(k)
         /\ Named(k) \intersect {"file", "buffer", "localImage"} = {}
         /\ "threads" \in Owned(k) => {"view", "wakeEvent"} \subseteq Owned(k) /\ k > 26
         /\ k > 15 => "image" \in Named(k)
         /\ Named(k) \intersect Remote # {} => "image" \in Named(k)
<1>1. Owned(k) \subseteq Remote \union Local BY DEF Owned
<1>2. Named(k) \subseteq Owned(k) BY DEF Named
<1>3. Named(k) \intersect {"file", "buffer", "localImage"} = {} BY DEF Named
<1>4. "threads" \in Owned(k) => k > 26 BY DEF Owned
<1>5. k > 26 => {"view", "wakeEvent"} \subseteq Owned(k) BY DEF Owned, Remote, Local
<1>6. k > 14 => "image" \in Named(k) BY DEF Owned, Named, Remote, Local
<1>7. ASSUME NEW r \in Named(k) \intersect Remote PROVE k > 14
  BY DEF Owned, Named, Remote
<1>8. k > 15 => k > 14 OBVIOUS
<1> QED BY <1>1, <1>2, <1>3, <1>4, <1>5, <1>6, <1>7, <1>8

LEMMA AllOwnedNamed == Owned(37) = Named(37)
  BY DEF Owned, Named, Remote, Local

LEMMA SetupInvInit == SetupInit => SetupInv
<1> SUFFICES ASSUME SetupInit PROVE SetupInv OBVIOUS
<1>1. Len(SetupCalls) = 36 BY CallsInOrder DEF IsList
<1>2. SetupTypeOK BY <1>1 DEF SetupInit, SetupTypeOK
<1>3. Idle BY DEF SetupInit, Idle
<1> QED BY <1>2, <1>3 DEF SetupInit, SetupInv

\* A call of the set-up that succeeds: the next one finds what it leaves.
LEMMA SucceedsStep == SetupInv /\ Succeeds => SetupInv'
<1> SUFFICES ASSUME SetupInv, Succeeds PROVE SetupInv' OBVIOUS
<1> DEFINE call == SetupCalls[step]
<1>1. /\ stage = "setup" /\ held' = (held \union call.gets) \ call.drops
      /\ known' = known \union call.as /\ exports' = exports \union call.writes
      /\ step = Len(SetupCalls) => stage' = "tracing" /\ step' = step
      /\ step # Len(SetupCalls) => step' = step + 1 /\ stage' = stage
      /\ releasing' = releasing /\ lost' = lost /\ lostBefore' = lostBefore
      /\ cleaned' = cleaned
  BY DEF Succeeds
<1>2. Len(SetupCalls) = 36 BY CallsInOrder DEF IsList
<1>3. step \in 1..36 BY <1>2 DEF SetupInv, SetupTypeOK
<1>4. InSetup BY <1>1 DEF SetupInv
<1>5. CallRight(step, step + 1, call) BY <1>3, EveryCallRight
<1> HIDE DEF call
<1>6. /\ held' = Owned(step + 1) /\ known' = Named(step + 1)
      /\ exports' \subseteq TransportExports /\ (exports' # {} => step + 1 > 15)
  <2>1. held' = Owned(step + 1) BY <1>1, <1>4, <1>5 DEF InSetup, CallRight
  <2>2. known' = Named(step + 1) BY <1>1, <1>4, <1>5 DEF InSetup, CallRight
  <2>3. exports' \subseteq TransportExports
    BY <1>1, <1>5 DEF CallRight, SetupInv, SetupTypeOK
  <2>4. ASSUME exports' # {} PROVE step + 1 > 15
    <3>1. exports # {} \/ call.writes # {} BY <1>1, <2>4
    <3>2. step > 14 BY <1>3, <1>4, <1>5, <3>1 DEF InSetup, CallRight
    <3> QED BY <1>3, <3>2
  <2> QED BY <2>1, <2>2, <2>3, <2>4
<1>7. lost' = {} /\ cleaned' \in BOOLEAN /\ releasing' \in Seq(Things)
  BY <1>1, <1>4 DEF InSetup, SetupInv
<1>8. step + 1 \in 1..37 BY <1>3
<1>9. step' \in 1..36 /\ stage' \in {"setup", "tracing"}
  <2>1. CASE step = 36 BY <1>1, <1>2, <2>1
  <2>2. CASE step # 36
    <3>1. step + 1 \in 1..36 BY <1>3, <2>2
    <3> QED BY <1>1, <1>2, <2>2, <3>1
  <2> QED BY <2>1, <2>2
<1>10. SetupTypeOK' BY <1>2, <1>6, <1>7, <1>8, <1>9, Ownership DEF SetupTypeOK
<1>11. known' \intersect {"file", "buffer", "localImage"} = {} BY <1>6, <1>8, Ownership
<1>12. (stage = "setup" => InSetup)'
  <2>1. ASSUME stage' = "setup" PROVE step' = step + 1 BY <1>1, <2>1
  <2> QED BY <1>6, <1>7, <2>1 DEF InSetup
<1>13. (stage = "tracing" => InTracing)'
  <2>1. ASSUME stage' = "tracing" PROVE step + 1 = 37 BY <1>1, <1>2, <2>1
  <2>2. ASSUME stage' = "tracing" PROVE held' = known' BY <1>6, <2>1, <2>2, AllOwnedNamed
  <2>3. Anchored' BY <1>6, <1>8, Ownership DEF Anchored
  <2> QED BY <1>7, <2>2, <2>3 DEF InTracing
<1> QED BY <1>7, <1>9, <1>10, <1>11, <1>12, <1>13 DEF SetupInv

\* A call that fails leaves its function with the right things to undo.
LEMMA FailsStep == SetupInv /\ Fails => SetupInv'
<1> SUFFICES ASSUME SetupInv, Fails PROVE SetupInv' OBVIOUS
<1> DEFINE call == SetupCalls[step]
<1>1. /\ stage = "setup" /\ call.drops = {} /\ stage' = "undo" /\ releasing' = call.undo
      /\ step' = step /\ held' = held /\ known' = known /\ exports' = exports
      /\ lost' = lost /\ lostBefore' = lostBefore /\ cleaned' = cleaned
  BY DEF Fails
<1>2. step \in 1..36 BY CallsInOrder DEF SetupInv, SetupTypeOK, IsList
<1>3. InSetup BY <1>1 DEF SetupInv
<1>4. CallRight(step, step + 1, call) BY <1>2, EveryCallRight
<1> HIDE DEF call
<1>5. Undoes(step, call.undo) BY <1>1, <1>4 DEF CallRight
<1>6. step \in 1..37 BY <1>2
<1>7. SetupTypeOK'
  <2>1. SetupTypeOK BY DEF SetupInv
  <2> QED BY <1>1, <2>1 DEF SetupTypeOK
<1>8. ToSet(call.undo) \subseteq held \ lost /\ held \ lost \subseteq known \union ToSet(call.undo)
  BY <1>3, <1>5 DEF InSetup, Undoes
<1>9. Anchored'
  <2>1. exports # {} => "image" \in known BY <1>3, <1>6, Ownership DEF InSetup
  <2>2. known \intersect Remote # {} => "image" \in known BY <1>3, <1>6, Ownership DEF InSetup
  <2> QED BY <1>1, <2>1, <2>2 DEF Anchored
<1>10. ASSUME "image" \in ToSet(call.undo) PROVE known = {} /\ exports = {}
  <2>1. ~(step > 14) BY <1>5, <1>10 DEF Undoes
  <2>2. Named(step) = {} BY <1>2, <2>1 DEF Named, Owned
  <2>3. ~(step > 15) BY <1>2, <2>1
  <2> QED BY <1>3, <2>2, <2>3 DEF InSetup
<1>11. "threads" \in held => ToSet(call.undo) \intersect {"view", "wakeEvent"} = {}
  BY <1>3, <1>5, <1>6, Ownership DEF InSetup, Undoes
<1>12. Distinct(call.undo) /\ call.undo \in Seq(Things) BY <1>5 DEF Undoes, Distinct
<1>13. InUndo' BY <1>1, <1>8, <1>9, <1>10, <1>11, <1>12 DEF InUndo, Distinct
<1> QED BY <1>1, <1>7, <1>12, <1>13 DEF SetupInv

\* One release of an undo list.
LEMMA UndoOneStep == SetupInv /\ UndoOne => SetupInv'
<1> SUFFICES ASSUME SetupInv, UndoOne PROVE SetupInv' OBVIOUS
<1> DEFINE r == Head(releasing)
<1>1. /\ stage = "undo" /\ releasing # <<>> /\ stage' = stage /\ step' = step
      /\ exports' = exports /\ lostBefore' = lostBefore /\ cleaned' = cleaned
  BY DEF UndoOne
<1>2. PICK released \in BOOLEAN : Release(r, released) BY DEF UndoOne
<1>3. /\ released \/ r \in Remote
      /\ held' = IF released THEN held \ {r} ELSE held
      /\ lost' = IF released THEN lost ELSE lost \union {r}
      /\ known' = known \ {r} /\ releasing' = Tail(releasing)
  BY <1>2 DEF Release
<1>4. InUndo /\ SetupTypeOK /\ releasing \in Seq(Things) /\ lost \intersect known = {}
      /\ known \intersect {"file", "buffer", "localImage"} = {} /\ cleaned \in BOOLEAN
  BY <1>1 DEF SetupInv
<1>5. /\ releasing' \in Seq(Things) /\ Distinct(releasing') /\ r \in ToSet(releasing)
      /\ ToSet(releasing') = ToSet(releasing) \ {r}
  BY <1>1, <1>3, <1>4, TailOf DEF InUndo
<1> HIDE DEF r
<1>6. r \in held \ lost BY <1>4, <1>5 DEF InUndo
<1>7. SetupTypeOK'
  <2>1. known' \subseteq held' BY <1>3, <1>4 DEF SetupTypeOK
  <2>2. lost' \subseteq Remote \intersect held' BY <1>3, <1>4, <1>6 DEF SetupTypeOK
  <2>3. held' \subseteq Remote \union Local BY <1>3, <1>4 DEF SetupTypeOK
  <2>4. "threads" \in held' => {"view", "wakeEvent"} \subseteq held'
    <3>1. "threads" \in held => r \notin {"view", "wakeEvent"} BY <1>4, <1>5 DEF InUndo
    <3> QED BY <1>3, <1>4, <3>1 DEF SetupTypeOK
  <2>5. /\ stage \in {"idle", "setup", "undo", "tracing", "cleanup", "over"}
        /\ step \in 1..Len(SetupCalls) /\ exports \subseteq TransportExports
    BY <1>4 DEF SetupTypeOK
  <2> QED BY <1>1, <2>1, <2>2, <2>3, <2>4, <2>5 DEF SetupTypeOK
<1>8. /\ lost' \intersect known' = {}
      /\ known' \intersect {"file", "buffer", "localImage"} = {}
  BY <1>3, <1>4
<1>9. InUndo'
  <2>1. ToSet(releasing') \subseteq held' \ lost'
    BY <1>3, <1>4, <1>5 DEF InUndo
  <2>2. held' \ lost' \subseteq known' \union ToSet(releasing')
    BY <1>3, <1>4, <1>5 DEF InUndo
  <2>3. "image" \in ToSet(releasing') => known' = {} /\ exports' = {}
    BY <1>1, <1>3, <1>4, <1>5 DEF InUndo
  <2>4. "threads" \in held' => ToSet(releasing') \intersect {"view", "wakeEvent"} = {}
    BY <1>3, <1>4, <1>5 DEF InUndo
  <2>5. Anchored'
    <3>1. CASE r = "image" BY <1>1, <1>3, <1>4, <1>5, <3>1 DEF InUndo, Anchored
    <3>2. CASE r # "image" BY <1>1, <1>3, <1>4, <3>2 DEF InUndo, Anchored
    <3> QED BY <3>1, <3>2
  <2> QED BY <1>5, <2>1, <2>2, <2>3, <2>4, <2>5 DEF InUndo, Distinct
<1> QED BY <1>1, <1>4, <1>5, <1>7, <1>8, <1>9 DEF SetupInv

\* CleanupRemote begins: everything there is is lost or named.
LEMMA StartCleanupStep == SetupInv /\ StartCleanup => SetupInv'
<1> SUFFICES ASSUME SetupInv, StartCleanup PROVE SetupInv' OBVIOUS
<1>1. /\ stage' = "cleanup" /\ releasing' = CleanupOrder /\ lostBefore' = lost
      /\ step' = step /\ held' = held /\ known' = known /\ exports' = exports
      /\ lost' = lost /\ cleaned' = cleaned
      /\ (stage = "undo" /\ releasing = <<>>) \/ stage = "tracing"
  BY DEF StartCleanup
<1>2. SetupTypeOK /\ cleaned \in BOOLEAN /\ lost \intersect known = {}
      /\ known \intersect {"file", "buffer", "localImage"} = {}
  BY DEF SetupInv
<1>3. SetupTypeOK' BY <1>1, <1>2 DEF SetupTypeOK
<1>4. held \ lost = known /\ Anchored
  <2>1. CASE stage = "tracing"
    <3>1. InTracing BY <2>1 DEF SetupInv
    <3> QED BY <3>1 DEF InTracing
  <2>2. CASE stage = "undo" /\ releasing = <<>>
    <3>1. InUndo BY <2>2 DEF SetupInv
    <3>2. ToSet(releasing) = {} BY <2>2 DEF ToSet
    <3>3. held \ lost \subseteq known BY <3>1, <3>2 DEF InUndo
    <3> QED BY <1>2, <3>1, <3>3 DEF InUndo, SetupTypeOK
  <2> QED BY <1>1, <2>1, <2>2
<1>5. CleanupOrder \in Seq(Things) /\ Len(CleanupOrder) = 13 BY OrderList
<1>6. Cleaning(1)'
  <2>1. \A i \in 1..(14 - 1) : releasing'[i] = CleanupOrder[1 - 1 + i] BY <1>1
  <2>2. \A i \in 1..(1 - 1) : FALSE OBVIOUS
  <2>3. Anchored' BY <1>1, <1>4 DEF Anchored
  <2> QED BY <1>1, <1>4, <1>5, <2>1, <2>2, <2>3 DEF Cleaning
<1>7. InCleanup' BY <1>6 DEF InCleanup
<1> QED BY <1>1, <1>2, <1>3, <1>5, <1>7 DEF SetupInv

\* The cleanup's next release, and the list after it.
LEMMA CleaningHead ==
  ASSUME NEW n \in 1..14, Cleaning(n), releasing \in Seq(Things), releasing # <<>>
  PROVE  /\ n \in 1..13 /\ Head(releasing) = CleanupOrder[n]
         /\ Tail(releasing) \in Seq(Things) /\ Len(Tail(releasing)) = 14 - (n + 1)
         /\ \A i \in 1..(14 - (n + 1)) : Tail(releasing)[i] = CleanupOrder[(n + 1) - 1 + i]
<1>1. /\ Tail(releasing) \in Seq(Things) /\ Len(Tail(releasing)) = Len(releasing) - 1
      /\ \A i \in 1..Len(Tail(releasing)) : Tail(releasing)[i] = releasing[i + 1]
  BY HeadTailProperties
<1>2. Len(releasing) \in Nat /\ Len(releasing) >= 1 /\ Head(releasing) = releasing[1]
  BY EmptySeq, SMT
<1>3. Len(releasing) = 14 - n /\ \A i \in 1..(14 - n) : releasing[i] = CleanupOrder[n - 1 + i]
  BY DEF Cleaning
<1>4. n \in 1..13 BY <1>2, <1>3
<1>5. Head(releasing) = CleanupOrder[n]
  <2>1. 1 \in 1..(14 - n) /\ n - 1 + 1 = n BY <1>4
  <2> QED BY <1>2, <1>3, <2>1
<1>6. ASSUME NEW i \in 1..(14 - (n + 1))
      PROVE  Tail(releasing)[i] = CleanupOrder[(n + 1) - 1 + i]
  <2>1. i + 1 \in 1..(14 - n) /\ n - 1 + (i + 1) = (n + 1) - 1 + i BY <1>4
  <2>2. i \in 1..Len(Tail(releasing)) BY <1>1, <1>3
  <2> QED BY <1>1, <1>3, <2>1, <2>2
<1> QED BY <1>1, <1>3, <1>4, <1>5, <1>6

LEMMA OrderKinds ==
  ASSUME NEW n \in 1..13
  PROVE  /\ CleanupOrder[n] \in TransportExports <=> n <= 4
         /\ CleanupOrder[n] \in {"view", "wakeEvent"} => n > 9
         /\ CleanupOrder[n] = "image" => n = 13
         /\ CleanupOrder[n] \in Things
<1>1. \/ n = 1 \/ n = 2 \/ n = 3 \/ n = 4 \/ n = 5 \/ n = 6 \/ n = 7 \/ n = 8 \/ n = 9 \/ n = 10
      \/ n = 11 \/ n = 12 \/ n = 13
  OBVIOUS
<1> QED BY <1>1, OrderList DEF TransportExports, Things, Remote, Local

\* A release of the cleanup, of a field that names something.
LEMMA CleaningReleases ==
  ASSUME SetupInv, stage = "cleanup", NEW n \in 1..13, Cleaning(n),
         NEW done \in BOOLEAN, CleanupOrder[n] \in known,
         CleanupOrder[n] \notin TransportExports,
         Release(CleanupOrder[n], done), UNCHANGED <<stage, step, exports, lostBefore>>,
         cleaned' = (done /\ cleaned),
         releasing' \in Seq(Things), Len(releasing') = 14 - (n + 1),
         \A i \in 1..(14 - (n + 1)) : releasing'[i] = CleanupOrder[(n + 1) - 1 + i]
  PROVE  SetupInv'
<1> DEFINE r == CleanupOrder[n]
<1>1. /\ done \/ r \in Remote
      /\ held' = IF done THEN held \ {r} ELSE held
      /\ lost' = IF done THEN lost ELSE lost \union {r}
      /\ known' = known \ {r}
  BY DEF Release
<1>2. /\ SetupTypeOK /\ cleaned \in BOOLEAN /\ lost \intersect known = {}
      /\ known \intersect {"file", "buffer", "localImage"} = {}
  BY DEF SetupInv
<1>3. /\ held \ lost = known
      /\ \A i \in 1..(n - 1) : CleanupOrder[i] \notin known
      /\ cleaned => lost = lostBefore /\ \A i \in 1..(n - 1) : CleanupOrder[i] \notin exports
      /\ Anchored
  BY DEF Cleaning
<1>4. SetupTypeOK'
  <2>1. known' \subseteq held' BY <1>1, <1>2 DEF SetupTypeOK
  <2>2. lost' \subseteq Remote \intersect held' BY <1>1, <1>2, <1>3 DEF SetupTypeOK
  <2>3. held' \subseteq Remote \union Local BY <1>1, <1>2 DEF SetupTypeOK
  <2>4. "threads" \in held' => {"view", "wakeEvent"} \subseteq held'
    <3>1. CASE r \in {"view", "wakeEvent"}
      <4>1. n > 9 BY <3>1, OrderKinds
      <4>2. 9 \in 1..(n - 1) BY <4>1
      <4>3. "threads" \notin known BY <1>3, <4>2, OrderList
      <4>4. "threads" \notin lost BY <1>2 DEF SetupTypeOK, Remote
      <4> QED BY <1>1, <1>3, <4>3, <4>4
    <3>2. CASE r \notin {"view", "wakeEvent"} BY <1>1, <1>2, <3>2 DEF SetupTypeOK
    <3> QED BY <3>1, <3>2
  <2>5. /\ stage \in {"idle", "setup", "undo", "tracing", "cleanup", "over"}
        /\ step \in 1..Len(SetupCalls) /\ exports \subseteq TransportExports
    BY <1>2 DEF SetupTypeOK
  <2> QED BY <2>1, <2>2, <2>3, <2>4, <2>5 DEF SetupTypeOK
<1>5. lost' \intersect known' = {} /\ known' \intersect {"file", "buffer", "localImage"} = {}
  BY <1>1, <1>2
<1>6. held' \ lost' = known' BY <1>1, <1>2, <1>3
<1>7. \A i \in 1..n : CleanupOrder[i] \notin known'
  <2>1. \A i \in 1..n : i = n \/ i \in 1..(n - 1) OBVIOUS
  <2> QED BY <1>1, <1>3, <2>1
<1>8. cleaned' => lost' = lostBefore' /\ \A i \in 1..n : CleanupOrder[i] \notin exports'
  <2>1. \A i \in 1..n : i = n \/ i \in 1..(n - 1) OBVIOUS
  <2>2. r \notin exports BY <1>2 DEF SetupTypeOK
  <2>3. cleaned' => done /\ cleaned OBVIOUS
  <2> QED BY <1>1, <1>3, <2>1, <2>2, <2>3
<1>9. ASSUME n + 1 < 14 PROVE Anchored'
  <2>1. r # "image"
    <3>1. CleanupOrder[n] = "image" => n = 13 BY OrderKinds
    <3>2. n # 13 BY <1>9
    <3> QED BY <3>1, <3>2
  <2> HIDE DEF r
  <2>2. known' \subseteq known /\ ("image" \in known => "image" \in known') BY <1>1, <2>1
  <2> QED BY <1>3, <2>2 DEF Anchored
<1>10. Cleaning(n + 1)'
  <2>1. (n + 1) - 1 = n OBVIOUS
  <2>2. /\ \A i \in 1..((n + 1) - 1) : CleanupOrder[i] \notin known'
        /\ cleaned' => lost' = lostBefore'
                       /\ \A i \in 1..((n + 1) - 1) : CleanupOrder[i] \notin exports'
    BY <1>7, <1>8, <2>1
  <2> QED BY <1>6, <1>9, <2>2 DEF Cleaning
<1>11. InCleanup'
  <2>1. n + 1 \in 1..14 OBVIOUS
  <2> QED BY <1>10, <2>1 DEF InCleanup
<1>12. cleaned' \in BOOLEAN BY <1>2
<1> QED BY <1>4, <1>5, <1>11, <1>12 DEF SetupInv

\* A step of the cleanup that releases nothing: it writes an export, or
\* passes over what is not there.
LEMMA CleaningKeeps ==
  ASSUME SetupInv, stage = "cleanup", NEW n \in 1..13, Cleaning(n),
         CleanupOrder[n] \notin known, exports' \subseteq exports,
         cleaned' => cleaned /\ CleanupOrder[n] \notin exports', cleaned' \in BOOLEAN,
         UNCHANGED <<stage, step, held, known, lost, lostBefore>>,
         releasing' \in Seq(Things), Len(releasing') = 14 - (n + 1),
         \A i \in 1..(14 - (n + 1)) : releasing'[i] = CleanupOrder[(n + 1) - 1 + i]
  PROVE  SetupInv'
<1>1. /\ SetupTypeOK /\ lost \intersect known = {}
      /\ known \intersect {"file", "buffer", "localImage"} = {}
  BY DEF SetupInv
<1>2. SetupTypeOK' BY <1>1 DEF SetupTypeOK
<1>3. /\ held \ lost = known
      /\ \A i \in 1..(n - 1) : CleanupOrder[i] \notin known
      /\ cleaned => lost = lostBefore /\ \A i \in 1..(n - 1) : CleanupOrder[i] \notin exports
      /\ Anchored
  BY DEF Cleaning
<1>4. \A i \in 1..((n + 1) - 1) : i = n \/ i \in 1..(n - 1) OBVIOUS
<1>5. \A i \in 1..((n + 1) - 1) : CleanupOrder[i] \notin known' BY <1>3, <1>4
<1>6. cleaned' => lost' = lostBefore'
                  /\ \A i \in 1..((n + 1) - 1) : CleanupOrder[i] \notin exports'
  BY <1>3, <1>4
<1>7. Anchored' BY <1>3 DEF Anchored
<1>8. Cleaning(n + 1)' BY <1>3, <1>5, <1>6, <1>7 DEF Cleaning
<1>9. InCleanup'
  <2>1. n + 1 \in 1..14 OBVIOUS
  <2> QED BY <1>8, <2>1 DEF InCleanup
<1> QED BY <1>1, <1>2, <1>9 DEF SetupInv

LEMMA CleanOneStep == SetupInv /\ CleanOne => SetupInv'
<1> SUFFICES ASSUME SetupInv, CleanOne PROVE SetupInv' OBVIOUS
<1>1. /\ stage = "cleanup" /\ releasing # <<>> /\ IsCleaned(Head(releasing))
      /\ stage' = stage /\ step' = step /\ lostBefore' = lostBefore
  BY DEF CleanOne
<1>2. PICK done \in BOOLEAN : CleanStep(done) /\ cleaned' = (done /\ cleaned) BY DEF CleanOne
<1>3. PICK n \in 1..14 : Cleaning(n) BY <1>1 DEF SetupInv, InCleanup
<1>4. releasing \in Seq(Things) /\ cleaned \in BOOLEAN /\ SetupTypeOK BY DEF SetupInv
<1>5. /\ n \in 1..13 /\ Head(releasing) = CleanupOrder[n]
      /\ Tail(releasing) \in Seq(Things) /\ Len(Tail(releasing)) = 14 - (n + 1)
      /\ \A i \in 1..(14 - (n + 1)) : Tail(releasing)[i] = CleanupOrder[(n + 1) - 1 + i]
  BY <1>1, <1>3, <1>4, CleaningHead
<1>6. CASE CleanupOrder[n] \in TransportExports
  <2>1. /\ exports' = IF done THEN exports \ {CleanupOrder[n]} ELSE exports
        /\ releasing' = Tail(releasing) /\ held' = held /\ known' = known /\ lost' = lost
    BY <1>2, <1>5, <1>6 DEF CleanStep
  <2>2. CleanupOrder[n] \notin known
    BY <1>4, <1>6 DEF SetupTypeOK, TransportExports, Remote, Local
  <2>3. cleaned' => cleaned /\ CleanupOrder[n] \notin exports' BY <1>2, <2>1
  <2>4. cleaned' \in BOOLEAN BY <1>2, <1>4
  <2>5. exports' \subseteq exports BY <2>1
  <2> QED BY <1>1, <1>3, <1>5, <2>1, <2>2, <2>3, <2>4, <2>5, CleaningKeeps
<1>7. CASE CleanupOrder[n] \notin TransportExports
  <2>1. Release(CleanupOrder[n], done) /\ exports' = exports
    BY <1>2, <1>5, <1>7 DEF CleanStep
  <2>2. releasing' = Tail(releasing) BY <2>1 DEF Release
  <2>3. CleanupOrder[n] \in known BY <1>1, <1>5, <1>7 DEF IsCleaned
  <2> QED BY <1>1, <1>2, <1>3, <1>5, <1>7, <2>1, <2>2, <2>3, CleaningReleases
<1> QED BY <1>6, <1>7

\* What is passed over is not there: without the image nothing of the target
\* is named and every export is null.
LEMMA PassOverStep == SetupInv /\ PassOver => SetupInv'
<1> SUFFICES ASSUME SetupInv, PassOver PROVE SetupInv' OBVIOUS
<1>1. /\ stage = "cleanup" /\ releasing # <<>> /\ ~IsCleaned(Head(releasing))
      /\ releasing' = Tail(releasing) /\ stage' = stage /\ step' = step /\ held' = held
      /\ known' = known /\ exports' = exports /\ lost' = lost /\ lostBefore' = lostBefore
      /\ cleaned' = cleaned
  BY DEF PassOver
<1>2. PICK n \in 1..14 : Cleaning(n) BY <1>1 DEF SetupInv, InCleanup
<1>3. releasing \in Seq(Things) /\ cleaned \in BOOLEAN /\ SetupTypeOK BY DEF SetupInv
<1>4. /\ n \in 1..13 /\ Head(releasing) = CleanupOrder[n]
      /\ Tail(releasing) \in Seq(Things) /\ Len(Tail(releasing)) = 14 - (n + 1)
      /\ \A i \in 1..(14 - (n + 1)) : Tail(releasing)[i] = CleanupOrder[(n + 1) - 1 + i]
  BY <1>1, <1>2, <1>3, CleaningHead
<1>5. Anchored BY <1>2, <1>4 DEF Cleaning
<1>6. CleanupOrder[n] \notin known /\ CleanupOrder[n] \notin exports
  <2>1. ~IsCleaned(CleanupOrder[n]) BY <1>1, <1>4
  <2>2. CASE CleanupOrder[n] \notin TransportExports /\ CleanupOrder[n] \notin known
    BY <1>3, <2>2 DEF SetupTypeOK
  <2>3. CASE /\ CleanupOrder[n] \in TransportExports \union Remote
             /\ "image" \notin known
    <3>1. exports = {} /\ known \intersect Remote = {} BY <1>5, <2>3 DEF Anchored
    <3>2. known \intersect TransportExports = {}
      BY <1>3 DEF SetupTypeOK, TransportExports, Remote, Local
    <3> QED BY <2>3, <3>1, <3>2
  <2> QED BY <2>1, <2>2, <2>3 DEF IsCleaned
<1> QED BY <1>1, <1>2, <1>3, <1>4, <1>6, CleaningKeeps

LEMMA FinishCleanupStep == SetupInv /\ FinishCleanup => SetupInv'
<1> SUFFICES ASSUME SetupInv, FinishCleanup PROVE SetupInv' OBVIOUS
<1>1. /\ stage = "cleanup" /\ releasing = <<>> /\ stage' = "over"
      /\ releasing' = releasing /\ step' = step /\ held' = held /\ known' = known
      /\ exports' = exports /\ lost' = lost /\ lostBefore' = lostBefore /\ cleaned' = cleaned
  BY DEF FinishCleanup
<1>2. PICK n \in 1..14 : Cleaning(n) BY <1>1 DEF SetupInv, InCleanup
<1>3. /\ SetupTypeOK /\ cleaned \in BOOLEAN /\ lost \intersect known = {}
      /\ known \intersect {"file", "buffer", "localImage"} = {} /\ releasing \in Seq(Things)
  BY DEF SetupInv
<1>4. n = 14
  <2>1. Len(releasing) = 0 BY <1>1
  <2> QED BY <1>2, <2>1 DEF Cleaning
<1>5. \A i \in 1..13 : CleanupOrder[i] \notin known /\ (cleaned => CleanupOrder[i] \notin exports)
  BY <1>2, <1>4 DEF Cleaning
<1>6. known = {}
  <2>1. known \subseteq Remote \union Local BY <1>3 DEF SetupTypeOK
  <2>2. \A r \in (Remote \union Local) \ {"file", "buffer", "localImage"} :
          \E i \in 1..13 : r = CleanupOrder[i]
    BY OrderList DEF Remote, Local
  <2> QED BY <1>3, <1>5, <2>1, <2>2
<1>7. cleaned => exports = {} /\ lost = lostBefore
  <2>1. \A r \in TransportExports : \E i \in 1..13 : r = CleanupOrder[i]
    BY OrderList DEF TransportExports
  <2>2. cleaned => lost = lostBefore BY <1>2 DEF Cleaning
  <2> QED BY <1>3, <1>5, <2>1, <2>2 DEF SetupTypeOK
<1>8. held = lost
  <2>1. held \ lost = {} BY <1>2, <1>6 DEF Cleaning
  <2> QED BY <1>3, <2>1 DEF SetupTypeOK
<1>9. Over' BY <1>1, <1>7, <1>8 DEF Over
<1>10. SetupTypeOK' BY <1>1, <1>3 DEF SetupTypeOK
<1> QED BY <1>1, <1>3, <1>9, <1>10 DEF SetupInv

-----------------------------------------------------------------------------
(* The command line, as far as the session's output depends on it.         *)

\* What a command line that is accepted says of the output.
LEMMA OutputAccepted ==
  ASSUME ParseInv, phase = "parsed", mode \in {"Run", "Attach"}
  PROVE  options.path = Empty => ~options.jsonl /\ ~options.quiet
<1>1. IsWellFormed(items, options, available) /\ AsAsked(items, options, available)
  BY DEF ParseInv, IsAccepted
<1>2. /\ options.path = LastIn("output", items, Empty)
      /\ options.jsonl = (LastIn("format", items, "text") = "jsonl")
      /\ options.quiet = (GivenIn("quiet", items) # <<>>)
  BY <1>1 DEF AsAsked
<1>3. options.path = Empty => GivenIn("format", items) = <<>> /\ GivenIn("quiet", items) = <<>>
  BY <1>1, <1>2 DEF IsWellFormed, OutputWell
<1>4. GivenIn("format", items) = <<>> => LastIn("format", items, "text") = "text" BY DEF LastIn
<1> QED BY <1>2, <1>3, <1>4

-----------------------------------------------------------------------------
(* The whole.                                                              *)

WholeInv == SetupInv /\ AcceptedOutputOpens

LEMMA WholeInvInit == StartupInit => WholeInv
<1> SUFFICES ASSUME StartupInit PROVE WholeInv OBVIOUS
<1>1. SetupInv BY SetupInvInit DEF StartupInit
<1>2. AcceptedOutputOpens BY DEF StartupInit, SetupInit, AcceptedOutputOpens
<1> QED BY <1>1, <1>2 DEF WholeInv

\* While the command line is read the session does not exist, and while the
\* session lives nothing reads the command line.
LEMMA SetupUnchanged == SetupInv /\ UNCHANGED setupVars => SetupInv'
<1> SUFFICES ASSUME SetupInv, UNCHANGED setupVars PROVE SetupInv' OBVIOUS
<1>1. /\ stage' = stage /\ step' = step /\ held' = held /\ known' = known
      /\ releasing' = releasing /\ exports' = exports /\ lost' = lost
      /\ lostBefore' = lostBefore /\ cleaned' = cleaned
  BY DEF setupVars
<1>2. SetupTypeOK' BY <1>1 DEF SetupInv, SetupTypeOK
<1>3. Anchored' = Anchored BY <1>1 DEF Anchored
<1>4. InCleanup => InCleanup'
  <2>1. \A n \in 1..14 : Cleaning(n) => Cleaning(n)' BY <1>1, <1>3 DEF Cleaning
  <2> QED BY <2>1 DEF InCleanup
<1>5. (stage = "undo" => InUndo)' BY <1>1, <1>3 DEF SetupInv, InUndo, Distinct
<1> QED BY <1>1, <1>2, <1>3, <1>4, <1>5 DEF SetupInv, Idle, InSetup, InTracing, Over

LEMMA LaunchStep == WholeInv /\ ParseInv /\ Launch => WholeInv'
<1> SUFFICES ASSUME WholeInv, ParseInv, Launch PROVE WholeInv' OBVIOUS
<1>1. /\ stage = "idle" /\ stage' \in {"setup", "over"} /\ mode \in {"Run", "Attach"}
      /\ output' = [jsonl |-> options.jsonl, quiet |-> options.quiet, path |-> options.path # Empty]
      /\ phase = "parsed" /\ step' = step /\ held' = held
      /\ known' = known /\ releasing' = releasing /\ exports' = exports /\ lost' = lost
      /\ lostBefore' = lostBefore /\ cleaned' = cleaned
  BY DEF Launch
<1>2. Idle /\ SetupTypeOK /\ cleaned \in BOOLEAN /\ releasing \in Seq(Things)
  BY <1>1 DEF WholeInv, SetupInv
<1>4. AcceptedOutputOpens'
  <2>2. options.path = Empty => ~options.jsonl /\ ~options.quiet BY <1>1, OutputAccepted
  <2>3. /\ output'.jsonl = options.jsonl /\ output'.quiet = options.quiet
        /\ output'.path = (options.path # Empty)
    BY <1>1
  <2> QED BY <2>2, <2>3 DEF AcceptedOutputOpens, Refused
<1>5. SetupInv'
  <2>1. SetupTypeOK' BY <1>1, <1>2 DEF SetupTypeOK
  <2>2. Owned(1) = {} /\ Named(1) = {} BY DEF Owned, Named
  <2>3. InSetup' BY <1>1, <1>2, <2>2 DEF Idle, InSetup
  <2>4. Over' BY <1>1, <1>2 DEF Idle, Over
  <2> QED BY <1>1, <1>2, <2>1, <2>3, <2>4 DEF SetupInv, Idle
<1> QED BY <1>4, <1>5 DEF WholeInv

LEMMA SessionStep == WholeInv /\ Session => WholeInv'
<1> SUFFICES ASSUME WholeInv, Session PROVE WholeInv' OBVIOUS
<1>1. SetupNext /\ UNCHANGED cliVars BY DEF Session
<1>2. SetupInv'
  BY <1>1, SucceedsStep, FailsStep, UndoOneStep, StartCleanupStep, CleanOneStep, PassOverStep,
     FinishCleanupStep
  DEF SetupNext, WholeInv
<1>4. output' = output /\ (stage' = "setup" => stage = "setup")
  BY <1>1 DEF SetupNext, Succeeds, Fails, UndoOne, StartCleanup, CleanOne, PassOver, FinishCleanup
<1>5. AcceptedOutputOpens' BY <1>4 DEF WholeInv, AcceptedOutputOpens, Refused
<1> QED BY <1>2, <1>5 DEF WholeInv

LEMMA WholeInvStep == WholeInv /\ ParseInv /\ [StartupNext]_startupVars => WholeInv'
<1> SUFFICES ASSUME WholeInv, ParseInv, [StartupNext]_startupVars PROVE WholeInv' OBVIOUS
<1>1. CASE Parse
  <2>1. CliNext /\ UNCHANGED setupVars BY <1>1 DEF Parse
  <2>2. SetupInv' BY <2>1, SetupUnchanged DEF WholeInv
  <2>4. AcceptedOutputOpens' BY <2>1 DEF WholeInv, AcceptedOutputOpens, Refused, setupVars
  <2> QED BY <2>2, <2>4 DEF WholeInv
<1>2. CASE UNCHANGED startupVars
  <2>1. UNCHANGED cliVars /\ UNCHANGED setupVars BY <1>2 DEF startupVars
  <2>2. SetupInv' BY <2>1, SetupUnchanged DEF WholeInv
  <2>4. AcceptedOutputOpens' BY <2>1 DEF WholeInv, AcceptedOutputOpens, Refused, setupVars
  <2> QED BY <2>2, <2>4 DEF WholeInv
<1> QED BY <1>1, <1>2, LaunchStep, SessionStep DEF StartupNext

LEMMA WholeInvHolds == StartupSpec => []WholeInv
<1>1. StartupInit => WholeInv BY WholeInvInit
<1>2. WholeInv /\ ParseInv /\ [StartupNext]_startupVars => WholeInv' BY WholeInvStep
<1> QED BY <1>1, <1>2, ParseInvHolds, PTL DEF StartupSpec

\* Whichever call of the set-up fails, and whichever releases fail with it,
\* the session's fields never name what is gone, so that nothing is released
\* twice, and reader and writer never outlive the ring and the event
\* (CreateSharedRing, Start, TraceSession::Stop, CleanupRemote).
THEOREM SetupTypeHolds == StartupSpec => []SetupTypeOK
<1>1. WholeInv => SetupTypeOK BY DEF WholeInv, SetupInv
<1> QED BY <1>1, WholeInvHolds, PTL

\* Types of the whole program: an identifier in its 32 bits and none but listed
\* hooks offered, whatever the command line, and the resources above.
THEOREM StartupTypeHolds == StartupSpec => []StartupTypeOK
<1>1. CliInv /\ WholeInv => StartupTypeOK BY DEF CliInv, WholeInv, SetupInv, StartupTypeOK
<1> QED BY <1>1, CliInvHolds, WholeInvHolds, PTL

\* When the session is over, only the resources are left whose release failed
\* (ReflectiveDLLInject's error paths, Start's rollback, CleanupRemote).
THEOREM OnlyLostRemainHolds == StartupSpec => []OnlyLostRemain
<1>1. WholeInv => OnlyLostRemain BY SetupInvPromises DEF WholeInv
<1> QED BY <1>1, WholeInvHolds, PTL

\* A cleanup that reports success has nulled every export of the transport
\* and lost nothing (CleanupRemote's cleaned, debug_session.cpp:531).
THEOREM CompleteMeansCleanHolds == StartupSpec => []CompleteMeansClean
<1>1. WholeInv => CompleteMeansClean BY SetupInvPromises DEF WholeInv
<1> QED BY <1>1, WholeInvHolds, PTL

\* No command line that ParseCommandLine accepts asks for an output that
\* OpenOutput refuses once the target has been seized.
THEOREM AcceptedOutputOpensHolds == StartupSpec => []AcceptedOutputOpens
<1>1. WholeInv => AcceptedOutputOpens BY DEF WholeInv
<1> QED BY <1>1, WholeInvHolds, PTL
=============================================================================
