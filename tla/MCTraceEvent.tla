---------------------------- MODULE MCTraceEvent ----------------------------
(* A small instance of TraceEvent for TLC.                                 *)
EXTENDS TraceEvent

Text(text, length, spelled) == [text |-> text, length |-> length, spelled |-> spelled]
Scalar(type, name) == [type |-> type, name |-> name]
Buffer(name, length) == [name |-> name, length |-> length]

\* Names of one cell and of the permitted two; one too long, one empty,
\* one misspelled.
AnyName == {"module", "api", "field"}
a == Text("a", 1, AnyName)
bb == Text("bb", 2, AnyName)
c == Text("c", 1, AnyName)
MCModules == {Text("dll", 1, {"module"})}
MCApis == {Text("Api", 1, {"module", "api"}), Text("Api.", 1, {"module"})}
MCScalars == [UInt32 |-> 1, UInt64 |-> 2]
MCScalarOffers ==
  {Scalar("UInt32", a), Scalar("UInt64", a), Scalar("UInt64", bb),
   Scalar("UInt32", Text("ddd", 3, AnyName)), Scalar("UInt32", Text("", 0, AnyName)),
   Scalar("UInt32", Text("E", 1, {"module", "api"}))}
MCBooleanOffers == {c}
\* An empty buffer, one that is exactly a preview, and a longer one.
MCBufferOffers == {Buffer(a, 0), Buffer(c, 2), Buffer(bb, 3)}

\* The last event was received.
Over ==
  /\ phase = "received" /\ emitted = MaxEvents
  /\ UNCHANGED vars
MCNext == Next \/ Over
MCSpec == Init /\ [][MCNext]_vars
=============================================================================
