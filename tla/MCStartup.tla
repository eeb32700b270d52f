------------------------------ MODULE MCStartup ------------------------------
(***************************************************************************)
(* Startup on hook DLLs of two good hooks, a repeated one, an unusable one *)
(* and none; identifiers up to 15; target arguments of up to three of the  *)
(* characters that quoting tells apart.                                    *)
(***************************************************************************)
EXTENDS Startup

Descriptor(module, export) ==
  [valid |-> TRUE, length |-> 1, module |-> module, export |-> export, complete |-> TRUE]
Good == <<Descriptor("K", "sleep"), Descriptor("n", "close")>>
MCLibraries ==
  {Good, <<>>, Append(Good, Descriptor("k", "sleep")),
   Append(Good, [Descriptor("n", "open") EXCEPT !.length = 2]),
   Append(Good, [Descriptor("n", "open") EXCEPT !.complete = FALSE]),
   Append(Good, [Descriptor("n", "open") EXCEPT !.valid = FALSE])}
MCNormalize == [k |-> "k", K |-> "k", n |-> "n"]
MCNameOrder == <<<<"k", "sleep">>, <<"n", "close">>, <<"n", "open">>>>
MCHookTexts ==
  {<<"all">>, <<"K", "sleep">>, <<"n", "close">>, <<"n", "open">>, <<"n", "">>,
   <<"n", "close", "x">>, <<"">>, <<"n", "e-acute">>}
MCNonAscii == {<<"n", "e-acute">>}
MCPidTexts == {<<>>, <<0>>, <<0, 7>>, <<1, 5>>, <<1, 6>>, <<2, 5, 7>>, <<1, 10>>}
MCProgram == <<"backslash", "space", "backslash", "backslash", "a">>
MCArguments ==
  SeqOf({"a", "space", "quote", "backslash"}, 2) \union SeqOf({"quote", "backslash"}, 3)

MCDone ==
  /\ \/ stage = "over"
     \/ phase = "parsed" /\ stage = "idle" /\ (mode \notin {"Run", "Attach"} \/ IsOwnProcess)
  /\ UNCHANGED startupVars
MCNext == StartupNext \/ MCDone
MCSpec == StartupInit /\ [][MCNext]_startupVars
=============================================================================
