--------------------------- MODULE MCDebugSession ---------------------------
(* Small instances of DebugSession for TLC.                                *)
EXTENDS DebugSession

CONSTANTS t1, t2, b0, b1, b2, ntdll, lib, fwd, h1, h2, f1, f2

Symmetry == Permutations(Threads) \union Permutations(Bases) \union Permutations(Trampolines)

\* One hook on ntdll, one on a library that comes and goes.
TwoHooks == <<h1, h2>>
DirectSource == (h1 :> ntdll @@ h2 :> lib)
TwoHomes == DirectSource
\* Both hooks are on functions of the library; one names a module that
\* forwards to it.
ForwardedSource == (h1 :> fwd @@ h2 :> lib)
LibraryHomes == (h1 :> lib @@ h2 :> lib)
TwoExports == (h1 :> f1 @@ h2 :> f2)
OneHook == <<h1>>
OneHome == (h1 :> ntdll)
OneExport == (h1 :> f1)

\* The session is over: only the target goes on.
Over ==
  /\ loop = "over"
  /\ UNCHANGED vars
MCNext == Next \/ Over
MCSpec == Init /\ [][MCNext]_vars
MCFairSpec == MCSpec /\ Fairness
MCBlockingSpec == MCSpec /\ BlockingFairness
=============================================================================
