------------------------- MODULE MCExportResolution -------------------------
(* A small instance of ExportResolution for TLC.                           *)
EXTENDS ExportResolution

CONSTANTS b1, b2, b3, fn1, fn2

\* Forwarders leave the extension out or write capitals.  "b" is also the name
\* of a module file without an extension, and of a hook in the catalogue.
MCNormalize == ("A" :> "a.dll" @@ "b" :> "b.dll" @@ "a.dll" :> "a.dll" @@ "b.dll" :> "b.dll")
MCHooks == <<<<"a.dll", fn1>>, <<"b.dll", fn2>>, <<"b", fn1>>>>

Symmetry == Permutations(Bases)

\* No resolution reads the exports of "b", so that it may have any.
OneTableSuffices ==
  \A c \in DOMAIN modules' : modules'[c].name = "b" => modules'[c].exports = [f \in Functions |-> Code]

\* The session was cleaned up, or nothing more is loaded.
Over ==
  /\ over \/ modules = [c \in {} |-> {}]
  /\ UNCHANGED vars
MCNext == (Next /\ OneTableSuffices) \/ Over
MCSpec == Init /\ [][MCNext]_vars
=============================================================================
