----------------------------- MODULE LinkScanMC -----------------------------
(***************************************************************************)
(* The instance of LinkScan for TLC: all trees of up to six paths.         *)
(***************************************************************************)
EXTENDS LinkScan

EntryNames == {"a", "b", "c"}

A == <<"a">>
B == <<"b">>
C == <<"c">>
AA == <<"a", "a">>
AB == <<"a", "b">>
CA == <<"c", "a">>

(* c is not among the roots, and reached through links only. *)
SixPaths == {A, B, C, AA, AB, CA}
RootsAB == <<A, B>>
RejectAB == {AB}
=============================================================================
