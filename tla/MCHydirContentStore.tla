------------------------- MODULE MCHydirContentStore -------------------------
(***************************************************************************)
(* Small instances of HydirContentStore for TLC.                           *)
(***************************************************************************)
EXTENDS HydirContentStore, TLC

Symmetric == Permutations(Content) \cup Permutations(Call)
=============================================================================
