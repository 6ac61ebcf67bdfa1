------------------------ MODULE MCHydirFridaObserver ------------------------
(***************************************************************************)
(* Small instances of HydirFridaObserver for TLC.                          *)
(***************************************************************************)
EXTENDS HydirFridaObserver, TLC

Symmetric == Permutations(Thread)
=============================================================================
