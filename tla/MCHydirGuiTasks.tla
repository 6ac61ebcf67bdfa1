--------------------------- MODULE MCHydirGuiTasks ---------------------------
(***************************************************************************)
(* Small instances of HydirGuiTasks for TLC: two programs, each what a     *)
(* patch makes of the other, of two functions.                             *)
(***************************************************************************)
EXTENDS HydirGuiTasks

CONSTANTS b1, b2

Patched == (b1 :> b2) @@ (b2 :> b1)
=============================================================================
