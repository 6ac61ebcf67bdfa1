------------------------- MODULE MCHydirGhidraWorker -------------------------
(***************************************************************************)
(* A small instance of HydirGhidraWorker for TLC: analyses of the entry    *)
(* and of another function, an import and a rediscovery.                   *)
(***************************************************************************)
EXTENDS HydirGhidraWorker

CONSTANTS entry, other, o1, o2

Call(kind, function, path) == [kind |-> kind, function |-> function, output |-> path]
Requests ==
    {Call("analyze", None, o1), Call("analyze", other, o1), Call("analyze", None, o2),
     Call("import", None, o1), Call("rediscover", other, None)}
=============================================================================
