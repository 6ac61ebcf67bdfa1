------------------------- MODULE MCHydirLocalProject -------------------------
(***************************************************************************)
(* Small instances of HydirLocalProject for TLC: top calls mid, which      *)
(* calls low; one struct points to another.                                *)
(***************************************************************************)
EXTENDS HydirLocalProject, TLC

CONSTANTS b1, b2, top, mid, low, pair, node

Chain == (top :> {mid}) @@ (mid :> {low}) @@ (low :> {})

\* Three texts, one more than are carried.
Texts == {<<top, "typed">>, <<mid, "typed">>, <<low, "cfg">>}

\* top takes a pointer to pair, which points to node; mid and low take integers.
Facts(nameOfLow, shapeOfNode) ==
    [functions |-> (top :> [name |-> 0, types |-> {pair}])
                   @@ (mid :> [name |-> 0, types |-> {}])
                   @@ (low :> [name |-> nameOfLow, types |-> {}]),
     types |-> (pair :> [shape |-> 0, refers |-> {node}])
               @@ (node :> [shape |-> shapeOfNode, refers |-> {}])]

Base == Facts(0, 0)
RenamedCallee == Facts(1, 0)
ChangedField == Facts(0, 1)
Models == {Base, RenamedCallee, ChangedField}

Put(k, n, b, m) ==
    [table |-> "model", key |-> k, expected |-> n, binary |-> b, model |-> m]

\* A first model, three edits of it, two under one key and one of them made for
\* the rebuilt program, and a fact.
Saves == {Put("first", 1, b1, Base), Put("edit", 2, b1, RenamedCallee),
          Put("edit", 2, b2, Base), Put("retype", 2, b1, ChangedField),
          [Put("note", 2, b1, Base) EXCEPT !.table = "annotation"]}

Symmetric == Permutations(Client)
=============================================================================
