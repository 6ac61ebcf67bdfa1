----------------------------- MODULE HydirProject -----------------------------
(***************************************************************************)
(* What hydird promises about a project: a history of binaries, each       *)
(* revision of which is immutable once it exists, and which grows by one   *)
(* revision at a time.  HydirRevisions implements it.                      *)
(***************************************************************************)
EXTENDS Naturals, Sequences

CONSTANT Binary

VARIABLE history

Init == history = <<>>

Commit(b) == history' = Append(history, b)

Next == \E b \in Binary : Commit(b)

Spec == Init /\ [][Next]_history
=============================================================================
