---------------------------- MODULE MCHydirJobs ----------------------------
(***************************************************************************)
(* Small instances of HydirJobs for TLC.                                   *)
(***************************************************************************)
EXTENDS HydirJobs, TLC

Req(p, k, i, v, w) == [project |-> p, key |-> k, by |-> i, revision |-> v, what |-> w]

\* ann asks for two jobs, so that a limit of one unfinished job bites, and uses
\* one of the keys for another job.
Requests == {Req("p", "k1", "ann", 1, "f"), Req("p", "k2", "ann", 1, "f"),
             Req("p", "k1", "ann", 1, "g")}

\* One job, with every fault the bounds allow.
OneRequest == {Req("p", "k1", "ann", 1, "f")}

Symmetric == Permutations(Job) \cup Permutations(Call)
=============================================================================
