-------------------------- MODULE MCHydirRevisions --------------------------
(***************************************************************************)
(* Small instances of HydirRevisions for TLC.                              *)
(***************************************************************************)
EXTENDS HydirRevisions, TLC

CONSTANTS b1, b2, b3, w, v

Req(o, k, n, x) == [op |-> o, key |-> k, expected |-> n, what |-> x]
Upload(n, b) == Req("upload", "", n, b)

\* Patching turns the first binary into the second and leaves the others.
Patched == [p \in {b1, b2, b3} \X {w, v} |->
              IF p[1] = b1 THEN b2 ELSE b3]

\* Calls of every kind race at the first revisions, under shared keys; then
\* another binary comes and goes, and the models and the snapshot of the first
\* one are used again.
Requests == {Upload(0, b1), Upload(2, b2), Upload(3, b1),
    Req("patch2", "k", 1, w), Req("patch1", "k", 2, v), Req("transform", "k", 2, w),
    Req("annotate", "k", 1, w),
    Req("model", "k", 1, w), Req("model", "j", 1, w), Req("model", "l", 2, w),
    Req("model", "j", 4, w), Req("rebuild", "k", 2, w),
    Req("program", "", 3, w), Req("ghidra", "", 1, w), Req("ghidra", "", 4, w)}

\* Two uploads, the second of which relies on the first, and a fact for the
\* revision it will make.
PipelinedRequests == {Upload(0, b1), Upload(1, b2), Req("annotate", "k", 2, w)}

Symmetric == Permutations(Call)
=============================================================================
