---------------------------- MODULE HydirRevisions ----------------------------
(***************************************************************************)
(* Revisions of one project of hydird (crates/hydir-server/src/main.rs).   *)
(*                                                                         *)
(* Seven handlers commit a new revision (upload_binary, apply_patch of v1  *)
(* and of v2, transform, rebuild, add_annotation, save_analysis_model);    *)
(* lift, get_program_artifact, compile_patch and the Ghidra handlers store *)
(* an artifact at an existing one.  Each reads the database, awaits        *)
(* workers and content storage, and then commits one transaction, so any   *)
(* other handler may commit in between.                                    *)
(* A client names the revision it expects, retries with the same           *)
(* idempotency key, and may be gone before its answer comes.               *)
(*                                                                         *)
(* Abstracted: a binary is a name; what a worker makes of a binary and a   *)
(* request is the constant Rewritten; the snapshots Ghidra made of the     *)
(* functions of a binary are one row; the role checks, the validations and *)
(* every error may end a call at any step (action Drop).                   *)
(***************************************************************************)
EXTENDS Integers, FiniteSets

CONSTANTS
    Call,           \* calls that can be in flight at once
    Binary,         \* contents, named by their SHA-256
    What,           \* the payload of a patch, transform, annotation or model
    Rewritten,      \* [Binary \X What -> Binary]: what patching makes
    Request,        \* requests: [op, key, expected, what]
    None,           \* no row, no value
    MaxRevision,    \* bound: revisions of the project
    MaxAnnotations  \* annotations of a project for one binary (512)

Rewriters == {"patch1", "patch2", "rebuild"}     \* these make a new binary
Keepers == {"transform", "annotate", "model"}    \* these keep the binary
Keyed == Rewriters \cup Keepers                  \* these have a request table
Readers == {"lift", "program", "ghidra"}         \* these make an artifact only
Op == Keyed \cup {"upload"} \cup Readers

ASSUME NoneAssumption == None \notin Binary \cup Request
ASSUME RewrittenAssumption == Rewritten \in [Binary \X What -> Binary]
ASSUME RequestAssumption ==
    /\ Request \subseteq [op : Op, key : STRING, expected : Nat, what : What \cup Binary]
    /\ \A r \in Request : IF r.op = "upload" THEN r.what \in Binary ELSE r.what \in What
ASSUME BoundAssumption == MaxRevision \in Nat \ {0} /\ MaxAnnotations \in Nat \ {0}

VARIABLES
    current,      \* projects.current_revision
    binaryAt,     \* project_revisions: the binary of each revision, or None
    binaries,     \* table binaries
    requests,     \* patch_, transform_, rebuild_, annotation_ and
                  \* analysis_model_requests in one table
    artifacts,    \* table artifacts, with what each was computed from
    annotations,  \* table analyst_annotations
    models,       \* table analysis_models, with the model each was edited from
    snapshots,    \* table ghidra_snapshots, with what each was exported from
    call          \* calls in progress

tables == <<current, binaryAt, binaries, requests, artifacts, annotations, models,
            snapshots>>
vars == <<tables, call>>

Revision == 0..MaxRevision
Answer == [revision : Revision, binary : Binary \cup {None}]
CallState == [pc : {"idle", "prior", "project", "look", "fetch", "read", "bundle",
                    "store", "export", "analyze", "commit", "reply", "answered"},
              request : Request \cup {None},
              snapshot : Binary \cup {None},   \* the binary of the first read
              base : Binary \cup {None},       \* what the worker is given
              previous : Revision,             \* the saved model that was read
              answer : Answer \cup {None}]

\* Every table holds rows of its schema.
TypeOK ==
    /\ current \in Revision
    /\ binaryAt \in [Revision -> Binary \cup {None}]
    /\ binaries \subseteq Binary
    /\ requests \subseteq [table : Keyed, key : STRING, expected : Revision,
                           what : What, revision : Revision]
    /\ artifacts \subseteq [op : Op, revision : Revision, basis : Revision, of : Binary,
                            model : Revision]
    /\ annotations \subseteq [revision : Revision, binary : Binary]
    /\ models \subseteq [revision : Revision, binary : Binary, previous : Revision]
    /\ snapshots \subseteq [revision : Revision, binary : Binary, of : Binary]
    /\ call \in [Call -> CallState]

-----------------------------------------------------------------------------
(* Tables *)

IdleCall == [pc |-> "idle", request |-> None, snapshot |-> None, base |-> None,
             previous |-> 0, answer |-> None]

\* Both versions of apply_patch share patch_requests.
Table(op) == IF op = "patch2" THEN "patch1" ELSE op

PriorOf(r) == {q \in requests : q.table = Table(r.op) /\ q.key = r.key}

\* rebuild_replay compares no digest: a rebuild has no payload.
SameRequest(q, r) == /\ q.expected = r.expected
                     /\ q.table = "rebuild" \/ q.what = r.what

\* Mutant of LatestModel: the rows are sorted the other way.
OldestModel(b, n) ==
    LET saved == {m.revision : m \in {k \in models : k.binary = b /\ k.revision <= n}}
    IN IF saved = {} THEN 0 ELSE CHOOSE v \in saved : \A w \in saved : v <= w

\* saved_analysis_model: the newest model of the binary, 0 if there is none.
LatestModel(b, n) ==
    LET saved == {m.revision : m \in {k \in models : k.binary = b /\ k.revision <= n}}
    IN IF saved = {} THEN 0 ELSE CHOOSE v \in saved : \A w \in saved : w <= v

\* The binary a mutation gives the revision it creates.
Outcome(op, b, w) == CASE op = "upload" -> w
                       [] op \in Rewriters -> Rewritten[b, w]
                       [] op \in Keepers -> b

Set(c, s) == call' = [call EXCEPT ![c] = s]
Goto(c, pc) == Set(c, [call[c] EXCEPT !.pc = pc])
End(c) == Set(c, IdleCall)
Reply(c, n, b) ==
    Set(c, [call[c] EXCEPT !.pc = "answered", !.answer = [revision |-> n, binary |-> b]])

Init ==
    /\ current = 0
    /\ binaryAt = [n \in Revision |-> None]
    /\ binaries = {}
    /\ requests = {}
    /\ artifacts = {}
    /\ annotations = {}
    /\ models = {}
    /\ snapshots = {}
    /\ call = [c \in Call |-> IdleCall]

-----------------------------------------------------------------------------
(* Before the transaction *)

FirstStep(op) == CASE op = "upload" -> "commit"
                   [] op \in {"lift", "program", "patch2"} -> "fetch"
                   [] op = "ghidra" -> "project"
                   [] OTHER -> "prior"

Begin(c, r) ==
    /\ call[c].pc = "idle"
    /\ Set(c, [IdleCall EXCEPT !.request = r, !.pc = FirstStep(r.op)])
    /\ UNCHANGED tables

\* Mutant of Replay: the answer is read from the project, not from the row.
ReplayReadsProject(c) ==
    \E q \in PriorOf(call[c].request) :
        IF SameRequest(q, call[c].request)
        THEN Reply(c, current, binaryAt[current])
        ELSE End(c)

\* A key that is in use answers the retry, or refuses another request.
Replay(c) ==
    \E q \in PriorOf(call[c].request) :
        IF SameRequest(q, call[c].request)
        THEN Reply(c, q.revision, binaryAt[q.revision])
        ELSE End(c)

\* The project and the request table are read before anything is awaited;
\* add_annotation keeps the binary it saw.
Prior(c) ==
    /\ call[c].pc = "prior"
    /\ \/ Replay(c)
       \/ /\ PriorOf(call[c].request) = {}
          /\ Set(c, [call[c] EXCEPT !.pc = "fetch", !.snapshot = binaryAt[current]])
    /\ UNCHANGED tables

AfterFetch(op) == CASE op \in {"model", "program"} -> "read" [] op = "patch2" -> "bundle"
                    [] op = "lift" -> "store" [] op = "ghidra" -> "export"
                    [] OTHER -> "commit"

\* Mutant of Fetch: the revision is not compared with the expected one.
FetchUnchecked(c) ==
    /\ call[c].pc = "fetch"
    /\ binaryAt[current] # None
    /\ Set(c, [call[c] EXCEPT !.pc = AfterFetch(call[c].request.op),
                              !.base = binaryAt[current]])
    /\ UNCHANGED tables

\* current_binary wants the current revision; v2's apply_patch reads the
\* revision it names, whatever is current (binary_at_revision).
Fetch(c) ==
    LET r == call[c].request
        found == /\ r.op = "patch2" \/ r.expected = current
                 /\ r.expected \in Revision /\ binaryAt[r.expected] # None
    IN /\ call[c].pc = "fetch"
       /\ IF found THEN Set(c, [call[c] EXCEPT !.pc = AfterFetch(r.op),
                                               !.base = binaryAt[r.expected]])
                   ELSE End(c)
       /\ UNCHANGED tables

AfterRead(op) == IF op = "program" THEN "store" ELSE "commit"

\* Mutant of ReadModel: the newest model of all is read.
ReadNewestModel(c) ==
    /\ call[c].pc = "read"
    /\ Set(c, [call[c] EXCEPT !.pc = AfterRead(call[c].request.op),
                 !.previous = LatestModel(call[c].base, current)])
    /\ UNCHANGED tables

\* save_analysis_model reads the model that the client's edit is applied to, and
\* get_program_artifact the one that types what it makes.
ReadModel(c) ==
    /\ call[c].pc = "read"
    /\ Set(c, [call[c] EXCEPT !.pc = AfterRead(call[c].request.op),
                 !.previous = LatestModel(call[c].base, call[c].request.expected)])
    /\ UNCHANGED tables

ArtifactRow(c, n) == [op |-> call[c].request.op, revision |-> n,
                      basis |-> call[c].request.expected, of |-> call[c].base,
                      model |-> call[c].previous]

\* store_artifact: the result of a worker, at the revision the client named.
Store(c) ==
    /\ call[c].pc \in {"store", "bundle"}
    /\ artifacts' = artifacts \cup {ArtifactRow(c, call[c].request.expected)}
    /\ IF call[c].pc = "store" THEN Reply(c, call[c].request.expected, None)
                               ELSE Goto(c, "commit")
    /\ UNCHANGED <<current, binaryAt, binaries, requests, annotations, models, snapshots>>

\* analyze_ghidra_snapshot and its siblings read the project, which has to be at
\* the revision the client named.
ReadProject(c) ==
    /\ call[c].pc = "project"
    /\ IF call[c].request.expected = current /\ binaryAt[current] # None
       THEN Set(c, [call[c] EXCEPT !.pc = "look", !.snapshot = binaryAt[current]])
       ELSE End(c)
    /\ UNCHANGED tables

CachedFor(b) == {s \in snapshots : s.binary = b}

\* cached_ghidra_snapshot, or the client sends a snapshot, which its worker wants
\* to be of the binary of the first read.
LookUp(c) ==
    /\ call[c].pc = "look"
    /\ \/ CachedFor(call[c].snapshot) = {} /\ Goto(c, "fetch")
       \/ \E s \in CachedFor(call[c].snapshot) :
             Set(c, [call[c] EXCEPT !.pc = "analyze", !.base = s.of])
       \/ Set(c, [call[c] EXCEPT !.pc = "analyze", !.base = call[c].snapshot])
    /\ UNCHANGED tables

\* automatic_ghidra_snapshot exports what was fetched; save_ghidra_snapshot
\* wants it to be of the binary of the first read, and replaces an older row
\* even if the project has moved on.
Export(c) ==
    LET b == call[c].snapshot
        row == [revision |-> call[c].request.expected, binary |-> b, of |-> call[c].base]
    IN /\ call[c].pc = "export"
       /\ IF call[c].base = b
          THEN /\ snapshots' = (snapshots \ CachedFor(b)) \cup {row}
               /\ Goto(c, "analyze")
          ELSE End(c) /\ UNCHANGED snapshots
       /\ UNCHANGED <<current, binaryAt, binaries, requests, artifacts, annotations, models>>

\* The artifact is inserted only while the revision and its binary are current.
StoreAnalysis(c) ==
    LET n == call[c].request.expected IN
    /\ call[c].pc = "analyze"
    /\ IF n = current /\ binaryAt[current] = call[c].snapshot
       THEN artifacts' = artifacts \cup {ArtifactRow(c, n)} /\ Reply(c, n, None)
       ELSE End(c) /\ UNCHANGED artifacts
    /\ UNCHANGED <<current, binaryAt, binaries, requests, annotations, models, snapshots>>

-----------------------------------------------------------------------------
(* The transactions *)

\* INSERT INTO project_revisions; UPDATE projects SET current_revision.  The
\* primary key and the foreign key must hold.
InsertRevision(n, b) ==
    /\ n \in Revision
    /\ binaryAt[n] = None
    /\ b \in binaries'
    /\ binaryAt' = [binaryAt EXCEPT ![n] = b]
    /\ current' = n

InsertRequest(r, n) ==
    requests' = requests \cup {[table |-> Table(r.op), key |-> r.key,
                                expected |-> r.expected, what |-> r.what,
                                revision |-> n]}

\* Mutant of CommitUpload: INSERT OR REPLACE, and a retry compares no content.
CommitUploadReplaces(c) ==
    LET r == call[c].request IN
    /\ call[c].pc = "commit" /\ r.op = "upload"
    /\ current \in {r.expected, r.expected + 1}
    /\ r.expected + 1 \in Revision
    /\ binaries' = binaries \cup {r.what}
    /\ binaryAt' = [binaryAt EXCEPT ![r.expected + 1] = r.what]
    /\ current' = r.expected + 1
    /\ Goto(c, "reply")
    /\ UNCHANGED <<requests, artifacts, annotations, models, snapshots>>

\* An upload has no key: it is a retry when the next revision is current and
\* has the same content.  Its answer is read after the transaction.
CommitUpload(c) ==
    LET r == call[c].request IN
    /\ call[c].pc = "commit" /\ r.op = "upload"
    /\ \/ /\ current = r.expected
          /\ binaries' = binaries \cup {r.what}
          /\ InsertRevision(r.expected + 1, r.what)
          /\ Goto(c, "reply")
          /\ UNCHANGED <<requests, artifacts, annotations, models, snapshots>>
       \/ /\ current = r.expected + 1 /\ binaryAt[current] = r.what
          /\ Goto(c, "reply")
          /\ UNCHANGED tables
       \/ /\ current # r.expected
          /\ ~(current = r.expected + 1 /\ binaryAt[current] = r.what)
          /\ End(c)
          /\ UNCHANGED tables

UploadReply(c) ==
    /\ call[c].pc = "reply"
    /\ Reply(c, current, binaryAt[current])
    /\ UNCHANGED tables

\* What every keyed transaction checks before it writes.
Admitted(r) == PriorOf(r) = {} /\ current = r.expected

\* The row of a keyed request, its revision and the answer to its client.
Record(c, b) ==
    LET r == call[c].request IN
    /\ InsertRequest(r, r.expected + 1)
    /\ InsertRevision(r.expected + 1, b)
    /\ Reply(c, r.expected + 1, b)

\* apply_patch and rebuild insert the binary they made, and it is an artifact.
CommitRewrite(c) ==
    LET r == call[c].request
        made == Outcome(r.op, call[c].base, r.what)
    IN /\ Admitted(r)
       /\ binaries' = binaries \cup {made}
       /\ Record(c, made)
       /\ artifacts' = artifacts \cup {ArtifactRow(c, r.expected + 1)}
       /\ UNCHANGED <<annotations, models, snapshots>>

\* transform keeps the binary it fetched and stores IR and a report.
CommitTransform(c) ==
    LET r == call[c].request IN
    /\ Admitted(r)
    /\ UNCHANGED <<binaries, annotations, models, snapshots>>
    /\ Record(c, call[c].base)
    /\ artifacts' = artifacts \cup {ArtifactRow(c, r.expected + 1)}

\* save_analysis_model compares the revision together with its binary.
CommitModel(c) ==
    LET r == call[c].request IN
    /\ Admitted(r)
    /\ binaryAt[current] = call[c].base
    /\ UNCHANGED <<binaries, artifacts, annotations, snapshots>>
    /\ Record(c, call[c].base)
    /\ models' = models \cup {[revision |-> r.expected + 1, binary |-> call[c].base,
                               previous |-> call[c].previous]}

AnnotationsOf(b) == {a \in annotations : a.binary = b}

\* add_annotation writes the binary of its first read.
CommitAnnotation(c) ==
    LET r == call[c].request
        b == call[c].snapshot
    IN /\ Admitted(r)
       /\ Cardinality(AnnotationsOf(b)) < MaxAnnotations
       /\ UNCHANGED <<binaries, artifacts, models, snapshots>>
       /\ Record(c, b)
       /\ annotations' = annotations \cup {[revision |-> r.expected + 1, binary |-> b]}

CommitOf(c) == CASE call[c].request.op \in Rewriters -> CommitRewrite(c)
                 [] call[c].request.op = "transform" -> CommitTransform(c)
                 [] call[c].request.op = "model" -> CommitModel(c)
                 [] call[c].request.op = "annotate" -> CommitAnnotation(c)

CommitKeyed(c) ==
    /\ call[c].pc = "commit" /\ call[c].request.op \in Keyed
    /\ \/ Replay(c) /\ UNCHANGED tables
       \/ CommitOf(c)

\* A stale revision, a violated constraint, a refused role, an error of a
\* worker or of storage, a closed connection or a crash of the server.
Drop(c) ==
    /\ call[c].pc # "idle"
    /\ End(c)
    /\ UNCHANGED tables

-----------------------------------------------------------------------------
Next ==
    \E c \in Call :
        \/ \E r \in Request : Begin(c, r)
        \/ Prior(c) \/ Fetch(c) \/ ReadModel(c) \/ Store(c)
        \/ ReadProject(c) \/ LookUp(c) \/ Export(c) \/ StoreAnalysis(c)
        \/ CommitUpload(c) \/ UploadReply(c) \/ CommitKeyed(c)
        \/ Drop(c)

Spec == Init /\ [][Next]_vars

-----------------------------------------------------------------------------
(* Properties *)

\* A keyed mutation creates the revision after the one its client named, no
\* other mutation creates it too, and its binary is what the mutation makes of
\* the binary the client named (for annotations see AnnotationKeepsBinary).
MutationsApplyToTheirBase ==
    \A q \in requests :
        /\ q.revision = q.expected + 1
        /\ \A p \in requests : p.revision = q.revision => p = q
        /\ q.table # "annotate" =>
              binaryAt[q.revision] = Outcome(q.table, binaryAt[q.expected], q.what)

\* "an artifact cannot silently be associated with a different ELF": every
\* artifact, and every cached snapshot, was computed from the binary of the
\* revision its client named, and what a model types from the newest model of
\* that revision, whatever was committed, cached or saved while it was computed.
ArtifactsMatchTheirBinary ==
    /\ \A a \in artifacts :
          /\ a.of = binaryAt[a.basis] /\ a.revision \in {a.basis, a.basis + 1}
          /\ a.op = "program" => a.model = LatestModel(a.of, a.basis)
    /\ \A s \in snapshots : s.of = s.binary /\ binaryAt[s.revision] = s.binary

\* A client whose mutation is answered, at once or by a later retry, is told
\* the revision its own request created and the binary that revision has.
AnswersNameTheirMutation ==
    \A c \in Call : call[c].pc = "answered" /\ call[c].request.op \in Keyed =>
        /\ call[c].answer = [revision |-> call[c].request.expected + 1,
                             binary |-> binaryAt[call[c].request.expected + 1]]
        /\ \E q \in PriorOf(call[c].request) : SameRequest(q, call[c].request)

\* No edit of a model is lost: each saved model was edited from the newest one
\* of its binary.
ModelsFormChains ==
    \A m \in models : ~\E k \in models :
        k.binary = m.binary /\ m.previous < k.revision /\ k.revision < m.revision

Project == INSTANCE HydirProject WITH history <- [n \in 1..current |-> binaryAt[n]]

\* Revisions are immutable and appended one at a time.
ImplementsProject == Project!Spec

\* "Subsequent reads and mutations supply the expected revision so an artifact
\* cannot silently be associated with a different ELF": a revision that only
\* adds an analyst's fact has the binary of the revision it was added to.
AnnotationKeepsBinary ==
    \A q \in requests : q.table = "annotate" =>
        binaryAt[q.revision] = binaryAt[q.expected]
=============================================================================
