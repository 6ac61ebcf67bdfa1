------------------------ MODULE HydirRevisionsProofs ------------------------
(***************************************************************************)
(* For any calls, requests, binaries and bounds: the revisions of a        *)
(* project are an append-only history, and what the tables say of a        *)
(* revision is of the binary that revision has.                            *)
(***************************************************************************)
EXTENDS HydirRevisions, SequenceTheorems, WellFoundedInduction, TLAPS

\* What a call may do.
Moves(c) ==
    \/ \E r \in Request : Begin(c, r)
    \/ Prior(c) \/ Fetch(c) \/ ReadModel(c) \/ Store(c)
    \/ ReadProject(c) \/ LookUp(c) \/ Export(c) \/ StoreAnalysis(c)
    \/ CommitUpload(c) \/ UploadReply(c) \/ CommitKeyed(c)
    \/ Drop(c)

\* The revisions that exist are those up to the current one.
HistoryInv == \A n \in Revision : binaryAt[n] # None <=> n \in 1..current

Fetched == {"read", "bundle", "store", "export"}
Looked == {"look", "export", "analyze"}

\* A call that has fetched holds the binary of the revision its client named,
\* and so does one that has read the project for Ghidra.
CallInv(c) ==
    LET r == call[c].request IN
    /\ call[c].pc # "idle" => r \in Request
    /\ call[c].pc \in Fetched \/ (call[c].pc = "commit" /\ r.op # "upload") =>
          /\ r.expected \in 1..current
          /\ call[c].base = binaryAt[r.expected]
    /\ call[c].pc = "prior" => r.op # "ghidra"
    /\ call[c].pc = "read" => r.op \in {"model", "program"}
    /\ call[c].pc = "bundle" => r.op = "patch2"
    /\ call[c].pc = "store" => r.op \in {"lift", "program"}
    /\ call[c].pc = "reply" => r.op = "upload"
    /\ call[c].pc \in Looked \cup {"project"} => r.op = "ghidra"
    /\ (call[c].pc = "fetch" /\ r.op = "ghidra") \/ call[c].pc \in Looked =>
          /\ r.expected \in 1..current
          /\ call[c].snapshot = binaryAt[r.expected]
    /\ call[c].pc = "analyze" => call[c].base = call[c].snapshot

CallsInv == \A c \in Call : CallInv(c)

\* A keyed request has made one revision, which exists.
RequestsInv == \A q \in requests : q.expected \in Nat \ {0} /\ q.revision \in 1..current

\* A cached snapshot is of the binary of a revision that exists.
SnapshotsInv ==
    \A s \in snapshots : /\ s.revision \in 1..current
                         /\ s.of = s.binary /\ s.binary = binaryAt[s.revision]

\* An artifact was computed from the binary of a revision that exists.
ArtifactsInv ==
    \A a \in artifacts : /\ a.basis \in 1..current
                         /\ a.of = binaryAt[a.basis]
                         /\ a.revision \in {a.basis, a.basis + 1}

\* What a model types is typed by the newest model of the revision it is of, and
\* so is what is about to be stored.
ProgramsInv ==
    /\ \A a \in artifacts : a.op = "program" => a.model = LatestModel(a.of, a.basis)
    /\ \A c \in Call : call[c].pc = "store" /\ call[c].request.op = "program" =>
          call[c].previous = LatestModel(call[c].base, call[c].request.expected)

\* A model about to be saved is edited from the newest one of its binary up to
\* the revision that the client named, which is current if it is saved.
ModelsInv ==
    /\ \A m \in models : m.revision \in 1..current
    /\ \A c \in Call : call[c].pc = "commit" /\ call[c].request.op = "model" =>
         \A k \in models : k.binary = call[c].base /\ k.revision <= call[c].request.expected
                           => k.revision <= call[c].previous

IInv == /\ TypeOK /\ HistoryInv /\ CallsInv /\ RequestsInv
        /\ SnapshotsInv /\ ArtifactsInv /\ ProgramsInv /\ ModelsInv
        /\ MutationsApplyToTheirBase /\ AnswersNameTheirMutation /\ ModelsFormChains

-----------------------------------------------------------------------------
(* Transactions *)

\* A set of numbers with a bound has a largest element.
LEMMA LargestExists ==
    ASSUME NEW S \in SUBSET Revision, S # {}
    PROVE  \E v \in S : \A w \in S : w <= v
  <1> DEFINE T == {MaxRevision - v : v \in S}
             R == OpToRel(<, Nat)
  <1>0. MaxRevision \in Nat /\ \A v \in S : v \in Nat /\ MaxRevision - v \in Nat
    BY BoundAssumption DEF Revision
  <1>1. T \subseteq Nat /\ T # {}
    BY <1>0
  <1>2. PICK x \in T : \A y \in T : <<y, x>> \notin R
    BY <1>1, NatLessThanWellFounded, WFMin
  <1>3. \A y \in T : ~(y < x)
    BY <1>1, <1>2 DEF OpToRel
  <1>4. PICK v \in S : x = MaxRevision - v
    OBVIOUS
  <1>5. ASSUME NEW w \in S PROVE w <= v
    <2>1. ~(MaxRevision - w < x)
      BY <1>3
    <2> QED
      BY <1>0, <1>4, <2>1
  <1> QED
    BY <1>5

\* saved_analysis_model returns the newest model of a binary.
LEMMA NewestModel ==
    ASSUME models \subseteq [revision : Revision, binary : Binary, previous : Revision],
           NEW b, NEW n
    PROVE  /\ LatestModel(b, n) \in Revision
           /\ \A m \in models : m.binary = b /\ m.revision <= n
                                => m.revision <= LatestModel(b, n)
  <1> DEFINE saved == {m.revision : m \in {k \in models : k.binary = b /\ k.revision <= n}}
  <1>1. CASE saved = {}
    <2>1. LatestModel(b, n) = 0
      BY <1>1 DEF LatestModel
    <2> QED
      BY <1>1, <2>1, BoundAssumption DEF Revision
  <1>2. CASE saved # {}
    <2>1. saved \in SUBSET Revision
      OBVIOUS
    <2>2. \E v \in saved : \A w \in saved : w <= v
      BY <1>2, <2>1, LargestExists
    <2>3. LatestModel(b, n) = CHOOSE v \in saved : \A w \in saved : w <= v
      BY <1>2 DEF LatestModel
    <2>4. LatestModel(b, n) \in saved /\ \A w \in saved : w <= LatestModel(b, n)
      BY <2>2, <2>3
    <2> QED
      BY <2>1, <2>4
  <1> QED
    BY <1>1, <1>2

\* What the transaction of a keyed request writes: its row, one revision and
\* rows of that revision.
Committed(c, b) ==
    LET r == call[c].request IN
    /\ Admitted(r)
    /\ b \in Binary /\ binaries' \in SUBSET Binary
    /\ r.op # "annotate" => b = Outcome(r.op, call[c].base, r.what)
    /\ Record(c, b)
    /\ artifacts' \subseteq artifacts \cup {ArtifactRow(c, r.expected + 1)}
    /\ annotations' \subseteq annotations \cup {[revision |-> r.expected + 1, binary |-> b]}
    /\ models' \subseteq models \cup {[revision |-> r.expected + 1,
                                        binary |-> call[c].base,
                                        previous |-> call[c].previous]}
    /\ models \subseteq models' /\ (r.op # "model" => models' = models)
    /\ UNCHANGED snapshots

\* What patching makes.
Made(b, w) == Rewritten[b, w]

\* What the kinds of mutation make of a binary.
LEMMA Outcomes ==
    ASSUME NEW op, NEW b, NEW w
    PROVE  /\ op \in Rewriters => Outcome(op, b, w) = Made(b, w)
           /\ op \in Keepers => Outcome(op, b, w) = b
  <1>1. Outcome(op, b, w) = CASE op = "upload" -> w [] op \in Rewriters -> Made(b, w)
                              [] op \in Keepers -> b
    BY DEF Outcome, Made
  <1> QED
    BY <1>1 DEF Rewriters, Keepers

\* Patching makes a binary.
LEMMA PatchingMakesBinaries ==
    ASSUME NEW b \in Binary, NEW w \in What
    PROVE  Made(b, w) \in Binary
  BY RewrittenAssumption DEF Made

\* Each of the six transactions does that.
LEMMA KeyedCommits ==
    ASSUME TypeOK, HistoryInv, CallsInv, NEW c \in Call, call[c].pc = "commit",
           call[c].request.op \in Keyed, CommitOf(c)
    PROVE  \E b \in Binary : Committed(c, b)
  <1> DEFINE r == call[c].request
  <1>a. r \in Request /\ r.op # "upload"
    BY DEF CallsInv, CallInv, Keyed, Rewriters, Keepers
  <1>b. r.what \in What /\ r.expected \in Nat
    BY <1>a, RequestAssumption
  <1>c. call[c].base \in Binary
    <2>1. r.expected \in 1..current /\ call[c].base = binaryAt[r.expected]
      BY <1>a DEF CallsInv, CallInv
    <2>2. r.expected \in Revision /\ current \in Nat
      BY <2>1, BoundAssumption DEF TypeOK, Revision
    <2> QED
      BY <2>1, <2>2 DEF TypeOK, HistoryInv
  <1>1. r \in Request /\ r.what \in What /\ r.expected \in Nat /\ call[c].base \in Binary
    BY <1>a, <1>b, <1>c
  <1>2. CASE r.op \in Rewriters
    <2>1. CommitRewrite(c)
      BY <1>2 DEF CommitOf, Rewriters
    <2>2. Outcome(r.op, call[c].base, r.what) = Made(call[c].base, r.what)
      BY <1>2, Outcomes
    <2>3. Made(call[c].base, r.what) \in Binary
      BY <1>1, PatchingMakesBinaries
    <2> QED
      BY <1>2, <2>1, <2>2, <2>3 DEF CommitRewrite, Committed, Rewriters, TypeOK
  <1>3. CASE r.op \in Keepers
    <2>1. r.op # "annotate" => Outcome(r.op, call[c].base, r.what) = call[c].base
      BY <1>3, Outcomes
    <2>2. CASE r.op = "transform"
      <3>1. CommitTransform(c)
        BY <2>2 DEF CommitOf, Rewriters
      <3> QED
        BY <1>1, <2>1, <2>2, <3>1 DEF CommitTransform, Committed, TypeOK
    <2>3. CASE r.op = "model"
      <3>1. CommitModel(c)
        BY <2>3 DEF CommitOf, Rewriters
      <3> QED
        BY <1>1, <2>1, <2>3, <3>1 DEF CommitModel, Committed, TypeOK
    <2>4. CASE r.op = "annotate"
      <3>1. CommitAnnotation(c)
        BY <2>4 DEF CommitOf, Rewriters
      <3>2. call[c].snapshot \in Binary
        BY <3>1 DEF CommitAnnotation, Record, InsertRevision, TypeOK
      <3> QED
        BY <2>4, <3>1, <3>2 DEF CommitAnnotation, Committed, TypeOK
    <2> QED
      BY <1>3, <2>2, <2>3, <2>4 DEF Keepers
  <1> QED
    BY <1>1, <1>2, <1>3 DEF Keyed

\* Every transaction that adds a revision adds the next one.
HistoryStep ==
    \/ UNCHANGED <<current, binaryAt>>
    \/ /\ current + 1 \in Revision /\ current' = current + 1
       /\ \E b \in Binary : binaryAt' = [binaryAt EXCEPT ![current + 1] = b]

\* No step changes a revision or skips one.
LEMMA NextHistory ==
    ASSUME TypeOK, HistoryInv, CallsInv, [Next]_vars
    PROVE  HistoryStep
  <1>1. ASSUME NEW c \in Call, CommitUpload(c) PROVE HistoryStep
    <2> DEFINE r == call[c].request
    <2>1. r \in Request /\ r.op = "upload"
      BY <1>1 DEF CommitUpload, CallsInv, CallInv
    <2>2. r.what \in Binary
      BY <2>1, RequestAssumption
    <2> QED
      BY <1>1, <2>2 DEF CommitUpload, InsertRevision, HistoryStep, tables
  <1>2. ASSUME NEW c \in Call, CommitKeyed(c) PROVE HistoryStep
    <2>1. CASE UNCHANGED tables
      BY <2>1 DEF tables, HistoryStep
    <2>2. CASE CommitOf(c)
      <3>1. PICK b \in Binary : Committed(c, b)
        BY <1>2, <2>2, KeyedCommits DEF CommitKeyed
      <3> QED
        BY <3>1 DEF Committed, Admitted, Record, InsertRevision, HistoryStep
    <2> QED
      BY <1>2, <2>1, <2>2 DEF CommitKeyed
  <1>3. CASE ~\E c \in Call : CommitUpload(c) \/ CommitKeyed(c)
    BY <1>3 DEF Next, Begin, Prior, Fetch, ReadModel, Store, ReadProject, LookUp, Export,
       StoreAnalysis, UploadReply, Drop, tables, vars, HistoryStep
  <1> QED
    BY <1>1, <1>2, <1>3

\* What a step of the history leaves: the revisions that existed, with their
\* binaries, and no gap.
LEMMA HistoryGrows ==
    ASSUME TypeOK, HistoryInv, HistoryStep
    PROVE  /\ HistoryInv'
           /\ current' \in Revision /\ binaryAt' \in [Revision -> Binary \cup {None}]
           /\ current <= current'
           /\ \A n \in 1..current : binaryAt'[n] = binaryAt[n] /\ n \in Revision
  <1>0. /\ MaxRevision \in Nat /\ current \in 0..MaxRevision /\ None \notin Binary
    BY BoundAssumption, NoneAssumption DEF TypeOK, Revision
  <1>1. CASE UNCHANGED <<current, binaryAt>>
    BY <1>0, <1>1 DEF HistoryInv, TypeOK, Revision
  <1>2. ASSUME current + 1 \in Revision, current' = current + 1,
               NEW b \in Binary, binaryAt' = [binaryAt EXCEPT ![current + 1] = b]
        PROVE  /\ HistoryInv'
               /\ current' \in Revision /\ binaryAt' \in [Revision -> Binary \cup {None}]
               /\ current <= current'
               /\ \A n \in 1..current : binaryAt'[n] = binaryAt[n] /\ n \in Revision
    BY <1>0, <1>2 DEF HistoryInv, TypeOK, Revision
  <1> QED
    BY <1>1, <1>2 DEF HistoryStep

-----------------------------------------------------------------------------
(* Types *)

\* Where the handlers begin.
LEMMA FirstSteps ==
    ASSUME NEW op
    PROVE  /\ FirstStep(op) \in {"commit", "fetch", "prior", "project"}
           /\ FirstStep(op) = "commit" => op = "upload"
           /\ FirstStep(op) = "project" <=> op = "ghidra"
  BY DEF FirstStep

\* Where they go with the binary they fetched.
LEMMA AfterFetches ==
    ASSUME NEW op
    PROVE  /\ AfterFetch(op) \in {"read", "bundle", "store", "export", "commit"}
           /\ AfterFetch(op) = "read" <=> op \in {"model", "program"}
           /\ AfterFetch(op) = "bundle" => op = "patch2"
           /\ AfterFetch(op) = "store" => op = "lift"
           /\ AfterFetch(op) = "export" => op = "ghidra"
  BY DEF AfterFetch

\* The three ways a call moves keep its type.
LEMMA CallTypes ==
    ASSUME call \in [Call -> CallState], NEW c \in Call
    PROVE  /\ \A s \in CallState : Set(c, s) => call' \in [Call -> CallState]
           /\ \A pc \in {"fetch", "analyze", "commit", "reply"} :
                 Goto(c, pc) => call' \in [Call -> CallState]
           /\ \A n \in Revision, b \in Binary \cup {None} :
                 Reply(c, n, b) => call' \in [Call -> CallState]
           /\ End(c) => call' \in [Call -> CallState]
  <1>1. \A s \in CallState : Set(c, s) => call' \in [Call -> CallState]
    BY DEF Set
  <1>2. \A pc \in {"fetch", "analyze", "commit", "reply"} :
           [call[c] EXCEPT !.pc = pc] \in CallState
    BY DEF CallState
  <1>3. \A n \in Revision, b \in Binary \cup {None} :
           [call[c] EXCEPT !.pc = "answered", !.answer = [revision |-> n, binary |-> b]]
               \in CallState
    BY DEF CallState, Answer
  <1>4. IdleCall \in CallState
    BY BoundAssumption DEF IdleCall, CallState, Revision
  <1> QED
    BY <1>1, <1>2, <1>3, <1>4 DEF Goto, Reply, End

\* A replayed answer has its type.
LEMMA ReplayTypes ==
    ASSUME TypeOK, NEW c \in Call, Replay(c)
    PROVE  call' \in [Call -> CallState]
  <1>1. PICK q \in PriorOf(call[c].request) :
            IF SameRequest(q, call[c].request)
            THEN Reply(c, q.revision, binaryAt[q.revision]) ELSE End(c)
    BY DEF Replay
  <1>2. q.revision \in Revision /\ binaryAt[q.revision] \in Binary \cup {None}
    BY DEF PriorOf, TypeOK
  <1> QED
    BY <1>1, <1>2, CallTypes DEF TypeOK

\* Every step keeps the types of the calls.
LEMMA NextCallTypes ==
    ASSUME TypeOK, HistoryInv, CallsInv, NEW c \in Call,
           Moves(c)
    PROVE  call' \in [Call -> CallState]
  <1> USE DEF TypeOK
  <1> DEFINE r == call[c].request
  <1>1. ASSUME NEW q \in Request, Begin(c, q) PROVE call' \in [Call -> CallState]
    <2> DEFINE pc == FirstStep(q.op)
    <2>1. pc \in {"commit", "fetch", "prior", "project"}
      BY FirstSteps
    <2>2. Set(c, [IdleCall EXCEPT !.request = q, !.pc = pc])
      BY <1>1 DEF Begin
    <2> HIDE DEF pc
    <2>3. IdleCall \in CallState
      BY BoundAssumption DEF IdleCall, CallState, Revision
    <2>4. [IdleCall EXCEPT !.request = q, !.pc = pc] \in CallState
      BY <2>1, <2>3 DEF CallState
    <2> QED
      BY <2>2, <2>4, CallTypes
  <1>2. CASE Prior(c)
    <2>1. CASE Replay(c)
      BY <2>1, ReplayTypes
    <2>2. CASE Set(c, [call[c] EXCEPT !.pc = "fetch", !.snapshot = binaryAt[current]])
      <3>1. [call[c] EXCEPT !.pc = "fetch", !.snapshot = binaryAt[current]] \in CallState
        BY ZenonT(40) DEF CallState
      <3> QED
        BY <2>2, <3>1, CallTypes
    <2> QED
      BY <1>2, <2>1, <2>2 DEF Prior
  <1>3. CASE Fetch(c)
    <2>1. CASE End(c)
      BY <2>1, CallTypes
    <2>2. CASE /\ r.expected \in Revision
               /\ Set(c, [call[c] EXCEPT !.pc = AfterFetch(r.op), !.base = binaryAt[r.expected]])
      <3>1. AfterFetch(r.op) \in {"read", "bundle", "store", "export", "commit"}
        BY AfterFetches
      <3>2. [call[c] EXCEPT !.pc = AfterFetch(r.op), !.base = binaryAt[r.expected]]
                \in CallState
        BY <2>2, <3>1, ZenonT(40) DEF CallState
      <3> QED
        BY <2>2, <3>2, CallTypes
    <2> QED
      BY <1>3, <2>1, <2>2 DEF Fetch
  <1>4. CASE ReadModel(c)
    <2>1. LatestModel(call[c].base, r.expected) \in Revision
      BY NewestModel
    <2>2. AfterRead(r.op) \in {"store", "commit"}
      BY DEF AfterRead
    <2>3. [call[c] EXCEPT !.pc = AfterRead(r.op),
             !.previous = LatestModel(call[c].base, r.expected)] \in CallState
      BY <2>1, <2>2, ZenonT(40) DEF CallState
    <2> QED
      BY <1>4, <2>3, CallTypes DEF ReadModel
  <1>5. CASE Store(c)
    <2>1. r.expected \in Revision
      BY <1>5, BoundAssumption DEF Store, CallsInv, CallInv, Fetched, Revision
    <2> QED
      BY <1>5, <2>1, CallTypes DEF Store
  <1>6. CASE CommitUpload(c)
    BY <1>6, CallTypes DEF CommitUpload
  <1>7. CASE UploadReply(c)
    BY <1>7, CallTypes DEF UploadReply
  <1>8. CASE CommitKeyed(c)
    <2>1. CASE Replay(c)
      BY <2>1, ReplayTypes
    <2>2. CASE CommitOf(c)
      <3>1. PICK b \in Binary : Committed(c, b)
        BY <1>8, <2>2, KeyedCommits DEF CommitKeyed
      <3>2. r.expected + 1 \in Revision /\ Reply(c, r.expected + 1, b)
        BY <3>1 DEF Committed, Record, InsertRevision
      <3> QED
        BY <3>2, CallTypes
    <2> QED
      BY <1>8, <2>1, <2>2 DEF CommitKeyed
  <1>9. CASE Drop(c)
    BY <1>9, CallTypes DEF Drop
  <1>10. CASE ReadProject(c)
    <2>1. [call[c] EXCEPT !.pc = "look", !.snapshot = binaryAt[current]] \in CallState
      BY ZenonT(40) DEF CallState
    <2> QED
      BY <1>10, <2>1, CallTypes DEF ReadProject
  <1>11. CASE LookUp(c)
    <2>1. \A b \in Binary \cup {None} : [call[c] EXCEPT !.pc = "analyze", !.base = b] \in CallState
      BY ZenonT(40) DEF CallState
    <2>2. call[c].snapshot \in Binary \cup {None}
      BY DEF CallState
    <2>3. \A x \in CachedFor(call[c].snapshot) : x.of \in Binary
      BY DEF CachedFor
    <2> QED
      BY <1>11, <2>1, <2>2, <2>3, CallTypes DEF LookUp
  <1>12. CASE Export(c)
    BY <1>12, CallTypes DEF Export
  <1>13. CASE StoreAnalysis(c)
    <2>1. r.expected \in Revision
      BY <1>13, BoundAssumption DEF StoreAnalysis, CallsInv, CallInv, Looked, Revision
    <2> QED
      BY <1>13, <2>1, CallTypes DEF StoreAnalysis
  <1> QED
    BY <1>1, <1>2, <1>3, <1>4, <1>5, <1>6, <1>7, <1>8, <1>9, <1>10, <1>11, <1>12, <1>13
       DEF Moves

\* The row of an artifact has its type.
LEMMA RowTypes ==
    ASSUME TypeOK, HistoryInv, NEW c \in Call, NEW n \in Revision,
           call[c].request \in Request,
           call[c].request.expected \in 1..current,
           call[c].base = binaryAt[call[c].request.expected]
    PROVE  ArtifactRow(c, n) \in [op : Op, revision : Revision, basis : Revision, of : Binary,
                                  model : Revision]
  <1>1. call[c].request.expected \in Revision
    BY BoundAssumption DEF TypeOK, Revision
  <1>2. call[c].base \in Binary
    BY <1>1 DEF HistoryInv, TypeOK
  <1>3. call[c].previous \in Revision
    BY DEF TypeOK, CallState
  <1>4. call[c].request.op \in Op
    BY RequestAssumption
  <1> QED
    BY <1>1, <1>2, <1>3, <1>4 DEF ArtifactRow

\* Every step keeps the types of the tables.
LEMMA NextTypes ==
    ASSUME TypeOK, HistoryInv, CallsInv, [Next]_vars
    PROVE  TypeOK'
  <1> DEFINE Row == [op : Op, revision : Revision, basis : Revision, of : Binary,
                     model : Revision]
  <1>1. current' \in Revision /\ binaryAt' \in [Revision -> Binary \cup {None}]
    BY NextHistory, HistoryGrows
  <1>2. CASE UNCHANGED vars
    BY <1>2, SMTT(30) DEF vars, tables, TypeOK
  <1>3. CASE Next
    <2>1. PICK c \in Call : Moves(c)
      BY <1>3 DEF Next, Moves
    <2> DEFINE r == call[c].request
    <2>2. call' \in [Call -> CallState]
      BY <2>1, NextCallTypes
    <2>3. CASE UNCHANGED tables
      BY <2>2, <2>3 DEF tables, TypeOK
    <2>4. CASE Store(c)
      <3>1. r.expected \in 1..current /\ call[c].base = binaryAt[r.expected] /\ r \in Request
        BY <2>4 DEF Store, CallsInv, CallInv, Fetched
      <3>3. r.expected \in Revision
        BY <3>1, BoundAssumption DEF TypeOK, Revision
      <3>2. ArtifactRow(c, r.expected) \in Row
        BY <3>1, <3>3, RowTypes
      <3> QED
        BY <1>1, <2>2, <2>4, <3>2 DEF Store, TypeOK
    <2>7. CASE StoreAnalysis(c)
      <3>1. r.expected \in 1..current /\ call[c].base = binaryAt[r.expected] /\ r \in Request
        BY <2>7 DEF StoreAnalysis, CallsInv, CallInv, Looked
      <3>3. r.expected \in Revision
        BY <3>1, BoundAssumption DEF TypeOK, Revision
      <3>2. ArtifactRow(c, r.expected) \in Row
        BY <3>1, <3>3, RowTypes
      <3> QED
        BY <1>1, <2>2, <2>7, <3>2 DEF StoreAnalysis, TypeOK
    <2>8. CASE Export(c)
      <3>1. r.expected \in 1..current /\ call[c].snapshot = binaryAt[r.expected]
            /\ call[c].base = binaryAt[r.expected]
        BY <2>8 DEF Export, CallsInv, CallInv, Looked, Fetched
      <3>2. r.expected \in Revision /\ call[c].base \in Binary
        BY <3>1, BoundAssumption DEF HistoryInv, TypeOK, Revision
      <3> QED
        BY <1>1, <2>2, <2>8, <3>1, <3>2 DEF Export, TypeOK
    <2>5. CASE CommitUpload(c)
      <3>1. r \in Request /\ r.op = "upload"
        BY <2>5 DEF CommitUpload, CallsInv, CallInv
      <3>2. r.what \in Binary
        BY <3>1, RequestAssumption
      <3> QED
        BY <1>1, <2>2, <2>5, <3>2 DEF CommitUpload, tables, TypeOK
    <2>6. CASE CommitKeyed(c) /\ CommitOf(c)
      <3>1. PICK b \in Binary : Committed(c, b)
        BY <2>6, KeyedCommits DEF CommitKeyed
      <3>2. /\ r \in Request /\ r.op \in Keyed
            /\ r.expected \in 1..current /\ call[c].base = binaryAt[r.expected]
        BY <2>6 DEF CommitKeyed, CallsInv, CallInv, Keyed, Rewriters, Keepers
      <3>3. r.expected \in Revision /\ r.expected + 1 \in Revision
        BY <3>1, <3>2, BoundAssumption DEF Committed, Record, InsertRevision, TypeOK, Revision
      <3>4. call[c].base \in Binary
        BY <3>2, <3>3 DEF HistoryInv, TypeOK
      <3>5. r.what \in What /\ r.key \in STRING
        BY <3>2, RequestAssumption DEF Keyed, Rewriters, Keepers
      <3>6. Table(r.op) \in Keyed
        BY <3>2 DEF Table, Keyed, Rewriters, Keepers
      <3>7. requests' \subseteq [table : Keyed, key : STRING, expected : Revision,
                                 what : What, revision : Revision]
        BY <3>1, <3>3, <3>5, <3>6 DEF Committed, Record, InsertRequest, TypeOK
      <3>11. ArtifactRow(c, r.expected + 1) \in Row
        BY <3>2, <3>3, RowTypes
      <3>8. /\ artifacts' \subseteq Row
            /\ annotations' \subseteq [revision : Revision, binary : Binary]
        BY <3>1, <3>3, <3>4, <3>11 DEF Committed, TypeOK
      <3>9. call[c].previous \in Revision
        BY DEF TypeOK, CallState
      <3>10. models' \subseteq [revision : Revision, binary : Binary, previous : Revision]
        BY <3>1, <3>3, <3>4, <3>9 DEF Committed, TypeOK
      <3> QED
        BY <1>1, <2>2, <3>1, <3>7, <3>8, <3>10 DEF Committed, TypeOK
    <2> QED
      BY <2>1, <2>3, <2>4, <2>5, <2>6, <2>7, <2>8 DEF Moves, Begin, Prior, Fetch, ReadModel,
         ReadProject, LookUp, UploadReply, CommitKeyed, Drop
  <1> QED
    BY <1>2, <1>3

-----------------------------------------------------------------------------
(* Calls *)

\* A call that a step does not move keeps what it holds.
LEMMA CallUnmoved ==
    ASSUME TypeOK, HistoryInv, HistoryStep, NEW d \in Call, CallInv(d), call'[d] = call[d]
    PROVE  CallInv(d)'
  <1>1. /\ current \in Nat /\ current' \in Nat /\ current <= current'
        /\ \A n \in 1..current : binaryAt'[n] = binaryAt[n] /\ n \in 1..current'
    BY HistoryGrows, BoundAssumption DEF TypeOK, Revision
  <1> QED
    BY <1>1 DEF CallInv

\* A step moves one call.
LEMMA OneCallMoves ==
    ASSUME TypeOK, NEW c \in Call, NEW s, Set(c, s)
    PROVE  call'[c] = s /\ \A d \in Call \ {c} : call'[d] = call[d]
  BY DEF Set, TypeOK

\* What of a call the steps that keep its request change.
Same(c) == /\ call'[c].request = call[c].request /\ call'[c].base = call[c].base
           /\ call'[c].snapshot = call[c].snapshot
           /\ call'[c].previous = call[c].previous

\* Where the elementary moves leave a call.
LEMMA Moved ==
    ASSUME TypeOK, NEW c \in Call
    PROVE  /\ \A r : Begin(c, r) => call'[c].pc = FirstStep(r.op) /\ call'[c].request = r
           /\ \A pc : Goto(c, pc) => call'[c].pc = pc /\ Same(c)
           /\ \A n, b : Reply(c, n, b) => /\ call'[c].pc = "answered" /\ Same(c)
                                          /\ call'[c].answer = [revision |-> n, binary |-> b]
           /\ End(c) => call'[c].pc = "idle"
  <1>0. call[c] \in CallState
    BY DEF TypeOK
  <1>1. ASSUME NEW r, Begin(c, r)
        PROVE  call'[c].pc = FirstStep(r.op) /\ call'[c].request = r
    <2> DEFINE pc == FirstStep(r.op)
               m == [IdleCall EXCEPT !.request = r, !.pc = pc]
    <2>1. m.pc = pc /\ m.request = r
      BY DEF IdleCall
    <2>2. Set(c, m)
      BY <1>1 DEF Begin
    <2> HIDE DEF m
    <2> QED
      BY <2>1, <2>2, OneCallMoves
  <1>2. ASSUME NEW pc, Goto(c, pc) PROVE call'[c].pc = pc /\ Same(c)
    <2> DEFINE m == [call[c] EXCEPT !.pc = pc]
    <2>1. /\ m.pc = pc /\ m.request = call[c].request /\ m.base = call[c].base
          /\ m.snapshot = call[c].snapshot /\ m.previous = call[c].previous
      BY <1>0 DEF CallState
    <2>2. Set(c, m)
      BY <1>2 DEF Goto
    <2> HIDE DEF m
    <2> QED
      BY <2>1, <2>2, OneCallMoves DEF Same
  <1>3. ASSUME NEW n, NEW b, Reply(c, n, b)
        PROVE  /\ call'[c].pc = "answered" /\ Same(c)
               /\ call'[c].answer = [revision |-> n, binary |-> b]
    <2> DEFINE m == [call[c] EXCEPT !.pc = "answered",
                       !.answer = [revision |-> n, binary |-> b]]
    <2>1. /\ m.pc = "answered" /\ m.request = call[c].request /\ m.base = call[c].base
          /\ m.snapshot = call[c].snapshot /\ m.previous = call[c].previous
          /\ m.answer = [revision |-> n, binary |-> b]
      BY <1>0 DEF CallState
    <2>2. Set(c, m)
      BY <1>3 DEF Reply
    <2> HIDE DEF m
    <2> QED
      BY <2>1, <2>2, OneCallMoves DEF Same
  <1>4. End(c) => call'[c].pc = "idle"
    BY OneCallMoves DEF End, IdleCall
  <1> QED
    BY <1>1, <1>2, <1>3, <1>4

\* Where the reads of the database leave a call that does not end.
LEMMA ReadsMove ==
    ASSUME TypeOK, NEW c \in Call
    PROVE  /\ Prior(c) => Replay(c) \/ (/\ call'[c].pc = "fetch"
                                        /\ call'[c].request = call[c].request)
           /\ Fetch(c) => End(c) \/
                 LET n == call[c].request.expected IN
                 /\ n \in Revision /\ binaryAt[n] # None /\ call'[c].base = binaryAt[n]
                 /\ call'[c].pc = AfterFetch(call[c].request.op)
                 /\ call'[c].request = call[c].request
                 /\ call'[c].snapshot = call[c].snapshot
           /\ ReadModel(c) =>
                 /\ call'[c].pc = AfterRead(call[c].request.op)
                 /\ call'[c].request = call[c].request
                 /\ call'[c].base = call[c].base
                 /\ call'[c].previous = LatestModel(call[c].base, call[c].request.expected)
           /\ ReadProject(c) => End(c) \/
                 /\ call[c].request.expected = current /\ binaryAt[current] # None
                 /\ call'[c].pc = "look" /\ call'[c].request = call[c].request
                 /\ call'[c].snapshot = binaryAt[current]
           /\ LookUp(c) =>
                 /\ call'[c].pc \in {"fetch", "analyze"}
                 /\ call'[c].request = call[c].request
                 /\ call'[c].snapshot = call[c].snapshot
                 /\ call'[c].pc = "analyze" =>
                       \/ call'[c].base = call[c].snapshot
                       \/ \E s \in CachedFor(call[c].snapshot) : call'[c].base = s.of
  <1>0. call[c] \in CallState
    BY DEF TypeOK
  <1> DEFINE r == call[c].request
  <1>1. CASE Prior(c) /\ ~Replay(c)
    <2> DEFINE m == [call[c] EXCEPT !.pc = "fetch", !.snapshot = binaryAt[current]]
    <2>1. m.pc = "fetch" /\ m.request = r
      BY <1>0 DEF CallState
    <2>2. Set(c, m)
      BY <1>1 DEF Prior
    <2> HIDE DEF m
    <2> QED
      BY <1>1, <2>1, <2>2, OneCallMoves DEF Prior, Fetch, ReadModel, ReadProject, LookUp
  <1>2. CASE Fetch(c) /\ ~End(c)
    <2> DEFINE pc == AfterFetch(r.op)
               m == [call[c] EXCEPT !.pc = pc, !.base = binaryAt[r.expected]]
    <2>1. /\ m.pc = pc /\ m.request = r /\ m.base = binaryAt[r.expected]
          /\ m.snapshot = call[c].snapshot
      BY <1>0 DEF CallState
    <2>2. Set(c, m) /\ r.expected \in Revision /\ binaryAt[r.expected] # None
      BY <1>2 DEF Fetch
    <2> HIDE DEF m
    <2> QED
      BY <1>2, <2>1, <2>2, OneCallMoves DEF Prior, Fetch, ReadModel, ReadProject, LookUp
  <1>3. CASE ReadModel(c)
    <2> DEFINE pc == AfterRead(r.op)
               v == LatestModel(call[c].base, r.expected)
               m == [call[c] EXCEPT !.pc = pc, !.previous = v]
    <2>1. m.pc = pc /\ m.request = r /\ m.base = call[c].base /\ m.previous = v
      BY <1>0 DEF CallState
    <2>2. Set(c, m)
      BY <1>3 DEF ReadModel
    <2> HIDE DEF m
    <2> QED
      BY <1>3, <2>1, <2>2, OneCallMoves DEF Prior, Fetch, ReadModel, ReadProject, LookUp
  <1>4. CASE ReadProject(c) /\ ~End(c)
    <2> DEFINE m == [call[c] EXCEPT !.pc = "look", !.snapshot = binaryAt[current]]
    <2>1. m.pc = "look" /\ m.request = r /\ m.snapshot = binaryAt[current]
      BY <1>0 DEF CallState
    <2>2. Set(c, m) /\ r.expected = current /\ binaryAt[current] # None
      BY <1>4, SMTT(30) DEF ReadProject
    <2> HIDE DEF m
    <2> QED
      BY <1>4, <2>1, <2>2, OneCallMoves DEF Prior, Fetch, ReadModel, ReadProject, LookUp
  <1>5. CASE LookUp(c)
    <2>1. CASE Goto(c, "fetch")
      <3>1. /\ call'[c].pc = "fetch" /\ call'[c].request = r
            /\ call'[c].snapshot = call[c].snapshot
        BY <2>1, Moved DEF Same
      <3> QED
        BY <1>5, <3>1 DEF Prior, Fetch, ReadModel, ReadProject, LookUp
    <2>2. ASSUME NEW b, Set(c, [call[c] EXCEPT !.pc = "analyze", !.base = b])
          PROVE  /\ call'[c].pc = "analyze" /\ call'[c].request = r /\ call'[c].base = b
                 /\ call'[c].snapshot = call[c].snapshot
      <3> DEFINE m == [call[c] EXCEPT !.pc = "analyze", !.base = b]
      <3>1. m.pc = "analyze" /\ m.request = r /\ m.base = b /\ m.snapshot = call[c].snapshot
        BY <1>0 DEF CallState
      <3>2. Set(c, m)
        BY <2>2
      <3> HIDE DEF m
      <3> QED
        BY <3>1, <3>2, OneCallMoves
    <2> QED
      BY <1>5, <2>1, <2>2 DEF Prior, Fetch, ReadModel, ReadProject, LookUp
  <1> QED
    BY <1>1, <1>2, <1>3, <1>4, <1>5

\* A replay ends the call or answers it.
LEMMA ReplayMoves ==
    ASSUME NEW c \in Call, Replay(c)
    PROVE  End(c) \/ \E n, b : Reply(c, n, b)
  BY DEF Replay

\* A step of a call is a move of that call.
LEMMA MoveSets ==
    ASSUME TypeOK, HistoryInv, CallsInv, NEW c \in Call, Moves(c)
    PROVE  \A d \in Call \ {c} : call'[d] = call[d]
  <1>1. \E s : Set(c, s)
    <2>1. CASE Replay(c)
      BY <2>1, ReplayMoves DEF Reply, End
    <2>2. CASE CommitOf(c) /\ CommitKeyed(c)
      BY <2>2, KeyedCommits DEF CommitKeyed, Committed, Record, Reply
    <2>3. CASE ReadProject(c) \/ LookUp(c) \/ Export(c) \/ StoreAnalysis(c)
      BY <2>3 DEF ReadProject, LookUp, Export, StoreAnalysis, Reply, End, Goto
    <2> QED
      BY <2>1, <2>2, <2>3 DEF Moves, Begin, Prior, Fetch, ReadModel, Store, CommitUpload,
         UploadReply, CommitKeyed, Drop, Reply, End, Goto
  <1> QED
    BY <1>1, OneCallMoves

\* A call that is answered or has ended holds nothing.
LEMMA CallEnds ==
    ASSUME TypeOK, NEW c \in Call, CallInv(c)
    PROVE  /\ \A n, b : Reply(c, n, b) /\ call[c].pc # "idle" => CallInv(c)'
           /\ End(c) => CallInv(c)'
  BY Moved DEF Same, CallInv, Fetched, Looked

\* Every step keeps what the calls hold.
LEMMA NextCalls ==
    ASSUME TypeOK, HistoryInv, CallsInv, SnapshotsInv, [Next]_vars
    PROVE  CallsInv'
  <1>0. HistoryStep
    BY NextHistory
  <1>1. CASE UNCHANGED vars
    BY <1>0, <1>1, CallUnmoved DEF vars, CallsInv
  <1>2. CASE Next
    <2>1. PICK c \in Call : Moves(c)
      BY <1>2 DEF Next, Moves
    <2> DEFINE r == call[c].request
    <2>2. CallInv(c) /\ call[c] \in CallState
      BY DEF CallsInv, TypeOK
    <2>3. CallInv(c)'
      <3>1. ASSUME NEW q \in Request, Begin(c, q) PROVE CallInv(c)'
        BY <3>1, Moved, FirstSteps DEF CallInv, Fetched, Looked
      <3>2. CASE Prior(c)
        <4>1. CASE Replay(c)
          BY <2>2, <3>2, <4>1, ReplayMoves, CallEnds DEF Prior
        <4>2. CASE call'[c].pc = "fetch" /\ call'[c].request = r
          BY <2>2, <3>2, <4>2 DEF Prior, CallInv, Fetched, Looked
        <4> QED
          BY <3>2, <4>1, <4>2, ReadsMove
      <3>3. CASE Fetch(c) /\ ~End(c)
        <4>1. /\ r.expected \in Revision /\ binaryAt[r.expected] # None
              /\ call'[c].pc = AfterFetch(r.op) /\ call'[c].request = r
              /\ call'[c].base = binaryAt[r.expected]
              /\ call'[c].snapshot = call[c].snapshot
          BY <3>3, ReadsMove
        <4>2. r.expected \in 1..current
          BY <4>1 DEF HistoryInv
        <4>3. r \in Request /\ UNCHANGED <<current, binaryAt>> /\ call[c].pc = "fetch"
          BY <2>2, <3>3 DEF Fetch, CallInv, tables
        <4> QED
          BY <2>2, <4>1, <4>2, <4>3, AfterFetches DEF CallInv, Fetched, Looked
      <3>4. CASE ReadModel(c)
        <4>1. /\ call'[c].pc = AfterRead(r.op) /\ call'[c].request = r
              /\ call'[c].base = call[c].base
              /\ call[c].pc = "read" /\ UNCHANGED <<current, binaryAt>>
          BY <3>4, ReadsMove DEF ReadModel, tables
        <4>2. CASE r.op = "program"
          BY <2>2, <4>1, <4>2 DEF AfterRead, CallInv, Fetched, Looked
        <4>3. CASE r.op # "program"
          BY <2>2, <4>1, <4>3 DEF AfterRead, CallInv, Fetched, Looked
        <4> QED
          BY <4>2, <4>3, SMTT(30)
      <3>5. CASE Store(c)
        <4>1. CASE Goto(c, "commit") /\ call[c].pc = "bundle"
          BY <2>2, <3>5, <4>1, Moved DEF Store, Same, CallInv, Fetched, Looked
        <4>2. CASE call[c].pc = "store"
          BY <2>2, <3>5, <4>2, CallEnds DEF Store
        <4> QED
          BY <3>5, <4>1, <4>2 DEF Store
      <3>6. CASE CommitUpload(c)
        <4>1. CASE Goto(c, "reply")
          BY <2>2, <3>6, <4>1, Moved DEF CommitUpload, Same, CallInv, Fetched, Looked
        <4>2. CASE End(c)
          BY <2>2, <4>2, CallEnds
        <4> QED
          BY <3>6, <4>1, <4>2 DEF CommitUpload
      <3>7. CASE UploadReply(c)
        BY <2>2, <3>7, CallEnds DEF UploadReply
      <3>8. CASE CommitKeyed(c)
        <4>1. CASE Replay(c)
          BY <2>2, <3>8, <4>1, ReplayMoves, CallEnds DEF CommitKeyed
        <4>2. CASE CommitOf(c)
          BY <2>2, <3>8, <4>2, KeyedCommits, CallEnds DEF CommitKeyed, Committed, Record
        <4> QED
          BY <3>8, <4>1, <4>2 DEF CommitKeyed
      <3>9. CASE Drop(c) \/ End(c)
        BY <2>2, <3>9, CallEnds DEF Drop
      <3>10. CASE ReadProject(c) /\ ~End(c)
        <4>1. /\ r.expected = current /\ binaryAt[current] # None
              /\ call'[c].pc = "look" /\ call'[c].request = r
              /\ call'[c].snapshot = binaryAt[current]
              /\ call[c].pc = "project" /\ UNCHANGED <<current, binaryAt>>
          BY <3>10, ReadsMove DEF ReadProject, tables
        <4>2. current \in 1..current
          BY <4>1 DEF HistoryInv, TypeOK
        <4> QED
          BY <2>2, <4>1, <4>2, SMTT(30) DEF CallInv, Fetched, Looked
      <3>11. CASE LookUp(c)
        <4>1. /\ call'[c].pc \in {"fetch", "analyze"} /\ call'[c].request = r
              /\ call'[c].snapshot = call[c].snapshot
              /\ call[c].pc = "look" /\ UNCHANGED <<current, binaryAt>>
          BY <3>11, ReadsMove DEF LookUp, tables
        <4>2. call'[c].pc = "analyze" => call'[c].base = call[c].snapshot
          BY <3>11, ReadsMove DEF SnapshotsInv, CachedFor
        <4> QED
          BY <2>2, <4>1, <4>2, SMTT(30) DEF CallInv, Fetched, Looked
      <3>12. CASE Export(c) /\ ~End(c)
        <4>1. Goto(c, "analyze") /\ call[c].base = call[c].snapshot /\ call[c].pc = "export"
              /\ UNCHANGED <<current, binaryAt>>
          BY <3>12 DEF Export
        <4> QED
          BY <2>2, <4>1, Moved DEF Same, CallInv, Fetched, Looked
      <3>13. CASE StoreAnalysis(c) /\ ~End(c)
        BY <2>2, <3>13, CallEnds DEF StoreAnalysis
      <3> QED
        BY <2>1, <3>1, <3>2, <3>3, <3>4, <3>5, <3>6, <3>7, <3>8, <3>9, <3>10, <3>11, <3>12,
           <3>13 DEF Moves
    <2> QED
      BY <1>0, <2>1, <2>3, MoveSets, CallUnmoved DEF CallsInv
  <1> QED
    BY <1>1, <1>2

-----------------------------------------------------------------------------
(* Tables *)

\* What a step adds to the tables that the invariants are about: nothing, the
\* artifact of a call that fetched, a snapshot, or what a keyed transaction writes.
LEMMA TablesStep ==
    ASSUME TypeOK, HistoryInv, CallsInv, [Next]_vars
    PROVE  \/ UNCHANGED <<requests, artifacts, models, snapshots>>
           \/ \E c \in Call : Store(c) \/ StoreAnalysis(c) \/ Export(c)
           \/ \E c \in Call, b \in Binary : Committed(c, b) /\ CommitKeyed(c)
  <1>1. CASE UNCHANGED vars
    BY <1>1 DEF vars, tables
  <1>2. ASSUME NEW c \in Call, CommitKeyed(c)
        PROVE  UNCHANGED tables \/ \E b \in Binary : Committed(c, b)
    BY <1>2, KeyedCommits, SMTT(30) DEF CommitKeyed
  <1>3. CASE ~\E c \in Call : CommitKeyed(c)
    BY <1>1, <1>3, ZenonT(40) DEF Next, Begin, Prior, Fetch, ReadModel, ReadProject, LookUp,
       CommitUpload, UploadReply, Drop, tables
  <1> QED
    BY <1>1, <1>2, <1>3 DEF tables

\* What a keyed transaction found: its call fetched the current revision.
LEMMA CommittedBase ==
    ASSUME TypeOK, HistoryInv, CallsInv, NEW c \in Call, NEW b \in Binary,
           CommitKeyed(c), Committed(c, b)
    PROVE  LET r == call[c].request IN
           /\ r \in Request /\ r.op \in Keyed
           /\ r.expected = current /\ current \in Nat \ {0}
           /\ call[c].base = binaryAt[current] /\ call[c].base \in Binary
           /\ current' = current + 1 /\ current + 1 \in Revision
           /\ binaryAt' = [binaryAt EXCEPT ![current + 1] = b]
  <1>1. /\ call[c].request \in Request /\ call[c].request.op \in Keyed
        /\ call[c].request.expected \in 1..current
        /\ call[c].base = binaryAt[call[c].request.expected]
    BY DEF CommitKeyed, CallsInv, CallInv, Keyed, Rewriters, Keepers
  <1>2. call[c].request.expected = current /\ current \in Revision /\ current \in Nat \ {0}
    BY <1>1, BoundAssumption DEF Committed, Admitted, TypeOK, Revision
  <1>3. call[c].base \in Binary
    BY <1>1, <1>2 DEF HistoryInv, TypeOK
  <1> QED
    BY <1>1, <1>2, <1>3 DEF Committed, Record, InsertRevision

\* A keyed request keeps making one revision, of the binary it was made from.
LEMMA NextRequests ==
    ASSUME TypeOK, HistoryInv, CallsInv, RequestsInv, MutationsApplyToTheirBase, [Next]_vars
    PROVE  RequestsInv' /\ MutationsApplyToTheirBase'
  <1>0. /\ current \in Nat /\ current' \in Nat /\ current <= current'
        /\ \A n \in 1..current : binaryAt'[n] = binaryAt[n]
    BY NextHistory, HistoryGrows, BoundAssumption DEF TypeOK, Revision
  <1>1. ASSUME NEW q \in requests
        PROVE  /\ q.expected \in Nat \ {0} /\ q.revision \in 1..current
               /\ q.revision = q.expected + 1 /\ q.expected \in 1..current
    BY <1>0 DEF RequestsInv, MutationsApplyToTheirBase
  <1>2. ASSUME NEW q \in requests
        PROVE  /\ q.revision \in 1..current'
               /\ binaryAt'[q.revision] = binaryAt[q.revision]
               /\ binaryAt'[q.expected] = binaryAt[q.expected]
    BY <1>0, <1>1
  <1>3. CASE requests' = requests
    BY <1>1, <1>2, <1>3 DEF RequestsInv, MutationsApplyToTheirBase
  <1>4. ASSUME NEW c \in Call, NEW b \in Binary, CommitKeyed(c), Committed(c, b)
        PROVE  RequestsInv' /\ MutationsApplyToTheirBase'
    <2> DEFINE r == call[c].request
               q == [table |-> Table(r.op), key |-> r.key, expected |-> r.expected,
                     what |-> r.what, revision |-> r.expected + 1]
    <2>1. /\ r \in Request /\ r.op \in Keyed /\ r.expected = current
          /\ current \in Nat \ {0} /\ call[c].base = binaryAt[current]
          /\ current' = current + 1 /\ current + 1 \in Revision
          /\ binaryAt' = [binaryAt EXCEPT ![current + 1] = b]
      BY <1>4, CommittedBase
    <2>2. requests' = requests \cup {q}
      BY <1>4 DEF Committed, Record, InsertRequest
    <2>3. /\ q.expected = current /\ q.revision = current + 1
          /\ q.table = Table(r.op) /\ q.what = r.what
      BY <2>1
    <2>4. binaryAt'[current + 1] = b /\ binaryAt'[current] = binaryAt[current]
      BY <2>1, <1>0 DEF TypeOK
    <2>5. q.table # "annotate" => b = Outcome(q.table, binaryAt[current], q.what)
      <3>1. r.op # "annotate" => b = Outcome(r.op, binaryAt[current], r.what)
        BY <1>4, <2>1 DEF Committed
      <3>2. CASE r.op \in Rewriters
        <4>1. Table(r.op) \in Rewriters /\ r.op # "annotate"
          BY <3>2 DEF Table, Rewriters
        <4> QED
          BY <2>3, <3>1, <3>2, <4>1, Outcomes
      <3>3. CASE r.op \in Keepers
        BY <2>3, <3>1, <3>3 DEF Table, Keepers
      <3> QED
        BY <2>1, <3>2, <3>3 DEF Keyed
    <2> HIDE DEF q
    <2>6. RequestsInv'
      BY <1>1, <1>2, <2>1, <2>2, <2>3 DEF RequestsInv
    <2>7. ASSUME NEW p \in requests' PROVE p.revision = p.expected + 1
      BY <1>1, <2>2, <2>3, <2>7
    <2>8. ASSUME NEW p \in requests', NEW o \in requests', o.revision = p.revision
          PROVE  o = p
      <3>1. \A k \in requests : k.revision # q.revision
        BY <1>0, <1>1, <2>3
      <3> QED
        BY <2>2, <2>8, <3>1 DEF MutationsApplyToTheirBase
    <2>9. ASSUME NEW p \in requests', p.table # "annotate"
          PROVE  binaryAt'[p.revision] = Outcome(p.table, binaryAt'[p.expected], p.what)
      <3>1. CASE p \in requests
        BY <1>2, <2>9, <3>1 DEF MutationsApplyToTheirBase
      <3>2. CASE p = q
        BY <2>3, <2>4, <2>5, <2>9, <3>2
      <3> QED
        BY <2>2, <3>1, <3>2
    <2> QED
      BY <2>6, <2>7, <2>8, <2>9 DEF MutationsApplyToTheirBase
  <1> QED
    BY <1>3, <1>4, TablesStep DEF Store, StoreAnalysis, Export

\* An artifact keeps being of the binary of its revision.
LEMMA NextArtifacts ==
    ASSUME TypeOK, HistoryInv, CallsInv, ArtifactsInv, [Next]_vars
    PROVE  ArtifactsInv'
  <1>0. /\ current \in Nat /\ current' \in Nat /\ current <= current'
        /\ \A n \in 1..current : binaryAt'[n] = binaryAt[n] /\ n \in 1..current'
    BY NextHistory, HistoryGrows, BoundAssumption DEF TypeOK, Revision
  <1>1. CASE artifacts' = artifacts
    BY <1>0, <1>1 DEF ArtifactsInv
  <1>2. ASSUME NEW c \in Call, NEW n, call[c].request.expected \in 1..current,
               n \in {call[c].request.expected, call[c].request.expected + 1},
               call[c].base = binaryAt[call[c].request.expected],
               artifacts' \subseteq artifacts \cup {ArtifactRow(c, n)}
        PROVE  ArtifactsInv'
    <2> DEFINE a == ArtifactRow(c, n)
    <2>1. /\ a.revision = n /\ a.basis = call[c].request.expected /\ a.of = call[c].base
      BY DEF ArtifactRow
    <2> HIDE DEF a
    <2> QED
      BY <1>0, <1>2, <2>1 DEF a, ArtifactsInv
  <1>3. ASSUME NEW c \in Call, Store(c) PROVE ArtifactsInv'
    BY <1>2, <1>3 DEF Store, CallsInv, CallInv, Fetched
  <1>4. ASSUME NEW c \in Call, StoreAnalysis(c) PROVE ArtifactsInv'
    <2>1. CASE artifacts' = artifacts
      BY <1>1, <2>1
    <2>2. CASE artifacts' = artifacts \cup {ArtifactRow(c, call[c].request.expected)}
      BY <1>2, <1>4, <2>2 DEF StoreAnalysis, CallsInv, CallInv, Looked
    <2> QED
      BY <1>4, <2>1, <2>2 DEF StoreAnalysis
  <1>5. ASSUME NEW c \in Call, NEW b \in Binary, CommitKeyed(c), Committed(c, b)
        PROVE  ArtifactsInv'
    BY <1>2, <1>5, CommittedBase DEF Committed
  <1> QED
    BY <1>1, <1>3, <1>4, <1>5, TablesStep DEF Export

\* A cached snapshot keeps being of the binary of its revision.
LEMMA NextSnapshots ==
    ASSUME TypeOK, HistoryInv, CallsInv, SnapshotsInv, [Next]_vars
    PROVE  SnapshotsInv'
  <1>0. /\ current \in Nat /\ current' \in Nat /\ current <= current'
        /\ \A n \in 1..current : binaryAt'[n] = binaryAt[n] /\ n \in 1..current'
    BY NextHistory, HistoryGrows, BoundAssumption DEF TypeOK, Revision
  <1>1. CASE snapshots' = snapshots
    BY <1>0, <1>1 DEF SnapshotsInv
  <1>2. ASSUME NEW c \in Call, Export(c), snapshots' # snapshots PROVE SnapshotsInv'
    <2> DEFINE s == [revision |-> call[c].request.expected, binary |-> call[c].snapshot,
                     of |-> call[c].base]
    <2>1. /\ s.revision = call[c].request.expected /\ s.binary = call[c].snapshot
          /\ s.of = call[c].base
      OBVIOUS
    <2>2. snapshots' \subseteq snapshots \cup {s} /\ call[c].base = call[c].snapshot
      BY <1>2 DEF Export
    <2>3. /\ call[c].request.expected \in 1..current
          /\ call[c].snapshot = binaryAt[call[c].request.expected]
      BY <1>2 DEF Export, CallsInv, CallInv, Looked
    <2> HIDE DEF s
    <2> QED
      BY <1>0, <2>1, <2>2, <2>3 DEF SnapshotsInv
  <1> QED
    BY <1>1, <1>2, TablesStep DEF Store, StoreAnalysis, Committed

-----------------------------------------------------------------------------
(* Answers *)

\* What AnswersNameTheirMutation says of one call.
AnswerInv(c) ==
    call[c].pc = "answered" /\ call[c].request.op \in Keyed =>
        /\ call[c].answer = [revision |-> call[c].request.expected + 1,
                             binary |-> binaryAt[call[c].request.expected + 1]]
        /\ \E q \in PriorOf(call[c].request) : SameRequest(q, call[c].request)

\* Which calls are answered by a step: those that it replays, a keyed
\* transaction, and others that have no key.
LEMMA AnsweredStep ==
    ASSUME TypeOK, HistoryInv, CallsInv, [Next]_vars, NEW d \in Call,
           call'[d].pc = "answered", call'[d].request.op \in Keyed
    PROVE  \/ call'[d] = call[d]
           \/ Replay(d) /\ call[d].pc # "idle" /\ UNCHANGED tables
           \/ \E b \in Binary : CommitKeyed(d) /\ Committed(d, b)
  <1>1. CASE UNCHANGED vars
    BY <1>1 DEF vars
  <1>2. CASE Next
    <2>1. PICK c \in Call : Moves(c)
      BY <1>2 DEF Next, Moves
    <2> DEFINE r == call[c].request
    <2>2. CASE d # c
      BY <2>1, <2>2, MoveSets
    <2>3. CASE d = c /\ (Prior(c) \/ CommitKeyed(c))
      <3>1. CASE Replay(c) /\ UNCHANGED tables
        BY <2>3, <3>1 DEF Prior, CommitKeyed
      <3>2. CASE CommitOf(c) /\ CommitKeyed(c)
        BY <2>3, <3>2, KeyedCommits DEF CommitKeyed
      <3>3. CASE Prior(c) /\ ~Replay(c)
        BY <2>3, <3>3, ReadsMove
      <3> QED
        BY <2>3, <3>1, <3>2, <3>3 DEF Prior, CommitKeyed
    <2>4. CASE d = c /\ ~(Prior(c) \/ CommitKeyed(c))
      <3>0. call'[c].pc = "answered" /\ call'[c].request.op \in Keyed
        BY <2>4
      <3>1. ASSUME NEW q \in Request, Begin(c, q) PROVE FALSE
        BY <3>0, <3>1, Moved, FirstSteps
      <3>2. ASSUME NEW pc \in {"fetch", "analyze", "commit", "reply"}, Goto(c, pc) PROVE FALSE
        BY <3>0, <3>2, Moved
      <3>3. ASSUME End(c) PROVE FALSE
        BY <3>0, <3>3, Moved
      <3>4. ASSUME NEW n, NEW b, Reply(c, n, b), r.op \in Readers \cup {"upload"} PROVE FALSE
        <4>1. call'[c].request.op \in Readers \cup {"upload"}
          BY <3>4, Moved DEF Same
        <4> QED
          BY <3>0, <4>1 DEF Readers, Keyed, Rewriters, Keepers
      <3>5. ASSUME Fetch(c) PROVE FALSE
        BY <3>0, <3>3, <3>5, ReadsMove, AfterFetches
      <3>6. ASSUME ReadModel(c) PROVE FALSE
        BY <3>0, <3>6, ReadsMove DEF AfterRead
      <3>7. ASSUME ReadProject(c) \/ LookUp(c) PROVE FALSE
        BY <3>0, <3>3, <3>7, ReadsMove
      <3>8. /\ call[c].pc \in {"store", "analyze"} => r.op \in Readers
            /\ call[c].pc = "reply" => r.op = "upload"
        BY DEF CallsInv, CallInv, Looked, Readers
      <3>9. ASSUME Store(c) \/ StoreAnalysis(c) \/ Export(c) PROVE FALSE
        BY <3>2, <3>3, <3>4, <3>8, <3>9 DEF Store, StoreAnalysis, Export
      <3>10. ASSUME CommitUpload(c) \/ UploadReply(c) \/ Drop(c) PROVE FALSE
        BY <3>2, <3>3, <3>4, <3>8, <3>10 DEF CommitUpload, UploadReply, Drop
      <3> QED
        BY <2>1, <2>4, <3>1, <3>5, <3>6, <3>7, <3>9, <3>10 DEF Moves
    <2> QED
      BY <2>2, <2>3, <2>4
  <1> QED
    BY <1>1, <1>2

\* An answer names the revision that the client's own request made.
LEMMA NextAnswers ==
    ASSUME TypeOK, HistoryInv, CallsInv, RequestsInv, MutationsApplyToTheirBase,
           AnswersNameTheirMutation, [Next]_vars
    PROVE  AnswersNameTheirMutation'
  <1>0. /\ current \in Nat /\ current' \in Nat /\ current <= current'
        /\ \A n \in 1..current : binaryAt'[n] = binaryAt[n]
    BY NextHistory, HistoryGrows, BoundAssumption DEF TypeOK, Revision
  <1>1. requests \subseteq requests'
    BY TablesStep DEF Store, StoreAnalysis, Export, Committed, Record, InsertRequest
  <1>2. ASSUME NEW q \in requests
        PROVE  q.revision = q.expected + 1 /\ q.revision \in 1..current
    BY DEF RequestsInv, MutationsApplyToTheirBase
  <1>3. ASSUME NEW d \in Call, call'[d].pc = "answered", call'[d].request.op \in Keyed
        PROVE  AnswerInv(d)'
    <2> DEFINE r == call[d].request
    <2>1. CASE call'[d] = call[d]
      <3>1. AnswerInv(d) /\ call[d].pc = "answered" /\ r.op \in Keyed
        BY <1>3, <2>1 DEF AnswersNameTheirMutation, AnswerInv
      <3>2. PICK q \in PriorOf(r) : SameRequest(q, r)
        BY <3>1 DEF AnswerInv
      <3>3. r.expected + 1 \in 1..current /\ q \in requests'
        BY <1>1, <1>2, <3>2 DEF PriorOf, SameRequest
      <3>4. q \in PriorOf(r)'
        BY <2>1, <3>2, <3>3 DEF PriorOf
      <3> QED
        BY <1>0, <2>1, <3>1, <3>2, <3>3, <3>4 DEF AnswerInv, SameRequest
    <2>2. CASE Replay(d) /\ call[d].pc # "idle" /\ UNCHANGED tables
      <3>1. PICK q \in PriorOf(r) : IF SameRequest(q, r)
                                    THEN Reply(d, q.revision, binaryAt[q.revision])
                                    ELSE End(d)
        BY <2>2 DEF Replay
      <3>2. ~End(d)
        BY <1>3, OneCallMoves DEF End, IdleCall
      <3> DEFINE m == [call[d] EXCEPT !.pc = "answered",
                         !.answer = [revision |-> q.revision, binary |-> binaryAt[q.revision]]]
      <3>3. m.request = r /\ m.answer = [revision |-> q.revision, binary |-> binaryAt[q.revision]]
        BY DEF TypeOK, CallState
      <3>4. Set(d, m) /\ SameRequest(q, r)
        BY <3>1, <3>2 DEF Reply
      <3> HIDE DEF m
      <3>5. /\ call'[d].request = r
            /\ call'[d].answer = [revision |-> q.revision, binary |-> binaryAt[q.revision]]
        BY <3>3, <3>4, OneCallMoves
      <3>6. q.revision = r.expected + 1 /\ q \in PriorOf(r)'
        BY <1>1, <1>2, <2>2, <3>1, <3>4, <3>5 DEF PriorOf, SameRequest, tables
      <3> QED
        BY <2>2, <3>1, <3>4, <3>5, <3>6 DEF AnswerInv, SameRequest, PriorOf, tables
    <2>3. ASSUME NEW b \in Binary, CommitKeyed(d), Committed(d, b) PROVE AnswerInv(d)'
      <3> DEFINE m == [call[d] EXCEPT !.pc = "answered",
                         !.answer = [revision |-> r.expected + 1, binary |-> b]]
                 q == [table |-> Table(r.op), key |-> r.key, expected |-> r.expected,
                       what |-> r.what, revision |-> r.expected + 1]
      <3>1. m.request = r /\ m.answer = [revision |-> r.expected + 1, binary |-> b]
        BY DEF TypeOK, CallState
      <3>2. Set(d, m)
        BY <2>3 DEF Committed, Record, Reply
      <3>3. q \in requests' /\ q.table = Table(r.op) /\ q.key = r.key
            /\ q.expected = r.expected /\ q.what = r.what
        BY <2>3 DEF Committed, Record, InsertRequest
      <3> HIDE DEF m, q
      <3>4. /\ call'[d].request = r
            /\ call'[d].answer = [revision |-> r.expected + 1, binary |-> b]
        BY <3>1, <3>2, OneCallMoves
      <3>5. r.expected = current /\ binaryAt'[current + 1] = b
        BY <2>3, CommittedBase DEF TypeOK
      <3> QED
        BY <3>3, <3>4, <3>5 DEF AnswerInv, PriorOf, SameRequest
    <2> QED
      BY <1>3, <2>1, <2>2, <2>3, AnsweredStep
  <1> QED
    BY <1>3 DEF AnswersNameTheirMutation, AnswerInv

-----------------------------------------------------------------------------
(* Models *)

\* The one step that leaves a call ready to save a model, or to store what a
\* model types, is its read.
LEMMA ReadStep ==
    ASSUME TypeOK, CallsInv, HistoryInv, [Next]_vars, NEW d \in Call,
           \/ call'[d].pc = "commit" /\ call'[d].request.op = "model"
           \/ call'[d].pc = "store" /\ call'[d].request.op = "program"
    PROVE  call'[d] = call[d] \/ ReadModel(d)
  <1> SUFFICES ASSUME call'[d] # call[d], ~ReadModel(d) PROVE FALSE
    OBVIOUS
  <1>1. Next
    BY DEF vars
  <1>2. PICK c \in Call : Moves(c)
    BY <1>1 DEF Next, Moves
  <1>3. /\ d = c /\ call'[c].pc \in {"commit", "store"}
        /\ call'[c].request.op \in {"model", "program"}
        /\ call'[c].pc = "commit" => call'[c].request.op = "model"
    BY <1>2, MoveSets
  <1>4. ASSUME NEW q \in Request, Begin(c, q) PROVE FALSE
    BY <1>3, <1>4, Moved, FirstSteps
  <1>5. ASSUME NEW n, NEW b, Reply(c, n, b) PROVE FALSE
    BY <1>3, <1>5, Moved
  <1>6. ASSUME End(c) PROVE FALSE
    BY <1>3, <1>6, Moved
  <1>7. ASSUME Replay(c) \/ CommitKeyed(c) PROVE FALSE
    <2>1. CASE Replay(c)
      BY <1>5, <1>6, <2>1, ReplayMoves
    <2>2. CASE CommitOf(c) /\ CommitKeyed(c)
      BY <1>5, <2>2, KeyedCommits DEF CommitKeyed, Committed, Record
    <2> QED
      BY <1>7, <2>1, <2>2 DEF CommitKeyed
  <1>8. ASSUME Prior(c) PROVE FALSE
    BY <1>3, <1>7, <1>8, ReadsMove
  <1>9. ASSUME Fetch(c) PROVE FALSE
    BY <1>3, <1>6, <1>9, ReadsMove, AfterFetches
  <1>10. ASSUME NEW pc, Goto(c, pc), call[c].request.op \in {"upload", "patch2", "ghidra"}
         PROVE  FALSE
    BY <1>3, <1>10, Moved DEF Same
  <1>11. /\ call[c].pc = "bundle" => call[c].request.op = "patch2"
         /\ call[c].pc = "export" => call[c].request.op = "ghidra"
    BY DEF CallsInv, CallInv, Looked
  <1>12. ASSUME Store(c) \/ Export(c) \/ CommitUpload(c) PROVE FALSE
    BY <1>5, <1>6, <1>10, <1>11, <1>12 DEF Store, Export, CommitUpload
  <1>13. ASSUME StoreAnalysis(c) \/ UploadReply(c) \/ Drop(c) PROVE FALSE
    BY <1>5, <1>6, <1>13 DEF StoreAnalysis, UploadReply, Drop
  <1>14. ASSUME ReadProject(c) \/ LookUp(c) PROVE FALSE
    BY <1>3, <1>6, <1>14, ReadsMove
  <1> QED
    BY <1>2, <1>3, <1>4, <1>7, <1>8, <1>9, <1>12, <1>13, <1>14 DEF Moves

\* Models keep forming chains.
LEMMA NextModels ==
    ASSUME TypeOK, HistoryInv, CallsInv, ModelsInv, ModelsFormChains, [Next]_vars
    PROVE  ModelsInv' /\ ModelsFormChains'
  <1>0. /\ current \in Nat /\ current' \in Nat /\ current <= current'
        /\ MaxRevision \in Nat
        /\ \A k \in models : k.revision \in Nat /\ k.previous \in Nat /\ k.revision <= current
        /\ \A c \in Call : call[c].previous \in Nat
    BY NextHistory, HistoryGrows, BoundAssumption, SMTT(30)
       DEF TypeOK, Revision, CallState, ModelsInv
  <1>1. models' = models \/ \E c \in Call, b \in Binary :
            CommitKeyed(c) /\ Committed(c, b) /\ call[c].request.op = "model"
    BY TablesStep DEF Store, StoreAnalysis, Export, Committed
  <1>2. ASSUME NEW k \in models' PROVE k \in models \/ k.revision = current + 1
    BY <1>1, CommittedBase DEF Committed
  <1>3. \A k \in models' : k.revision \in 1..current'
    <2>1. CASE models' = models
      BY <1>0, <2>1 DEF ModelsInv
    <2>2. ASSUME NEW c \in Call, NEW b \in Binary, CommitKeyed(c), Committed(c, b)
          PROVE  \A k \in models' : k.revision \in 1..current'
      BY <1>0, <1>2, <2>2, CommittedBase DEF ModelsInv
    <2> QED
      BY <1>1, <2>1, <2>2
  <1>4. ASSUME NEW d \in Call, call'[d].pc = "commit", call'[d].request.op = "model",
               NEW k \in models', k.binary = call'[d].base,
               k.revision <= call'[d].request.expected
        PROVE  k.revision <= call'[d].previous
    <2>1. CASE call'[d] = call[d]
      <3>1. call[d].request.expected <= current /\ call[d].request.expected \in Nat
        BY <1>0, <1>4, <2>1 DEF CallsInv, CallInv
      <3>2. k \in models
        BY <1>0, <1>2, <1>4, <2>1, <3>1
      <3> QED
        BY <1>4, <2>1, <3>2 DEF ModelsInv
    <2>2. CASE ReadModel(d)
      <3>2. models' = models
        BY <2>2 DEF ReadModel, tables
      <3>3. /\ call'[d].request = call[d].request /\ call'[d].base = call[d].base
            /\ call'[d].previous = LatestModel(call[d].base, call[d].request.expected)
        BY <2>2, ReadsMove
      <3> QED
        BY <1>4, <3>2, <3>3, NewestModel DEF TypeOK
    <2> QED
      BY <1>4, <2>1, <2>2, ReadStep
  <1>5. ModelsFormChains'
    <2>1. CASE models' = models
      BY <2>1 DEF ModelsFormChains
    <2>2. ASSUME NEW c \in Call, NEW b \in Binary, CommitKeyed(c), Committed(c, b),
                 call[c].request.op = "model"
          PROVE  ModelsFormChains'
      <3> DEFINE n == [revision |-> call[c].request.expected + 1,
                       binary |-> call[c].base, previous |-> call[c].previous]
      <3>1. /\ n.revision = current + 1 /\ n.binary = call[c].base
            /\ n.previous = call[c].previous
        BY <2>2, CommittedBase
      <3>2. models' \subseteq models \cup {n}
        BY <2>2 DEF Committed
      <3>3. \A k \in models : k.binary = call[c].base => k.revision <= call[c].previous
        BY <1>0, <2>2, CommittedBase DEF ModelsInv, CommitKeyed
      <3> HIDE DEF n
      <3>4. ASSUME NEW m \in models', NEW k \in models', k.binary = m.binary,
                   m.previous < k.revision, k.revision < m.revision
            PROVE  FALSE
        <4>1. CASE m \in models
          BY <1>0, <3>1, <3>2, <3>4, <4>1 DEF ModelsFormChains
        <4>2. CASE m = n
          BY <1>0, <3>1, <3>2, <3>3, <3>4, <4>2
        <4> QED
          BY <3>2, <4>1, <4>2
      <3> QED
        BY <3>4 DEF ModelsFormChains
    <2> QED
      BY <1>1, <2>1, <2>2
  <1> QED
    BY <1>3, <1>4, <1>5 DEF ModelsInv

\* A later revision does not change which model was the newest of an older one.
LEMMA LatestModelStays ==
    ASSUME TypeOK, HistoryInv, CallsInv, ModelsInv, [Next]_vars, NEW b, NEW n \in 1..current
    PROVE  LatestModel(b, n)' = LatestModel(b, n)
  <1>0. current \in Nat /\ \A k \in models : k.revision \in Nat
    BY BoundAssumption DEF TypeOK, Revision
  <1>1. models \subseteq models' /\ \A k \in models' : k \in models \/ k.revision = current + 1
    <2>1. CASE models' = models
      BY <2>1
    <2>2. ASSUME NEW c \in Call, NEW x \in Binary, CommitKeyed(c), Committed(c, x)
          PROVE  models \subseteq models'
                 /\ \A k \in models' : k \in models \/ k.revision = current + 1
      BY <2>2, CommittedBase DEF Committed
    <2> QED
      BY <2>1, <2>2, TablesStep DEF Store, StoreAnalysis, Export
  <1> DEFINE rows == {k \in models : k.binary = b /\ k.revision <= n}
             newest(S) == LET saved == {m.revision : m \in S}
                          IN IF saved = {} THEN 0
                             ELSE CHOOSE v \in saved : \A w \in saved : w <= v
  <1>2. rows' = rows
    BY <1>0, <1>1
  <1>3. LatestModel(b, n) = newest(rows) /\ LatestModel(b, n)' = newest(rows')
    BY DEF LatestModel
  <1> HIDE DEF rows, newest
  <1> QED
    BY <1>2, <1>3

\* What a model types keeps being typed by the newest model of its revision.
LEMMA NextPrograms ==
    ASSUME TypeOK, HistoryInv, CallsInv, ArtifactsInv, ModelsInv, ProgramsInv, [Next]_vars
    PROVE  ProgramsInv'
  <1>1. ASSUME NEW a \in artifacts', a.op = "program"
        PROVE  a.model = LatestModel(a.of, a.basis)'
    <2>1. CASE a \in artifacts
      <3>1. a.basis \in 1..current /\ a.model = LatestModel(a.of, a.basis)
        BY <1>1, <2>1 DEF ArtifactsInv, ProgramsInv
      <3> QED
        BY <3>1, LatestModelStays
    <2>2. ASSUME NEW c \in Call, a = ArtifactRow(c, call[c].request.expected),
                 call[c].pc = "store", Store(c)
          PROVE  a.model = LatestModel(a.of, a.basis)'
      <3>1. /\ a.op = call[c].request.op /\ a.basis = call[c].request.expected
            /\ a.of = call[c].base /\ a.model = call[c].previous
        BY <2>2 DEF ArtifactRow
      <3>2. call[c].request.expected \in 1..current
        BY <2>2 DEF CallsInv, CallInv, Fetched
      <3>3. a.model = LatestModel(a.of, a.basis)
        BY <1>1, <2>2, <3>1 DEF ProgramsInv
      <3> QED
        BY <3>1, <3>2, <3>3, LatestModelStays
    <2>3. ASSUME NEW c \in Call, NEW n, a = ArtifactRow(c, n), call[c].request.op # "program"
          PROVE  FALSE
      BY <1>1, <2>3 DEF ArtifactRow
    <2>4. ASSUME NEW c \in Call, Store(c), a \notin artifacts
          PROVE  a.model = LatestModel(a.of, a.basis)'
      <3>1. a = ArtifactRow(c, call[c].request.expected)
        BY <2>4 DEF Store
      <3>2. call[c].pc = "bundle" => call[c].request.op = "patch2"
        BY DEF CallsInv, CallInv
      <3> QED
        BY <2>2, <2>3, <2>4, <3>1, <3>2 DEF Store
    <2>5. ASSUME NEW c \in Call, StoreAnalysis(c), a \notin artifacts PROVE FALSE
      <3>1. a = ArtifactRow(c, call[c].request.expected)
        BY <2>5 DEF StoreAnalysis
      <3>2. call[c].request.op = "ghidra"
        BY <2>5 DEF StoreAnalysis, CallsInv, CallInv, Looked
      <3> QED
        BY <2>3, <3>1, <3>2
    <2>6. ASSUME NEW c \in Call, NEW b \in Binary, CommitKeyed(c), Committed(c, b),
                 a \notin artifacts
          PROVE  FALSE
      <3>1. a = ArtifactRow(c, call[c].request.expected + 1)
        BY <2>6 DEF Committed
      <3>2. call[c].request.op \in Keyed
        BY <2>6 DEF CommitKeyed
      <3> QED
        BY <2>3, <3>1, <3>2 DEF Keyed, Rewriters, Keepers
    <2> QED
      BY <2>1, <2>4, <2>5, <2>6, TablesStep DEF Export
  <1>2. ASSUME NEW c \in Call, call'[c].pc = "store", call'[c].request.op = "program"
        PROVE  (call[c].previous = LatestModel(call[c].base, call[c].request.expected))'
    <2>1. CASE call'[c] = call[c]
      <3>1. call[c].request.expected \in 1..current
        BY <1>2, <2>1 DEF CallsInv, CallInv, Fetched
      <3>2. call[c].previous = LatestModel(call[c].base, call[c].request.expected)
        BY <1>2, <2>1 DEF ProgramsInv
      <3> QED
        BY <2>1, <3>1, <3>2, LatestModelStays
    <2>2. CASE ReadModel(c)
      <3>1. call[c].request.expected \in 1..current
        BY <2>2 DEF ReadModel, CallsInv, CallInv, Fetched
      <3> QED
        BY <2>2, <3>1, ReadsMove, LatestModelStays
    <2> QED
      BY <1>2, <2>1, <2>2, ReadStep
  <1> QED
    BY <1>1, <1>2 DEF ProgramsInv

-----------------------------------------------------------------------------
(* The history *)

History == [n \in 1..current |-> binaryAt[n]]

\* The revisions of a project are a sequence of binaries.
LEMMA HistoryIsASequence ==
    ASSUME TypeOK, HistoryInv
    PROVE  /\ History \in Seq(Binary) /\ Len(History) = current
           /\ \A n \in 1..current : History[n] = binaryAt[n]
  <1>1. current \in Nat /\ \A n \in 1..current : binaryAt[n] \in Binary
    BY BoundAssumption DEF TypeOK, HistoryInv, Revision
  <1>2. History \in [1..current -> Binary]
    BY <1>1 DEF History
  <1> QED
    BY <1>1, <1>2, LenProperties DEF History

\* A step of the tables appends a binary to the history or leaves it alone.
LEMMA HistoryRefines ==
    ASSUME TypeOK, HistoryInv, HistoryStep
    PROVE  [\E b \in Binary : History' = Append(History, b)]_History
  <1>1. CASE UNCHANGED <<current, binaryAt>>
    BY <1>1 DEF History
  <1>2. ASSUME current' = current + 1, NEW b \in Binary, current + 1 \in Revision,
               binaryAt' = [binaryAt EXCEPT ![current + 1] = b]
        PROVE  History' = Append(History, b)
    <2>1. current \in Nat
      BY BoundAssumption DEF TypeOK, Revision
    <2>2. /\ Append(History, b) \in Seq(Binary)
          /\ Len(Append(History, b)) = current + 1
          /\ \A n \in 1..current : Append(History, b)[n] = binaryAt[n]
          /\ Append(History, b)[current + 1] = b
      BY HistoryIsASequence, AppendProperties
    <2>3. Append(History, b) \in [1..current + 1 -> Binary]
      BY <2>2, LenProperties
    <2>4. History' = [n \in 1..current + 1 |-> binaryAt'[n]]
      BY <1>2 DEF History
    <2>5. \A n \in 1..current + 1 : binaryAt'[n] = Append(History, b)[n]
      BY <1>2, <2>1, <2>2 DEF TypeOK, Revision
    <2>6. Append(History, b) = [n \in 1..current + 1 |-> Append(History, b)[n]]
      BY <2>3
    <2> QED
      BY <2>4, <2>5, <2>6
  <1> QED
    BY <1>1, <1>2 DEF HistoryStep

-----------------------------------------------------------------------------
(* Theorems *)

\* An empty project satisfies the invariant.
LEMMA InitInv == Init => IInv
  <1> SUFFICES ASSUME Init PROVE IInv
    OBVIOUS
  <1>1. TypeOK
    BY BoundAssumption DEF Init, TypeOK, Revision, IdleCall, CallState
  <1>2. HistoryInv /\ RequestsInv /\ ArtifactsInv /\ SnapshotsInv
    BY BoundAssumption DEF Init, HistoryInv, RequestsInv, ArtifactsInv, SnapshotsInv, Revision
  <1>3. CallsInv /\ AnswersNameTheirMutation
    BY DEF Init, CallsInv, CallInv, IdleCall, Fetched, Looked, AnswersNameTheirMutation
  <1>4. MutationsApplyToTheirBase
    BY DEF Init, MutationsApplyToTheirBase
  <1>5. ModelsInv /\ ModelsFormChains /\ ProgramsInv
    BY DEF Init, ModelsInv, ModelsFormChains, ProgramsInv, IdleCall
  <1> QED
    BY <1>1, <1>2, <1>3, <1>4, <1>5 DEF IInv

\* Every step keeps the invariant.
LEMMA NextInv == IInv /\ [Next]_vars => IInv'
  BY NextTypes, NextHistory, HistoryGrows, NextCalls, NextRequests, NextArtifacts,
     NextSnapshots, NextPrograms, NextModels, NextAnswers DEF IInv

\* The invariant the other theorems follow from.
THEOREM Invariant == Spec => []IInv
  BY InitInv, NextInv, PTL DEF Spec

\* The tables hold rows of their schema, and calls what the handlers keep.
THEOREM Types == Spec => []TypeOK
  BY Invariant, PTL DEF IInv

\* A keyed mutation makes one revision, the one after the revision its client
\* named, from the binary of that revision.
THEOREM Mutations == Spec => []MutationsApplyToTheirBase
  BY Invariant, PTL DEF IInv

\* An artifact and a cached snapshot are of the binary of the revision the client
\* named, and what a model types is typed by the newest model of that revision,
\* whatever was committed while a worker computed it.
THEOREM Artifacts == Spec => []ArtifactsMatchTheirBinary
  <1>1. IInv => ArtifactsMatchTheirBinary
    BY DEF IInv, ArtifactsInv, ProgramsInv, SnapshotsInv, ArtifactsMatchTheirBinary
  <1> QED
    BY <1>1, Invariant, PTL

\* The answer to a mutation or its retry names the revision that the request
\* itself made, whatever was committed since.
THEOREM Answers == Spec => []AnswersNameTheirMutation
  BY Invariant, PTL DEF IInv

\* No edit of a model is lost: handlers that read a model, wait and commit do not
\* overwrite one another's.
THEOREM Models == Spec => []ModelsFormChains
  BY Invariant, PTL DEF IInv

\* Revisions are immutable and appended one at a time: the tables implement the
\* abstract project.
THEOREM Refinement == Spec => ImplementsProject
  <1>1. Init => Project!Init
    <2> SUFFICES ASSUME Init PROVE [n \in 1..current |-> binaryAt[n]] = <<>>
      BY DEF Project!Init
    <2>1. TypeOK /\ HistoryInv
      BY InitInv DEF IInv
    <2>2. History \in Seq(Binary) /\ Len(History) = 0
      BY <2>1, HistoryIsASequence DEF Init
    <2>3. History = <<>>
      BY <2>2, EmptySeq
    <2> QED
      BY <2>3 DEF History
  <1>2. IInv /\ [Next]_vars => [Project!Next]_[n \in 1..current |-> binaryAt[n]]
    BY NextHistory, HistoryRefines DEF IInv, History, Project!Next, Project!Commit
  <1> QED
    BY <1>1, <1>2, Invariant, PTL DEF Spec, ImplementsProject, Project!Spec
=============================================================================
