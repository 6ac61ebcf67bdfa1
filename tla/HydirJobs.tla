------------------------------ MODULE HydirJobs ------------------------------
(***************************************************************************)
(* Analysis jobs of hydird (crates/hydir-server/src/main.rs).              *)
(*                                                                         *)
(* A start call (start_lift_job, start_program_analysis,                   *)
(* start_frida_observation) records a job in SQLite, spawns a tokio task   *)
(* that runs one worker process, and puts the task's handle into an        *)
(* in-memory registry.  A cancel call, a crash, a restart, or an           *)
(* administrative command that opens the same database, may act between    *)
(* any two steps.  Each action is one critical section of the database or  *)
(* registry mutex, or one stretch of code between two awaits.              *)
(*                                                                         *)
(* Abstracted: the role checks (a check may refuse a call at any time),    *)
(* the bytes analysed (a worker returns some digest or an error), and the  *)
(* three start handlers, which differ only in the kind they store: the     *)
(* field what of a request is the job's kind and symbol together.          *)
(***************************************************************************)
EXTENDS Integers, FiniteSets, Functions

CONSTANTS
    Job,          \* identifiers the server can mint (Uuid::new_v4)
    Call,         \* client calls that can be in flight at once
    Request,      \* start requests: [project, key, by, revision, what]
    Digest,       \* contents a worker can return, named by SHA-256
    None,         \* no value: an empty column, an idle call's fields
    MaxActive,    \* MAX_ACTIVE_JOBS_PER_IDENTITY
    MaxRevision,  \* bound: revisions of a project
    MaxCrashes,   \* bound: crashes of the server
    MaxOpens,     \* bound: administrative commands on the database
    MaxFaults     \* bound: database or content-storage errors

Project == {r.project : r \in Request}

ASSUME JobAssumption == IsFiniteSet(Job)
ASSUME NoneAssumption == None \notin Job \cup Request \cup Digest
ASSUME RequestAssumption ==
    \A r \in Request :
        /\ r = [project |-> r.project, key |-> r.key, by |-> r.by,
                revision |-> r.revision, what |-> r.what]
        /\ r.revision \in Nat \ {0}
ASSUME BoundAssumption ==
    /\ MaxActive \in Nat \ {0}
    /\ MaxRevision \in Nat \ {0}
    /\ {MaxCrashes, MaxOpens, MaxFaults} \subseteq Nat

Active == {"queued", "running"}
Terminal == {"succeeded", "failed", "cancelled", "interrupted"}
JobState == Active \cup Terminal

VARIABLES
    up,          \* the server process is running
    current,     \* projects.current_revision
    state,       \* jobs.state, "absent" where there is no row
    requestOf,   \* jobs.(project_id, idempotency_key, revision, kind, symbol)
    artifactOf,  \* jobs.artifact_sha256
    artifacts,   \* rows of table artifacts: <<project, revision, digest>>
    events,      \* rows of table job_events
    lastSeq,     \* last value AUTOINCREMENT gave to job_events.sequence
    task,        \* position of each job's tokio task
    result,      \* what the worker returned to the task
    aborted,     \* tasks whose handle was aborted
    workers,     \* Store::workers: jobs whose JoinHandle is registered
    call,        \* client calls in progress
    lost,        \* jobs whose task met a storage error and gave up
    spent        \* how often each bounded fault has happened

rows == <<state, requestOf, artifactOf, artifacts, events, lastSeq>>
tasks == <<task, result, aborted, lost>>
vars == <<up, current, rows, tasks, workers, call, spent>>

TaskPc == {"none", "waiting", "begin", "worker", "stage", "finish",
           "remove", "done"}
StartPc == {"prior", "fetch", "commit", "spawn", "register", "send", "started"}
CancelPc == {"update", "take", "join", "stopped"}
CallState == [pc : {"idle"} \cup StartPc \cup CancelPc,
              request : Request \cup {None},
              job : Job \cup {None}]
Event == [seq : Nat \ {0}, job : Job, state : JobState,
          artifact : Digest \cup {None}]

\* Every variable has the type its column or its field in Store has.
TypeOK ==
    /\ up \in BOOLEAN
    /\ current \in [Project -> 1..MaxRevision]
    /\ state \in [Job -> JobState \cup {"absent"}]
    /\ requestOf \in [Job -> Request \cup {None}]
    /\ artifactOf \in [Job -> Digest \cup {None}]
    /\ artifacts \subseteq (Project \X (Nat \ {0}) \X Digest)
    /\ events \subseteq Event
    /\ lastSeq \in Nat
    /\ task \in [Job -> TaskPc]
    /\ result \in [Job -> Digest \cup {None}]
    /\ aborted \subseteq Job
    /\ workers \subseteq Job
    /\ call \in [Call -> CallState]
    /\ lost \subseteq Job
    /\ spent \in [{"crash", "open", "fault"} -> Nat]

-----------------------------------------------------------------------------
(* Tables *)

IdleCall == [pc |-> "idle", request |-> None, job |-> None]

Rows == {j \in Job : state[j] # "absent"}
ActiveRows == {j \in Job : state[j] \in Active}
ActiveOf(i) == {j \in ActiveRows : requestOf[j].by = i}

\* The row an idempotency key of a project names, if there is one.
Keyed(r) == {j \in Rows : /\ requestOf[j].project = r.project
                          /\ requestOf[j].key = r.key}

\* Mutant of SameRequest: a key names its job whatever is asked.
SameKeyOnly(j, r) == requestOf[j].key = r.key

\* A retry may be answered with job j: same revision, kind and symbol.
SameRequest(j, r) == /\ requestOf[j].revision = r.revision
                     /\ requestOf[j].what = r.what

EventRow(n, j, s, d) == [seq |-> n, job |-> j, state |-> s, artifact |-> d]

\* Mutant of InsertEvent: the event takes the last number given, not the next.
InsertEventOffByOne(j, s, d) ==
    /\ lastSeq' = lastSeq + 1
    /\ events' = events \cup {EventRow(lastSeq, j, s, d)}

\* insert_event: AUTOINCREMENT numbers events of all jobs in one sequence.
InsertEvent(j, s, d) ==
    /\ lastSeq' = lastSeq + 1
    /\ events' = events \cup {EventRow(lastSeq + 1, j, s, d)}

\* Mutant of InterruptActive: the UPDATE runs before the INSERT ... SELECT, which
\* then finds no unfinished job.
InterruptUpdatesFirst ==
    /\ state' = [j \in Job |-> IF j \in ActiveRows THEN "interrupted" ELSE state[j]]
    /\ UNCHANGED <<requestOf, artifactOf, artifacts, events, lastSeq>>

\* The one transaction every open of the database runs after its migrations.
InterruptActive ==
    \E pos \in Injection(ActiveRows, 1..Cardinality(ActiveRows)) :
        /\ events' = events \cup
              {EventRow(lastSeq + pos[j], j, "interrupted", None) : j \in ActiveRows}
        /\ lastSeq' = lastSeq + Cardinality(ActiveRows)
        /\ state' = [j \in Job |-> IF j \in ActiveRows THEN "interrupted"
                                                      ELSE state[j]]
        /\ UNCHANGED <<requestOf, artifactOf, artifacts>>

Goto(c, pc) == call' = [call EXCEPT ![c].pc = pc]
Reply(c) == call' = [call EXCEPT ![c] = IdleCall]
Answer(c, j) == call' = [call EXCEPT ![c].pc = "started", ![c].job = j]
Fault == /\ spent["fault"] < MaxFaults
         /\ spent' = [spent EXCEPT !["fault"] = @ + 1]

Init ==
    /\ up = TRUE
    /\ current = [p \in Project |-> 1]
    /\ state = [j \in Job |-> "absent"]
    /\ requestOf = [j \in Job |-> None]
    /\ artifactOf = [j \in Job |-> None]
    /\ artifacts = {}
    /\ events = {}
    /\ lastSeq = 0
    /\ task = [j \in Job |-> "none"]
    /\ result = [j \in Job |-> None]
    /\ aborted = {}
    /\ workers = {}
    /\ call = [c \in Call |-> IdleCall]
    /\ lost = {}
    /\ spent = [f \in {"crash", "open", "fault"} |-> 0]

-----------------------------------------------------------------------------
(* The start calls *)

Start(c, r) ==
    /\ up
    /\ call[c].pc = "idle"
    /\ call' = [call EXCEPT ![c] = [pc |-> "prior", request |-> r, job |-> None]]
    /\ UNCHANGED <<up, current, rows, tasks, workers, spent>>

\* A key already in use answers the retry, or refuses another request; this is
\* also what the transaction of the commit step does first.
Replay(c) ==
    \E j \in Keyed(call[c].request) :
        IF SameRequest(j, call[c].request) THEN Answer(c, j) ELSE Reply(c)

StartPrior(c) ==
    /\ call[c].pc = "prior"
    /\ \/ Replay(c)
       \/ Keyed(call[c].request) = {} /\ Goto(c, "fetch")
    /\ UNCHANGED <<up, current, rows, tasks, workers, spent>>

\* current_binary: a read of the revision, then the await of the content.
StartFetch(c) ==
    /\ call[c].pc = "fetch"
    /\ IF current[call[c].request.project] = call[c].request.revision
       THEN Goto(c, "commit") ELSE Reply(c)
    /\ UNCHANGED <<up, current, rows, tasks, workers, spent>>

\* Mutant of Admissible: the limit is compared with <=.
AdmissibleOffByOne(r) ==
    /\ Keyed(r) = {}
    /\ current[r.project] = r.revision
    /\ Cardinality(ActiveOf(r.by)) <= MaxActive

\* The guards of the insert, read in the transaction that inserts.
Admissible(r) ==
    /\ Keyed(r) = {}
    /\ current[r.project] = r.revision
    /\ Cardinality(ActiveOf(r.by)) < MaxActive

InsertJob(c, j) ==
    /\ state[j] = "absent"
    /\ state' = [state EXCEPT ![j] = "queued"]
    /\ requestOf' = [requestOf EXCEPT ![j] = call[c].request]
    /\ InsertEvent(j, "queued", None)
    /\ call' = [call EXCEPT ![c].pc = "spawn", ![c].job = j]
    /\ UNCHANGED <<artifactOf, artifacts>>

StartCommit(c) ==
    /\ call[c].pc = "commit"
    /\ \/ Replay(c) /\ UNCHANGED rows
       \/ /\ Keyed(call[c].request) = {}
          /\ ~Admissible(call[c].request)
          /\ Reply(c)
          /\ UNCHANGED rows
       \/ /\ Admissible(call[c].request)
          /\ \E j \in Job : InsertJob(c, j)
    /\ UNCHANGED <<up, current, tasks, workers, spent>>

\* Mutant of StartSpawn: the task does not wait for its registration.
StartSpawnUngated(c) ==
    /\ call[c].pc = "spawn"
    /\ task' = [task EXCEPT ![call[c].job] = "begin"]
    /\ Goto(c, "register")
    /\ UNCHANGED <<up, current, rows, result, aborted, lost, workers, spent>>

\* The task is spawned but waits on the oneshot channel, so that its handle is
\* registered before it can finish.
StartSpawn(c) ==
    /\ call[c].pc = "spawn"
    /\ task' = [task EXCEPT ![call[c].job] = "waiting"]
    /\ Goto(c, "register")
    /\ UNCHANGED <<up, current, rows, result, aborted, lost, workers, spent>>

StartRegister(c) ==
    /\ call[c].pc = "register"
    /\ workers' = workers \cup {call[c].job}
    /\ Goto(c, "send")
    /\ UNCHANGED <<up, current, rows, tasks, spent>>

StartSend(c) ==
    /\ call[c].pc = "send"
    /\ task' = [task EXCEPT ![call[c].job] = IF @ = "waiting" THEN "begin" ELSE @]
    /\ Goto(c, "started")
    /\ UNCHANGED <<up, current, rows, result, aborted, lost, workers, spent>>

\* The client has its answer, or the connection that carried it is gone.
Acknowledge(c) ==
    /\ call[c].pc \in {"started", "stopped"}
    /\ Reply(c)
    /\ UNCHANGED <<up, current, rows, tasks, workers, spent>>

\* A role check, a validation, a storage error or a dropped connection ends a
\* call before its transaction commits.
Refuse(c) ==
    /\ call[c].pc \in {"prior", "fetch", "commit", "update"}
    /\ Reply(c)
    /\ UNCHANGED <<up, current, rows, tasks, workers, spent>>

-----------------------------------------------------------------------------
(* The task of a job: execute_lift_job and its two siblings *)

GoTask(j, pc) == task' = [task EXCEPT ![j] = pc]

\* transition_job("queued" -> "running"); when the row is no longer queued the
\* task returns at once and leaves its handle registered.
TaskBegin(j) ==
    /\ task[j] = "begin"
    /\ IF state[j] = "queued"
       THEN /\ state' = [state EXCEPT ![j] = "running"]
            /\ InsertEvent(j, "running", None)
            /\ GoTask(j, "worker")
       ELSE GoTask(j, "done") /\ UNCHANGED <<state, events, lastSeq>>
    /\ UNCHANGED <<up, current, requestOf, artifactOf, artifacts, result,
                   aborted, lost, workers, call, spent>>

\* Mutant of TaskWorker: an error of the worker returns early, as an error of
\* staging does.
TaskWorkerReturnsEarly(j) ==
    /\ task[j] = "worker"
    /\ \/ \E d \in Digest : /\ result' = [result EXCEPT ![j] = d]
                            /\ GoTask(j, "stage")
       \/ result' = [result EXCEPT ![j] = None] /\ GoTask(j, "remove")
    /\ UNCHANGED <<up, current, rows, aborted, lost, workers, call, spent>>

\* run_worker returns within its deadline, with a result or an error.
TaskWorker(j) ==
    /\ task[j] = "worker"
    /\ \/ \E d \in Digest : /\ result' = [result EXCEPT ![j] = d]
                            /\ GoTask(j, "stage")
       \/ result' = [result EXCEPT ![j] = None] /\ GoTask(j, "finish")
    /\ UNCHANGED <<up, current, rows, aborted, lost, workers, call, spent>>

\* content_storage.stage(...).await, before the transaction.
TaskStage(j) ==
    /\ task[j] = "stage"
    /\ GoTask(j, "finish")
    /\ UNCHANGED <<up, current, rows, result, aborted, lost, workers, call, spent>>

\* The transaction of finish_lift_job and finish_analysis_job.
Succeed(j) ==
    /\ state' = [state EXCEPT ![j] = "succeeded"]
    /\ artifactOf' = [artifactOf EXCEPT ![j] = result[j]]
    /\ artifacts' = artifacts \cup
          {<<requestOf[j].project, requestOf[j].revision, result[j]>>}
    /\ InsertEvent(j, "succeeded", result[j])
    /\ UNCHANGED requestOf

Fail(j) ==
    /\ state' = [state EXCEPT ![j] = "failed"]
    /\ InsertEvent(j, "failed", None)
    /\ UNCHANGED <<requestOf, artifactOf, artifacts>>

\* Mutant of TaskFinish: the row's state is not read again.
TaskFinishUnguarded(j) ==
    /\ task[j] = "finish"
    /\ \/ result[j] # None /\ Succeed(j)
       \/ result[j] = None /\ Fail(j)
    /\ GoTask(j, "remove")
    /\ UNCHANGED <<up, current, result, aborted, lost, workers, call, spent>>

\* Mutant of TaskFinish: the artifact is inserted before the state is read.
TaskFinishInsertsFirst(j) ==
    /\ task[j] = "finish"
    /\ \/ state[j] = "running" /\ result[j] # None /\ Succeed(j)
       \/ state[j] = "running" /\ result[j] = None /\ Fail(j)
       \/ /\ state[j] # "running"
          /\ artifacts' = artifacts \cup IF result[j] = None THEN {} ELSE
                {<<requestOf[j].project, requestOf[j].revision, result[j]>>}
          /\ UNCHANGED <<state, requestOf, artifactOf, events, lastSeq>>
    /\ GoTask(j, "remove")
    /\ UNCHANGED <<up, current, result, aborted, lost, workers, call, spent>>

TaskFinish(j) ==
    /\ task[j] = "finish"
    /\ \/ state[j] = "running" /\ result[j] # None /\ Succeed(j)
       \/ state[j] = "running" /\ result[j] = None /\ Fail(j)
       \/ state[j] # "running" /\ UNCHANGED rows
    /\ GoTask(j, "remove")
    /\ UNCHANGED <<up, current, result, aborted, lost, workers, call, spent>>

TaskRemove(j) ==
    /\ task[j] = "remove"
    /\ workers' = workers \ {j}
    /\ GoTask(j, "done")
    /\ UNCHANGED <<up, current, rows, result, aborted, lost, call, spent>>

\* An error of the transition ends the task; an error of staging or of the
\* last transaction is logged and the job's row stays as it is.
TaskFault(j) ==
    /\ task[j] \in {"begin", "stage", "finish"}
    /\ Fault
    /\ lost' = lost \cup {j}
    /\ GoTask(j, IF task[j] = "begin" THEN "done" ELSE "remove")
    /\ UNCHANGED <<up, current, rows, result, aborted, workers, call>>

\* An aborted task is dropped at an await; dropping run_worker's future kills
\* the process group of the worker.
TaskAborted(j) ==
    /\ j \in aborted
    /\ task[j] \in {"waiting", "begin", "worker", "stage"}
    /\ GoTask(j, "done")
    /\ UNCHANGED <<up, current, rows, result, aborted, lost, workers, call, spent>>

-----------------------------------------------------------------------------
(* The cancel calls *)

Cancel(c, j) ==
    /\ up
    /\ call[c].pc = "idle"
    /\ state[j] # "absent"
    /\ call' = [call EXCEPT ![c] = [pc |-> "update", request |-> None, job |-> j]]
    /\ UNCHANGED <<up, current, rows, tasks, workers, spent>>

\* Mutant of CancelUpdate: the UPDATE does not name the states it may leave.
CancelUpdateAnyState(c) ==
    /\ call[c].pc = "update"
    /\ state' = [state EXCEPT ![call[c].job] = "cancelled"]
    /\ InsertEvent(call[c].job, "cancelled", None)
    /\ Goto(c, "take")
    /\ UNCHANGED <<up, current, requestOf, artifactOf, artifacts, tasks,
                   workers, spent>>

CancelUpdate(c) ==
    /\ call[c].pc = "update"
    /\ LET j == call[c].job IN
       IF state[j] \in Active
       THEN /\ state' = [state EXCEPT ![j] = "cancelled"]
            /\ InsertEvent(j, "cancelled", None)
            /\ Goto(c, "take")
       ELSE Reply(c) /\ UNCHANGED <<state, events, lastSeq>>
    /\ UNCHANGED <<up, current, requestOf, artifactOf, artifacts, tasks,
                   workers, spent>>

CancelTake(c) ==
    /\ call[c].pc = "take"
    /\ workers' = workers \ {call[c].job}
    /\ IF call[c].job \in workers
       THEN aborted' = aborted \cup {call[c].job} /\ Goto(c, "join")
       ELSE Goto(c, "stopped") /\ UNCHANGED aborted
    /\ UNCHANGED <<up, current, rows, task, result, lost, spent>>

\* The call awaits the aborted task, for five seconds at most.
CancelJoin(c) ==
    /\ call[c].pc = "join"
    /\ \/ task[call[c].job] = "done" /\ Goto(c, "stopped")
       \/ task[call[c].job] # "done" /\ Reply(c)
    /\ UNCHANGED <<up, current, rows, tasks, workers, spent>>

-----------------------------------------------------------------------------
(* The world around the jobs *)

\* Another handler commits a revision of a project.
CommitRevision(p) ==
    /\ up
    /\ current[p] < MaxRevision
    /\ current' = [current EXCEPT ![p] = @ + 1]
    /\ UNCHANGED <<up, rows, tasks, workers, call, spent>>

Crash ==
    /\ up
    /\ spent["crash"] < MaxCrashes
    /\ up' = FALSE
    /\ spent' = [spent EXCEPT !["crash"] = @ + 1]
    /\ task' = [j \in Job |-> "none"]
    /\ result' = [j \in Job |-> None]
    /\ aborted' = {}
    /\ lost' = {}
    /\ workers' = {}
    /\ call' = [c \in Call |-> IdleCall]
    /\ UNCHANGED <<current, rows>>

\* Store::open_with_options when hydird starts.
Restart ==
    /\ ~up
    /\ up' = TRUE
    /\ InterruptActive
    /\ UNCHANGED <<current, tasks, workers, call, spent>>

\* `hydird identity ...` and `hydird access ...` open the same database in a
\* process of their own, whether or not a server is using it.
AdminOpen ==
    /\ spent["open"] < MaxOpens
    /\ spent' = [spent EXCEPT !["open"] = @ + 1]
    /\ InterruptActive
    /\ UNCHANGED <<up, current, tasks, workers, call>>

-----------------------------------------------------------------------------
StartStep(c) == \/ StartPrior(c) \/ StartFetch(c) \/ StartCommit(c)
                \/ StartSpawn(c) \/ StartRegister(c) \/ StartSend(c)
CancelStep(c) == CancelUpdate(c) \/ CancelTake(c) \/ CancelJoin(c)
CallStep(c) == StartStep(c) \/ CancelStep(c)
TaskStep(j) == \/ TaskBegin(j) \/ TaskWorker(j) \/ TaskStage(j)
               \/ TaskFinish(j) \/ TaskRemove(j) \/ TaskFault(j)
               \/ TaskAborted(j)

Next ==
    \/ \E c \in Call : \/ \E r \in Request : Start(c, r)
                       \/ \E j \in Job : Cancel(c, j)
                       \/ CallStep(c) \/ Acknowledge(c) \/ Refuse(c)
    \/ \E j \in Job : TaskStep(j)
    \/ \E p \in Project : CommitRevision(p)
    \/ Crash \/ Restart \/ AdminOpen

Spec == Init /\ [][Next]_vars

\* tokio polls every task and every handler that can make progress, and
\* run_worker has a deadline; nothing obliges a client, a crash or an operator.
Fairness == /\ \A c \in Call : WF_vars(CallStep(c))
            /\ \A j \in Job : WF_vars(TaskStep(j))

FairSpec == Spec /\ Fairness

-----------------------------------------------------------------------------
(* Properties *)

History(j) == {e \in events : e.job = j}
Rank(s) == CASE s = "queued" -> 1 [] s = "running" -> 2 [] OTHER -> 3

HistoryMatches(j) ==
    /\ History(j) = {} <=> state[j] = "absent"
    /\ \A e, f \in History(j) :
          e.seq <= f.seq /\ e # f => Rank(e.state) < Rank(f.state)
    /\ state[j] # "absent" =>
         /\ \E e \in History(j) : e.state = "queued"
         /\ \E e \in History(j) :
               /\ e.state = state[j] /\ e.artifact = artifactOf[j]
               /\ \A f \in History(j) : f.seq <= e.seq

\* What a client replays from job_events tells the same story as the row of
\* the job, whichever of the task, a cancel call, a restart or an operator
\* wrote it: the history of a job begins with "queued", never repeats or goes
\* back, and its last event carries the row's state and artifact.
HistoryMatchesState == \A j \in Job : HistoryMatches(j)

\* No artifact of a job that failed, was cancelled or was interrupted is ever
\* published, and a job that succeeded has its artifact at its own revision.
ArtifactsAreResults ==
    /\ \A j \in Job : state[j] = "succeeded" <=> artifactOf[j] # None
    /\ artifacts = {<<requestOf[j].project, requestOf[j].revision, artifactOf[j]>> :
                       j \in {k \in Job : state[k] = "succeeded"}}

\* Concurrent start calls cannot together exceed the limit of unfinished jobs
\* that the insert transaction checks for an identity.
ActiveLimit ==
    \A i \in {r.by : r \in Request} : Cardinality(ActiveOf(i)) <= MaxActive

\* An idempotency key of a project names one job, and every start call that was
\* answered was answered with that job, for the request it made.
OneJobPerKey ==
    /\ \A j \in Rows : Keyed(requestOf[j]) = {j}
    /\ \A c \in Call : call[c].pc = "started" =>
          /\ Keyed(call[c].request) = {call[c].job}
          /\ requestOf[call[c].job].revision = call[c].request.revision
          /\ requestOf[call[c].job].what = call[c].request.what

\* An unfinished job of a running server is in the hands of a start call that
\* will spawn its task, or of a task that will end it, unless a storage error
\* made its task give up: nothing else can leave it unfinished for ever.
ActiveJobIsOwned ==
    up => \A j \in ActiveRows \ lost :
            \/ \E c \in Call : call[c].job = j /\ call[c].pc \in {"spawn", "register", "send"}
                               /\ state[j] = "queued"
            \/ state[j] = "queued" /\ task[j] = "begin"
            \/ state[j] = "running" /\ task[j] \in {"worker", "stage", "finish"}

\* When cancel_job has cancelled a job and answers without an error, no worker
\* of the job runs or will run, whether or not its handle was registered yet.
CancelStopsWorker ==
    \A c \in Call : call[c].pc = "stopped" =>
        task[call[c].job] \notin {"worker", "stage", "finish"}

\* A task has begun: transition_job has written "running" for its job.
Begun(j) == \E e \in History(j) : e.state = "running"

\* Only a task that never began leaves its handle in the registry: its job was
\* ended from outside first, or the transition to "running" failed. A task that
\* ran its worker has removed its handle when it is done, whatever failed.
FinishedTaskIsUnregistered ==
    \A j \in workers : task[j] = "done" =>
        ~Begun(j) /\ (state[j] \in {"cancelled", "interrupted"} \/ j \in lost)

\* A job that ended never changes its end or its artifact, whatever its task,
\* a late cancel call or a later open of the database still does.
TerminalIsFinal ==
    [][\A j \in Job : state[j] \in Terminal =>
          state'[j] = state[j] /\ artifactOf'[j] = artifactOf[j]]_vars

\* "server restarted before completion": the diagnostic of an interrupted job
\* says that the server was restarted, so a server that is up interrupts none.
InterruptedMeansRestarted ==
    [][\A j \in Job : state[j] \in Active /\ state'[j] = "interrupted" => ~up]_vars

\* While the server stays up every job ends, unless storage failed under it.
JobsEnd ==
    \A j \in Job : state[j] \in Active ~> state[j] \in Terminal \/ j \in lost \/ ~up

Lifecycle == INSTANCE HydirJobLifecycle
    WITH Identity <- {r.by : r \in Request},
         phase <- state,
         owner <- [j \in Job |-> IF requestOf[j] = None THEN None ELSE requestOf[j].by],
         artifact <- artifactOf

\* The jobs and events of the server are those the abstract life cycle allows.
ImplementsLifecycle == Lifecycle!Spec
=============================================================================
