--------------------------- MODULE HydirJobsProofs ---------------------------
(***************************************************************************)
(* Theorems about HydirJobs, for any number of jobs, calls, requests,      *)
(* crashes, opens of the database and faults.                              *)
(***************************************************************************)
EXTENDS HydirJobs, FiniteSetTheorems, TLAPS

\* A call past its first step has what that step put into it: start handlers
\* their request, and calls that found or made a job, the job's row.
CallsAreFilled ==
    \A c \in Call :
        /\ call[c].pc \in {"prior", "fetch", "commit", "spawn", "register", "send"}
              => call[c].request \in Request
        /\ call[c].pc \in {"spawn", "register", "send", "started"} \cup CancelPc
              => /\ call[c].job \in Job
                 /\ state[call[c].job] # "absent"

\* The columns of a job's row are filled, and only a job with a row has a task.
RowsAreFilled ==
    \A j \in Job : /\ state[j] = "absent" => requestOf[j] = None
                   /\ state[j] # "absent" => requestOf[j] \in Request
                   /\ task[j] # "none" => state[j] # "absent"

\* Inductive strengthening of TypeOK: the types of the columns a step writes
\* follow from the rows and calls it reads.
TypeInv == TypeOK /\ CallsAreFilled /\ RowsAreFilled

-----------------------------------------------------------------------------
(* Lemmas *)

\* A cardinality of jobs is a number: every set of jobs is finite.
LEMMA JobsAreFinite ==
    ASSUME NEW S \in SUBSET Job
    PROVE  IsFiniteSet(S) /\ Cardinality(S) \in Nat
  BY JobAssumption, FS_Subset, FS_CardinalityType

\* The row of an event is an event.
LEMMA EventRowType ==
    ASSUME NEW n \in Nat \ {0}, NEW j \in Job, NEW s \in JobState,
           NEW d \in Digest \cup {None}
    PROVE  EventRow(n, j, s, d) \in Event
  BY DEF EventRow, Event

\* What insert_event leaves in the table.
LEMMA InsertEventType ==
    ASSUME events \subseteq Event, lastSeq \in Nat,
           NEW j \in Job, NEW s \in JobState, NEW d \in Digest \cup {None},
           InsertEvent(j, s, d)
    PROVE  events' \subseteq Event /\ lastSeq' \in Nat
  <1>1. lastSeq + 1 \in Nat \ {0}
    OBVIOUS
  <1>2. EventRow(lastSeq + 1, j, s, d) \in Event
    BY <1>1, EventRowType
  <1> QED
    BY <1>1, <1>2 DEF InsertEvent

\* An open of the database keeps the tables typed, and no row comes or goes.
LEMMA InterruptActiveType ==
    ASSUME TypeInv, InterruptActive
    PROVE  /\ state' \in [Job -> JobState \cup {"absent"}]
           /\ events' \subseteq Event
           /\ lastSeq' \in Nat
           /\ \A j \in Job : state[j] = "absent" <=> state'[j] = "absent"
  <1> DEFINE n == Cardinality(ActiveRows)
  <1>1. n \in Nat
    BY JobsAreFinite DEF ActiveRows
  <1>2. PICK pos \in Injection(ActiveRows, 1..n) :
            /\ events' = events \cup
                  {EventRow(lastSeq + pos[j], j, "interrupted", None) : j \in ActiveRows}
            /\ lastSeq' = lastSeq + n
            /\ state' = [j \in Job |-> IF j \in ActiveRows THEN "interrupted"
                                                          ELSE state[j]]
    BY DEF InterruptActive
  <1>3. \A j \in ActiveRows : pos[j] \in 1..n
    BY <1>2 DEF Injection
  <1>4. lastSeq \in Nat
    BY DEF TypeInv, TypeOK
  <1>5. ASSUME NEW j \in ActiveRows
        PROVE  EventRow(lastSeq + pos[j], j, "interrupted", None) \in Event
    <2>1. lastSeq + pos[j] \in Nat \ {0}
      BY <1>1, <1>3, <1>4
    <2>2. j \in Job /\ "interrupted" \in JobState
      BY DEF ActiveRows, JobState, Terminal
    <2> QED
      BY <2>1, <2>2, EventRowType
  <1>6. events' \subseteq Event
    BY <1>2, <1>5 DEF TypeInv, TypeOK
  <1>7. state' \in [Job -> JobState \cup {"absent"}]
    BY <1>2 DEF TypeInv, TypeOK, JobState, Terminal
  <1>8. \A j \in Job : state[j] = "absent" <=> state'[j] = "absent"
    BY <1>2 DEF ActiveRows, Active
  <1> QED
    BY <1>1, <1>2, <1>4, <1>6, <1>7, <1>8

-----------------------------------------------------------------------------
(* Type correctness *)

\* The server starts with its types.
LEMMA InitTypeInv == Init => TypeInv
  BY BoundAssumption
  DEF Init, TypeInv, TypeOK, CallsAreFilled, RowsAreFilled, IdleCall, CallState,
      TaskPc, StartPc, CancelPc, Project

\* Each step of a call preserves the types.
LEMMA CallTypeInv ==
    ASSUME TypeInv, NEW c \in Call,
           \/ \E r \in Request : Start(c, r)
           \/ \E j \in Job : Cancel(c, j)
           \/ CallStep(c) \/ Acknowledge(c) \/ Refuse(c)
    PROVE  TypeInv'
  <1> USE DEF TypeInv, TypeOK, CallsAreFilled, RowsAreFilled, CallState, StartPc,
              CancelPc, rows, tasks
  <1>1. ASSUME NEW r \in Request, Start(c, r) PROVE TypeInv'
    BY <1>1 DEF Start
  <1>2. ASSUME NEW j \in Job, Cancel(c, j) PROVE TypeInv'
    BY <1>2 DEF Cancel
  <1>3. CASE StartPrior(c)
    BY <1>3, SMTT(30) DEF StartPrior, Replay, Keyed, Rows, Answer, Reply, Goto, IdleCall
  <1>4. CASE StartFetch(c)
    BY <1>4 DEF StartFetch, Reply, Goto, IdleCall
  <1>5. CASE StartCommit(c)
    <2> UNCHANGED <<up, current, tasks, workers, spent>>
      BY <1>5 DEF StartCommit
    <2>1. CASE Replay(c) /\ UNCHANGED rows
      BY <2>1 DEF Replay, Keyed, Rows, Answer, Reply, IdleCall
    <2>2. CASE Reply(c) /\ UNCHANGED rows
      BY <2>2 DEF Reply, IdleCall
    <2>3. ASSUME NEW j \in Job, InsertJob(c, j) PROVE TypeInv'
      <3>1. events' \subseteq Event /\ lastSeq' \in Nat
        BY <2>3, InsertEventType DEF InsertJob, JobState, Active
      <3>2. call[c].request \in Request
        BY <1>5 DEF StartCommit
      <3>3. state' \in [Job -> JobState \cup {"absent"}]
        BY <2>3 DEF InsertJob, JobState, Active
      <3>4. requestOf' \in [Job -> Request \cup {None}]
        BY <2>3, <3>2 DEF InsertJob
      <3>5. call' \in [Call -> CallState]
        <4>1. call[c] \in CallState
          OBVIOUS
        <4>2. [call[c] EXCEPT !.pc = "spawn", !.job = j] \in CallState
          BY <4>1
        <4>3. call' = [call EXCEPT ![c] = [call[c] EXCEPT !.pc = "spawn", !.job = j]]
          BY <2>3 DEF InsertJob
        <4> QED
          BY <4>2, <4>3
      <3>6. CallsAreFilled'
        BY <2>3, <3>2 DEF InsertJob
      <3>7. RowsAreFilled'
        BY <2>3, <3>2 DEF InsertJob
      <3>8. UNCHANGED <<artifactOf, artifacts>>
        BY <2>3 DEF InsertJob
      <3> QED
        BY <3>1, <3>3, <3>4, <3>5, <3>6, <3>7, <3>8
    <2> QED
      BY <1>5, <2>1, <2>2, <2>3 DEF StartCommit
  <1>6. CASE StartSpawn(c)
    BY <1>6 DEF StartSpawn, Goto, TaskPc
  <1>7. CASE StartRegister(c)
    BY <1>7 DEF StartRegister, Goto
  <1>8. CASE StartSend(c)
    BY <1>8 DEF StartSend, Goto, TaskPc
  <1>9. CASE CancelUpdate(c)
    <2>1. CASE Reply(c) /\ UNCHANGED <<state, events, lastSeq>>
      BY <1>9, <2>1 DEF CancelUpdate, Reply, IdleCall
    <2>2. CASE /\ state' = [state EXCEPT ![call[c].job] = "cancelled"]
               /\ InsertEvent(call[c].job, "cancelled", None)
               /\ Goto(c, "take")
      <3>1. call[c].job \in Job
        BY <1>9 DEF CancelUpdate
      <3>2. events' \subseteq Event /\ lastSeq' \in Nat
        BY <2>2, <3>1, InsertEventType DEF JobState, Terminal
      <3>3. state' \in [Job -> JobState \cup {"absent"}]
        BY <2>2 DEF JobState, Terminal
      <3> QED
        BY <1>9, <2>2, <3>1, <3>2, <3>3 DEF CancelUpdate, Goto
    <2> QED
      BY <1>9, <2>1, <2>2 DEF CancelUpdate
  <1>10. CASE CancelTake(c)
    BY <1>10, SMTT(30) DEF CancelTake, Goto
  <1>11. CASE CancelJoin(c)
    BY <1>11 DEF CancelJoin, Goto, Reply, IdleCall
  <1>12. CASE Acknowledge(c) \/ Refuse(c)
    BY <1>12 DEF Acknowledge, Refuse, Reply, IdleCall
  <1> QED
    BY <1>1, <1>2, <1>3, <1>4, <1>5, <1>6, <1>7, <1>8, <1>9, <1>10, <1>11, <1>12
    DEF CallStep, StartStep, CancelStep

\* Each step of a task preserves the types.
LEMMA TaskTypeInv ==
    ASSUME TypeInv, NEW j \in Job, TaskStep(j)
    PROVE  TypeInv'
  <1> USE DEF TypeInv, TypeOK, CallsAreFilled, RowsAreFilled, rows, TaskPc
  <1>1. CASE TaskBegin(j)
    <2>1. CASE UNCHANGED <<state, events, lastSeq>>
      BY <1>1, <2>1 DEF TaskBegin, GoTask
    <2>2. CASE /\ state[j] = "queued"
               /\ state' = [state EXCEPT ![j] = "running"]
               /\ InsertEvent(j, "running", None)
               /\ GoTask(j, "worker")
      <3>1. events' \subseteq Event /\ lastSeq' \in Nat
        BY <2>2, InsertEventType DEF JobState, Active
      <3> QED
        BY <1>1, <2>2, <3>1 DEF TaskBegin, GoTask, JobState, Active
    <2> QED
      BY <1>1, <2>1, <2>2 DEF TaskBegin
  <1>2. CASE TaskWorker(j)
    BY <1>2 DEF TaskWorker, GoTask
  <1>3. CASE TaskStage(j)
    BY <1>3 DEF TaskStage, GoTask
  <1>4. CASE TaskFinish(j)
    <2> UNCHANGED <<up, current, result, aborted, lost, workers, call, spent>>
      BY <1>4 DEF TaskFinish
    <2> task' = [task EXCEPT ![j] = "remove"]
      BY <1>4 DEF TaskFinish, GoTask
    <2>1. CASE state[j] = "running" /\ result[j] # None /\ Succeed(j)
      <3>1. result[j] \in Digest
        BY <2>1
      <3>2. events' \subseteq Event /\ lastSeq' \in Nat
        BY <2>1, <3>1, InsertEventType DEF Succeed, JobState, Terminal
      <3>3. requestOf[j] \in Request
        BY <2>1
      <3>4. <<requestOf[j].project, requestOf[j].revision, result[j]>>
               \in Project \X (Nat \ {0}) \X Digest
        BY <3>1, <3>3, RequestAssumption DEF Project
      <3>5. artifacts' \subseteq Project \X (Nat \ {0}) \X Digest
        BY <2>1, <3>4 DEF Succeed
      <3>6. /\ state' = [state EXCEPT ![j] = "succeeded"]
            /\ artifactOf' = [artifactOf EXCEPT ![j] = result[j]]
            /\ requestOf' = requestOf
        BY <2>1 DEF Succeed
      <3> QED
        BY <2>1, <3>1, <3>2, <3>5, <3>6 DEF JobState, Terminal
    <2>2. CASE state[j] = "running" /\ result[j] = None /\ Fail(j)
      <3>1. events' \subseteq Event /\ lastSeq' \in Nat
        BY <2>2, InsertEventType DEF Fail, JobState, Terminal
      <3> QED
        BY <2>2, <3>1 DEF Fail, JobState, Terminal
    <2>3. CASE UNCHANGED rows
      BY <1>4, <2>3 DEF TaskFinish
    <2> QED
      BY <1>4, <2>1, <2>2, <2>3 DEF TaskFinish
  <1>5. CASE TaskRemove(j)
    BY <1>5 DEF TaskRemove, GoTask
  <1>6. CASE TaskFault(j)
    BY <1>6 DEF TaskFault, Fault, GoTask
  <1>7. CASE TaskAborted(j)
    BY <1>7 DEF TaskAborted, GoTask
  <1> QED
    BY <1>1, <1>2, <1>3, <1>4, <1>5, <1>6, <1>7 DEF TaskStep

\* Every step of the system preserves the types.
LEMMA NextTypeInv == TypeInv /\ [Next]_vars => TypeInv'
  <1> SUFFICES ASSUME TypeInv, [Next]_vars PROVE TypeInv'
    OBVIOUS
  <1> USE DEF TypeInv, TypeOK, CallsAreFilled, RowsAreFilled, rows, tasks
  <1>1. ASSUME NEW p \in Project, CommitRevision(p) PROVE TypeInv'
    <2>1. current' \in [Project -> 1..MaxRevision]
      BY <1>1, BoundAssumption DEF CommitRevision
    <2> QED
      BY <1>1, <2>1 DEF CommitRevision
  <1>2. CASE Crash
    <2>1. call' = [c \in Call |-> IdleCall]
      BY <1>2 DEF Crash
    <2>2. call' \in [Call -> CallState]
      BY <2>1 DEF IdleCall, CallState
    <2>3. CallsAreFilled'
      BY <2>1 DEF IdleCall, CancelPc
    <2>4. /\ up' \in BOOLEAN
          /\ task' \in [Job -> TaskPc]
          /\ result' \in [Job -> Digest \cup {None}]
      BY <1>2 DEF Crash, TaskPc
    <2>5. spent' \in [{"crash", "open", "fault"} -> Nat]
      BY <1>2 DEF Crash
    <2>6. /\ UNCHANGED <<current, rows>>
          /\ aborted' = {} /\ lost' = {} /\ workers' = {}
          /\ task' = [j \in Job |-> "none"]
      BY <1>2 DEF Crash
    <2>7. RowsAreFilled'
      BY <2>6
    <2> QED
      BY <2>2, <2>3, <2>4, <2>5, <2>6, <2>7
  <1>3. CASE Restart
    BY <1>3, InterruptActiveType DEF Restart, InterruptActive
  <1>4. CASE AdminOpen
    BY <1>4, InterruptActiveType, SMTT(30) DEF AdminOpen, InterruptActive
  <1>5. CASE UNCHANGED vars
    BY <1>5 DEF vars
  <1> QED
    BY <1>1, <1>2, <1>3, <1>4, <1>5, CallTypeInv, TaskTypeInv DEF Next

\* The rows, registry and calls of the server always have the types their
\* columns and fields in Store declare.
THEOREM TypeCorrect == Spec => []TypeOK
  <1>1. TypeInv => TypeOK
    BY DEF TypeInv
  <1> QED
    BY InitTypeInv, NextTypeInv, <1>1, PTL DEF Spec

-----------------------------------------------------------------------------
(* What a step can do to the rows of the database *)

Submitted(j, r) ==
    /\ state[j] = "absent"
    /\ Admissible(r)
    /\ state' = [state EXCEPT ![j] = "queued"]
    /\ requestOf' = [requestOf EXCEPT ![j] = r]
    /\ InsertEvent(j, "queued", None)
    /\ UNCHANGED <<artifactOf, artifacts>>

\* The row of an unfinished job moves from a state of the set to another state.
Moved(j, from, to) ==
    /\ state[j] \in from
    /\ state' = [state EXCEPT ![j] = to]
    /\ InsertEvent(j, to, None)
    /\ UNCHANGED <<requestOf, artifactOf, artifacts>>

Published(j) == state[j] = "running" /\ result[j] \in Digest /\ Succeed(j)

RowStep ==
    \/ \E j \in Job : \/ \E r \in Request : Submitted(j, r)
                      \/ Moved(j, {"queued"}, "running")
                      \/ Moved(j, {"running"}, "failed")
                      \/ Moved(j, Active, "cancelled")
                      \/ Published(j)
    \/ InterruptActive
    \/ UNCHANGED rows

\* Calls, tasks, crashes and opens change the rows in these ways only: the
\* critical sections of the handlers, whatever step each handler is at.
LEMMA NextIsRowStep ==
    ASSUME TypeInv, [Next]_vars
    PROVE  RowStep
  <1>1. ASSUME NEW c \in Call, StartCommit(c) PROVE RowStep
    <2>1. ASSUME NEW j \in Job, InsertJob(c, j), Admissible(call[c].request)
          PROVE  Submitted(j, call[c].request) /\ call[c].request \in Request
      BY <1>1, <2>1 DEF StartCommit, InsertJob, Submitted, TypeInv, CallsAreFilled
    <2> QED
      BY <1>1, <2>1 DEF StartCommit, RowStep
  <1>2. ASSUME NEW c \in Call, CancelUpdate(c) PROVE RowStep
    <2>1. call[c].job \in Job
      BY <1>2 DEF CancelUpdate, TypeInv, CallsAreFilled, CancelPc
    <2>2. CASE state[call[c].job] \in Active
      <3>1. Moved(call[c].job, Active, "cancelled")
        BY <1>2, <2>2 DEF CancelUpdate, Moved
      <3> QED
        BY <2>1, <3>1 DEF RowStep
    <2>3. CASE state[call[c].job] \notin Active
      BY <1>2, <2>3 DEF CancelUpdate, RowStep, rows
    <2> QED
      BY <2>2, <2>3
  <1>3. ASSUME NEW c \in Call, NEW r \in Request, Start(c, r) PROVE RowStep
    BY <1>3 DEF Start, RowStep
  <1>4. ASSUME NEW c \in Call, NEW j \in Job, Cancel(c, j) PROVE RowStep
    BY <1>4 DEF Cancel, RowStep
  <1>5. ASSUME NEW c \in Call,
               \/ StartPrior(c) \/ StartFetch(c) \/ StartSpawn(c) \/ StartRegister(c)
               \/ StartSend(c) \/ CancelTake(c) \/ CancelJoin(c)
               \/ Acknowledge(c) \/ Refuse(c)
        PROVE  RowStep
    <2>1. UNCHANGED rows
      BY <1>5 DEF StartPrior, StartFetch, StartSpawn, StartRegister, StartSend,
                  CancelTake, CancelJoin, Acknowledge, Refuse
    <2> QED
      BY <2>1 DEF RowStep
  <1>6. ASSUME NEW j \in Job, TaskBegin(j) PROVE RowStep
    <2>1. CASE state[j] = "queued"
      <3>1. Moved(j, {"queued"}, "running")
        BY <1>6, <2>1 DEF TaskBegin, Moved
      <3> QED
        BY <3>1 DEF RowStep
    <2>2. CASE state[j] # "queued"
      BY <1>6, <2>2 DEF TaskBegin, RowStep, rows
    <2> QED
      BY <2>1, <2>2
  <1>7. ASSUME NEW j \in Job, TaskFinish(j) PROVE RowStep
    <2>1. CASE state[j] = "running" /\ result[j] # None /\ Succeed(j)
      <3>1. Published(j)
        BY <2>1 DEF Published, TypeInv, TypeOK
      <3> QED
        BY <3>1 DEF RowStep
    <2>2. CASE state[j] = "running" /\ result[j] = None /\ Fail(j)
      <3>1. Moved(j, {"running"}, "failed")
        BY <2>2 DEF Fail, Moved
      <3> QED
        BY <3>1 DEF RowStep
    <2>3. CASE UNCHANGED rows
      BY <2>3 DEF RowStep
    <2> QED
      BY <1>7, <2>1, <2>2, <2>3 DEF TaskFinish
  <1>8. ASSUME NEW j \in Job,
               \/ TaskWorker(j) \/ TaskStage(j) \/ TaskRemove(j)
               \/ TaskFault(j) \/ TaskAborted(j)
        PROVE  RowStep
    <2>1. UNCHANGED rows
      BY <1>8 DEF TaskWorker, TaskStage, TaskRemove, TaskFault, TaskAborted
    <2> QED
      BY <2>1 DEF RowStep
  <1>9. CASE (\E p \in Project : CommitRevision(p)) \/ Crash \/ UNCHANGED vars
    <2>1. UNCHANGED rows
      BY <1>9 DEF CommitRevision, Crash, vars
    <2> QED
      BY <2>1 DEF RowStep
  <1>10. CASE Restart \/ AdminOpen
    BY <1>10 DEF Restart, AdminOpen, RowStep
  <1> QED
    BY <1>1, <1>2, <1>3, <1>4, <1>5, <1>6, <1>7, <1>8, <1>9, <1>10
    DEF Next, CallStep, StartStep, CancelStep, TaskStep

-----------------------------------------------------------------------------
(* Jobs that ended *)

\* A job that ended keeps its end and its artifact: neither a task that was not
\* aborted in time, nor a late cancel call, nor an open of the database by
\* another process can write the row again.
THEOREM EndsAreFinal == Spec => TerminalIsFinal
  <1>1. ASSUME TypeInv, [Next]_vars, NEW j \in Job, state[j] \in Terminal
        PROVE  state'[j] = state[j] /\ artifactOf'[j] = artifactOf[j]
    <2> state[j] \notin Active /\ state[j] \notin {"absent", "running", "queued"}
      BY <1>1 DEF Active, Terminal
    <2> state \in [Job -> JobState \cup {"absent"}]
      BY <1>1 DEF TypeInv, TypeOK
    <2>1. CASE \E k \in Job, r \in Request : Submitted(k, r)
      BY <2>1 DEF Submitted
    <2>2. CASE \E k \in Job : \/ Moved(k, {"queued"}, "running")
                              \/ Moved(k, {"running"}, "failed")
                              \/ Moved(k, Active, "cancelled")
      BY <2>2 DEF Moved
    <2>3. CASE \E k \in Job : Published(k)
      <3>1. artifactOf \in [Job -> Digest \cup {None}]
        BY <1>1 DEF TypeInv, TypeOK
      <3> QED
        BY <2>3, <3>1 DEF Published, Succeed
    <2>4. CASE InterruptActive
      BY <2>4 DEF InterruptActive, ActiveRows
    <2>5. CASE UNCHANGED rows
      BY <2>5 DEF rows
    <2> QED
      BY <1>1, NextIsRowStep, <2>1, <2>2, <2>3, <2>4, <2>5 DEF RowStep
  <1>2. TypeInv /\ [Next]_vars
           => [\A j \in Job : state[j] \in Terminal =>
                  state'[j] = state[j] /\ artifactOf'[j] = artifactOf[j]]_vars
    BY <1>1
  <1> QED
    BY InitTypeInv, NextTypeInv, <1>2, PTL DEF Spec, TerminalIsFinal

-----------------------------------------------------------------------------
(* The limit of unfinished jobs *)

\* The number of unfinished jobs of an identity never exceeds the limit: the
\* count and the insert are in one transaction, and no other step makes a job
\* unfinished.
THEOREM LimitHolds == Spec => []ActiveLimit
  <1> DEFINE Identity == {r.by : r \in Request}
  <1>1. Init => ActiveLimit
    <2> SUFFICES ASSUME Init, NEW i \in Identity PROVE Cardinality(ActiveOf(i)) <= MaxActive
      BY DEF ActiveLimit
    <2>1. ActiveOf(i) = {}
      BY DEF Init, ActiveOf, ActiveRows, Active
    <2> QED
      BY <2>1, FS_EmptySet, BoundAssumption
  <1>2. TypeInv /\ ActiveLimit /\ [Next]_vars => ActiveLimit'
    <2> SUFFICES ASSUME TypeInv, ActiveLimit, [Next]_vars, NEW i \in Identity
                 PROVE  Cardinality(ActiveOf(i)') <= MaxActive
      BY DEF ActiveLimit
    <2> state \in [Job -> JobState \cup {"absent"}] /\ requestOf \in [Job -> Request \cup {None}]
      BY DEF TypeInv, TypeOK
    <2>1. Cardinality(ActiveOf(i)) <= MaxActive
      BY DEF ActiveLimit
    <2>2. IsFiniteSet(ActiveOf(i)) /\ Cardinality(ActiveOf(i)) \in Nat
      BY JobsAreFinite DEF ActiveOf, ActiveRows
    <2>3. ASSUME ActiveOf(i)' \subseteq ActiveOf(i)
          PROVE  Cardinality(ActiveOf(i)') <= MaxActive
      <3>1. /\ Cardinality(ActiveOf(i)') <= Cardinality(ActiveOf(i))
            /\ Cardinality(ActiveOf(i)') \in Nat
        BY <2>2, <2>3, FS_Subset, FS_CardinalityType
      <3> QED
        BY <2>1, <2>2, <3>1, BoundAssumption
    <2>4. ASSUME NEW j \in Job, NEW r \in Request, Submitted(j, r)
          PROVE  Cardinality(ActiveOf(i)') <= MaxActive
      <3>1. CASE r.by = i
        <4>1. ActiveOf(i)' = ActiveOf(i) \cup {j}
          BY <2>4, <3>1 DEF Submitted, ActiveOf, ActiveRows, Active
        <4>2. j \notin ActiveOf(i)
          BY <2>4 DEF Submitted, ActiveOf, ActiveRows, Active
        <4>3. Cardinality(ActiveOf(i) \cup {j}) = Cardinality(ActiveOf(i)) + 1
          BY <2>2, <4>2, FS_AddElement
        <4>4. Cardinality(ActiveOf(i)) < MaxActive
          BY <2>4, <3>1 DEF Submitted, Admissible
        <4> QED
          BY <2>2, <4>1, <4>3, <4>4, BoundAssumption
      <3>2. CASE r.by # i
        <4>1. ActiveOf(i)' \subseteq ActiveOf(i)
          BY <2>4, <3>2 DEF Submitted, ActiveOf, ActiveRows, Active
        <4> QED
          BY <4>1, <2>3
      <3> QED
        BY <3>1, <3>2
    <2>5. CASE \E j \in Job : \/ Moved(j, {"queued"}, "running")
                              \/ Moved(j, {"running"}, "failed")
                              \/ Moved(j, Active, "cancelled")
      <3>1. ActiveOf(i)' \subseteq ActiveOf(i)
        BY <2>5 DEF Moved, ActiveOf, ActiveRows, Active
      <3> QED
        BY <3>1, <2>3
    <2>6. CASE \E j \in Job : Published(j)
      <3>1. ActiveOf(i)' \subseteq ActiveOf(i)
        BY <2>6 DEF Published, Succeed, ActiveOf, ActiveRows, Active
      <3> QED
        BY <3>1, <2>3
    <2>7. CASE InterruptActive
      <3>1. ActiveOf(i)' \subseteq ActiveOf(i)
        BY <2>7 DEF InterruptActive, ActiveOf, ActiveRows, Active
      <3> QED
        BY <3>1, <2>3
    <2>8. CASE UNCHANGED rows
      <3>1. ActiveOf(i)' = ActiveOf(i)
        BY <2>8 DEF rows, ActiveOf, ActiveRows
      <3> QED
        BY <3>1, <2>1
    <2> QED
      BY NextIsRowStep, <2>4, <2>5, <2>6, <2>7, <2>8 DEF RowStep
  <1> QED
    BY InitTypeInv, NextTypeInv, <1>1, <1>2, PTL DEF Spec

-----------------------------------------------------------------------------
(* Artifacts *)

\* Nothing is published for a job that did not succeed, and the artifact of a
\* job that did is at the job's own project and revision.
THEOREM OnlyResultsArePublished == Spec => []ArtifactsAreResults
  <1>1. Init => ArtifactsAreResults
    BY DEF Init, ArtifactsAreResults
  <1>2. TypeInv /\ ArtifactsAreResults /\ [Next]_vars => ArtifactsAreResults'
    <2> SUFFICES ASSUME TypeInv, ArtifactsAreResults, [Next]_vars
                 PROVE  ArtifactsAreResults'
      OBVIOUS
    <2> USE DEF ArtifactsAreResults
    <2> /\ state \in [Job -> JobState \cup {"absent"}]
        /\ requestOf \in [Job -> Request \cup {None}]
        /\ artifactOf \in [Job -> Digest \cup {None}]
      BY DEF TypeInv, TypeOK
    <2>1. ASSUME UNCHANGED <<artifactOf, artifacts>>,
                 \A j \in Job : /\ state[j] = "succeeded" <=> state'[j] = "succeeded"
                                /\ state[j] = "succeeded" => requestOf'[j] = requestOf[j]
          PROVE  ArtifactsAreResults'
      BY <2>1
    <2>2. CASE \E j \in Job, r \in Request : Submitted(j, r)
      <3>1. \A j \in Job : /\ state[j] = "succeeded" <=> state'[j] = "succeeded"
                           /\ state[j] = "succeeded" => requestOf'[j] = requestOf[j]
        BY <2>2 DEF Submitted
      <3> QED
        BY <2>1, <2>2, <3>1 DEF Submitted
    <2>3. CASE \E j \in Job : \/ Moved(j, {"queued"}, "running")
                              \/ Moved(j, {"running"}, "failed")
                              \/ Moved(j, Active, "cancelled")
      BY <2>1, <2>3 DEF Moved, Active
    <2>4. ASSUME NEW j \in Job, Published(j) PROVE ArtifactsAreResults'
      <3>1. /\ state[j] = "running"
            /\ result[j] # None
            /\ state' = [state EXCEPT ![j] = "succeeded"]
            /\ artifactOf' = [artifactOf EXCEPT ![j] = result[j]]
            /\ requestOf' = requestOf
            /\ artifacts' = artifacts \cup
                  {<<requestOf[j].project, requestOf[j].revision, result[j]>>}
        BY <2>4, NoneAssumption DEF Published, Succeed
      <3>2. \A k \in Job : state'[k] = "succeeded" <=> artifactOf'[k] # None
        BY <3>1
      <3>3. {k \in Job : state'[k] = "succeeded"} =
                {k \in Job : state[k] = "succeeded"} \cup {j}
        BY <3>1
      <3>4. \A k \in {l \in Job : state[l] = "succeeded"} : artifactOf'[k] = artifactOf[k]
        BY <3>1
      <3> QED
        BY <3>1, <3>2, <3>3, <3>4
    <2>5. CASE InterruptActive
      BY <2>1, <2>5 DEF InterruptActive, ActiveRows, Active
    <2>6. CASE UNCHANGED rows
      BY <2>1, <2>6 DEF rows
    <2> QED
      BY NextIsRowStep, <2>2, <2>3, <2>4, <2>5, <2>6 DEF RowStep
  <1> QED
    BY InitTypeInv, NextTypeInv, <1>1, <1>2, PTL DEF Spec

-----------------------------------------------------------------------------
(* The history of a job *)

\* Numbers are given in order, so a new event is the last one of its job.
HistoryInv == HistoryMatchesState /\ \A e \in events : e.seq <= lastSeq

\* The rank of a state is a number.
LEMMA RankType == \A s \in JobState : Rank(s) \in Nat
  BY DEF Rank

\* A job whose history, state and artifact stay the same still matches.
LEMMA SameHistory ==
    ASSUME NEW j \in Job, HistoryMatches(j), History(j)' = History(j),
           state'[j] = state[j], artifactOf'[j] = artifactOf[j]
    PROVE  HistoryMatches(j)'
  BY DEF HistoryMatches

\* A job that gets one more event, later and of a higher rank than all it has,
\* matches the state and the artifact the event names.
LEMMA LongerHistory ==
    ASSUME NEW j \in Job, HistoryMatches(j), History(j) \subseteq Event,
           state[j] \in JobState \cup {"absent"},
           NEW n \in Nat \ {0}, NEW s \in JobState, NEW d \in Digest \cup {None},
           History(j)' = History(j) \cup {EventRow(n, j, s, d)},
           \A e \in History(j) : e.seq < n,
           state'[j] = s, artifactOf'[j] = d,
           IF state[j] = "absent" THEN s = "queued" ELSE Rank(state[j]) < Rank(s)
    PROVE  HistoryMatches(j)'
  <1> DEFINE new == EventRow(n, j, s, d)
  <1>1. /\ new \in Event /\ new.seq = n /\ new.state = s /\ new.artifact = d
        /\ s # "absent"
    BY DEF EventRow, Event, JobState, Active, Terminal
  <1>2. \A e \in History(j) : e.seq \in Nat /\ e.seq < n /\ e.state \in JobState
    BY DEF Event
  <1>3. ASSUME NEW e \in History(j) PROVE Rank(e.state) < Rank(s)
    <2>1. state[j] \in JobState
      BY <1>3 DEF HistoryMatches
    <2>2. PICK last \in History(j) :
              last.state = state[j] /\ \A f \in History(j) : f.seq <= last.seq
      BY <2>1 DEF HistoryMatches, JobState, Active, Terminal
    <2>3. e = last \/ Rank(e.state) < Rank(last.state)
      BY <2>2 DEF HistoryMatches
    <2>4. state[j] # "absent"
      BY <2>1 DEF JobState, Active, Terminal
    <2> QED
      BY <1>2, <2>1, <2>2, <2>3, <2>4, RankType
  <1>4. ASSUME NEW e \in History(j)', NEW f \in History(j)', e.seq <= f.seq, e # f
        PROVE  Rank(e.state) < Rank(f.state)
    <2>1. CASE e \in History(j) /\ f \in History(j)
      BY <1>4, <2>1 DEF HistoryMatches
    <2>2. CASE e = new /\ f \in History(j)
      BY <1>1, <1>2, <1>4, <2>2
    <2>3. CASE e \in History(j) /\ f = new
      BY <1>1, <1>3, <2>3
    <2> QED
      BY <1>4, <2>1, <2>2, <2>3
  <1>5. \E e \in History(j)' : e.state = "queued"
    <2>1. CASE state[j] = "absent"
      BY <1>1, <2>1
    <2>2. CASE state[j] # "absent"
      BY <2>2 DEF HistoryMatches
    <2> QED
      BY <2>1, <2>2
  <1>6. \A f \in History(j)' : f.seq <= new.seq
    BY <1>1, <1>2
  <1> QED
    BY <1>1, <1>4, <1>5, <1>6 DEF HistoryMatches

\* One event for one job, that of the state it moves to.
LEMMA InsertEventHistory ==
    ASSUME TypeInv, HistoryInv, NEW j \in Job, NEW s \in JobState,
           NEW d \in Digest \cup {None}, InsertEvent(j, s, d),
           state' = [state EXCEPT ![j] = s],
           artifactOf' = [artifactOf EXCEPT ![j] = d],
           IF state[j] = "absent" THEN s = "queued" ELSE Rank(state[j]) < Rank(s)
    PROVE  HistoryInv'
  <1> DEFINE new == EventRow(lastSeq + 1, j, s, d)
  <1>1. /\ state \in [Job -> JobState \cup {"absent"}]
        /\ artifactOf \in [Job -> Digest \cup {None}]
        /\ events \subseteq Event
        /\ lastSeq \in Nat
    BY DEF TypeInv, TypeOK
  <1>2. lastSeq' = lastSeq + 1 /\ events' = events \cup {new}
    BY DEF InsertEvent
  <1>3. new.seq = lastSeq + 1 /\ new.job = j
    BY DEF EventRow
  <1>4. \A e \in events : e.seq \in Nat /\ e.seq <= lastSeq
    BY <1>1 DEF HistoryInv, Event
  <1>5. HistoryMatches(j)'
    <2>1. History(j)' = History(j) \cup {new}
      BY <1>2, <1>3 DEF History
    <2>2. History(j) \subseteq Event /\ \A e \in History(j) : e.seq < lastSeq + 1
      BY <1>1, <1>4 DEF History
    <2>3. HistoryMatches(j) /\ state'[j] = s /\ artifactOf'[j] = d
      BY <1>1 DEF HistoryInv, HistoryMatchesState
    <2> QED
      BY <1>1, <2>1, <2>2, <2>3, LongerHistory
  <1>6. ASSUME NEW k \in Job, k # j PROVE HistoryMatches(k)'
    <2>1. History(k)' = History(k)
      BY <1>2, <1>3, <1>6 DEF History
    <2> QED
      BY <1>1, <1>6, <2>1, SameHistory DEF HistoryInv, HistoryMatchesState
  <1>7. \A e \in events' : e.seq <= lastSeq'
    BY <1>1, <1>2, <1>3, <1>4
  <1> QED
    BY <1>5, <1>6, <1>7 DEF HistoryInv, HistoryMatchesState

\* An open of the database gives every unfinished job one event of its own.
LEMMA InterruptHistory ==
    ASSUME TypeInv, HistoryInv, ArtifactsAreResults, InterruptActive
    PROVE  HistoryInv'
  <1> DEFINE n == Cardinality(ActiveRows)
  <1>1. n \in Nat
    BY JobsAreFinite DEF ActiveRows
  <1>2. PICK pos \in Injection(ActiveRows, 1..n) :
            /\ events' = events \cup
                  {EventRow(lastSeq + pos[j], j, "interrupted", None) : j \in ActiveRows}
            /\ lastSeq' = lastSeq + n
            /\ state' = [j \in Job |-> IF j \in ActiveRows THEN "interrupted"
                                                          ELSE state[j]]
            /\ artifactOf' = artifactOf
    BY DEF InterruptActive
  <1>3. \A j \in ActiveRows : pos[j] \in 1..n
    BY <1>2 DEF Injection
  <1>4. /\ state \in [Job -> JobState \cup {"absent"}]
        /\ artifactOf \in [Job -> Digest \cup {None}]
        /\ events \subseteq Event
        /\ lastSeq \in Nat
    BY DEF TypeInv, TypeOK
  <1>5. \A e \in events : e.seq \in Nat /\ e.seq <= lastSeq
    BY <1>4 DEF HistoryInv, Event
  <1>6. ASSUME NEW j \in ActiveRows PROVE HistoryMatches(j)'
    <2> DEFINE m == lastSeq + pos[j]
    <2>1. m \in Nat \ {0} /\ lastSeq < m
      BY <1>1, <1>3, <1>4
    <2>2. History(j)' = History(j) \cup {EventRow(m, j, "interrupted", None)}
      BY <1>2 DEF History, EventRow
    <2>3. History(j) \subseteq Event /\ \A e \in History(j) : e.seq < m
      BY <1>4, <1>5, <2>1 DEF History
    <2>4. j \in Job /\ state[j] \in Active
      BY DEF ActiveRows
    <2>5. state'[j] = "interrupted" /\ artifactOf'[j] = None
      BY <1>2, <1>4, <2>4 DEF ArtifactsAreResults, Active
    <2>6. /\ state[j] # "absent"
          /\ Rank(state[j]) < Rank("interrupted")
          /\ "interrupted" \in JobState
      BY <2>4 DEF Rank, Active, JobState, Terminal
    <2>7. HistoryMatches(j)
      BY <2>4 DEF HistoryInv, HistoryMatchesState
    <2> HIDE DEF m
    <2> QED
      BY <1>4, <2>1, <2>2, <2>3, <2>4, <2>5, <2>6, <2>7, LongerHistory
  <1>7. ASSUME NEW k \in Job \ ActiveRows PROVE HistoryMatches(k)'
    <2>1. History(k)' = History(k)
      BY <1>2 DEF History, EventRow
    <2> QED
      BY <1>2, <2>1, SameHistory DEF HistoryInv, HistoryMatchesState
  <1>8. \A e \in events' : e.seq <= lastSeq'
    <2>1. \A j \in ActiveRows : lastSeq + pos[j] <= lastSeq + n
      BY <1>1, <1>3, <1>4
    <2>2. \A e \in events : e.seq <= lastSeq + n
      BY <1>1, <1>4, <1>5
    <2> QED
      BY <1>2, <2>1, <2>2 DEF EventRow
  <1> QED
    BY <1>6, <1>7, <1>8 DEF HistoryInv, HistoryMatchesState

\* The events of a job, in the order of their numbers, are exactly the states
\* its row went through, whichever handler, task or open of the database wrote
\* them, so a client that replays them sees the row.
THEOREM HistoryIsFaithful == Spec => []HistoryMatchesState
  <1>1. Init => HistoryInv
    BY DEF Init, HistoryInv, HistoryMatchesState, HistoryMatches, History
  <1>2. TypeInv /\ ArtifactsAreResults /\ HistoryInv /\ [Next]_vars => HistoryInv'
    <2> SUFFICES ASSUME TypeInv, ArtifactsAreResults, HistoryInv, [Next]_vars
                 PROVE  HistoryInv'
      OBVIOUS
    <2> /\ artifactOf \in [Job -> Digest \cup {None}]
        /\ \A j \in Job : state[j] # "succeeded" => artifactOf[j] = None
      BY DEF TypeInv, TypeOK, ArtifactsAreResults
    <2>1. ASSUME NEW j \in Job, NEW r \in Request, Submitted(j, r) PROVE HistoryInv'
      <3>1. artifactOf' = [artifactOf EXCEPT ![j] = None]
        BY <2>1 DEF Submitted
      <3> QED
        BY <2>1, <3>1, InsertEventHistory DEF Submitted, JobState, Active
    <2>2. ASSUME NEW j \in Job, NEW from, NEW to \in JobState, Moved(j, from, to),
                 from \subseteq Active, \A s \in from : Rank(s) < Rank(to)
          PROVE  HistoryInv'
      <3>1. artifactOf' = [artifactOf EXCEPT ![j] = None]
        BY <2>2 DEF Moved, Active
      <3>2. state[j] # "absent" /\ Rank(state[j]) < Rank(to)
        BY <2>2 DEF Moved, Active
      <3> QED
        BY <2>2, <3>1, <3>2, InsertEventHistory DEF Moved
    <2>3. ASSUME NEW j \in Job,
                 \/ Moved(j, {"queued"}, "running")
                 \/ Moved(j, {"running"}, "failed")
                 \/ Moved(j, Active, "cancelled")
          PROVE  HistoryInv'
      <3>1. {"running", "failed", "cancelled"} \subseteq JobState
        BY DEF JobState, Active, Terminal
      <3>2. /\ Rank("queued") < Rank("running")
            /\ Rank("running") < Rank("failed")
            /\ \A s \in Active : Rank(s) < Rank("cancelled")
        BY DEF Rank, Active
      <3>3. {"queued"} \subseteq Active /\ {"running"} \subseteq Active
        BY DEF Active
      <3> QED
        BY <2>2, <2>3, <3>1, <3>2, <3>3
    <2>4. ASSUME NEW j \in Job, Published(j) PROVE HistoryInv'
      <3>1. state[j] # "absent" /\ Rank(state[j]) < Rank("succeeded")
        BY <2>4 DEF Published, Rank
      <3>2. "succeeded" \in JobState /\ result[j] \in Digest \cup {None}
        BY <2>4 DEF Published, JobState, Terminal
      <3> QED
        BY <2>4, <3>1, <3>2, InsertEventHistory DEF Published, Succeed
    <2>5. CASE InterruptActive
      BY <2>5, InterruptHistory
    <2>6. CASE UNCHANGED rows
      BY <2>6 DEF rows, HistoryInv, HistoryMatchesState, HistoryMatches, History
    <2> QED
      BY NextIsRowStep, <2>1, <2>3, <2>4, <2>5, <2>6 DEF RowStep
  <1>3. HistoryInv => HistoryMatchesState
    BY DEF HistoryInv
  <1> QED
    BY InitTypeInv, NextTypeInv, OnlyResultsArePublished, <1>1, <1>2, <1>3, PTL DEF Spec

-----------------------------------------------------------------------------
(* The abstract life cycle *)

\* Whatever the calls, tasks, crashes and opens do, the rows and the events of
\* hydird are those of HydirJobLifecycle: every commit that touches a job is a
\* step of its life cycle, and every other step leaves the tables alone.
THEOREM Refinement == Spec => ImplementsLifecycle
  <1> DEFINE Owner == [j \in Job |-> IF requestOf[j] = None THEN None ELSE requestOf[j].by]
             Identity == {r.by : r \in Request}
  <1> USE DEF Lifecycle!lifecycle
  <1> ASSUME NEW S PROVE Lifecycle!Cardinality(S) = Cardinality(S)
    BY DEF Lifecycle!Cardinality, Cardinality
  <1> ASSUME NEW S, NEW T PROVE Lifecycle!Injection(S, T) = Injection(S, T)
    BY DEF Lifecycle!Injection, Injection, Lifecycle!IsInjective, IsInjective
  <1>1. Init => Lifecycle!Init
    BY DEF Init, Lifecycle!Init
  <1>2. TypeInv /\ [Next]_vars => [Lifecycle!Next]_(Lifecycle!lifecycle)
    <2> SUFFICES ASSUME TypeInv, [Next]_vars
                 PROVE  [Lifecycle!Next]_(Lifecycle!lifecycle)
      OBVIOUS
    <2> /\ state \in [Job -> JobState \cup {"absent"}]
        /\ requestOf \in [Job -> Request \cup {None}]
        /\ \A j \in Job : state[j] # "absent" => requestOf[j] \in Request
        /\ None \notin Request
      BY NoneAssumption DEF TypeInv, TypeOK, RowsAreFilled
    <2>1. ASSUME NEW j \in Job, NEW r \in Request, Submitted(j, r)
          PROVE  Lifecycle!Submit(j, r.by)
      <3>1. {k \in Lifecycle!Unfinished : Owner[k] = r.by} = ActiveOf(r.by)
        BY DEF Lifecycle!Unfinished, ActiveOf, ActiveRows, Active
      <3>2. Owner' = [Owner EXCEPT ![j] = r.by]
        BY <2>1 DEF Submitted
      <3>3. Lifecycle!Enter(j, "queued", None)
        BY <2>1 DEF Submitted, InsertEvent, EventRow, Lifecycle!Enter, Lifecycle!Record
      <3> QED
        BY <2>1, <3>1, <3>2, <3>3 DEF Submitted, Admissible, Lifecycle!Submit
    <2>2. ASSUME NEW j \in Job, NEW from, NEW to, Moved(j, from, to)
          PROVE  Lifecycle!Enter(j, to, None) /\ UNCHANGED <<Owner, artifactOf>>
      BY <2>2 DEF Moved, InsertEvent, EventRow, Lifecycle!Enter, Lifecycle!Record
    <2>3. ASSUME NEW j \in Job, Moved(j, {"queued"}, "running") PROVE Lifecycle!Run(j)
      BY <2>2, <2>3 DEF Moved, Lifecycle!Run
    <2>4. ASSUME NEW j \in Job, Moved(j, {"running"}, "failed") PROVE Lifecycle!Fail(j)
      BY <2>2, <2>4 DEF Moved, Lifecycle!Fail
    <2>5. ASSUME NEW j \in Job, Moved(j, Active, "cancelled") PROVE Lifecycle!Cancel(j)
      BY <2>2, <2>5 DEF Moved, Active, Lifecycle!Cancel, Lifecycle!Unfinished
    <2>6. ASSUME NEW j \in Job, Published(j) PROVE Lifecycle!Succeed(j, result[j])
      BY <2>6 DEF Published, Succeed, InsertEvent, EventRow, Lifecycle!Succeed,
                  Lifecycle!Enter, Lifecycle!Record
    <2>7. CASE InterruptActive
      <3>1. Lifecycle!Unfinished = ActiveRows
        BY DEF Lifecycle!Unfinished, ActiveRows, Active
      <3>2. Lifecycle!Interrupt
        BY <2>7, <3>1 DEF InterruptActive, EventRow, Lifecycle!Interrupt, Lifecycle!Record
      <3> QED
        BY <3>2 DEF Lifecycle!Next
    <2>8. CASE UNCHANGED rows
      BY <2>8 DEF rows
    <2>9. ASSUME NEW j \in Job, Published(j) PROVE result[j] \in Digest
      BY <2>9 DEF Published
    <2> QED
      BY NextIsRowStep, <2>1, <2>3, <2>4, <2>5, <2>6, <2>7, <2>8, <2>9
      DEF RowStep, Lifecycle!Next, Lifecycle!ServerStep
  <1> QED
    BY InitTypeInv, NextTypeInv, <1>1, <1>2, PTL
    DEF Spec, ImplementsLifecycle, Lifecycle!Spec

-----------------------------------------------------------------------------
(* Start calls, tasks, the registry and cancel calls: every unfinished job  *)
(* has a keeper, a cancelled one no worker, a finished one no handle.       *)

Starting == {"spawn", "register", "send"}       \* the row is there, the task is not
Cancelling == {"take", "join", "stopped"}       \* the row is cancelled
Computing == {"worker", "stage", "finish"}      \* a worker runs or has run

\* A start call that inserted a row is alone with the job, and brings its task to
\* the registry before it lets it begin.
StartInv(c) ==
    call[c].pc \in Starting =>
        /\ requestOf[call[c].job] = call[c].request
        /\ \A d \in Call \ {c} : call[d].pc \in Starting => call[d].job # call[c].job
        /\ call[c].pc = "spawn" =>
             /\ task[call[c].job] = "none"
             /\ state[call[c].job] \in {"queued", "cancelled", "interrupted"}
        /\ call[c].pc = "register" => task[call[c].job] = "waiting"
        /\ call[c].pc = "send" =>
             /\ call[c].job \in workers \cup aborted
             /\ \/ task[call[c].job] = "waiting"
                \/ task[call[c].job] = "done" /\ call[c].job \in aborted
        /\ call[c].pc # "send" => call[c].job \notin workers \cup aborted

\* A start call that answers names the job of its key.
StartedInv(c) ==
    call[c].pc = "started" =>
        /\ call[c].request \in Request
        /\ call[c].job \in Keyed(call[c].request)
        /\ SameRequest(call[c].job, call[c].request)

\* One cancel call has cancelled a job; it alone takes its handle.
CancelInv(c) ==
    call[c].pc \in Cancelling =>
        /\ state[call[c].job] \in Terminal
        /\ \A d \in Call \ {c} : call[d].pc \in Cancelling => call[d].job # call[c].job
        /\ call[c].pc = "take" => call[c].job \notin aborted
        /\ call[c].pc = "stopped" => task[call[c].job] \notin Computing

\* A task that has begun is registered or aborted.
TaskInv(j) ==
    /\ j \in workers => state[j] # "absent"
    /\ j \in aborted => state[j] \in Terminal /\ j \notin workers
    /\ task[j] \in {"begin", "remove"} \cup Computing => j \in workers \cup aborted
    /\ task[j] \in {"waiting", "begin"} => state[j] \in {"queued", "cancelled", "interrupted"}
    /\ j \in workers /\ task[j] = "done" =>
         state[j] \in {"cancelled", "interrupted"} \/ j \in lost

Keeper(j) ==
    \/ \E c \in Call : call[c].job = j /\ call[c].pc \in Starting /\ state[j] = "queued"
    \/ state[j] = "queued" /\ task[j] = "begin"
    \/ state[j] = "running" /\ task[j] \in Computing

OwnedInv(j) == up /\ j \in ActiveRows \ lost => Keeper(j)

KeyInv ==
    \A j, k \in Rows : requestOf[j].project = requestOf[k].project
                       /\ requestOf[j].key = requestOf[k].key => j = k

IInv ==
    /\ TypeInv
    /\ \A c \in Call : StartInv(c) /\ StartedInv(c) /\ CancelInv(c)
    /\ \A j \in Job : TaskInv(j) /\ OwnedInv(j)
    /\ KeyInv

Calls == \A c \in Call : StartInv(c) /\ StartedInv(c) /\ CancelInv(c)
Tasks == \A j \in Job : TaskInv(j) /\ OwnedInv(j)

-----------------------------------------------------------------------------
(* Lemmas *)

\* Keys name what they named while no row comes or goes.
LEMMA SameKeys ==
    ASSUME UNCHANGED requestOf, \A j \in Job : state'[j] = "absent" <=> state[j] = "absent"
    PROVE  /\ Rows' = Rows
           /\ \A r : Keyed(r)' = Keyed(r)
           /\ \A j, r : SameRequest(j, r)' <=> SameRequest(j, r)
           /\ KeyInv => KeyInv'
  BY DEF Rows, Keyed, SameRequest, KeyInv

\* The fields of a call that moves, of one that answers, and of the others.
LEMMA CallMoves ==
    ASSUME TypeInv, NEW c \in Call
    PROVE  /\ \A pc : Goto(c, pc) =>
                /\ call'[c].pc = pc /\ call'[c].job = call[c].job
                /\ call'[c].request = call[c].request
                /\ \A d \in Call \ {c} : call'[d] = call[d]
           /\ \A j : Answer(c, j) =>
                /\ call'[c].pc = "started" /\ call'[c].job = j
                /\ call'[c].request = call[c].request
                /\ \A d \in Call \ {c} : call'[d] = call[d]
           /\ Reply(c) =>
                /\ call'[c].pc = "idle"
                /\ \A d \in Call \ {c} : call'[d] = call[d]
  BY DEF Goto, Answer, Reply, IdleCall, TypeInv, TypeOK, CallState

\* A call that ends or reads disturbs nothing.
LEMMA QuietCall ==
    ASSUME IInv, NEW c \in Call, UNCHANGED <<up, rows, tasks, workers>>,
           \A d \in Call \ {c} : call'[d] = call[d],
           call[c].pc \notin Starting, call'[c].pc \notin Starting \cup Cancelling,
           StartedInv(c)'
    PROVE  Calls' /\ Tasks' /\ KeyInv'
  <1>1. KeyInv' /\ \A r : Keyed(r)' = Keyed(r)
    BY SameKeys DEF IInv, rows
  <1>2. \A d \in Call : StartInv(d)' /\ CancelInv(d)'
    BY DEF IInv, StartInv, CancelInv, Starting, Cancelling, rows, tasks
  <1>3. \A d \in Call : StartedInv(d)'
    BY <1>1 DEF IInv, StartedInv, SameRequest, rows
  <1>4. \A j \in Job : TaskInv(j)' /\ OwnedInv(j)'
    BY DEF IInv, TaskInv, OwnedInv, Keeper, ActiveRows, rows, tasks, Starting
  <1> QED
    BY <1>1, <1>2, <1>3, <1>4 DEF Calls, Tasks

\* A start call keeps the invariant.
LEMMA StartKeeps ==
    ASSUME IInv, NEW c \in Call,
           (\E r \in Request : Start(c, r)) \/ StartStep(c) \/ Acknowledge(c) \/ Refuse(c)
    PROVE  Calls' /\ Tasks' /\ KeyInv'
  <1> DEFINE Kept == Calls' /\ Tasks' /\ KeyInv'
             j == call[c].job
  <1>0. TypeInv /\ StartInv(c) /\ CallsAreFilled /\ RowsAreFilled
    BY DEF IInv, TypeInv
  <1>1. ASSUME NEW r \in Request, Start(c, r) PROVE Kept
    <2>1. call'[c].pc = "prior" /\ \A d \in Call \ {c} : call'[d] = call[d]
      BY <1>0, <1>1 DEF Start, TypeInv, TypeOK
    <2> QED
      BY <1>1, <2>1, QuietCall DEF Start, StartedInv, Starting, Cancelling
  <1>2. ASSUME Replay(c), call[c].pc \in {"prior", "commit"},
               UNCHANGED <<up, rows, tasks, workers>>
        PROVE  Kept
    <2>1. CASE Reply(c)
      BY <1>0, <1>2, <2>1, CallMoves, QuietCall DEF StartedInv, Starting, Cancelling
    <2>2. ASSUME NEW k \in Keyed(call[c].request), SameRequest(k, call[c].request),
                 Answer(c, k)
          PROVE  Kept
      <3>1. /\ call'[c].pc = "started" /\ call'[c].job = k
            /\ call'[c].request = call[c].request /\ call[c].request \in Request
            /\ \A d \in Call \ {c} : call'[d] = call[d]
        BY <1>0, <1>2, <2>2, CallMoves DEF CallsAreFilled
      <3>2. StartedInv(c)'
        BY <1>2, <2>2, <3>1 DEF StartedInv, Keyed, Rows, SameRequest, rows
      <3> QED
        BY <1>2, <3>1, <3>2, QuietCall DEF Starting, Cancelling
    <2> QED
      BY <1>2, <2>1, <2>2 DEF Replay
  <1>3. CASE StartPrior(c)
    <2>1. CASE Goto(c, "fetch")
      BY <1>0, <1>3, <2>1, CallMoves, QuietCall DEF StartPrior, StartedInv, Starting, Cancelling
    <2> QED
      BY <1>2, <1>3, <2>1 DEF StartPrior
  <1>4. CASE StartFetch(c)
    BY <1>0, <1>4, CallMoves, QuietCall DEF StartFetch, StartedInv, Starting, Cancelling
  <1>5. CASE Acknowledge(c) \/ Refuse(c)
    BY <1>0, <1>5, CallMoves, QuietCall
       DEF Acknowledge, Refuse, StartedInv, Starting, Cancelling
  <1>6. CASE StartCommit(c)
    <2>1. CASE Replay(c) /\ UNCHANGED rows
      BY <1>2, <1>6, <2>1 DEF StartCommit
    <2>2. CASE Reply(c) /\ UNCHANGED rows
      BY <1>0, <1>6, <2>2, CallMoves, QuietCall
         DEF StartCommit, StartedInv, Starting, Cancelling
    <2>3. ASSUME NEW k \in Job, InsertJob(c, k), Admissible(call[c].request) PROVE Kept
      <3>1. /\ call'[c].pc = "spawn" /\ call'[c].job = k
            /\ call'[c].request = call[c].request /\ call[c].request \in Request
            /\ \A d \in Call \ {c} : call'[d] = call[d]
        <4>1. call[c] \in CallState /\ call \in [Call -> CallState]
          BY <1>0 DEF TypeInv, TypeOK
        <4>2. call[c].request \in Request
          BY <1>0, <1>6 DEF StartCommit, CallsAreFilled
        <4>3. call' = [call EXCEPT ![c].pc = "spawn", ![c].job = k]
          BY <2>3 DEF InsertJob
        <4> QED
          BY <4>1, <4>2, <4>3 DEF CallState
      <3>2. /\ state[k] = "absent" /\ state' = [state EXCEPT ![k] = "queued"]
            /\ requestOf' = [requestOf EXCEPT ![k] = call[c].request]
            /\ UNCHANGED <<up, tasks, workers>> /\ task[k] = "none"
            /\ Keyed(call[c].request) = {} /\ k \notin workers \cup aborted
        <4>1. TaskInv(k)
          BY DEF IInv
        <4> QED
          BY <1>0, <1>6, <2>3, <4>1
             DEF StartCommit, InsertJob, Admissible, RowsAreFilled, TaskInv, Terminal
      <3>3. /\ state'[k] = "queued" /\ requestOf'[k] = call[c].request
            /\ \A i \in Job \ {k} : state'[i] = state[i] /\ requestOf'[i] = requestOf[i]
        BY <1>0, <3>2 DEF TypeInv, TypeOK
      <3>4. \A d \in Call : call[d].pc \in Starting \cup Cancelling \cup {"started"}
                            => call[d].job \in Job \ {k}
        BY <1>0, <3>2 DEF CallsAreFilled, Starting, Cancelling, CancelPc
      <3>5. \A d \in Call : StartInv(d)'
        BY <3>1, <3>2, <3>3, <3>4 DEF IInv, StartInv, Starting, tasks
      <3>6. \A d \in Call : CancelInv(d)'
        BY <3>1, <3>2, <3>3, <3>4 DEF IInv, CancelInv, Cancelling, tasks
      <3>7. \A d \in Call : StartedInv(d)'
        BY <3>1, <3>2, <3>3, <3>4 DEF IInv, StartedInv, Keyed, Rows, SameRequest
      <3>8. \A i \in Job : TaskInv(i)'
        BY <3>2, <3>3 DEF IInv, TaskInv, Computing, tasks
      <3>9. \A i \in Job : OwnedInv(i)'
        <4>1. Keeper(k)'
          BY <3>1, <3>3 DEF Keeper, Starting
        <4>2. \A i \in Job \ {k} : Keeper(i) => Keeper(i)'
          BY <1>6, <3>1, <3>2, <3>3 DEF Keeper, StartCommit, Starting, tasks
        <4> QED
          BY <3>2, <3>3, <4>1, <4>2 DEF IInv, OwnedInv, ActiveRows, tasks
      <3>10. KeyInv'
        BY <3>2, <3>3 DEF IInv, KeyInv, Keyed, Rows
      <3> QED
        BY <3>5, <3>6, <3>7, <3>8, <3>9, <3>10 DEF Calls, Tasks
    <2> QED
      BY <1>6, <2>1, <2>2, <2>3 DEF StartCommit
  <1>7. ASSUME call[c].pc \in Starting, call'[c].job = j, call'[c].request = call[c].request,
               \A d \in Call \ {c} : call'[d] = call[d],
               UNCHANGED <<up, rows, aborted, lost, result>>,
               \A i \in Job \ {j} : task'[i] = task[i] /\ (i \in workers' <=> i \in workers),
               call'[c].pc \in Starting \cup {"started"},
               StartInv(c)', TaskInv(j)', OwnedInv(j)', task'[j] \notin Computing
        PROVE  Kept
    <2>1. \A d \in Call \ {c} : call[d].pc \in Starting => call[d].job # j
      BY <1>0, <1>7 DEF StartInv
    <2>2. j \in Job /\ state[j] # "absent" /\ requestOf[j] = call[c].request
          /\ call[c].request \in Request
      BY <1>0, <1>7 DEF CallsAreFilled, Starting, StartInv
    <2>3. KeyInv' /\ \A r : Keyed(r)' = Keyed(r)
      BY <1>7, SameKeys DEF IInv, rows
    <2>4. \A d \in Call \ {c} : StartInv(d)'
      BY <1>0, <1>7, <2>1 DEF IInv, StartInv, CallsAreFilled, Starting, rows
    <2>5. \A d \in Call : CancelInv(d)'
      BY <1>0, <1>7 DEF IInv, CancelInv, Starting, Cancelling, CallsAreFilled, CancelPc, rows
    <2>6. \A d \in Call \ {c} : StartedInv(d)'
      BY <1>7, <2>3 DEF IInv, StartedInv, SameRequest, rows
    <2>7. StartedInv(c)'
      BY <1>7, <2>2, <2>3 DEF StartedInv, SameRequest, Keyed, Rows, rows
    <2>8. \A i \in Job \ {j} : TaskInv(i)'
      BY <1>7 DEF IInv, TaskInv, rows
    <2>9. \A i \in Job \ {j} : OwnedInv(i)'
      <3>1. \A i \in Job \ {j} : Keeper(i) => Keeper(i)'
        BY <1>7 DEF Keeper, rows
      <3> QED
        BY <1>7, <3>1 DEF IInv, OwnedInv, ActiveRows, rows
    <2> QED
      BY <1>7, <2>2, <2>3, <2>4, <2>5, <2>6, <2>7, <2>8, <2>9 DEF Calls, Tasks
  <1>8. call[c].pc \in Starting => /\ j \in Job /\ TaskInv(j) /\ OwnedInv(j)
                                   /\ state[j] # "absent"
    BY <1>0 DEF IInv, CallsAreFilled, Starting
  <1>9. CASE StartSpawn(c)
    <2>1. /\ call[c].pc = "spawn" /\ call'[c].pc = "register" /\ call'[c].job = j
          /\ call'[c].request = call[c].request
          /\ \A d \in Call \ {c} : call'[d] = call[d]
      BY <1>0, <1>9, CallMoves DEF StartSpawn
    <2>2. /\ task'[j] = "waiting" /\ \A i \in Job \ {j} : task'[i] = task[i]
          /\ UNCHANGED <<up, rows, aborted, lost, result, workers>>
      BY <1>0, <1>8, <1>9, <2>1 DEF StartSpawn, Starting, TypeInv, TypeOK
    <2>3. StartInv(c)'
      BY <1>0, <2>1, <2>2 DEF StartInv, Starting, rows
    <2>4. TaskInv(j)'
      BY <1>0, <1>8, <2>1, <2>2 DEF TaskInv, StartInv, Starting, Computing, rows
    <2>5. OwnedInv(j)'
      BY <1>0, <1>8, <2>1, <2>2
         DEF OwnedInv, Keeper, StartInv, Starting, ActiveRows, Active, rows
    <2> QED
      BY <1>7, <2>1, <2>2, <2>3, <2>4, <2>5 DEF Starting, Computing
  <1>10. CASE StartRegister(c)
    <2>1. /\ call[c].pc = "register" /\ call'[c].pc = "send" /\ call'[c].job = j
          /\ call'[c].request = call[c].request
          /\ \A d \in Call \ {c} : call'[d] = call[d]
      BY <1>0, <1>10, CallMoves DEF StartRegister
    <2>2. workers' = workers \cup {j} /\ UNCHANGED <<up, rows, tasks>>
      BY <1>10 DEF StartRegister
    <2>3. StartInv(c)'
      BY <1>0, <2>1, <2>2 DEF StartInv, Starting, rows, tasks
    <2>4. TaskInv(j)'
      BY <1>0, <1>8, <2>1, <2>2 DEF TaskInv, StartInv, Starting, Computing, rows, tasks
    <2>5. OwnedInv(j)'
      BY <1>0, <1>8, <2>1, <2>2
         DEF OwnedInv, Keeper, StartInv, TaskInv, Starting, Computing, ActiveRows, Active,
             rows, tasks
    <2>6. task'[j] \notin Computing
      BY <1>0, <2>1, <2>2 DEF StartInv, Starting, Computing, tasks
    <2> QED
      BY <1>7, <2>1, <2>2, <2>3, <2>4, <2>5, <2>6 DEF Starting, tasks
  <1>11. CASE StartSend(c)
    <2>1. /\ call[c].pc = "send" /\ call'[c].pc = "started" /\ call'[c].job = j
          /\ call'[c].request = call[c].request
          /\ \A d \in Call \ {c} : call'[d] = call[d]
      BY <1>0, <1>11, CallMoves DEF StartSend
    <2>2. /\ task'[j] = IF task[j] = "waiting" THEN "begin" ELSE task[j]
          /\ \A i \in Job \ {j} : task'[i] = task[i]
          /\ UNCHANGED <<up, rows, aborted, lost, result, workers>>
      BY <1>0, <1>8, <1>11, <2>1 DEF StartSend, Starting, TypeInv, TypeOK
    <2>3. StartInv(c)'
      BY <2>1 DEF StartInv, Starting
    <2>4. TaskInv(j)'
      BY <1>0, <1>8, <2>1, <2>2 DEF TaskInv, StartInv, Starting, Computing, rows
    <2>5. OwnedInv(j)'
      BY <1>0, <1>8, <2>1, <2>2
         DEF OwnedInv, Keeper, StartInv, TaskInv, Starting, Computing, ActiveRows, Active,
             Terminal, rows
    <2>6. task'[j] \notin Computing
      BY <1>0, <2>1, <2>2 DEF StartInv, Starting, Computing
    <2> QED
      BY <1>7, <2>1, <2>2, <2>3, <2>4, <2>5, <2>6 DEF Starting
  <1> QED
    BY <1>1, <1>3, <1>4, <1>5, <1>6, <1>9, <1>10, <1>11 DEF StartStep

\* A cancel call keeps the invariant.
LEMMA CancelKeeps ==
    ASSUME IInv, NEW c \in Call, (\E j \in Job : Cancel(c, j)) \/ CancelStep(c)
    PROVE  Calls' /\ Tasks' /\ KeyInv'
  <1> DEFINE Kept == Calls' /\ Tasks' /\ KeyInv'
             j == call[c].job
  <1>0. TypeInv /\ CancelInv(c) /\ CallsAreFilled /\ RowsAreFilled
    BY DEF IInv, TypeInv
  <1>1. ASSUME NEW i \in Job, Cancel(c, i) PROVE Kept
    <2>1. call'[c].pc = "update" /\ \A d \in Call \ {c} : call'[d] = call[d]
      BY <1>0, <1>1 DEF Cancel, TypeInv, TypeOK
    <2> QED
      BY <1>1, <2>1, QuietCall DEF Cancel, StartedInv, Starting, Cancelling
  <1>2. ASSUME call[c].pc \in {"update"} \cup Cancelling,
               call'[c].pc \in Cancelling, call'[c].job = j,
               \A d \in Call \ {c} : call'[d] = call[d],
               CancelInv(c)', UNCHANGED <<requestOf, task, lost, up>>, state'[j] \in Terminal,
               \A i \in Job \ {j} : /\ state'[i] = state[i]
                                    /\ i \in aborted' <=> i \in aborted
                                    /\ i \in workers' <=> i \in workers,
               state[j] \in Active => state'[j] = "cancelled",
               state[j] \in Terminal => state'[j] = state[j],
               TaskInv(j)', workers' \cup aborted' = workers \cup aborted,
               aborted \subseteq aborted'
        PROVE  Kept
    <2>1. j \in Job /\ state[j] # "absent" /\ state'[j] # "absent"
      BY <1>0, <1>2 DEF CallsAreFilled, CancelPc, Cancelling, Terminal
    <2>2. KeyInv' /\ \A r : Keyed(r)' = Keyed(r)
      BY <1>2, <2>1, SameKeys DEF IInv
    <2>3. ASSUME NEW d \in Call PROVE StartInv(d)'
      <3>1. CASE call'[d].pc \in Starting
        <4>1. call'[d] = call[d] /\ StartInv(d) /\ call[d].job \in Job
          BY <1>0, <1>2, <3>1 DEF IInv, CallsAreFilled, Starting, Cancelling
        <4>2. state[call[d].job] \in {"queued", "cancelled", "interrupted"} =>
                 state'[call[d].job] \in {"queued", "cancelled", "interrupted"}
          BY <1>2, <2>1, <4>1 DEF Active, Terminal
        <4>3. \A e \in Call : call'[e].pc \in Starting => call'[e] = call[e]
          BY <1>2 DEF Starting, Cancelling
        <4> QED
          BY <1>2, <3>1, <4>1, <4>2, <4>3 DEF StartInv
      <3> QED
        BY <3>1 DEF StartInv
    <2>4. ASSUME NEW d \in Call \ {c} PROVE CancelInv(d)'
      <3>1. CASE call[d].pc \in Cancelling
        <4>1. call'[d] = call[d] /\ CancelInv(d) /\ call[d].job \in Job /\ call[d].job # j
          BY <1>0, <1>2, <3>1 DEF IInv, CallsAreFilled, Cancelling, CancelPc, CancelInv
        <4> QED
          BY <1>2, <3>1, <4>1 DEF CancelInv
      <3> QED
        BY <1>2, <3>1 DEF CancelInv
    <2>5. \A d \in Call : StartedInv(d)'
      BY <1>2, <2>2 DEF IInv, StartedInv, SameRequest, Cancelling
    <2>6. \A i \in Job \ {j} : TaskInv(i)'
      BY <1>2 DEF IInv, TaskInv
    <2>7. \A i \in Job \ {j} : OwnedInv(i)'
      <3>1. \A i \in Job \ {j} : Keeper(i) => Keeper(i)'
        BY <1>2 DEF Keeper, Starting, Cancelling
      <3> QED
        BY <1>2, <3>1 DEF IInv, OwnedInv, ActiveRows
    <2>8. OwnedInv(j)'
      BY <1>2 DEF OwnedInv, ActiveRows, Active, Terminal
    <2> QED
      BY <1>2, <2>1, <2>2, <2>3, <2>4, <2>5, <2>6, <2>7, <2>8 DEF Calls, Tasks
  <1>3. CASE CancelUpdate(c)
    <2>1. j \in Job /\ TaskInv(j)
      BY <1>0, <1>3 DEF CancelUpdate, CallsAreFilled, CancelPc, IInv
    <2>2. CASE state[j] \in Active
      <3>1. /\ call'[c].pc = "take" /\ call'[c].job = j
            /\ \A d \in Call \ {c} : call'[d] = call[d]
        BY <1>0, <1>3, <2>2, CallMoves DEF CancelUpdate
      <3>2. /\ state'[j] = "cancelled" /\ \A i \in Job \ {j} : state'[i] = state[i]
            /\ UNCHANGED <<requestOf, tasks, up, workers>>
        BY <1>0, <1>3, <2>1, <2>2 DEF CancelUpdate, TypeInv, TypeOK
      <3>3. j \notin aborted
        BY <2>1, <2>2 DEF TaskInv, Active, Terminal
      <3>4. CancelInv(c)'
        <4>1. \A d \in Call \ {c} : call[d].pc \in Cancelling => call[d].job # j
          BY <2>2 DEF IInv, CancelInv, Active, Terminal
        <4> QED
          BY <3>1, <3>2, <3>3, <4>1 DEF CancelInv, Terminal, tasks
      <3>5. TaskInv(j)'
        BY <2>1, <3>1, <3>2, <3>3 DEF TaskInv, tasks
      <3> QED
        BY <1>2, <1>3, <2>2, <3>1, <3>2, <3>4, <3>5
           DEF CancelUpdate, Cancelling, Terminal, Active, tasks
    <2>3. CASE state[j] \notin Active
      <3>1. Reply(c) /\ UNCHANGED <<up, rows, tasks, workers>>
        BY <1>3, <2>3 DEF CancelUpdate, rows
      <3> QED
        BY <1>0, <1>3, <3>1, CallMoves, QuietCall
           DEF CancelUpdate, StartedInv, Starting, Cancelling
    <2> QED
      BY <2>2, <2>3
  <1>4. ASSUME call[c].pc \in {"take", "join"} PROVE j \in Job /\ TaskInv(j) /\ state[j] \in Terminal
    BY <1>0, <1>4 DEF CallsAreFilled, CancelPc, IInv, CancelInv, Cancelling
  <1>5. CASE CancelTake(c)
    <2>1. /\ call[c].pc = "take" /\ call'[c].pc \in {"join", "stopped"} /\ call'[c].job = j
          /\ call'[c].pc = "stopped" => j \notin workers
          /\ \A d \in Call \ {c} : call'[d] = call[d]
      BY <1>0, <1>5, CallMoves DEF CancelTake
    <2>2. /\ workers' = workers \ {j}
          /\ aborted' = IF j \in workers THEN aborted \cup {j} ELSE aborted
          /\ UNCHANGED <<rows, task, lost, up>>
      BY <1>5 DEF CancelTake
    <2>3. CancelInv(c)'
      BY <1>0, <1>4, <2>1, <2>2 DEF CancelInv, TaskInv, Cancelling, rows
    <2>4. TaskInv(j)'
      BY <1>4, <2>1, <2>2 DEF TaskInv, rows
    <2> QED
      BY <1>2, <1>4, <2>1, <2>2, <2>3, <2>4 DEF Cancelling, Active, Terminal, rows
  <1>6. CASE CancelJoin(c)
    <2>1. call[c].pc = "join" /\ UNCHANGED <<up, rows, tasks, workers>>
      BY <1>6 DEF CancelJoin
    <2>2. CASE Reply(c)
      BY <1>0, <2>1, <2>2, CallMoves, QuietCall DEF StartedInv, Starting, Cancelling
    <2>3. CASE task[j] = "done" /\ Goto(c, "stopped")
      <3>1. /\ call'[c].pc = "stopped" /\ call'[c].job = j
            /\ \A d \in Call \ {c} : call'[d] = call[d]
        BY <1>0, <2>3, CallMoves
      <3>2. CancelInv(c)'
        BY <1>0, <2>1, <2>3, <3>1 DEF CancelInv, Cancelling, Computing, rows, tasks
      <3>3. TaskInv(j)'
        BY <1>4, <2>1, <3>1 DEF TaskInv, rows, tasks
      <3> QED
        BY <1>2, <1>4, <2>1, <3>1, <3>2, <3>3 DEF Cancelling, Active, Terminal, rows, tasks
    <2> QED
      BY <1>6, <2>2, <2>3 DEF CancelJoin
  <1> QED
    BY <1>1, <1>3, <1>5, <1>6 DEF CancelStep

\* A step of a task keeps the invariant.
LEMMA TaskKeeps ==
    ASSUME IInv, NEW j \in Job, TaskStep(j)
    PROVE  Calls' /\ Tasks' /\ KeyInv'
  <1> DEFINE Kept == Calls' /\ Tasks' /\ KeyInv'
  <1>0. TypeInv /\ TaskInv(j) /\ OwnedInv(j) /\ RowsAreFilled /\ CallsAreFilled
    BY DEF IInv, TypeInv
  <1>a. ASSUME NEW pc, GoTask(j, pc)
        PROVE  task'[j] = pc /\ \A i \in Job \ {j} : task'[i] = task[i]
    BY <1>0, <1>a DEF GoTask, TypeInv, TypeOK
  \* What no step of a task that has begun does.
  <1>b. ASSUME task[j] # "none", UNCHANGED <<call, up, requestOf, aborted>>,
               lost \subseteq lost',
               task[j] # "waiting" \/ (task'[j] = "done" /\ j \in aborted),
               \A i \in Job \ {j} : /\ state'[i] = state[i] /\ task'[i] = task[i]
                                    /\ i \in lost' <=> i \in lost
                                    /\ i \in workers' <=> i \in workers,
               state[j] # "absent", state'[j] # "absent",
               state[j] \in Terminal => state'[j] = state[j],
               task'[j] = "done" \/ j \in workers' \/ j \in aborted,
               j \in workers' => j \in workers,
               task'[j] \in Computing => task[j] \in Computing \/ state[j] \in Active,
               task[j] = "done" => task'[j] = "done" /\ workers' = workers,
               \A c \in Call : call[c].pc \in {"register", "send"} /\ call[c].job = j
                               => workers' = workers,
               TaskInv(j)', OwnedInv(j)'
        PROVE  Kept
    <2>1. KeyInv' /\ \A r : Keyed(r)' = Keyed(r)
      BY <1>b, SameKeys DEF IInv
    <2>2. ASSUME NEW d \in Call, call[d].pc \in Starting PROVE StartInv(d)'
      <3>1. StartInv(d) /\ call[d].job \in Job
        BY <1>0, <2>2 DEF IInv, CallsAreFilled, Starting
      <3>2. CASE call[d].job = j
        BY <1>b, <2>2, <3>1, <3>2 DEF StartInv, Starting
      <3>3. CASE call[d].job # j
        BY <1>b, <2>2, <3>1, <3>3 DEF StartInv, Starting
      <3> QED
        BY <3>2, <3>3
    <2>3. ASSUME NEW d \in Call, call[d].pc \in Cancelling PROVE CancelInv(d)'
      <3>1. CancelInv(d) /\ call[d].job \in Job
        BY <1>0, <2>3 DEF IInv, CallsAreFilled, Cancelling, CancelPc
      <3>2. CASE call[d].job = j
        BY <1>b, <2>3, <3>1, <3>2 DEF CancelInv, Active, Terminal
      <3>3. CASE call[d].job # j
        BY <1>b, <2>3, <3>1, <3>3 DEF CancelInv
      <3> QED
        BY <3>2, <3>3
    <2>4. \A d \in Call : StartedInv(d)'
      BY <1>b, <2>1 DEF IInv, StartedInv, SameRequest
    <2>5. \A i \in Job \ {j} : TaskInv(i)'
      BY <1>b DEF IInv, TaskInv
    <2>6. \A i \in Job \ {j} : OwnedInv(i)'
      <3>1. \A i \in Job \ {j} : Keeper(i) => Keeper(i)'
        BY <1>b DEF Keeper
      <3> QED
        BY <1>b, <3>1 DEF IInv, OwnedInv, ActiveRows
    <2>7. \A d \in Call : StartInv(d)' /\ CancelInv(d)'
      BY <1>b, <2>2, <2>3 DEF StartInv, CancelInv
    <2> QED
      BY <1>b, <2>1, <2>4, <2>5, <2>6, <2>7 DEF Calls, Tasks
  \* A start call that still has the job has seen its task wait or aborted.
  <1>c. \A c \in Call : call[c].pc \in Starting /\ call[c].job = j
                        => task[j] \in {"none", "waiting", "done"}
    BY DEF IInv, StartInv, Starting
  <1>d. state[j] = "absent" => task[j] = "none"
    BY <1>0 DEF RowsAreFilled
  <1>1. CASE TaskBegin(j)
    <2>1. CASE state[j] = "queued"
      <3>1. /\ state'[j] = "running" /\ \A i \in Job \ {j} : state'[i] = state[i]
            /\ task[j] = "begin" /\ task'[j] = "worker"
            /\ \A i \in Job \ {j} : task'[i] = task[i]
            /\ UNCHANGED <<call, up, requestOf, aborted, lost, workers>>
        BY <1>0, <1>1, <1>a, <2>1 DEF TaskBegin, TypeInv, TypeOK
      <3>2. TaskInv(j)' /\ OwnedInv(j)'
        BY <1>0, <2>1, <3>1
           DEF TaskInv, OwnedInv, Keeper, Computing, Terminal
      <3> QED
        BY <1>0, <1>b, <2>1, <3>1, <3>2 DEF TaskInv, Computing, Active, Terminal
    <2>2. CASE state[j] # "queued"
      <3>1. /\ UNCHANGED <<call, up, rows, aborted, lost, workers>>
            /\ task[j] = "begin" /\ task'[j] = "done"
            /\ \A i \in Job \ {j} : task'[i] = task[i]
        BY <1>1, <1>a, <2>2 DEF TaskBegin, rows
      <3>2. TaskInv(j)' /\ OwnedInv(j)'
        BY <1>0, <2>2, <3>1
           DEF TaskInv, OwnedInv, ActiveRows, Active, Computing, rows
      <3> QED
        BY <1>b, <1>d, <3>1, <3>2 DEF Computing, rows
    <2> QED
      BY <2>1, <2>2
  <1>2. CASE TaskWorker(j) \/ TaskStage(j)
    <2>1. /\ UNCHANGED <<call, up, rows, aborted, lost, workers>>
          /\ task[j] \in Computing /\ task'[j] \in Computing
          /\ \A i \in Job \ {j} : task'[i] = task[i]
      BY <1>2, <1>a DEF TaskWorker, TaskStage, Computing
    <2>2. TaskInv(j)' /\ OwnedInv(j)'
      BY <1>0, <1>c, <2>1 DEF TaskInv, OwnedInv, Keeper, ActiveRows, Active, Computing, rows
    <2> QED
      BY <1>0, <1>b, <1>d, <2>1, <2>2 DEF TaskInv, Computing, rows
  <1>3. CASE TaskFinish(j)
    <2>1. /\ UNCHANGED <<call, up, requestOf, aborted, lost, workers>>
          /\ task[j] = "finish" /\ task'[j] = "remove"
          /\ \A i \in Job \ {j} : task'[i] = task[i]
      BY <1>3, <1>a DEF TaskFinish, Succeed, Fail, rows
    <2>2. /\ \A i \in Job \ {j} : state'[i] = state[i]
          /\ IF state[j] = "running" THEN state'[j] \in {"succeeded", "failed"}
                                     ELSE state'[j] = state[j]
      BY <1>0, <1>3 DEF TaskFinish, Succeed, Fail, TypeInv, TypeOK, rows
    <2>3. TaskInv(j)' /\ OwnedInv(j)'
      BY <1>0, <1>c, <2>1, <2>2
         DEF TaskInv, OwnedInv, Keeper, ActiveRows, Active, Terminal, Computing
    <2> QED
      BY <1>0, <1>b, <1>d, <2>1, <2>2, <2>3 DEF TaskInv, Computing, Terminal
  <1>4. CASE TaskRemove(j)
    <2>1. /\ UNCHANGED <<call, up, rows, aborted, lost>> /\ workers' = workers \ {j}
          /\ task[j] = "remove" /\ task'[j] = "done"
          /\ \A i \in Job \ {j} : task'[i] = task[i]
      BY <1>4, <1>a DEF TaskRemove
    <2>2. TaskInv(j)' /\ OwnedInv(j)'
      BY <1>0, <1>c, <2>1 DEF TaskInv, OwnedInv, Keeper, ActiveRows, Active, Computing, rows
    <2> QED
      BY <1>b, <1>c, <1>d, <2>1, <2>2 DEF Computing, Starting, rows
  <1>5. CASE TaskFault(j)
    <2>1. /\ UNCHANGED <<call, up, rows, aborted, workers>> /\ lost' = lost \cup {j}
          /\ task[j] \in {"begin", "stage", "finish"}
          /\ task'[j] = IF task[j] = "begin" THEN "done" ELSE "remove"
          /\ \A i \in Job \ {j} : task'[i] = task[i]
      BY <1>5, <1>a DEF TaskFault
    <2>2. TaskInv(j)' /\ OwnedInv(j)'
      BY <1>0, <2>1 DEF TaskInv, OwnedInv, Computing, rows
    <2> QED
      BY <1>0, <1>b, <1>d, <2>1, <2>2 DEF TaskInv, Computing, rows
  <1>6. CASE TaskAborted(j)
    <2>1. /\ UNCHANGED <<call, up, rows, aborted, lost, workers>> /\ j \in aborted
          /\ task[j] \in {"waiting", "begin", "worker", "stage"} /\ task'[j] = "done"
          /\ \A i \in Job \ {j} : task'[i] = task[i]
      BY <1>6, <1>a DEF TaskAborted
    <2>2. TaskInv(j)' /\ OwnedInv(j)'
      BY <1>0, <2>1 DEF TaskInv, OwnedInv, ActiveRows, Active, Terminal, Computing, rows
    <2> QED
      BY <1>0, <1>b, <1>d, <2>1, <2>2 DEF TaskInv, Computing, rows
  <1> QED
    BY <1>1, <1>2, <1>3, <1>4, <1>5, <1>6 DEF TaskStep

\* An open of the database, at a restart or by an operator, leaves no unfinished
\* job, and takes no row, task or handle away.
LEMMA OpenKeeps ==
    ASSUME IInv, InterruptActive, UNCHANGED <<tasks, workers, call>>
    PROVE  Calls' /\ Tasks' /\ KeyInv'
  <1>0. TypeInv
    BY DEF IInv
  <1>1. /\ \A j \in Job : state'[j] = IF state[j] \in Active THEN "interrupted" ELSE state[j]
        /\ UNCHANGED requestOf
    BY DEF InterruptActive, ActiveRows
  <1>2. KeyInv' /\ \A r : Keyed(r)' = Keyed(r)
    <2>1. \A j \in Job : state'[j] = "absent" <=> state[j] = "absent"
      BY <1>1 DEF Active
    <2> QED
      BY <1>1, <2>1, SameKeys DEF IInv
  <1>3. ASSUME NEW c \in Call PROVE StartInv(c)' /\ CancelInv(c)'
    <2>1. call[c].pc \in Starting \cup Cancelling => call[c].job \in Job
      BY <1>0 DEF TypeInv, CallsAreFilled, Starting, Cancelling, CancelPc
    <2> QED
      BY <1>1, <2>1 DEF IInv, StartInv, CancelInv, Starting, Cancelling, Active, Terminal, tasks
  <1>4. \A c \in Call : StartedInv(c)'
    BY <1>1, <1>2 DEF IInv, StartedInv, SameRequest
  <1>5. \A j \in Job : TaskInv(j)'
    BY <1>1 DEF IInv, TaskInv, Active, Terminal, tasks
  <1>6. \A j \in Job : OwnedInv(j)'
    BY <1>1 DEF OwnedInv, ActiveRows, Active
  <1> QED
    BY <1>2, <1>3, <1>4, <1>5, <1>6 DEF Calls, Tasks

\* Every step keeps the invariant.
LEMMA NextInv == IInv /\ [Next]_vars => IInv'
  <1> SUFFICES ASSUME IInv, [Next]_vars PROVE IInv'
    OBVIOUS
  <1>0. TypeInv'
    BY NextTypeInv DEF IInv
  <1>1. CASE Restart \/ AdminOpen
    BY <1>0, <1>1, OpenKeeps DEF Restart, AdminOpen, IInv, Calls, Tasks
  <1>2. CASE Crash
    <2>1. /\ \A c \in Call : call'[c].pc = "idle"
          /\ \A j \in Job : task'[j] = "none"
          /\ workers' = {} /\ aborted' = {} /\ ~up' /\ UNCHANGED rows
      BY <1>2 DEF Crash, IdleCall
    <2>2. KeyInv'
      BY <2>1, SameKeys DEF IInv, rows
    <2>3. Calls'
      BY <2>1 DEF Calls, StartInv, StartedInv, CancelInv, Starting, Cancelling
    <2>4. Tasks'
      BY <2>1 DEF Tasks, TaskInv, OwnedInv, Computing
    <2> QED
      BY <1>0, <2>2, <2>3, <2>4 DEF IInv, Calls, Tasks
  <1>3. CASE (\E p \in Project : CommitRevision(p)) \/ UNCHANGED vars
    <2>1. UNCHANGED <<up, rows, tasks, workers, call>>
      BY <1>3 DEF CommitRevision, vars
    <2>2. KeyInv' /\ \A r : Keyed(r)' = Keyed(r)
      BY <2>1, SameKeys DEF IInv, rows
    <2>3. Calls'
      BY <2>1, <2>2 DEF IInv, Calls, StartInv, StartedInv, CancelInv, SameRequest, rows, tasks
    <2>4. Tasks'
      BY <2>1 DEF IInv, Tasks, TaskInv, OwnedInv, Keeper, ActiveRows, rows, tasks
    <2> QED
      BY <1>0, <2>2, <2>3, <2>4 DEF IInv, Calls, Tasks
  <1>4. ASSUME NEW c \in Call,
               (\E r \in Request : Start(c, r)) \/ StartStep(c) \/ Acknowledge(c) \/ Refuse(c)
        PROVE  IInv'
    BY <1>0, <1>4, StartKeeps DEF IInv, Calls, Tasks
  <1>5. ASSUME NEW c \in Call, (\E j \in Job : Cancel(c, j)) \/ CancelStep(c) PROVE IInv'
    BY <1>0, <1>5, CancelKeeps DEF IInv, Calls, Tasks
  <1>6. ASSUME NEW j \in Job, TaskStep(j) PROVE IInv'
    BY <1>0, <1>6, TaskKeeps DEF IInv, Calls, Tasks
  <1> QED
    BY <1>1, <1>2, <1>3, <1>4, <1>5, <1>6 DEF Next, CallStep

-----------------------------------------------------------------------------
(* Theorems *)

\* The invariant the other theorems follow from.
THEOREM Invariant == Spec => []IInv
  <1>1. Init => IInv
    <2> SUFFICES ASSUME Init PROVE IInv
      OBVIOUS
    <2>1. KeyInv /\ \A j \in Job : TaskInv(j) /\ OwnedInv(j)
      BY DEF Init, KeyInv, Rows, TaskInv, OwnedInv, ActiveRows, Active, Computing
    <2>2. \A c \in Call : StartInv(c) /\ StartedInv(c) /\ CancelInv(c)
      BY DEF Init, IdleCall, StartInv, StartedInv, CancelInv, Starting, Cancelling
    <2> QED
      BY <2>1, <2>2, InitTypeInv DEF IInv
  <1> QED
    BY <1>1, NextInv, PTL DEF Spec

\* Start calls that race, retry and lose connections never make two jobs of one
\* key, and the answer to a retry is the job of the first call.
THEOREM KeysNameOneJob == Spec => []OneJobPerKey
  <1>1. IInv => OneJobPerKey
    <2> SUFFICES ASSUME IInv PROVE OneJobPerKey
      OBVIOUS
    <2>1. \A j \in Rows : Keyed(requestOf[j]) = {j}
      BY DEF IInv, KeyInv, Keyed, Rows
    <2>2. ASSUME NEW c \in Call, call[c].pc = "started"
          PROVE  /\ Keyed(call[c].request) = {call[c].job}
                 /\ SameRequest(call[c].job, call[c].request)
      BY <2>2 DEF IInv, StartedInv, KeyInv, Keyed
    <2> QED
      BY <2>1, <2>2 DEF OneJobPerKey, SameRequest
  <1> QED
    BY <1>1, Invariant, PTL

\* No unfinished job of a running server is left to itself.
THEOREM JobsAreOwned == Spec => []ActiveJobIsOwned
  <1>1. IInv => ActiveJobIsOwned
    BY DEF IInv, OwnedInv, Keeper, ActiveJobIsOwned, ActiveRows, Starting, Computing
  <1> QED
    BY <1>1, Invariant, PTL

\* A cancel call that has answered leaves no worker that runs, although it may
\* have come before the handle of the task was registered.
THEOREM CancelIsFinal == Spec => []CancelStopsWorker
  <1>1. IInv => CancelStopsWorker
    BY DEF IInv, CancelInv, CancelStopsWorker, Cancelling, Computing
  <1> QED
    BY <1>1, Invariant, PTL

-----------------------------------------------------------------------------
(* The registry *)

\* A task that has begun is past the gate, and keeps no handle when it is done; a
\* task that is still to be spawned has not begun.
GateInv ==
    /\ \A j \in Job : Begun(j) =>
          task[j] \notin {"waiting", "begin"} /\ ~(j \in workers /\ task[j] = "done")
    /\ \A c \in Call : call[c].pc = "spawn" => ~Begun(call[c].job)

\* A step of a call keeps the gate.
LEMMA CallKeepsGate ==
    ASSUME IInv, HistoryMatchesState, GateInv, NEW c \in Call,
           \/ \E r \in Request : Start(c, r)
           \/ \E j \in Job : Cancel(c, j)
           \/ CallStep(c) \/ Acknowledge(c) \/ Refuse(c)
    PROVE  GateInv'
  <1> DEFINE j == call[c].job
  <1>0. TypeInv /\ StartInv(c)
    BY DEF IInv
  <1>1. ASSUME UNCHANGED <<events, task>>, workers' \subseteq workers,
               call'[c].pc # "spawn", \A x \in Call \ {c} : call'[x] = call[x]
        PROVE  GateInv'
    BY <1>1 DEF GateInv, Begun, History
  <1>2. CASE StartCommit(c)
    <2>1. CASE UNCHANGED rows
      <3>1. call'[c].pc # "spawn" /\ \A x \in Call \ {c} : call'[x] = call[x]
        <4>1. CASE Reply(c)
          BY <1>0, <4>1, CallMoves
        <4>2. CASE Replay(c) /\ ~Reply(c)
          BY <1>0, <4>2, CallMoves DEF Replay
        <4>3. lastSeq' = lastSeq
          BY <2>1 DEF rows
        <4>4. ASSUME NEW k \in Job, InsertJob(c, k) PROVE FALSE
          BY <1>0, <4>3, <4>4 DEF InsertJob, InsertEvent, TypeInv, TypeOK
        <4> QED
          BY <1>2, <4>1, <4>2, <4>4 DEF StartCommit
      <3> QED
        BY <1>1, <1>2, <2>1, <3>1 DEF StartCommit, rows, tasks
    <2>2. ASSUME NEW k \in Job, InsertJob(c, k) PROVE GateInv'
      <3>1. \A i : Begun(i)' <=> Begun(i)
        BY <2>2 DEF InsertJob, InsertEvent, EventRow, Begun, History
      <3>2. ~Begun(k)
        BY <2>2 DEF InsertJob, HistoryMatchesState, HistoryMatches, Begun
      <3>3. /\ call'[c].job = k
            /\ \A x \in Call \ {c} : call'[x] = call[x]
        BY <1>0, <2>2 DEF InsertJob, TypeInv, TypeOK, CallState
      <3> QED
        BY <1>2, <3>1, <3>2, <3>3 DEF GateInv, StartCommit, tasks
    <2> QED
      BY <1>2, <2>1, <2>2 DEF StartCommit
  <1>3. CASE StartSpawn(c)
    <2>1. /\ call'[c].pc = "register"
          /\ \A x \in Call \ {c} : call'[x] = call[x]
      BY <1>0, <1>3, CallMoves DEF StartSpawn
    <2>2. \A i : Begun(i)' <=> Begun(i)
      BY <1>3 DEF StartSpawn, rows, Begun, History
    <2>3. \A i \in Job : task'[i] = IF i = j THEN "waiting" ELSE task[i]
      BY <1>0, <1>3 DEF StartSpawn, TypeInv, TypeOK
    <2> QED
      BY <1>3, <2>1, <2>2, <2>3 DEF GateInv, StartSpawn
  <1>4. CASE StartRegister(c)
    <2>1. /\ call'[c].pc = "send"
          /\ \A x \in Call \ {c} : call'[x] = call[x]
      BY <1>0, <1>4, CallMoves DEF StartRegister
    <2>2. task[j] = "waiting"
      BY <1>0, <1>4 DEF StartRegister, StartInv, Starting
    <2>3. \A i : Begun(i)' <=> Begun(i)
      BY <1>4 DEF StartRegister, rows, Begun, History
    <2> QED
      BY <1>4, <2>1, <2>2, <2>3 DEF GateInv, StartRegister, tasks
  <1>5. CASE StartSend(c)
    <2>1. /\ call'[c].pc = "started"
          /\ \A x \in Call \ {c} : call'[x] = call[x]
      BY <1>0, <1>5, CallMoves DEF StartSend
    <2>2. \A i : Begun(i)' <=> Begun(i)
      BY <1>5 DEF StartSend, rows, Begun, History
    <2>3. \A i \in Job : \/ task'[i] = task[i]
                         \/ task[i] = "waiting" /\ task'[i] = "begin"
      BY <1>0, <1>5 DEF StartSend, TypeInv, TypeOK
    <2> QED
      BY <1>5, <2>1, <2>2, <2>3 DEF GateInv, StartSend
  <1>6. CASE CancelUpdate(c)
    <2>1. /\ call'[c].pc # "spawn"
          /\ \A x \in Call \ {c} : call'[x] = call[x]
      BY <1>0, <1>6, CallMoves DEF CancelUpdate
    <2>2. \A i : Begun(i)' <=> Begun(i)
      BY <1>6 DEF CancelUpdate, InsertEvent, EventRow, Begun, History
    <2> QED
      BY <1>6, <2>1, <2>2 DEF GateInv, CancelUpdate, tasks
  <1>7. CASE \/ \E r \in Request : Start(c, r)
             \/ \E i \in Job : Cancel(c, i)
    BY <1>0, <1>1, <1>7 DEF Start, Cancel, rows, tasks, TypeInv, TypeOK
  <1>8. CASE CancelTake(c) \/ CancelJoin(c)
    <2>1. /\ call'[c].pc # "spawn"
          /\ \A x \in Call \ {c} : call'[x] = call[x]
      BY <1>0, <1>8, CallMoves DEF CancelTake, CancelJoin
    <2> QED
      BY <1>1, <1>8, <2>1 DEF CancelTake, CancelJoin, rows, tasks
  <1>9. CASE StartPrior(c) \/ StartFetch(c) \/ Acknowledge(c) \/ Refuse(c)
    <2>1. /\ call'[c].pc # "spawn"
          /\ \A x \in Call \ {c} : call'[x] = call[x]
      BY <1>0, <1>9, CallMoves DEF StartPrior, Replay, StartFetch, Acknowledge, Refuse
    <2> QED
      BY <1>1, <1>9, <2>1 DEF StartPrior, StartFetch, Acknowledge, Refuse, rows, tasks
  <1> QED
    BY <1>2, <1>3, <1>4, <1>5, <1>6, <1>7, <1>8, <1>9 DEF CallStep, StartStep, CancelStep

\* A step of a task keeps the gate.
LEMMA TaskKeepsGate ==
    ASSUME IInv, GateInv, NEW j \in Job, TaskStep(j)
    PROVE  GateInv'
  <1>0. TypeInv /\ TaskInv(j)
    BY DEF IInv
  <1>1. ASSUME NEW pc, GoTask(j, pc)
        PROVE  task'[j] = pc /\ \A i \in Job \ {j} : task'[i] = task[i]
    BY <1>0, <1>1 DEF GoTask, TypeInv, TypeOK
  <1>2. ASSUME \A i : Begun(i)' <=> Begun(i), workers' \subseteq workers,
               UNCHANGED call, \A i \in Job \ {j} : task'[i] = task[i],
               task'[j] \notin {"waiting", "begin"},
               task'[j] = "done" => j \notin workers' \/ task[j] = "begin"
        PROVE  GateInv'
    BY <1>2 DEF GateInv
  <1>3. CASE TaskBegin(j)
    <2>1. CASE state[j] # "queued"
      <3>1. \A i : Begun(i)' <=> Begun(i)
        BY <1>3, <2>1 DEF TaskBegin, Begun, History
      <3> QED
        BY <1>1, <1>2, <1>3, <2>1, <3>1 DEF TaskBegin
    <2>2. CASE state[j] = "queued"
      <3>1. \A i : i # j => (Begun(i)' <=> Begun(i))
        BY <1>3, <2>2 DEF TaskBegin, InsertEvent, EventRow, Begun, History
      <3>2. task'[j] = "worker" /\ \A i \in Job \ {j} : task'[i] = task[i]
        BY <1>1, <1>3, <2>2 DEF TaskBegin
      <3>3. \A c \in Call : call[c].pc = "spawn" => call[c].job # j
        BY <1>3 DEF TaskBegin, IInv, StartInv, Starting
      <3> QED
        BY <1>3, <3>1, <3>2, <3>3 DEF TaskBegin, GateInv
    <2> QED
      BY <1>3, <2>1, <2>2 DEF TaskBegin
  <1>4. CASE TaskWorker(j) \/ TaskStage(j) \/ TaskRemove(j) \/ TaskFault(j) \/ TaskAborted(j)
    <2>1. \A i : Begun(i)' <=> Begun(i)
      BY <1>4
      DEF TaskWorker, TaskStage, TaskRemove, TaskFault, TaskAborted, rows, Begun, History
    <2>2. /\ \A i \in Job \ {j} : task'[i] = task[i]
          /\ task'[j] \notin {"waiting", "begin"}
          /\ workers' \subseteq workers /\ UNCHANGED call
      BY <1>1, <1>4 DEF TaskWorker, TaskStage, TaskRemove, TaskFault, TaskAborted
    <2>3. task'[j] = "done" => j \notin workers' \/ task[j] = "begin"
      BY <1>0, <1>1, <1>4
      DEF TaskWorker, TaskStage, TaskRemove, TaskFault, TaskAborted, TaskInv
    <2> QED
      BY <1>2, <2>1, <2>2, <2>3
  <1>5. CASE TaskFinish(j)
    <2>1. \A i : Begun(i)' <=> Begun(i)
      <3>1. \/ UNCHANGED events
            \/ InsertEvent(j, "succeeded", result[j])
            \/ InsertEvent(j, "failed", None)
        BY <1>5 DEF TaskFinish, Succeed, Fail, rows
      <3> QED
        BY <3>1 DEF InsertEvent, EventRow, Begun, History
    <2>2. task'[j] = "remove" /\ \A i \in Job \ {j} : task'[i] = task[i]
      BY <1>1, <1>5 DEF TaskFinish
    <2> QED
      BY <1>2, <1>5, <2>1, <2>2 DEF TaskFinish
  <1> QED
    BY <1>3, <1>4, <1>5 DEF TaskStep

\* A task that ran its worker has removed its handle when it is done: a handle
\* stays only for a task that never began.
THEOREM RegistryIsClean == Spec => []FinishedTaskIsUnregistered
  <1>1. Init => GateInv
    BY DEF Init, IdleCall, GateInv, Begun, History
  <1>2. IInv /\ HistoryMatchesState /\ GateInv /\ [Next]_vars => GateInv'
    <2> SUFFICES ASSUME IInv, HistoryMatchesState, GateInv, [Next]_vars PROVE GateInv'
      OBVIOUS
    <2>1. CASE Crash
      BY <2>1 DEF Crash, IdleCall, GateInv
    <2>2. CASE Restart \/ AdminOpen
      <3>1. \A j : Begun(j)' <=> Begun(j)
        BY <2>2 DEF Restart, AdminOpen, InterruptActive, EventRow, Begun, History
      <3> QED
        BY <2>2, <3>1 DEF Restart, AdminOpen, GateInv, tasks
    <2>3. CASE (\E p \in Project : CommitRevision(p)) \/ UNCHANGED vars
      BY <2>3 DEF CommitRevision, vars, rows, tasks, GateInv, Begun, History
    <2> QED
      BY <2>1, <2>2, <2>3, CallKeepsGate, TaskKeepsGate DEF Next
  <1>3. IInv /\ GateInv => FinishedTaskIsUnregistered
    BY DEF IInv, TypeInv, TypeOK, TaskInv, GateInv, FinishedTaskIsUnregistered
  <1> QED
    BY <1>1, <1>2, <1>3, Invariant, HistoryIsFaithful, PTL DEF Spec
=============================================================================
