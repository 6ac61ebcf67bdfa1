----------------------- MODULE HydirGhidraWorkerProofs -----------------------
(***************************************************************************)
(* For any processes, binaries, functions, outputs, calls, crashes, failed *)
(* writes and rebuilds: a recorded project is whole and of its binary, a   *)
(* call answers what was asked, and Ghidra is alone in a managed project   *)
(* unless a worker that crashed or could not stop it has left it behind.   *)
(***************************************************************************)
EXTENDS HydirGhidraWorker, TLAPS

-----------------------------------------------------------------------------
(* The invariant *)

Quiet == {"idle", "output", "project", "stage", "answered"}     \* no Ghidra
Publishing == {"record", "clear", "publish", "sidecar"}         \* its result is good
Orphaned == {"crashed", "abandoned"}                            \* Ghidra goes on
Pc == Quiet \cup Publishing \cup {"running"} \cup Orphaned

Snapshot == [binary : Binary, function : Function,
             origin : {"static", "user", "observed"}]

Worker == [pc : Pc, request : Request \cup {None}, digest : Binary \cup {None},
           fresh : Generation \cup {None}]
Child == [state : {"off", "on", "done", "failed"}, place : Generation \cup {None, Copy},
          imported : Binary \cup {None}, snapshot : Snapshot \cup {None}]

Types ==
    /\ file \in Binary
    /\ output \in [Output -> Snapshot \cup {None}]
    /\ project \in [Binary -> Generation \cup {None}]
    /\ generation \in [Generation -> Directory \cup {None}]
    /\ worker \in [Client -> Worker]
    /\ ghidra \in [Client -> Child]
    /\ projectLock \in [Binary -> Client \cup {None}]
    /\ answer \in [Client -> Snapshot \cup {None}]

\* A cache record names a snapshot of the entry, or of the function of its key.
CacheInv ==
    /\ DOMAIN record = Output
    /\ \A o \in Output : record[o] # None =>
         record[o].sha = [binary |-> record[o].key[1],
                          function |-> IF record[o].key[2] = None THEN Entry
                                       ELSE record[o].key[2],
                          origin |-> "static"]

\* A worker runs Ghidra under the lock of its managed project, and publishes a
\* snapshot that is what was asked for.
WorkerInv(c) ==
    /\ ~At(c, "idle") => worker[c].request \in Request /\ worker[c].digest \in Binary
    /\ worker[c].pc \in Quiet => ghidra[c] = Off
    /\ worker[c].pc \in Quiet \cup {"clear", "publish", "sidecar", "abandoned"}
       => worker[c].fresh = None
    /\ /\ worker[c].pc \in {"stage", "running"} \cup Publishing
       /\ Kind(c) # "import"
       => projectLock[worker[c].digest] = c
    /\ worker[c].pc \in Publishing =>
         /\ ghidra[c].state = "done" /\ Kind(c) # "rediscover"
         /\ ghidra[c].snapshot = Requested(c, worker[c].digest)
    /\ At(c, "record") => worker[c].fresh # None /\ generation[worker[c].fresh].saved
    /\ At(c, "sidecar") => Kind(c) = "analyze"
    /\ ghidra[c].state = "on" => worker[c].pc \in {"running"} \cup Orphaned
    /\ ghidra[c].state = "done" =>
         ghidra[c].snapshot = Requested(c, ghidra[c].snapshot.binary)
    /\ At(c, "answered") => answer[c] = Requested(c, worker[c].digest)

Recorded(g) == \E b \in Binary : project[b] = g

\* A managed project in which Ghidra runs is the new one of its worker or a
\* recorded one, and holds what Ghidra believes it holds; or its directory was
\* removed by the worker that gave Ghidra up.
PlaceInv(c) ==
    ghidra[c].state = "on" =>
        /\ worker[c].fresh # None => ghidra[c].place = worker[c].fresh
        /\ ghidra[c].place \in Generation =>
             /\ Kind(c) = "analyze"
             /\ At(c, "running") => \/ ghidra[c].place = worker[c].fresh
                                    \/ ghidra[c].place = project[worker[c].digest]
             /\ generation[ghidra[c].place] # None =>
                  /\ ghidra[c].imported = generation[ghidra[c].place].imported
                  /\ ghidra[c].place = worker[c].fresh \/ Recorded(ghidra[c].place)

\* A new project belongs to one worker, and nobody has recorded it.
FreshInv(c) ==
    worker[c].fresh # None =>
        /\ generation[worker[c].fresh] # None
        /\ ~generation[worker[c].fresh].observed
        /\ ~Recorded(worker[c].fresh)
        /\ \A d \in Client \ {c} : worker[d].fresh # worker[c].fresh
        /\ Kind(c) = "analyze"
        /\ ~At(c, "crashed") => project[worker[c].digest] = None
        /\ ghidra[c].state = "done" =>
             generation[worker[c].fresh].imported = ghidra[c].snapshot.binary

ClientsInv == \A c \in Client : WorkerInv(c) /\ PlaceInv(c) /\ FreshInv(c)

IInv == Types /\ CacheInv /\ RecordedProjectsAreWhole /\ ClientsInv

\* A step of one process, of its Ghidra, or of whoever kills and restarts it.
Step(c) == \/ \E r \in Request : Begin(c, r)
           \/ Work(c)
           \/ GhidraImport(c) \/ GhidraExport(c) \/ GhidraFail(c)
           \/ Abandon(c) \/ Crash(c) \/ Restart(c)

-----------------------------------------------------------------------------
(* Types *)

\* Two directories with the same contents are equal.
LEMMA SameDirectory ==
    ASSUME NEW x \in Directory, NEW y \in Directory, x.imported = y.imported,
           x.saved = y.saved, x.observed = y.observed
    PROVE  x = y
  BY DEF Directory

\* What a call asks for is a snapshot.
LEMMA RequestedType ==
    ASSUME NEW c \in Client, NEW b \in Binary, worker[c].request \in Request
    PROVE  /\ Requested(c, b) \in Snapshot
           /\ Requested(c, b).binary = b
           /\ Kind(c) \in Kinds
           /\ Kind(c) = "rediscover" <=> Path(c) \notin Output
  <1>1. /\ worker[c].request.kind \in Kinds
        /\ worker[c].request.function \in Function \cup {None}
        /\ Kind(c) = "rediscover" <=> Path(c) \notin Output
    BY RequestAssumption DEF Kind, Path
  <1>2. Origin(c) \in {"static", "user", "observed"}
    BY <1>1 DEF Origin, Kind, Kinds
  <1> QED
    BY <1>1, <1>2, RequestAssumption DEF Requested, Snapshot, Kind

\* The records of workers and of their Ghidras.
LEMMA Records ==
    /\ \A k \in Worker, pc \in Pc : [k EXCEPT !.pc = pc] \in Worker
    /\ \A k \in Worker, pc \in Pc, g \in Generation \cup {None} :
          [k EXCEPT !.pc = pc, !.fresh = g] \in Worker
    /\ Idle \in Worker /\ Off \in Child
    /\ \A k \in Child, b \in Binary \cup {None} : [k EXCEPT !.imported = b] \in Child
    /\ \A s \in Snapshot : [Off EXCEPT !.state = "done", !.snapshot = s] \in Child
    /\ [Off EXCEPT !.state = "failed"] \in Child
  BY ZenonT(40) DEF Worker, Child, Idle, Off, Pc, Quiet, Publishing, Orphaned

\* How a call moves, fails and answers.
LEMMA MoveTypes ==
    ASSUME Types, NEW c \in Client
    PROVE  /\ \A pc \in Pc : Goto(c, pc) => worker' \in [Client -> Worker]
           /\ worker' = [worker EXCEPT ![c] = Idle] => worker' \in [Client -> Worker]
           /\ Released(c) => projectLock' \in [Binary -> Client \cup {None}]
           /\ Dropped(c) => generation' \in [Generation -> Directory \cup {None}]
           /\ ghidra' = [ghidra EXCEPT ![c] = Off] => ghidra' \in [Client -> Child]
           /\ \A place \in Generation \cup {Copy}, b \in Binary \cup {None} :
                Start(c, place, b) => ghidra' \in [Client -> Child]
           /\ \A s \in Snapshot \cup {None} : Answer(c, s) =>
                /\ answer' \in [Client -> Snapshot \cup {None}]
                /\ projectLock' \in [Binary -> Client \cup {None}]
                /\ worker' \in [Client -> Worker]
  <1>1. ASSUME NEW pc \in Pc, Goto(c, pc) PROVE worker' \in [Client -> Worker]
    <2>1. [worker[c] EXCEPT !.pc = pc] \in Worker
      BY Records DEF Types
    <2>2. worker' = [worker EXCEPT ![c] = [worker[c] EXCEPT !.pc = pc]]
      BY <1>1 DEF Goto
    <2> QED
      BY <2>1, <2>2 DEF Types
  <1>2. worker' = [worker EXCEPT ![c] = Idle] => worker' \in [Client -> Worker]
    BY Records DEF Types
  <1>3. Released(c) => projectLock' \in [Binary -> Client \cup {None}]
    BY DEF Types, Released
  <1>4. Dropped(c) => generation' \in [Generation -> Directory \cup {None}]
    BY DEF Types, Dropped
  <1>5. ghidra' = [ghidra EXCEPT ![c] = Off] => ghidra' \in [Client -> Child]
    BY Records DEF Types
  <1>6. ASSUME NEW place \in Generation \cup {Copy}, NEW b \in Binary \cup {None},
               Start(c, place, b)
        PROVE  ghidra' \in [Client -> Child]
    <2>1. [state |-> "on", place |-> place, imported |-> b, snapshot |-> None] \in Child
      BY DEF Child
    <2> QED
      BY <1>6, <2>1 DEF Types, Start
  <1>7. \A s \in Snapshot \cup {None} : Answer(c, s) =>
                /\ answer' \in [Client -> Snapshot \cup {None}]
                /\ projectLock' \in [Binary -> Client \cup {None}]
                /\ worker' \in [Client -> Worker]
    BY <1>1, <1>3 DEF Types, Answer, Pc, Quiet, Orphaned
  <1> QED
    BY <1>1, <1>2, <1>3, <1>4, <1>5, <1>6, <1>7

\* Every step keeps the types.
LEMMA NextTypes ==
    ASSUME IInv, [Next]_vars
    PROVE  Types'
  <1> USE DEF IInv
  <1>1. CASE UNCHANGED vars
    BY <1>1 DEF Types, vars, disk, locks
  <1>2. CASE Rebuild
    BY <1>2 DEF Types, Rebuild, disk, locks
  <1>3. ASSUME NEW c \in Client, Step(c) PROVE Types'
    <2>0. WorkerInv(c) /\ Types
      BY DEF ClientsInv
    <2>a. Pc = {"idle", "output", "project", "stage", "answered", "record", "clear",
                "publish", "sidecar", "running", "crashed", "abandoned"}
      BY DEF Pc, Quiet, Publishing, Orphaned
    <2>b. ghidra[c].snapshot \in Snapshot \cup {None}
      BY <2>0 DEF Types, Child
    <2> USE DEF disk, locks
    <2>1. ASSUME NEW r \in Request, Begin(c, r) PROVE Types'
      <3>1. [pc |-> IF r.kind = "rediscover" THEN "project" ELSE "output",
             request |-> r, digest |-> file, fresh |-> None] \in Worker
        BY <2>0, <2>a DEF Worker, Types
      <3> QED
        BY <2>0, <2>1, <3>1 DEF Begin, Types
    <2>2. CASE LockOutput(c)
      <3>1. worker[c].request \in Request
        BY <2>0, <2>2 DEF WorkerInv, LockOutput, At
      <3>2. Kind(c) # "rediscover" => output[Path(c)] \in Snapshot \cup {None}
        BY <2>0, <3>1, RequestedType DEF Types, WorkerInv
      <3>3. CASE Answer(c, output[Path(c)]) /\ Kind(c) = "analyze"
        BY <2>0, <2>2, <3>2, <3>3, MoveTypes DEF LockOutput, Types
      <3>4. CASE UNCHANGED <<projectLock, answer>> /\ \E pc \in Pc : Goto(c, pc)
        BY <2>0, <2>2, <3>4, MoveTypes DEF LockOutput, Types
      <3> QED
        BY <2>2, <2>a, <3>3, <3>4 DEF LockOutput
    <2>3. CASE LockProject(c)
      BY <2>0, <2>3, <2>a, MoveTypes DEF LockProject, Types
    <2>4. CASE LockTimeout(c)
      BY <2>0, <2>4, MoveTypes DEF LockTimeout, Fail, Types
    <2>5. CASE StageManaged(c)
      <3>1. /\ worker[c].digest \in Binary
            /\ Existing(worker[c].digest) # None =>
                  /\ Existing(worker[c].digest) \in Generation
                  /\ generation[Existing(worker[c].digest)] \in Directory
        BY <2>0, <2>5 DEF WorkerInv, StageManaged, At, Existing, Types
      <3>2. CASE Existing(worker[c].digest) # None
        <4>1. generation[Existing(worker[c].digest)].imported \in Binary \cup {None}
          BY <3>1, <3>2 DEF Directory
        <4> QED
          BY <2>0, <2>5, <2>a, <3>1, <3>2, <4>1, MoveTypes DEF StageManaged, Types
      <3>3. CASE Existing(worker[c].digest) = None
        <4> DEFINE g == CHOOSE g \in Unused : TRUE
        <4>1. g \in Unused
          BY <2>5, <3>3 DEF StageManaged
        <4>2. g \in Generation
          BY <4>1 DEF Unused
        <4>3. /\ generation' = [generation EXCEPT ![g] =
                     [imported |-> None, saved |-> FALSE, observed |-> FALSE]]
              /\ Start(c, g, None)
              /\ worker' = [worker EXCEPT ![c].pc = "running", ![c].fresh = g]
              /\ UNCHANGED <<file, output, project, locks, answer>>
          BY <2>5, <3>3 DEF StageManaged
        <4> HIDE DEF g
        <4>4. worker' \in [Client -> Worker]
          BY <2>0, <2>a, <4>2, <4>3, Records, ZenonT(40) DEF Types
        <4>5. generation' \in [Generation -> Directory \cup {None}]
          BY <2>0, <4>2, <4>3 DEF Types, Directory
        <4> QED
          BY <2>0, <4>2, <4>3, <4>4, <4>5, MoveTypes DEF Types
      <3> QED
        BY <3>2, <3>3
    <2>6. CASE StageImport(c)
      BY <2>0, <2>6, <2>a, MoveTypes, RequestAssumption DEF StageImport, Types
    <2>7. CASE StageRediscover(c)
      <3>1. Existing(worker[c].digest) # None =>
               generation[Existing(worker[c].digest)].imported \in Binary \cup {None}
        BY <2>0, <2>7 DEF WorkerInv, StageRediscover, At, Existing, Types, Directory
      <3>2. CASE Existing(worker[c].digest) # None
        BY <2>0, <2>7, <2>a, <3>1, <3>2, MoveTypes DEF StageRediscover, RediscoveryPlace, Types
      <3>3. CASE Existing(worker[c].digest) = None
        BY <2>0, <2>7, <3>3, MoveTypes DEF StageRediscover, Fail, Types
      <3> QED
        BY <3>2, <3>3
    <2>8. CASE Exited(c)
      <3>1. CASE ~Accepted(c)
        BY <2>0, <2>8, <3>1, MoveTypes DEF Exited, Fail, Types
      <3>2. CASE Accepted(c) /\ Kind(c) = "rediscover"
        BY <2>0, <2>8, <2>b, <3>2, MoveTypes DEF Exited, Types
      <3>3. CASE Accepted(c) /\ Kind(c) # "rediscover"
        <4>1. \E pc \in Pc : Goto(c, pc)
          BY <2>8, <2>a, <3>3 DEF Exited
        <4> QED
          BY <2>0, <2>8, <3>3, <4>1, MoveTypes DEF Exited, Types
      <3> QED
        BY <3>1, <3>2, <3>3
    <2>9. CASE Stop(c)
      BY <2>0, <2>9, MoveTypes DEF Stop, Stopped, Fail, Types
    <2>10. CASE RecordProject(c)
      <3>1. worker' \in [Client -> Worker]
        BY <2>0, <2>10, <2>a, Records DEF RecordProject, Types
      <3>2. project' \in [Binary -> Generation \cup {None}]
        BY <2>0, <2>10 DEF RecordProject, Types, Worker
      <3> QED
        BY <2>0, <2>10, <3>1, <3>2 DEF RecordProject, Types
    <2>11. CASE ClearCache(c)
      BY <2>0, <2>11, <2>a, MoveTypes DEF ClearCache, Types
    <2>12. CASE Publish(c)
      <3>1. output' \in [Output -> Snapshot \cup {None}]
        BY <2>0, <2>12, <2>b DEF Publish, Types
      <3> QED
        BY <2>0, <2>12, <2>a, <2>b, <3>1, MoveTypes DEF Publish, Types
    <2>13. CASE WriteCache(c)
      BY <2>0, <2>13, <2>b, MoveTypes DEF WriteCache, Types
    <2>14. CASE WriteFails(c)
      BY <2>0, <2>14, MoveTypes DEF WriteFails, Types
    <2>15. CASE Return(c)
      BY <2>0, <2>15, MoveTypes DEF Return, Types
    <2>16. CASE GhidraImport(c)
      <3>1. ghidra' \in [Client -> Child]
        BY <2>0, <2>16, Records DEF GhidraImport, Types
      <3> QED
        BY <2>0, <2>16, <3>1 DEF GhidraImport, Managed, Types, Directory
    <2>17. CASE GhidraExport(c)
      <3>1. Requested(c, file) \in Snapshot
        BY <2>0, <2>17, RequestedType DEF GhidraExport, WorkerInv, At, Types, Orphaned
      <3>2. ghidra' \in [Client -> Child]
        BY <2>0, <2>17, <3>1, Records DEF GhidraExport, Types
      <3>3. generation' \in [Generation -> Directory \cup {None}]
        <4>1. CASE generation' = generation
          BY <2>0, <4>1 DEF Types
        <4>2. CASE /\ Managed(c)
                   /\ generation' = [generation EXCEPT ![ghidra[c].place].saved = TRUE,
                         ![ghidra[c].place].observed = @ \/ Kind(c) = "rediscover"]
          <5> DEFINE g == ghidra[c].place
          <5>1. g \in Generation /\ generation[g] \in Directory
            BY <2>0, <4>2 DEF Managed, Types
          <5>2. /\ generation[g].imported \in Binary \cup {None}
                /\ generation[g].observed \in BOOLEAN
            BY <5>1 DEF Directory
          <5>3. \A x \in BOOLEAN :
                   [[generation[g] EXCEPT !.saved = TRUE] EXCEPT !.observed = x] \in Directory
            BY <5>1 DEF Directory
          <5>4. generation'[g] = [[generation[g] EXCEPT !.saved = TRUE]
                       EXCEPT !.observed = generation[g].observed \/ Kind(c) = "rediscover"]
            BY <2>0, <4>2, <5>1 DEF Types, Directory
          <5> QED
            BY <2>0, <4>2, <5>1, <5>2, <5>3, <5>4 DEF Types
        <4> QED
          BY <2>17, <4>1, <4>2 DEF GhidraExport
      <3> QED
        BY <2>0, <2>17, <3>2, <3>3 DEF GhidraExport, Types
    <2>18. CASE GhidraFail(c)
      BY <2>0, <2>18, Records DEF GhidraFail, Types
    <2>19. CASE Crash(c)
      BY <2>0, <2>19, <2>a, MoveTypes DEF Crash, Types
    <2>20. CASE Restart(c)
      BY <2>0, <2>20, MoveTypes DEF Restart, Types
    <2>21. CASE Abandon(c)
      <3>1. worker' = [worker EXCEPT ![c] =
               [worker[c] EXCEPT !.pc = "abandoned", !.fresh = None]]
        BY <2>0, <2>21 DEF Abandon, Types
      <3>2. [worker[c] EXCEPT !.pc = "abandoned", !.fresh = None] \in Worker
        BY <2>0, <2>a, Records DEF Types
      <3>3. worker' \in [Client -> Worker]
        BY <2>0, <3>1, <3>2 DEF Types
      <3> QED
        BY <2>0, <2>21, <3>3, MoveTypes DEF Abandon, Types
    <2> QED
      BY <1>3, <2>1, <2>2, <2>3, <2>4, <2>5, <2>6, <2>7, <2>8, <2>9, <2>10, <2>11, <2>12,
         <2>13, <2>14, <2>15, <2>16, <2>17, <2>18, <2>19, <2>20, <2>21 DEF Step, Work
  <1> QED
    BY <1>1, <1>2, <1>3 DEF Next, Step

-----------------------------------------------------------------------------
(* What a step leaves to the other processes *)

\* A step of one process leaves the others as they are, with their locks, their
\* new projects and all recorded ones, and makes no directory where the Ghidra of
\* another goes on.
Frame(c) ==
    /\ \A d \in Client \ {c} :
         worker'[d] = worker[d] /\ ghidra'[d] = ghidra[d] /\ answer'[d] = answer[d]
    /\ \A b \in Binary : projectLock[b] \notin {None, c} => projectLock'[b] = projectLock[b]
    /\ \A g \in Generation :
         Recorded(g) \/ (\E d \in Client \ {c} : worker[d].fresh = g)
         => generation'[g] = generation[g]
    /\ \A d \in Client \ {c}, g \in Generation :
         ghidra[d].place = g /\ generation[g] = None => generation'[g] = None
    /\ \/ project' = project
       \/ At(c, "record") /\ project' = [project EXCEPT ![worker[c].digest] = worker[c].fresh]

\* No value is none of the things there are.
LEMMA NothingIsNone ==
    /\ \A x : x \in Client \/ x \in Binary \/ x \in Generation \/ x \in Directory
              => x # None
    /\ Copy \notin Generation /\ Copy # None
  BY RequestAssumption

\* A recorded project is one of a binary.
LEMMA RecordedIsWhole ==
    ASSUME RecordedProjectsAreWhole, NEW g \in Generation, Recorded(g)
    PROVE  \E b \in Binary :
              /\ project[b] = g
              /\ generation[g].imported = b /\ generation[g].imported # None
              /\ generation[g].saved = TRUE /\ generation[g].observed = FALSE
              /\ generation[g] # None
  <1>1. PICK b \in Binary : project[b] = g
    BY DEF Recorded
  <1>2. generation[g] = [imported |-> b, saved |-> TRUE, observed |-> FALSE]
    BY <1>1, NothingIsNone DEF RecordedProjectsAreWhole
  <1>3. generation[g] \in Directory
    BY <1>2 DEF Directory
  <1>4. /\ generation[g].imported = b /\ generation[g].saved = TRUE
        /\ generation[g].observed = FALSE
    BY <1>2
  <1>5. generation[g] # None /\ generation[g].imported # None
    BY <1>3, <1>4, NothingIsNone
  <1> QED
    BY <1>1, <1>4, <1>5

\* Every step is framed.
LEMMA StepFrame ==
    ASSUME IInv, NEW c \in Client, Step(c)
    PROVE  Frame(c)
  <1> USE DEF IInv
  <1>0. WorkerInv(c) /\ PlaceInv(c) /\ FreshInv(c) /\ Types
    BY DEF ClientsInv
  <1> USE DEF disk, locks
  <1>1. ASSUME NEW pc, Goto(c, pc)
        PROVE  \A d \in Client \ {c} : worker'[d] = worker[d]
    BY <1>0, <1>1 DEF Goto, Types
  <1>2. ASSUME Released(c)
        PROVE  \A b \in Binary : projectLock[b] \notin {None, c}
                                 => projectLock'[b] = projectLock[b]
    BY <1>2 DEF Released
  <1>3. ASSUME Dropped(c)
        PROVE  \A g \in Generation :
                 /\ Recorded(g) \/ (\E d \in Client \ {c} : worker[d].fresh = g)
                    => generation'[g] = generation[g]
                 /\ generation[g] = None => generation'[g] = None
    BY <1>0, <1>3, RequestAssumption DEF Dropped, FreshInv, Recorded, Types, ClientsInv
  <1>4. ASSUME NEW place, NEW b, Start(c, place, b)
        PROVE  \A d \in Client \ {c} : ghidra'[d] = ghidra[d]
    BY <1>0, <1>4 DEF Start, Types
  <1>5. ASSUME NEW s, Answer(c, s)
        PROVE  \A d \in Client \ {c} : worker'[d] = worker[d] /\ answer'[d] = answer[d]
    BY <1>0, <1>1, <1>5 DEF Answer, Types
  <1>6. ASSUME Fail(c) PROVE \A d \in Client \ {c} : worker'[d] = worker[d]
    BY <1>0, <1>6 DEF Fail, Types
  <1>7. ASSUME NEW r \in Request, Begin(c, r) PROVE Frame(c)
    BY <1>0, <1>7 DEF Begin, Types, Frame
  <1>8. CASE LockOutput(c)
    BY <1>0, <1>1, <1>2, <1>5, <1>8 DEF LockOutput, Answer, Frame
  <1>9. CASE LockProject(c)
    BY <1>0, <1>1, <1>9 DEF LockProject, ProjectFree, Frame, Types
  <1>10. CASE LockTimeout(c)
    BY <1>0, <1>2, <1>3, <1>6, <1>10 DEF LockTimeout, Fail, Frame
  <1>11. CASE StageManaged(c)
    <2>1. CASE Existing(worker[c].digest) # None
      BY <1>0, <1>1, <1>4, <1>11, <2>1 DEF StageManaged, Frame
    <2>2. CASE Existing(worker[c].digest) = None
      <3> DEFINE g == CHOOSE g \in Unused : TRUE
      <3>1. g \in Unused
        BY <1>11, <2>2 DEF StageManaged
      <3>2. /\ generation' = [generation EXCEPT ![g] =
                   [imported |-> None, saved |-> FALSE, observed |-> FALSE]]
            /\ Start(c, g, None)
            /\ worker' = [worker EXCEPT ![c].pc = "running", ![c].fresh = g]
            /\ UNCHANGED <<project, projectLock, answer>>
        BY <1>11, <2>2 DEF StageManaged
      <3> HIDE DEF g
      <3>3. g \in Generation /\ generation[g] = None
        BY <3>1 DEF Unused
      <3>4. ~Recorded(g)
        BY <3>3, RecordedIsWhole
      <3>5. \A d \in Client : worker[d].fresh # g
        BY <3>3, RequestAssumption DEF ClientsInv, FreshInv
      <3>6. /\ \A k \in Generation \ {g} : generation'[k] = generation[k]
            /\ \A d \in Client : ghidra[d].place # g
        BY <1>0, <3>1, <3>2 DEF Types, Unused
      <3>7. \A d \in Client \ {c} : worker'[d] = worker[d] /\ ghidra'[d] = ghidra[d]
        BY <1>0, <1>4, <3>2 DEF Types
      <3> QED
        BY <3>2, <3>4, <3>5, <3>6, <3>7 DEF Frame
    <2> QED
      BY <2>1, <2>2
  <1>12. CASE StageImport(c)
    BY <1>0, <1>1, <1>4, <1>12 DEF StageImport, Frame
  <1>13. CASE StageRediscover(c)
    BY <1>0, <1>1, <1>2, <1>3, <1>4, <1>6, <1>13 DEF StageRediscover, Fail, Frame
  <1>14. CASE Exited(c)
    <2>1. \A d \in Client \ {c} : ghidra'[d] = ghidra[d]
      BY <1>0, <1>14 DEF Exited, Types
    <2> QED
      BY <1>0, <1>1, <1>2, <1>3, <1>5, <1>6, <1>14, <2>1 DEF Exited, Fail, Answer, Frame
  <1>15. CASE Stop(c)
    BY <1>0, <1>2, <1>3, <1>6, <1>15 DEF Stop, Stopped, Fail, Frame, Types
  <1>16. CASE RecordProject(c)
    BY <1>0, <1>16 DEF RecordProject, Frame, Types
  <1>17. CASE ClearCache(c)
    BY <1>0, <1>1, <1>17 DEF ClearCache, Frame
  <1>18. CASE Publish(c)
    <2>1. \A d \in Client \ {c} : ghidra'[d] = ghidra[d]
      BY <1>0, <1>18 DEF Publish, Types
    <2> QED
      BY <1>0, <1>1, <1>2, <1>5, <1>18, <2>1 DEF Publish, Answer, Frame
  <1>19. CASE WriteCache(c)
    BY <1>0, <1>2, <1>5, <1>19 DEF WriteCache, Answer, Frame, Types
  <1>20. CASE WriteFails(c)
    BY <1>0, <1>2, <1>20 DEF WriteFails, Frame, Types
  <1>21. CASE Return(c)
    BY <1>0, <1>21 DEF Return, Frame, Types
  <1>22. CASE GhidraImport(c)
    <2>1. \A d \in Client \ {c} : ghidra'[d] = ghidra[d]
      BY <1>0, <1>22 DEF GhidraImport, Types
    <2>2. ASSUME Managed(c)
          PROVE  /\ ~Recorded(ghidra[c].place)
                 /\ \A d \in Client \ {c} : worker[d].fresh # ghidra[c].place
      <3>1. /\ ghidra[c].place \in Generation /\ generation[ghidra[c].place].imported = None
            /\ ghidra[c].place = worker[c].fresh \/ Recorded(ghidra[c].place)
        BY <1>0, <1>22, <2>2 DEF GhidraImport, Managed, PlaceInv
      <3>2. ~Recorded(ghidra[c].place)
        BY <3>1, RecordedIsWhole
      <3> QED
        BY <1>0, <3>1, <3>2, RequestAssumption DEF FreshInv
    <2>3. \A g \in Generation : g # ghidra[c].place \/ ~Managed(c)
                                => generation'[g] = generation[g]
      BY <1>0, <1>22 DEF GhidraImport, Types
    <2> QED
      BY <1>22, <2>1, <2>2, <2>3 DEF GhidraImport, Managed, Frame
  <1>23. CASE GhidraExport(c)
    <2>1. \A d \in Client \ {c} : ghidra'[d] = ghidra[d]
      BY <1>0, <1>23 DEF GhidraExport, Types
    <2> DEFINE g == ghidra[c].place
    <2>2. CASE generation' = generation
      BY <1>23, <2>1, <2>2 DEF GhidraExport, Frame
    <2>3. CASE /\ Managed(c)
               /\ generation' = [generation EXCEPT ![g].saved = TRUE,
                     ![g].observed = @ \/ Kind(c) = "rediscover"]
      <3>1. /\ g \in Generation /\ generation[g] \in Directory /\ Kind(c) = "analyze"
            /\ g = worker[c].fresh \/ Recorded(g)
        BY <1>0, <1>23, <2>3 DEF GhidraExport, Managed, PlaceInv, Types
      <3>2. \A k \in Generation \ {g} : generation'[k] = generation[k]
        BY <1>0, <2>3 DEF Types
      <3>3. CASE Recorded(g)
        <4>1. generation[g].saved /\ ~generation[g].observed
          BY <3>1, <3>3, RecordedIsWhole
        <4>2. generation'[g] = [[generation[g] EXCEPT !.saved = TRUE]
                     EXCEPT !.observed = generation[g].observed \/ Kind(c) = "rediscover"]
          BY <1>0, <2>3, <3>1 DEF Types, Directory
        <4> DEFINE x == [[generation[g] EXCEPT !.saved = TRUE]
                     EXCEPT !.observed = generation[g].observed \/ Kind(c) = "rediscover"]
        <4>3. /\ x \in Directory /\ x.imported = generation[g].imported
              /\ x.saved = generation[g].saved /\ x.observed = generation[g].observed
          BY <3>1, <4>1 DEF Directory
        <4> HIDE DEF x
        <4>4. x = generation[g]
          BY <3>1, <4>3, SameDirectory
        <4> QED
          BY <1>23, <2>1, <3>2, <4>2, <4>4 DEF x, GhidraExport, Frame
      <3>4. CASE ~Recorded(g)
        <4>1. \A d \in Client \ {c} : worker[d].fresh # g
          BY <1>0, <3>1, <3>4, RequestAssumption DEF FreshInv
        <4> QED
          BY <1>23, <2>1, <2>3, <3>2, <3>4, <4>1 DEF GhidraExport, Managed, Frame
      <3> QED
        BY <3>3, <3>4
    <2> QED
      BY <1>23, <2>2, <2>3 DEF GhidraExport
  <1>24. CASE GhidraFail(c)
    BY <1>0, <1>24 DEF GhidraFail, Frame, Types
  <1>25. CASE Crash(c)
    BY <1>0, <1>1, <1>2, <1>25 DEF Crash, Frame
  <1>26. CASE Restart(c)
    BY <1>0, <1>26 DEF Restart, Frame, Types
  <1>27. CASE Abandon(c)
    BY <1>0, <1>2, <1>3, <1>27 DEF Abandon, Frame, Types
  <1> QED
    BY <1>7, <1>8, <1>9, <1>10, <1>11, <1>12, <1>13, <1>14, <1>15, <1>16, <1>17, <1>18,
       <1>19, <1>20, <1>21, <1>22, <1>23, <1>24, <1>25, <1>26, <1>27 DEF Step, Work

\* A step makes no new project of another process its own.
LEMMA StepFresh ==
    ASSUME IInv, NEW c \in Client, Step(c)
    PROVE  /\ worker'[c].fresh \in {None, worker[c].fresh} \/ StageManaged(c)
           /\ \A d \in Client \ {c} : worker[d].fresh # None
                                      => worker'[c].fresh # worker[d].fresh
  <1>0. Types /\ FreshInv(c)
    BY DEF IInv, ClientsInv
  <1>1. ASSUME NEW pc, Goto(c, pc) PROVE worker'[c].fresh = worker[c].fresh
    BY <1>0, <1>1 DEF Goto, Types, Worker
  <1>2. ASSUME worker' = [worker EXCEPT ![c] = Idle] PROVE worker'[c].fresh = None
    BY <1>0, <1>2 DEF Idle, Types
  <1>3. ASSUME NEW r \in Request, Begin(c, r) PROVE worker'[c].fresh = None
    BY <1>0, <1>3 DEF Begin, Types
  <1>4. ASSUME RecordProject(c) PROVE worker'[c].fresh = None
    BY <1>0, <1>4 DEF RecordProject, Types, Worker
  <1>5. CASE ~StageManaged(c)
    <2>1. worker'[c].fresh \in {None, worker[c].fresh}
      <3>1. CASE \E r \in Request : Begin(c, r)
        BY <1>3, <3>1
      <3>2. CASE Work(c)
        BY <1>1, <1>2, <1>4, <1>5, <3>2 DEF Work, LockOutput, LockProject, LockTimeout,
           StageImport, StageRediscover, Exited, Stop, ClearCache, Publish, WriteCache,
           WriteFails, Return, Fail, Answer
      <3>3. CASE GhidraImport(c) \/ GhidraExport(c) \/ GhidraFail(c)
        BY <3>3 DEF GhidraImport, GhidraExport, GhidraFail, disk
      <3>4. CASE Crash(c) \/ Restart(c)
        BY <1>1, <1>2, <3>4 DEF Crash, Restart
      <3>5. CASE Abandon(c)
        BY <1>0, <3>5 DEF Abandon, Types, Worker
      <3> QED
        BY <3>1, <3>2, <3>3, <3>4, <3>5 DEF Step
    <2> QED
      BY <1>0, <1>5, <2>1 DEF FreshInv
  <1>6. CASE StageManaged(c)
    <2>1. CASE Existing(worker[c].digest) # None
      <3>1. worker'[c].fresh = worker[c].fresh
        BY <1>1, <1>6, <2>1 DEF StageManaged
      <3> QED
        BY <1>0, <1>6, <3>1 DEF FreshInv
    <2>2. CASE Existing(worker[c].digest) = None
      <3> DEFINE g == CHOOSE g \in Unused : TRUE
      <3>1. g \in Unused /\ worker' = [worker EXCEPT ![c].pc = "running", ![c].fresh = g]
        BY <1>6, <2>2 DEF StageManaged
      <3> HIDE DEF g
      <3>2. worker'[c].fresh = g /\ generation[g] = None
        BY <1>0, <3>1 DEF Types, Worker, Unused
      <3> QED
        BY <1>6, <3>2 DEF IInv, ClientsInv, FreshInv
    <2> QED
      BY <2>1, <2>2
  <1> QED
    BY <1>5, <1>6

\* A process that records its project is alone in having one of its binary.
LEMMA Recording ==
    ASSUME IInv, NEW c \in Client, At(c, "record")
    PROVE  /\ worker[c].digest \in Binary /\ worker[c].fresh \in Generation
           /\ project[worker[c].digest] = None
           /\ \A d \in Client \ {c} : ~At(d, "crashed") /\ worker[d].fresh # None
                                      => worker[d].digest # worker[c].digest
  <1>1. ASSUME NEW d \in Client, ~At(d, "crashed"), worker[d].fresh # None
        PROVE  projectLock[worker[d].digest] = d
    <2>1. WorkerInv(d) /\ FreshInv(d) /\ worker[d].pc \in Pc
      BY DEF IInv, ClientsInv, Types, Worker
    <2>2. worker[d].pc \in {"running", "record"} /\ Kind(d) = "analyze"
      BY <1>1, <2>1 DEF WorkerInv, FreshInv, At, Pc, Quiet, Publishing, Orphaned
    <2> QED
      BY <2>1, <2>2 DEF WorkerInv, Publishing
  <1>2. WorkerInv(c) /\ FreshInv(c) /\ Types
    BY DEF IInv, ClientsInv
  <1>3. worker[c].fresh # None /\ ~At(c, "crashed") /\ ~At(c, "idle")
    BY <1>2 DEF WorkerInv, At
  <1>4. worker[c].fresh \in Generation
    BY <1>2, <1>3 DEF Types, Worker
  <1> QED
    BY <1>1, <1>2, <1>3, <1>4 DEF WorkerInv, FreshInv

\* What is recorded stays recorded.
LEMMA RecordedStays ==
    ASSUME IInv, NEW c \in Client, Frame(c)
    PROVE  /\ \A b \in Binary : project[b] # None => project'[b] = project[b]
           /\ \A g \in Generation : Recorded(g) => Recorded(g)'
           /\ \A g \in Generation :
                Recorded(g)' => Recorded(g) \/ (At(c, "record") /\ g = worker[c].fresh)
  <1>1. Types
    BY DEF IInv
  <1>2. CASE project' = project
    BY <1>2 DEF Recorded
  <1>3. CASE At(c, "record") /\ project' = [project EXCEPT ![worker[c].digest] = worker[c].fresh]
    <2>1. \A b \in Binary : project'[b] = IF b = worker[c].digest THEN worker[c].fresh
                                          ELSE project[b]
      BY <1>1, <1>3, Recording DEF Types
    <2>2. \A b \in Binary : project[b] # None => project'[b] = project[b]
      BY <1>3, <2>1, Recording
    <2> QED
      BY <1>3, <2>1, <2>2, NothingIsNone DEF Recorded
  <1> QED
    BY <1>2, <1>3 DEF Frame

\* The processes that a step does not move keep the invariant.
LEMMA OthersKeep ==
    ASSUME IInv, NEW c \in Client, Step(c), NEW d \in Client \ {c}
    PROVE  WorkerInv(d)' /\ PlaceInv(d)' /\ FreshInv(d)'
  <1>0. /\ Types /\ WorkerInv(d) /\ PlaceInv(d) /\ FreshInv(d)
        /\ d \in Client /\ d # c /\ d # None
    BY NothingIsNone DEF IInv, ClientsInv
  <1>1. Frame(c)
    BY StepFrame
  <1>2. worker'[d] = worker[d] /\ ghidra'[d] = ghidra[d] /\ answer'[d] = answer[d]
    BY <1>0, <1>1 DEF Frame
  <1>3. /\ Kind(d)' = Kind(d) /\ \A pc : At(d, pc)' <=> At(d, pc)
        /\ Requested(d, worker[d].digest)' = Requested(d, worker[d].digest)
        /\ Requested(d, ghidra[d].snapshot.binary)' = Requested(d, ghidra[d].snapshot.binary)
    BY <1>2 DEF Kind, At, Requested, Origin
  <1>4. worker[d].fresh # None => /\ worker[d].fresh \in Generation
                                  /\ generation'[worker[d].fresh] = generation[worker[d].fresh]
    BY <1>0, <1>1 DEF Frame, Types, Worker
  <1>5. \A b \in Binary : projectLock[b] = d => projectLock'[b] = d
    BY <1>0, <1>1 DEF Frame
  <1>6. WorkerInv(d)'
    <2>1. /\ worker[d].pc \in {"stage", "running"} \cup Publishing
          /\ Kind(d) # "import"
          => projectLock'[worker[d].digest] = d
      BY <1>0, <1>5 DEF WorkerInv, At, Publishing
    <2> QED
      BY <1>0, <1>2, <1>3, <1>4, <2>1, ZenonT(40) DEF WorkerInv, At, Kind, Requested, Origin
  <1>7. PlaceInv(d)'
    <2> SUFFICES ASSUME ghidra[d].state = "on" PROVE PlaceInv(d)'
      BY <1>2 DEF PlaceInv
    <2>1. ASSUME ghidra[d].place \in Generation, generation'[ghidra[d].place] # None
          PROVE  /\ generation'[ghidra[d].place] = generation[ghidra[d].place]
                 /\ ghidra[d].place = worker[d].fresh \/ Recorded(ghidra[d].place)'
      <3>1. generation[ghidra[d].place] # None
        BY <1>0, <1>1, <2>1 DEF Frame
      <3> QED
        BY <1>0, <1>1, <2>1, <3>1, RecordedStays DEF PlaceInv, Frame
    <2>2. ASSUME ghidra[d].place \in Generation, At(d, "running"),
                 ghidra[d].place = project[worker[d].digest]
          PROVE  ghidra[d].place = project'[worker[d].digest]
      BY <1>0, <1>1, <2>2, RecordedStays, NothingIsNone DEF WorkerInv, At
    <2> QED
      BY <1>0, <1>2, <1>3, <2>1, <2>2 DEF PlaceInv, At, Kind
  <1>8. FreshInv(d)'
    <2> SUFFICES ASSUME worker[d].fresh # None PROVE FreshInv(d)'
      BY <1>2 DEF FreshInv
    <2>1. ~Recorded(worker[d].fresh)'
      <3>1. worker[c].fresh # worker[d].fresh /\ ~Recorded(worker[d].fresh)
        BY <1>0 DEF FreshInv
      <3>2. \A g \in Generation : g = worker[d].fresh => ~Recorded(g)'
        BY <1>1, <3>1, RecordedStays
      <3> QED
        BY <1>2, <1>4, <3>2 DEF Recorded
    <2>2. \A e \in Client \ {d} : worker'[e].fresh # worker[d].fresh
      <3>1. worker'[c].fresh # worker[d].fresh
        BY <1>0, StepFresh
      <3>2. \A e \in Client \ {c, d} : worker'[e].fresh = worker[e].fresh
        BY <1>1 DEF Frame
      <3> QED
        BY <1>0, <3>1, <3>2 DEF FreshInv
    <2>3. ~At(d, "crashed") => project'[worker[d].digest] = None
      <3> SUFFICES ASSUME ~At(d, "crashed") PROVE project'[worker[d].digest] = None
        OBVIOUS
      <3>1. project[worker[d].digest] = None
        BY <1>0 DEF FreshInv
      <3>2. CASE project' = project
        BY <3>1, <3>2
      <3>3. CASE /\ At(c, "record")
                 /\ project' = [project EXCEPT ![worker[c].digest] = worker[c].fresh]
        BY <1>0, <3>1, <3>3, Recording DEF Types
      <3> QED
        BY <1>1, <3>2, <3>3 DEF Frame
    <2> QED
      BY <1>0, <1>2, <1>3, <1>4, <2>1, <2>2, <2>3 DEF FreshInv, At, Kind, Recorded
  <1> QED
    BY <1>6, <1>7, <1>8

\* Recorded projects stay whole.
LEMMA NextWhole ==
    ASSUME IInv, NEW c \in Client, Step(c)
    PROVE  RecordedProjectsAreWhole'
  <1>1. Frame(c) /\ Types
    BY StepFrame DEF IInv
  <1>2. ASSUME NEW b \in Binary, project[b] # None
        PROVE  /\ project'[b] = project[b]
               /\ generation'[project[b]] =
                     [imported |-> b, saved |-> TRUE, observed |-> FALSE]
    <2>1. project[b] \in Generation /\ Recorded(project[b])
      BY <1>1, <1>2 DEF Types, Recorded
    <2> QED
      BY <1>1, <1>2, <2>1, RecordedStays DEF Frame, IInv, RecordedProjectsAreWhole
  <1>3. CASE project' = project
    BY <1>2, <1>3 DEF RecordedProjectsAreWhole
  <1>4. CASE /\ At(c, "record")
             /\ project' = [project EXCEPT ![worker[c].digest] = worker[c].fresh]
    <2> DEFINE g == worker[c].fresh
               b == worker[c].digest
    <2>1. /\ b \in Binary /\ g \in Generation /\ project[b] = None /\ project'[b] = g
          /\ \A a \in Binary \ {b} : project'[a] = project[a]
      BY <1>1, <1>4, Recording DEF Types
    <2>2. WorkerInv(c) /\ FreshInv(c) /\ g # None
      BY <2>1, NothingIsNone DEF IInv, ClientsInv
    <2>3. ghidra[c].snapshot.binary = b /\ ghidra[c].state = "done"
      BY <1>4, <2>2 DEF WorkerInv, At, Publishing, Requested
    <2>4. /\ generation[g] \in Directory /\ generation[g].imported = b
          /\ generation[g].saved = TRUE /\ generation[g].observed = FALSE
      BY <1>1, <1>4, <2>1, <2>2, <2>3 DEF WorkerInv, FreshInv, Types, Directory
    <2>5. [imported |-> b, saved |-> TRUE, observed |-> FALSE] \in Directory
      BY <2>1 DEF Directory
    <2> HIDE DEF g, b
    <2>6. generation[g] = [imported |-> b, saved |-> TRUE, observed |-> FALSE]
      BY <2>4, <2>5, SameDirectory
    <2>7. generation' = generation
      <3>1. project' # project
        BY <2>1, <2>2 DEF g
      <3>2. RecordProject(c)
        <4>1. ASSUME UNCHANGED project PROVE FALSE
          BY <3>1, <4>1
        <4> QED
          BY <4>1 DEF Step, Work, Begin, LockOutput, LockProject, LockTimeout, StageManaged,
             StageImport, StageRediscover, Exited, Stop, ClearCache, Publish, WriteCache,
             WriteFails, Return, GhidraImport, GhidraExport, GhidraFail, Abandon, Crash,
             Restart, disk
      <3> QED
        BY <3>2 DEF RecordProject
    <2> QED
      BY <1>2, <2>1, <2>6, <2>7 DEF RecordedProjectsAreWhole
  <1> QED
    BY <1>1, <1>3, <1>4 DEF Frame

-----------------------------------------------------------------------------
(* What a step leaves to its own process *)

\* A call that goes on keeps its request, digest and project.
LEMMA GotoFields ==
    ASSUME Types, NEW c \in Client, NEW pc, Goto(c, pc)
    PROVE  /\ worker'[c].pc = pc /\ worker'[c].request = worker[c].request
           /\ worker'[c].digest = worker[c].digest /\ worker'[c].fresh = worker[c].fresh
  BY DEF Goto, Types, Worker

\* What is said of a call depends on its request.
LEMMA SameCall ==
    ASSUME NEW c \in Client, worker'[c].request = worker[c].request
    PROVE  /\ Kind(c)' = Kind(c)
           /\ \A b : Requested(c, b)' = Requested(c, b)
  BY DEF Kind, Requested, Origin

\* A process without Ghidra, before or after its call.
LEMMA WithoutGhidra ==
    ASSUME NEW c \in Client, worker'[c].pc \in {"idle", "output", "project"},
           worker'[c].pc # "idle" => worker'[c].request \in Request
                                     /\ worker'[c].digest \in Binary,
           worker'[c].fresh = None, ghidra'[c] = Off
    PROVE  WorkerInv(c)' /\ PlaceInv(c)' /\ FreshInv(c)'
  BY DEF WorkerInv, PlaceInv, FreshInv, At, Quiet, Publishing, Off

\* A process that has its answer.
LEMMA WithAnswer ==
    ASSUME Types, NEW c \in Client, worker[c].request \in Request,
           worker[c].digest \in Binary, worker[c].fresh = None,
           Answer(c, Requested(c, worker[c].digest)), ghidra'[c] = Off
    PROVE  WorkerInv(c)' /\ PlaceInv(c)' /\ FreshInv(c)'
  <1>1. Goto(c, "answered") /\ answer'[c] = Requested(c, worker[c].digest)
    BY DEF Answer, Types
  <1>2. /\ worker'[c].pc = "answered" /\ worker'[c].request = worker[c].request
        /\ worker'[c].digest = worker[c].digest /\ worker'[c].fresh = None
    BY <1>1, GotoFields
  <1>3. answer'[c] = Requested(c, worker[c].digest)'
    BY <1>1, <1>2 DEF Requested, Origin, Kind
  <1> QED
    BY <1>2, <1>3 DEF WorkerInv, PlaceInv, FreshInv, At, Quiet, Publishing, Off

\* A new project stays new while its worker goes on.
LEMMA FreshKept ==
    ASSUME IInv, NEW c \in Client, Step(c),
           worker'[c].request = worker[c].request, worker'[c].digest = worker[c].digest,
           worker'[c].fresh = worker[c].fresh, project' = project,
           At(c, "crashed") => At(c, "crashed")',
           worker[c].fresh # None =>
               /\ generation'[worker[c].fresh] # None
               /\ ~generation'[worker[c].fresh].observed
               /\ ghidra'[c].state = "done" =>
                    generation'[worker[c].fresh].imported = ghidra'[c].snapshot.binary
    PROVE  FreshInv(c)'
  <1> SUFFICES ASSUME worker[c].fresh # None PROVE FreshInv(c)'
    BY DEF FreshInv
  <1>1. FreshInv(c)
    BY DEF IInv, ClientsInv
  <1>2. \A d \in Client \ {c} : worker'[d].fresh = worker[d].fresh
    BY StepFrame DEF Frame
  <1>3. Kind(c)' = Kind(c)
    BY SameCall
  <1> QED
    BY <1>1, <1>2, <1>3 DEF FreshInv, Recorded, At

\* The process that moves keeps the invariant.
LEMMA MoverKeeps ==
    ASSUME IInv, NEW c \in Client, Step(c)
    PROVE  WorkerInv(c)' /\ PlaceInv(c)' /\ FreshInv(c)'
  <1> DEFINE Kept == WorkerInv(c)' /\ PlaceInv(c)' /\ FreshInv(c)'
  <1>0. /\ WorkerInv(c) /\ PlaceInv(c) /\ FreshInv(c) /\ Types
        /\ worker[c] \in Worker /\ ghidra[c] \in Child
    BY DEF IInv, ClientsInv, Types
  <1>a. ASSUME worker' = [worker EXCEPT ![c] = Idle]
        PROVE  worker'[c].pc = "idle" /\ worker'[c].fresh = None
    BY <1>0, <1>a DEF Idle, Types
  <1>b. ASSUME ghidra' = [ghidra EXCEPT ![c] = Off] PROVE ghidra'[c] = Off
    BY <1>0, <1>b DEF Types
  <1>c. ASSUME worker' = [worker EXCEPT ![c] = Idle],
               ghidra' = [ghidra EXCEPT ![c] = Off] \/ (ghidra' = ghidra /\ ghidra[c] = Off)
        PROVE  Kept
    BY <1>a, <1>b, <1>c, WithoutGhidra
  <1>d. ASSUME NEW place, NEW b, Start(c, place, b)
        PROVE  /\ ghidra'[c].state = "on" /\ ghidra'[c].place = place
               /\ ghidra'[c].imported = b
    BY <1>0, <1>d DEF Start, Types
  <1>e. worker[c].fresh # None => worker[c].fresh \in Generation
    BY <1>0 DEF Worker
  <1>1. ASSUME NEW r \in Request, Begin(c, r) PROVE Kept
    <2>1. /\ worker'[c].pc \in {"output", "project"} /\ worker'[c].request = r
          /\ worker'[c].digest = file /\ worker'[c].fresh = None
      BY <1>0, <1>1 DEF Begin, Types
    <2>2. ghidra'[c] = Off /\ file \in Binary
      BY <1>0, <1>1 DEF Begin, WorkerInv, At, Quiet, Types
    <2> QED
      BY <2>1, <2>2, WithoutGhidra
  <1>2. CASE LockOutput(c)
    <2>1. /\ ghidra[c] = Off /\ worker[c].fresh = None /\ worker[c].request \in Request
          /\ worker[c].digest \in Binary /\ ghidra' = ghidra
      BY <1>0, <1>2 DEF LockOutput, WorkerInv, At, Quiet
    <2>2. CASE Kind(c) = "analyze" /\ Cached(c) /\ Answer(c, output[Path(c)])
      <3>1. Path(c) \in Output
        BY <2>1, <2>2, RequestedType DEF IInv
      <3>2. /\ record[Path(c)] # None /\ record[Path(c)].key = Key(c)
            /\ output[Path(c)] = record[Path(c)].sha
        BY <2>2 DEF Cached
      <3>3. output[Path(c)] = [binary |-> worker[c].digest,
               function |-> IF worker[c].request.function = None THEN Entry
                            ELSE worker[c].request.function,
               origin |-> "static"]
        BY <3>1, <3>2 DEF IInv, CacheInv, Key
      <3>4. output[Path(c)] = Requested(c, worker[c].digest)
        BY <2>2, <3>3 DEF Requested, Origin
      <3> QED
        BY <1>0, <2>1, <2>2, <3>4, WithAnswer
    <2>3. CASE Goto(c, "project")
      BY <1>0, <2>1, <2>3, GotoFields, WithoutGhidra
    <2>4. CASE Kind(c) = "import" /\ Goto(c, "stage")
      <3>1. /\ worker'[c].pc = "stage" /\ worker'[c].request = worker[c].request
            /\ worker'[c].digest = worker[c].digest /\ worker'[c].fresh = None
            /\ Kind(c)' = "import"
        BY <1>0, <2>1, <2>4, GotoFields, SameCall
      <3> QED
        BY <2>1, <3>1 DEF WorkerInv, PlaceInv, FreshInv, At, Quiet, Publishing, Off
    <2> QED
      BY <1>2, <2>2, <2>3, <2>4 DEF LockOutput
  <1>3. CASE LockProject(c)
    <2>1. /\ ghidra[c] = Off /\ worker[c].fresh = None /\ worker[c].request \in Request
          /\ worker[c].digest \in Binary /\ ghidra' = ghidra
      BY <1>0, <1>3 DEF LockProject, WorkerInv, At, Quiet
    <2>2. /\ worker'[c].pc = "stage" /\ worker'[c].request = worker[c].request
          /\ worker'[c].digest = worker[c].digest /\ worker'[c].fresh = None
      BY <1>0, <1>3, <2>1, GotoFields DEF LockProject
    <2>3. projectLock'[worker[c].digest] = c
      BY <1>0, <1>3, <2>1 DEF LockProject, Types
    <2> QED
      BY <2>1, <2>2, <2>3 DEF WorkerInv, PlaceInv, FreshInv, At, Quiet, Publishing, Off
  <1>4. CASE LockTimeout(c)
    BY <1>0, <1>4, <1>c DEF LockTimeout, Fail, WorkerInv, At, Quiet
  <1>5. CASE StageManaged(c)
    <2>1. /\ worker[c].fresh = None /\ worker[c].request \in Request /\ Kind(c) = "analyze"
          /\ worker[c].digest \in Binary /\ projectLock' = projectLock /\ project' = project
          /\ projectLock[worker[c].digest] = c
      BY <1>0, <1>5 DEF StageManaged, WorkerInv, At, Quiet, locks
    <2> DEFINE old == Existing(worker[c].digest)
    <2>2. CASE old # None
      <3>1. /\ Goto(c, "running") /\ Start(c, old, generation[old].imported)
            /\ generation' = generation
        BY <1>5, <2>2 DEF StageManaged
      <3>2. old = project[worker[c].digest] /\ Recorded(old)
        BY <2>1, <2>2 DEF Existing, Recorded
      <3>3. /\ worker'[c].pc = "running" /\ worker'[c].request = worker[c].request
            /\ worker'[c].digest = worker[c].digest /\ worker'[c].fresh = None
            /\ Kind(c)' = "analyze"
        BY <1>0, <2>1, <3>1, GotoFields, SameCall
      <3>4. /\ ghidra'[c].state = "on" /\ ghidra'[c].place = old
            /\ ghidra'[c].imported = generation[old].imported
        BY <1>d, <3>1
      <3> HIDE DEF old
      <3>5. WorkerInv(c)'
        BY <2>1, <3>3, <3>4 DEF WorkerInv, At, Quiet, Publishing
      <3>6. PlaceInv(c)'
        BY <2>1, <3>1, <3>2, <3>3, <3>4 DEF PlaceInv, At, Recorded
      <3> QED
        BY <3>3, <3>5, <3>6 DEF FreshInv
    <2>3. CASE old = None
      <3> DEFINE g == CHOOSE g \in Unused : TRUE
      <3>1. /\ g \in Unused
            /\ generation' = [generation EXCEPT ![g] =
                   [imported |-> None, saved |-> FALSE, observed |-> FALSE]]
            /\ Start(c, g, None)
            /\ worker' = [worker EXCEPT ![c].pc = "running", ![c].fresh = g]
        BY <1>5, <2>3 DEF StageManaged
      <3> HIDE DEF g
      <3>2. g \in Generation /\ generation[g] = None
        BY <3>1 DEF Unused
      <3>3. /\ worker'[c].pc = "running" /\ worker'[c].request = worker[c].request
            /\ worker'[c].digest = worker[c].digest /\ worker'[c].fresh = g
        BY <1>0, <3>1 DEF Types, Worker
      <3>4. /\ ghidra'[c].state = "on" /\ ghidra'[c].place = g /\ ghidra'[c].imported = None
        BY <1>d, <3>1
      <3>5. generation'[g] = [imported |-> None, saved |-> FALSE, observed |-> FALSE]
        BY <1>0, <3>1, <3>2 DEF Types
      <3>6. generation'[g] \in Directory /\ generation'[g].imported = None
            /\ ~generation'[g].observed
        BY <3>5 DEF Directory
      <3>7. Kind(c)' = "analyze"
        BY <2>1, <3>3, SameCall
      <3>8. project[worker[c].digest] = None
        <4> SUFFICES ASSUME project[worker[c].digest] # None PROVE FALSE
          OBVIOUS
        <4>1. project[worker[c].digest] \in Generation /\ Recorded(project[worker[c].digest])
          BY <1>0, <2>1 DEF Types, Recorded
        <4>2. /\ generation[project[worker[c].digest]] # None
              /\ generation[project[worker[c].digest]].saved
          BY <4>1, RecordedIsWhole DEF IInv
        <4> QED
          BY <2>3, <4>2 DEF Existing
      <3>9. WorkerInv(c)'
        BY <2>1, <3>3, <3>4 DEF WorkerInv, At, Quiet, Publishing
      <3>10. PlaceInv(c)'
        BY <3>3, <3>4, <3>6, <3>7 DEF PlaceInv
      <3>11. ~Recorded(g) /\ g # None /\ generation'[g] # None
        BY <3>2, <3>6, RecordedIsWhole, NothingIsNone DEF IInv
      <3>12. \A d \in Client \ {c} : worker'[d].fresh # g
        <4>1. \A d \in Client \ {c} : worker'[d].fresh = worker[d].fresh
          BY StepFrame DEF Frame
        <4> QED
          BY <3>2, <3>11, <4>1 DEF IInv, ClientsInv, FreshInv
      <3> QED
        BY <2>1, <3>3, <3>4, <3>6, <3>7, <3>8, <3>9, <3>10, <3>11, <3>12 DEF FreshInv, Recorded
    <2> QED
      BY <2>2, <2>3
  <1>6. CASE StageImport(c)
    <2>1. /\ worker[c].fresh = None /\ worker[c].request \in Request /\ Kind(c) = "import"
          /\ worker[c].digest \in Binary
      BY <1>0, <1>6 DEF StageImport, WorkerInv, At, Quiet
    <2>2. /\ worker'[c].pc = "running" /\ worker'[c].request = worker[c].request
          /\ worker'[c].digest = worker[c].digest /\ worker'[c].fresh = None
          /\ Kind(c)' = "import"
      BY <1>0, <1>6, <2>1, GotoFields, SameCall DEF StageImport
    <2>3. ghidra'[c].state = "on" /\ ghidra'[c].place = Copy
      BY <1>d, <1>6 DEF StageImport
    <2> QED
      BY <2>1, <2>2, <2>3, NothingIsNone DEF WorkerInv, PlaceInv, FreshInv, At, Quiet, Publishing
  <1>7. CASE StageRediscover(c)
    <2>1. /\ worker[c].fresh = None /\ worker[c].request \in Request
          /\ worker[c].digest \in Binary /\ Kind(c) = "rediscover" /\ ghidra[c] = Off
          /\ projectLock[worker[c].digest] = c
      BY <1>0, <1>7 DEF StageRediscover, WorkerInv, At, Quiet
    <2>2. CASE Fail(c) /\ ghidra' = ghidra
      BY <1>c, <2>1, <2>2 DEF Fail
    <2>3. CASE /\ Goto(c, "running") /\ UNCHANGED locks
               /\ \E b : Start(c, Copy, b)
      <3>1. /\ worker'[c].pc = "running" /\ worker'[c].request = worker[c].request
            /\ worker'[c].digest = worker[c].digest /\ worker'[c].fresh = None
        BY <1>0, <2>1, <2>3, GotoFields
      <3>2. ghidra'[c].state = "on" /\ ghidra'[c].place = Copy
        BY <1>d, <2>3
      <3> QED
        BY <2>1, <2>3, <3>1, <3>2, NothingIsNone
           DEF WorkerInv, PlaceInv, FreshInv, At, Quiet, Publishing, locks
    <2> QED
      BY <1>7, <2>2, <2>3 DEF StageRediscover, RediscoveryPlace
  <1>8. CASE Exited(c)
    <2>1. worker[c].request \in Request /\ worker[c].digest \in Binary /\ project' = project
      BY <1>0, <1>8 DEF Exited, WorkerInv, At
    <2>2. CASE ~Accepted(c)
      BY <1>8, <1>c, <2>2 DEF Exited, Fail
    <2>3. ASSUME Accepted(c)
          PROVE  /\ ghidra[c].state = "done"
                 /\ ghidra[c].snapshot = Requested(c, worker[c].digest)
                 /\ worker[c].fresh # None => generation[worker[c].fresh].saved
      BY <1>0, <2>3 DEF Accepted, Valid, WorkerInv
    <2>4. CASE Accepted(c) /\ Kind(c) = "rediscover"
      <3>1. worker[c].fresh = None
        BY <1>0, <2>4 DEF FreshInv
      <3> QED
        BY <1>0, <1>8, <1>b, <2>1, <2>3, <2>4, <3>1, WithAnswer DEF Exited
    <2>5. CASE Accepted(c) /\ Kind(c) # "rediscover"
      <3> DEFINE pc == CASE Kind(c) = "import" -> "clear"
                       [] worker[c].fresh # None -> "record"
                       [] OTHER -> "publish"
      <3>1. /\ Goto(c, pc)
            /\ UNCHANGED <<ghidra, projectLock, generation>>
        BY <1>8, <2>5 DEF Exited, locks
      <3>2. Kind(c) = "import" => worker[c].fresh = None
        BY <1>0 DEF FreshInv
      <3>3. /\ pc \in {"clear", "record", "publish"}
            /\ pc = "record" <=> worker[c].fresh # None
        BY <3>2
      <3> HIDE DEF pc
      <3>4. /\ worker'[c].pc = pc /\ worker'[c].request = worker[c].request
            /\ worker'[c].digest = worker[c].digest /\ worker'[c].fresh = worker[c].fresh
        BY <1>0, <3>1, GotoFields
      <3>5. Kind(c) # "import" => projectLock[worker[c].digest] = c
        BY <1>0, <1>8 DEF Exited, WorkerInv, At
      <3>6. /\ Kind(c)' = Kind(c)
            /\ Requested(c, worker[c].digest)' = Requested(c, worker[c].digest)
            /\ Requested(c, ghidra[c].snapshot.binary)' = Requested(c, ghidra[c].snapshot.binary)
        BY <3>1, <3>4 DEF Kind, Requested, Origin
      <3>7. WorkerInv(c)'
        BY <1>0, <2>1, <2>3, <2>5, <3>1, <3>3, <3>4, <3>5, <3>6
           DEF WorkerInv, At, Quiet, Publishing
      <3>8. PlaceInv(c)'
        BY <2>3, <2>5, <3>1 DEF PlaceInv
      <3>9. FreshInv(c)'
        BY <1>0, <1>8, <2>1, <3>1, <3>4, FreshKept DEF Exited, At, FreshInv
      <3> QED
        BY <3>7, <3>8, <3>9
    <2> QED
      BY <2>2, <2>4, <2>5
  <1>9. CASE Stop(c)
    BY <1>9, <1>c DEF Stop, Stopped, Fail
  <1>10. CASE RecordProject(c)
    <2>1. /\ worker'[c].pc = "publish" /\ worker'[c].request = worker[c].request
          /\ worker'[c].digest = worker[c].digest /\ worker'[c].fresh = None
      BY <1>0, <1>10 DEF RecordProject, Types, Worker
    <2>2. UNCHANGED <<ghidra, projectLock>> /\ At(c, "record")
      BY <1>10 DEF RecordProject, locks
    <2>3. /\ Kind(c)' = Kind(c)
          /\ Requested(c, worker[c].digest)' = Requested(c, worker[c].digest)
          /\ Requested(c, ghidra[c].snapshot.binary)' = Requested(c, ghidra[c].snapshot.binary)
      BY <2>1, <2>2 DEF Kind, Requested, Origin
    <2> QED
      BY <1>0, <2>1, <2>2, <2>3 DEF WorkerInv, PlaceInv, FreshInv, At, Quiet, Publishing
  <1>11. CASE ClearCache(c)
    <2>1. /\ worker'[c].pc = "publish" /\ worker'[c].request = worker[c].request
          /\ worker'[c].digest = worker[c].digest /\ worker'[c].fresh = worker[c].fresh
      BY <1>0, <1>11, GotoFields DEF ClearCache
    <2>2. UNCHANGED <<ghidra, projectLock>> /\ At(c, "clear")
      BY <1>11 DEF ClearCache, locks
    <2>3. /\ Kind(c)' = Kind(c)
          /\ Requested(c, worker[c].digest)' = Requested(c, worker[c].digest)
          /\ Requested(c, ghidra[c].snapshot.binary)' = Requested(c, ghidra[c].snapshot.binary)
      BY <2>1, <2>2 DEF Kind, Requested, Origin
    <2> QED
      BY <1>0, <2>1, <2>2, <2>3 DEF WorkerInv, PlaceInv, FreshInv, At, Quiet, Publishing
  <1>12. CASE Publish(c)
    <2>1. /\ worker[c].request \in Request /\ worker[c].digest \in Binary
          /\ worker[c].fresh = None
          /\ ghidra[c].snapshot = Requested(c, worker[c].digest)
      BY <1>0, <1>12 DEF Publish, WorkerInv, At, Publishing
    <2>2. CASE Kind(c) = "import"
      BY <1>0, <1>12, <1>b, <2>1, <2>2, WithAnswer DEF Publish
    <2>3. CASE Kind(c) = "analyze"
      <3>1. /\ worker'[c].pc = "sidecar" /\ worker'[c].request = worker[c].request
            /\ worker'[c].digest = worker[c].digest /\ worker'[c].fresh = worker[c].fresh
        BY <1>0, <1>12, <2>3, GotoFields DEF Publish
      <3>2. UNCHANGED <<ghidra, projectLock>> /\ At(c, "publish")
        BY <1>12, <2>3 DEF Publish, locks
      <3>3. /\ Kind(c)' = Kind(c)
            /\ Requested(c, worker[c].digest)' = Requested(c, worker[c].digest)
            /\ Requested(c, ghidra[c].snapshot.binary)'
                  = Requested(c, ghidra[c].snapshot.binary)
        BY <3>1, <3>2 DEF Kind, Requested, Origin
      <3> QED
        BY <1>0, <2>1, <2>3, <3>1, <3>2, <3>3
           DEF WorkerInv, PlaceInv, FreshInv, At, Quiet, Publishing
    <2> QED
      BY <1>12, <2>2, <2>3 DEF Publish
  <1>13. CASE WriteCache(c)
    <2>1. /\ worker[c].request \in Request /\ worker[c].digest \in Binary
          /\ worker[c].fresh = None
          /\ ghidra[c].snapshot = Requested(c, worker[c].digest)
      BY <1>0, <1>13 DEF WriteCache, WorkerInv, At, Publishing
    <2> QED
      BY <1>0, <1>13, <1>b, <2>1, WithAnswer DEF WriteCache
  <1>14. CASE WriteFails(c)
    BY <1>14, <1>c DEF WriteFails
  <1>15. CASE Return(c)
    BY <1>0, <1>15, <1>c DEF Return, WorkerInv, At, Quiet
  <1>16. CASE GhidraImport(c)
    <2>1. /\ ghidra[c].state = "on" /\ ghidra[c].imported = None
          /\ ghidra'[c].state = "on" /\ ghidra'[c].place = ghidra[c].place
          /\ ghidra'[c].imported = file
          /\ UNCHANGED <<worker, project, projectLock, answer>>
      BY <1>0, <1>16 DEF GhidraImport, Types, Child, locks
    <2>2. /\ \A b : Requested(c, b)' = Requested(c, b)
          /\ Kind(c)' = Kind(c) /\ worker[c].pc \in {"running"} \cup Orphaned
      BY <1>0, <2>1 DEF Kind, Requested, Origin, WorkerInv
    <2>3. WorkerInv(c)'
      BY <1>0, <2>1, <2>2 DEF WorkerInv, At, Quiet, Publishing, Orphaned, Kind
    <2>4. ASSUME Managed(c)
          PROVE  /\ generation'[ghidra[c].place].imported = file
                 /\ generation'[ghidra[c].place].observed
                       = generation[ghidra[c].place].observed
                 /\ generation'[ghidra[c].place] \in Directory
      <3>1. /\ ghidra[c].place \in Generation
            /\ generation[ghidra[c].place] \in Directory
            /\ generation' = [generation EXCEPT ![ghidra[c].place].imported = file]
        BY <1>0, <1>16, <2>4 DEF GhidraImport, Managed, Types
      <3> QED
        BY <1>0, <3>1 DEF Types, Directory
    <2>5. ~Managed(c) => generation' = generation
      BY <1>16 DEF GhidraImport
    <2>6. PlaceInv(c)'
      BY <1>0, <2>1, <2>2, <2>4, <2>5 DEF PlaceInv, At, Kind, Recorded, Managed
    <2>7. worker[c].fresh # None => /\ generation'[worker[c].fresh] # None
                                    /\ ~generation'[worker[c].fresh].observed
      BY <1>0, <1>e, <2>1, <2>4, <2>5, NothingIsNone DEF PlaceInv, FreshInv, Managed
    <2>8. FreshInv(c)'
      BY <2>1, <2>7, FreshKept DEF At
    <2> QED
      BY <2>3, <2>6, <2>8
  <1>17. CASE GhidraExport(c)
    <2>1. /\ ghidra[c].state = "on" /\ ghidra[c].imported = file
          /\ UNCHANGED <<worker, project, projectLock, answer>>
          /\ ghidra' = [ghidra EXCEPT ![c] =
                 [Off EXCEPT !.state = "done", !.snapshot = Requested(c, file)]]
      BY <1>17 DEF GhidraExport, locks
    <2>2. ghidra'[c].state = "done" /\ ghidra'[c].snapshot = Requested(c, file)
      BY <1>0, <2>1 DEF Off, Types
    <2>3. Requested(c, file).binary = file
      BY DEF Requested
    <2>4. /\ \A b : Requested(c, b)' = Requested(c, b)
          /\ Kind(c)' = Kind(c) /\ worker[c].pc \in {"running"} \cup Orphaned
      BY <1>0, <2>1 DEF Kind, Requested, Origin, WorkerInv
    <2>5. WorkerInv(c)'
      <3>1. ghidra'[c].snapshot = Requested(c, ghidra'[c].snapshot.binary)
        BY <2>2, <2>3
      <3>2. ghidra'[c].snapshot = Requested(c, ghidra[c].snapshot.binary)'
        BY <2>1, <3>1 DEF Requested, Origin, Kind
      <3> QED
        BY <1>0, <2>1, <2>2, <2>4, <3>2 DEF WorkerInv, At, Quiet, Publishing, Orphaned, Kind
    <2>6. PlaceInv(c)'
      BY <2>2 DEF PlaceInv
    <2>7. ASSUME worker[c].fresh # None
          PROVE  /\ generation'[worker[c].fresh] # None
                 /\ ~generation'[worker[c].fresh].observed
                 /\ generation'[worker[c].fresh].imported = file
      <3> DEFINE g == worker[c].fresh
      <3>1. /\ g \in Generation /\ ghidra[c].place = g /\ generation[g] \in Directory
            /\ generation[g].imported = file /\ ~generation[g].observed
            /\ Kind(c) = "analyze"
        BY <1>0, <1>e, <2>1, <2>7 DEF PlaceInv, FreshInv, Types
      <3>2. CASE generation' = generation
        BY <2>7, <3>1, <3>2, NothingIsNone
      <3>3. CASE generation' = [generation EXCEPT ![ghidra[c].place].saved = TRUE,
                     ![ghidra[c].place].observed = @ \/ Kind(c) = "rediscover"]
        <4>1. generation'[g] = [[generation[g] EXCEPT !.saved = TRUE]
                     EXCEPT !.observed = generation[g].observed \/ Kind(c) = "rediscover"]
          BY <1>0, <3>1, <3>3 DEF Types, Directory
        <4>2. /\ generation'[g] \in Directory /\ ~generation'[g].observed
              /\ generation'[g].imported = file
          BY <3>1, <4>1 DEF Directory
        <4> QED
          BY <4>2, NothingIsNone
      <3> QED
        BY <1>17, <3>2, <3>3 DEF GhidraExport
    <2>8. FreshInv(c)'
      BY <2>1, <2>2, <2>3, <2>7, FreshKept DEF At
    <2> QED
      BY <2>5, <2>6, <2>8
  <1>18. CASE GhidraFail(c)
    <2>1. /\ ghidra[c].state = "on" /\ ghidra'[c].state = "failed"
          /\ UNCHANGED <<worker, project, generation, projectLock, answer>>
      BY <1>0, <1>18 DEF GhidraFail, Off, Types, disk, locks
    <2>2. worker[c].pc \in {"running"} \cup Orphaned /\ Kind(c)' = Kind(c)
      BY <1>0, <2>1 DEF WorkerInv, Kind
    <2>3. FreshInv(c)'
      BY <1>0, <2>1, FreshKept DEF At, FreshInv
    <2> QED
      BY <1>0, <2>1, <2>2, <2>3 DEF WorkerInv, PlaceInv, At, Quiet, Publishing, Orphaned, Kind
  <1>19. CASE Crash(c)
    <2>1. /\ worker'[c].pc = "crashed" /\ worker'[c].request = worker[c].request
          /\ worker'[c].digest = worker[c].digest /\ worker'[c].fresh = worker[c].fresh
      BY <1>0, <1>19, GotoFields DEF Crash
    <2>2. UNCHANGED <<ghidra, project, generation>> /\ worker[c].pc \notin {"idle"} \cup Orphaned
      BY <1>19 DEF Crash, disk, Orphaned
    <2>3. /\ Kind(c)' = Kind(c)
          /\ Requested(c, ghidra[c].snapshot.binary)' = Requested(c, ghidra[c].snapshot.binary)
      BY <2>1, <2>2 DEF Kind, Requested, Origin
    <2>4. FreshInv(c)'
      BY <1>0, <2>1, <2>2, FreshKept DEF At, FreshInv
    <2>5. WorkerInv(c)'
      BY <1>0, <2>1, <2>2, <2>3 DEF WorkerInv, At, Quiet, Publishing, Orphaned
    <2>6. PlaceInv(c)'
      BY <1>0, <2>1, <2>2, <2>3 DEF PlaceInv, At, Recorded
    <2> QED
      BY <2>4, <2>5, <2>6
  <1>20. CASE Restart(c)
    BY <1>20, <1>c DEF Restart
  <1>21. CASE Abandon(c)
    <2>1. /\ worker'[c].pc = "abandoned" /\ worker'[c].request = worker[c].request
          /\ worker'[c].digest = worker[c].digest /\ worker'[c].fresh = None
      BY <1>0, <1>21 DEF Abandon, Types, Worker
    <2>2. /\ UNCHANGED <<ghidra, project>> /\ At(c, "running") /\ Dropped(c)
          /\ \A g \in Generation : generation'[g] # None =>
               generation'[g] = generation[g] /\ g # worker[c].fresh
      BY <1>0, <1>21 DEF Abandon, Dropped, Types
    <2>3. /\ Kind(c)' = Kind(c)
          /\ Requested(c, ghidra[c].snapshot.binary)' = Requested(c, ghidra[c].snapshot.binary)
      BY <2>1, <2>2 DEF Kind, Requested, Origin
    <2>4. FreshInv(c)'
      BY <2>1 DEF FreshInv
    <2>5. WorkerInv(c)'
      BY <1>0, <2>1, <2>2, <2>3 DEF WorkerInv, At, Quiet, Publishing, Orphaned
    <2>6. PlaceInv(c)'
      BY <1>0, <2>1, <2>2, <2>3 DEF PlaceInv, At, Recorded
    <2> QED
      BY <2>4, <2>5, <2>6
  <1> QED
    BY <1>1, <1>2, <1>3, <1>4, <1>5, <1>6, <1>7, <1>8, <1>9, <1>10, <1>11, <1>12, <1>13,
       <1>14, <1>15, <1>16, <1>17, <1>18, <1>19, <1>20, <1>21 DEF Step, Work

-----------------------------------------------------------------------------
(* The cache *)

\* Cache records stay what analyses write.
LEMMA NextCache ==
    ASSUME IInv, NEW c \in Client, Step(c)
    PROVE  CacheInv'
  <1>0. CacheInv /\ WorkerInv(c)
    BY DEF IInv, ClientsInv
  <1>1. CASE ClearCache(c)
    BY <1>0, <1>1 DEF ClearCache, CacheInv
  <1>2. CASE WriteCache(c)
    <2> DEFINE new == [key |-> Key(c), sha |-> ghidra[c].snapshot]
    <2>1. Kind(c) = "analyze" /\ ghidra[c].snapshot = Requested(c, worker[c].digest)
      BY <1>0, <1>2 DEF WriteCache, WorkerInv, At, Publishing
    <2>2. Origin(c) = "static"
      BY <2>1 DEF Origin
    <2>3. new.sha = [binary |-> new.key[1],
                     function |-> IF new.key[2] = None THEN Entry ELSE new.key[2],
                     origin |-> "static"]
      BY <2>1, <2>2 DEF Key, Requested
    <2>4. record' = [record EXCEPT ![Path(c)] = new]
      BY <1>2 DEF WriteCache
    <2> HIDE DEF new
    <2> QED
      BY <1>0, <2>3, <2>4 DEF CacheInv
  <1>3. CASE UNCHANGED record
    BY <1>0, <1>3 DEF CacheInv
  <1> QED
    BY <1>1, <1>2, <1>3 DEF Step, Work, Begin, LockOutput, LockProject, LockTimeout,
       StageManaged, StageImport, StageRediscover, Exited, Stop, RecordProject, Publish,
       WriteFails, Return, GhidraImport, GhidraExport, GhidraFail, Abandon, Crash, Restart,
       disk

-----------------------------------------------------------------------------
(* The lock of an output *)

\* A call that runs Ghidra for an output, or is about to, holds its lock, and
\* analyze has not found the output in the cache.
MissInv(c) ==
    /\ worker[c].pc \in {"project", "stage", "running"} \cup Publishing
       /\ Kind(c) # "rediscover"
       => outputLock[Path(c)] = c
    /\ worker[c].pc \in {"project", "stage", "running"} /\ Kind(c) = "analyze"
       => ~Cached(c)

OutputsInv ==
    /\ outputLock \in [Output -> Client \cup {None}]
    /\ \A c \in Client : MissInv(c)

\* Nobody takes the lock of an output from its holder, or changes the output.
LEMMA OutputFrame ==
    ASSUME IInv, OutputsInv, NEW c \in Client, Step(c)
    PROVE  /\ outputLock' \in [Output -> Client \cup {None}]
           /\ \A o \in Output : outputLock[o] \notin {None, c} =>
                /\ outputLock'[o] = outputLock[o]
                /\ output'[o] = output[o] /\ record'[o] = record[o]
  <1>0. Types /\ CacheInv /\ MissInv(c) /\ WorkerInv(c)
    BY DEF IInv, OutputsInv, ClientsInv
  <1>1. outputLock \in [Output -> Client \cup {None}]
    BY DEF OutputsInv
  <1>2. \/ outputLock' = outputLock
        \/ Released(c)
        \/ OutputFree(Path(c)) /\ outputLock' = [outputLock EXCEPT ![Path(c)] = c]
    BY DEF Step, Work, Begin, LockOutput, LockProject, LockTimeout, StageManaged,
       StageImport, StageRediscover, Exited, Stop, RecordProject, ClearCache, Publish,
       WriteCache, WriteFails, Return, GhidraImport, GhidraExport, GhidraFail, Abandon,
       Crash, Restart, Fail, Answer, locks
  <1>3. /\ outputLock' \in [Output -> Client \cup {None}]
        /\ \A o \in Output : outputLock[o] \notin {None, c} => outputLock'[o] = outputLock[o]
    BY <1>1, <1>2 DEF Released, OutputFree
  <1>4. CASE UNCHANGED <<output, record>>
    BY <1>3, <1>4
  <1>5. CASE ClearCache(c) \/ Publish(c) \/ WriteCache(c)
    <2>1. outputLock[Path(c)] = c
      BY <1>0, <1>5 DEF ClearCache, Publish, WriteCache, MissInv, WorkerInv, At, Publishing
    <2>2. \A o \in Output : o # Path(c) => output'[o] = output[o] /\ record'[o] = record[o]
      BY <1>0, <1>5 DEF ClearCache, Publish, WriteCache, Types, CacheInv
    <2> QED
      BY <1>3, <2>1, <2>2
  <1> QED
    BY <1>4, <1>5 DEF Step, Work, Begin, LockOutput, LockProject, LockTimeout,
       StageManaged, StageImport, StageRediscover, Exited, Stop, RecordProject, WriteFails,
       Return, GhidraImport, GhidraExport, GhidraFail, Abandon, Crash, Restart,
       disk

\* Every step keeps the locks of outputs.
LEMMA NextOutputs ==
    ASSUME IInv, OutputsInv, [Next]_vars
    PROVE  OutputsInv'
  <1>1. CASE UNCHANGED <<disk, worker, locks>>
    BY <1>1 DEF OutputsInv, MissInv, Kind, Path, Cached, Key, Valid, disk, locks
  <1>2. ASSUME NEW c \in Client, Step(c) PROVE OutputsInv'
    <2>1. ASSUME NEW d \in Client \ {c} PROVE MissInv(d)'
      <3>1. worker'[d] = worker[d] /\ MissInv(d) /\ WorkerInv(d) /\ d # None /\ d # c
        BY <1>2, StepFrame, NothingIsNone DEF Frame, OutputsInv, IInv, ClientsInv
      <3>2. CASE worker[d].pc \in {"project", "stage", "running"} \cup Publishing
                 /\ Kind(d) # "rediscover"
        <4>1. Path(d) \in Output /\ outputLock[Path(d)] = d
          BY <3>1, <3>2, RequestedType DEF WorkerInv, MissInv, At, Publishing
        <4>2. /\ outputLock'[Path(d)] = d /\ output'[Path(d)] = output[Path(d)]
              /\ record'[Path(d)] = record[Path(d)]
          BY <1>2, <3>1, <4>1, OutputFrame
        <4>3. Path(d)' = Path(d) /\ Kind(d)' = Kind(d) /\ Key(d)' = Key(d)
          BY <3>1 DEF Path, Kind, Key
        <4>4. Cached(d)' <=> Cached(d)
          BY <3>1, <4>2, <4>3 DEF Cached, Valid
        <4> QED
          BY <3>1, <4>2, <4>3, <4>4 DEF MissInv
      <3>3. CASE ~ (worker[d].pc \in {"project", "stage", "running"} \cup Publishing
                    /\ Kind(d) # "rediscover")
        BY <3>1, <3>3 DEF MissInv, Kind
      <3> QED
        BY <3>2, <3>3
    <2>2. MissInv(c)'
      <3>0. Types /\ WorkerInv(c) /\ MissInv(c)
        BY <1>2 DEF IInv, ClientsInv, OutputsInv
      <3> DEFINE Busy == {"project", "stage", "running"} \cup Publishing
      <3>1. ASSUME worker[c].pc \in Busy, worker'[c].request = worker[c].request,
                   worker'[c].digest = worker[c].digest, UNCHANGED outputLock,
                   worker'[c].pc \notin Publishing =>
                       /\ worker[c].pc \notin Publishing
                       /\ UNCHANGED <<output, record>>
            PROVE  MissInv(c)'
        <4>1. Path(c)' = Path(c) /\ Kind(c)' = Kind(c) /\ Key(c)' = Key(c)
          BY <3>1 DEF Path, Kind, Key
        <4>2. UNCHANGED <<output, record>> => (Cached(c)' <=> Cached(c))
          BY <3>1, <4>1 DEF Cached, Valid
        <4> QED
          BY <3>0, <3>1, <4>1, <4>2 DEF MissInv, Publishing
      <3>2. ASSUME worker'[c].pc \notin Busy PROVE MissInv(c)'
        BY <3>2 DEF MissInv
      <3>3. ASSUME worker' = [worker EXCEPT ![c] = Idle] PROVE MissInv(c)'
        <4>1. worker'[c].pc = "idle"
          BY <3>0, <3>3 DEF Idle, Types
        <4> QED
          BY <3>2, <4>1 DEF Publishing
      <3>4. ASSUME NEW s, Answer(c, s) PROVE MissInv(c)'
        <4>1. worker'[c].pc = "answered"
          BY <3>0, <3>4, GotoFields DEF Answer
        <4> QED
          BY <3>2, <4>1 DEF Publishing
      <3>5. ASSUME NEW pc, Goto(c, pc)
            PROVE  /\ worker'[c].pc = pc /\ worker'[c].request = worker[c].request
                   /\ worker'[c].digest = worker[c].digest
        BY <3>0, <3>5, GotoFields
      <3>6. CASE \E r \in Request : Begin(c, r)
        <4>1. PICK r \in Request : Begin(c, r)
          BY <3>6
        <4>2. /\ worker'[c].request = r
              /\ worker'[c].pc = IF r.kind = "rediscover" THEN "project" ELSE "output"
          BY <3>0, <4>1 DEF Begin, Types
        <4> QED
          BY <3>2, <4>2 DEF MissInv, Kind, Publishing
      <3>7. CASE LockOutput(c)
        <4>1. Path(c) \in Output /\ Kind(c) # "rediscover"
          <5>1. worker[c].request \in Request /\ worker[c].digest \in Binary
            BY <3>0, <3>7 DEF LockOutput, WorkerInv, At
          <5>2. Kind(c) \in {"analyze", "import"}
            BY <3>7 DEF LockOutput
          <5> QED
            BY <5>1, <5>2, RequestedType
        <4>2. CASE Answer(c, output[Path(c)])
          BY <3>4, <4>2
        <4>3. CASE /\ Kind(c) = "analyze" /\ ~Cached(c) /\ Goto(c, "project")
                   /\ outputLock' = [outputLock EXCEPT ![Path(c)] = c]
          <5>1. worker'[c].pc = "project" /\ outputLock'[Path(c)] = c
            BY <3>5, <4>1, <4>3 DEF OutputsInv
          <5>2. Path(c)' = Path(c) /\ Kind(c)' = Kind(c) /\ Key(c)' = Key(c)
            BY <3>5, <4>3 DEF Path, Kind, Key
          <5>3. Cached(c)' <=> Cached(c)
            BY <3>5, <3>7, <4>3, <5>2 DEF LockOutput, Cached, Valid, disk
          <5> QED
            BY <4>3, <5>1, <5>2, <5>3 DEF MissInv
        <4>4. CASE /\ Kind(c) = "import" /\ Goto(c, "stage")
                   /\ outputLock' = [outputLock EXCEPT ![Path(c)] = c]
          <5>1. worker'[c].pc = "stage" /\ outputLock'[Path(c)] = c
            BY <3>5, <4>1, <4>4 DEF OutputsInv
          <5>2. Path(c)' = Path(c) /\ Kind(c)' = Kind(c)
            BY <3>5, <4>4 DEF Path, Kind
          <5> QED
            BY <4>4, <5>1, <5>2 DEF MissInv
        <4> QED
          BY <3>7, <4>2, <4>3, <4>4 DEF LockOutput
      <3>8. CASE LockProject(c)
        BY <3>1, <3>5, <3>8 DEF LockProject, At, disk, Publishing
      <3>9. CASE StageManaged(c)
        <4>1. /\ worker'[c].request = worker[c].request /\ worker'[c].pc = "running"
              /\ worker'[c].digest = worker[c].digest
          <5>1. CASE Existing(worker[c].digest) # None
            BY <3>5, <3>9, <5>1 DEF StageManaged
          <5>2. CASE Existing(worker[c].digest) = None
            BY <3>0, <3>9, <5>2 DEF StageManaged, Types, Worker
          <5> QED
            BY <5>1, <5>2
        <4> QED
          BY <3>1, <3>9, <4>1 DEF StageManaged, At, locks, Publishing
      <3>10. CASE StageImport(c)
        BY <3>1, <3>5, <3>10 DEF StageImport, At, disk, locks, Publishing
      <3>11. CASE StageRediscover(c)
        BY <3>1, <3>3, <3>5, <3>11 DEF StageRediscover, Fail, At, locks, Publishing
      <3>12. CASE Exited(c)
        <4>1. ASSUME NEW pc \in {"clear", "record", "publish"}, Goto(c, pc), UNCHANGED locks
              PROVE  MissInv(c)'
          BY <3>1, <3>5, <3>12, <4>1 DEF Exited, At, locks, Publishing
        <4> QED
          BY <3>3, <3>4, <3>12, <4>1 DEF Exited, Fail
      <3>13. CASE RecordProject(c)
        <4>1. /\ worker'[c].request = worker[c].request /\ worker'[c].pc = "publish"
              /\ worker'[c].digest = worker[c].digest
          BY <3>0, <3>13 DEF RecordProject, Types, Worker
        <4> QED
          BY <3>1, <3>13, <4>1 DEF RecordProject, At, locks, Publishing
      <3>14. CASE ClearCache(c)
        BY <3>1, <3>5, <3>14 DEF ClearCache, At, locks, Publishing
      <3>15. CASE Publish(c)
        BY <3>1, <3>4, <3>5, <3>15 DEF Publish, At, locks, Publishing
      <3>16. CASE WriteCache(c)
        BY <3>4, <3>16 DEF WriteCache
      <3>17. CASE LockTimeout(c) \/ Stop(c) \/ WriteFails(c) \/ Return(c) \/ Restart(c)
        BY <3>3, <3>17 DEF LockTimeout, Stop, WriteFails, Return, Restart, Fail
      <3>18. CASE GhidraImport(c) \/ GhidraExport(c) \/ GhidraFail(c)
        BY <3>0, <3>18 DEF GhidraImport, GhidraExport, GhidraFail, MissInv, Kind, Path,
           Cached, Key, Valid, disk, locks
      <3>19. CASE Crash(c)
        BY <3>2, <3>5, <3>19 DEF Crash, Publishing
      <3>20. CASE Abandon(c)
        <4>1. worker'[c].pc = "abandoned"
          BY <3>0, <3>20 DEF Abandon, Types, Worker
        <4> QED
          BY <3>2, <4>1 DEF Publishing
      <3> QED
        BY <1>2, <3>6, <3>7, <3>8, <3>9, <3>10, <3>11, <3>12, <3>13, <3>14, <3>15, <3>16,
           <3>17, <3>18, <3>19, <3>20 DEF Step, Work
    <2> QED
      BY <1>2, <2>1, <2>2, OutputFrame DEF OutputsInv
  <1> QED
    BY <1>1, <1>2 DEF Next, Step, Rebuild, vars, disk, locks

-----------------------------------------------------------------------------
(* Theorems *)

\* Before anything was analyzed.
LEMMA InitInv == Init => IInv
  <1> SUFFICES ASSUME Init PROVE IInv
    OBVIOUS
  <1>1. Types
    BY Records, RequestAssumption DEF Init, Types
  <1>2. CacheInv /\ RecordedProjectsAreWhole
    BY DEF Init, CacheInv, RecordedProjectsAreWhole
  <1>3. ClientsInv
    BY DEF Init, ClientsInv, WorkerInv, PlaceInv, FreshInv, At, Idle, Off, Quiet, Publishing
  <1> QED
    BY <1>1, <1>2, <1>3 DEF IInv

\* Every step keeps the invariant.
LEMMA NextInv == IInv /\ [Next]_vars => IInv'
  <1> SUFFICES ASSUME IInv, [Next]_vars PROVE IInv'
    OBVIOUS
  <1>1. Types'
    BY NextTypes
  <1>2. CASE UNCHANGED <<disk, worker, ghidra, locks, answer>>
    <2>1. CacheInv' /\ RecordedProjectsAreWhole'
      BY <1>2 DEF IInv, CacheInv, RecordedProjectsAreWhole, disk
    <2>2. ASSUME NEW c \in Client PROVE WorkerInv(c)' /\ PlaceInv(c)' /\ FreshInv(c)'
      <3>1. WorkerInv(c) /\ PlaceInv(c) /\ FreshInv(c)
        BY DEF IInv, ClientsInv
      <3>2. WorkerInv(c)'
        BY <1>2, <3>1 DEF WorkerInv, At, Kind, Requested, Origin, disk, locks
      <3>3. PlaceInv(c)' /\ FreshInv(c)'
        BY <1>2, <3>1 DEF PlaceInv, FreshInv, Recorded, At, Kind, disk
      <3> QED
        BY <3>2, <3>3
    <2> QED
      BY <1>1, <2>1, <2>2 DEF IInv, ClientsInv
  <1>3. ASSUME NEW c \in Client, Step(c) PROVE IInv'
    <2>1. CacheInv' /\ RecordedProjectsAreWhole'
      BY <1>3, NextCache, NextWhole
    <2>2. \A d \in Client : WorkerInv(d)' /\ PlaceInv(d)' /\ FreshInv(d)'
      BY <1>3, MoverKeeps, OthersKeep
    <2> QED
      BY <1>1, <2>1, <2>2 DEF IInv, ClientsInv
  <1>4. CASE Rebuild
    <2>1. UNCHANGED <<disk, worker, ghidra, locks, answer>>
      BY <1>4 DEF Rebuild
    <2> QED
      BY <1>2, <2>1
  <1>5. CASE UNCHANGED vars
    <2>1. UNCHANGED <<disk, worker, ghidra, locks, answer>>
      BY <1>5 DEF vars, disk, locks
    <2> QED
      BY <1>2, <2>1
  <1> QED
    BY <1>3, <1>4, <1>5 DEF Next, Step

\* The invariant the other theorems follow from.
THEOREM Invariant == Spec => []IInv
  BY InitInv, NextInv, PTL DEF Spec

\* A project that is recorded holds its binary, was saved and holds nothing that
\* was observed, whatever crashed, failed or was rebuilt between the steps.
THEOREM WholeProjects == Spec => []RecordedProjectsAreWhole
  BY Invariant, PTL DEF IInv

\* A call returns what it asked for, from Ghidra or from the cache.
THEOREM Answers == Spec => []AnswersMatchRequests
  <1>1. IInv => AnswersMatchRequests
    BY DEF IInv, ClientsInv, WorkerInv, AnswersMatchRequests
  <1> QED
    BY <1>1, Invariant, PTL

\* The lock of a managed project keeps the Ghidras of two workers out of it, and no
\* worker opens the new project of another, until the worker of one crashes or
\* gives its Ghidra up without stopping it.
THEOREM Alone == Spec => []GhidraIsAloneInItsProject
  <1>1. ASSUME IInv, NEW c \in Client, NEW d \in Client, c # d,
               ghidra[c].state = "on", ghidra[d].state = "on",
               ghidra[c].place = ghidra[d].place, ghidra[c].place \in Generation,
               worker[c].pc \notin Orphaned, worker[d].pc \notin Orphaned
        PROVE  FALSE
    <2> DEFINE Held(e) == /\ worker[e].digest \in Binary
                          /\ projectLock[worker[e].digest] = e
                          /\ \/ ghidra[e].place = worker[e].fresh
                             \/ ghidra[e].place = project[worker[e].digest]
                          /\ worker[e].fresh # None => ghidra[e].place = worker[e].fresh
    <2>1. ASSUME NEW e \in Client, ghidra[e].state = "on", worker[e].pc \notin Orphaned,
                 ghidra[e].place \in Generation
          PROVE  Held(e)
      <3>1. WorkerInv(e) /\ PlaceInv(e)
        BY <1>1, <2>1 DEF IInv, ClientsInv
      <3>2. At(e, "running") /\ Kind(e) = "analyze"
        BY <2>1, <3>1 DEF WorkerInv, PlaceInv, At
      <3> QED
        BY <2>1, <3>1, <3>2 DEF WorkerInv, PlaceInv, At
    <2>2. Held(c) /\ Held(d)
      BY <1>1, <2>1
    <2>3. CASE worker[c].fresh # None \/ worker[d].fresh # None
      <3>1. FreshInv(c) /\ FreshInv(d)
        BY <1>1 DEF IInv, ClientsInv
      <3> QED
        BY <1>1, <2>2, <2>3, <3>1 DEF FreshInv, Recorded
    <2>4. CASE worker[c].fresh = None /\ worker[d].fresh = None
      <3>1. /\ project[worker[c].digest] = ghidra[c].place
            /\ project[worker[d].digest] = ghidra[c].place
            /\ ghidra[c].place # None
        BY <1>1, <2>2, <2>4, NothingIsNone
      <3>2. \A b \in Binary : project[b] = ghidra[c].place
                             => generation[ghidra[c].place].imported = b
        <4> SUFFICES ASSUME NEW b \in Binary, project[b] = ghidra[c].place
                     PROVE  generation[ghidra[c].place].imported = b
          OBVIOUS
        <4>1. generation[ghidra[c].place] =
                 [imported |-> b, saved |-> TRUE, observed |-> FALSE]
          BY <1>1, <3>1 DEF IInv, RecordedProjectsAreWhole
        <4> QED
          BY <4>1
      <3>3. worker[c].digest = worker[d].digest
        BY <2>2, <3>1, <3>2
      <3> QED
        BY <1>1, <2>2, <3>3
    <2> QED
      BY <2>3, <2>4
  <1>2. IInv => GhidraIsAloneInItsProject
    BY <1>1 DEF GhidraIsAloneInItsProject, At, Orphaned
  <1> QED
    BY <1>2, Invariant, PTL

\* The lock of an output is held from the look at the cache to the end of Ghidra,
\* so that no call analyzes again what another has published meanwhile.
THEOREM Misses == Spec => []GhidraRunsOnlyOnAMiss
  <1>1. Init => OutputsInv
    BY DEF Init, OutputsInv, MissInv, Idle, Publishing
  <1>2. IInv /\ OutputsInv /\ [Next]_vars => OutputsInv'
    BY NextOutputs
  <1>3. OutputsInv => GhidraRunsOnlyOnAMiss
    BY DEF OutputsInv, MissInv, GhidraRunsOnlyOnAMiss, At
  <1> QED
    BY <1>1, <1>2, <1>3, Invariant, PTL DEF Spec
=============================================================================
