-------------------------- MODULE HydirGhidraWorker --------------------------
(***************************************************************************)
(* The Ghidra worker (crates/hydir-ghidra-worker/src/lib.rs): processes    *)
(* that run a headless Ghidra, in a container or on the host, and publish  *)
(* the snapshot it exports.                                                *)
(*                                                                         *)
(*   analyze     answers from the output file when its cache record fits;  *)
(*               otherwise runs Ghidra in the managed project of the       *)
(*               binary, made and recorded by the first analysis of it     *)
(*   import      runs Ghidra in a copy of a project of the user            *)
(*   rediscover  runs Ghidra in a copy of the managed project, to which it *)
(*               adds observed calls and jumps; writes no output           *)
(*                                                                         *)
(* An output and a managed project each have a lock file, which the system *)
(* releases when the call ends or the process that holds it dies.  The     *)
(* Ghidra of a process that died lives on, as does one that its worker     *)
(* could not stop.                                                         *)
(* Meanwhile the binary is rebuilt: every step reads the file that is      *)
(* there then.                                                             *)
(*                                                                         *)
(* Modelled for one execution mode.  A file's digest is represented by the *)
(* file.                                                                   *)
(***************************************************************************)
EXTENDS Integers, FiniteSets

CONSTANTS
    Client,     \* processes that call the worker: desktop application, CLI
    Binary,     \* contents of the executable
    Function,   \* functions a call names
    Entry,      \* the function the exporter selects by itself
    Generation, \* names of generation directories
    UserBinary, \* the executable at first, and what the project of
                \* the user was made from
    Output,     \* paths of output files
    Request,    \* the calls: [kind, function, output]
    None,       \* no value
    MaxFaults,  \* bound: crashes, failed writes, Ghidras that are not stopped
    MaxRebuilds \* bound: rebuilds of the executable

Kinds == {"analyze", "import", "rediscover"}
Copy == "copy"      \* a staged copy of a project, private to its worker

\* The directory of a managed project: the binary it holds, whether Ghidra saved
\* it, and whether anything observed was added.
Directory == [imported : Binary \cup {None}, saved : BOOLEAN, observed : BOOLEAN]

ASSUME RequestAssumption ==
    /\ Entry \in Function /\ UserBinary \in Binary
    /\ None \notin Client \cup Binary \cup Function \cup Generation \cup Output \cup Directory
    /\ Copy \notin Generation \cup {None}
    /\ Request \subseteq [kind : Kinds, function : Function \cup {None},
                          output : Output \cup {None}]
    /\ \A r \in Request : IF r.kind = "rediscover"
                          THEN r.function # None /\ r.output = None
                          ELSE r.output # None
\* Every fault leaves at most one directory behind, or its name in use.
ASSUME BoundAssumption ==
    /\ MaxFaults \in Nat /\ MaxRebuilds \in Nat
    /\ Cardinality(Generation) = Cardinality(Binary) + MaxFaults

VARIABLES
    file,           \* the executable on disk
    output,         \* output files: a snapshot
    record,         \* .hydir-cache.json of each: [key, sha]
    project,        \* project.json of each binary: a generation
    generation,     \* directories of managed projects
    worker,         \* [pc, request, digest, fresh]
    ghidra,         \* Ghidra of each worker: [state, place, imported, snapshot]
    outputLock,     \* holder of the lock of each output
    projectLock,    \* holder of the lock of each managed project
    answer,         \* the snapshot a call returned
    faults,
    rebuilds

vars == <<file, output, record, project, generation, worker, ghidra,
          outputLock, projectLock, answer, faults, rebuilds>>
disk == <<output, record, project, generation>>
locks == <<outputLock, projectLock>>

Off == [state |-> "off", place |-> None, imported |-> None, snapshot |-> None]
Idle == [pc |-> "idle", request |-> None, digest |-> None, fresh |-> None]

Init ==
    /\ file = UserBinary
    /\ output = [o \in Output |-> None]
    /\ record = [o \in Output |-> None]
    /\ project = [b \in Binary |-> None]
    /\ generation = [g \in Generation |-> None]
    /\ worker = [c \in Client |-> Idle]
    /\ ghidra = [c \in Client |-> Off]
    /\ outputLock = [o \in Output |-> None]
    /\ projectLock = [b \in Binary |-> None]
    /\ answer = [c \in Client |-> None]
    /\ faults = 0 /\ rebuilds = 0

At(c, pc) == worker[c].pc = pc
Goto(c, pc) == worker' = [worker EXCEPT ![c].pc = pc]
Kind(c) == worker[c].request.kind
Path(c) == worker[c].request.output

-----------------------------------------------------------------------------
(* What the files say.                                                     *)

\* validate_output: of this binary and, when one is named, this function.
Valid(snapshot, digest, function) ==
    /\ snapshot.binary = digest
    /\ function # None => snapshot.function = function

\* cache_key: binary and selector; all else is the same in one mode.
Key(c) == <<worker[c].digest, worker[c].request.function>>

\* Mutant of Cached: a cache record that is not compared with the bytes of the output.
CachedByKey(c) ==
    /\ record[Path(c)] # None /\ output[Path(c)] # None
    /\ record[Path(c)].key = Key(c)
    /\ Valid(output[Path(c)], worker[c].digest, worker[c].request.function)

\* try_cached.
Cached(c) ==
    /\ record[Path(c)] # None /\ output[Path(c)] # None
    /\ record[Path(c)].key = Key(c)
    /\ record[Path(c)].sha = output[Path(c)]
    /\ Valid(output[Path(c)], worker[c].digest, worker[c].request.function)

\* existing_project: the recorded generation, if its project was saved.  The code
\* looks for the project's file, which Ghidra is taken to write when it saves.
Existing(b) ==
    IF project[b] # None /\ generation[project[b]] # None /\ generation[project[b]].saved
    THEN project[b] ELSE None

-----------------------------------------------------------------------------
(* The locks.  A worker that ends, however, holds none.                    *)

\* Mutants: a lock file that nobody locks.
OutputFreeAlways(o) == TRUE
ProjectFreeAlways(b) == TRUE

OutputFree(o) == outputLock[o] = None
ProjectFree(b) == projectLock[b] = None

Released(c) ==
    /\ outputLock' = [o \in Output |-> IF outputLock[o] = c THEN None ELSE outputLock[o]]
    /\ projectLock' = [b \in Binary |-> IF projectLock[b] = c THEN None ELSE projectLock[b]]

\* The temporary directory of a generation that was not kept is removed.
Dropped(c) ==
    generation' = [g \in Generation |-> IF g = worker[c].fresh THEN None ELSE generation[g]]

\* The call ends in an error.
Fail(c) ==
    /\ worker' = [worker EXCEPT ![c] = Idle]
    /\ Released(c) /\ Dropped(c)

\* The call returns a snapshot.
Answer(c, snapshot) ==
    /\ answer' = [answer EXCEPT ![c] = snapshot]
    /\ Goto(c, "answered")
    /\ Released(c)

-----------------------------------------------------------------------------
(* A call.                                                                 *)

\* The binary is digested before any lock is taken.
Begin(c, r) ==
    /\ At(c, "idle")
    /\ worker' = [worker EXCEPT ![c] =
         [pc |-> IF r.kind = "rediscover" THEN "project" ELSE "output",
          request |-> r, digest |-> file, fresh |-> None]]
    /\ UNCHANGED <<file, disk, ghidra, locks, answer, faults, rebuilds>>

\* The holder of the lock alone changes the output and its record, so analyze
\* looks at them at once.
LockOutput(c) ==
    /\ At(c, "output") /\ OutputFree(Path(c))
    /\ \/ /\ Kind(c) = "analyze" /\ Cached(c)
          /\ Answer(c, output[Path(c)])
       \/ /\ Kind(c) = "analyze" /\ ~Cached(c)
          /\ outputLock' = [outputLock EXCEPT ![Path(c)] = c]
          /\ Goto(c, "project")
          /\ UNCHANGED <<projectLock, answer>>
       \/ /\ Kind(c) = "import"
          /\ outputLock' = [outputLock EXCEPT ![Path(c)] = c]
          /\ Goto(c, "stage")
          /\ UNCHANGED <<projectLock, answer>>
    /\ UNCHANGED <<file, disk, ghidra, faults, rebuilds>>

LockProject(c) ==
    /\ At(c, "project") /\ ProjectFree(worker[c].digest)
    /\ projectLock' = [projectLock EXCEPT ![worker[c].digest] = c]
    /\ Goto(c, "stage")
    /\ UNCHANGED <<file, disk, ghidra, outputLock, answer, faults, rebuilds>>

\* lock_output gives up at its deadline.
LockTimeout(c) ==
    /\ \/ At(c, "output") /\ outputLock[Path(c)] # None
       \/ At(c, "project") /\ projectLock[worker[c].digest] # None
    /\ Fail(c)
    /\ UNCHANGED <<file, output, record, project, ghidra, answer, faults, rebuilds>>

Start(c, place, imported) ==
    ghidra' = [ghidra EXCEPT ![c] =
        [state |-> "on", place |-> place, imported |-> imported, snapshot |-> None]]

\* Mutant of RediscoveryPlace: the managed project is opened itself.
RediscoveryInPlace(g) == g

\* Rediscovery runs in a copy, so that the project and what is cached of it stay
\* as they are.
RediscoveryPlace(g) == Copy

\* tempdir makes a name that was never used: not one of a removed directory in
\* which a Ghidra that was given up goes on.
Unused == {g \in Generation : generation[g] = None /\ \A c \in Client : ghidra[c].place # g}

\* analyze reopens the managed project of the binary or makes a new one.
StageManaged(c) ==
    /\ At(c, "stage") /\ Kind(c) = "analyze"
    /\ LET old == Existing(worker[c].digest)
       IN \/ /\ old # None
             /\ Start(c, old, generation[old].imported)
             /\ Goto(c, "running")
             /\ UNCHANGED generation
          \/ /\ old = None /\ Unused # {}
             /\ LET g == CHOOSE g \in Unused : TRUE
                IN /\ generation' = [generation EXCEPT ![g] =
                         [imported |-> None, saved |-> FALSE, observed |-> FALSE]]
                   /\ Start(c, g, None)
                   /\ worker' = [worker EXCEPT ![c].pc = "running", ![c].fresh = g]
    /\ UNCHANGED <<file, output, record, project, locks, answer, faults, rebuilds>>

StageImport(c) ==
    /\ At(c, "stage") /\ Kind(c) = "import"
    /\ Start(c, Copy, UserBinary)
    /\ Goto(c, "running")
    /\ UNCHANGED <<file, disk, locks, answer, faults, rebuilds>>

\* Rediscovery needs an analyzed binary.
StageRediscover(c) ==
    /\ At(c, "stage") /\ Kind(c) = "rediscover"
    /\ LET old == Existing(worker[c].digest)
       IN \/ /\ old # None
             /\ Start(c, RediscoveryPlace(old), generation[old].imported)
             /\ Goto(c, "running")
             /\ UNCHANGED <<generation, locks>>
          \/ old = None /\ Fail(c) /\ UNCHANGED ghidra
    /\ UNCHANGED <<file, output, record, project, answer, faults, rebuilds>>

-----------------------------------------------------------------------------
(* Ghidra, a child process.  Orphaned, it goes on.                         *)

Managed(c) == ghidra[c].place \in Generation /\ generation[ghidra[c].place] # None

\* A new project imports the file that is there now.
GhidraImport(c) ==
    /\ ghidra[c].state = "on" /\ ghidra[c].imported = None
    /\ ghidra' = [ghidra EXCEPT ![c].imported = file]
    /\ generation' = IF Managed(c)
                     THEN [generation EXCEPT ![ghidra[c].place].imported = file]
                     ELSE generation
    /\ UNCHANGED <<file, output, record, project, worker, locks, answer, faults, rebuilds>>

Origin(c) == CASE Kind(c) = "analyze" -> "static"
               [] Kind(c) = "import" -> "user"
               [] Kind(c) = "rediscover" -> "observed"

\* A snapshot of binary b as the call asks for it.
Requested(c, b) ==
    [binary |-> b,
     function |-> IF worker[c].request.function = None THEN Entry
                  ELSE worker[c].request.function,
     origin |-> Origin(c)]

\* The exporter compares the file with what was imported, selects the function
\* and writes a snapshot of both; rediscovery changes the project first.  Then
\* Ghidra saves the project and exits.  That a save fails is only logged.
GhidraExport(c) ==
    /\ ghidra[c].state = "on" /\ ghidra[c].imported = file
    /\ ghidra' = [ghidra EXCEPT ![c] =
         [Off EXCEPT !.state = "done", !.snapshot = Requested(c, file)]]
    /\ generation' \in {generation,
           IF ~Managed(c) THEN generation
           ELSE [generation EXCEPT ![ghidra[c].place].saved = TRUE,
                     ![ghidra[c].place].observed = @ \/ Kind(c) = "rediscover"]}
    /\ UNCHANGED <<file, output, record, project, worker, locks, answer, faults, rebuilds>>

GhidraFail(c) ==
    /\ ghidra[c].state = "on"
    /\ ghidra' = [ghidra EXCEPT ![c] = [Off EXCEPT !.state = "failed"]]
    /\ UNCHANGED <<file, disk, worker, locks, answer, faults, rebuilds>>

-----------------------------------------------------------------------------
(* The worker supervises its Ghidra and publishes the result.              *)

\* Mutant of Accepted: every snapshot of a Ghidra that succeeded.
AcceptedAny(c) ==
    /\ ghidra[c].state = "done"
    /\ worker[c].fresh # None => generation[worker[c].fresh].saved

\* The snapshot passes validate_output, a new project was saved, and for import
\* and rediscovery the file is still the one that was digested.
Accepted(c) ==
    /\ ghidra[c].state = "done"
    /\ Valid(ghidra[c].snapshot, worker[c].digest, worker[c].request.function)
    /\ worker[c].fresh # None => generation[worker[c].fresh].saved
    /\ Kind(c) # "analyze" => file = worker[c].digest

\* Ghidra exited: the snapshot is checked.  This comes before any cancellation.
Exited(c) ==
    /\ At(c, "running") /\ ghidra[c].state # "on"
    /\ \/ /\ ~Accepted(c) /\ Fail(c)
          /\ ghidra' = [ghidra EXCEPT ![c] = Off]
          /\ UNCHANGED answer
       \/ /\ Accepted(c) /\ Kind(c) = "rediscover"
          /\ Answer(c, ghidra[c].snapshot)
          /\ ghidra' = [ghidra EXCEPT ![c] = Off]
          /\ UNCHANGED generation
       \/ /\ Accepted(c) /\ Kind(c) # "rediscover"
          /\ Goto(c, CASE Kind(c) = "import" -> "clear"
                       [] worker[c].fresh # None -> "record"
                       [] OTHER -> "publish")
          /\ UNCHANGED <<ghidra, locks, answer, generation>>
    /\ UNCHANGED <<file, output, record, project, faults, rebuilds>>

\* stop_bounded_child: the container or the process group is killed.
Stopped(c) == ghidra' = [ghidra EXCEPT ![c] = Off]

\* Mutant of Stop: only a cancel file stops Ghidra, and there is none.
StopNever(c) == FALSE

\* The cancel file exists or the deadline has passed.
Stop(c) ==
    /\ At(c, "running") /\ ghidra[c].state = "on"
    /\ Stopped(c)
    /\ Fail(c)
    /\ UNCHANGED <<file, output, record, project, answer, faults, rebuilds>>

\* Ghidra is given up and may go on: waiting for it failed, after which the child
\* alone is killed and not its group or container; or the container could not be
\* removed, which is ignored.  The call ends in an error and frees its locks.
Abandon(c) ==
    /\ faults < MaxFaults
    /\ At(c, "running")
    /\ worker' = [worker EXCEPT ![c].pc = "abandoned", ![c].fresh = None]
    /\ Released(c) /\ Dropped(c)
    /\ faults' = faults + 1
    /\ UNCHANGED <<file, output, record, project, ghidra, answer, rebuilds>>

\* keep, then project.json: a generation that was kept is never removed.
RecordProject(c) ==
    /\ At(c, "record")
    /\ project' = [project EXCEPT ![worker[c].digest] = worker[c].fresh]
    /\ worker' = [worker EXCEPT ![c].pc = "publish", ![c].fresh = None]
    /\ UNCHANGED <<file, output, record, generation, ghidra, locks, answer, faults, rebuilds>>

ClearCache(c) ==
    /\ At(c, "clear")
    /\ record' = [record EXCEPT ![Path(c)] = None]
    /\ Goto(c, "publish")
    /\ UNCHANGED <<file, output, project, generation, ghidra, locks, answer, faults, rebuilds>>

\* The output is replaced at once; import returns, analyze records the cache.
Publish(c) ==
    /\ At(c, "publish")
    /\ output' = [output EXCEPT ![Path(c)] = ghidra[c].snapshot]
    /\ \/ /\ Kind(c) = "analyze" /\ Goto(c, "sidecar")
          /\ UNCHANGED <<ghidra, locks, answer>>
       \/ /\ Kind(c) = "import" /\ Answer(c, ghidra[c].snapshot)
          /\ ghidra' = [ghidra EXCEPT ![c] = Off]
    /\ UNCHANGED <<file, record, project, generation, faults, rebuilds>>

WriteCache(c) ==
    /\ At(c, "sidecar")
    /\ record' = [record EXCEPT ![Path(c)] = [key |-> Key(c), sha |-> ghidra[c].snapshot]]
    /\ Answer(c, ghidra[c].snapshot)
    /\ ghidra' = [ghidra EXCEPT ![c] = Off]
    /\ UNCHANGED <<file, output, project, generation, faults, rebuilds>>

\* One of the writes fails: what was written before stays, and a generation
\* that was kept before its record failed stays unused.
WriteFails(c) ==
    /\ faults < MaxFaults
    /\ worker[c].pc \in {"record", "clear", "publish", "sidecar"}
    /\ worker' = [worker EXCEPT ![c] = Idle]
    /\ Released(c)
    /\ ghidra' = [ghidra EXCEPT ![c] = Off]
    /\ faults' = faults + 1
    /\ UNCHANGED <<file, disk, answer, rebuilds>>

Return(c) ==
    /\ At(c, "answered")
    /\ worker' = [worker EXCEPT ![c] = Idle]
    /\ answer' = [answer EXCEPT ![c] = None]
    /\ UNCHANGED <<file, disk, ghidra, locks, faults, rebuilds>>

-----------------------------------------------------------------------------
(* The environment.                                                        *)

\* The process dies or is killed, as the desktop application does three
\* seconds after a cancel file was not obeyed.  Directories and Ghidra stay.
Crash(c) ==
    /\ faults < MaxFaults
    /\ worker[c].pc \notin {"idle", "crashed", "abandoned", "answered"}
    /\ Goto(c, "crashed")
    /\ Released(c)
    /\ faults' = faults + 1
    /\ UNCHANGED <<file, disk, ghidra, answer, rebuilds>>

\* Another call is made when the orphan has ended.
Restart(c) ==
    /\ At(c, "crashed") \/ At(c, "abandoned")
    /\ ghidra[c].state # "on"
    /\ worker' = [worker EXCEPT ![c] = Idle]
    /\ ghidra' = [ghidra EXCEPT ![c] = Off]
    /\ UNCHANGED <<file, disk, locks, answer, faults, rebuilds>>

Rebuild ==
    /\ rebuilds < MaxRebuilds
    /\ rebuilds' = rebuilds + 1
    /\ \E b \in Binary \ {file} : file' = b
    /\ UNCHANGED <<disk, worker, ghidra, locks, answer, faults>>

Work(c) ==
    \/ LockOutput(c) \/ LockProject(c) \/ LockTimeout(c)
    \/ StageManaged(c) \/ StageImport(c) \/ StageRediscover(c)
    \/ Exited(c) \/ Stop(c) \/ RecordProject(c) \/ ClearCache(c)
    \/ Publish(c) \/ WriteCache(c) \/ WriteFails(c) \/ Return(c)

Next ==
    \/ Rebuild
    \/ \E c \in Client :
         \/ \E r \in Request : Begin(c, r)
         \/ Work(c)
         \/ GhidraImport(c) \/ GhidraExport(c) \/ GhidraFail(c)
         \/ Abandon(c) \/ Crash(c) \/ Restart(c)

\* A worker that runs goes on: it polls locks and its child.  Nothing is
\* assumed of Ghidra.
Fairness == \A c \in Client : WF_vars(Work(c))
Spec == Init /\ [][Next]_vars /\ Fairness

-----------------------------------------------------------------------------
(* Correctness.                                                            *)

\* A call returns a snapshot of the binary it digested, of the function it
\* named or else of the entry, and of its own kind, although other calls, kept
\* from ending, wrote the same output, the same cache record and the file was
\* rebuilt meanwhile.
AnswersMatchRequests ==
    \A c \in Client : At(c, "answered") =>
        answer[c] = Requested(c, worker[c].digest)

\* A recorded project is a directory that exists, was saved and holds the
\* binary it is recorded for, without anything observed: no crash, failed write
\* or rebuild leaves another one for the next analysis to reopen.
RecordedProjectsAreWhole ==
    \A b \in Binary : project[b] # None =>
        generation[project[b]] = [imported |-> b, saved |-> TRUE, observed |-> FALSE]

\* Two calls for the same output never both run Ghidra for what one of them has
\* published: the second waits and finds the cache.
GhidraRunsOnlyOnAMiss ==
    \A c \in Client : At(c, "running") /\ Kind(c) = "analyze" => ~Cached(c)

\* Two Ghidra processes share a managed project only after the worker of one of
\* them crashed or could not stop it; a call that is cancelled, runs into its
\* deadline or ends otherwise leaves none behind.
GhidraIsAloneInItsProject ==
    \A c, d \in Client :
        /\ c # d /\ ghidra[c].state = "on" /\ ghidra[d].state = "on"
        /\ ghidra[c].place = ghidra[d].place /\ ghidra[c].place \in Generation
        => \E e \in {c, d} : At(e, "crashed") \/ At(e, "abandoned")

\* The call has ended, or its process.
Over == {"idle", "crashed", "abandoned"}

\* Every call ends, although Ghidra hangs and another process holds the locks.
CallsEnd ==
    \A c \in Client :
        worker[c].pc \notin Over ~> worker[c].pc \in Over
=============================================================================
