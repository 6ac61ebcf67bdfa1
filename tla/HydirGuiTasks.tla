---------------------------- MODULE HydirGuiTasks ----------------------------
(***************************************************************************)
(* The tasks of the desktop application (crates/hydir-gui/src/main.rs):    *)
(* the UI thread puts tasks into a bounded queue and never waits; a worker *)
(* thread takes them in order and keeps the bytes of the open binary; four *)
(* kinds of Ghidra task run in threads of their own and end at any time.   *)
(* All answer through one bounded queue of events, which the UI polls.     *)
(*                                                                         *)
(* What is shown must belong to what is open now, although a task can end  *)
(* after another binary, function or seed has been chosen.  An event of a  *)
(* background task can also clear the flag that a task is in progress, so  *)
(* that the user goes on while the worker is busy.                         *)
(*                                                                         *)
(* Modelled for local binaries, with one path for each; remote projects,   *)
(* Frida and Triton tasks, models and typed C are left out.                *)
(***************************************************************************)
EXTENDS Integers, Sequences, FiniteSets, SequencesExt

CONSTANTS
    Binary,         \* local ELF files, each with its own bytes
    Rebuilt,        \* [Binary -> Binary]: what rebuilding or patching one makes
    Function,       \* functions the user selects
    Entry,          \* the function Ghidra selects by itself
    Seed,           \* seeds of a trace
    Template,       \* the seed made for a new snapshot
    None,           \* no value
    QueueCapacity,  \* room of each channel (16)
    MaxCommands     \* bound: commands of the user

ASSUME RebuiltAssumption == /\ Rebuilt \in [Binary -> Binary]
                            /\ \A b \in Binary : Rebuilt[b] # b
ASSUME ChoiceAssumption == Entry \in Function /\ Template \in Seed
ASSUME NoneAssumption ==
    /\ None \notin Binary \cup Function \cup Seed
    /\ None \notin [binary : Binary \cup {None}, function : Function \cup {None}]
ASSUME CapacityAssumption == QueueCapacity \in Nat \ {0} /\ MaxCommands \in Nat

\* Kinds of background task and the flag each sets: ghidra_busy,
\* ghidra_call_busy or ghidra_call_llvm_busy.
Background == {"analyze", "calls", "assess", "llvm"}
Flag == [analyze |-> "analysis", calls |-> "call", assess |-> "call", llvm |-> "llvm"]
Flags == {"analysis", "call", "llvm"}
Foreground == {"open", "derive", "select", "annotations", "disassemble", "path"}

VARIABLES
    tasks,      \* the channel to the worker
    source,     \* worker: the bytes of the open binary
    threads,    \* background tasks in progress
    events,     \* the channel to the UI
    busy,       \* AnalystApp::busy
    running,    \* flags that are set
    cancelled,  \* flags whose task is asked to stop
    pending,    \* pending_ghidra: a binary to analyze next
    spec,       \* the open binary
    path,       \* current_local_path, as the binary that is there
    derived,    \* rebuilt_binary_sha256 or patch_digest
    symbol,     \* the selected function
    native,     \* its recovered views: [binary, function]
    views,      \* annotations, disassembly and bytes, by the binary they are of
    snapshot,   \* ghidra_snapshot: [binary, function]
    seed,       \* ghidra_trace_seed_json
    shown,      \* results for a seed: [binary, function, seed]
    commands    \* how many commands the user has given

queues == <<tasks, events>>
work == <<source, threads>>
flags == <<busy, running, cancelled, pending>>
project == <<spec, path, derived>>
evidence == <<symbol, native, views, snapshot, seed, shown>>
vars == <<queues, work, flags, project, evidence, commands>>

\* A task, or the event that answers it.
Job(kind, b, f, s) ==
    [kind |-> kind, path |-> path, binary |-> b, function |-> f, seed |-> s, ok |-> TRUE]

NoViews == [v \in {"annotations", "disassembly", "bytes"} |-> None]
NoResults == [k \in {"path", "calls", "assess", "llvm"} |-> None]

Init ==
    /\ tasks = <<>> /\ events = <<>>
    /\ source = None /\ threads = {}
    /\ busy = FALSE /\ running = {} /\ cancelled = {} /\ pending = None
    /\ spec = None /\ path = None /\ derived = None
    /\ symbol = None /\ native = None /\ views = NoViews
    /\ snapshot = None /\ seed = None /\ shown = NoResults
    /\ commands = 0

-----------------------------------------------------------------------------
(* Putting tasks into the queue *)

\* How many of the jobs a try_send each finds room for.
Room(jobs) ==
    LET free == QueueCapacity - Len(tasks) IN IF Len(jobs) < free THEN Len(jobs) ELSE free

\* enqueue and enqueue_ghidra: what has no room is lost; what has sets its flag.
\* The other flags, before, are wasBusy and wasRunning.
Enqueue(jobs, wasBusy, wasRunning) ==
    LET sent == SubSeq(jobs, 1, Room(jobs))
        started == {Flag[j.kind] : j \in {i \in Range(sent) : i.kind \in Background}}
    IN /\ tasks' = tasks \o sent
       /\ busy' = (wasBusy \/ \E j \in Range(sent) : j.kind \in Foreground)
       /\ running' = wasRunning \cup started
       /\ cancelled' = (cancelled \cap wasRunning) \ started

Command == commands < MaxCommands /\ commands' = commands + 1

Start(job) == Enqueue(<<job>>, busy, running)

-----------------------------------------------------------------------------
(* The user: most controls are disabled while busy is set *)

\* The file may be the one that is open already.
OpenFile(b) ==
    /\ ~busy /\ Command
    /\ Start(Job("open", b, None, None))
    /\ UNCHANGED <<events, work, pending, project, evidence>>

\* RebuildLocal and PatchLocal.
Derive ==
    /\ ~busy /\ spec # None /\ Command
    /\ Start(Job("derive", spec, None, None))
    /\ UNCHANGED <<events, work, pending, project, evidence>>

\* select and select_native.
Select(f) ==
    /\ ~busy /\ spec # None /\ Command
    /\ symbol' = f
    /\ native' = None
    /\ Start(Job("select", None, f, None))
    /\ UNCHANGED <<events, work, pending, project, views, snapshot, seed, shown>>

\* Function None is Ghidra's choice.
Analyze(f) ==
    /\ "analysis" \notin running /\ path # None /\ spec # None /\ Command
    /\ IF f = None THEN ~busy ELSE snapshot # None
    /\ Start(Job("analyze", spec, f, None))
    /\ UNCHANGED <<events, work, pending, project, evidence>>

TracePath ==
    /\ ~busy /\ "analysis" \notin running /\ snapshot # None /\ Command
    /\ shown' = [shown EXCEPT !["path"] = None]
    /\ Start(Job("path", snapshot.binary, snapshot.function, seed))
    /\ UNCHANGED <<events, work, pending, project, symbol, native, views, snapshot, seed>>

\* Trace calls, assess the lift or generate LLVM across calls: not while another
\* Ghidra task is in progress.
StartSeeded(kind) ==
    /\ running = {} /\ path # None /\ snapshot # None /\ Command
    /\ Start(Job(kind, snapshot.binary, snapshot.function, seed))
    /\ shown' = [shown EXCEPT ![kind] = None]
    /\ UNCHANGED <<events, work, pending, project, symbol, native, views, snapshot, seed>>

\* Stopping the analysis also gives up the one that would come next.
Cancel(flag) ==
    /\ flag \in running \ cancelled /\ Command
    /\ cancelled' = cancelled \cup {flag}
    /\ pending' = IF flag = "analysis" THEN None ELSE pending
    /\ UNCHANGED <<queues, work, busy, running, project, evidence>>

\* The seed is edited: what was computed for the old one is cleared, and the
\* task that generates LLVM for it is stopped.
EditSeed(s) ==
    /\ snapshot # None /\ s # seed /\ Command
    /\ seed' = s
    /\ shown' = NoResults
    /\ cancelled' = cancelled \cup (running \cap {"llvm"})
    /\ UNCHANGED <<queues, work, busy, running, pending, project, symbol, native, views,
                   snapshot>>

\* "Use captured entry registers as P-code seed".
CapturedSeed(s) ==
    /\ snapshot # None /\ path # None /\ s # seed /\ Command
    /\ seed' = s
    /\ shown' = [shown EXCEPT !["path"] = None]
    /\ UNCHANGED <<queues, work, flags, project, symbol, native, views, snapshot>>

User ==
    \/ \E b \in Binary : OpenFile(b)
    \/ Derive
    \/ \E f \in Function : Select(f)
    \/ \E f \in Function \cup {None} : Analyze(f)
    \/ TracePath
    \/ \E k \in {"calls", "assess", "llvm"} : StartSeeded(k)
    \/ \E flag \in Flags : Cancel(flag)
    \/ \E s \in Seed : EditSeed(s) \/ CapturedSeed(s)

-----------------------------------------------------------------------------
(* The worker thread and the threads of the background tasks *)

Send(event) == Len(events) < QueueCapacity /\ events' = Append(events, event)

Failed(t) == [t EXCEPT !.kind = "failed", !.ok = FALSE]

Take(kind) == tasks # <<>> /\ Head(tasks).kind = kind /\ tasks' = Tail(tasks)

WorkBackground(kind) ==
    /\ Take(kind)
    /\ threads' = threads \cup {Head(tasks)}
    /\ UNCHANGED <<source, events>>

\* Reading, importing or attaching the project can fail.
WorkOpen ==
    LET t == Head(tasks)
    IN /\ Take("open")
       /\ \/ source' = t.binary /\ Send([t EXCEPT !.path = t.binary])
          \/ source' = source /\ Send(Failed(t))
       /\ UNCHANGED threads

WorkDerive ==
    LET t == Head(tasks)
    IN /\ Take("derive")
       /\ \/ /\ source # None
             /\ source' = Rebuilt[source]
             /\ Send([t EXCEPT !.path = Rebuilt[source], !.binary = Rebuilt[source]])
          \/ source' = source /\ Send(Failed(t))
       /\ UNCHANGED threads

\* The views are of the bytes that are open now.
WorkSelect ==
    LET t == Head(tasks)
    IN /\ Take("select")
       /\ IF source = None THEN Send(Failed(t)) ELSE Send([t EXCEPT !.binary = source])
       /\ UNCHANGED work

\* The project that is open now is asked for the digest the UI had.
WorkAnnotations ==
    LET t == Head(tasks)
    IN /\ Take("annotations")
       /\ \/ source = t.binary /\ Send(t)
          \/ Send(Failed(t))
       /\ UNCHANGED work

WorkDisassemble ==
    LET t == Head(tasks)
    IN /\ Take("disassemble")
       /\ \/ source # None /\ Send([t EXCEPT !.binary = source])
          \/ Send([t EXCEPT !.ok = FALSE])
       /\ UNCHANGED work

WorkBytes ==
    LET t == Head(tasks)
    IN /\ Take("bytes")
       /\ Send([t EXCEPT !.ok = (source = t.binary)])
       /\ UNCHANGED work

WorkPath ==
    LET t == Head(tasks)
    IN /\ Take("path")
       /\ \E ok \in BOOLEAN : Send([t EXCEPT !.ok = ok])
       /\ UNCHANGED work

Worker ==
    /\ \/ \E kind \in Background : WorkBackground(kind)
       \/ WorkOpen \/ WorkDerive \/ WorkSelect \/ WorkAnnotations \/ WorkDisassemble
       \/ WorkBytes \/ WorkPath
    /\ UNCHANGED <<flags, project, evidence, commands>>

\* A background task succeeds for the file it was asked about, even when it is
\* asked to stop too late; it fails, times out or is stopped.
Finish(t) ==
    /\ threads' = threads \ {t}
    /\ \E ok \in BOOLEAN : /\ ok => t.path = t.binary
                           /\ Send([t EXCEPT !.ok = ok])
    /\ UNCHANGED <<tasks, source, flags, project, evidence, commands>>

-----------------------------------------------------------------------------
(* poll: the UI handles one event *)

\* Mutant of Quiet: an error leaves the controls as they are.
QuietFailures == {"analyze", "calls", "llvm", "bytes", "failed"}

\* Events that leave busy alone.
Quiet == {"analyze", "calls", "llvm", "bytes"}

Event(kind) ==
    /\ events # <<>> /\ Head(events).kind = kind
    /\ events' = Tail(events)
    /\ UNCHANGED <<work, commands>>

\* sync_shell_binary: other bytes for other views.
Bytes(b) == [Job("bytes", b, None, None) EXCEPT !.path = b]

\* Imported.  Annotations, Ghidra's analysis and the disassembly are asked for;
\* an analysis that is in progress must end first.
OnImported ==
    LET e == Head(events)
        b == e.binary
        about(kind) == [Job(kind, b, None, None) EXCEPT !.path = b]
        analysis == IF "analysis" \in running THEN <<>> ELSE <<about("analyze")>>
        stopped == {"call", "llvm"} \cup (IF spec \in {None, b} THEN {} ELSE {"analysis"})
        jobs == <<about("annotations")>> \o analysis \o <<about("disassemble"), Bytes(b)>>
        sent == SubSeq(jobs, 1, Room(jobs))
        started == IF about("analyze") \in Range(sent) THEN {"analysis"} ELSE {}
    IN /\ Event("open")
       /\ spec' = b /\ path' = b /\ derived' = None
       /\ symbol' = None /\ native' = None /\ views' = NoViews
       /\ snapshot' = None /\ seed' = None /\ shown' = NoResults
       /\ pending' = IF "analysis" \in running THEN b ELSE None
       /\ tasks' = tasks \o sent
       /\ busy' = \E j \in Range(sent) : j.kind \in Foreground
       /\ running' = running \cup started
       /\ cancelled' = (cancelled \cup (running \cap stopped)) \ started

\* LocalRebuilt and LocalPatched: Ghidra's snapshot and its results stay.
OnDerived ==
    LET e == Head(events)
        b == e.binary
    IN /\ Event("derive")
       /\ spec' = b /\ path' = b /\ derived' = b
       /\ symbol' = None /\ native' = None
       /\ views' = NoViews
       /\ Enqueue(<<[Job("annotations", b, None, None) EXCEPT !.path = b], Bytes(b)>>,
                  FALSE, running)
       /\ UNCHANGED <<pending, snapshot, seed, shown>>

OnFailed ==
    /\ Event("failed")
    /\ busy' = (busy /\ "failed" \in Quiet)
    /\ UNCHANGED <<tasks, running, cancelled, pending, project, evidence>>

\* Mutant of Current: any function that is selected.
AnySelected(e) == symbol # None

Current(e) == symbol = e.function

OnSelected ==
    LET e == Head(events)
    IN /\ Event("select")
       /\ busy' = FALSE
       /\ native' = IF Current(e) THEN [binary |-> e.binary, function |-> e.function]
                    ELSE native
       /\ UNCHANGED <<tasks, running, cancelled, pending, project, symbol, views, snapshot,
                      seed, shown>>

\* AnnotationsLoaded, Disassembled and BinaryViewLoaded compare digests.
OnView(kind, view) ==
    LET e == Head(events)
    IN /\ Event(kind)
       /\ busy' = (busy /\ kind \in Quiet)
       /\ views' = IF e.binary = spec
                   THEN [views EXCEPT ![view] = IF e.ok THEN e.binary
                                               ELSE IF kind = "bytes" THEN None ELSE @]
                   ELSE views
       /\ UNCHANGED <<tasks, running, cancelled, pending, project, symbol, native, snapshot,
                      seed, shown>>

\* Mutant of StartPending: the analysis of another binary just ends.
StartNone(e) == IF e.binary = spec /\ pending # None
                THEN <<Job("analyze", pending, None, None)>> ELSE <<>>

\* The analysis that waited for this one: pending_ghidra has its path.
StartPending(e) ==
    IF pending = None THEN <<>>
    ELSE <<[Job("analyze", pending, None, None) EXCEPT !.path = pending]>>

OnAnalyzed ==
    LET e == Head(events)
        install == e.binary = spec /\ e.ok
        stopped == IF install THEN running \cap {"llvm"} ELSE {}
        next == StartPending(e)
        started == IF Room(next) = 1 THEN {"analysis"} ELSE {}
    IN /\ Event("analyze")
       /\ IF install
          THEN /\ snapshot' = [binary |-> e.binary,
                               function |-> IF e.function = None THEN Entry ELSE e.function]
               /\ seed' = Template
               /\ shown' = NoResults
          ELSE UNCHANGED <<snapshot, seed, shown>>
       /\ pending' = IF StartPending(e) = <<>> THEN pending ELSE None
       /\ tasks' = tasks \o SubSeq(next, 1, Room(next))
       /\ running' = (running \ {"analysis"}) \cup started
       /\ cancelled' = (cancelled \ {"analysis"}) \cup stopped
       /\ UNCHANGED <<busy, project, symbol, native, views>>

Result(e) == [binary |-> e.binary, function |-> e.function, seed |-> e.seed]

PathMatches(e) ==
    /\ snapshot = [binary |-> e.binary, function |-> e.function]
    /\ seed = e.seed

OnPathTraced ==
    LET e == Head(events)
    IN /\ Event("path")
       /\ busy' = FALSE
       /\ shown' = IF PathMatches(e) THEN [shown EXCEPT !["path"] = Result(e)] ELSE shown
       /\ UNCHANGED <<tasks, running, cancelled, pending, project, symbol, native, views,
                      snapshot, seed>>

\* Mutant of SeededMatches: only the function is compared.
SeededMatchesFunction(e) ==
    /\ snapshot # None /\ snapshot.function = e.function
    /\ e.kind = "assess" => seed = e.seed

\* The binary is compared with the open one and the function with the snapshot;
\* only the event of an assessment names its seed.
SeededMatches(e) ==
    /\ e.binary = spec
    /\ snapshot # None /\ snapshot.function = e.function
    /\ e.kind = "assess" => seed = e.seed

\* GhidraCallsTraced, GhidraAssessed and GhidraCallLlvmEmitted.  A call trace
\* that ended before it was stopped is shown.
OnSeeded(kind) ==
    LET e == Head(events)
        stopped == Flag[kind] \in cancelled /\ (kind = "calls" => ~e.ok)
    IN /\ Event(kind)
       /\ busy' = (busy /\ kind \in Quiet)
       /\ running' = running \ {Flag[kind]}
       /\ cancelled' = cancelled \ {Flag[kind]}
       /\ shown' = IF ~SeededMatches(e) THEN shown
                   ELSE [shown EXCEPT ![kind] = IF stopped THEN None ELSE Result(e)]
       /\ UNCHANGED <<tasks, pending, project, symbol, native, views, snapshot, seed>>

Poll ==
    \/ OnImported \/ OnDerived \/ OnFailed \/ OnSelected \/ OnAnalyzed \/ OnPathTraced
    \/ OnView("annotations", "annotations") \/ OnView("disassemble", "disassembly")
    \/ OnView("bytes", "bytes")
    \/ \E k \in {"calls", "assess", "llvm"} : OnSeeded(k)

Next == User \/ Worker \/ (\E t \in threads : Finish(t)) \/ Poll

\* The UI polls in every frame, the worker's tasks are bounded in time, and a
\* background task ends at its timeout.
Fairness == /\ WF_vars(Worker)
            /\ WF_vars(Poll)
            /\ \A f \in Flags : WF_vars(\E t \in threads : Flag[t.kind] = f /\ Finish(t))

Spec == Init /\ [][Next]_vars /\ Fairness

-----------------------------------------------------------------------------
(* Properties *)

\* The views of the selected function are of that function in the open binary,
\* and annotations, disassembly and bytes are of the open binary, although
\* another one may be opened or rebuilt while they are computed, and although
\* the answer Selected names no binary at all.
NativeEvidenceIsOfTheOpenBinary ==
    /\ native # None => native = [binary |-> spec, function |-> symbol]
    /\ \A v \in DOMAIN views : views[v] \in {None, spec}

\* Ghidra's snapshot is of the open binary, and every result is of the function
\* of the snapshot, however late its task ends, unless the open binary was made
\* by rebuilding or patching: then the snapshot of the other one stays.  A path,
\* whose event names its seed, is the one of the configured seed.
GhidraEvidenceIsCurrent ==
    /\ derived = None =>
        /\ snapshot # None => snapshot.binary = spec
        /\ \A k \in DOMAIN shown : shown[k] # None =>
              /\ snapshot # None
              /\ shown[k].binary = spec /\ shown[k].function = snapshot.function
    /\ shown["path"] # None => shown["path"].seed = seed

\* gui/README.md:44: trace seeds are "shared with call tracing, lift assessment
\* and LLVM across calls".  What those show was computed with the configured
\* seed.
ResultsAreOfTheSeed ==
    \A k \in DOMAIN shown : shown[k] # None => shown[k].seed = seed

\* Tasks of a flag, how many of them are in a channel, and how many wait, run or
\* have answered.
Of(j, flag) == j.kind \in Background /\ Flag[j.kind] = flag
Count(jobs, flag) == Cardinality({i \in DOMAIN jobs : Of(jobs[i], flag)})
Outstanding(flag) ==
    Cardinality({t \in threads : Of(t, flag)}) + Count(tasks, flag) + Count(events, flag)

\* A flag is set exactly while one task of it is outstanding, and a binary waits
\* to be analyzed only while the end of another analysis will start it.
FlagsMatchTasks ==
    /\ \A flag \in Flags : Outstanding(flag) = IF flag \in running THEN 1 ELSE 0
    /\ pending # None => "analysis" \in running

\* After the last command no control stays disabled for ever, also when results
\* come for a binary that is not open any more, and no binary waits to be
\* analyzed.
Settles == <>[](~busy /\ running = {} /\ pending = None)
=============================================================================
