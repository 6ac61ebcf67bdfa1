------------------------- MODULE HydirGuiTasksProofs -------------------------
(***************************************************************************)
(* Theorems about HydirGuiTasks, for any number of binaries, functions,    *)
(* seeds and commands and any capacity of the two channels: what is shown  *)
(* is of what is open, and a flag is set exactly while a task of it is     *)
(* outstanding, in whatever order the worker, the background tasks and the *)
(* user take their steps.                                                  *)
(***************************************************************************)
EXTENDS HydirGuiTasks, FiniteSetTheorems, SequenceTheorems, TLAPS

-----------------------------------------------------------------------------
(* The invariants *)

Kinds == Background \cup Foreground \cup {"bytes", "failed"}
Binaries == Binary \cup {None}
Functions == Function \cup {None}
Seeds == Seed \cup {None}

Jobs == [kind : Kinds, path : Binaries, binary : Binaries, function : Functions,
         seed : Seeds, ok : BOOLEAN]

Snapshots == [binary : Binaries, function : Functions]
Results == [binary : Binaries, function : Functions, seed : Seeds]
Views == {"annotations", "disassembly", "bytes"}
Panels == {"path", "calls", "assess", "llvm"}

\* What takes the place of the open binary, and so names one.
Opens(j) == j.kind \in {"open", "derive"}
Named(jobs) == \A i \in 1..Len(jobs) : Opens(jobs[i]) => jobs[i].binary \in Binary

QueuesInv ==
    /\ tasks \in Seq(Jobs) /\ Len(tasks) <= QueueCapacity /\ Named(tasks)
    /\ events \in Seq(Jobs) /\ Len(events) <= QueueCapacity /\ Named(events)

WorkInv ==
    /\ source \in Binaries
    /\ threads \in SUBSET Jobs /\ IsFiniteSet(threads)
    /\ \A t \in threads : t.kind \in Background

FlagsTyped ==
    /\ busy \in BOOLEAN
    /\ running \in SUBSET Flags /\ cancelled \in SUBSET Flags
    /\ pending \in Binaries

ProjectInv == spec \in Binaries /\ path \in Binaries /\ derived \in Binaries

EvidenceInv ==
    /\ symbol \in Functions
    /\ native \in Snapshots \cup {None}
    /\ views \in [Views -> Binaries]
    /\ snapshot \in Snapshots \cup {None}
    /\ seed \in Seeds
    /\ shown \in [Panels -> Results \cup {None}]

TypeInv == QueuesInv /\ WorkInv /\ FlagsTyped /\ ProjectInv /\ EvidenceInv

\* Binary b is the one that is open after the first k - 1 events of s, where o is
\* open before them.
Latest(s, o, k, b) ==
    /\ (\A j \in 1..(k - 1) : ~Opens(s[j])) => b = o
    /\ \A i \in 1..(k - 1) :
          Opens(s[i]) /\ (\A j \in (i + 1)..(k - 1) : ~Opens(s[j])) => b = s[i].binary

\* The UI is behind the worker by the events in the channel: after all of them it
\* has the binary that the worker has open, and after those before an answer
\* "select", the one whose bytes that answer is about.
OrderInv ==
    /\ Latest(events, spec, Len(events) + 1, source)
    /\ \A k \in 1..Len(events) :
          events[k].kind = "select" => Latest(events, spec, k, events[k].binary)

\* What the channel and the two kinds of evidence need of each other.
NativeInv == OrderInv /\ NativeEvidenceIsOfTheOpenBinary

-----------------------------------------------------------------------------
(* Lemmas *)

\* None is no binary, function, seed or record of those.
LEMMA NoneIsNothing ==
    /\ None \notin Binary /\ None \notin Function /\ None \notin Seed
    /\ None \notin Snapshots
  BY NoneAssumption DEF Snapshots, Binaries, Functions

\* The flags of the background tasks.
LEMMA FlagValues ==
    /\ Flag["analyze"] = "analysis" /\ Flag["calls"] = "call"
    /\ Flag["assess"] = "call" /\ Flag["llvm"] = "llvm"
    /\ \A k \in Background : Flag[k] \in Flags
  BY DEF Flag, Flags, Background

\* A job has the fields it is made from; it is about the file that is there.
LEMMA JobFields ==
    ASSUME TypeInv, NEW kind \in Kinds, NEW b \in Binaries, NEW f \in Functions,
           NEW s \in Seeds
    PROVE  LET j == Job(kind, b, f, s)
           IN /\ j \in Jobs
              /\ j.kind = kind /\ j.path = path /\ j.binary = b
              /\ j.function = f /\ j.seed = s
  BY DEF Job, Jobs, TypeInv, ProjectInv

\* The answers of the worker differ from their tasks in these fields.
LEMMA AnswerFields ==
    ASSUME NEW t \in Jobs, NEW b \in Binaries, NEW ok \in BOOLEAN
    PROVE  /\ Failed(t) \in Jobs /\ Failed(t).kind = "failed"
           /\ LET e == [t EXCEPT !.path = b] IN e \in Jobs /\ e.kind = t.kind
           /\ LET e == [t EXCEPT !.path = b] IN e.binary = t.binary
           /\ LET e == [t EXCEPT !.path = b, !.binary = b]
              IN e \in Jobs /\ e.kind = t.kind /\ e.binary = b
           /\ LET e == [t EXCEPT !.binary = b]
              IN e \in Jobs /\ e.kind = t.kind /\ e.binary = b
           /\ LET e == [t EXCEPT !.ok = ok]
              IN e \in Jobs /\ e.kind = t.kind /\ e.binary = t.binary
  BY DEF Failed, Jobs, Kinds

\* The jobs that find room are the first ones.
LEMMA SentFields ==
    ASSUME TypeInv, NEW jobs \in Seq(Jobs)
    PROVE  LET sent == SubSeq(jobs, 1, Room(jobs))
           IN /\ sent \in Seq(Jobs)
              /\ Room(jobs) \in Nat /\ Room(jobs) <= Len(jobs)
              /\ Len(sent) = Room(jobs) /\ Len(tasks) + Len(sent) <= QueueCapacity
              /\ \A i \in 1..Len(sent) : i \in 1..Len(jobs) /\ sent[i] = jobs[i]
  <1> DEFINE n == Len(jobs)
             free == QueueCapacity - Len(tasks)
             r == Room(jobs)
  <1>1. n \in Nat /\ Len(tasks) \in Nat /\ Len(tasks) <= QueueCapacity /\ QueueCapacity \in Nat
    BY CapacityAssumption DEF TypeInv, QueuesInv
  <1>2. r = IF n < free THEN n ELSE free
    BY DEF Room
  <1> HIDE DEF r, n
  <1>3. r \in Nat /\ r <= n /\ Len(tasks) + r <= QueueCapacity
    BY <1>1, <1>2
  <1>4. /\ SubSeq(jobs, 1, r) \in Seq(Jobs)
        /\ Len(SubSeq(jobs, 1, r)) = r
        /\ \A i \in 1..r : i \in 1..n /\ SubSeq(jobs, 1, r)[i] = jobs[i]
    BY <1>1, <1>3, SubSeqProperties DEF n
  <1> QED
    BY <1>3, <1>4 DEF r, n

\* Named jobs stay named when the first is taken.
LEMMA NamedTail ==
    ASSUME NEW s \in Seq(Jobs), s # <<>>, Named(s)
    PROVE  /\ Tail(s) \in Seq(Jobs) /\ Len(Tail(s)) = Len(s) - 1
           /\ Head(s) = s[1] /\ Head(s) \in Jobs
           /\ Named(Tail(s))
           /\ Opens(Head(s)) => Head(s).binary \in Binary
           /\ \A i \in 1..(Len(s) - 1) : Tail(s)[i] = s[i + 1]
  <1>1. /\ Tail(s) \in Seq(Jobs) /\ Len(Tail(s)) = Len(s) - 1
        /\ \A i \in 1..(Len(s) - 1) : Tail(s)[i] = s[i + 1]
    BY HeadTailProperties
  <1>2. Head(s) = s[1] /\ Head(s) \in Jobs /\ Len(s) \in Nat /\ 1 \in 1..Len(s)
    BY HeadTailProperties, EmptySeq, LenProperties
  <1>3. \A i \in 1..(Len(s) - 1) : i + 1 \in 1..Len(s)
    BY <1>2
  <1>4. Named(Tail(s))
    BY <1>1, <1>2, <1>3 DEF Named
  <1>5. Opens(Head(s)) => Head(s).binary \in Binary
    BY <1>2 DEF Named
  <1> QED
    BY <1>1, <1>2, <1>4, <1>5

\* The same for one more job.
LEMMA NamedAppend ==
    ASSUME NEW s \in Seq(Jobs), Named(s), NEW e \in Jobs, Opens(e) => e.binary \in Binary
    PROVE  /\ Append(s, e) \in Seq(Jobs) /\ Len(Append(s, e)) = Len(s) + 1
           /\ Named(Append(s, e))
           /\ \A i \in 1..Len(s) : Append(s, e)[i] = s[i]
           /\ Append(s, e)[Len(s) + 1] = e
  <1>1. /\ Append(s, e) \in Seq(Jobs) /\ Len(Append(s, e)) = Len(s) + 1
        /\ \A i \in 1..Len(s) : Append(s, e)[i] = s[i]
        /\ Append(s, e)[Len(s) + 1] = e
    BY AppendProperties
  <1>2. \A i \in 1..(Len(s) + 1) : i \in 1..Len(s) \/ i = Len(s) + 1
    BY LenProperties
  <1> HIDE DEF Opens
  <1>3. Named(Append(s, e))
    BY <1>1, <1>2 DEF Named
  <1> QED
    BY <1>1, <1>3

\* The same for several more jobs.
LEMMA NamedConcat ==
    ASSUME NEW s \in Seq(Jobs), NEW r \in Seq(Jobs), Named(s), Named(r)
    PROVE  /\ s \o r \in Seq(Jobs) /\ Len(s \o r) = Len(s) + Len(r)
           /\ Named(s \o r)
           /\ \A i \in 1..Len(s) : (s \o r)[i] = s[i]
           /\ \A i \in 1..Len(r) : (s \o r)[Len(s) + i] = r[i]
  <1> DEFINE q == s \o r
             m == Len(s)
             n == Len(r)
  <1>1. m \in Nat /\ n \in Nat
    BY LenProperties
  <1>2. /\ q \in Seq(Jobs) /\ Len(q) = m + n
        /\ \A i \in 1..(m + n) : q[i] = IF i <= m THEN s[i] ELSE r[i - m]
    BY ConcatProperties
  <1> HIDE DEF q, m, n
  <1>3. \A i \in 1..m : q[i] = s[i]
    BY <1>1, <1>2
  <1>4. \A i \in 1..n : q[m + i] = r[i]
    BY <1>1, <1>2
  <1>5. \A i \in 1..(m + n) : i \in 1..m \/ \E k \in 1..n : i = m + k
    <2>1. ASSUME NEW i \in 1..(m + n), i \notin 1..m
          PROVE  \E k \in 1..n : i = m + k
      <3>1. i - m \in 1..n /\ i = m + (i - m)
        BY <2>1, <1>1
      <3> QED
        BY <3>1
    <2> QED
      BY <2>1
  <1> HIDE DEF Opens
  <1>6. Named(q)
    <2>1. ASSUME NEW i \in 1..(m + n), Opens(q[i])
          PROVE  q[i].binary \in Binary
      <3>1. CASE i \in 1..m
        BY <2>1, <3>1, <1>3 DEF Named, m
      <3>2. ASSUME NEW k \in 1..n, i = m + k
            PROVE  q[i].binary \in Binary
        BY <2>1, <3>2, <1>4 DEF Named, n
      <3> QED
        BY <3>1, <3>2, <1>5
    <2> QED
      BY <2>1, <1>2 DEF Named
  <1> QED
    BY <1>2, <1>3, <1>4, <1>6 DEF q, m, n

\* What is sent to the worker leaves its channel well typed, and the flags.
LEMMA EnqueueTypes ==
    ASSUME TypeInv, NEW jobs \in Seq(Jobs), Named(jobs), NEW b \in BOOLEAN,
           NEW r \in SUBSET Flags, Enqueue(jobs, b, r)
    PROVE  /\ tasks' \in Seq(Jobs) /\ Len(tasks') <= QueueCapacity /\ Named(tasks')
           /\ busy' \in BOOLEAN /\ running' \in SUBSET Flags /\ cancelled' \in SUBSET Flags
  <1> DEFINE sent == SubSeq(jobs, 1, Room(jobs))
             started == {Flag[j.kind] : j \in {i \in Range(sent) : i.kind \in Background}}
  <1>1. /\ sent \in Seq(Jobs) /\ Len(tasks) + Len(sent) <= QueueCapacity
        /\ \A i \in 1..Len(sent) : i \in 1..Len(jobs) /\ sent[i] = jobs[i]
    BY SentFields
  <1>2. /\ tasks' = tasks \o sent
        /\ busy' = (b \/ \E j \in Range(sent) : j.kind \in Foreground)
        /\ running' = r \cup started
        /\ cancelled' = (cancelled \cap r) \ started
    BY DEF Enqueue
  <1>3. started \subseteq Flags
    BY FlagValues
  <1> HIDE DEF sent, started
  <1>4. Named(sent)
    BY <1>1 DEF Named
  <1>5. tasks \in Seq(Jobs) /\ Named(tasks) /\ cancelled \in SUBSET Flags
    BY DEF TypeInv, QueuesInv, FlagsTyped
  <1>6. /\ tasks \o sent \in Seq(Jobs) /\ Len(tasks \o sent) = Len(tasks) + Len(sent)
        /\ Named(tasks \o sent)
    BY <1>1, <1>4, <1>5, NamedConcat
  <1>7. busy' \in BOOLEAN
    BY <1>2
  <1>8. running' \in SUBSET Flags /\ cancelled' \in SUBSET Flags
    BY <1>2, <1>3, <1>5
  <1> QED
    BY <1>1, <1>2, <1>6, <1>7, <1>8

\* One job is a sequence of jobs.
LEMMA OneJob ==
    ASSUME NEW j \in Jobs, Opens(j) => j.binary \in Binary
    PROVE  <<j>> \in Seq(Jobs) /\ Named(<<j>>) /\ Len(<<j>>) = 1 /\ <<j>>[1] = j
  <1>1. <<j>> \in Seq(Jobs) /\ Len(<<j>>) = 1 /\ <<j>>[1] = j
    OBVIOUS
  <1>2. \A i \in 1..1 : i = 1
    OBVIOUS
  <1> HIDE DEF Opens
  <1> QED
    BY <1>1, <1>2 DEF Named

\* The worker takes the first task.
LEMMA TakeTypes ==
    ASSUME TypeInv, NEW kind, Take(kind)
    PROVE  /\ tasks # <<>> /\ tasks' = Tail(tasks)
           /\ Head(tasks) \in Jobs /\ Head(tasks).kind = kind
           /\ Opens(Head(tasks)) => Head(tasks).binary \in Binary
           /\ tasks' \in Seq(Jobs) /\ Len(tasks') <= QueueCapacity /\ Named(tasks')
  <1>1. tasks \in Seq(Jobs) /\ Len(tasks) <= QueueCapacity /\ Named(tasks)
    BY DEF TypeInv, QueuesInv
  <1>2. tasks # <<>> /\ Head(tasks).kind = kind /\ tasks' = Tail(tasks)
    BY DEF Take
  <1>3. /\ Tail(tasks) \in Seq(Jobs) /\ Len(Tail(tasks)) = Len(tasks) - 1
        /\ Head(tasks) \in Jobs /\ Named(Tail(tasks))
        /\ Opens(Head(tasks)) => Head(tasks).binary \in Binary
    BY <1>1, <1>2, NamedTail
  <1>4. Len(tasks) \in Nat /\ QueueCapacity \in Nat
    BY <1>1, CapacityAssumption, LenProperties
  <1> HIDE DEF Opens
  <1> QED
    BY <1>1, <1>2, <1>3, <1>4

\* An answer finds room.
LEMMA SendTypes ==
    ASSUME TypeInv, NEW e \in Jobs, Opens(e) => e.binary \in Binary, Send(e)
    PROVE  /\ events' = Append(events, e)
           /\ events' \in Seq(Jobs) /\ Len(events') <= QueueCapacity /\ Named(events')
  <1>1. events \in Seq(Jobs) /\ Len(events) <= QueueCapacity /\ Named(events)
    BY DEF TypeInv, QueuesInv
  <1>2. Len(events) < QueueCapacity /\ events' = Append(events, e)
    BY DEF Send
  <1>3. /\ Append(events, e) \in Seq(Jobs) /\ Len(Append(events, e)) = Len(events) + 1
        /\ Named(Append(events, e))
    BY <1>1, NamedAppend
  <1>4. Len(events) \in Nat /\ QueueCapacity \in Nat
    BY <1>1, CapacityAssumption, LenProperties
  <1> HIDE DEF Opens
  <1> QED
    BY <1>1, <1>2, <1>3, <1>4

\* The UI takes the first event.
LEMMA EventTypes ==
    ASSUME TypeInv, NEW kind, Event(kind)
    PROVE  /\ events # <<>> /\ events' = Tail(events)
           /\ Head(events) \in Jobs /\ Head(events).kind = kind /\ Head(events) = events[1]
           /\ Opens(Head(events)) => Head(events).binary \in Binary
           /\ events' \in Seq(Jobs) /\ Len(events') <= QueueCapacity /\ Named(events')
           /\ UNCHANGED <<source, threads>>
  <1>1. events \in Seq(Jobs) /\ Len(events) <= QueueCapacity /\ Named(events)
    BY DEF TypeInv, QueuesInv
  <1>2. /\ events # <<>> /\ Head(events).kind = kind /\ events' = Tail(events)
        /\ UNCHANGED <<source, threads>>
    BY DEF Event, work
  <1>3. /\ Tail(events) \in Seq(Jobs) /\ Len(Tail(events)) = Len(events) - 1
        /\ Head(events) \in Jobs /\ Named(Tail(events)) /\ Head(events) = events[1]
        /\ Opens(Head(events)) => Head(events).binary \in Binary
    BY <1>1, <1>2, NamedTail
  <1>4. Len(events) \in Nat /\ QueueCapacity \in Nat
    BY <1>1, CapacityAssumption, LenProperties
  <1> HIDE DEF Opens
  <1> QED
    BY <1>1, <1>2, <1>3, <1>4

\* What a new snapshot's event is answered with is well typed.
LEMMA ResultTypes ==
    ASSUME NEW e \in Jobs
    PROVE  Result(e) \in Results
  BY DEF Jobs, Result, Results

\* Clearing one result, or setting it, leaves the others.
LEMMA ShownTypes ==
    ASSUME TypeInv, NEW k \in Panels, NEW r \in Results \cup {None}
    PROVE  /\ [shown EXCEPT ![k] = r] \in [Panels -> Results \cup {None}]
           /\ [shown EXCEPT ![k] = r][k] = r
           /\ \A p \in Panels \ {k} : [shown EXCEPT ![k] = r][p] = shown[p]
  BY DEF TypeInv, EvidenceInv

\* Nothing is shown.
LEMMA NothingShown ==
    /\ NoResults \in [Panels -> Results \cup {None}]
    /\ \A k \in Panels : NoResults[k] = None
    /\ NoViews \in [Views -> Binaries]
    /\ \A v \in Views : NoViews[v] = None
  BY DEF NoResults, NoViews, Panels, Views, Binaries

-----------------------------------------------------------------------------
(* Types *)

\* The types hold initially.
LEMMA InitTypeInv == Init => TypeInv
  <1> SUFFICES ASSUME Init PROVE TypeInv
    OBVIOUS
  <1>1. /\ tasks = <<>> /\ events = <<>> /\ source = None /\ threads = {}
        /\ busy = FALSE /\ running = {} /\ cancelled = {} /\ pending = None
        /\ spec = None /\ path = None /\ derived = None
        /\ symbol = None /\ native = None /\ views = NoViews
        /\ snapshot = None /\ seed = None /\ shown = NoResults
    BY DEF Init
  <1>2. QueuesInv
    <2>1. <<>> \in Seq(Jobs) /\ Len(<<>>) = 0
      BY EmptySeq
    <2>2. Named(<<>>)
      BY <2>1 DEF Named
    <2> QED
      BY <1>1, <2>1, <2>2, CapacityAssumption DEF QueuesInv
  <1>3. WorkInv
    BY <1>1, FS_EmptySet DEF WorkInv, Binaries
  <1>4. FlagsTyped
    BY <1>1 DEF FlagsTyped, Binaries
  <1>5. ProjectInv
    BY <1>1 DEF ProjectInv, Binaries
  <1>6. EvidenceInv
    BY <1>1, NothingShown DEF EvidenceInv, Functions, Seeds
  <1> QED
    BY <1>2, <1>3, <1>4, <1>5, <1>6 DEF TypeInv

\* The parts of the state that a step leaves alone keep their types.
LEMMA TypesKept ==
    ASSUME TypeInv
    PROVE  /\ UNCHANGED events => events' \in Seq(Jobs) /\ Len(events') <= QueueCapacity
                                  /\ Named(events')
           /\ UNCHANGED tasks => tasks' \in Seq(Jobs) /\ Len(tasks') <= QueueCapacity
                                 /\ Named(tasks')
           /\ UNCHANGED work => WorkInv'
           /\ UNCHANGED flags => FlagsTyped'
           /\ UNCHANGED project => ProjectInv'
           /\ UNCHANGED evidence => EvidenceInv'
           /\ UNCHANGED pending => pending' \in Binaries
           /\ UNCHANGED <<symbol, native, views, snapshot, seed>> =>
                 symbol' \in Functions /\ native' \in Snapshots \cup {None}
                 /\ views' \in [Views -> Binaries] /\ snapshot' \in Snapshots \cup {None}
                 /\ seed' \in Seeds
  BY DEF TypeInv, QueuesInv, WorkInv, FlagsTyped, ProjectInv, EvidenceInv, work, flags,
         project, evidence

\* A job the user starts leaves the types of channels and flags.
LEMMA StartTypes ==
    ASSUME TypeInv, NEW j \in Jobs, Opens(j) => j.binary \in Binary, Start(j),
           UNCHANGED events, pending' \in Binaries
    PROVE  QueuesInv' /\ FlagsTyped'
  <1>1. <<j>> \in Seq(Jobs) /\ Named(<<j>>)
    BY OneJob
  <1>2. busy \in BOOLEAN /\ running \in SUBSET Flags
    BY DEF TypeInv, FlagsTyped
  <1>3. Enqueue(<<j>>, busy, running)
    BY DEF Start
  <1>4. /\ tasks' \in Seq(Jobs) /\ Len(tasks') <= QueueCapacity /\ Named(tasks')
        /\ busy' \in BOOLEAN /\ running' \in SUBSET Flags /\ cancelled' \in SUBSET Flags
    BY <1>1, <1>2, <1>3, EnqueueTypes
  <1> QED
    BY <1>4, TypesKept DEF QueuesInv, FlagsTyped

\* A snapshot has a binary and a function.
LEMMA SnapshotFields ==
    ASSUME TypeInv, snapshot # None
    PROVE  snapshot \in Snapshots /\ snapshot.binary \in Binaries
           /\ snapshot.function \in Functions
  BY DEF TypeInv, EvidenceInv, Snapshots

\* The types after a step of the user.
LEMMA UserTypes ==
    ASSUME TypeInv, User
    PROVE  TypeInv'
  <1>0. /\ "open" \in Kinds /\ "derive" \in Kinds /\ "select" \in Kinds
        /\ "analyze" \in Kinds
    BY DEF Kinds, Foreground, Background
  <1>1. spec \in Binaries /\ seed \in Seeds /\ None \in Binaries /\ None \in Functions
        /\ None \in Seeds /\ running \in SUBSET Flags /\ cancelled \in SUBSET Flags
        /\ Binary \subseteq Binaries /\ Function \subseteq Functions /\ Seed \subseteq Seeds
    BY DEF TypeInv, ProjectInv, EvidenceInv, FlagsTyped, Binaries, Functions, Seeds
  <1>2. ASSUME NEW b \in Binary, OpenFile(b)
        PROVE  TypeInv'
    <2> DEFINE j == Job("open", b, None, None)
    <2>1. j \in Jobs /\ j.kind = "open" /\ j.binary = b
      BY <1>0, <1>1, JobFields
    <2>2. Start(j) /\ UNCHANGED <<events, work, pending, project, evidence>>
      BY <1>2 DEF OpenFile
    <2> HIDE DEF j
    <2>3. QueuesInv' /\ FlagsTyped'
      BY <2>1, <2>2, StartTypes, TypesKept
    <2> QED
      BY <2>2, <2>3, TypesKept DEF TypeInv
  <1>3. CASE Derive
    <2> DEFINE j == Job("derive", spec, None, None)
    <2>1. j \in Jobs /\ j.kind = "derive" /\ j.binary = spec
      BY <1>0, <1>1, JobFields
    <2>2. /\ Start(j) /\ UNCHANGED <<events, work, pending, project, evidence>>
          /\ spec # None
      BY <1>3 DEF Derive
    <2>3. j.binary \in Binary
      BY <1>1, <2>1, <2>2 DEF Binaries
    <2> HIDE DEF j
    <2>4. QueuesInv' /\ FlagsTyped'
      BY <2>1, <2>2, <2>3, StartTypes, TypesKept
    <2> QED
      BY <2>2, <2>4, TypesKept DEF TypeInv
  <1>4. ASSUME NEW f \in Function, Select(f)
        PROVE  TypeInv'
    <2> DEFINE j == Job("select", None, f, None)
    <2>1. j \in Jobs /\ j.kind = "select"
      BY <1>0, <1>1, JobFields
    <2>2. /\ Start(j)
          /\ UNCHANGED <<events, work, pending, project, views, snapshot, seed, shown>>
          /\ symbol' = f /\ native' = None
      BY <1>4 DEF Select
    <2> HIDE DEF j
    <2>3. QueuesInv' /\ FlagsTyped'
      BY <2>1, <2>2, StartTypes, TypesKept DEF Opens
    <2>4. EvidenceInv'
      BY <1>1, <2>2 DEF TypeInv, EvidenceInv
    <2> QED
      BY <2>2, <2>3, <2>4, TypesKept DEF TypeInv
  <1>5. ASSUME NEW f \in Function \cup {None}, Analyze(f)
        PROVE  TypeInv'
    <2> DEFINE j == Job("analyze", spec, f, None)
    <2>1. j \in Jobs /\ j.kind = "analyze"
      BY <1>0, <1>1, JobFields
    <2>2. Start(j) /\ UNCHANGED <<events, work, pending, project, evidence>>
      BY <1>5 DEF Analyze
    <2> HIDE DEF j
    <2>3. QueuesInv' /\ FlagsTyped'
      BY <2>1, <2>2, StartTypes, TypesKept DEF Opens
    <2> QED
      BY <2>2, <2>3, TypesKept DEF TypeInv
  <1>6. ASSUME NEW k \in {"path", "calls", "assess", "llvm"},
               Start(Job(k, snapshot.binary, snapshot.function, seed)), snapshot # None,
               shown' = [shown EXCEPT ![k] = None],
               UNCHANGED <<events, work, pending, project, symbol, native, views, snapshot, seed>>
        PROVE  TypeInv'
    <2> DEFINE j == Job(k, snapshot.binary, snapshot.function, seed)
    <2>1. snapshot.binary \in Binaries /\ snapshot.function \in Functions
      BY <1>6, SnapshotFields
    <2>2. k \in Kinds /\ k \notin {"open", "derive"} /\ k \in Panels
      BY DEF Kinds, Foreground, Background, Panels
    <2>3. j \in Jobs /\ j.kind = k
      BY <1>1, <2>1, <2>2, JobFields
    <2>4. Start(j)
      BY <1>6
    <2> HIDE DEF j
    <2>5. QueuesInv' /\ FlagsTyped'
      BY <1>6, <2>2, <2>3, <2>4, StartTypes, TypesKept DEF Opens
    <2>6. shown' \in [Panels -> Results \cup {None}]
      BY <1>6, <2>2, ShownTypes
    <2>7. EvidenceInv'
      BY <1>6, <2>6, TypesKept DEF EvidenceInv
    <2> QED
      BY <1>6, <2>5, <2>7, TypesKept DEF TypeInv
  <1>7. CASE TracePath
    BY <1>6, <1>7 DEF TracePath
  <1>8. ASSUME NEW k \in {"calls", "assess", "llvm"}, StartSeeded(k)
        PROVE  TypeInv'
    BY <1>6, <1>8 DEF StartSeeded
  <1>9. ASSUME NEW flag \in Flags, Cancel(flag)
        PROVE  TypeInv'
    <2>1. /\ cancelled' = cancelled \cup {flag} /\ pending' \in {None, pending}
          /\ UNCHANGED <<queues, work, busy, running, project, evidence>>
      BY <1>9 DEF Cancel
    <2>2. FlagsTyped'
      BY <1>1, <2>1 DEF TypeInv, FlagsTyped
    <2> QED
      BY <2>1, <2>2, TypesKept DEF TypeInv, QueuesInv, queues
  <1>10. ASSUME NEW s \in Seed, EditSeed(s)
         PROVE  TypeInv'
    <2>1. /\ seed' = s /\ shown' = NoResults
          /\ cancelled' = cancelled \cup (running \cap {"llvm"})
          /\ UNCHANGED <<queues, work, busy, running, pending, project, symbol, native,
                         views, snapshot>>
      BY <1>10 DEF EditSeed
    <2>2. FlagsTyped'
      BY <1>1, <2>1 DEF TypeInv, FlagsTyped
    <2>3. EvidenceInv'
      BY <1>1, <2>1, NothingShown DEF TypeInv, EvidenceInv
    <2> QED
      BY <2>1, <2>2, <2>3, TypesKept DEF TypeInv, QueuesInv, queues
  <1>11. ASSUME NEW s \in Seed, CapturedSeed(s)
         PROVE  TypeInv'
    <2>1. /\ seed' = s /\ shown' = [shown EXCEPT !["path"] = None]
          /\ UNCHANGED <<queues, work, flags, project, symbol, native, views, snapshot>>
      BY <1>11 DEF CapturedSeed
    <2>2. shown' \in [Panels -> Results \cup {None}]
      BY <2>1, ShownTypes DEF Panels
    <2>3. EvidenceInv'
      BY <1>1, <2>1, <2>2 DEF TypeInv, EvidenceInv
    <2> QED
      BY <2>1, <2>3, TypesKept DEF TypeInv, QueuesInv, queues
  <1> QED
    BY <1>2, <1>3, <1>4, <1>5, <1>7, <1>8, <1>9, <1>10, <1>11 DEF User

\* An answer e of the worker itself.  After an answer that opens a binary the
\* worker has that one open, after another the one it had; the views of a selected
\* function are of the binary it has.
Answered(e) ==
    /\ Send(e) /\ UNCHANGED threads
    /\ e.kind \notin Background
    /\ Opens(e) => e.binary \in Binary /\ source' = e.binary
    /\ ~Opens(e) => source' = source
    /\ e.kind = "select" => e.binary = source

\* A step of the worker takes a task; it starts a thread or answers.
LEMMA WorkerStep ==
    ASSUME TypeInv, Worker
    PROVE  /\ \/ \E kind \in Background : WorkBackground(kind)
              \/ \E kind \in Kinds \ Background : Take(kind) /\ \E e \in Jobs : Answered(e)
           /\ UNCHANGED <<flags, project, evidence, commands>>
  <1>1. source \in Binaries /\ \A b \in Binary : Rebuilt[b] \in Binary
    BY RebuiltAssumption DEF TypeInv, WorkInv
  <1> DEFINE t == Head(tasks)
  <1>2. ASSUME NEW kind, Take(kind)
        PROVE  t \in Jobs /\ t.kind = kind /\ (Opens(t) => t.binary \in Binary)
    BY <1>2, TakeTypes
  <1>3. \A k \in {"open", "derive", "select", "annotations", "disassemble", "bytes", "path"} :
           k \in Kinds \ Background
    BY DEF Kinds, Background, Foreground
  <1>4. "failed" \notin Background /\ Binary \subseteq Binaries
    BY DEF Background, Binaries
  <1> HIDE DEF t
  <1>5. ASSUME NEW kind, Take(kind), Send(Failed(t)), UNCHANGED work
        PROVE  \E e \in Jobs : Answered(e)
    <2>1. Failed(t) \in Jobs /\ Failed(t).kind = "failed"
      BY <1>2, <1>5, AnswerFields, <1>1
    <2> QED
      BY <1>4, <1>5, <2>1 DEF Answered, Opens, work
  <1>6. CASE WorkOpen
    <2>1. Take("open") /\ UNCHANGED threads
      BY <1>6 DEF WorkOpen
    <2>2. t \in Jobs /\ t.kind = "open" /\ t.binary \in Binary
      BY <1>2, <2>1 DEF Opens
    <2>3. \/ source' = t.binary /\ Send([t EXCEPT !.path = t.binary])
          \/ source' = source /\ Send(Failed(t))
      BY <1>6 DEF WorkOpen, t
    <2>4. ASSUME source' = t.binary, Send([t EXCEPT !.path = t.binary])
          PROVE  \E e \in Jobs : Answered(e)
      <3> DEFINE e == [t EXCEPT !.path = t.binary]
      <3>1. e \in Jobs /\ e.kind = "open" /\ e.binary = t.binary
        BY <1>4, <2>2, AnswerFields
      <3>2. Send(e) /\ source' = t.binary
        BY <2>4
      <3> HIDE DEF e
      <3>3. Answered(e)
        BY <1>3, <2>1, <2>2, <3>1, <3>2 DEF Answered, Opens
      <3> QED
        BY <3>1, <3>3
    <2>5. \E e \in Jobs : Answered(e)
      BY <1>5, <2>1, <2>3, <2>4 DEF work
    <2> QED
      BY <1>3, <2>1, <2>5 DEF Worker
  <1>7. CASE WorkDerive
    <2>1. Take("derive") /\ UNCHANGED threads
      BY <1>7 DEF WorkDerive
    <2>2. t \in Jobs /\ t.kind = "derive"
      BY <1>2, <2>1
    <2>3. \/ /\ source # None /\ source' = Rebuilt[source]
             /\ Send([t EXCEPT !.path = Rebuilt[source], !.binary = Rebuilt[source]])
          \/ source' = source /\ Send(Failed(t))
      BY <1>7 DEF WorkDerive, t
    <2>4. ASSUME source # None, source' = Rebuilt[source],
                 Send([t EXCEPT !.path = Rebuilt[source], !.binary = Rebuilt[source]])
          PROVE  \E e \in Jobs : Answered(e)
      <3> DEFINE b == Rebuilt[source]
                 e == [t EXCEPT !.path = b, !.binary = b]
      <3>1. b \in Binary
        BY <1>1, <2>4 DEF Binaries
      <3>2. Send(e) /\ source' = b
        BY <2>4
      <3> HIDE DEF b
      <3>3. e \in Jobs /\ e.kind = "derive" /\ e.binary = b
        BY <1>4, <2>2, <3>1, AnswerFields
      <3> HIDE DEF e
      <3>4. Answered(e)
        BY <1>3, <2>1, <2>2, <3>1, <3>2, <3>3 DEF Answered, Opens
      <3> QED
        BY <3>3, <3>4
    <2>5. \E e \in Jobs : Answered(e)
      BY <1>5, <2>1, <2>3, <2>4 DEF work
    <2> QED
      BY <1>3, <2>1, <2>5 DEF Worker
  <1>8. ASSUME NEW kind \in {"select", "disassemble"}, Take(kind),
               Send([t EXCEPT !.binary = source]), UNCHANGED work
        PROVE  \E e \in Jobs : Answered(e)
    <2> DEFINE e == [t EXCEPT !.binary = source]
    <2>1. e \in Jobs /\ e.kind = kind /\ e.binary = source
      BY <1>1, <1>2, <1>8, AnswerFields, ZenonT(40)
    <2>2. Send(e)
      BY <1>8
    <2> HIDE DEF e
    <2>3. Answered(e)
      BY <1>3, <1>8, <2>1, <2>2 DEF Answered, Opens, work
    <2> QED
      BY <2>1, <2>3
  <1>9. ASSUME NEW kind \in {"disassemble", "bytes", "path"}, Take(kind), NEW ok \in BOOLEAN,
               Send([t EXCEPT !.ok = ok]), UNCHANGED work
        PROVE  \E e \in Jobs : Answered(e)
    <2> DEFINE e == [t EXCEPT !.ok = ok]
    <2>1. e \in Jobs /\ e.kind = kind
      BY <1>1, <1>2, <1>9, AnswerFields, ZenonT(40)
    <2>2. Send(e)
      BY <1>9
    <2> HIDE DEF e
    <2>3. Answered(e)
      BY <1>3, <1>9, <2>1, <2>2 DEF Answered, Opens, work
    <2> QED
      BY <2>1, <2>3
  <1>10. CASE WorkSelect
    <2>1. /\ Take("select") /\ UNCHANGED work
          /\ \/ Send(Failed(t))
             \/ Send([t EXCEPT !.binary = source])
      BY <1>10 DEF WorkSelect, t
    <2>2. \E e \in Jobs : Answered(e)
      BY <2>1, <1>5, <1>8
    <2> QED
      BY <1>3, <2>1, <2>2 DEF Worker
  <1>11. CASE WorkAnnotations
    <2>1. /\ Take("annotations") /\ UNCHANGED work
          /\ \/ Send(t)
             \/ Send(Failed(t))
      BY <1>11 DEF WorkAnnotations, t
    <2>2. t \in Jobs /\ t.kind = "annotations"
      BY <1>2, <2>1
    <2>3. ASSUME Send(t)
          PROVE  \E e \in Jobs : Answered(e)
      BY <1>3, <2>1, <2>2, <2>3 DEF Answered, Opens, work
    <2>4. \E e \in Jobs : Answered(e)
      BY <2>1, <2>3, <1>5
    <2> QED
      BY <1>3, <2>1, <2>4 DEF Worker
  <1>12. CASE WorkDisassemble
    <2>1. /\ Take("disassemble") /\ UNCHANGED work
          /\ \/ Send([t EXCEPT !.binary = source])
             \/ Send([t EXCEPT !.ok = FALSE])
      BY <1>12 DEF WorkDisassemble, t
    <2>2. \E e \in Jobs : Answered(e)
      BY <2>1, <1>8, <1>9
    <2> QED
      BY <1>3, <2>1, <2>2 DEF Worker
  <1>13. CASE WorkBytes
    <2>1. Take("bytes") /\ UNCHANGED work /\ Send([t EXCEPT !.ok = (source = t.binary)])
      BY <1>13 DEF WorkBytes, t
    <2>2. PICK ok \in BOOLEAN : ok = (source = t.binary)
      OBVIOUS
    <2>3. \E e \in Jobs : Answered(e)
      BY <2>1, <2>2, <1>9
    <2> QED
      BY <1>3, <2>1, <2>3 DEF Worker
  <1>14. CASE WorkPath
    <2>1. Take("path") /\ UNCHANGED work /\ \E ok \in BOOLEAN : Send([t EXCEPT !.ok = ok])
      BY <1>14 DEF WorkPath, t
    <2>2. \E e \in Jobs : Answered(e)
      BY <2>1, <1>9
    <2> QED
      BY <1>3, <2>1, <2>2 DEF Worker
  <1> QED
    BY <1>6, <1>7, <1>10, <1>11, <1>12, <1>13, <1>14 DEF Worker

\* The types after a step of the worker.
LEMMA WorkerTypes ==
    ASSUME TypeInv, Worker
    PROVE  TypeInv'
  <1>1. UNCHANGED <<flags, project, evidence, commands>>
    BY WorkerStep
  <1>2. ASSUME NEW kind \in Background, WorkBackground(kind)
        PROVE  QueuesInv' /\ WorkInv'
    <2>1. Take(kind) /\ threads' = threads \cup {Head(tasks)} /\ UNCHANGED <<source, events>>
      BY <1>2 DEF WorkBackground
    <2>2. /\ Head(tasks) \in Jobs /\ Head(tasks).kind = kind
          /\ tasks' \in Seq(Jobs) /\ Len(tasks') <= QueueCapacity /\ Named(tasks')
      BY <2>1, TakeTypes
    <2>3. WorkInv'
      BY <2>1, <2>2, FS_AddElement DEF TypeInv, WorkInv
    <2> QED
      BY <2>1, <2>2, <2>3, TypesKept DEF QueuesInv
  <1>3. ASSUME NEW kind, Take(kind), NEW e \in Jobs, Answered(e)
        PROVE  QueuesInv' /\ WorkInv'
    <2>1. tasks' \in Seq(Jobs) /\ Len(tasks') <= QueueCapacity /\ Named(tasks')
      BY <1>3, TakeTypes
    <2>2. Send(e) /\ UNCHANGED threads
      BY <1>3 DEF Answered
    <2>3. (Opens(e) => e.binary \in Binary) /\ source' \in Binaries
      BY <1>3 DEF Answered, TypeInv, WorkInv, Binaries
    <2>4. events' \in Seq(Jobs) /\ Len(events') <= QueueCapacity /\ Named(events')
      BY <2>2, <2>3, SendTypes
    <2> QED
      BY <2>1, <2>2, <2>3, <2>4 DEF QueuesInv, TypeInv, WorkInv
  <1>4. QueuesInv' /\ WorkInv'
    BY WorkerStep, <1>2, <1>3
  <1> QED
    BY <1>1, <1>4, TypesKept DEF TypeInv

\* A background task ends with an answer of its kind.
LEMMA FinishStep ==
    ASSUME TypeInv, NEW t \in threads, Finish(t)
    PROVE  /\ \E e \in Jobs : Send(e) /\ e.kind = t.kind
           /\ t \in Jobs /\ t.kind \in Background
           /\ threads' = threads \ {t}
           /\ UNCHANGED <<tasks, source, flags, project, evidence, commands>>
  <1>1. t \in Jobs /\ t.kind \in Background /\ source \in Binaries
    BY DEF TypeInv, WorkInv
  <1>2. PICK ok \in BOOLEAN : Send([t EXCEPT !.ok = ok])
    BY DEF Finish
  <1>3. [t EXCEPT !.ok = ok] \in Jobs /\ [t EXCEPT !.ok = ok].kind = t.kind
    BY <1>1, AnswerFields
  <1> QED
    BY <1>1, <1>2, <1>3 DEF Finish

\* The types after the end of a background task.
LEMMA FinishTypes ==
    ASSUME TypeInv, NEW t \in threads, Finish(t)
    PROVE  TypeInv'
  <1>1. /\ t \in Jobs /\ t.kind \in Background
        /\ threads' = threads \ {t}
        /\ UNCHANGED <<tasks, source, flags, project, evidence, commands>>
    BY FinishStep
  <1>2. PICK e \in Jobs : Send(e) /\ e.kind = t.kind
    BY FinishStep
  <1>3. ~Opens(e)
    BY <1>1, <1>2 DEF Opens, Background
  <1>4. events' \in Seq(Jobs) /\ Len(events') <= QueueCapacity /\ Named(events')
    BY <1>2, <1>3, SendTypes
  <1>5. WorkInv'
    BY <1>1, FS_RemoveElement DEF TypeInv, WorkInv
  <1> QED
    BY <1>1, <1>4, <1>5, TypesKept DEF TypeInv, QueuesInv

\* The jobs of an import: annotations, an analysis unless one is in progress, the
\* disassembly and the bytes.
LEMMA ImportJobs ==
    ASSUME NEW a \in Jobs, NEW n \in Jobs, NEW d \in Jobs, NEW y \in Jobs,
           NEW s, s \in {<<>>, <<n>>}
    PROVE  LET q == <<a>> \o s \o <<d, y>>
           IN /\ q \in Seq(Jobs)
              /\ s = <<>> => Len(q) = 3 /\ q[1] = a /\ q[2] = d /\ q[3] = y
              /\ s = <<n>> => Len(q) = 4 /\ q[1] = a /\ q[2] = n /\ q[3] = d /\ q[4] = y
  <1>1. <<a>> \in Seq(Jobs) /\ Len(<<a>>) = 1 /\ <<a>>[1] = a
    OBVIOUS
  <1>2. <<d, y>> \in Seq(Jobs) /\ Len(<<d, y>>) = 2 /\ <<d, y>>[1] = d /\ <<d, y>>[2] = y
    OBVIOUS
  <1>3. <<n>> \in Seq(Jobs) /\ Len(<<n>>) = 1 /\ <<n>>[1] = n
    OBVIOUS
  <1>4. <<>> \in Seq(Jobs) /\ Len(<<>>) = 0
    OBVIOUS
  <1> DEFINE u == <<a>>
             v == <<d, y>>
             w == <<n>>
  <1>5. s \in Seq(Jobs)
    BY <1>3, <1>4
  <1> HIDE DEF u, v, w
  <1>6. /\ u \o s \in Seq(Jobs) /\ Len(u \o s) = 1 + Len(s)
        /\ (u \o s)[1] = a
        /\ s = w => (u \o s)[2] = n
    <2>1. /\ u \o s \in Seq(Jobs) /\ Len(u \o s) = Len(u) + Len(s)
          /\ \A i \in 1..(Len(u) + Len(s)) :
                (u \o s)[i] = IF i <= Len(u) THEN u[i] ELSE s[i - Len(u)]
      BY <1>1, <1>5, ConcatProperties DEF u
    <2>2. Len(s) \in Nat /\ Len(u) = 1 /\ u[1] = a
      BY <1>1, <1>5, LenProperties DEF u
    <2>3. s = w => Len(s) = 1 /\ s[1] = n
      BY <1>3 DEF w
    <2> QED
      BY <2>1, <2>2, <2>3
  <1> DEFINE p == u \o s
  <1>7. p \in Seq(Jobs) /\ Len(p) = 1 + Len(s) /\ p[1] = a /\ (s = w => p[2] = n)
    BY <1>6
  <1> HIDE DEF p
  <1>8. /\ p \o v \in Seq(Jobs) /\ Len(p \o v) = Len(p) + 2
        /\ \A i \in 1..(Len(p) + 2) : (p \o v)[i] = IF i <= Len(p) THEN p[i] ELSE v[i - Len(p)]
    BY <1>2, <1>7, ConcatProperties DEF v
  <1>9. v[1] = d /\ v[2] = y
    BY <1>2 DEF v
  <1>10. CASE s = <<>>
    <2>1. Len(p) = 1
      BY <1>4, <1>7, <1>10
    <2> QED
      BY <1>7, <1>8, <1>9, <1>10, <2>1 DEF p, u, v, w
  <1>11. CASE s = w
    <2>1. Len(p) = 2
      BY <1>3, <1>7, <1>11 DEF w
    <2>2. w # <<>>
      BY <1>3, <1>4 DEF w
    <2> QED
      BY <1>7, <1>8, <1>9, <1>11, <2>1, <2>2 DEF p, u, v, w
  <1> QED
    BY <1>10, <1>11 DEF w

\* The jobs of an import: what each is, and that only one is Ghidra's.
LEMMA ImportSends ==
    ASSUME TypeInv, OnImported
    PROVE  \E jobs \in Seq(Jobs) :
              LET sent == SubSeq(jobs, 1, Room(jobs))
              IN /\ tasks' = tasks \o sent
                 /\ busy' \in BOOLEAN
                 /\ \A i \in 1..Len(jobs) : ~Opens(jobs[i])
                 /\ \A i \in 1..Len(jobs) :
                       jobs[i].kind \in Background <=> i = 2 /\ "analysis" \notin running
                 /\ "analysis" \notin running =>
                       Len(jobs) = 4 /\ jobs[2].kind = "analyze"
                 /\ running' = running \cup
                       (IF "analysis" \notin running /\ Len(sent) >= 2
                        THEN {"analysis"} ELSE {})
                 /\ cancelled' \in SUBSET Flags
  <1> DEFINE e == Head(events)
             b == e.binary
             about(kind) == [Job(kind, b, None, None) EXCEPT !.path = b]
             an == about("annotations")
             gh == about("analyze")
             di == about("disassemble")
             by == Bytes(b)
             analysis == IF "analysis" \in running THEN <<>> ELSE <<gh>>
             stopped == {"call", "llvm"} \cup (IF spec \in {None, b} THEN {} ELSE {"analysis"})
             jobs == <<an>> \o analysis \o <<di, by>>
             sent == SubSeq(jobs, 1, Room(jobs))
             started == IF gh \in Range(sent) THEN {"analysis"} ELSE {}
  <1>1. /\ Event("open")
        /\ tasks' = tasks \o sent
        /\ busy' = \E j \in Range(sent) : j.kind \in Foreground
        /\ running' = running \cup started
        /\ cancelled' = (cancelled \cup (running \cap stopped)) \ started
    BY DEF OnImported
  <1>2. b \in Binary /\ b \in Binaries /\ None \in Functions /\ None \in Seeds
    BY <1>1, EventTypes DEF Opens, Binaries, Functions, Seeds
  <1>3. \A k \in {"annotations", "analyze", "disassemble", "bytes"} : k \in Kinds
    BY DEF Kinds, Background, Foreground
  <1> HIDE DEF b
  <1>4. ASSUME NEW k \in {"annotations", "analyze", "disassemble", "bytes"}
        PROVE  about(k) \in Jobs /\ about(k).kind = k
    <2>1. Job(k, b, None, None) \in Jobs /\ Job(k, b, None, None).kind = k
      BY <1>2, <1>3, JobFields
    <2> QED
      BY <1>2, <2>1, AnswerFields
  <1>5. /\ an \in Jobs /\ an.kind = "annotations" /\ gh \in Jobs /\ gh.kind = "analyze"
        /\ di \in Jobs /\ di.kind = "disassemble"
    BY <1>4
  <1>6. by \in Jobs /\ by.kind = "bytes"
    BY <1>4 DEF Bytes
  <1> HIDE DEF an, gh, di, by
  <1>7. /\ jobs \in Seq(Jobs)
        /\ analysis = <<>> => Len(jobs) = 3 /\ jobs[1] = an /\ jobs[2] = di /\ jobs[3] = by
        /\ analysis = <<gh>> => Len(jobs) = 4 /\ jobs[1] = an /\ jobs[2] = gh
                                /\ jobs[3] = di /\ jobs[4] = by
    BY <1>5, <1>6, ImportJobs
  <1>8. /\ "analysis" \in running => Len(jobs) = 3 /\ jobs[1] = an /\ jobs[2] = di /\ jobs[3] = by
        /\ "analysis" \notin running => Len(jobs) = 4 /\ jobs[1] = an /\ jobs[2] = gh
                                         /\ jobs[3] = di /\ jobs[4] = by
    BY <1>7
  <1> HIDE DEF jobs
  <1>9. \A i \in 1..Len(jobs) :
           i = 1 \/ i = 2 \/ i = 3 \/ (i = 4 /\ "analysis" \notin running)
    <2>1. /\ \A i \in 1..3 : i = 1 \/ i = 2 \/ i = 3
          /\ \A i \in 1..4 : i = 1 \/ i = 2 \/ i = 3 \/ i = 4
      OBVIOUS
    <2>2. /\ "analysis" \in running => Len(jobs) = 3
          /\ "analysis" \notin running => Len(jobs) = 4
      BY <1>8
    <2>3. CASE "analysis" \in running
      BY <2>1, <2>2, <2>3
    <2>4. CASE "analysis" \notin running
      BY <2>1, <2>2, <2>4
    <2> QED
      BY <2>3, <2>4
  <1>10. \A i \in 1..Len(jobs) : ~Opens(jobs[i])
    BY <1>5, <1>6, <1>8, <1>9 DEF Opens
  <1>11. \A i \in 1..Len(jobs) :
            jobs[i].kind \in Background <=> i = 2 /\ "analysis" \notin running
    <2>1. /\ an.kind \notin Background /\ gh.kind \in Background
          /\ di.kind \notin Background /\ by.kind \notin Background
      BY <1>5, <1>6 DEF Background
    <2>2. CASE "analysis" \in running
      <3>1. \A i \in 1..Len(jobs) : i = 1 \/ i = 2 \/ i = 3
        BY <1>9, <2>2
      <3> QED
        BY <1>8, <2>1, <2>2, <3>1
    <2>3. CASE "analysis" \notin running
      <3>1. \A i \in 1..Len(jobs) : i = 1 \/ i = 2 \/ i = 3 \/ i = 4
        BY <1>9, <2>3
      <3> QED
        BY <1>8, <2>1, <2>3, <3>1
    <2> QED
      BY <2>2, <2>3
  <1>12. /\ sent \in Seq(Jobs) /\ Len(sent) \in Nat
         /\ \A i \in 1..Len(sent) : i \in 1..Len(jobs) /\ sent[i] = jobs[i]
    BY <1>7, SentFields
  <1> HIDE DEF sent
  <1>13. gh \in Range(sent) <=> "analysis" \notin running /\ Len(sent) >= 2
    <2>1. gh \in Range(sent) <=> \E i \in 1..Len(sent) : sent[i] = gh
      BY <1>12 DEF Range
    <2>2. ASSUME NEW i \in 1..Len(sent), sent[i] = gh
          PROVE  "analysis" \notin running /\ Len(sent) >= 2
      <3>1. jobs[i].kind \in Background /\ i \in 1..Len(jobs)
        BY <2>2, <1>5, <1>12 DEF Background
      <3> QED
        BY <3>1, <1>11, <1>12, <2>2
    <2>3. ASSUME "analysis" \notin running, Len(sent) >= 2
          PROVE  \E i \in 1..Len(sent) : sent[i] = gh
      BY <2>3, <1>8, <1>12
    <2> QED
      BY <2>1, <2>2, <2>3
  <1>14. started = IF "analysis" \notin running /\ Len(sent) >= 2 THEN {"analysis"} ELSE {}
    BY <1>13
  <1>15. cancelled' \in SUBSET Flags /\ busy' \in BOOLEAN
    <2>1. cancelled \in SUBSET Flags /\ running \in SUBSET Flags
      BY DEF TypeInv, FlagsTyped
    <2> HIDE DEF started, stopped
    <2> QED
      BY <1>1, <2>1
  <1> HIDE DEF started
  <1> QED
    BY <1>1, <1>7, <1>8, <1>10, <1>11, <1>5, <1>14, <1>15 DEF sent

\* The jobs after a rebuild or a patch: annotations and bytes.
LEMMA DerivedSends ==
    ASSUME TypeInv, OnDerived
    PROVE  \E jobs \in Seq(Jobs) :
              /\ Enqueue(jobs, FALSE, running)
              /\ \A i \in 1..Len(jobs) : ~Opens(jobs[i]) /\ jobs[i].kind \notin Background
  <1> DEFINE b == Head(events).binary
             an == [Job("annotations", b, None, None) EXCEPT !.path = b]
             by == Bytes(b)
             jobs == <<an, by>>
  <1>1. Event("derive") /\ Enqueue(jobs, FALSE, running)
    BY DEF OnDerived
  <1>2. b \in Binary /\ b \in Binaries /\ None \in Functions /\ None \in Seeds
    BY <1>1, EventTypes DEF Opens, Binaries, Functions, Seeds
  <1>3. \A k \in {"annotations", "bytes"} : k \in Kinds
    BY DEF Kinds, Foreground
  <1> HIDE DEF b
  <1>4. ASSUME NEW k \in {"annotations", "bytes"}
        PROVE  /\ [Job(k, b, None, None) EXCEPT !.path = b] \in Jobs
               /\ [Job(k, b, None, None) EXCEPT !.path = b].kind = k
    <2>1. Job(k, b, None, None) \in Jobs /\ Job(k, b, None, None).kind = k
      BY <1>2, <1>3, JobFields
    <2> QED
      BY <1>2, <2>1, AnswerFields
  <1>5. an \in Jobs /\ an.kind = "annotations" /\ by \in Jobs /\ by.kind = "bytes"
    BY <1>4 DEF Bytes
  <1> HIDE DEF an, by
  <1>6. jobs \in Seq(Jobs) /\ Len(jobs) = 2 /\ jobs[1] = an /\ jobs[2] = by
    BY <1>5
  <1>7. \A i \in 1..2 : i = 1 \/ i = 2
    OBVIOUS
  <1> HIDE DEF jobs
  <1>8. \A i \in 1..Len(jobs) : ~Opens(jobs[i]) /\ jobs[i].kind \notin Background
    BY <1>5, <1>6, <1>7 DEF Opens, Background
  <1> QED
    BY <1>1, <1>6, <1>8

\* At the end of an analysis the pending one is sent if it finds room, and waits
\* no longer in any case.
LEMMA AnalyzedSends ==
    ASSUME TypeInv, OnAnalyzed
    PROVE  \E sent \in Seq(Jobs) :
              /\ tasks' = tasks \o sent /\ Len(tasks) + Len(sent) <= QueueCapacity
              /\ \/ sent = <<>>
                 \/ Len(sent) = 1 /\ sent[1].kind = "analyze"
              /\ running' = (running \ {"analysis"}) \cup
                               (IF sent = <<>> THEN {} ELSE {"analysis"})
              /\ pending' = None
  <1> DEFINE e == Head(events)
             next == StartPending(e)
             sent == SubSeq(next, 1, Room(next))
             n == Job("analyze", pending, None, None)
             p == [n EXCEPT !.path = pending]
  <1>1. /\ tasks' = tasks \o sent
        /\ running' = (running \ {"analysis"}) \cup (IF Room(next) = 1 THEN {"analysis"} ELSE {})
        /\ pending' = IF next = <<>> THEN pending ELSE None
    BY DEF OnAnalyzed
  <1>2. pending \in Binaries /\ None \in Functions /\ None \in Seeds /\ "analyze" \in Kinds
    BY DEF TypeInv, FlagsTyped, Functions, Seeds, Kinds, Background
  <1>3. n \in Jobs /\ n.kind = "analyze"
    BY <1>2, JobFields
  <1> HIDE DEF n
  <1>4. p \in Jobs /\ p.kind = "analyze"
    BY <1>2, <1>3, AnswerFields
  <1>5. next = IF pending = None THEN <<>> ELSE <<p>>
    BY DEF StartPending, n
  <1> HIDE DEF p, next
  <1>6. <<p>> \in Seq(Jobs) /\ Len(<<p>>) = 1 /\ <<p>>[1] = p /\ <<p>> # <<>>
        /\ <<>> \in Seq(Jobs) /\ Len(<<>>) = 0
    BY <1>4
  <1>7. next \in Seq(Jobs)
    BY <1>5, <1>6
  <1>8. /\ sent \in Seq(Jobs) /\ Len(sent) = Room(next)
        /\ Room(next) \in Nat /\ Room(next) <= Len(next)
        /\ Len(tasks) + Len(sent) <= QueueCapacity
        /\ \A i \in 1..Len(sent) : i \in 1..Len(next) /\ sent[i] = next[i]
    BY <1>7, SentFields
  <1> HIDE DEF sent
  <1>9. pending' = None
    BY <1>1, <1>5, <1>6
  <1>10. sent = <<>> <=> Room(next) = 0
    BY <1>8, EmptySeq
  <1>11. Room(next) = 0 \/ Room(next) = 1
    <2>1. Len(next) = 0 \/ Len(next) = 1
      BY <1>5, <1>6
    <2> QED
      BY <1>8, <2>1
  <1>12. sent # <<>> => Len(sent) = 1 /\ sent[1].kind = "analyze"
    <2>1. ASSUME sent # <<>>
          PROVE  Len(sent) = 1 /\ sent[1].kind = "analyze"
      <3>1. Room(next) = 1 /\ Len(sent) = 1
        BY <1>8, <1>10, <1>11, <2>1
      <3>2. next = <<p>>
        BY <1>5, <1>6, <1>8, <3>1
      <3>3. sent[1] = next[1]
        BY <1>8, <3>1
      <3> QED
        BY <1>4, <1>6, <3>1, <3>2, <3>3
    <2> QED
      BY <2>1
  <1>13. running' = (running \ {"analysis"}) \cup (IF sent = <<>> THEN {} ELSE {"analysis"})
    BY <1>1, <1>10, <1>11
  <1>14. tasks' = tasks \o sent
    BY <1>1 DEF sent
  <1> QED
    BY <1>8, <1>9, <1>12, <1>13, <1>14

\* Setting one view leaves the others.
LEMMA ViewsTypes ==
    ASSUME TypeInv, NEW v \in Views, NEW b \in Binaries
    PROVE  /\ [views EXCEPT ![v] = b] \in [Views -> Binaries]
           /\ [views EXCEPT ![v] = b][v] = b
           /\ \A w \in Views \ {v} : [views EXCEPT ![v] = b][w] = views[w]
  BY DEF TypeInv, EvidenceInv

\* The types after the event that a binary was opened.
LEMMA ImportedTypes ==
    ASSUME TypeInv, OnImported
    PROVE  TypeInv'
  <1> DEFINE b == Head(events).binary
  <1>1. /\ Event("open")
        /\ spec' = b /\ path' = b /\ derived' = None
        /\ symbol' = None /\ native' = None /\ views' = NoViews
        /\ snapshot' = None /\ seed' = None /\ shown' = NoResults
        /\ pending' = IF "analysis" \in running THEN b ELSE None
    BY DEF OnImported
  <1>2. b \in Binary
    BY <1>1, EventTypes DEF Opens
  <1> HIDE DEF b
  <1>3. PICK jobs \in Seq(Jobs) :
              LET sent == SubSeq(jobs, 1, Room(jobs))
              IN /\ tasks' = tasks \o sent
                 /\ busy' \in BOOLEAN
                 /\ \A i \in 1..Len(jobs) : ~Opens(jobs[i])
                 /\ \/ running' = running
                    \/ running' = running \cup {"analysis"}
                 /\ cancelled' \in SUBSET Flags
    BY ImportSends
  <1> DEFINE sent == SubSeq(jobs, 1, Room(jobs))
  <1>4. /\ sent \in Seq(Jobs) /\ Len(tasks) + Len(sent) <= QueueCapacity
        /\ \A i \in 1..Len(sent) : i \in 1..Len(jobs) /\ sent[i] = jobs[i]
    BY SentFields
  <1>5. tasks' = tasks \o sent
    BY <1>3
  <1> HIDE DEF sent
  <1>6. Named(sent)
    BY <1>3, <1>4 DEF Named
  <1>7. tasks' \in Seq(Jobs) /\ Len(tasks') <= QueueCapacity /\ Named(tasks')
    BY <1>4, <1>5, <1>6, NamedConcat DEF TypeInv, QueuesInv
  <1>8. events' \in Seq(Jobs) /\ Len(events') <= QueueCapacity /\ Named(events')
        /\ UNCHANGED work
    BY <1>1, EventTypes DEF work
  <1>9. FlagsTyped'
    BY <1>1, <1>2, <1>3 DEF TypeInv, FlagsTyped, Flags, Binaries
  <1>10. ProjectInv'
    BY <1>1, <1>2 DEF ProjectInv, Binaries
  <1>11. EvidenceInv'
    BY <1>1, NothingShown DEF EvidenceInv, Functions, Seeds
  <1> QED
    BY <1>7, <1>8, <1>9, <1>10, <1>11, TypesKept, SMTT(30) DEF TypeInv, QueuesInv

\* The types after the event that the open binary was rebuilt or patched.
LEMMA DerivedTypes ==
    ASSUME TypeInv, OnDerived
    PROVE  TypeInv'
  <1> DEFINE b == Head(events).binary
  <1>1. /\ Event("derive")
        /\ spec' = b /\ path' = b /\ derived' = b
        /\ symbol' = None /\ native' = None /\ views' = NoViews
        /\ UNCHANGED <<pending, snapshot, seed, shown>>
    BY DEF OnDerived
  <1>2. b \in Binary
    BY <1>1, EventTypes DEF Opens
  <1> HIDE DEF b
  <1>3. PICK jobs \in Seq(Jobs) :
              /\ Enqueue(jobs, FALSE, running)
              /\ \A i \in 1..Len(jobs) : ~Opens(jobs[i])
    BY DerivedSends
  <1>4. Named(jobs) /\ running \in SUBSET Flags
    BY <1>3 DEF Named, TypeInv, FlagsTyped
  <1>5. /\ tasks' \in Seq(Jobs) /\ Len(tasks') <= QueueCapacity /\ Named(tasks')
        /\ busy' \in BOOLEAN /\ running' \in SUBSET Flags /\ cancelled' \in SUBSET Flags
    BY <1>3, <1>4, EnqueueTypes
  <1>6. events' \in Seq(Jobs) /\ Len(events') <= QueueCapacity /\ Named(events')
        /\ UNCHANGED work
    BY <1>1, EventTypes DEF work
  <1>7. FlagsTyped'
    BY <1>1, <1>5, TypesKept DEF FlagsTyped
  <1>8. ProjectInv'
    BY <1>1, <1>2 DEF ProjectInv, Binaries
  <1>9. EvidenceInv'
    BY <1>1, NothingShown DEF TypeInv, EvidenceInv, Functions
  <1> QED
    BY <1>5, <1>6, <1>7, <1>8, <1>9, TypesKept DEF TypeInv, QueuesInv

\* The types after the event that an analysis ended.
LEMMA AnalyzedTypes ==
    ASSUME TypeInv, OnAnalyzed
    PROVE  TypeInv'
  <1> DEFINE e == Head(events)
             f == IF e.function = None THEN Entry ELSE e.function
             install == e.binary = spec /\ e.ok
             stopped == IF install THEN running \cap {"llvm"} ELSE {}
  <1>1. /\ Event("analyze")
        /\ \/ /\ snapshot' = [binary |-> e.binary, function |-> f]
              /\ seed' = Template /\ shown' = NoResults
           \/ UNCHANGED <<snapshot, seed, shown>>
        /\ cancelled' = (cancelled \ {"analysis"}) \cup stopped
        /\ UNCHANGED <<busy, project, symbol, native, views>>
    BY DEF OnAnalyzed
  <1>2. e \in Jobs
    BY <1>1, EventTypes
  <1>3. e.binary \in Binaries /\ f \in Functions
    BY <1>2, ChoiceAssumption DEF Jobs, Functions
  <1> HIDE DEF e, f
  <1>4. EvidenceInv'
    <2>1. CASE /\ snapshot' = [binary |-> e.binary, function |-> f]
               /\ seed' = Template /\ shown' = NoResults
      <3>1. snapshot' \in Snapshots /\ seed' \in Seeds
        BY <1>3, <2>1, ChoiceAssumption DEF Snapshots, Seeds
      <3> QED
        BY <1>1, <2>1, <3>1, NothingShown DEF TypeInv, EvidenceInv
    <2>2. CASE UNCHANGED <<snapshot, seed, shown>>
      BY <1>1, <2>2 DEF TypeInv, EvidenceInv
    <2> QED
      BY <1>1, <2>1, <2>2
  <1>5. PICK sent \in Seq(Jobs) :
              /\ tasks' = tasks \o sent /\ Len(tasks) + Len(sent) <= QueueCapacity
              /\ \/ sent = <<>>
                 \/ Len(sent) = 1 /\ sent[1].kind = "analyze"
              /\ running' = (running \ {"analysis"}) \cup
                               (IF sent = <<>> THEN {} ELSE {"analysis"})
              /\ pending' = None
    BY AnalyzedSends
  <1>6. Named(sent)
    <2>1. CASE sent = <<>>
      BY <2>1, EmptySeq DEF Named
    <2>2. CASE Len(sent) = 1 /\ sent[1].kind = "analyze"
      <3>1. \A i \in 1..1 : i = 1
        OBVIOUS
      <3> QED
        BY <2>2, <3>1 DEF Named, Opens
    <2> QED
      BY <1>5, <2>1, <2>2
  <1>7. tasks' \in Seq(Jobs) /\ Len(tasks') <= QueueCapacity /\ Named(tasks')
    BY <1>5, <1>6, NamedConcat DEF TypeInv, QueuesInv
  <1>8. events' \in Seq(Jobs) /\ Len(events') <= QueueCapacity /\ Named(events')
        /\ UNCHANGED work
    BY <1>1, EventTypes DEF work
  <1>9. FlagsTyped'
    <2>1. stopped \in SUBSET Flags
      BY DEF Flags
    <2> HIDE DEF stopped
    <2>2. running' \in SUBSET Flags
      BY <1>5 DEF TypeInv, FlagsTyped, Flags
    <2> QED
      BY <1>1, <1>5, <2>1, <2>2 DEF TypeInv, FlagsTyped, Binaries
  <1> QED
    BY <1>1, <1>4, <1>7, <1>8, <1>9, TypesKept DEF TypeInv, QueuesInv

\* The types after any other event, which sends no task.
LEMMA OtherTypes ==
    ASSUME TypeInv, NEW kind, Event(kind),
           UNCHANGED <<tasks, pending, project, symbol, snapshot, seed>>,
           busy' \in BOOLEAN, running' \in SUBSET running, cancelled' \in SUBSET cancelled,
           native' \in Snapshots \cup {None}, views' \in [Views -> Binaries],
           shown' \in [Panels -> Results \cup {None}]
    PROVE  TypeInv'
  <1>1. events' \in Seq(Jobs) /\ Len(events') <= QueueCapacity /\ Named(events')
        /\ UNCHANGED work
    BY EventTypes DEF work
  <1>2. FlagsTyped'
    BY DEF TypeInv, FlagsTyped
  <1>3. EvidenceInv'
    BY DEF TypeInv, EvidenceInv
  <1> QED
    BY <1>1, <1>2, <1>3, TypesKept DEF TypeInv, QueuesInv

\* The types after any step of the UI.
LEMMA PollTypes ==
    ASSUME TypeInv, Poll
    PROVE  TypeInv'
  <1> DEFINE e == Head(events)
  <1>1. /\ busy \in BOOLEAN /\ native \in Snapshots \cup {None} /\ views \in [Views -> Binaries]
        /\ shown \in [Panels -> Results \cup {None}]
    BY DEF TypeInv, FlagsTyped, EvidenceInv
  <1>2. ASSUME NEW kind, Event(kind)
        PROVE  e \in Jobs /\ e.binary \in Binaries /\ e.function \in Functions
    <2>1. e \in Jobs
      BY <1>2, EventTypes
    <2> QED
      BY <2>1 DEF Jobs
  <1> HIDE DEF e
  <1>3. CASE OnFailed
    <2>1. Event("failed") /\ UNCHANGED <<tasks, running, cancelled, pending, project, evidence>>
          /\ busy' = (busy /\ "failed" \in Quiet)
      BY <1>3 DEF OnFailed
    <2> QED
      BY <1>1, <2>1, OtherTypes DEF evidence
  <1>4. CASE OnSelected
    <2>1. /\ Event("select") /\ busy' = FALSE
          /\ native' = IF Current(e) THEN [binary |-> e.binary, function |-> e.function]
                       ELSE native
          /\ UNCHANGED <<tasks, running, cancelled, pending, project, symbol, views,
                         snapshot, seed, shown>>
      BY <1>4 DEF OnSelected, e
    <2>2. native' \in Snapshots \cup {None}
      BY <1>1, <1>2, <2>1 DEF Snapshots
    <2> QED
      BY <1>1, <2>1, <2>2, OtherTypes
  <1>5. ASSUME NEW kind, NEW v \in Views, OnView(kind, v)
        PROVE  TypeInv'
    <2>1. /\ Event(kind) /\ busy' = (busy /\ kind \in Quiet)
          /\ UNCHANGED <<tasks, running, cancelled, pending, project, symbol, native,
                         snapshot, seed, shown>>
          /\ views' = IF e.binary = spec
                      THEN [views EXCEPT ![v] = IF e.ok THEN e.binary
                                                  ELSE IF kind = "bytes" THEN None ELSE @]
                      ELSE views
      BY <1>5 DEF OnView, e
    <2> DEFINE c == IF e.ok THEN e.binary ELSE IF kind = "bytes" THEN None ELSE views[v]
    <2>2. c \in Binaries /\ views' \in {views, [views EXCEPT ![v] = c]}
      BY <1>1, <1>2, <2>1 DEF Binaries
    <2> HIDE DEF c
    <2>3. views' \in [Views -> Binaries]
      BY <1>1, <2>2, ViewsTypes
    <2> QED
      BY <1>1, <2>1, <2>3, OtherTypes
  <1>6. CASE OnPathTraced
    <2>1. /\ Event("path") /\ busy' = FALSE
          /\ shown' \in {[shown EXCEPT !["path"] = Result(e)], shown}
          /\ UNCHANGED <<tasks, running, cancelled, pending, project, symbol, native, views,
                         snapshot, seed>>
      BY <1>6 DEF OnPathTraced, e
    <2>2. shown' \in [Panels -> Results \cup {None}]
      BY <1>1, <1>2, <2>1, ResultTypes, ShownTypes DEF Panels
    <2> QED
      BY <1>1, <2>1, <2>2, OtherTypes
  <1>7. ASSUME NEW k \in {"calls", "assess", "llvm"}, OnSeeded(k)
        PROVE  TypeInv'
    <2> DEFINE stopped == Flag[k] \in cancelled /\ (k = "calls" => ~e.ok)
               r == IF stopped THEN None ELSE Result(e)
    <2>1. /\ Event(k) /\ busy' = (busy /\ k \in Quiet)
          /\ running' = running \ {Flag[k]} /\ cancelled' = cancelled \ {Flag[k]}
          /\ shown' = IF ~SeededMatches(e) THEN shown ELSE [shown EXCEPT ![k] = r]
          /\ UNCHANGED <<tasks, pending, project, symbol, native, views, snapshot, seed>>
      BY <1>7 DEF OnSeeded, e
    <2>2. r \in Results \cup {None} /\ k \in Panels
      BY <1>2, <2>1, ResultTypes DEF Panels
    <2> HIDE DEF r
    <2>3. shown' \in [Panels -> Results \cup {None}]
      BY <1>1, <2>1, <2>2, ShownTypes
    <2> QED
      BY <1>1, <2>1, <2>3, OtherTypes
  <1>8. "annotations" \in Views /\ "disassembly" \in Views /\ "bytes" \in Views
    BY DEF Views
  <1> QED
    BY <1>3, <1>4, <1>5, <1>6, <1>7, <1>8, ImportedTypes, DerivedTypes, AnalyzedTypes DEF Poll

\* The types are an invariant.
LEMMA NextTypeInv == TypeInv /\ [Next]_vars => TypeInv'
  <1> SUFFICES ASSUME TypeInv, [Next]_vars PROVE TypeInv'
    OBVIOUS
  <1>1. CASE UNCHANGED vars
    BY <1>1, TypesKept DEF vars, queues, TypeInv, QueuesInv
  <1> QED
    BY <1>1, UserTypes, WorkerTypes, FinishTypes, PollTypes DEF Next

-----------------------------------------------------------------------------
(* The open binary *)

\* The first event has been handled.
LEMMA LatestTail ==
    ASSUME NEW s \in Seq(Jobs), s # <<>>, NEW o, NEW k \in 1..Len(s), NEW b,
           Latest(s, o, k + 1, b)
    PROVE  Latest(Tail(s), IF Opens(s[1]) THEN s[1].binary ELSE o, k, b)
  <1> DEFINE q == Tail(s)
             p == IF Opens(s[1]) THEN s[1].binary ELSE o
  <1>1. k \in Nat /\ Len(s) \in Nat /\ k >= 1 /\ k <= Len(s)
    BY LenProperties
  <1>2. \A i \in 1..(k - 1) : q[i] = s[i + 1]
    <2>1. \A i \in 1..(Len(s) - 1) : q[i] = s[i + 1]
      BY HeadTailProperties
    <2> QED
      BY <1>1, <2>1
  <1>3. /\ (\A j \in 1..k : ~Opens(s[j])) => b = o
        /\ \A i \in 1..k : Opens(s[i]) /\ (\A j \in (i + 1)..k : ~Opens(s[j])) => b = s[i].binary
    BY <1>1 DEF Latest
  <1> HIDE DEF q, Opens
  <1>4. ASSUME \A j \in 1..(k - 1) : ~Opens(q[j])
        PROVE  b = p
    <2>1. \A j \in 2..k : ~Opens(s[j])
      <3>1. ASSUME NEW j \in 2..k
            PROVE  ~Opens(s[j])
        <4>1. j - 1 \in 1..(k - 1) /\ (j - 1) + 1 = j
          BY <1>1
        <4> QED
          BY <4>1, <1>2, <1>4
      <3> QED
        BY <3>1
    <2>2. CASE Opens(s[1])
      <3>1. 1 \in 1..k /\ \A j \in (1 + 1)..k : ~Opens(s[j])
        BY <1>1, <2>1
      <3> QED
        BY <1>3, <2>2, <3>1
    <2>3. CASE ~Opens(s[1])
      <3>1. \A j \in 1..k : j = 1 \/ j \in 2..k
        BY <1>1
      <3> QED
        BY <1>3, <2>1, <2>3, <3>1
    <2> QED
      BY <2>2, <2>3
  <1>5. ASSUME NEW i \in 1..(k - 1), Opens(q[i]), \A j \in (i + 1)..(k - 1) : ~Opens(q[j])
        PROVE  b = q[i].binary
    <2>1. i + 1 \in 1..k /\ q[i] = s[i + 1]
      BY <1>1, <1>2
    <2>2. ASSUME NEW j \in ((i + 1) + 1)..k
          PROVE  ~Opens(s[j])
      <3>1. j - 1 \in (i + 1)..(k - 1) /\ j - 1 \in 1..(k - 1) /\ (j - 1) + 1 = j
        BY <1>1
      <3> QED
        BY <3>1, <1>2, <1>5
    <2> QED
      BY <1>3, <1>5, <2>1, <2>2
  <1> HIDE DEF p
  <1>6. Latest(q, p, k, b)
    BY <1>4, <1>5 DEF Latest
  <1> QED
    BY <1>6 DEF p, q

\* An event that comes later changes nothing for those before it.
LEMMA LatestBefore ==
    ASSUME NEW s, NEW q, NEW n \in Nat, \A i \in 1..n : q[i] = s[i], NEW o,
           NEW k \in 1..(n + 1), NEW b, Latest(s, o, k, b)
    PROVE  Latest(q, o, k, b)
  <1> HIDE DEF Opens
  <1>1. \A i \in 1..(k - 1) : q[i] = s[i] /\ \A j \in (i + 1)..(k - 1) : q[j] = s[j]
    OBVIOUS
  <1> QED
    BY <1>1 DEF Latest

\* After one more event the binary it names is open, or the same one as before.
LEMMA LatestNext ==
    ASSUME NEW s \in Seq(Jobs), NEW e \in Jobs, NEW o, NEW b, NEW c,
           Latest(s, o, Len(s) + 1, b), c = IF Opens(e) THEN e.binary ELSE b
    PROVE  Latest(Append(s, e), o, Len(s) + 2, c)
  <1> DEFINE q == Append(s, e)
             n == Len(s)
  <1>1. n \in Nat /\ q[n + 1] = e /\ \A i \in 1..n : q[i] = s[i]
    BY AppendProperties, LenProperties
  <1>2. /\ (\A j \in 1..n : ~Opens(s[j])) => b = o
        /\ \A i \in 1..n : Opens(s[i]) /\ (\A j \in (i + 1)..n : ~Opens(s[j])) => b = s[i].binary
    BY <1>1 DEF Latest
  <1> HIDE DEF q, n, Opens
  <1>3. ASSUME \A j \in 1..(n + 1) : ~Opens(q[j])
        PROVE  c = o
    <2>1. ~Opens(e) /\ \A j \in 1..n : ~Opens(s[j])
      BY <1>1, <1>3
    <2> QED
      BY <1>2, <2>1
  <1>4. ASSUME NEW i \in 1..(n + 1), Opens(q[i]), \A j \in (i + 1)..(n + 1) : ~Opens(q[j])
        PROVE  c = q[i].binary
    <2>1. CASE i = n + 1
      BY <1>1, <1>4, <2>1
    <2>2. CASE i \in 1..n
      <3>1. ~Opens(e)
        <4>1. n + 1 \in (i + 1)..(n + 1)
          BY <1>1, <2>2
        <4> QED
          BY <1>1, <1>4, <4>1
      <3>2. \A j \in (i + 1)..n : ~Opens(s[j])
        <4>1. \A j \in (i + 1)..n : j \in (i + 1)..(n + 1) /\ j \in 1..n
          BY <1>1, <2>2
        <4> QED
          BY <1>1, <1>4, <4>1
      <3> QED
        BY <1>1, <1>2, <1>4, <2>2, <3>1, <3>2
    <2> QED
      BY <1>1, <2>1, <2>2
  <1>5. (n + 2) - 1 = n + 1
    BY <1>1
  <1>6. Latest(q, o, n + 2, c)
    BY <1>3, <1>4, <1>5 DEF Latest
  <1> QED
    BY <1>6 DEF q, n

\* An answer of the worker keeps the order.
LEMMA OrderAnswered ==
    ASSUME TypeInv, OrderInv, NEW e \in Jobs, events' = Append(events, e), spec' = spec,
           source' = IF Opens(e) THEN e.binary ELSE source,
           e.kind = "select" => e.binary = source
    PROVE  OrderInv'
  <1> DEFINE n == Len(events)
  <1>1. events \in Seq(Jobs) /\ n \in Nat
    BY LenProperties DEF TypeInv, QueuesInv
  <1>2. /\ Len(events') = n + 1 /\ events'[n + 1] = e
        /\ \A i \in 1..n : events'[i] = events[i]
    BY <1>1, AppendProperties
  <1>3. /\ Latest(events, spec, n + 1, source)
        /\ \A k \in 1..n :
              events[k].kind = "select" => Latest(events, spec, k, events[k].binary)
    BY DEF OrderInv
  <1> HIDE DEF n, Opens
  <1>4. Latest(events', spec, n + 2, source')
    BY <1>1, <1>3, LatestNext DEF n
  <1>5. ASSUME NEW k \in 1..(n + 1), events'[k].kind = "select"
        PROVE  Latest(events', spec, k, events'[k].binary)
    <2>1. CASE k \in 1..n
      <3>1. Latest(events, spec, k, events[k].binary) /\ events'[k] = events[k]
        BY <1>2, <1>3, <1>5, <2>1
      <3>2. k \in 1..(n + 1)
        BY <1>1, <2>1
      <3> QED
        BY <1>1, <1>2, <3>1, <3>2, LatestBefore
    <2>2. CASE k = n + 1
      <3>1. e.binary = source /\ events'[k] = e
        BY <1>2, <1>5, <2>2
      <3> QED
        BY <1>1, <1>2, <1>3, <2>2, <3>1, LatestBefore
    <2>3. k \in 1..n \/ k = n + 1
      BY <1>1
    <2> QED
      BY <2>1, <2>2, <2>3
  <1>6. Len(events') + 1 = n + 2
    BY <1>1, <1>2
  <1> QED
    BY <1>2, <1>4, <1>5, <1>6 DEF OrderInv

\* The UI keeps the order when it handles an event as what it is.
LEMMA OrderHandled ==
    ASSUME TypeInv, OrderInv, events # <<>>, events' = Tail(events),
           source' = source,
           spec' = IF Opens(Head(events)) THEN Head(events).binary ELSE spec
    PROVE  OrderInv'
  <1> DEFINE n == Len(events)
  <1>1. /\ events \in Seq(Jobs) /\ n \in Nat /\ n > 0
        /\ Head(events) = events[1]
        /\ Len(events') = n - 1
        /\ \A i \in 1..(n - 1) : events'[i] = events[i + 1]
    BY LenProperties, EmptySeq, HeadTailProperties DEF TypeInv, QueuesInv
  <1>2. /\ Latest(events, spec, n + 1, source)
        /\ \A k \in 1..n :
              events[k].kind = "select" => Latest(events, spec, k, events[k].binary)
    BY DEF OrderInv
  <1> HIDE DEF Opens
  <1>3. ASSUME NEW k \in 1..n, NEW b, Latest(events, spec, k + 1, b)
        PROVE  Latest(events', spec', k, b)
    BY <1>1, <1>3, LatestTail
  <1> HIDE DEF n
  <1>4. Latest(events', spec', n, source')
    BY <1>1, <1>2, <1>3
  <1>5. ASSUME NEW k \in 1..(n - 1), events'[k].kind = "select"
        PROVE  Latest(events', spec', k, events'[k].binary)
    <2>1. k + 1 \in 1..n /\ k \in 1..n /\ events'[k] = events[k + 1]
      BY <1>1
    <2>2. Latest(events, spec, k + 1, events[k + 1].binary)
      BY <1>2, <1>5, <2>1
    <2> QED
      BY <1>3, <2>1, <2>2
  <1>6. Len(events') + 1 = n
    BY <1>1
  <1> QED
    BY <1>1, <1>4, <1>5, <1>6 DEF OrderInv

\* The first of the events, when it is an answer "select", is about the bytes of
\* the open binary.
LEMMA SelectedIsOpen ==
    ASSUME TypeInv, OrderInv, events # <<>>, Head(events).kind = "select"
    PROVE  Head(events).binary = spec
  <1>1. Head(events) = events[1] /\ 1 \in 1..Len(events)
    BY EmptySeq, LenProperties, HeadTailProperties DEF TypeInv, QueuesInv
  <1>2. Latest(events, spec, 1, events[1].binary)
    BY <1>1 DEF OrderInv
  <1> QED
    BY <1>1, <1>2 DEF Latest

\* The event the UI handles says which binary it opens, if any.
LEMMA PollStep ==
    ASSUME TypeInv, Poll
    PROVE  /\ events # <<>> /\ events' = Tail(events) /\ source' = source
           /\ spec' = IF Opens(Head(events)) THEN Head(events).binary ELSE spec
  <1> DEFINE e == Head(events)
  <1>1. ASSUME NEW kind, Event(kind)
        PROVE  /\ events # <<>> /\ events' = Tail(events) /\ source' = source
               /\ Opens(e) <=> kind \in {"open", "derive"}
    BY <1>1, EventTypes, SMTT(30) DEF Opens
  <1> HIDE DEF e
  <1>2. CASE OnImported
    BY <1>1, <1>2 DEF OnImported, e
  <1>3. CASE OnDerived
    BY <1>1, <1>3 DEF OnDerived, e
  <1>4. ASSUME NEW kind \in Kinds, kind \notin {"open", "derive"}, Event(kind), UNCHANGED project
        PROVE  /\ events # <<>> /\ events' = Tail(events) /\ source' = source
               /\ spec' = IF Opens(e) THEN e.binary ELSE spec
    BY <1>1, <1>4 DEF project
  <1>5. \A k \in {"failed", "select", "annotations", "disassemble", "bytes", "analyze", "path",
                  "calls", "assess", "llvm"} : k \in Kinds /\ k \notin {"open", "derive"}
    BY DEF Kinds, Background, Foreground
  <1>6. CASE OnFailed
    BY <1>4, <1>5, <1>6 DEF OnFailed, e
  <1>7. CASE OnSelected
    BY <1>4, <1>5, <1>7 DEF OnSelected, e
  <1>8. CASE OnAnalyzed
    BY <1>4, <1>5, <1>8 DEF OnAnalyzed, e
  <1>9. CASE OnPathTraced
    BY <1>4, <1>5, <1>9 DEF OnPathTraced, e
  <1>10. ASSUME NEW kind \in {"annotations", "disassemble", "bytes"}, NEW v, OnView(kind, v)
         PROVE  /\ events # <<>> /\ events' = Tail(events) /\ source' = source
                /\ spec' = IF Opens(e) THEN e.binary ELSE spec
    BY <1>4, <1>5, <1>10 DEF OnView
  <1>11. ASSUME NEW k \in {"calls", "assess", "llvm"}, OnSeeded(k)
         PROVE  /\ events # <<>> /\ events' = Tail(events) /\ source' = source
                /\ spec' = IF Opens(e) THEN e.binary ELSE spec
    BY <1>4, <1>5, <1>11 DEF OnSeeded
  <1> QED
    BY <1>2, <1>3, <1>6, <1>7, <1>8, <1>9, <1>10, <1>11 DEF Poll, e

\* What a step of the user does to the open binary and its views: nothing, but
\* selecting a function takes the views of the one before away.
LEMMA UserKeeps ==
    ASSUME User
    PROVE  /\ UNCHANGED <<events, work, project, views, snapshot>>
           /\ native' = None \/ UNCHANGED <<native, symbol>>
  <1>1. ASSUME NEW b \in Binary, OpenFile(b)
        PROVE  UNCHANGED <<events, work, project, evidence>>
    BY <1>1 DEF OpenFile
  <1>2. CASE Derive
    BY <1>2 DEF Derive, evidence
  <1>3. ASSUME NEW f \in Function, Select(f)
        PROVE  UNCHANGED <<events, work, project, views, snapshot>> /\ native' = None
    BY <1>3 DEF Select
  <1>4. ASSUME NEW f \in Function \cup {None}, Analyze(f)
        PROVE  UNCHANGED <<events, work, project, evidence>>
    BY <1>4 DEF Analyze
  <1>5. CASE TracePath
    BY <1>5 DEF TracePath
  <1>6. ASSUME NEW k \in {"calls", "assess", "llvm"}, StartSeeded(k)
        PROVE  UNCHANGED <<events, work, project, views, snapshot, native, symbol>>
    BY <1>6 DEF StartSeeded
  <1>7. ASSUME NEW flag \in Flags, Cancel(flag)
        PROVE  UNCHANGED <<events, work, project, evidence>>
    BY <1>7 DEF Cancel, queues
  <1>8. ASSUME NEW s \in Seed, EditSeed(s) \/ CapturedSeed(s)
        PROVE  UNCHANGED <<events, work, project, views, snapshot, native, symbol>>
    BY <1>8 DEF EditSeed, CapturedSeed, queues
  <1> QED
    BY <1>1, <1>2, <1>3, <1>4, <1>5, <1>6, <1>7, <1>8 DEF User, evidence

\* What the worker sends changes nothing that the UI shows; the order holds.
LEMMA WorkerOrder ==
    ASSUME TypeInv, OrderInv, Worker
    PROVE  OrderInv' /\ UNCHANGED <<project, evidence>>
  <1>1. UNCHANGED <<flags, project, evidence, commands>> /\ spec' = spec
    BY WorkerStep DEF project
  <1>2. ASSUME NEW kind \in Background, WorkBackground(kind)
        PROVE  OrderInv'
    BY <1>1, <1>2 DEF WorkBackground, OrderInv
  <1>3. ASSUME NEW e \in Jobs, Answered(e)
        PROVE  OrderInv'
    <2>1. /\ events' = Append(events, e)
          /\ source' = IF Opens(e) THEN e.binary ELSE source
          /\ e.kind = "select" => e.binary = source
      BY <1>3 DEF Answered, Send
    <2> QED
      BY <1>1, <2>1, OrderAnswered
  <1> QED
    BY <1>1, <1>2, <1>3, WorkerStep

\* The same for the end of a background task.
LEMMA FinishOrder ==
    ASSUME TypeInv, OrderInv, NEW t \in threads, Finish(t)
    PROVE  OrderInv' /\ UNCHANGED <<project, evidence>>
  <1>1. PICK e \in Jobs : Send(e) /\ e.kind = t.kind
    BY FinishStep
  <1>2. /\ t.kind \in Background
        /\ UNCHANGED <<tasks, source, flags, project, evidence, commands>>
    BY FinishStep
  <1>3. ~Opens(e) /\ e.kind # "select"
    BY <1>1, <1>2 DEF Opens, Background
  <1>4. events' = Append(events, e) /\ spec' = spec /\ source' = source
    BY <1>1, <1>2 DEF Send, project
  <1>5. OrderInv'
    BY <1>3, <1>4, OrderAnswered
  <1> QED
    BY <1>2, <1>5

\* What the views show is of the open binary after each event.
LEMMA PollNative ==
    ASSUME TypeInv, NativeInv, Poll
    PROVE  NativeEvidenceIsOfTheOpenBinary'
  <1> DEFINE e == Head(events)
  <1>1. /\ native # None => native = [binary |-> spec, function |-> symbol]
        /\ \A v \in Views : views[v] \in {None, spec}
        /\ DOMAIN views = Views
        /\ OrderInv
    BY DEF NativeInv, NativeEvidenceIsOfTheOpenBinary, TypeInv, EvidenceInv
  <1>2. /\ views' \in [Views -> Binaries] /\ DOMAIN views' = Views
    BY PollTypes DEF TypeInv, EvidenceInv
  <1>3. ASSUME native' = None, views' = NoViews
        PROVE  NativeEvidenceIsOfTheOpenBinary'
    BY <1>2, <1>3, NothingShown DEF NativeEvidenceIsOfTheOpenBinary
  <1>4. ASSUME UNCHANGED <<project, symbol, native, views>>
        PROVE  NativeEvidenceIsOfTheOpenBinary'
    BY <1>1, <1>4, SMTT(30) DEF NativeEvidenceIsOfTheOpenBinary, project
  <1>5. CASE OnImported
    BY <1>3, <1>5 DEF OnImported
  <1>6. CASE OnDerived
    BY <1>3, <1>6 DEF OnDerived
  <1>7. CASE OnSelected
    <2>1. /\ Event("select")
          /\ native' = IF Current(e) THEN [binary |-> e.binary, function |-> e.function]
                       ELSE native
          /\ UNCHANGED <<project, symbol, views>>
      BY <1>7 DEF OnSelected
    <2>2. e.binary = spec
      BY <1>1, <2>1, SelectedIsOpen DEF Event
    <2> HIDE DEF e
    <2>3. native' # None => native' = [binary |-> spec, function |-> symbol]
      BY <1>1, <2>1, <2>2 DEF Current
    <2> QED
      BY <1>1, <2>1, <2>3 DEF NativeEvidenceIsOfTheOpenBinary, project
  <1>8. ASSUME NEW kind, NEW v \in Views, OnView(kind, v)
        PROVE  NativeEvidenceIsOfTheOpenBinary'
    <2> DEFINE c == IF e.ok THEN e.binary ELSE IF kind = "bytes" THEN None ELSE views[v]
    <2>1. /\ Event(kind)
          /\ UNCHANGED <<project, symbol, native>>
          /\ views' = IF e.binary = spec
                      THEN [views EXCEPT ![v] = IF e.ok THEN e.binary
                                                  ELSE IF kind = "bytes" THEN None ELSE @]
                      ELSE views
      BY <1>8 DEF OnView
    <2>2. e \in Jobs
      BY <2>1, EventTypes
    <2>3. e.binary \in Binaries /\ views[v] \in Binaries
      BY <2>2 DEF Jobs, TypeInv, EvidenceInv
    <2> HIDE DEF e
    <2>4. c \in Binaries /\ (e.binary = spec => c \in {None, spec})
      BY <1>1, <2>3 DEF Binaries
    <2>5. views' = views \/ (e.binary = spec /\ views' = [views EXCEPT ![v] = c])
      BY <2>1
    <2> HIDE DEF c
    <2>6. \A w \in Views : views'[w] \in {None, spec}
      BY <1>1, <2>4, <2>5, ViewsTypes
    <2> QED
      BY <1>1, <1>2, <2>1, <2>6 DEF NativeEvidenceIsOfTheOpenBinary, project
  <1>9. CASE OnFailed
    BY <1>4, <1>9 DEF OnFailed, evidence
  <1>10. CASE OnAnalyzed
    BY <1>4, <1>10 DEF OnAnalyzed
  <1>11. CASE OnPathTraced
    BY <1>4, <1>11 DEF OnPathTraced
  <1>12. ASSUME NEW k \in {"calls", "assess", "llvm"}, OnSeeded(k)
         PROVE  NativeEvidenceIsOfTheOpenBinary'
    BY <1>4, <1>12 DEF OnSeeded
  <1>13. "annotations" \in Views /\ "disassembly" \in Views /\ "bytes" \in Views
    BY DEF Views
  <1> QED
    BY <1>5, <1>6, <1>7, <1>8, <1>9, <1>10, <1>11, <1>12, <1>13 DEF Poll

\* Initially nothing is open and nothing is shown.
LEMMA InitNativeInv == Init => NativeInv
  <1> SUFFICES ASSUME Init PROVE NativeInv
    OBVIOUS
  <1>1. events = <<>> /\ Len(events) = 0 /\ spec = source /\ native = None /\ views = NoViews
    BY EmptySeq DEF Init
  <1>2. DOMAIN NoViews = Views
    BY DEF NoViews, Views
  <1> QED
    BY <1>1, <1>2, NothingShown
    DEF NativeInv, OrderInv, Latest, NativeEvidenceIsOfTheOpenBinary

\* Every step keeps the order of the events and the views of the open binary.
LEMMA NextNativeInv == TypeInv /\ NativeInv /\ [Next]_vars => NativeInv'
  <1> SUFFICES ASSUME TypeInv, NativeInv, [Next]_vars PROVE NativeInv'
    OBVIOUS
  <1>1. OrderInv /\ NativeEvidenceIsOfTheOpenBinary
    BY DEF NativeInv
  <1>2. ASSUME UNCHANGED <<events, work, project>>
        PROVE  OrderInv'
    BY <1>1, <1>2 DEF OrderInv, work, project
  <1>3. ASSUME UNCHANGED <<project, views>>, native' = None \/ UNCHANGED <<native, symbol>>
        PROVE  NativeEvidenceIsOfTheOpenBinary'
    BY <1>1, <1>3 DEF NativeEvidenceIsOfTheOpenBinary, project
  <1>4. CASE User
    BY <1>2, <1>3, <1>4, UserKeeps DEF NativeInv
  <1>5. CASE Worker
    BY <1>1, <1>3, <1>5, WorkerOrder DEF NativeInv, evidence
  <1>6. ASSUME NEW t \in threads, Finish(t)
        PROVE  NativeInv'
    BY <1>1, <1>3, <1>6, FinishOrder DEF NativeInv, evidence
  <1>7. CASE Poll
    BY <1>1, <1>7, PollStep, OrderHandled, PollNative DEF NativeInv
  <1>8. CASE UNCHANGED vars
    BY <1>2, <1>3, <1>8 DEF NativeInv, vars, queues, evidence
  <1> QED
    BY <1>4, <1>5, <1>6, <1>7, <1>8 DEF Next

-----------------------------------------------------------------------------
(* Ghidra's evidence *)

\* Nothing shown and no snapshot: there is nothing that could be of another binary.
LEMMA NothingIsCurrent ==
    ASSUME TypeInv, shown' = NoResults, snapshot' # None => snapshot'.binary = spec'
    PROVE  GhidraEvidenceIsCurrent'
  <1>1. DOMAIN NoResults = Panels /\ "path" \in Panels
    BY DEF NoResults, Panels
  <1> QED
    BY <1>1, NothingShown DEF GhidraEvidenceIsCurrent

\* One result is cleared or set to one of the snapshot and, for a path, the seed.
LEMMA ResultIsCurrent ==
    ASSUME TypeInv, GhidraEvidenceIsCurrent, UNCHANGED <<spec, derived, snapshot>>,
           NEW k \in Panels, NEW r \in Results \cup {None},
           shown' = [shown EXCEPT ![k] = r],
           derived = None /\ r # None =>
              /\ snapshot # None
              /\ r.binary = spec /\ r.function = snapshot.function,
           IF k = "path" THEN r # None => r.seed = seed' ELSE seed' = seed
    PROVE  GhidraEvidenceIsCurrent'
  <1>1. /\ DOMAIN shown = Panels /\ DOMAIN shown' = Panels /\ "path" \in Panels
        /\ shown'[k] = r
        /\ \A p \in Panels \ {k} : shown'[p] = shown[p]
    BY ShownTypes DEF TypeInv, EvidenceInv, Panels
  <1>2. ASSUME derived = None, NEW p \in Panels, shown'[p] # None
        PROVE  /\ snapshot # None
               /\ shown'[p].binary = spec /\ shown'[p].function = snapshot.function
    <2>1. CASE p = k
      BY <1>1, <1>2, <2>1
    <2>2. CASE p # k
      BY <1>1, <1>2, <2>2 DEF GhidraEvidenceIsCurrent
    <2> QED
      BY <2>1, <2>2
  <1>3. shown'["path"] # None => shown'["path"].seed = seed'
    BY <1>1 DEF GhidraEvidenceIsCurrent
  <1>4. derived' = None /\ snapshot' # None => snapshot'.binary = spec'
    BY DEF GhidraEvidenceIsCurrent
  <1> QED
    BY <1>1, <1>2, <1>3, <1>4 DEF GhidraEvidenceIsCurrent

\* What the user does keeps it.
LEMMA UserGhidra ==
    ASSUME TypeInv, GhidraEvidenceIsCurrent, User
    PROVE  GhidraEvidenceIsCurrent'
  <1>1. UNCHANGED <<spec, derived, snapshot>>
    BY UserKeeps DEF project
  <1>2. ASSUME UNCHANGED <<seed, shown>>
        PROVE  GhidraEvidenceIsCurrent'
    BY <1>1, <1>2 DEF GhidraEvidenceIsCurrent
  <1>3. ASSUME NEW k \in Panels, shown' = [shown EXCEPT ![k] = None], k # "path" => seed' = seed
        PROVE  GhidraEvidenceIsCurrent'
    BY <1>1, <1>3, ResultIsCurrent
  <1>4. ASSUME NEW b \in Binary, OpenFile(b)
        PROVE  UNCHANGED <<seed, shown>>
    BY <1>4 DEF OpenFile, evidence
  <1>5. CASE Derive
    BY <1>2, <1>5 DEF Derive, evidence
  <1>6. ASSUME NEW f \in Function, Select(f)
        PROVE  UNCHANGED <<seed, shown>>
    BY <1>6 DEF Select
  <1>7. ASSUME NEW f \in Function \cup {None}, Analyze(f)
        PROVE  UNCHANGED <<seed, shown>>
    BY <1>7 DEF Analyze, evidence
  <1>8. \A k \in {"path", "calls", "assess", "llvm"} : k \in Panels
    BY DEF Panels
  <1>9. CASE TracePath
    BY <1>3, <1>8, <1>9 DEF TracePath
  <1>10. ASSUME NEW k \in {"calls", "assess", "llvm"}, StartSeeded(k)
         PROVE  GhidraEvidenceIsCurrent'
    BY <1>3, <1>8, <1>10 DEF StartSeeded
  <1>11. ASSUME NEW flag \in Flags, Cancel(flag)
         PROVE  UNCHANGED <<seed, shown>>
    BY <1>11 DEF Cancel, evidence
  <1>12. ASSUME NEW s \in Seed, EditSeed(s)
         PROVE  GhidraEvidenceIsCurrent'
    <2>1. shown' = NoResults
      BY <1>12 DEF EditSeed
    <2>2. DOMAIN NoResults = Panels /\ "path" \in Panels
      BY DEF NoResults, Panels
    <2> QED
      BY <1>1, <2>1, <2>2, NothingShown DEF GhidraEvidenceIsCurrent
  <1>13. ASSUME NEW s \in Seed, CapturedSeed(s)
         PROVE  GhidraEvidenceIsCurrent'
    BY <1>3, <1>8, <1>13 DEF CapturedSeed
  <1> QED
    BY <1>2, <1>4, <1>5, <1>6, <1>7, <1>9, <1>10, <1>11, <1>12, <1>13 DEF User

\* Every event keeps it, however late.
LEMMA PollGhidra ==
    ASSUME TypeInv, GhidraEvidenceIsCurrent, Poll
    PROVE  GhidraEvidenceIsCurrent'
  <1> DEFINE e == Head(events)
  <1>1. ASSUME UNCHANGED <<project, snapshot, seed, shown>>
        PROVE  GhidraEvidenceIsCurrent'
    BY <1>1 DEF GhidraEvidenceIsCurrent, project
  <1>2. ASSUME NEW kind, Event(kind)
        PROVE  e \in Jobs /\ Result(e) \in Results
    BY <1>2, EventTypes, ResultTypes
  <1> HIDE DEF e
  <1>3. CASE OnImported
    <2>1. snapshot' = None /\ shown' = NoResults
      BY <1>3 DEF OnImported
    <2> QED
      BY <2>1, NothingIsCurrent, SMTT(30)
  <1>4. CASE OnDerived
    <2>1. /\ Event("derive") /\ derived' = e.binary
          /\ UNCHANGED <<snapshot, seed, shown>>
      BY <1>4 DEF OnDerived, e
    <2>2. derived' # None
      BY <2>1, EventTypes, NoneIsNothing DEF Opens, e
    <2> QED
      BY <2>1, <2>2 DEF GhidraEvidenceIsCurrent
  <1>5. CASE OnAnalyzed
    <2> DEFINE install == e.binary = spec /\ e.ok
               f == IF e.function = None THEN Entry ELSE e.function
    <2>1. /\ IF install
             THEN snapshot' = [binary |-> e.binary, function |-> f] /\ shown' = NoResults
             ELSE UNCHANGED <<snapshot, seed, shown>>
          /\ UNCHANGED project
      BY <1>5 DEF OnAnalyzed, e
    <2> HIDE DEF f
    <2>2. CASE install
      <3>1. snapshot'.binary = spec' /\ shown' = NoResults
        BY <2>1, <2>2 DEF project
      <3> QED
        BY <3>1, NothingIsCurrent
    <2>3. CASE ~install
      BY <1>1, <2>1, <2>3
    <2> QED
      BY <2>2, <2>3
  <1>6. CASE OnPathTraced
    <2>1. /\ Event("path") /\ UNCHANGED <<project, snapshot, seed>>
          /\ shown' = IF PathMatches(e) THEN [shown EXCEPT !["path"] = Result(e)] ELSE shown
      BY <1>6 DEF OnPathTraced, e
    <2>2. CASE PathMatches(e)
      <3>1. e \in Jobs /\ Result(e) \in Results
        BY <1>2, <2>1
      <3>2. /\ snapshot = [binary |-> e.binary, function |-> e.function]
            /\ seed = e.seed
        BY <2>2 DEF PathMatches
      <3>3. snapshot \in Snapshots
        BY <3>1, <3>2 DEF Jobs, Snapshots
      <3>4. snapshot # None
        BY <3>3, NoneIsNothing
      <3>5. /\ Result(e).binary = snapshot.binary /\ Result(e).function = snapshot.function
            /\ Result(e).seed = seed
        BY <3>2 DEF Result
      <3>6. derived = None => Result(e).binary = spec
        BY <3>4, <3>5 DEF GhidraEvidenceIsCurrent
      <3>7. "path" \in Panels
        BY DEF Panels
      <3> QED
        BY <2>1, <2>2, <3>1, <3>4, <3>5, <3>6, <3>7, ResultIsCurrent DEF project
    <2>3. CASE ~PathMatches(e)
      BY <1>1, <2>1, <2>3
    <2> QED
      BY <2>2, <2>3
  <1>7. ASSUME NEW k \in {"calls", "assess", "llvm"}, OnSeeded(k)
        PROVE  GhidraEvidenceIsCurrent'
    <2> DEFINE stopped == Flag[k] \in cancelled /\ (k = "calls" => ~e.ok)
               r == IF stopped THEN None ELSE Result(e)
    <2>1. /\ Event(k) /\ UNCHANGED <<project, snapshot, seed>>
          /\ shown' = IF ~SeededMatches(e) THEN shown ELSE [shown EXCEPT ![k] = r]
      BY <1>7 DEF OnSeeded, e
    <2>2. r \in Results \cup {None} /\ k \in Panels /\ k # "path"
      BY <1>2, <2>1 DEF Panels
    <2>3. r # None => r.binary = e.binary /\ r.function = e.function
      BY DEF Result
    <2> HIDE DEF r
    <2>4. CASE SeededMatches(e)
      <3>1. snapshot # None /\ e.binary = spec /\ snapshot.function = e.function
        BY <2>4 DEF SeededMatches
      <3> QED
        BY <2>1, <2>2, <2>3, <2>4, <3>1, ResultIsCurrent DEF project
    <2>5. CASE ~SeededMatches(e)
      BY <1>1, <2>1, <2>5
    <2> QED
      BY <2>4, <2>5
  <1>8. CASE OnFailed
    BY <1>1, <1>8 DEF OnFailed, evidence
  <1>9. CASE OnSelected
    BY <1>1, <1>9 DEF OnSelected
  <1>10. ASSUME NEW kind, NEW v, OnView(kind, v)
         PROVE  GhidraEvidenceIsCurrent'
    BY <1>1, <1>10 DEF OnView
  <1> QED
    BY <1>3, <1>4, <1>5, <1>6, <1>7, <1>8, <1>9, <1>10 DEF Poll

\* Initially there is no snapshot and no result.
LEMMA InitGhidra == Init => GhidraEvidenceIsCurrent
  <1>1. DOMAIN NoResults = Panels /\ "path" \in Panels
    BY DEF NoResults, Panels
  <1> QED
    BY <1>1, NothingShown DEF Init, GhidraEvidenceIsCurrent

\* Every step keeps the snapshot and its results current.
LEMMA NextGhidra ==
    TypeInv /\ GhidraEvidenceIsCurrent /\ [Next]_vars => GhidraEvidenceIsCurrent'
  <1> SUFFICES ASSUME TypeInv, GhidraEvidenceIsCurrent, [Next]_vars
               PROVE  GhidraEvidenceIsCurrent'
    OBVIOUS
  <1>1. ASSUME UNCHANGED <<project, evidence>>
        PROVE  GhidraEvidenceIsCurrent'
    BY <1>1 DEF GhidraEvidenceIsCurrent, project, evidence
  <1>2. CASE Worker
    BY <1>1, <1>2, WorkerStep
  <1>3. ASSUME NEW t \in threads, Finish(t)
        PROVE  GhidraEvidenceIsCurrent'
    BY <1>1, <1>3, FinishStep
  <1>4. CASE UNCHANGED vars
    BY <1>1, <1>4 DEF vars
  <1> QED
    BY <1>2, <1>3, <1>4, UserGhidra, PollGhidra DEF Next

-----------------------------------------------------------------------------
(* The flags *)

\* Where in a channel the jobs of a flag are.
Places(jobs, flag) == {i \in 1..Len(jobs) : Of(jobs[i], flag)}

\* They are finitely many.
LEMMA PlacesCounted ==
    ASSUME NEW s \in Seq(Jobs), NEW flag
    PROVE  /\ IsFiniteSet(Places(s, flag)) /\ Count(s, flag) = Cardinality(Places(s, flag))
           /\ Count(s, flag) \in Nat
  <1>1. Len(s) \in Nat /\ DOMAIN s = 1..Len(s)
    BY LenProperties
  <1>2. IsFiniteSet(1..Len(s)) /\ Places(s, flag) \in SUBSET (1..Len(s))
    BY <1>1, FS_Interval DEF Places
  <1>3. IsFiniteSet(Places(s, flag))
    BY <1>2, FS_Subset
  <1>4. Cardinality(Places(s, flag)) \in Nat
    BY <1>3, FS_CardinalityType
  <1> QED
    BY <1>1, <1>3, <1>4 DEF Count, Places

\* Places that move by the same distance stay as many.
LEMMA Shifted ==
    ASSUME NEW S \in SUBSET Nat, IsFiniteSet(S), NEW m \in Nat
    PROVE  LET T == {i + m : i \in S} IN IsFiniteSet(T) /\ Cardinality(T) = Cardinality(S)
  <1> DEFINE T == {i + m : i \in S}
             f == [i \in S |-> i + m]
  <1>1. f \in [S -> T] /\ \A i \in S : f[i] = i + m
    OBVIOUS
  <1>2. \A i, j \in S : f[i] = f[j] => i = j
    BY <1>1
  <1>3. \A t \in T : \E i \in S : f[i] = t
    BY <1>1
  <1> HIDE DEF f, T
  <1>4. f \in Bijection(S, T)
    BY <1>1, <1>2, <1>3 DEF Bijection, Injection, Surjection, IsInjective
  <1>5. ExistsBijection(S, T)
    BY <1>4 DEF ExistsBijection
  <1>6. IsFiniteSet(T) /\ Cardinality(T) = Cardinality(S)
    BY <1>5, FS_Bijection
  <1> QED
    BY <1>6 DEF T

\* No job of the flag, or exactly one.
LEMMA CountNone ==
    ASSUME NEW s \in Seq(Jobs), NEW flag, \A i \in 1..Len(s) : ~Of(s[i], flag)
    PROVE  Count(s, flag) = 0
  <1>1. Places(s, flag) = {}
    BY DEF Places
  <1> QED
    BY <1>1, PlacesCounted, FS_EmptySet

\* The same for one.
LEMMA CountOne ==
    ASSUME NEW s \in Seq(Jobs), NEW flag, NEW k \in 1..Len(s),
           \A i \in 1..Len(s) : Of(s[i], flag) <=> i = k
    PROVE  Count(s, flag) = 1
  <1>1. Places(s, flag) = {k}
    BY DEF Places
  <1> QED
    BY <1>1, PlacesCounted, FS_Singleton

\* A job of the flag in the channel is counted.
LEMMA CountSome ==
    ASSUME NEW s \in Seq(Jobs), s # <<>>, NEW flag
    PROVE  Count(s, flag) = Count(Tail(s), flag) + (IF Of(Head(s), flag) THEN 1 ELSE 0)
  <1> DEFINE q == Tail(s)
             A == Places(s, flag)
             B == Places(q, flag)
             C == {i + 1 : i \in B}
             n == Len(s)
  <1>1. /\ q \in Seq(Jobs) /\ Len(q) = n - 1
        /\ n \in Nat /\ 1 \in 1..n /\ Head(s) = s[1]
        /\ \A i \in 1..(n - 1) : q[i] = s[i + 1]
    BY HeadTailProperties, EmptySeq, LenProperties
  <1>2. /\ IsFiniteSet(A) /\ Count(s, flag) = Cardinality(A)
        /\ IsFiniteSet(B) /\ Count(q, flag) = Cardinality(B) /\ Cardinality(B) \in Nat
    BY <1>1, PlacesCounted
  <1>3. B \in SUBSET Nat
    BY <1>1 DEF Places
  <1> HIDE DEF q, n, Of
  <1>4. C = {i \in 2..n : Of(s[i], flag)}
    <2>1. ASSUME NEW i \in 2..n, Of(s[i], flag)
          PROVE  i \in C
      <3>1. i - 1 \in 1..(n - 1) /\ (i - 1) + 1 = i
        BY <1>1
      <3>2. i - 1 \in B
        BY <1>1, <2>1, <3>1 DEF Places
      <3> QED
        BY <3>1, <3>2
    <2>2. ASSUME NEW i \in B
          PROVE  i + 1 \in 2..n /\ Of(s[i + 1], flag)
      BY <1>1, <2>2 DEF Places
    <2> QED
      BY <2>1, <2>2
  <1> HIDE DEF B
  <1>5. IsFiniteSet(C) /\ Cardinality(C) = Cardinality(B)
    BY <1>2, <1>3, Shifted
  <1> HIDE DEF C
  <1>6. \A i \in 1..n : i = 1 \/ i \in 2..n
    BY <1>1
  <1>7. 1 \notin C
    BY <1>1, <1>4
  <1>8. \A i \in 2..n : i \in 1..n
    BY <1>1
  <1>9. CASE Of(s[1], flag)
    <2>1. A = C \cup {1}
      BY <1>1, <1>4, <1>6, <1>8, <1>9 DEF Places, n
    <2>2. Cardinality(C \cup {1}) = Cardinality(C) + 1
      BY <1>5, <1>7, FS_AddElement
    <2> QED
      BY <1>1, <1>2, <1>5, <1>9, <2>1, <2>2 DEF q
  <1>10. CASE ~Of(s[1], flag)
    <2>1. A = C
      BY <1>1, <1>4, <1>6, <1>8, <1>10 DEF Places, n
    <2> HIDE DEF A
    <2> QED
      BY <1>1, <1>2, <1>5, <1>10, <2>1 DEF q
  <1> QED
    BY <1>9, <1>10

\* One more job.
LEMMA CountAppend ==
    ASSUME NEW s \in Seq(Jobs), NEW e \in Jobs, NEW flag
    PROVE  Count(Append(s, e), flag) = Count(s, flag) + (IF Of(e, flag) THEN 1 ELSE 0)
  <1> DEFINE q == Append(s, e)
             A == Places(s, flag)
             B == Places(q, flag)
             n == Len(s)
  <1>1. /\ q \in Seq(Jobs) /\ Len(q) = n + 1 /\ n \in Nat
        /\ q[n + 1] = e /\ \A i \in 1..n : q[i] = s[i]
    BY AppendProperties, LenProperties
  <1>2. /\ IsFiniteSet(A) /\ Count(s, flag) = Cardinality(A) /\ Cardinality(A) \in Nat
        /\ Count(q, flag) = Cardinality(B)
    BY <1>1, PlacesCounted
  <1> HIDE DEF q, n, Of
  <1>3. (\A i \in 1..(n + 1) : i \in 1..n \/ i = n + 1) /\ n + 1 \in 1..(n + 1)
        /\ (\A i \in 1..n : i \in 1..(n + 1)) /\ n + 1 \notin 1..n
    BY <1>1
  <1>4. n + 1 \notin A
    BY <1>3 DEF Places, n
  <1>5. CASE Of(e, flag)
    <2>1. B = A \cup {n + 1}
      BY <1>1, <1>3, <1>5 DEF Places, n
    <2>2. Cardinality(A \cup {n + 1}) = Cardinality(A) + 1
      BY <1>2, <1>4, FS_AddElement
    <2> QED
      BY <1>2, <1>5, <2>1, <2>2 DEF q
  <1>6. CASE ~Of(e, flag)
    <2>1. B = A
      BY <1>1, <1>3, <1>6 DEF Places, n
    <2> HIDE DEF A, B
    <2> QED
      BY <1>2, <1>6, <2>1 DEF q
  <1> QED
    BY <1>5, <1>6

\* More jobs.
LEMMA CountConcat ==
    ASSUME NEW s \in Seq(Jobs), NEW r \in Seq(Jobs), NEW flag
    PROVE  Count(s \o r, flag) = Count(s, flag) + Count(r, flag)
  <1> DEFINE q == s \o r
             A == Places(s, flag)
             B == Places(r, flag)
             C == {i + Len(s) : i \in B}
             Q == Places(q, flag)
             m == Len(s)
             n == Len(r)
  <1>1. /\ q \in Seq(Jobs) /\ m \in Nat /\ n \in Nat /\ Len(q) = m + n
        /\ \A i \in 1..(m + n) : q[i] = IF i <= m THEN s[i] ELSE r[i - m]
    BY ConcatProperties, LenProperties
  <1>2. /\ IsFiniteSet(A) /\ Count(s, flag) = Cardinality(A) /\ Cardinality(A) \in Nat
        /\ IsFiniteSet(B) /\ Count(r, flag) = Cardinality(B) /\ Cardinality(B) \in Nat
        /\ Count(q, flag) = Cardinality(Q)
    BY <1>1, PlacesCounted
  <1>3. B \in SUBSET Nat
    BY <1>1 DEF Places
  <1> HIDE DEF q, m, n, Of
  <1>4. \A i \in 1..m : i \in 1..(m + n) /\ q[i] = s[i]
    BY <1>1
  <1>5. \A i \in 1..n : i + m \in 1..(m + n) /\ q[i + m] = r[i] /\ i + m \notin 1..m
    BY <1>1
  <1>6. ASSUME NEW i \in 1..(m + n), i \notin 1..m
        PROVE  i - m \in 1..n /\ (i - m) + m = i
    BY <1>1, <1>6
  <1>7. C = {i \in 1..(m + n) : i \notin 1..m /\ Of(q[i], flag)}
    <2>1. ASSUME NEW i \in 1..(m + n), i \notin 1..m, Of(q[i], flag)
          PROVE  i \in C
      <3>1. i - m \in 1..n /\ (i - m) + m = i
        BY <2>1, <1>6
      <3>2. i - m \in B
        BY <1>5, <2>1, <3>1 DEF Places, n
      <3> QED
        BY <3>1, <3>2 DEF m
    <2>2. ASSUME NEW i \in B
          PROVE  i + m \in 1..(m + n) /\ i + m \notin 1..m /\ Of(q[i + m], flag)
      BY <1>5, <2>2 DEF Places, n
    <2> QED
      BY <2>1, <2>2 DEF m
  <1>8. A = {i \in 1..(m + n) : i \in 1..m /\ Of(q[i], flag)}
    BY <1>4 DEF Places, m
  <1>9. Q = {i \in 1..(m + n) : Of(q[i], flag)}
    BY <1>1 DEF Places
  <1>10. IsFiniteSet(C) /\ Cardinality(C) = Cardinality(B)
    <2> HIDE DEF B
    <2> QED
      BY <1>1, <1>2, <1>3, Shifted DEF m
  <1> HIDE DEF A, B, C, Q
  <1>11. Q = A \cup C /\ A \cap C = {}
    BY <1>7, <1>8, <1>9
  <1>12. Cardinality(Q) = Cardinality(A) + Cardinality(C) - Cardinality({})
    BY <1>2, <1>10, <1>11, FS_Union
  <1>13. Cardinality({}) = 0
    BY FS_EmptySet
  <1> QED
    BY <1>2, <1>10, <1>12, <1>13 DEF q

\* The background tasks of a flag that are in progress.
Runners(flag) == {t \in threads : Of(t, flag)}

\* What is counted are numbers.
LEMMA Outstandings ==
    ASSUME TypeInv, NEW flag
    PROVE  /\ IsFiniteSet(Runners(flag)) /\ Cardinality(Runners(flag)) \in Nat
           /\ Count(tasks, flag) \in Nat /\ Count(events, flag) \in Nat
           /\ Outstanding(flag) =
                 Cardinality(Runners(flag)) + Count(tasks, flag) + Count(events, flag)
  <1>1. IsFiniteSet(threads) /\ Runners(flag) \in SUBSET threads
    BY DEF TypeInv, WorkInv, Runners
  <1>2. IsFiniteSet(Runners(flag)) /\ Cardinality(Runners(flag)) \in Nat
    BY <1>1, FS_Subset, FS_CardinalityType
  <1>3. Count(tasks, flag) \in Nat /\ Count(events, flag) \in Nat
    BY PlacesCounted DEF TypeInv, QueuesInv
  <1> QED
    BY <1>2, <1>3 DEF Outstanding, Runners

\* What a job that is sent, or several without a background task, add to a flag.
LEMMA EnqueueCounts ==
    ASSUME TypeInv, NEW jobs \in Seq(Jobs), NEW b, NEW r, Enqueue(jobs, b, r),
           \A i \in 1..Len(jobs) : jobs[i].kind \notin Background
    PROVE  running' = r /\ \A flag : Count(tasks', flag) = Count(tasks, flag)
  <1> DEFINE sent == SubSeq(jobs, 1, Room(jobs))
             started == {Flag[j.kind] : j \in {i \in Range(sent) : i.kind \in Background}}
  <1>1. tasks' = tasks \o sent /\ running' = r \cup started
    BY DEF Enqueue
  <1>2. /\ sent \in Seq(Jobs)
        /\ \A i \in 1..Len(sent) : i \in 1..Len(jobs) /\ sent[i] = jobs[i]
    BY SentFields
  <1> HIDE DEF sent
  <1>3. \A i \in 1..Len(sent) : sent[i].kind \notin Background
    BY <1>2
  <1>4. \A j \in Range(sent) : j.kind \notin Background
    BY <1>2, <1>3, LenProperties DEF Range
  <1>5. started = {}
    BY <1>4
  <1>6. ASSUME NEW flag
        PROVE  Count(tasks', flag) = Count(tasks, flag)
    <2>1. Count(sent, flag) = 0
      BY <1>2, <1>3, CountNone DEF Of
    <2>2. tasks \in Seq(Jobs) /\ Count(tasks, flag) \in Nat
      BY Outstandings DEF TypeInv, QueuesInv
    <2>3. Count(tasks \o sent, flag) = Count(tasks, flag) + Count(sent, flag)
      BY <1>2, <2>2, CountConcat
    <2> QED
      BY <1>1, <2>1, <2>2, <2>3
  <1> QED
    BY <1>1, <1>5, <1>6

\* A background task that is sent sets its flag; without room neither happens.
LEMMA StartCounts ==
    ASSUME TypeInv, NEW j \in Jobs, Start(j), j.kind \in Background
    PROVE  \/ running' = running /\ \A flag : Count(tasks', flag) = Count(tasks, flag)
           \/ /\ running' = running \cup {Flag[j.kind]}
              /\ \A flag : Count(tasks', flag) =
                              Count(tasks, flag) + (IF flag = Flag[j.kind] THEN 1 ELSE 0)
  <1> DEFINE jobs == <<j>>
             sent == SubSeq(jobs, 1, Room(jobs))
             started == {Flag[k.kind] : k \in {i \in Range(sent) : i.kind \in Background}}
  <1>1. tasks' = tasks \o sent /\ running' = running \cup started
    BY DEF Start, Enqueue
  <1>2. jobs \in Seq(Jobs) /\ Len(jobs) = 1 /\ jobs[1] = j
    OBVIOUS
  <1>3. /\ sent \in Seq(Jobs) /\ Len(sent) \in Nat /\ Len(sent) <= 1
        /\ \A i \in 1..Len(sent) : i \in 1..Len(jobs) /\ sent[i] = jobs[i]
    BY <1>2, SentFields
  <1> HIDE DEF sent, jobs
  <1>4. tasks \in Seq(Jobs) /\ \A flag : Count(tasks, flag) \in Nat
    BY Outstandings DEF TypeInv, QueuesInv
  <1>5. \A flag : Count(tasks \o sent, flag) = Count(tasks, flag) + Count(sent, flag)
    BY <1>3, <1>4, CountConcat
  <1>6. Range(sent) = {sent[i] : i \in 1..Len(sent)}
    BY <1>3, LenProperties DEF Range
  <1>7. CASE Len(sent) = 0
    <2>1. \A i \in 1..0 : FALSE
      OBVIOUS
    <2>2. Range(sent) = {}
      BY <1>6, <1>7, <2>1
    <2>3. started = {}
      BY <2>2
    <2>4. \A flag : Count(sent, flag) = 0
      BY <1>3, <1>7, <2>1, CountNone
    <2>5. running' = running
      BY <1>1, <2>3
    <2>6. ASSUME NEW flag
          PROVE  Count(tasks', flag) = Count(tasks, flag)
      <3>1. Count(tasks \o sent, flag) = Count(tasks, flag) + 0
        BY <1>5, <2>4
      <3>2. Count(tasks, flag) \in Nat
        BY <1>4
      <3> QED
        BY <1>1, <3>1, <3>2
    <2> QED
      BY <2>5, <2>6
  <1>8. CASE Len(sent) = 1
    <2>1. 1 \in 1..1 /\ \A i \in 1..1 : i = 1
      OBVIOUS
    <2>2. sent[1] = j
      BY <1>2, <1>3, <1>8, <2>1
    <2>3. Range(sent) = {j}
      BY <1>6, <1>8, <2>1, <2>2
    <2>4. started = {Flag[j.kind]}
      BY <2>3
    <2>5. ASSUME NEW flag
          PROVE  Count(sent, flag) = IF flag = Flag[j.kind] THEN 1 ELSE 0
      <3>1. CASE flag = Flag[j.kind]
        <4>1. \A i \in 1..Len(sent) : Of(sent[i], flag) <=> i = 1
          BY <1>8, <2>1, <2>2, <3>1 DEF Of
        <4>2. Count(sent, flag) = 1
          BY <1>3, <1>8, <2>1, <4>1, CountOne
        <4> QED
          BY <3>1, <4>2
      <3>2. CASE flag # Flag[j.kind]
        <4>1. \A i \in 1..Len(sent) : ~Of(sent[i], flag)
          BY <1>8, <2>1, <2>2, <3>2 DEF Of
        <4>2. Count(sent, flag) = 0
          BY <1>3, <4>1, CountNone
        <4> QED
          BY <3>2, <4>2
      <3> QED
        BY <3>1, <3>2
    <2> QED
      BY <1>1, <1>5, <2>4, <2>5
  <1>9. Len(sent) = 0 \/ Len(sent) = 1
    <2>1. PICK n \in Nat : n = Len(sent) /\ n <= 1
      BY <1>3
    <2>2. n = 0 \/ n = 1
      BY <2>1
    <2> QED
      BY <2>1, <2>2
  <1> QED
    BY <1>7, <1>8, <1>9

\* The flags match the tasks when the numbers of each flag add up.
LEMMA FlagsAddUp ==
    ASSUME TypeInv',
           \A flag \in Flags :
              Cardinality(Runners(flag)') + Count(tasks', flag) + Count(events', flag)
                 = IF flag \in running' THEN 1 ELSE 0,
           pending' # None => "analysis" \in running'
    PROVE  FlagsMatchTasks'
  BY DEF FlagsMatchTasks, Outstanding, Runners

\* The numbers before a step, for its proof.
LEMMA FlagsTakenApart ==
    ASSUME TypeInv, FlagsMatchTasks, NEW flag \in Flags
    PROVE  /\ Cardinality(Runners(flag)) \in Nat
           /\ Count(tasks, flag) \in Nat /\ Count(events, flag) \in Nat
           /\ Cardinality(Runners(flag)) + Count(tasks, flag) + Count(events, flag)
                 = IF flag \in running THEN 1 ELSE 0
  <1>1. Outstanding(flag) = IF flag \in running THEN 1 ELSE 0
    BY DEF FlagsMatchTasks
  <1> QED
    BY <1>1, Outstandings

\* What the user starts sets the flag of a task that was not outstanding.
LEMMA StartFlags ==
    ASSUME TypeInv, FlagsMatchTasks, TypeInv', NEW j \in Jobs, Start(j),
           UNCHANGED <<events, threads>>, pending' \in {None, pending},
           j.kind \in Background => Flag[j.kind] \notin running
    PROVE  FlagsMatchTasks'
  <1>1. ASSUME running' = running, \A flag : Count(tasks', flag) = Count(tasks, flag)
        PROVE  FlagsMatchTasks'
    BY <1>1 DEF FlagsMatchTasks, Outstanding
  <1>2. CASE j.kind \notin Background
    <2> DEFINE jobs == <<j>>
    <2>1. jobs \in Seq(Jobs) /\ Len(jobs) = 1 /\ jobs[1] = j
      OBVIOUS
    <2>2. Enqueue(jobs, busy, running)
      BY DEF Start
    <2> HIDE DEF jobs
    <2>3. \A i \in 1..1 : i = 1
      OBVIOUS
    <2>4. \A i \in 1..Len(jobs) : jobs[i].kind \notin Background
      BY <1>2, <2>1, <2>3
    <2> QED
      BY <1>1, <2>1, <2>2, <2>4, EnqueueCounts
  <1>3. CASE j.kind \in Background
    <2> DEFINE f == Flag[j.kind]
    <2>1. f \notin running /\ f \in Flags
      BY <1>3, FlagValues
    <2> HIDE DEF f
    <2>2. ASSUME running' = running \cup {f},
                 \A flag : Count(tasks', flag) = Count(tasks, flag) + (IF flag = f THEN 1 ELSE 0)
          PROVE  FlagsMatchTasks'
      <3>1. ASSUME NEW flag \in Flags
            PROVE  Cardinality(Runners(flag)') + Count(tasks', flag) + Count(events', flag)
                      = IF flag \in running' THEN 1 ELSE 0
        <4> DEFINE a == Cardinality(Runners(flag))
                   b == Count(tasks, flag)
                   c == Count(events, flag)
        <4>1. a \in Nat /\ b \in Nat /\ c \in Nat
              /\ a + b + c = IF flag \in running THEN 1 ELSE 0
          BY FlagsTakenApart
        <4>2. Cardinality(Runners(flag)') = a /\ Count(events', flag) = c
          BY DEF Runners
        <4>3. Count(tasks', flag) = b + (IF flag = f THEN 1 ELSE 0)
          BY <2>2
        <4> HIDE DEF a, b, c
        <4>4. CASE flag = f
          BY <2>1, <2>2, <4>1, <4>2, <4>3, <4>4
        <4>5. CASE flag # f
          BY <2>1, <2>2, <4>1, <4>2, <4>3, <4>5
        <4> QED
          BY <4>4, <4>5
      <3>2. pending' # None => "analysis" \in running'
        BY <2>2 DEF FlagsMatchTasks
      <3> QED
        BY <3>1, <3>2, FlagsAddUp
    <2> QED
      BY <1>1, <1>3, <2>2, StartCounts DEF f
  <1> QED
    BY <1>2, <1>3

\* A step of the user.
LEMMA UserFlags ==
    ASSUME TypeInv, FlagsMatchTasks, TypeInv', User
    PROVE  FlagsMatchTasks'
  <1>1. UNCHANGED <<events, threads>>
    BY UserKeeps DEF work
  <1>2. spec \in Binaries /\ seed \in Seeds /\ None \in Binaries /\ None \in Functions
        /\ None \in Seeds /\ Binary \subseteq Binaries /\ Function \subseteq Functions
    BY DEF TypeInv, ProjectInv, EvidenceInv, Binaries, Functions, Seeds
  <1>3. \A k \in {"open", "derive", "select", "path", "analyze", "calls", "assess", "llvm"} :
           k \in Kinds
    BY DEF Kinds, Background, Foreground
  <1>4. ASSUME NEW k \in {"open", "derive", "select", "path", "analyze", "calls", "assess",
                          "llvm"},
               NEW b \in Binaries, NEW f \in Functions, NEW s \in Seeds,
               Start(Job(k, b, f, s)), pending' \in {None, pending},
               k \in Background => Flag[k] \notin running
        PROVE  FlagsMatchTasks'
    <2> DEFINE j == Job(k, b, f, s)
    <2>1. j \in Jobs /\ j.kind = k
      BY <1>3, JobFields
    <2>2. Start(j)
      BY <1>4
    <2> HIDE DEF j
    <2> QED
      BY <1>1, <1>4, <2>1, <2>2, StartFlags
  <1>5. ASSUME UNCHANGED <<tasks, running>>, pending' \in {None, pending}
        PROVE  FlagsMatchTasks'
    BY <1>1, <1>5 DEF FlagsMatchTasks, Outstanding
  <1>6. /\ "open" \notin Background /\ "derive" \notin Background
        /\ "select" \notin Background /\ "path" \notin Background
    BY DEF Background
  <1>7. ASSUME NEW b \in Binary, OpenFile(b)
        PROVE  FlagsMatchTasks'
    <2>1. Start(Job("open", b, None, None)) /\ pending' = pending
      BY <1>7 DEF OpenFile
    <2> QED
      BY <1>2, <1>4, <1>6, <2>1
  <1>8. CASE Derive
    <2>1. Start(Job("derive", spec, None, None)) /\ pending' = pending
      BY <1>8 DEF Derive
    <2> QED
      BY <1>2, <1>4, <1>6, <2>1
  <1>9. ASSUME NEW f \in Function, Select(f)
        PROVE  FlagsMatchTasks'
    <2>1. Start(Job("select", None, f, None)) /\ pending' = pending
      BY <1>9 DEF Select
    <2> QED
      BY <1>2, <1>4, <1>6, <2>1
  <1>10. ASSUME NEW f \in Function \cup {None}, Analyze(f)
         PROVE  FlagsMatchTasks'
    <2>1. /\ Start(Job("analyze", spec, f, None)) /\ pending' = pending
          /\ "analysis" \notin running
      BY <1>10 DEF Analyze
    <2>2. f \in Functions
      BY DEF Functions
    <2> QED
      BY <1>2, <1>4, <2>1, <2>2, FlagValues
  <1>11. CASE TracePath
    <2>1. /\ Start(Job("path", snapshot.binary, snapshot.function, seed)) /\ pending' = pending
          /\ snapshot # None
      BY <1>11 DEF TracePath, flags
    <2> QED
      BY <1>2, <1>4, <1>6, <2>1, SnapshotFields
  <1>12. ASSUME NEW k \in {"calls", "assess", "llvm"}, StartSeeded(k)
         PROVE  FlagsMatchTasks'
    <2>1. /\ Start(Job(k, snapshot.binary, snapshot.function, seed)) /\ pending' = pending
          /\ snapshot # None /\ running = {}
      BY <1>12 DEF StartSeeded
    <2> QED
      BY <1>2, <1>4, <2>1, SnapshotFields
  <1>13. ASSUME NEW flag \in Flags, Cancel(flag)
         PROVE  FlagsMatchTasks'
    BY <1>5, <1>13 DEF Cancel, queues
  <1>14. ASSUME NEW s \in Seed, EditSeed(s) \/ CapturedSeed(s)
         PROVE  FlagsMatchTasks'
    BY <1>5, <1>14 DEF EditSeed, CapturedSeed, queues, flags
  <1> QED
    BY <1>7, <1>8, <1>9, <1>10, <1>11, <1>12, <1>13, <1>14 DEF User

\* What the worker takes from its channel and puts into the other.
LEMMA TakeCounts ==
    ASSUME TypeInv, NEW kind, Take(kind), NEW flag
    PROVE  /\ Head(tasks) \in Jobs /\ Head(tasks).kind = kind
           /\ Count(tasks, flag) =
                 Count(tasks', flag) + (IF Of(Head(tasks), flag) THEN 1 ELSE 0)
           /\ Count(tasks', flag) \in Nat
  <1>1. tasks \in Seq(Jobs) /\ tasks # <<>> /\ tasks' = Tail(tasks) /\ tasks' \in Seq(Jobs)
        /\ Head(tasks) \in Jobs /\ Head(tasks).kind = kind
    BY TakeTypes DEF TypeInv, QueuesInv
  <1> QED
    BY <1>1, CountSome, PlacesCounted

\* The same for the UI.
LEMMA EventCounts ==
    ASSUME TypeInv, NEW kind, Event(kind), NEW flag
    PROVE  /\ Head(events) \in Jobs /\ Head(events).kind = kind
           /\ Count(events, flag) =
                 Count(events', flag) + (IF Of(Head(events), flag) THEN 1 ELSE 0)
           /\ Count(events', flag) \in Nat
           /\ UNCHANGED threads
  <1>1. events \in Seq(Jobs) /\ events # <<>> /\ events' = Tail(events) /\ events' \in Seq(Jobs)
        /\ Head(events) \in Jobs /\ Head(events).kind = kind /\ UNCHANGED threads
    BY EventTypes DEF TypeInv, QueuesInv
  <1> QED
    BY <1>1, CountSome, PlacesCounted

\* And for an answer.
LEMMA SendCounts ==
    ASSUME TypeInv, NEW e \in Jobs, Send(e), NEW flag
    PROVE  /\ Count(events', flag) = Count(events, flag) + (IF Of(e, flag) THEN 1 ELSE 0)
           /\ Count(events, flag) \in Nat
  BY CountAppend, PlacesCounted DEF TypeInv, QueuesInv, Send

\* A background task goes from the channel to a thread of its own: another task
\* that is equal to it cannot be in progress, since it would be one of its flag.
LEMMA BackgroundFlags ==
    ASSUME TypeInv, FlagsMatchTasks, TypeInv', NEW kind \in Background, WorkBackground(kind),
           UNCHANGED flags
    PROVE  FlagsMatchTasks'
  <1> DEFINE t == Head(tasks)
  <1>1. Take(kind) /\ threads' = threads \cup {t} /\ UNCHANGED <<source, events>>
    BY DEF WorkBackground
  <1>2. ASSUME NEW flag \in Flags
        PROVE  Cardinality(Runners(flag)') + Count(tasks', flag) + Count(events', flag)
                  = IF flag \in running' THEN 1 ELSE 0
    <2> DEFINE a == Cardinality(Runners(flag))
               b == Count(tasks, flag)
               c == Count(events, flag)
               d == Count(tasks', flag)
    <2>1. a \in Nat /\ b \in Nat /\ c \in Nat /\ a + b + c = IF flag \in running THEN 1 ELSE 0
      BY FlagsTakenApart
    <2>2. b = d + (IF Of(t, flag) THEN 1 ELSE 0) /\ d \in Nat
      BY <1>1, TakeCounts
    <2>3. IsFiniteSet(Runners(flag))
      BY Outstandings
    <2>4. Count(events', flag) = c /\ running' = running
      BY <1>1 DEF flags
    <2>5. CASE Of(t, flag)
      <3>1. Runners(flag)' = Runners(flag) \cup {t}
        BY <1>1, <2>5 DEF Runners
      <3> HIDE DEF b, c, d
      <3>2. a = 0
        BY <2>1, <2>2, <2>5
      <3>3. t \notin Runners(flag)
        BY <2>3, <3>2, FS_EmptySet
      <3>4. Cardinality(Runners(flag)') = a + 1
        BY <2>3, <3>1, <3>3, FS_AddElement
      <3> HIDE DEF a
      <3> QED
        BY <2>1, <2>2, <2>4, <2>5, <3>4 DEF d
    <2>6. CASE ~Of(t, flag)
      <3>1. Runners(flag)' = Runners(flag)
        BY <1>1, <2>6 DEF Runners
      <3> HIDE DEF a, b, c, d
      <3>2. Cardinality(Runners(flag)') = a
        BY <3>1 DEF a
      <3> QED
        BY <2>1, <2>2, <2>4, <2>6, <3>2 DEF d
    <2> QED
      BY <2>5, <2>6
  <1>3. pending' # None => "analysis" \in running'
    BY DEF FlagsMatchTasks, flags
  <1> QED
    BY <1>2, <1>3, FlagsAddUp

\* A step of the worker.
LEMMA WorkerFlags ==
    ASSUME TypeInv, FlagsMatchTasks, TypeInv', Worker
    PROVE  FlagsMatchTasks'
  <1>1. UNCHANGED flags
    BY WorkerStep
  <1>2. ASSUME NEW kind \in Kinds \ Background, Take(kind), NEW e \in Jobs, Answered(e)
        PROVE  FlagsMatchTasks'
    <2>1. Send(e) /\ UNCHANGED threads /\ e.kind \notin Background
      BY <1>2 DEF Answered
    <2>2. ASSUME NEW flag
          PROVE  Count(tasks', flag) = Count(tasks, flag)
      <3>1. /\ Count(tasks, flag) =
                  Count(tasks', flag) + (IF Of(Head(tasks), flag) THEN 1 ELSE 0)
            /\ Count(tasks', flag) \in Nat
            /\ ~Of(Head(tasks), flag)
        BY <1>2, TakeCounts DEF Of
      <3> QED
        BY <3>1
    <2>3. ASSUME NEW flag
          PROVE  Count(events', flag) = Count(events, flag)
      <3>1. /\ Count(events', flag) = Count(events, flag) + (IF Of(e, flag) THEN 1 ELSE 0)
            /\ Count(events, flag) \in Nat
            /\ ~Of(e, flag)
        BY <2>1, SendCounts DEF Of
      <3> QED
        BY <3>1
    <2>4. UNCHANGED <<running, pending>>
      BY <1>1 DEF flags
    <2> QED
      BY <2>1, <2>2, <2>3, <2>4 DEF FlagsMatchTasks, Outstanding
  <1> QED
    BY <1>1, <1>2, WorkerStep, BackgroundFlags

\* A background task ends: its answer takes its place.
LEMMA FinishFlags ==
    ASSUME TypeInv, FlagsMatchTasks, TypeInv', NEW t \in threads, Finish(t)
    PROVE  FlagsMatchTasks'
  <1>1. PICK e \in Jobs : Send(e) /\ e.kind = t.kind
    BY FinishStep
  <1>2. /\ threads' = threads \ {t}
        /\ UNCHANGED <<tasks, running, pending>>
    BY FinishStep DEF flags
  <1>3. ASSUME NEW flag \in Flags
        PROVE  Cardinality(Runners(flag)') + Count(tasks', flag) + Count(events', flag)
                  = IF flag \in running' THEN 1 ELSE 0
    <2> DEFINE a == Cardinality(Runners(flag))
               b == Count(tasks, flag)
               c == Count(events, flag)
    <2>1. a \in Nat /\ b \in Nat /\ c \in Nat /\ a + b + c = IF flag \in running THEN 1 ELSE 0
      BY FlagsTakenApart
    <2>2. Count(events', flag) = c + (IF Of(t, flag) THEN 1 ELSE 0)
      BY <1>1, SendCounts DEF Of
    <2>3. IsFiniteSet(Runners(flag))
      BY Outstandings
    <2>4. Count(tasks', flag) = b /\ running' = running
      BY <1>2
    <2>5. Cardinality(Runners(flag)') = a - (IF Of(t, flag) THEN 1 ELSE 0)
      <3>1. CASE Of(t, flag)
        <4>1. Runners(flag)' = Runners(flag) \ {t} /\ t \in Runners(flag)
          BY <1>2, <3>1 DEF Runners
        <4> QED
          BY <2>3, <3>1, <4>1, FS_RemoveElement
      <3>2. CASE ~Of(t, flag)
        <4>1. Runners(flag)' = Runners(flag)
          BY <1>2, <3>2 DEF Runners
        <4> QED
          BY <2>1, <3>2, <4>1
      <3> QED
        BY <3>1, <3>2
    <2> HIDE DEF a, b, c
    <2> QED
      BY <2>1, <2>2, <2>4, <2>5
  <1>4. pending' # None => "analysis" \in running'
    BY <1>2 DEF FlagsMatchTasks
  <1> QED
    BY <1>3, <1>4, FlagsAddUp

\* An event of no background task leaves the flags to what is sent.
LEMMA OtherEventFlags ==
    ASSUME TypeInv, FlagsMatchTasks, TypeInv', NEW kind, Event(kind), kind \notin Background,
           \A flag : Count(tasks', flag) = Count(tasks, flag), running' = running,
           pending' # None => "analysis" \in running
    PROVE  FlagsMatchTasks'
  <1>1. ASSUME NEW flag
        PROVE  Count(events', flag) = Count(events, flag)
    <2>1. /\ Count(events, flag) =
                Count(events', flag) + (IF Of(Head(events), flag) THEN 1 ELSE 0)
          /\ Count(events', flag) \in Nat
          /\ ~Of(Head(events), flag)
      BY EventCounts DEF Of
    <2> QED
      BY <2>1
  <1>2. UNCHANGED threads
    BY EventTypes
  <1> QED
    BY <1>1, <1>2 DEF FlagsMatchTasks, Outstanding

\* The event that a binary was opened: an analysis is started unless one is in
\* progress, and otherwise waits for its end.
LEMMA ImportedFlags ==
    ASSUME TypeInv, FlagsMatchTasks, TypeInv', OnImported
    PROVE  FlagsMatchTasks'
  <1>1. /\ Event("open")
        /\ pending' # None => "analysis" \in running
    BY DEF OnImported
  <1>2. PICK jobs \in Seq(Jobs) :
              LET sent == SubSeq(jobs, 1, Room(jobs))
              IN /\ tasks' = tasks \o sent
                 /\ busy' \in BOOLEAN
                 /\ \A i \in 1..Len(jobs) : ~Opens(jobs[i])
                 /\ \A i \in 1..Len(jobs) :
                       jobs[i].kind \in Background <=> i = 2 /\ "analysis" \notin running
                 /\ "analysis" \notin running =>
                       Len(jobs) = 4 /\ jobs[2].kind = "analyze"
                 /\ running' = running \cup
                       (IF "analysis" \notin running /\ Len(sent) >= 2
                        THEN {"analysis"} ELSE {})
                 /\ cancelled' \in SUBSET Flags
    BY ImportSends
  <1> DEFINE sent == SubSeq(jobs, 1, Room(jobs))
             starts == "analysis" \notin running /\ Len(sent) >= 2
  <1>3. /\ sent \in Seq(Jobs) /\ Len(sent) \in Nat
        /\ \A i \in 1..Len(sent) : i \in 1..Len(jobs) /\ sent[i] = jobs[i]
    BY SentFields
  <1>4. /\ tasks' = tasks \o sent
        /\ running' = running \cup (IF starts THEN {"analysis"} ELSE {})
        /\ \A i \in 1..Len(jobs) :
              jobs[i].kind \in Background <=> i = 2 /\ "analysis" \notin running
        /\ "analysis" \notin running => jobs[2].kind = "analyze"
    BY <1>2
  <1> HIDE DEF sent
  <1>5. \A i \in 1..Len(sent) : sent[i].kind \in Background <=> i = 2 /\ "analysis" \notin running
    BY <1>3, <1>4
  <1>6. ASSUME NEW flag \in Flags
        PROVE  Count(sent, flag) = IF starts /\ flag = "analysis" THEN 1 ELSE 0
    <2>1. CASE starts /\ flag = "analysis"
      <3>1. 2 \in 1..Len(sent) /\ sent[2].kind = "analyze"
        BY <1>3, <1>4, <2>1
      <3>2. \A i \in 1..Len(sent) : Of(sent[i], flag) <=> i = 2
        BY <1>5, <2>1, <3>1, FlagValues DEF Of
      <3>3. Count(sent, flag) = 1
        BY <1>3, <3>1, <3>2, CountOne
      <3> QED
        BY <2>1, <3>3
    <2>2. CASE ~(starts /\ flag = "analysis")
      <3>1. ASSUME NEW i \in 1..Len(sent), Of(sent[i], flag)
            PROVE  FALSE
        <4>1. i = 2 /\ "analysis" \notin running
          BY <1>5, <3>1 DEF Of
        <4>2. Len(sent) >= 2 /\ sent[2].kind = "analyze"
          BY <1>3, <1>4, <4>1
        <4>3. flag = "analysis"
          BY <3>1, <4>1, <4>2, FlagValues DEF Of
        <4> QED
          BY <2>2, <4>1, <4>2, <4>3
      <3>2. Count(sent, flag) = 0
        BY <1>3, <3>1, CountNone
      <3> QED
        BY <2>2, <3>2
    <2> QED
      BY <2>1, <2>2
  <1>7. starts => "analysis" \notin running
    OBVIOUS
  <1> HIDE DEF starts
  <1>8. ASSUME NEW flag \in Flags
        PROVE  Cardinality(Runners(flag)') + Count(tasks', flag) + Count(events', flag)
                  = IF flag \in running' THEN 1 ELSE 0
    <2> DEFINE a == Cardinality(Runners(flag))
               b == Count(tasks, flag)
               c == Count(events, flag)
    <2>1. a \in Nat /\ b \in Nat /\ c \in Nat /\ a + b + c = IF flag \in running THEN 1 ELSE 0
      BY FlagsTakenApart
    <2>2. Count(tasks', flag) = b + Count(sent, flag)
      BY <1>3, <1>4, CountConcat DEF TypeInv, QueuesInv
    <2>3. Count(events', flag) = c
      <3>1. /\ c = Count(events', flag) + (IF Of(Head(events), flag) THEN 1 ELSE 0)
            /\ Count(events', flag) \in Nat
            /\ Head(events).kind = "open"
        BY <1>1, EventCounts
      <3>2. ~Of(Head(events), flag)
        BY <3>1 DEF Of, Background
      <3> HIDE DEF c
      <3> QED
        BY <3>1, <3>2
    <2>4. Cardinality(Runners(flag)') = a
      BY <1>1, EventTypes DEF Runners
    <2> HIDE DEF a, b, c
    <2>5. CASE starts /\ flag = "analysis"
      BY <1>4, <1>6, <1>7, <2>1, <2>2, <2>3, <2>4, <2>5
    <2>6. CASE ~(starts /\ flag = "analysis")
      BY <1>4, <1>6, <2>1, <2>2, <2>3, <2>4, <2>6
    <2> QED
      BY <2>5, <2>6
  <1>9. pending' # None => "analysis" \in running'
    BY <1>1, <1>4
  <1> QED
    BY <1>8, <1>9, FlagsAddUp, SMTT(30)

\* The event of a background task clears its flag; the end of an analysis sets it
\* again when it sends the one that waited.
LEMMA AnsweredFlags ==
    ASSUME TypeInv, FlagsMatchTasks, TypeInv', NEW kind \in Background, Event(kind),
           NEW sent \in Seq(Jobs), tasks' = tasks \o sent,
           \/ sent = <<>> /\ running' = running \ {Flag[kind]}
           \/ /\ Len(sent) = 1 /\ sent[1].kind = kind
              /\ running' = (running \ {Flag[kind]}) \cup {Flag[kind]},
           pending' # None => "analysis" \in running'
    PROVE  FlagsMatchTasks'
  <1> DEFINE f == Flag[kind]
             n == IF sent = <<>> THEN 0 ELSE 1
  <1>1. \A i \in 1..1 : i = 1
    OBVIOUS
  <1>2. Len(sent) = 1 => sent # <<>>
    <2>1. CASE sent = <<>>
      <3>1. Len(sent) = 0
        BY ONLY <2>1
      <3> QED
        BY <3>1
    <2> QED
      BY <2>1
  <1>3. ASSUME NEW flag
        PROVE  Count(sent, flag) = IF flag = f THEN n ELSE 0
    <2>1. CASE sent = <<>>
      <3>1. Len(sent) = 0 /\ \A i \in 1..0 : FALSE
        BY <2>1, EmptySeq
      <3>2. Count(sent, flag) = 0
        BY <3>1, CountNone
      <3> QED
        BY <2>1, <3>2
    <2>2. CASE Len(sent) = 1 /\ sent[1].kind = kind /\ flag = f
      <3>1. 1 \in 1..Len(sent) /\ \A i \in 1..Len(sent) : Of(sent[i], flag) <=> i = 1
        BY <1>1, <2>2 DEF Of
      <3>2. Count(sent, flag) = 1
        BY <3>1, CountOne
      <3> QED
        BY <1>2, <2>2, <3>2
    <2>3. CASE Len(sent) = 1 /\ sent[1].kind = kind /\ flag # f
      <3>1. \A i \in 1..Len(sent) : ~Of(sent[i], flag)
        BY <1>1, <2>3 DEF Of
      <3>2. Count(sent, flag) = 0
        BY <3>1, CountNone
      <3> QED
        BY <2>3, <3>2
    <2> QED
      BY <2>1, <2>2, <2>3
  <1>4. n \in Nat /\ (n = 0 \/ n = 1)
    OBVIOUS
  <1>5. /\ n = 0 => running' = running \ {f}
        /\ n = 1 => running' = (running \ {f}) \cup {f}
    BY <1>2
  <1> HIDE DEF n, f
  <1>6. ASSUME NEW flag \in Flags
        PROVE  Cardinality(Runners(flag)') + Count(tasks', flag) + Count(events', flag)
                  = IF flag \in running' THEN 1 ELSE 0
    <2> DEFINE a == Cardinality(Runners(flag))
               b == Count(tasks, flag)
               c == Count(events, flag)
               d == Count(events', flag)
    <2>1. a \in Nat /\ b \in Nat /\ c \in Nat /\ a + b + c = IF flag \in running THEN 1 ELSE 0
      BY FlagsTakenApart
    <2>2. Count(tasks', flag) = b + (IF flag = f THEN n ELSE 0)
      BY <1>3, CountConcat DEF TypeInv, QueuesInv
    <2>3. c = d + (IF flag = f THEN 1 ELSE 0) /\ d \in Nat
      <3>1. Head(events).kind = kind /\ d \in Nat
            /\ c = d + (IF Of(Head(events), flag) THEN 1 ELSE 0)
        BY EventCounts
      <3>2. Of(Head(events), flag) <=> flag = f
        BY <3>1 DEF Of, f
      <3> HIDE DEF c, d
      <3> QED
        BY <3>1, <3>2
    <2>4. Cardinality(Runners(flag)') = a
      BY EventTypes DEF Runners
    <2> HIDE DEF a, b, c, d
    <2>5. CASE flag = f
      <3>1. flag \in running /\ a = 0 /\ b = 0 /\ d = 0
        BY <2>1, <2>3, <2>5
      <3>2. flag \in running' <=> n = 1
        BY <1>4, <1>5, <2>5
      <3> QED
        BY <1>4, <2>2, <2>4, <2>5, <3>1, <3>2 DEF d
    <2>6. CASE flag # f
      <3>1. flag \in running' <=> flag \in running
        BY <1>4, <1>5, <2>6
      <3> QED
        BY <2>1, <2>2, <2>3, <2>4, <2>6, <3>1 DEF d
    <2> QED
      BY <2>5, <2>6
  <1> QED
    BY <1>6, FlagsAddUp

\* Every event.
LEMMA PollFlags ==
    ASSUME TypeInv, FlagsMatchTasks, TypeInv', Poll
    PROVE  FlagsMatchTasks'
  <1>1. pending # None => "analysis" \in running
    BY DEF FlagsMatchTasks
  <1>2. \A k \in {"failed", "select", "annotations", "disassemble", "bytes", "path", "derive"} :
           k \notin Background
    BY DEF Background
  <1>3. ASSUME NEW kind, Event(kind), kind \notin Background, UNCHANGED <<tasks, running, pending>>
        PROVE  FlagsMatchTasks'
    BY <1>1, <1>3, OtherEventFlags
  <1>4. CASE OnDerived
    <2>1. Event("derive") /\ pending' = pending
      BY <1>4 DEF OnDerived
    <2>2. PICK jobs \in Seq(Jobs) :
              /\ Enqueue(jobs, FALSE, running)
              /\ \A i \in 1..Len(jobs) : jobs[i].kind \notin Background
      BY <1>4, DerivedSends
    <2>3. running' = running /\ \A flag : Count(tasks', flag) = Count(tasks, flag)
      BY <2>2, EnqueueCounts
    <2> QED
      BY <1>1, <1>2, <2>1, <2>3, OtherEventFlags
  <1>5. CASE OnAnalyzed
    <2>1. Event("analyze")
      BY <1>5 DEF OnAnalyzed
    <2>2. PICK sent \in Seq(Jobs) :
              /\ tasks' = tasks \o sent /\ Len(tasks) + Len(sent) <= QueueCapacity
              /\ \/ sent = <<>>
                 \/ Len(sent) = 1 /\ sent[1].kind = "analyze"
              /\ running' = (running \ {"analysis"}) \cup
                               (IF sent = <<>> THEN {} ELSE {"analysis"})
              /\ pending' = None
      BY <1>5, AnalyzedSends
    <2>3. Len(sent) = 1 => sent # <<>>
      BY EmptySeq
    <2>4. "analyze" \in Background /\ Flag["analyze"] = "analysis"
      BY FlagValues DEF Background
    <2>5. \/ sent = <<>> /\ running' = running \ {"analysis"}
          \/ /\ Len(sent) = 1 /\ sent[1].kind = "analyze"
             /\ running' = (running \ {"analysis"}) \cup {"analysis"}
      BY <2>2, <2>3
    <2> QED
      BY <2>1, <2>2, <2>4, <2>5, AnsweredFlags
  <1>6. ASSUME NEW k \in {"calls", "assess", "llvm"}, OnSeeded(k)
        PROVE  FlagsMatchTasks'
    <2>1. /\ Event(k) /\ running' = running \ {Flag[k]}
          /\ UNCHANGED <<tasks, pending>>
      BY <1>6 DEF OnSeeded
    <2>2. k \in Background /\ Flag[k] # "analysis"
      BY FlagValues DEF Background
    <2>3. tasks \o <<>> = tasks /\ <<>> \in Seq(Jobs)
      BY ConcatEmptySeq DEF TypeInv, QueuesInv
    <2>4. pending' # None => "analysis" \in running'
      BY <1>1, <2>1, <2>2
    <2> DEFINE sent == <<>>
    <2>5. sent \in Seq(Jobs) /\ tasks' = tasks \o sent /\ sent = <<>>
      BY <2>1, <2>3
    <2> HIDE DEF sent
    <2> QED
      BY <2>1, <2>2, <2>4, <2>5, AnsweredFlags
  <1>7. CASE OnFailed
    BY <1>2, <1>3, <1>7 DEF OnFailed
  <1>8. CASE OnSelected
    BY <1>2, <1>3, <1>8 DEF OnSelected
  <1>9. CASE OnPathTraced
    BY <1>2, <1>3, <1>9 DEF OnPathTraced
  <1>10. ASSUME NEW kind \in {"annotations", "disassemble", "bytes"}, NEW v, OnView(kind, v)
         PROVE  FlagsMatchTasks'
    BY <1>2, <1>3, <1>10 DEF OnView
  <1> QED
    BY <1>4, <1>5, <1>6, <1>7, <1>8, <1>9, <1>10, ImportedFlags DEF Poll

\* Initially no flag is set and no task outstanding.
LEMMA InitFlags == Init => FlagsMatchTasks
  <1> SUFFICES ASSUME Init PROVE FlagsMatchTasks
    OBVIOUS
  <1>1. /\ tasks = <<>> /\ events = <<>> /\ threads = {} /\ running = {} /\ pending = None
    BY DEF Init
  <1>2. <<>> \in Seq(Jobs) /\ Len(<<>>) = 0 /\ \A i \in 1..0 : FALSE
    BY EmptySeq
  <1>3. ASSUME NEW flag
        PROVE  Outstanding(flag) = 0
    <2>1. Count(<<>>, flag) = 0
      BY <1>2, CountNone
    <2>2. {t \in threads : Of(t, flag)} = {}
      BY <1>1
    <2>3. Cardinality({}) = 0
      BY FS_EmptySet
    <2> QED
      BY <1>1, <2>1, <2>2, <2>3 DEF Outstanding
  <1> QED
    BY <1>1, <1>3 DEF FlagsMatchTasks

\* Every step keeps flags and tasks together.
LEMMA NextFlags == TypeInv /\ FlagsMatchTasks /\ [Next]_vars => FlagsMatchTasks'
  <1> SUFFICES ASSUME TypeInv, FlagsMatchTasks, [Next]_vars PROVE FlagsMatchTasks'
    OBVIOUS
  <1>1. TypeInv'
    BY NextTypeInv
  <1>2. CASE UNCHANGED vars
    BY <1>2 DEF vars, queues, work, flags, FlagsMatchTasks, Outstanding
  <1> QED
    BY <1>1, <1>2, UserFlags, WorkerFlags, FinishFlags, PollFlags DEF Next

-----------------------------------------------------------------------------
(* Theorems *)

\* Tasks, events, flags, what is open and what is shown keep their types; neither
\* channel holds more than it has room for, only background tasks have threads of
\* their own, and an event that opens a binary names one.
THEOREM TypesHold == Spec => []TypeInv
  BY InitTypeInv, NextTypeInv, PTL DEF Spec

\* The views of the selected function, annotations, disassembly and bytes are of
\* the open binary, although the worker is ahead of the UI by the events in the
\* channel and the answer Selected names no binary (poll, the arms Selected,
\* AnnotationsLoaded, Disassembled and BinaryViewLoaded).
THEOREM NativeEvidence == Spec => []NativeEvidenceIsOfTheOpenBinary
  <1>1. TypeInv /\ NativeInv => NativeEvidenceIsOfTheOpenBinary
    BY DEF NativeInv
  <1> QED
    BY <1>1, InitTypeInv, NextTypeInv, InitNativeInv, NextNativeInv, PTL DEF Spec

\* Ghidra's snapshot and the results shown are of the open binary and the selected
\* function, and a path is of the configured seed, in whatever order background
\* tasks end (poll, the arms GhidraAnalyzed to GhidraCallLlvmEmitted).
THEOREM GhidraEvidence == Spec => []GhidraEvidenceIsCurrent
  BY InitTypeInv, NextTypeInv, InitGhidra, NextGhidra, PTL DEF Spec

\* ghidra_busy, ghidra_call_busy and ghidra_call_llvm_busy are set exactly while one
\* task of theirs waits, runs or has an answer that is not handled; pending_ghidra
\* is set only while an analysis is in progress (enqueue_ghidra and poll).
THEOREM Flagged == Spec => []FlagsMatchTasks
  BY InitTypeInv, NextTypeInv, InitFlags, NextFlags, PTL DEF Spec
=============================================================================
