----------------------- MODULE HydirEventStreamProofs -----------------------
(***************************************************************************)
(* For any jobs, streams, identities, batches, channels, connections and   *)
(* changes of access: a client receives the history of its job in order    *)
(* and complete, and of what is newer than the loss of its role nothing    *)
(* but the interruption of that job.                                       *)
(***************************************************************************)
EXTENDS HydirEventStream, FiniteSetTheorems, SequenceTheorems,
        WellFoundedInduction, TLAPS

-----------------------------------------------------------------------------
(* The invariant *)

Phase == {"absent", "queued", "running"} \cup Ended
Event == [seq : Nat, job : Job, state : Phase, artifact : Digest \cup {None}]

\* The numbers of events are given once, up to lastSeq, and only finitely many
\* jobs are unfinished.
LifeInv ==
    /\ phase \in [Job -> Phase]
    /\ lastSeq \in Nat
    /\ events \subseteq Event
    /\ IsFiniteSet(Unfinished)
    /\ \A e \in events : e.seq \in 1..lastSeq
    /\ \A e, f \in events : e.seq = f.seq => e = f

\* What a step of the life cycle leaves alone.
Grows ==
    /\ lastSeq' >= lastSeq
    /\ events \subseteq events'
    /\ \A e \in events' \ events : e.seq > lastSeq
    /\ \A j \in Job : phase[j] \in Ended =>
         phase'[j] = phase[j] /\ HistoryOf(j)' = HistoryOf(j)

Pc == {"off", "auth", "read", "batch", "send", "denied", "closed"}
Batch == SUBSET Event
StreamState == [pc : Pc, job : Job \cup {None}, who : Principal \cup {None},
                bearer : Nat, cursor : Nat, ended : BOOLEAN, batch : Batch,
                connects : Nat]

Types ==
    /\ credential \in [Principal -> Nat]
    /\ role \in [Principal -> Roles \cup {NoRole}]
    /\ cut \in [Principal -> Nat \cup {None}]
    /\ stream \in [Stream -> StreamState]
    /\ wire \in [Stream -> Seq(Event)]
    /\ got \in [Stream -> Seq(Event)]

Ascending(q) == \A m, n \in DOMAIN q : m < n => q[m].seq < q[n].seq

\* What the client has and what is on its way to it are the history up to the
\* cursor; the batch is what comes next.  A job read as ended has ended.
StreamInv(s) ==
    /\ stream[s].job = None => stream[s].pc = "off" /\ got[s] = <<>>
    /\ stream[s].who = None => stream[s].pc = "off" /\ got[s] = <<>>
    /\ stream[s].pc = "off" => wire[s] = <<>> /\ stream[s].batch = {}
    /\ Ascending(got[s]) /\ Ascending(wire[s])
    /\ \A e \in ToSet(got[s]), f \in ToSet(wire[s]) : e.seq < f.seq
    /\ stream[s].job # None =>
         ToSet(got[s]) = {e \in HistoryOf(stream[s].job) : e.seq <= LastSeq(got[s])}
    /\ stream[s].pc # "off" =>
         /\ stream[s].cursor <= lastSeq
         /\ ToSet(got[s]) \cup ToSet(wire[s])
              = {e \in HistoryOf(stream[s].job) : e.seq <= stream[s].cursor}
         /\ stream[s].batch \subseteq Later(s)
         /\ \A e \in stream[s].batch, f \in Later(s) :
              f.seq <= e.seq => f \in stream[s].batch
    /\ stream[s].pc = "batch" /\ stream[s].ended => phase[stream[s].job] \in Ended
    /\ stream[s].pc = "closed" => Later(s) = {} /\ phase[stream[s].job] \in Ended

\* What an identity whose role was taken away may still be sent.
MaySee(i, e) == e.seq <= cut[i] \/ e.state = "interrupted"

\* What an identity without a role was sent, and what a task that has read its
\* role before is about to read.
CutInv(s) ==
    stream[s].who # None /\ role[stream[s].who] = NoRole =>
        /\ \A e \in stream[s].batch \cup ToSet(wire[s]) \cup ToSet(got[s]) :
              MaySee(stream[s].who, e)
        /\ stream[s].pc = "batch" =>
              \A e \in HistoryOf(stream[s].job) : MaySee(stream[s].who, e)

IInv ==
    /\ LifeInv /\ Types
    /\ \A i \in Principal : role[i] = NoRole \/ cut[i] = None
    /\ \A s \in Stream : StreamInv(s) /\ CutInv(s)

-----------------------------------------------------------------------------
(* Sequences of events *)

\* An event that is sent or received comes last.
LEMMA Appended ==
    ASSUME NEW q \in Seq(Event), NEW e \in Event
    PROVE  /\ Append(q, e) \in Seq(Event)
           /\ ToSet(Append(q, e)) = ToSet(q) \cup {e}
           /\ LastSeq(Append(q, e)) = e.seq
           /\ Ascending(q) /\ (\A f \in ToSet(q) : f.seq < e.seq)
              => Ascending(Append(q, e))
  <1> DEFINE r == Append(q, e)
  <1>1. /\ r \in Seq(Event) /\ Len(r) = Len(q) + 1 /\ Len(q) \in Nat
        /\ \A n \in 1..Len(q) : r[n] = q[n]
        /\ r[Len(r)] = e
        /\ DOMAIN q = 1..Len(q) /\ DOMAIN r = 1..Len(r)
    OBVIOUS
  <1> HIDE DEF r
  <1>2. ToSet(r) = ToSet(q) \cup {e}
    <2>1. ASSUME NEW x PROVE x \in ToSet(r) <=> x \in ToSet(q) \cup {e}
      <3>1. x \in ToSet(r) <=> \E n \in 1..Len(r) : r[n] = x
        BY <1>1 DEF ToSet
      <3>2. x \in ToSet(q) <=> \E n \in 1..Len(q) : q[n] = x
        BY <1>1 DEF ToSet
      <3> QED
        BY <1>1, <3>1, <3>2
    <2> QED
      BY <2>1
  <1>3. LastSeq(r) = e.seq
    <2>1. r # <<>>
      BY <1>1
    <2> QED
      BY <1>1, <2>1 DEF LastSeq
  <1>4. ASSUME Ascending(q), \A f \in ToSet(q) : f.seq < e.seq PROVE Ascending(r)
    <2>1. SUFFICES ASSUME NEW m \in 1..Len(r), NEW n \in 1..Len(r), m < n
                   PROVE  r[m].seq < r[n].seq
      BY <1>1 DEF Ascending
    <2>2. m \in 1..Len(q) /\ r[m] = q[m]
      BY <1>1, <2>1
    <2>3. q[m] \in ToSet(q)
      BY <1>1, <2>2 DEF ToSet
    <2>4. CASE n = Len(r)
      BY <1>1, <1>4, <2>1, <2>2, <2>3, <2>4
    <2>5. CASE n # Len(r)
      BY <1>1, <1>4, <2>1, <2>2, <2>5 DEF Ascending
    <2> QED
      BY <2>4, <2>5
  <1> QED
    BY <1>1, <1>2, <1>3, <1>4 DEF r

\* The first event of a channel is the oldest.
LEMMA Taken ==
    ASSUME NEW q \in Seq(Event), q # <<>>
    PROVE  /\ Head(q) \in Event /\ Tail(q) \in Seq(Event)
           /\ ToSet(q) = {Head(q)} \cup ToSet(Tail(q))
           /\ Ascending(q) => /\ Ascending(Tail(q))
                              /\ \A f \in ToSet(Tail(q)) : Head(q).seq < f.seq
  <1> DEFINE r == Tail(q)
  <1>1. /\ Head(q) \in Event /\ r \in Seq(Event) /\ Head(q) = q[1]
        /\ Len(r) = Len(q) - 1 /\ Len(q) \in Nat /\ Len(q) > 0
        /\ \A n \in 1..Len(r) : r[n] = q[n + 1]
        /\ DOMAIN q = 1..Len(q) /\ DOMAIN r = 1..Len(r)
    OBVIOUS
  <1> HIDE DEF r
  <1>2. ToSet(q) = {Head(q)} \cup ToSet(r)
    <2>1. ASSUME NEW x PROVE x \in ToSet(q) <=> x \in {Head(q)} \cup ToSet(r)
      <3>1. x \in ToSet(r) <=> \E n \in 1..Len(r) : r[n] = x
        BY <1>1 DEF ToSet
      <3>2. x \in ToSet(q) <=> \E n \in 1..Len(q) : q[n] = x
        BY <1>1 DEF ToSet
      <3>3. \A n \in 1..Len(q) : n = 1 \/ (n - 1 \in 1..Len(r) /\ r[n - 1] = q[n])
        BY <1>1
      <3>4. \A n \in 1..Len(r) : n + 1 \in 1..Len(q)
        BY <1>1
      <3> QED
        BY <1>1, <3>1, <3>2, <3>3, <3>4
    <2> QED
      BY <2>1
  <1>3. ASSUME Ascending(q) PROVE Ascending(r)
    BY <1>1, <1>3, SMTT(30) DEF Ascending
  <1>4. ASSUME Ascending(q), NEW f \in ToSet(r) PROVE Head(q).seq < f.seq
    <2>1. PICK n \in 1..Len(r) : f = r[n]
      BY <1>1 DEF ToSet
    <2>2. n + 1 \in 1..Len(q) /\ 1 \in 1..Len(q) /\ 1 < n + 1 /\ f = q[n + 1]
      BY <1>1, <2>1
    <2> QED
      BY <1>1, <1>4, <2>2 DEF Ascending
  <1> QED
    BY <1>1, <1>2, <1>3, <1>4 DEF r

\* A client that has received nothing, and the last event of one that has.
LEMMA LastReceived ==
    ASSUME NEW q \in Seq(Event), Ascending(q)
    PROVE  /\ q = <<>> => ToSet(q) = {} /\ LastSeq(q) = 0
           /\ q # <<>> => \E e \in ToSet(q) : LastSeq(q) = e.seq
           /\ LastSeq(q) \in Nat
           /\ \A e \in ToSet(q) : e.seq <= LastSeq(q)
  <1>1. CASE q = <<>>
    <2>1. DOMAIN q = {}
      BY <1>1
    <2> QED
      BY <1>1, <2>1 DEF ToSet, LastSeq
  <1>2. CASE q # <<>>
    <2>1. Len(q) \in Nat /\ DOMAIN q = 1..Len(q) /\ Len(q) \in 1..Len(q)
          /\ \A n \in 1..Len(q) : q[n] \in Event
      BY <1>2
    <2>2. LastSeq(q) = q[Len(q)].seq /\ q[Len(q)] \in ToSet(q)
      BY <1>2, <2>1 DEF LastSeq, ToSet
    <2>3. \A n \in 1..Len(q) : q[n].seq \in Nat
      BY <2>1, SMTT(30) DEF Event
    <2>6. PICK k \in Nat : k = Len(q)
      BY <2>1
    <2>4. \A n \in 1..k : q[n].seq <= q[k].seq
      <3>1. \A n \in 1..k : n = k \/ n < k
        BY <2>6
      <3>2. \A n \in 1..k : n < k => q[n].seq < q[k].seq
        BY <2>1, <2>6 DEF Ascending
      <3>3. \A n \in 1..k : q[n].seq \in Nat /\ q[k].seq \in Nat
        BY <2>1, <2>3, <2>6
      <3>4. ASSUME NEW n \in 1..k PROVE q[n].seq <= q[k].seq
        <4>1. CASE n = k
          BY <3>3, <4>1
        <4>2. CASE n < k
          BY <3>2, <3>3, <4>2
        <4> QED
          BY <3>1, <3>4, <4>1, <4>2
      <3> QED
        BY <3>4
    <2>5. \A e \in ToSet(q) : e.seq <= LastSeq(q)
      BY <2>1, <2>2, <2>4, <2>6 DEF ToSet
    <2> QED
      BY <1>2, <2>1, <2>2, <2>3, <2>5
  <1> QED
    BY <1>1, <1>2

\* What the client has and what is on its way, one after the other.
LEMMA Joined ==
    ASSUME NEW q \in Seq(Event), NEW r \in Seq(Event)
    PROVE  ToSet(q \o r) = ToSet(q) \cup ToSet(r)
  <1> DEFINE t == q \o r
  <1>1. /\ Len(t) = Len(q) + Len(r) /\ Len(q) \in Nat /\ Len(r) \in Nat
        /\ DOMAIN t = 1..Len(t) /\ DOMAIN q = 1..Len(q) /\ DOMAIN r = 1..Len(r)
        /\ \A n \in 1..Len(t) : t[n] = IF n <= Len(q) THEN q[n] ELSE r[n - Len(q)]
    BY ConcatProperties
  <1> HIDE DEF t
  <1>2. ASSUME NEW x PROVE x \in ToSet(t) <=> x \in ToSet(q) \cup ToSet(r)
    <2>1. /\ x \in ToSet(t) <=> \E n \in 1..Len(t) : t[n] = x
          /\ x \in ToSet(q) <=> \E n \in 1..Len(q) : q[n] = x
          /\ x \in ToSet(r) <=> \E n \in 1..Len(r) : r[n] = x
      BY <1>1 DEF ToSet
    <2>2. \A n \in 1..Len(q) : n \in 1..Len(t) /\ t[n] = q[n]
      BY <1>1
    <2>3. \A n \in 1..Len(r) : n + Len(q) \in 1..Len(t) /\ t[n + Len(q)] = r[n]
      BY <1>1
    <2>4. \A n \in 1..Len(t) : \/ n \in 1..Len(q) /\ t[n] = q[n]
                               \/ n - Len(q) \in 1..Len(r) /\ t[n] = r[n - Len(q)]
      BY <1>1
    <2> QED
      BY <2>1, <2>2, <2>3, <2>4
  <1> QED
    BY <1>2 DEF t
-----------------------------------------------------------------------------
(* The life cycle *)

\* One job enters a phase.
LEMMA EnterKeeps ==
    ASSUME LifeInv, NEW j \in Job, phase[j] \notin Ended,
           NEW p \in {"queued", "running"} \cup Ended, NEW d \in Digest \cup {None},
           Enter(j, p, d)
    PROVE  LifeInv' /\ Grows
  <1> DEFINE e == Record(lastSeq + 1, j, p, d)
  <1>0. lastSeq \in Nat /\ p \in Phase
    BY DEF LifeInv, Phase
  <1>1. e.seq = lastSeq + 1 /\ e.job = j
    BY DEF Record
  <1>2. e \in Event
    BY <1>0 DEF Record, Event
  <1>3. events' = events \cup {e} /\ lastSeq' = lastSeq + 1
        /\ phase' = [phase EXCEPT ![j] = p]
    BY DEF Enter
  <1> HIDE DEF e
  <1>4. phase' \in [Job -> Phase]
        /\ phase'[j] = p /\ \A k \in Job \ {j} : phase'[k] = phase[k]
    BY <1>0, <1>3 DEF LifeInv
  <1>5. IsFiniteSet(Unfinished')
    <2>1. Unfinished' \subseteq Unfinished \cup {j}
      BY <1>4 DEF Unfinished
    <2>2. IsFiniteSet(Unfinished \cup {j})
      BY FS_AddElement DEF LifeInv
    <2> QED
      BY <2>1, <2>2, FS_Subset
  <1>7. \A f \in events' : f.seq \in 1..lastSeq'
    BY <1>0, <1>1, <1>3 DEF LifeInv
  <1>8. \A f \in events : f.seq # e.seq
    BY <1>0, <1>1 DEF LifeInv
  <1>9. \A f, g \in events' : f.seq = g.seq => f = g
    BY <1>3, <1>8 DEF LifeInv
  <1>10. Grows
    <2>1. ASSUME NEW k \in Job, phase[k] \in Ended
          PROVE  phase'[k] = phase[k] /\ HistoryOf(k)' = HistoryOf(k)
      <3>1. k # j
        BY <2>1
      <3> QED
        BY <1>1, <1>3, <1>4, <3>1 DEF HistoryOf
    <2> QED
      BY <1>0, <1>1, <1>3, <2>1 DEF Grows
  <1> QED
    BY <1>0, <1>1, <1>2, <1>3, <1>4, <1>5, <1>7, <1>9, <1>10 DEF LifeInv

\* Every unfinished job is interrupted.
LEMMA InterruptKeeps ==
    ASSUME LifeInv, Interrupt
    PROVE  LifeInv' /\ Grows
  <1> DEFINE N == Cardinality(Unfinished)
  <1>1. PICK pos \in Injection(Unfinished, 1..N) :
          /\ phase' = [j \in Job |-> IF j \in Unfinished THEN "interrupted" ELSE phase[j]]
          /\ lastSeq' = lastSeq + N
          /\ events' = events \cup
                {Record(lastSeq + pos[j], j, "interrupted", None) : j \in Unfinished}
    BY DEF Interrupt
  <1>2. N \in Nat /\ lastSeq \in Nat
    BY FS_CardinalityType DEF LifeInv
  <1> HIDE DEF N
  <1>3. /\ \A j \in Unfinished : pos[j] \in 1..N
        /\ \A j, k \in Unfinished : pos[j] = pos[k] => j = k
    BY DEF Injection, IsInjective
  <1> DEFINE e(j) == Record(lastSeq + pos[j], j, "interrupted", None)
             new == {e(j) : j \in Unfinished}
  <1>4. \A j \in Unfinished :
          /\ e(j).seq = lastSeq + pos[j] /\ e(j).job = j /\ j \in Job
          /\ e(j).seq \in lastSeq + 1 .. lastSeq + N
          /\ e(j) \in Event
    <2>1. SUFFICES ASSUME NEW j \in Unfinished
                   PROVE  /\ e(j).seq = lastSeq + pos[j] /\ e(j).job = j /\ j \in Job
                          /\ e(j).seq \in lastSeq + 1 .. lastSeq + N
                          /\ e(j) \in Event
      OBVIOUS
    <2>2. j \in Job /\ pos[j] \in 1..N /\ lastSeq + pos[j] \in Nat
      BY <1>2, <1>3 DEF Unfinished
    <2>3. e(j).seq = lastSeq + pos[j] /\ e(j).job = j
      BY DEF Record
    <2>4. e(j) \in Event
      BY <2>2 DEF Record, Event, Phase, Ended
    <2> QED
      BY <1>2, <2>2, <2>3, <2>4
  <1>5. events' = events \cup new
    BY <1>1
  <1> HIDE DEF e
  <1>7. \A f \in new : \E j \in Unfinished : f = e(j)
    OBVIOUS
  <1> HIDE DEF new
  <1>8. \A f \in new : f \in Event /\ f.seq \in lastSeq + 1 .. lastSeq + N
                       /\ f.job \in Unfinished
    BY <1>4, <1>7
  <1>9. \A f, g \in new : f.seq = g.seq => f = g
    <2>1. SUFFICES ASSUME NEW j \in Unfinished, NEW k \in Unfinished, e(j).seq = e(k).seq
                   PROVE  e(j) = e(k)
      BY <1>7
    <2>2. pos[j] = pos[k]
      BY <1>2, <1>3, <1>4, <2>1
    <2> QED
      BY <1>3, <2>2
  <1>10. phase' \in [Job -> Phase]
         /\ Unfinished' = {}
    BY <1>1 DEF LifeInv, Unfinished, Phase, Ended
  <1>11. IsFiniteSet(Unfinished')
    BY <1>10, FS_EmptySet
  <1>12. \A f \in events : f.seq \in 1..lastSeq /\ f \in Event
    BY DEF LifeInv
  <1>13. \A f \in events' : f \in Event /\ f.seq \in 1..lastSeq'
    BY <1>1, <1>2, <1>5, <1>8, <1>12
  <1>14. \A f, g \in events' : f.seq = g.seq => f = g
    BY <1>2, <1>5, <1>8, <1>9, <1>12 DEF LifeInv
  <1>15. Grows
    <2>1. ASSUME NEW k \in Job, phase[k] \in Ended
          PROVE  phase'[k] = phase[k] /\ HistoryOf(k)' = HistoryOf(k)
      <3>1. k \notin Unfinished
        BY <2>1 DEF Unfinished, Ended
      <3> QED
        BY <1>1, <1>5, <1>8, <3>1 DEF HistoryOf
    <2> QED
      BY <1>1, <1>2, <1>5, <1>8, <2>1 DEF Grows
  <1> QED
    BY <1>1, <1>2, <1>10, <1>11, <1>13, <1>14, <1>15 DEF LifeInv

\* There are finitely many events, since each has a number of its own.
LEMMA EventsAreFinite ==
    ASSUME LifeInv
    PROVE  IsFiniteSet(events)
  <1> DEFINE f == [e \in events |-> e.seq]
  <1>1. f \in Injection(events, 1..lastSeq)
    BY DEF LifeInv, Injection, IsInjective
  <1>2. IsFiniteSet(1..lastSeq)
    BY FS_Interval DEF LifeInv
  <1> QED
    BY <1>1, <1>2, FS_Injection

\* Every step of the life cycle adds events with larger numbers, and none of a
\* job that has ended.
LEMMA LifeStep ==
    ASSUME LifeInv, Next
    PROVE  LifeInv' /\ Grows
  <1> USE DEF Ended
  <1>1. ASSUME NEW j \in Job, NEW i \in Identity, Submit(j, i)
        PROVE  LifeInv' /\ Grows
    BY <1>1, EnterKeeps DEF Submit
  <1>2. ASSUME NEW j \in Job, NEW d \in Digest, Succeed(j, d)
        PROVE  LifeInv' /\ Grows
    BY <1>2, EnterKeeps DEF Succeed
  <1>3. ASSUME NEW j \in Job, Run(j) PROVE LifeInv' /\ Grows
    BY <1>3, EnterKeeps DEF Run
  <1>4. ASSUME NEW j \in Job, Fail(j) PROVE LifeInv' /\ Grows
    BY <1>4, EnterKeeps DEF Fail
  <1>5. ASSUME NEW j \in Job, Cancel(j) PROVE LifeInv' /\ Grows
    BY <1>5, EnterKeeps DEF Cancel, Unfinished
  <1> QED
    BY <1>1, <1>2, <1>3, <1>4, <1>5, InterruptKeeps DEF Next, ServerStep

\* Another process that opens the database writes interruptions only.
LEMMA InterruptsOnly ==
    ASSUME Interrupt
    PROVE  \A e \in events' : e \in events \/ e.state = "interrupted"
  <1>1. PICK pos \in Injection(Unfinished, 1..Cardinality(Unfinished)) :
          events' = events \cup
            {Record(lastSeq + pos[j], j, "interrupted", None) : j \in Unfinished}
    BY DEF Interrupt
  <1> QED
    BY <1>1 DEF Record
-----------------------------------------------------------------------------
(* The streams *)

\* What a client has received are events of its job.
LEMMA ReceivedIsRecorded ==
    ASSUME LifeInv, Types, NEW s \in Stream, StreamInv(s)
    PROVE  /\ LastSeq(got[s]) \in Nat /\ LastSeq(got[s]) <= lastSeq
           /\ \A e \in ToSet(got[s]) \cup ToSet(wire[s]) \cup stream[s].batch :
                e \in events /\ e.seq \in Nat /\ e.seq <= lastSeq
           /\ stream[s].cursor \in Nat
           /\ \A e \in events : e.seq \in Nat /\ e \in Event
           /\ lastSeq \in Nat
  <1>1. /\ got[s] \in Seq(Event) /\ wire[s] \in Seq(Event)
        /\ stream[s].cursor \in Nat /\ lastSeq \in Nat
    BY DEF Types, StreamState, LifeInv
  <1>2. \A e \in events : e.seq \in Nat /\ e.seq <= lastSeq /\ e \in Event
    BY <1>1 DEF LifeInv
  <1>3. got[s] = <<>> => ToSet(got[s]) = {} /\ LastSeq(got[s]) = 0
    BY <1>1, LastReceived DEF StreamInv
  <1>4. wire[s] = <<>> => ToSet(wire[s]) = {}
    BY <1>1, LastReceived DEF StreamInv
  <1>5. ToSet(got[s]) \subseteq events
    BY <1>3 DEF StreamInv, HistoryOf
  <1>6. ToSet(wire[s]) \subseteq events /\ stream[s].batch \subseteq events
    BY <1>4 DEF StreamInv, HistoryOf, Later
  <1>7. LastSeq(got[s]) \in Nat
        /\ (got[s] # <<>> => \E e \in ToSet(got[s]) : LastSeq(got[s]) = e.seq)
    BY <1>1, LastReceived DEF StreamInv
  <1> QED
    BY <1>1, <1>2, <1>3, <1>5, <1>6, <1>7

\* A step of the life cycle adds events after everything a stream has read, and
\* none to a job whose stream was closed.
LEMMA LifeKeepsStream ==
    ASSUME LifeInv, Grows, Types, NEW s \in Stream, StreamInv(s), UNCHANGED streamVars,
           LifeInv'
    PROVE  StreamInv(s)'
  <1> DEFINE j == stream[s].job
  <1>1. stream' = stream /\ wire' = wire /\ got' = got
    BY DEF streamVars
  <1>2. /\ LastSeq(got[s]) \in Nat /\ LastSeq(got[s]) <= lastSeq
        /\ \A e \in stream[s].batch : e.seq \in Nat /\ e.seq <= lastSeq
        /\ stream[s].cursor \in Nat /\ lastSeq \in Nat
        /\ \A e \in events : e.seq \in Nat
        /\ lastSeq' \in Nat /\ \A e \in events' : e.seq \in Nat
    BY ReceivedIsRecorded DEF LifeInv
  <1>3. /\ HistoryOf(j) \subseteq HistoryOf(j)'
        /\ \A e \in HistoryOf(j)' \ HistoryOf(j) : e.seq > lastSeq
        /\ lastSeq' >= lastSeq
        /\ HistoryOf(j) \subseteq events /\ HistoryOf(j)' \subseteq events'
    BY <1>1 DEF Grows, HistoryOf
  <1>4. j # None => j \in Job
    BY DEF Types, StreamState
  <1>5. \A n \in Nat : n <= lastSeq =>
          {e \in HistoryOf(j)' : e.seq <= n} = {e \in HistoryOf(j) : e.seq <= n}
    <2>1. ASSUME NEW n \in Nat, n <= lastSeq, NEW e \in HistoryOf(j)', e.seq <= n
          PROVE  e \in HistoryOf(j)
      <3>1. e.seq \in Nat /\ ~(e.seq > lastSeq)
        BY <1>2, <1>3, <2>1
      <3> QED
        BY <1>3, <3>1
    <2> QED
      BY <1>3, <2>1
  <1>6. stream[s].pc # "off" =>
          /\ Later(s) \subseteq Later(s)'
          /\ \A e \in Later(s)' : e \in Later(s) \/ e.seq > lastSeq
    BY <1>1, <1>2, <1>3 DEF Later
  <1>7. /\ stream[s].pc = "closed" => phase'[j] = phase[j] /\ Later(s)' = Later(s)
        /\ stream[s].pc = "batch" /\ stream[s].ended => phase'[j] = phase[j]
    BY <1>1, <1>4 DEF StreamInv, Grows, Later
  <1>8. stream[s].pc # "off" =>
          \A e \in stream[s].batch, f \in Later(s)' : f.seq <= e.seq => f \in stream[s].batch
    <2>1. SUFFICES ASSUME stream[s].pc # "off",
                          NEW e \in stream[s].batch, NEW f \in Later(s)', f.seq <= e.seq
                   PROVE  f \in stream[s].batch
      OBVIOUS
    <2>2. f \in events'
      BY <1>1, <1>3 DEF Later
    <2>3. ~(f.seq > lastSeq)
      BY <1>2, <2>1, <2>2
    <2>4. f \in Later(s)
      BY <1>6, <2>1, <2>3
    <2> QED
      BY <2>1, <2>4 DEF StreamInv
  <1>9. j # None =>
          ToSet(got[s]) = {e \in HistoryOf(j)' : e.seq <= LastSeq(got[s])}
    BY <1>2, <1>5 DEF StreamInv
  <1>10. stream[s].pc # "off" =>
          /\ stream[s].cursor <= lastSeq'
          /\ ToSet(got[s]) \cup ToSet(wire[s]) = {e \in HistoryOf(j)' : e.seq <= stream[s].cursor}
          /\ stream[s].batch \subseteq Later(s)'
    BY <1>2, <1>3, <1>5, <1>6 DEF StreamInv
  <1> QED
    BY <1>1, <1>7, <1>8, <1>9, <1>10 DEF StreamInv

\* A batch holds the next events, and one at least if there are any.
LEMMA BatchIsNext ==
    ASSUME LifeInv, Types, NEW s \in Stream
    PROVE  /\ NextBatch(s) \subseteq Later(s)
           /\ \A e \in NextBatch(s), f \in Later(s) : f.seq <= e.seq => f \in NextBatch(s)
           /\ NextBatch(s) = {} => Later(s) = {}
  <1> DEFINE UpTo(e) == {f \in Later(s) : f.seq <= e.seq}
  <1>1. /\ Later(s) \subseteq events
        /\ \A e \in events : e.seq \in Nat
        /\ \A e, f \in events : e.seq = f.seq => e = f
        /\ BatchLimit \in Nat /\ BatchLimit >= 1
    BY StreamAssumption DEF Later, HistoryOf, LifeInv
  <1>2. IsFiniteSet(Later(s))
    BY <1>1, EventsAreFinite, FS_Subset
  <1>3. NextBatch(s) = {e \in Later(s) : Cardinality(UpTo(e)) <= BatchLimit}
    BY DEF NextBatch
  <1> HIDE DEF UpTo
  <1>4. ASSUME NEW e \in NextBatch(s), NEW f \in Later(s), f.seq <= e.seq
        PROVE  f \in NextBatch(s)
    <2>1. e \in Later(s) /\ Cardinality(UpTo(e)) <= BatchLimit
      BY <1>3
    <2>2. e.seq \in Nat /\ f.seq \in Nat /\ \A g \in Later(s) : g.seq \in Nat
      BY <1>1, <2>1
    <2>3. UpTo(f) \in SUBSET UpTo(e)
      BY <1>4, <2>2 DEF UpTo
    <2>4. UpTo(e) \in SUBSET Later(s)
      BY DEF UpTo
    <2>5. IsFiniteSet(UpTo(e))
      BY <1>2, <2>4, FS_Subset
    <2>6. IsFiniteSet(UpTo(f)) /\ Cardinality(UpTo(f)) <= Cardinality(UpTo(e))
      BY <2>3, <2>5, FS_Subset
    <2>7. Cardinality(UpTo(f)) \in Nat /\ Cardinality(UpTo(e)) \in Nat
      BY <2>5, <2>6, FS_CardinalityType
    <2>8. Cardinality(UpTo(f)) <= BatchLimit
      BY <1>1, <2>1, <2>6, <2>7
    <2> QED
      BY <1>3, <2>8
  <1>5. ASSUME Later(s) # {} PROVE NextBatch(s) # {}
    <2> DEFINE T == {e.seq : e \in Later(s)}
               R == OpToRel(<, Nat)
    <2>1. T \subseteq Nat /\ T # {}
      BY <1>1, <1>5
    <2>2. PICK n \in T : \A m \in T : <<m, n>> \notin R
      BY <2>1, NatLessThanWellFounded, WFMin
    <2>3. \A m \in T : ~(m < n)
      BY <2>1, <2>2 DEF OpToRel
    <2>4. PICK e \in Later(s) : n = e.seq
      OBVIOUS
    <2>5. \A f \in Later(s) : f.seq <= e.seq => f = e
      <3>1. SUFFICES ASSUME NEW f \in Later(s), f.seq <= e.seq PROVE f = e
        OBVIOUS
      <3>2. ~(f.seq < e.seq)
        BY <2>3, <2>4
      <3>3. f.seq \in Nat /\ e.seq \in Nat /\ e \in events /\ f \in events
        BY <1>1
      <3>4. f.seq = e.seq
        BY <3>1, <3>2, <3>3
      <3> QED
        BY <1>1, <3>3, <3>4
    <2>6. e.seq \in Nat
      BY <1>1
    <2>7. UpTo(e) = {e}
      BY <2>5, <2>6 DEF UpTo
    <2>8. Cardinality(UpTo(e)) = 1
      BY <2>7, FS_Singleton
    <2> QED
      BY <1>1, <1>3, <2>8
  <1> QED
    BY <1>3, <1>4, <1>5

\* A stream keeps its type when some of its fields change.
LEMMA FieldsKeepType ==
    ASSUME stream \in [Stream -> StreamState], NEW s \in Stream,
           NEW p \in Pc, NEW b \in Batch, NEW n \in Nat, NEW d \in BOOLEAN
    PROVE  /\ [stream EXCEPT ![s].pc = p] \in [Stream -> StreamState]
           /\ [stream EXCEPT ![s].pc = p, ![s].batch = b] \in [Stream -> StreamState]
           /\ [stream EXCEPT ![s].cursor = n, ![s].batch = b, ![s].pc = p]
                \in [Stream -> StreamState]
           /\ [stream EXCEPT ![s].pc = p, ![s].cursor = n, ![s].ended = d, ![s].batch = b]
                \in [Stream -> StreamState]
           /\ [stream EXCEPT ![s].pc = p, ![s].ended = d] \in [Stream -> StreamState]
  <1>1. [stream EXCEPT ![s].pc = p] \in [Stream -> StreamState]
    BY DEF StreamState
  <1>2. [stream EXCEPT ![s].pc = p, ![s].batch = b] \in [Stream -> StreamState]
    BY ZenonT(40) DEF StreamState
  <1>3. [stream EXCEPT ![s].cursor = n, ![s].batch = b, ![s].pc = p]
          \in [Stream -> StreamState]
    BY ZenonT(40) DEF StreamState
  <1>4. [stream EXCEPT ![s].pc = p, ![s].cursor = n, ![s].ended = d, ![s].batch = b]
          \in [Stream -> StreamState]
    <2> DEFINE r == [stream[s] EXCEPT !.pc = p, !.cursor = n, !.ended = d, !.batch = b]
    <2>1. stream[s] \in StreamState
      OBVIOUS
    <2>2. r \in StreamState
      <3> DEFINE q == [stream[s] EXCEPT !.pc = p, !.ended = d]
      <3>1. q \in StreamState
        BY <2>1, ZenonT(40) DEF StreamState
      <3> HIDE DEF q
      <3>2. [q EXCEPT !.cursor = n, !.batch = b] \in StreamState
        BY <3>1, ZenonT(40) DEF StreamState
      <3>3. r = [q EXCEPT !.cursor = n, !.batch = b]
        BY <2>1, ZenonT(40) DEF q, StreamState
      <3> QED
        BY <3>2, <3>3
    <2> HIDE DEF r
    <2>3. [stream EXCEPT ![s] = r] \in [Stream -> StreamState]
      BY <2>2
    <2> QED
      BY <2>3 DEF r
  <1>5. [stream EXCEPT ![s].pc = p, ![s].ended = d] \in [Stream -> StreamState]
    BY ZenonT(40) DEF StreamState
  <1> QED
    BY <1>1, <1>2, <1>3, <1>4, <1>5

Inv(s) == LifeInv /\ Types /\ StreamInv(s) /\ CutInv(s)

\* A pass that only moves the task, between authenticating and reading or to its
\* end, disturbs nothing; a task that ends without an error has nothing to send.
LEMMA MovesOn ==
    ASSUME NEW s \in Stream, Inv(s), UNCHANGED <<lifecycle, access, cut, wire, got>>,
           NEW pc \in {"auth", "read", "denied", "closed"},
           stream[s].pc # "off",
           stream' = [stream EXCEPT ![s].pc = pc],
           pc = "closed" => Later(s) = {} /\ phase[stream[s].job] \in Ended
    PROVE  Types' /\ StreamInv(s)' /\ CutInv(s)'
  <1>1. Types'
    <2>1. pc \in Pc /\ {} \in Batch /\ stream \in [Stream -> StreamState]
      BY DEF Pc, Batch, Inv, Types
    <2> QED
      BY <2>1, FieldsKeepType DEF Inv, Types, access
  <1>2. /\ stream'[s].pc = pc /\ stream'[s].job = stream[s].job
        /\ stream'[s].who = stream[s].who /\ stream'[s].cursor = stream[s].cursor
        /\ stream'[s].batch = stream[s].batch /\ got' = got /\ wire' = wire
        /\ role' = role /\ cut' = cut
        /\ lastSeq' = lastSeq /\ phase' = phase /\ events' = events
    BY DEF Inv, Types, StreamState, access, lifecycle
  <1>3. HistoryOf(stream[s].job)' = HistoryOf(stream[s].job) /\ Later(s)' = Later(s)
    BY <1>2 DEF HistoryOf, Later
  <1>4. StreamInv(s)'
    BY <1>2, <1>3 DEF Inv, StreamInv
  <1>5. CutInv(s)'
    BY <1>2 DEF Inv, CutInv, MaySee
  <1> QED
    BY <1>1, <1>4, <1>5

\* A connection starts after the last event received, with nothing on its way.
LEMMA ConnectKeeps ==
    ASSUME NEW s \in Stream, NEW j \in Job, NEW i \in Reader, Inv(s), Connect(s, j, i),
           UNCHANGED <<lifecycle, access, cut>>
    PROVE  Types' /\ StreamInv(s)' /\ CutInv(s)'
  <1>0. /\ i \in Principal /\ i # None /\ j # None
        /\ stream[s].connects \in Nat /\ credential[i] \in Nat
        /\ LastSeq(got[s]) \in Nat /\ LastSeq(got[s]) <= lastSeq
        /\ got[s] \in Seq(Event)
        /\ \A e \in events : e.seq \in Nat
    BY StreamAssumption, ReceivedIsRecorded DEF Inv, Types, StreamState
  <1>1. Types'
    <2>1. "auth" \in Pc /\ {} \in Batch /\ stream[s].connects + 1 \in Nat
      BY <1>0 DEF Pc, Batch
    <2>2. [pc |-> "auth", job |-> j, who |-> i, bearer |-> credential[i],
           cursor |-> LastSeq(got[s]), ended |-> FALSE, batch |-> {},
           connects |-> stream[s].connects + 1]
             \in StreamState
      BY <1>0, <2>1 DEF StreamState
    <2>3. stream' \in [Stream -> StreamState]
      BY <2>2 DEF Inv, Types, Connect
    <2> QED
      BY <2>3 DEF Inv, Types, Connect, access
  <1>2. /\ stream'[s].pc = "auth" /\ stream'[s].job = j /\ stream'[s].who = i
        /\ stream'[s].cursor = LastSeq(got[s]) /\ stream'[s].batch = {}
        /\ got' = got /\ wire' = wire /\ role' = role /\ cut' = cut
        /\ lastSeq' = lastSeq /\ phase' = phase /\ events' = events
    BY DEF Inv, Types, StreamState, Connect, access, lifecycle
  <1>3. stream[s].pc = "off" /\ stream[s].job \in {None, j} /\ role[i] # NoRole
    BY DEF Connect, HasRole
  <1>4. wire[s] = <<>> /\ ToSet(wire[s]) = {}
    BY <1>3, LastReceived DEF Inv, StreamInv, Types, StreamState
  <1>5. ToSet(got[s]) = {e \in HistoryOf(j) : e.seq <= LastSeq(got[s])}
    <2>1. CASE stream[s].job = j
      BY <1>0, <2>1 DEF Inv, StreamInv
    <2>2. CASE stream[s].job = None
      <3>1. got[s] = <<>> /\ ToSet(got[s]) = {} /\ LastSeq(got[s]) = 0
        BY <1>0, <2>2, LastReceived DEF Inv, StreamInv
      <3>2. \A e \in HistoryOf(j) : e.seq > 0
        BY DEF HistoryOf, Inv, LifeInv
      <3> QED
        BY <1>0, <3>1, <3>2 DEF HistoryOf
    <2> QED
      BY <1>3, <2>1, <2>2
  <1>6. HistoryOf(j)' = HistoryOf(j)
    BY <1>2 DEF HistoryOf
  <1>7. StreamInv(s)'
    BY <1>0, <1>2, <1>4, <1>5, <1>6 DEF Inv, StreamInv
  <1>8. CutInv(s)'
    BY <1>2, <1>3 DEF CutInv
  <1> QED
    BY <1>1, <1>7, <1>8

\* Who has lost the role is refused; who has it has lost nothing yet.
LEMMA ReadStateKeeps ==
    ASSUME NEW s \in Stream, Inv(s), ReadState(s), UNCHANGED <<lifecycle, access, cut>>
    PROVE  Types' /\ StreamInv(s)' /\ CutInv(s)'
  <1> DEFINE d == phase[stream[s].job] \in Ended
  <1>1. stream[s].pc = "read" /\ wire' = wire /\ got' = got
    BY DEF ReadState
  <1>2. CASE stream' = [stream EXCEPT ![s].pc = "denied"]
    BY <1>1, <1>2, MovesOn
  <1>3. CASE /\ role[stream[s].who] # NoRole
             /\ stream' = [stream EXCEPT ![s].pc = "batch", ![s].ended = d]
    <2>1. Types'
      <3>1. "batch" \in Pc /\ d \in BOOLEAN /\ {} \in Batch /\ 0 \in Nat
        BY DEF Pc, Batch
      <3> HIDE DEF d
      <3>2. stream' \in [Stream -> StreamState]
        BY <1>3, <3>1, FieldsKeepType DEF Inv, Types
      <3> QED
        BY <1>1, <3>2 DEF Inv, Types, access
    <2>2. /\ stream'[s].pc = "batch" /\ stream'[s].job = stream[s].job
          /\ stream'[s].who = stream[s].who /\ stream'[s].cursor = stream[s].cursor
          /\ stream'[s].batch = stream[s].batch /\ stream'[s].ended = d
          /\ role' = role /\ cut' = cut
          /\ lastSeq' = lastSeq /\ phase' = phase /\ events' = events
      BY <1>3 DEF Inv, Types, StreamState, access, lifecycle
    <2>3. HistoryOf(stream[s].job)' = HistoryOf(stream[s].job) /\ Later(s)' = Later(s)
      BY <2>2 DEF HistoryOf, Later
    <2>4. StreamInv(s)'
      BY <1>1, <2>2, <2>3 DEF Inv, StreamInv
    <2>5. CutInv(s)'
      BY <1>3, <2>2 DEF CutInv
    <2> QED
      BY <2>1, <2>4, <2>5
  <1> QED
    BY <1>2, <1>3 DEF ReadState

\* A pass reads the next batch, or finds that there is none.
LEMMA ReadBatchKeeps ==
    ASSUME NEW s \in Stream, Inv(s), ReadBatch(s), UNCHANGED <<lifecycle, access, cut>>
    PROVE  Types' /\ StreamInv(s)' /\ CutInv(s)'
  <1>1. stream[s].pc = "batch" /\ wire' = wire /\ got' = got
    BY DEF ReadBatch
  <1>2. /\ NextBatch(s) \subseteq Later(s)
        /\ \A e \in NextBatch(s), f \in Later(s) : f.seq <= e.seq => f \in NextBatch(s)
        /\ NextBatch(s) = {} => Later(s) = {}
    BY BatchIsNext DEF Inv
  <1>3. CASE NextBatch(s) = {} /\ stream' = [stream EXCEPT ![s].pc =
                IF stream[s].ended THEN "closed" ELSE "auth"]
    <2>1. stream[s].ended => phase[stream[s].job] \in Ended
      BY <1>1 DEF Inv, StreamInv
    <2> QED
      BY <1>1, <1>2, <1>3, <2>1, MovesOn
  <1>4. CASE stream' = [stream EXCEPT ![s].pc = "send", ![s].batch = NextBatch(s)]
    <2>0. NextBatch(s) \subseteq Event
      BY <1>2 DEF Later, HistoryOf, Inv, LifeInv
    <2>1. Types'
      <3>1. PICK p \in Pc, B \in Batch :
              stream' = [stream EXCEPT ![s].pc = p, ![s].batch = B]
        BY <1>4, <2>0 DEF Batch, Pc
      <3> QED
        BY <1>1, <3>1, FieldsKeepType DEF Inv, Types, access
    <2>2. /\ stream'[s].pc = "send" /\ stream'[s].job = stream[s].job
          /\ stream'[s].who = stream[s].who /\ stream'[s].cursor = stream[s].cursor
          /\ stream'[s].batch = NextBatch(s)
          /\ role' = role /\ cut' = cut
          /\ lastSeq' = lastSeq /\ phase' = phase /\ events' = events
      BY <1>4 DEF Inv, Types, StreamState, access, lifecycle
    <2>3. HistoryOf(stream[s].job)' = HistoryOf(stream[s].job) /\ Later(s)' = Later(s)
      BY <2>2 DEF HistoryOf, Later
    <2>4. StreamInv(s)'
      BY <1>1, <1>2, <2>2, <2>3 DEF Inv, StreamInv
    <2>5. NextBatch(s) \subseteq HistoryOf(stream[s].job)
      BY <1>2 DEF Later
    <2>6. CutInv(s)'
      BY <1>1, <2>2, <2>5 DEF Inv, CutInv, MaySee
    <2> QED
      BY <2>1, <2>4, <2>6
  <1> QED
    BY <1>3, <1>4 DEF ReadBatch

\* What is sent is the next event, so nothing is left out or repeated.
LEMMA SendKeeps ==
    ASSUME NEW s \in Stream, Inv(s), Send(s), UNCHANGED <<lifecycle, access, cut>>
    PROVE  Types' /\ StreamInv(s)' /\ CutInv(s)'
  <1> DEFINE j == stream[s].job
             H == HistoryOf(j)
             c == stream[s].cursor
  <1>1. PICK e \in stream[s].batch :
          /\ \A f \in stream[s].batch : e.seq <= f.seq
          /\ wire' = [wire EXCEPT ![s] = Append(@, e)]
          /\ stream' = [stream EXCEPT
                ![s].cursor = e.seq, ![s].batch = @ \ {e},
                ![s].pc = IF stream[s].batch = {e} THEN "auth" ELSE "send"]
    BY DEF Send
  <1>2. /\ stream[s].pc = "send" /\ got' = got
        /\ role' = role /\ cut' = cut
        /\ lastSeq' = lastSeq /\ phase' = phase /\ events' = events
    BY DEF Send, lifecycle, access
  <1>3. /\ \A f \in ToSet(got[s]) \cup ToSet(wire[s]) \cup stream[s].batch :
             f \in events /\ f.seq \in Nat /\ f.seq <= lastSeq
        /\ c \in Nat /\ e.seq \in Nat /\ e \in Event
        /\ \A f \in events : f.seq \in Nat
        /\ got[s] \in Seq(Event) /\ wire[s] \in Seq(Event)
    BY ReceivedIsRecorded DEF Inv, Types, StreamState
  <1>4. Types'
    <2>1. PICK B \in Batch, pc \in Pc, n \in Nat :
            stream' = [stream EXCEPT ![s].cursor = n, ![s].batch = B, ![s].pc = pc]
      BY <1>1, <1>3, ZenonT(40) DEF Inv, Types, StreamState, Batch, Pc
    <2>2. stream' \in [Stream -> StreamState]
      BY <2>1, FieldsKeepType DEF Inv, Types
    <2>3. wire' \in [Stream -> Seq(Event)]
      BY <1>1, <1>3, Appended DEF Inv, Types, StreamState
    <2> QED
      BY <1>2, <2>2, <2>3 DEF Inv, Types, StreamState, access
  <1>5. /\ stream'[s].pc \in {"auth", "send"} /\ stream'[s].job = j
        /\ stream'[s].who = stream[s].who /\ stream'[s].cursor = e.seq
        /\ stream'[s].batch = stream[s].batch \ {e}
        /\ wire'[s] = Append(wire[s], e)
    BY <1>1 DEF Inv, Types, StreamState
  <1>6. H' = H
    BY <1>2, <1>5 DEF HistoryOf
  <1>7. /\ e \in Later(s) /\ e \in H /\ e.seq > c
        /\ \A f \in Later(s) : f.seq <= e.seq => f = e
    <2>1. e \in Later(s)
      BY <1>2 DEF Inv, StreamInv
    <2>2. ASSUME NEW f \in Later(s), f.seq <= e.seq PROVE f = e
      <3>1. f \in stream[s].batch
        BY <1>2, <2>2 DEF Inv, StreamInv
      <3>2. f.seq = e.seq
        BY <1>1, <1>3, <2>2, <3>1
      <3> QED
        BY <1>3, <3>1, <3>2 DEF Inv, LifeInv
    <2> QED
      BY <2>1, <2>2 DEF Later
  <1>8. ToSet(got[s]) \cup ToSet(wire[s]) = {f \in H : f.seq <= c}
    BY <1>2 DEF Inv, StreamInv
  <1>9. {f \in H : f.seq <= e.seq} = {f \in H : f.seq <= c} \cup {e}
    <2>1. H \subseteq events
      BY DEF HistoryOf
    <2>2. \A f \in H : f.seq > c => f \in Later(s)
      BY DEF Later
    <2>3. ASSUME NEW f \in H, f.seq <= e.seq PROVE f.seq <= c \/ f = e
      BY <1>3, <1>7, <2>1, <2>2, <2>3
    <2>4. ASSUME NEW f \in H, f.seq <= c PROVE f.seq <= e.seq
      BY <1>3, <1>7, <2>1, <2>4
    <2> QED
      BY <1>3, <1>7, <2>3, <2>4
  <1>10. /\ ToSet(wire'[s]) = ToSet(wire[s]) \cup {e}
         /\ Ascending(wire'[s])
         /\ \A f \in ToSet(got[s]) \cup ToSet(wire[s]) : f.seq < e.seq
    <2>1. \A f \in ToSet(got[s]) \cup ToSet(wire[s]) : f.seq < e.seq
      BY <1>3, <1>7, <1>8
    <2> QED
      BY <1>3, <1>5, <2>1, Appended DEF Inv, StreamInv
  <1>11. Later(s)' = {f \in H : f.seq > e.seq}
    BY <1>2, <1>5, <1>6 DEF Later
  <1>12. /\ stream'[s].batch \subseteq Later(s)'
         /\ \A f \in stream'[s].batch, g \in Later(s)' : g.seq <= f.seq
              => g \in stream'[s].batch
    <2>1. ASSUME NEW f \in stream'[s].batch PROVE f \in Later(s)'
      <3>1. f \in stream[s].batch /\ f # e /\ f \in Later(s) /\ f \in H
        BY <1>2, <1>5 DEF Inv, StreamInv, Later
      <3>2. ~(f.seq <= e.seq)
        BY <1>7, <3>1
      <3> QED
        BY <1>3, <1>11, <3>1, <3>2
    <2>2. ASSUME NEW f \in stream'[s].batch, NEW g \in Later(s)', g.seq <= f.seq
          PROVE  g \in stream'[s].batch
      <3>1. f \in stream[s].batch
        BY <1>5
      <3>2. g \in H /\ g.seq > e.seq /\ g.seq \in Nat
        BY <1>3, <1>11 DEF HistoryOf
      <3>3. g.seq > c /\ g # e
        BY <1>3, <1>7, <3>2
      <3>4. g \in Later(s)
        BY <3>2, <3>3 DEF Later
      <3>5. g \in stream[s].batch
        BY <1>2, <2>2, <3>1, <3>4 DEF Inv, StreamInv
      <3> QED
        BY <1>5, <3>3, <3>5
    <2> QED
      BY <2>1, <2>2
  <1>13. StreamInv(s)'
    <2>1. stream[s].job # None /\ stream[s].who # None
      BY <1>2 DEF Inv, StreamInv
    <2>2. ToSet(got'[s]) \cup ToSet(wire'[s]) = {f \in H' : f.seq <= e.seq}
      BY <1>2, <1>6, <1>8, <1>9, <1>10
    <2>3. \A f \in ToSet(got'[s]), g \in ToSet(wire'[s]) : f.seq < g.seq
      BY <1>2, <1>10 DEF Inv, StreamInv
    <2>4. /\ Ascending(got'[s])
          /\ ToSet(got'[s]) = {f \in H' : f.seq <= LastSeq(got'[s])}
      BY <1>2, <1>6, <2>1 DEF Inv, StreamInv
    <2>5. stream'[s].cursor <= lastSeq'
      BY <1>2, <1>3, <1>5
    <2> HIDE DEF H
    <2>6. H' = HistoryOf(stream[s].job)'
      BY DEF H
    <2> QED
      BY <1>5, <1>10, <1>12, <2>1, <2>2, <2>3, <2>4, <2>5, <2>6 DEF StreamInv
  <1>14. CutInv(s)'
    <2>1. stream'[s].batch \cup ToSet(wire'[s]) \cup ToSet(got'[s])
            \subseteq stream[s].batch \cup ToSet(wire[s]) \cup ToSet(got[s])
      BY <1>2, <1>5, <1>10
    <2> QED
      BY <1>2, <1>5, <2>1 DEF Inv, CutInv, MaySee
  <1> QED
    BY <1>4, <1>13, <1>14

\* The client takes the oldest event on its way.
LEMMA ReceiveKeeps ==
    ASSUME NEW s \in Stream, Inv(s), Receive(s), UNCHANGED <<lifecycle, access, cut>>
    PROVE  Types' /\ StreamInv(s)' /\ CutInv(s)'
  <1> DEFINE H == HistoryOf(stream[s].job)
             e == Head(wire[s])
  <1>1. /\ wire[s] # <<>> /\ stream' = stream
        /\ got' = [got EXCEPT ![s] = Append(@, e)]
        /\ wire' = [wire EXCEPT ![s] = Tail(@)]
        /\ got[s] \in Seq(Event) /\ wire[s] \in Seq(Event)
    BY DEF Receive, Inv, Types
  <1>2. /\ role' = role /\ cut' = cut /\ credential' = credential
        /\ lastSeq' = lastSeq /\ phase' = phase /\ events' = events
    BY DEF lifecycle, access
  <1>3. /\ e \in Event /\ Tail(wire[s]) \in Seq(Event)
        /\ ToSet(wire[s]) = {e} \cup ToSet(Tail(wire[s]))
        /\ Ascending(Tail(wire[s]))
        /\ \A f \in ToSet(Tail(wire[s])) : e.seq < f.seq
    BY <1>1, Taken DEF Inv, StreamInv
  <1> HIDE DEF e
  <1>4. \A f \in ToSet(got[s]) : f.seq < e.seq
    BY <1>3 DEF Inv, StreamInv
  <1>5. /\ Append(got[s], e) \in Seq(Event)
        /\ ToSet(Append(got[s], e)) = ToSet(got[s]) \cup {e}
        /\ LastSeq(Append(got[s], e)) = e.seq
        /\ Ascending(Append(got[s], e))
    BY <1>1, <1>3, <1>4, Appended DEF Inv, StreamInv
  <1>6. got'[s] = Append(got[s], e) /\ wire'[s] = Tail(wire[s])
    BY <1>1 DEF Inv, Types
  <1>7. Types'
    BY <1>1, <1>2, <1>3, <1>5 DEF Inv, Types
  <1>8. stream[s].pc # "off" /\ stream[s].job # None /\ stream[s].who # None
    BY <1>1 DEF Inv, StreamInv
  <1>9. ToSet(got[s]) \cup ToSet(wire[s]) = {f \in H : f.seq <= stream[s].cursor}
    BY <1>8 DEF Inv, StreamInv
  <1>10. /\ \A f \in H : f.seq \in Nat
         /\ stream[s].cursor \in Nat /\ e.seq \in Nat
    BY <1>3 DEF HistoryOf, Event, Inv, LifeInv, Types, StreamState
  <1>11. ToSet(got[s]) \cup {e} = {f \in H : f.seq <= e.seq}
    <2>1. e \in H /\ e.seq <= stream[s].cursor
      BY <1>3, <1>9
    <2>2. ASSUME NEW f \in H, f.seq <= e.seq PROVE f \in ToSet(got[s]) \cup {e}
      <3>1. f.seq <= stream[s].cursor
        BY <1>10, <2>1, <2>2
      <3>2. f \in ToSet(got[s]) \cup {e} \cup ToSet(Tail(wire[s]))
        BY <1>3, <1>9, <3>1
      <3>3. ~(e.seq < f.seq)
        BY <1>10, <2>2
      <3> QED
        BY <1>3, <3>2, <3>3
    <2>3. ASSUME NEW f \in ToSet(got[s]) PROVE f \in H /\ f.seq <= e.seq
      BY <1>4, <1>9, <1>10, <2>3
    <2> QED
      BY <1>10, <2>1, <2>2, <2>3
  <1>12. H' = H /\ Later(s)' = Later(s)
    BY <1>1, <1>2 DEF HistoryOf, Later
  <1>13. StreamInv(s)'
    <2>1. /\ Ascending(got'[s]) /\ Ascending(wire'[s])
          /\ ToSet(got'[s]) = {f \in H' : f.seq <= LastSeq(got'[s])}
      BY <1>3, <1>5, <1>6, <1>11, <1>12
    <2>2. \A f \in ToSet(got'[s]), g \in ToSet(wire'[s]) : f.seq < g.seq
      BY <1>3, <1>5, <1>6 DEF Inv, StreamInv
    <2>3. ToSet(got'[s]) \cup ToSet(wire'[s]) = {f \in H' : f.seq <= stream[s].cursor}
      BY <1>3, <1>5, <1>6, <1>9, <1>12
    <2>4. /\ stream[s].cursor <= lastSeq'
          /\ stream[s].batch \subseteq Later(s)'
          /\ \A f \in stream[s].batch, g \in Later(s)' : g.seq <= f.seq
               => g \in stream[s].batch
          /\ stream[s].pc = "batch" /\ stream[s].ended => phase'[stream[s].job] \in Ended
          /\ stream[s].pc = "closed" => Later(s)' = {} /\ phase'[stream[s].job] \in Ended
      BY <1>2, <1>8, <1>12 DEF Inv, StreamInv
    <2> HIDE DEF H
    <2>5. H' = HistoryOf(stream[s].job)'
      BY DEF H
    <2> QED
      BY <1>1, <1>8, <2>1, <2>2, <2>3, <2>4, <2>5 DEF StreamInv
  <1>14. CutInv(s)'
    <2>1. ToSet(wire'[s]) \cup ToSet(got'[s]) = ToSet(wire[s]) \cup ToSet(got[s])
      BY <1>3, <1>5, <1>6
    <2> QED
      BY <1>1, <1>2, <1>12, <2>1 DEF Inv, CutInv, MaySee
  <1> QED
    BY <1>7, <1>13, <1>14

\* A lost connection loses what was on its way, and nothing that was received.
LEMMA DisconnectKeeps ==
    ASSUME NEW s \in Stream, Inv(s), Disconnect(s), UNCHANGED <<lifecycle, access, cut>>
    PROVE  Types' /\ StreamInv(s)' /\ CutInv(s)'
  <1>1. /\ stream[s].pc # "off" /\ got' = got
        /\ stream' = [stream EXCEPT ![s].pc = "off", ![s].cursor = 0, ![s].ended = FALSE,
                                    ![s].batch = {}]
        /\ wire' = [wire EXCEPT ![s] = <<>>]
        /\ role' = role /\ cut' = cut /\ credential' = credential
        /\ lastSeq' = lastSeq /\ phase' = phase /\ events' = events
    BY DEF Disconnect, lifecycle, access
  <1>2. Types'
    <2>1. "off" \in Pc /\ {} \in Batch /\ 0 \in Nat /\ <<>> \in Seq(Event) /\ FALSE \in BOOLEAN
      BY SMTT(30) DEF Pc, Batch
    <2>2. stream' \in [Stream -> StreamState]
      BY <1>1, <2>1, FieldsKeepType DEF Inv, Types
    <2>3. wire' \in [Stream -> Seq(Event)]
      BY <1>1, <2>1 DEF Inv, Types
    <2> QED
      BY <1>1, <2>2, <2>3 DEF Inv, Types
  <1>3. /\ stream'[s].pc = "off" /\ stream'[s].job = stream[s].job
        /\ stream'[s].who = stream[s].who /\ stream'[s].batch = {}
        /\ wire'[s] = <<>> /\ ToSet(wire'[s]) = {} /\ Ascending(wire'[s])
    <2>1. wire'[s] = <<>>
      BY <1>1 DEF Inv, Types
    <2>2. DOMAIN <<>> = {}
      OBVIOUS
    <2>3. ToSet(wire'[s]) = {} /\ Ascending(wire'[s])
      BY <2>1, <2>2 DEF ToSet, Ascending
    <2> QED
      BY <1>1, <2>1, <2>3 DEF Inv, Types, StreamState
  <1>4. HistoryOf(stream[s].job)' = {f \in events : f.job = stream'[s].job}
    BY <1>1, <1>3 DEF HistoryOf
  <1>5. stream[s].job # None /\ stream[s].who # None
    BY <1>1 DEF Inv, StreamInv
  <1>6. StreamInv(s)'
    BY <1>1, <1>3, <1>4, <1>5 DEF Inv, StreamInv, HistoryOf
  <1>7. CutInv(s)'
    BY <1>1, <1>3 DEF Inv, CutInv, MaySee
  <1> QED
    BY <1>2, <1>6, <1>7

\* A step of a stream leaves the others alone.
LEMMA OthersUntouched ==
    ASSUME NEW s \in Stream, Types, UNCHANGED <<lifecycle, access, cut>>,
           \/ \E j \in Job, i \in Reader : Connect(s, j, i)
           \/ Task(s) \/ Receive(s) \/ Disconnect(s),
           NEW t \in Stream, t # s, StreamInv(t), CutInv(t)
    PROVE  StreamInv(t)' /\ CutInv(t)'
  <1>1. stream'[t] = stream[t] /\ wire'[t] = wire[t] /\ got'[t] = got[t]
    <2>1. CASE \E j \in Job, i \in Reader : Connect(s, j, i)
      BY <2>1 DEF Connect, Types
    <2>2. CASE Authenticate(s)
      BY <2>2 DEF Authenticate, Types
    <2>3. CASE ReadState(s)
      BY <2>3 DEF ReadState, Types
    <2>4. CASE ReadBatch(s)
      BY <2>4 DEF ReadBatch, Types
    <2>5. CASE Send(s)
      BY <2>5 DEF Send, Types
    <2>6. CASE Receive(s)
      BY <2>6 DEF Receive, Types
    <2>7. CASE Disconnect(s)
      BY <2>7 DEF Disconnect, Types
    <2> QED
      BY <2>1, <2>2, <2>3, <2>4, <2>5, <2>6, <2>7 DEF Task
  <1>2. /\ role' = role /\ cut' = cut /\ lastSeq' = lastSeq
        /\ phase' = phase /\ events' = events
    BY DEF lifecycle, access
  <1> QED
    BY <1>1, <1>2 DEF StreamInv, CutInv, MaySee, Later, HistoryOf

\* A command that takes a role away comes after everything that was sent.
LEMMA AccessKeeps ==
    ASSUME IInv, AccessNext, UNCHANGED <<lifecycle, streamVars>>,
           cut' = [i \in Principal |->
             IF role'[i] # NoRole THEN None
             ELSE IF role[i] # NoRole THEN lastSeq ELSE cut[i]]
    PROVE  IInv'
  <1>1. /\ stream' = stream /\ wire' = wire /\ got' = got
        /\ lastSeq' = lastSeq /\ phase' = phase /\ events' = events
    BY DEF streamVars, lifecycle
  <1>2. /\ credential' \in [Principal -> Nat]
        /\ role' \in [Principal -> Roles \cup {NoRole}]
    <2>1. PICK i \in Principal :
            \/ CreateIdentity(i) \/ RotateIdentity(i)
            \/ \E actor \in Principal :
                 (\E r \in Grantable : Grant(actor, i, r)) \/ Revoke(actor, i)
      BY DEF AccessNext
    <2>2. CASE CreateIdentity(i)
      BY <2>2 DEF CreateIdentity, IInv, Types
    <2>3. CASE RotateIdentity(i)
      BY <2>3 DEF RotateIdentity, IInv, Types
    <2>4. ASSUME NEW actor \in Principal, NEW r \in Grantable, Grant(actor, i, r)
          PROVE  /\ credential' \in [Principal -> Nat]
                 /\ role' \in [Principal -> Roles \cup {NoRole}]
      BY <2>4, AccessAssumption DEF Grant, IInv, Types
    <2>5. ASSUME NEW actor \in Principal, Revoke(actor, i)
          PROVE  /\ credential' \in [Principal -> Nat]
                 /\ role' \in [Principal -> Roles \cup {NoRole}]
      BY <2>5 DEF Revoke, IInv, Types
    <2> QED
      BY <2>1, <2>2, <2>3, <2>4, <2>5
  <1>3. Types' /\ LifeInv'
    <2>1. cut' \in [Principal -> Nat \cup {None}]
      BY DEF IInv, Types, LifeInv
    <2>2. Unfinished' = Unfinished
      BY <1>1 DEF Unfinished
    <2> QED
      BY <1>1, <1>2, <2>1, <2>2 DEF IInv, Types, LifeInv
  <1>4. \A i \in Principal : role'[i] = NoRole \/ cut'[i] = None
    OBVIOUS
  <1>5. ASSUME NEW s \in Stream PROVE StreamInv(s)' /\ CutInv(s)'
    <2>1. StreamInv(s)'
      BY <1>1 DEF IInv, StreamInv, Later, HistoryOf
    <2>2. /\ \A e \in stream[s].batch \cup ToSet(wire[s]) \cup ToSet(got[s]) :
                e.seq <= lastSeq
          /\ \A e \in HistoryOf(stream[s].job) : e.seq <= lastSeq
      BY ReceivedIsRecorded DEF IInv, LifeInv, HistoryOf
    <2>3. stream[s].who # None => stream[s].who \in Principal
      BY DEF IInv, Types, StreamState
    <2>4. HistoryOf(stream[s].job)' = HistoryOf(stream[s].job)
      BY <1>1 DEF HistoryOf
    <2>5. CutInv(s)'
      BY <1>1, <2>2, <2>3, <2>4 DEF IInv, CutInv, MaySee
    <2> QED
      BY <2>1, <2>5
  <1> QED
    BY <1>3, <1>4, <1>5 DEF IInv

\* Every step keeps the invariant.
LEMMA NextInv == IInv /\ [StreamNext]_allVars => IInv'
  <1> SUFFICES ASSUME IInv, [StreamNext]_allVars PROVE IInv'
    OBVIOUS
  <1>1. CASE /\ (ServerStep /\ ~Locked) \/ Interrupt
             /\ UNCHANGED <<access, streamVars, cut>>
    <2>1. LifeInv' /\ Grows
      BY <1>1, LifeStep DEF IInv, Next
    <2>2. stream' = stream /\ wire' = wire /\ got' = got
          /\ credential' = credential /\ role' = role /\ cut' = cut
      BY <1>1 DEF streamVars, access
    <2>3. ASSUME NEW s \in Stream PROVE StreamInv(s)' /\ CutInv(s)'
      <3>1. StreamInv(s)'
        BY <1>1, <2>1, LifeKeepsStream DEF IInv
      <3>2. \/ stream[s].pc # "batch"
            \/ \A e \in HistoryOf(stream[s].job)' :
                  e \in HistoryOf(stream[s].job) \/ e.state = "interrupted"
        <4>1. CASE ~Locked
          BY <4>1 DEF Locked
        <4>2. CASE Interrupt
          BY <2>2, <4>2, InterruptsOnly DEF HistoryOf
        <4> QED
          BY <1>1, <4>1, <4>2
      <3>3. CutInv(s)'
        BY <2>2, <3>2 DEF IInv, CutInv, MaySee
      <3> QED
        BY <3>1, <3>3
    <2> QED
      BY <2>1, <2>2, <2>3 DEF IInv, Types
  <1>2. CASE /\ AccessNext
             /\ cut' = [i \in Principal |->
                  IF role'[i] # NoRole THEN None
                  ELSE IF role[i] # NoRole THEN lastSeq ELSE cut[i]]
             /\ UNCHANGED <<lifecycle, streamVars>>
    BY <1>2, AccessKeeps
  <1>3. ASSUME UNCHANGED <<lifecycle, access, cut>>, NEW s \in Stream,
               \/ \E j \in Job, i \in Reader : Connect(s, j, i)
               \/ Task(s) \/ Receive(s) \/ Disconnect(s)
        PROVE  IInv'
    <2>1. Inv(s)
      BY DEF IInv, Inv
    <2>2. Types' /\ StreamInv(s)' /\ CutInv(s)'
      <3>1. CASE Authenticate(s)
        <4>1. PICK pc \in {"auth", "read", "denied", "closed"} :
                /\ pc # "closed"
                /\ stream' = [stream EXCEPT ![s].pc = pc]
          BY <3>1 DEF Authenticate
        <4> QED
          BY <1>3, <2>1, <3>1, <4>1, MovesOn DEF Authenticate
      <3> QED
        BY <1>3, <2>1, <3>1, ConnectKeeps, ReadStateKeeps, ReadBatchKeeps, SendKeeps,
           ReceiveKeeps, DisconnectKeeps DEF Task
    <2>3. ASSUME NEW t \in Stream, t # s PROVE StreamInv(t)' /\ CutInv(t)'
      BY <1>3, <2>3, OthersUntouched DEF IInv
    <2>4. /\ lastSeq' = lastSeq /\ phase' = phase /\ events' = events
          /\ role' = role /\ cut' = cut
      BY <1>3 DEF lifecycle, access
    <2>5. LifeInv'
      <3>1. Unfinished' = Unfinished
        BY <2>4 DEF Unfinished
      <3> QED
        BY <2>4, <3>1 DEF IInv, LifeInv
    <2> QED
      BY <2>2, <2>3, <2>4, <2>5 DEF IInv
  <1>4. CASE UNCHANGED allVars
    <2>1. /\ lastSeq' = lastSeq /\ phase' = phase /\ events' = events
          /\ role' = role /\ cut' = cut /\ credential' = credential
          /\ stream' = stream /\ wire' = wire /\ got' = got
      BY <1>4 DEF allVars, lifecycle, access, streamVars
    <2> QED
      BY <2>1 DEF IInv, LifeInv, Types, StreamInv, CutInv, MaySee, Later, HistoryOf,
                 Unfinished
  <1> QED
    BY <1>1, <1>2, <1>3, <1>4 DEF StreamNext

-----------------------------------------------------------------------------
(* Theorems *)

\* The invariant the other theorems follow from.
THEOREM Invariant == StreamSpec => []IInv
  <1>1. StreamInit => IInv
    <2> SUFFICES ASSUME StreamInit PROVE IInv
      OBVIOUS
    <2>1. LifeInv
      <3>1. Unfinished = {}
        BY DEF StreamInit, Init, Unfinished
      <3> QED
        BY <3>1, FS_EmptySet DEF StreamInit, Init, LifeInv, Phase
    <2>2. NoStream \in StreamState
      <3>1. "off" \in Pc /\ {} \in Batch
        BY DEF Pc, Batch
      <3> QED
        BY <3>1 DEF NoStream, StreamState
    <2>3. Types
      <3>1. credential \in [Principal -> Nat] /\ role \in [Principal -> Roles \cup {NoRole}]
        BY DEF StreamInit, AccessInit, Roles, Rank
      <3>2. cut \in [Principal -> Nat \cup {None}]
        BY DEF StreamInit
      <3>3. stream \in [Stream -> StreamState]
        BY <2>2 DEF StreamInit
      <3>4. wire \in [Stream -> Seq(Event)] /\ got \in [Stream -> Seq(Event)]
        BY DEF StreamInit
      <3> QED
        BY <3>1, <3>2, <3>3, <3>4 DEF Types
    <2>4. \A i \in Principal : role[i] = NoRole \/ cut[i] = None
      BY DEF StreamInit
    <2>5. ASSUME NEW s \in Stream PROVE StreamInv(s) /\ CutInv(s)
      <3>1. /\ stream[s].pc = "off" /\ stream[s].job = None /\ stream[s].who = None
            /\ stream[s].batch = {} /\ wire[s] = <<>> /\ got[s] = <<>>
        BY DEF StreamInit, NoStream
      <3>2. ToSet(<<>>) = {} /\ Ascending(<<>>)
        BY DEF ToSet, Ascending
      <3> QED
        BY <3>1, <3>2 DEF StreamInv, CutInv
    <2> QED
      BY <2>1, <2>3, <2>4, <2>5 DEF IInv
  <1> QED
    BY <1>1, NextInv, PTL DEF StreamSpec

\* Over any number of lost connections a client receives the history of its job
\* in order, each event once and none left out.
THEOREM Prefix == StreamSpec => []ReceivesPrefixOfHistory
  <1>1. IInv => ReceivesPrefixOfHistory
    BY DEF IInv, StreamInv, Ascending, ReceivesPrefixOfHistory
  <1> QED
    BY <1>1, Invariant, PTL

\* A stream that ended without an error has sent the whole history of a job that
\* has ended, although its last event may have come after a poll.
THEOREM CloseIsComplete == StreamSpec => []CloseDeliversTheEnd
  <1>1. IInv => CloseDeliversTheEnd
    <2> SUFFICES ASSUME IInv, NEW s \in Stream, stream[s].pc = "closed"
                 PROVE  /\ ToSet(got[s] \o wire[s]) = HistoryOf(stream[s].job)
                        /\ phase[stream[s].job] \in Ended
      BY DEF CloseDeliversTheEnd
    <2>1. /\ Later(s) = {} /\ phase[stream[s].job] \in Ended
          /\ ToSet(got[s]) \cup ToSet(wire[s])
               = {e \in HistoryOf(stream[s].job) : e.seq <= stream[s].cursor}
      BY DEF IInv, StreamInv
    <2>2. \A e \in HistoryOf(stream[s].job) : e.seq \in Nat /\ stream[s].cursor \in Nat
      BY DEF IInv, LifeInv, HistoryOf, Types, StreamState
    <2>3. \A e \in HistoryOf(stream[s].job) : e.seq <= stream[s].cursor
      BY <2>1, <2>2 DEF Later
    <2>4. ToSet(got[s] \o wire[s]) = ToSet(got[s]) \cup ToSet(wire[s])
      BY Joined DEF IInv, Types
    <2> QED
      BY <2>1, <2>3, <2>4
  <1> QED
    BY <1>1, Invariant, PTL

\* What an identity without a role was sent had happened before it lost the role,
\* or is the interruption of the job, which another process may have written
\* between the two reads of a pass.
THEOREM Revocation == StreamSpec => []OnlyInterruptionsAfterRevocation
  <1>1. IInv => OnlyInterruptionsAfterRevocation
    <2> SUFFICES ASSUME IInv, NEW s \in Stream,
                        stream[s].who # None, cut[stream[s].who] # None
                 PROVE  \A e \in stream[s].batch \cup ToSet(wire[s]) \cup ToSet(got[s]) :
                            MaySee(stream[s].who, e)
      BY DEF OnlyInterruptionsAfterRevocation, MaySee
    <2>1. stream[s].who \in Principal
      BY DEF IInv, Types, StreamState
    <2> QED
      BY <2>1 DEF IInv, CutInv
  <1> QED
    BY <1>1, Invariant, PTL
=============================================================================
