----------------------- MODULE HydirFridaObserverProofs -----------------------
(***************************************************************************)
(* For any thread set, caps, queue and batch sizes: what a trace of the    *)
(* Frida observer says about its own completeness is true, and the trace   *)
(* passes validate_dynamic_trace.                                          *)
(*                                                                         *)
(* The messages between the agent and the Collector form one stream: those *)
(* in the helper's queue, then those on the wire.  The inductive invariant *)
(* follows the observations along it: a function gives, for every place in *)
(* the stream, how many observations come before it.                       *)
(***************************************************************************)
EXTENDS HydirFridaObserver, FiniteSetTheorems, SequenceTheorems, TLAPS

(* Types *)

Phases == {"idle", "running", "finished"}
Pcs == {"watch", "stopped", "drain", "judge", "written", "accepted", "rejected", "failed"}
MessageTypes == {"meta", "batch", "jump_batch", "done", "error"}

\* Events of a run of n events: the first is the entry, and the exit is the last
\* of a run that has ended and of no other.
EventsOf(n, ended) ==
    {e \in [n : 1..n, kind : {"entry", "block", "exit"}] :
        /\ e.n = 1 => e.kind = "entry"
        /\ ended /\ e.n = n <=> e.kind = "exit"}

\* Only a batch has events, only a batch of jumps has jumps, and only the end
\* tells of a loss.
MessagesOf(Event) ==
    {m \in [type : MessageTypes, events : Seq(Event), jumps : Seq(Nat), lost : Nat] :
        /\ m.type = "batch" <=> m.events # <<>>
        /\ m.type = "jump_batch" <=> m.jumps # <<>>
        /\ m.type # "done" => m.lost = 0}

Agents(Event) ==
    [phase : Phases, owner : Thread \cup {None}, pending : Nat \cup {None}, count : 0..Cap,
     lost : Nat, sink : Seq(Event), jumps : Seq(Nat), wire : Seq(MessagesOf(Event))]

Helpers(Event) ==
    [pc : Pcs, timed_out : BOOLEAN, base : BOOLEAN, events : Seq(Event), jumps : Seq(Nat),
     done : BOOLEAN, lost : Nat, errors : Nat]

Statuses == {"timed_out", "injection_error", "truncated", "completed", "detached"}
Traces(Event) ==
    [status : Statuses, events : Seq(Event), jumps : Seq(Nat), lost : Nat,
     diagnostics : Nat]

Happened == EventsOf(seen.events, agent.phase = "finished")

TypeOK ==
    /\ agent \in Agents(Happened)
    /\ seen \in [events : Nat, jumps : Nat, left : SUBSET Nat, intrusions : Nat,
                 errors : Nat]
    /\ detached \in BOOLEAN
    /\ queue \in Seq(MessagesOf(Happened))
    /\ dropped \in Nat
    /\ helper \in Helpers(Happened)
    /\ Len(helper.events) + Len(helper.jumps) <= Cap

\* A trace is made of what happened.
TraceTyped == trace # None => trace \in Traces(Happened)

-----------------------------------------------------------------------------
(* The agent *)

PhaseInv ==
    /\ agent.phase = "idle" <=> seen.events = 0
    /\ agent.phase # "running" => agent.sink = <<>> /\ agent.pending = None

\* Every jump that stayed in the module is recorded or pending, unless the agent
\* counts a loss.
JumpsInv ==
    /\ seen.left \subseteq 1..seen.jumps
    /\ ToSet(agent.jumps) \subseteq (1..seen.jumps) \ seen.left
    /\ agent.pending # None =>
          agent.pending \in (1..seen.jumps) \ (seen.left \cup ToSet(agent.jumps))
    /\ agent.lost = 0 => (1..seen.jumps) \ seen.left \subseteq
                            ToSet(agent.jumps) \cup {agent.pending}

\* As long as no error was reported the agent has every observation: counted,
\* lost, buffered or pending.
BalanceInv ==
    seen.errors = 0 =>
        agent.count + agent.lost + Len(agent.sink) + (IF agent.pending = None THEN 0 ELSE 1)
            = Owed

-----------------------------------------------------------------------------
(* The stream of messages *)

Stream == queue \o agent.wire

\* The end is sent once, with the final count of what the agent lost, and only
\* errors follow it.
EndInv ==
    /\ agent.phase # "finished" =>
          /\ ~helper.done
          /\ helper.jumps = <<>>
          /\ \A k \in 1..Len(Stream) : Stream[k].type \notin {"jump_batch", "done"}
    /\ \A k \in 1..Len(Stream) : Stream[k].type = "done" =>
          /\ Stream[k].lost = agent.lost
          /\ \A j \in (k + 1)..Len(Stream) : Stream[j].type = "error"
    /\ helper.done => \A k \in 1..Len(Stream) : Stream[k].type = "error"
    /\ helper.done /\ helper.lost = 0 => agent.lost = 0

Lossless == dropped = 0 /\ helper.lost = 0

\* The helper h has no error, and none comes before place k of the stream p.
Clean(h, p, k) == h.errors = 0 /\ \A j \in 1..(k - 1) : p[j].type # "error"

\* f[k] events come before place k of the stream p.  Unless an error does too,
\* they are the first ones of the run, and all n of it come before an end that
\* tells of no loss.
EventsFlow(h, p, n, f) ==
    /\ f \in [1..(Len(p) + 1) -> Nat]
    /\ f[1] = Len(h.events)
    /\ \A k \in 1..Len(p) :
          /\ f[k + 1] = f[k] + Len(p[k].events)
          /\ Clean(h, p, k) =>
                /\ \A i \in 1..Len(p[k].events) : p[k].events[i].n = f[k] + i
                /\ p[k].type = "done" /\ p[k].lost = 0 => f[k] = n

\* Behind the stream come the events in the buffer s, up to the last one.
Behind(h, p, s, n, f) ==
    Clean(h, p, Len(p) + 1) =>
        /\ f[Len(p) + 1] + Len(s) = n
        /\ \A i \in 1..Len(s) : s[i].n = f[Len(p) + 1] + i

\* The agent a has sent all it was told to send.
Whole(a) == a.count < Cap \/ a.lost = 0

EventsInv ==
    Lossless =>
        /\ \E f : /\ EventsFlow(helper, Stream, seen.events, f)
                  /\ ~detached /\ Whole(agent) =>
                        Behind(helper, Stream, agent.sink, seen.events, f)
        /\ helper.errors = 0 =>
              /\ \A i \in 1..Len(helper.events) : helper.events[i].n = i
              /\ helper.done => Len(helper.events) = seen.events

\* f[k] computed jumps come before place k of the stream p: they are the first
\* of those recorded, and all of them come before the end.
JumpsFlow(h, p, jumps, f) ==
    /\ f \in [1..(Len(p) + 1) -> Nat]
    /\ f[1] = Len(h.jumps)
    /\ \A k \in 1..(Len(p) + 1) : f[k] <= Len(jumps)
    /\ \A k \in 1..Len(p) :
          /\ f[k + 1] = f[k] + Len(p[k].jumps)
          /\ \A i \in 1..Len(p[k].jumps) : p[k].jumps[i] = jumps[f[k] + i]
          /\ p[k].type = "done" => f[k] = Len(jumps)

JumpFlowInv ==
    Lossless =>
        /\ \E f : /\ JumpsFlow(helper, Stream, agent.jumps, f)
                  /\ ~detached /\ agent.phase # "finished" => f[Len(Stream) + 1] = 0
        /\ Len(helper.jumps) <= Len(agent.jumps)
        /\ \A i \in 1..Len(helper.jumps) : helper.jumps[i] = agent.jumps[i]
        /\ helper.done => Len(helper.jumps) = Len(agent.jumps)

\* What the helper and the callback have accounted for.
Accounted == Len(helper.events) + Len(helper.jumps) + helper.lost + dropped

Size(m) == Len(m.events) + Len(m.jumps) + m.lost

\* f[k] observations are accounted for when the stream p was taken up to k: at
\* its end, all that are owed.
SizesFlow(accounted, p, owed, f) ==
    /\ f \in [1..(Len(p) + 1) -> Int]
    /\ f[1] = accounted
    /\ \A k \in 1..Len(p) :
          /\ f[k + 1] = f[k] + Size(p[k])
          /\ p[k].type = "done" => f[k + 1] >= owed

\* Before the end, what the stream holds is at least what the agent has emitted.
SizesInv ==
    seen.errors = 0 =>
        /\ \E f : /\ SizesFlow(Accounted, Stream, Owed, f)
                  /\ ~detached /\ agent.phase # "finished" =>
                        f[Len(Stream) + 1] >= agent.count - Len(agent.jumps)
        /\ helper.done => Accounted >= Owed

-----------------------------------------------------------------------------
(* The trace *)

\* There is a trace only after the judgement, when the target is killed.
TraceInv ==
    /\ trace # None => detached /\ helper.pc \in {"written", "accepted", "rejected", "failed"}
    /\ TraceTyped
    /\ CompletedIsComplete
    /\ LossIsAccounted
    /\ NoGapWithoutLoss
    /\ EvidenceIsAccepted

IInv == /\ TypeOK /\ PhaseInv /\ JumpsInv /\ BalanceInv
        /\ EndInv /\ EventsInv /\ JumpFlowInv /\ SizesInv /\ TraceInv

-----------------------------------------------------------------------------
(* Operators of the model *)

\* The first n elements of a sequence.
LEMMA FirstOf ==
    ASSUME NEW S, NEW s \in Seq(S), NEW n \in Nat
    PROVE  /\ First(s, n) \in Seq(S)
           /\ Len(First(s, n)) = IF n < Len(s) THEN n ELSE Len(s)
           /\ \A i \in 1..Len(First(s, n)) : First(s, n)[i] = s[i]
  <1> DEFINE m == IF n < Len(s) THEN n ELSE Len(s)
  <1>1. m \in Nat /\ m <= Len(s)
    OBVIOUS
  <1>2. \A i \in 1..m : s[i] \in S
    BY <1>1
  <1> HIDE DEF m
  <1>3. /\ SubSeq(s, 1, m) \in Seq(S)
        /\ Len(SubSeq(s, 1, m)) = m
        /\ \A i \in 1..m : SubSeq(s, 1, m)[i] = s[i]
    BY <1>1, <1>2, SubSeqProperties
  <1>4. First(s, n) = SubSeq(s, 1, m)
    BY DEF First, m
  <1> QED
    BY <1>3, <1>4 DEF m

\* A sequence that has room is not cut.
LEMMA FirstOfShort ==
    ASSUME NEW S, NEW s \in Seq(S), NEW n \in Nat, Len(First(s, n)) = Len(s)
    PROVE  First(s, n) = s
  BY FirstOf, SeqEqual, Zenon

\* emitBatch sends what fits under the cap and counts the rest as lost.
LEMMA EmitFields ==
    ASSUME NEW E, NEW a \in Agents(E), NEW events \in Seq(E)
    PROVE  LET accepted == First(events, Cap - a.count)
               b == Emit(a, events)
           IN /\ b \in Agents(E)
              /\ b.phase = a.phase /\ b.owner = a.owner /\ b.pending = a.pending
              /\ b.sink = a.sink /\ b.jumps = a.jumps
              /\ b.count = a.count + Len(accepted)
              /\ b.lost = a.lost + Len(events) - Len(accepted)
              /\ accepted = <<>> => b.wire = a.wire
              /\ accepted # <<>> =>
                    /\ Msg("batch", accepted, <<>>, 0) \in MessagesOf(E)
                    /\ b.wire = Append(a.wire, Msg("batch", accepted, <<>>, 0))
  <1> DEFINE accepted == First(events, Cap - a.count)
             m == Msg("batch", accepted, <<>>, 0)
  <1>1. Cap - a.count \in Nat /\ a.count \in Nat /\ a.lost \in Nat /\ Cap \in Nat
    BY ConstantAssumption DEF Agents
  <1>2. /\ accepted \in Seq(E)
        /\ Len(accepted) = IF Cap - a.count < Len(events) THEN Cap - a.count ELSE Len(events)
    BY <1>1, FirstOf
  <1> HIDE DEF accepted
  <1>3. accepted # <<>> => m \in MessagesOf(E)
    BY <1>2 DEF Msg, MessagesOf, MessageTypes
  <1>4. a.wire \in Seq(MessagesOf(E))
    BY DEF Agents
  <1>5. /\ a.count + Len(accepted) \in 0..Cap
        /\ a.lost + Len(events) - Len(accepted) \in Nat
    BY <1>1, <1>2, SMTT(30)
  <1>6. (IF accepted = <<>> THEN a.wire ELSE Append(a.wire, m)) \in Seq(MessagesOf(E))
    BY <1>3, <1>4
  <1> HIDE DEF m
  <1>7. Emit(a, events) = [a EXCEPT !.count = @ + Len(accepted),
                                    !.lost = @ + Len(events) - Len(accepted),
                                    !.wire = IF accepted = <<>> THEN @ ELSE Append(@, m)]
    BY DEF Emit, accepted, m
  <1>8. Emit(a, events) \in Agents(E)
    BY <1>5, <1>6, <1>7 DEF Agents
  <1> QED
    BY <1>3, <1>7, <1>8 DEF Agents, accepted, m

\* What is lost is only counted.
LEMMA LoseFields ==
    ASSUME NEW E, NEW a \in Agents(E), NEW n \in Nat
    PROVE  LET b == Lose(a, n)
           IN /\ b \in Agents(E)
              /\ b.phase = a.phase /\ b.owner = a.owner /\ b.pending = a.pending
              /\ b.sink = a.sink /\ b.jumps = a.jumps /\ b.count = a.count
              /\ b.wire = a.wire /\ b.lost = a.lost + n
  <1>1. a.lost + n \in Nat
    BY DEF Agents
  <1> QED
    BY <1>1 DEF Lose, Agents

\* A buffer that is received is emptied.
LEMMA FlushFields ==
    ASSUME NEW E, NEW a \in Agents(E)
    PROVE  LET accepted == First(a.sink, Cap - a.count)
               b == Flush(a)
           IN /\ b \in Agents(E)
              /\ b.phase = a.phase /\ b.owner = a.owner /\ b.pending = a.pending
              /\ b.sink = <<>> /\ b.jumps = a.jumps
              /\ b.count = a.count + Len(accepted)
              /\ b.lost = a.lost + Len(a.sink) - Len(accepted)
              /\ accepted = <<>> => b.wire = a.wire
              /\ accepted # <<>> =>
                    /\ Msg("batch", accepted, <<>>, 0) \in MessagesOf(E)
                    /\ b.wire = Append(a.wire, Msg("batch", accepted, <<>>, 0))
  <1>1. a.sink \in Seq(E)
    BY DEF Agents
  <1> DEFINE accepted == First(a.sink, Cap - a.count)
             c == Emit(a, a.sink)
             b == [c EXCEPT !.sink = <<>>]
  <1>2. /\ c \in Agents(E)
        /\ c.phase = a.phase /\ c.owner = a.owner /\ c.pending = a.pending
        /\ c.jumps = a.jumps
        /\ c.count = a.count + Len(accepted)
        /\ c.lost = a.lost + Len(a.sink) - Len(accepted)
        /\ accepted = <<>> => c.wire = a.wire
        /\ accepted # <<>> =>
              /\ Msg("batch", accepted, <<>>, 0) \in MessagesOf(E)
              /\ c.wire = Append(a.wire, Msg("batch", accepted, <<>>, 0))
    BY <1>1, EmitFields
  <1>3. Flush(a) = b
    BY DEF Flush
  <1> HIDE DEF c, accepted
  <1>4. b \in Agents(E)
    <2>1. <<>> \in Seq(E)
      OBVIOUS
    <2>2. c \in Agents(E)
      BY <1>2
    <2> QED
      BY <2>1, <2>2 DEF Agents
  <1>5. /\ b.phase = c.phase /\ b.owner = c.owner /\ b.pending = c.pending
        /\ b.sink = <<>> /\ b.jumps = c.jumps /\ b.count = c.count
        /\ b.lost = c.lost /\ b.wire = c.wire
    BY <1>2 DEF Agents
  <1> HIDE DEF b
  <1> QED
    BY <1>2, <1>3, <1>4, <1>5 DEF accepted

\* A multiple of the divisor grows with its factor.
LEMMA Multiples ==
    ASSUME NEW b \in Nat \ {0}, NEW i \in Nat, NEW j \in Nat, i <= j
    PROVE  i * b <= j * b /\ i * b \in Nat
  <1>1. PICK d \in Nat : j = i + d
    BY SMT
  <1>2. d * b \in Nat /\ i * b \in Nat
    OBVIOUS
  <1>3. j * b = i * b + d * b
    BY <1>1
  <1> QED
    BY <1>2, <1>3

\* One factor more.
LEMMA NextMultiple ==
    ASSUME NEW b \in Nat \ {0}, NEW i \in Int
    PROVE  i * b = (i - 1) * b + b
  OBVIOUS

\* How many batches of b hold l jumps: the last one is not empty.
LEMMA BatchCount ==
    ASSUME NEW b \in Nat \ {0}, NEW l \in Nat
    PROVE  LET n == (l + b - 1) \div b
           IN /\ n \in Nat
              /\ l <= n * b
              /\ n * b < l + b
              /\ l = 0 => n = 0
  <1> DEFINE n == (l + b - 1) \div b
  <1>1. l + b - 1 \in Nat
    OBVIOUS
  <1>2. n \in Nat /\ n * b <= l + b - 1 /\ l + b - 1 < (n + 1) * b
    BY <1>1
  <1> HIDE DEF n
  <1>3. (n + 1) * b = n * b + b /\ n * b \in Nat
    BY <1>2
  <1>4. n # 0 => b <= n * b
    <2>1. n # 0 => 1 <= n
      BY <1>2
    <2>2. 1 * b = b
      OBVIOUS
    <2> QED
      BY <1>2, <2>1, <2>2, Multiples
  <1>5. l <= n * b /\ n * b < l + b
    BY <1>2, <1>3
  <1>6. l = 0 => n = 0
    BY <1>2, <1>4, <1>5
  <1> QED
    BY <1>2, <1>5, <1>6 DEF n

\* The messages of the computed jumps hold all of them, in their order, and none
\* is empty.
LEMMA JumpBatches ==
    ASSUME NEW E, NEW jumps \in Seq(Nat)
    PROVE  LET p == JumpMessages(jumps)
           IN /\ p \in Seq(MessagesOf(E))
              /\ \E f \in [1..(Len(p) + 1) -> Nat] :
                    /\ f[1] = 0
                    /\ f[Len(p) + 1] = Len(jumps)
                    /\ \A k \in 1..(Len(p) + 1) : f[k] <= Len(jumps)
                    /\ \A k \in 1..Len(p) :
                          /\ p[k].type = "jump_batch" /\ p[k].events = <<>> /\ p[k].lost = 0
                          /\ f[k + 1] = f[k] + Len(p[k].jumps)
                          /\ \A i \in 1..Len(p[k].jumps) : p[k].jumps[i] = jumps[f[k] + i]
  <1> DEFINE L == Len(jumps)
             B == JumpBatch
             n == (L + B - 1) \div B
             p == JumpMessages(jumps)
             f == [k \in 1..(n + 1) |-> IF k = n + 1 THEN L ELSE (k - 1) * B]
             Part(k) == First(SubSeq(jumps, (k - 1) * B + 1, L), B)
  <1>1. L \in Nat /\ B \in Nat \ {0}
    BY ConstantAssumption
  <1>2. n \in Nat /\ L <= n * B /\ n * B < L + B /\ (L = 0 => n = 0)
    BY <1>1, BatchCount
  <1>3. p = [k \in 1..n |-> Msg("jump_batch", <<>>, Part(k), 0)]
    BY DEF JumpMessages
  <1> HIDE DEF n, p
  <1>4. ASSUME NEW k \in 1..n
        PROVE  /\ (k - 1) * B \in Nat
               /\ (k - 1) * B < L
               /\ k < n => k * B < L
               /\ k * B = (k - 1) * B + B
    <2>1. k - 1 \in Nat /\ n - 1 \in Nat /\ k - 1 <= n - 1
      BY <1>2
    <2>2. (k - 1) * B <= (n - 1) * B /\ (k - 1) * B \in Nat
      BY <1>1, <2>1, Multiples
    <2>3. n * B = (n - 1) * B + B /\ k * B = (k - 1) * B + B
      BY <1>1, <1>2, NextMultiple
    <2>4. (n - 1) * B \in Nat
      BY <1>1, <2>1, Multiples
    <2>5. ASSUME k < n PROVE k * B <= (n - 1) * B
      <3>1. k \in Nat /\ k <= n - 1
        BY <1>2, <2>5
      <3> QED
        BY <1>1, <2>1, <3>1, Multiples
    <2> DEFINE x == (k - 1) * B
               y == (n - 1) * B
               z == n * B
               w == k * B
    <2>6. /\ x <= y /\ x \in Nat /\ y \in Nat /\ z = y + B /\ w = x + B
          /\ z < L + B /\ (k < n => w <= y)
      BY <1>2, <2>2, <2>3, <2>4, <2>5
    <2> HIDE DEF x, y, z, w, B, L
    <2>7. x < L /\ (k < n => w < L)
      BY <1>1, <2>6
    <2> QED
      BY <2>6, <2>7 DEF x, w
  <1>5. ASSUME NEW k \in 1..n
        PROVE  /\ Part(k) \in Seq(Nat)
               /\ Len(Part(k)) = IF k = n THEN L - (k - 1) * B ELSE B
               /\ Len(Part(k)) > 0
               /\ \A i \in 1..Len(Part(k)) : Part(k)[i] = jumps[(k - 1) * B + i]
    <2> DEFINE from == (k - 1) * B
               rest == SubSeq(jumps, from + 1, L)
    <2>1. from \in Nat /\ from < L /\ (k < n => from + B < L) /\ k * B = from + B
      BY <1>4
    <2>2. k = n => L <= from + B
      BY <1>2, <2>1
    <2> HIDE DEF from
    <2>3. \A i \in (from + 1)..L : jumps[i] \in Nat
      BY <2>1
    <2>4. /\ rest \in Seq(Nat)
          /\ Len(rest) = L - from
          /\ \A i \in 1..(L - from) : rest[i] = jumps[from + i]
      BY <2>1, <2>3, <1>1, SubSeqProperties, SMTT(30)
    <2> HIDE DEF rest
    <2>5. Part(k) = First(rest, B)
      BY DEF rest, from
    <2>6. /\ Part(k) \in Seq(Nat)
          /\ Len(Part(k)) = IF B < L - from THEN B ELSE L - from
          /\ \A i \in 1..Len(Part(k)) : Part(k)[i] = rest[i]
      BY <1>1, <2>4, <2>5, FirstOf
    <2> HIDE DEF Part
    <2>7. Len(Part(k)) = IF k = n THEN L - from ELSE B
      <3>1. k = n => ~(B < L - from)
        BY <1>1, <2>1, <2>2
      <3>2. k # n => B < L - from
        BY <1>1, <1>2, <2>1
      <3> QED
        BY <2>6, <3>1, <3>2, Zenon
    <2>8. \A i \in 1..Len(Part(k)) : Part(k)[i] = jumps[from + i]
      BY <1>1, <2>1, <2>4, <2>6, SMTT(30)
    <2> QED
      BY <1>1, <2>1, <2>6, <2>7, <2>8 DEF from
  <1> HIDE DEF Part
  <1>6. ASSUME NEW k \in 1..n
        PROVE  /\ p[k] \in MessagesOf(E)
               /\ p[k].type = "jump_batch" /\ p[k].events = <<>> /\ p[k].lost = 0
               /\ p[k].jumps = Part(k)
    <2>1. p[k] = Msg("jump_batch", <<>>, Part(k), 0)
      BY <1>3
    <2>2. Part(k) # <<>> /\ <<>> \in Seq(E)
      BY <1>5
    <2> QED
      BY <1>5, <2>1, <2>2 DEF Msg, MessagesOf, MessageTypes
  <1>7. p \in Seq(MessagesOf(E)) /\ Len(p) = n
    BY <1>2, <1>3, <1>6
  <1>8. f \in [1..(n + 1) -> Nat] /\ f[1] = 0 /\ f[n + 1] = L
    BY <1>1, <1>2, <1>4
  <1>9. ASSUME NEW k \in 1..n
        PROVE  f[k] = (k - 1) * B /\ f[k + 1] = f[k] + Len(p[k].jumps)
    <2>1. f[k] = (k - 1) * B /\ f[k + 1] = IF k = n THEN L ELSE k * B
      BY <1>2
    <2> DEFINE x == (k - 1) * B
               w == k * B
    <2>2. /\ x \in Nat /\ w = x + B /\ f[k] = x /\ f[k + 1] = IF k = n THEN L ELSE w
          /\ Len(p[k].jumps) = IF k = n THEN L - x ELSE B
      BY <1>4, <1>5, <1>6, <2>1
    <2> HIDE DEF x, w, f, B, L
    <2>3. f[k + 1] = f[k] + Len(p[k].jumps)
      BY <1>1, <2>2
    <2> QED
      BY <2>1, <2>3
  <1>10. ASSUME NEW k \in 1..n, NEW i \in 1..Len(p[k].jumps)
         PROVE  p[k].jumps[i] = jumps[f[k] + i]
    <2>1. p[k].jumps = Part(k) /\ f[k] = (k - 1) * B
      BY <1>6, <1>9
    <2>2. i \in 1..Len(Part(k))
      BY <2>1
    <2>3. Part(k)[i] = jumps[(k - 1) * B + i]
      BY <1>5, <2>2
    <2> HIDE DEF f, B
    <2> QED
      BY <2>1, <2>3, Zenon
  <1>11. ASSUME NEW k \in 1..(n + 1) PROVE f[k] <= L
    <2>1. CASE k = n + 1
      BY <1>1, <1>8, <2>1
    <2>2. CASE k \in 1..n
      <3>1. f[k] = (k - 1) * B /\ (k - 1) * B < L /\ (k - 1) * B \in Nat
        BY <1>4, <1>9, <2>2
      <3> HIDE DEF f, B, L
      <3> QED
        BY <3>1, <1>1
    <2> QED
      BY <1>2, <2>1, <2>2
  <1> HIDE DEF f
  <1> QED
    BY <1>6, <1>7, <1>8, <1>9, <1>10, <1>11 DEF p

\* A function along a stream, with one more value at its end.
Longer(f, l, x) == [k \in 1..(l + 2) |-> IF k = l + 2 THEN x ELSE f[k]]

\* What has happened stays as it was: a run that goes on gets other numbers.
LEMMA EventsGrow ==
    ASSUME NEW n \in Nat, NEW ended \in BOOLEAN
    PROVE  EventsOf(n, FALSE) \subseteq EventsOf(n + 1, ended)
  BY DEF EventsOf

\* A larger set of events makes larger sets of messages.
LEMMA MessagesGrow ==
    ASSUME NEW E, NEW F, E \subseteq F
    PROVE  MessagesOf(E) \subseteq MessagesOf(F)
  <1>1. Seq(E) \subseteq Seq(F)
    BY SeqMonotonic
  <1> QED
    BY <1>1 DEF MessagesOf

-----------------------------------------------------------------------------
(* The flow of events along the stream *)

\* How many events there are matters only to the end.
LEMMA EventsMore ==
    ASSUME NEW h, NEW p, NEW n, NEW f, NEW more,
           \A k \in 1..Len(p) : p[k].type # "done",
           EventsFlow(h, p, n, f)
    PROVE  EventsFlow(h, p, more, f)
  BY DEF EventsFlow

\* An event that happens is buffered last.
LEMMA EventsBuffer ==
    ASSUME NEW E, NEW h, NEW p, NEW s \in Seq(E), NEW n \in Nat, NEW f, NEW e,
           e \in E, e.n = n + 1,
           f[Len(p) + 1] \in Nat,
           Behind(h, p, s, n, f)
    PROVE  Behind(h, p, Append(s, e), n + 1, f)
  <1> DEFINE t == Append(s, e)
  <1>1. Len(t) = Len(s) + 1 /\ t[Len(s) + 1] = e /\ \A i \in 1..Len(s) : t[i] = s[i]
    BY AppendProperties
  <1>2. Len(s) \in Nat
    OBVIOUS
  <1> HIDE DEF t
  <1>4. ASSUME Clean(h, p, Len(p) + 1)
        PROVE  /\ f[Len(p) + 1] + Len(t) = n + 1
               /\ \A i \in 1..Len(t) : t[i].n = f[Len(p) + 1] + i
    <2>1. /\ f[Len(p) + 1] + Len(s) = n
          /\ \A i \in 1..Len(s) : s[i].n = f[Len(p) + 1] + i
      BY <1>4 DEF Behind
    <2>2. t[Len(s) + 1].n = f[Len(p) + 1] + (Len(s) + 1)
      BY <1>1, <1>2, <2>1
    <2>3. f[Len(p) + 1] + Len(t) = n + 1
      BY <1>1, <1>2, <2>1
    <2>4. \A i \in 1..Len(t) : i \in 1..Len(s) \/ i = Len(s) + 1
      BY <1>1, <1>2
    <2> QED
      BY <1>1, <2>1, <2>2, <2>3, <2>4
  <1> QED
    BY <1>4 DEF Behind, t

\* A batch of the whole buffer is sent, or of its first part.
LEMMA EventsSend ==
    ASSUME NEW M, NEW h, NEW p \in Seq(M), NEW s, NEW n \in Nat, NEW f,
           NEW m, m \in M, m.type = "batch", Len(s) \in Nat,
           Len(m.events) \in Nat, Len(m.events) <= Len(s),
           \A i \in 1..Len(m.events) : m.events[i] = s[i],
           EventsFlow(h, p, n, f), Behind(h, p, s, n, f)
    PROVE  \E g : /\ EventsFlow(h, Append(p, m), n, g)
                  /\ Len(m.events) = Len(s) => Behind(h, Append(p, m), <<>>, n, g)
  <1> DEFINE q == Append(p, m)
             l == Len(p)
             g == Longer(f, l, f[l + 1] + Len(m.events))
  <1>1. l \in Nat /\ Len(q) = l + 1 /\ q[l + 1] = m /\ \A i \in 1..l : q[i] = p[i]
    BY AppendProperties
  <1> HIDE DEF q
  <1>2. /\ f \in [1..(l + 1) -> Nat]
        /\ f[1] = Len(h.events)
    BY DEF EventsFlow
  <1>3. /\ g \in [1..(Len(q) + 1) -> Nat]
        /\ g[l + 2] = f[l + 1] + Len(m.events)
        /\ \A k \in 1..(l + 1) : g[k] = f[k]
    <2>1. f[l + 1] + Len(m.events) \in Nat
      BY <1>1, <1>2
    <2>2. PICK x \in Nat : x = f[l + 1] + Len(m.events)
      BY <2>1
    <2>3. l \in Nat /\ f \in [1..(l + 1) -> Nat]
      BY <1>1, <1>2
    <2>4. /\ Longer(f, l, x) \in [1..(l + 2) -> Nat]
          /\ Longer(f, l, x)[l + 2] = x
          /\ \A k \in 1..(l + 1) : Longer(f, l, x)[k] = f[k]
      BY ONLY <2>3, x \in Nat DEF Longer
    <2> QED
      BY <1>1, <2>2, <2>4
  <1> HIDE DEF g
  <1>4. \A k \in 1..(l + 1) : Clean(h, q, k) => Clean(h, p, k)
    BY <1>1 DEF Clean
  <1>5. g[1] = Len(h.events)
    BY <1>1, <1>2, <1>3
  <1>6. ASSUME NEW k \in 1..Len(q)
        PROVE  /\ g[k + 1] = g[k] + Len(q[k].events)
               /\ Clean(h, q, k) =>
                     /\ \A i \in 1..Len(q[k].events) : q[k].events[i].n = g[k] + i
                     /\ q[k].type = "done" /\ q[k].lost = 0 => g[k] = n
    <2>1. CASE k \in 1..l
      <3>1. /\ k \in 1..(l + 1) /\ k + 1 \in 1..(l + 1) /\ q[k] = p[k]
            /\ g[k] = f[k] /\ g[k + 1] = f[k + 1]
        BY <2>1, <1>1, <1>3
      <3>2. Clean(h, q, k) => Clean(h, p, k)
        BY <3>1, <1>4
      <3> QED
        BY <2>1, <3>1, <3>2 DEF EventsFlow
    <2>2. CASE k = l + 1
      <3>1. g[k] = f[l + 1] /\ g[k + 1] = f[l + 1] + Len(m.events) /\ q[k] = m
        BY <2>2, <1>1, <1>3
      <3>2. Clean(h, q, k) => \A i \in 1..Len(s) : s[i].n = f[l + 1] + i
        BY <2>2, <1>1, <1>4 DEF Behind
      <3>3. m.type # "done" /\ \A i \in 1..Len(m.events) : i \in 1..Len(s)
        OBVIOUS
      <3>4. Clean(h, q, k) => \A i \in 1..Len(m.events) : m.events[i].n = f[l + 1] + i
        BY <3>2, <3>3
      <3> QED
        BY <3>1, <3>3, <3>4
    <2> QED
      BY <2>1, <2>2, <1>1
  <1>7. ASSUME Len(m.events) = Len(s), Clean(h, q, Len(q) + 1)
        PROVE  g[Len(q) + 1] + Len(<<>>) = n
    <2>1. Clean(h, p, l + 1)
      BY <1>7, <1>1 DEF Clean
    <2> QED
      BY <1>1, <1>2, <1>3, <1>7, <2>1 DEF Behind
  <1>8. /\ EventsFlow(h, q, n, g)
        /\ Len(m.events) = Len(s) => Behind(h, q, <<>>, n, g)
    BY <1>3, <1>5, <1>6, <1>7 DEF EventsFlow, Behind
  <1> QED
    BY <1>8 DEF q

\* A message without events changes nothing: an error ends what is known, and
\* the end may come when all events are in the stream.
LEMMA EventsOther ==
    ASSUME NEW M, NEW h, NEW p \in Seq(M), NEW s, NEW n \in Nat, NEW f,
           NEW m, m \in M, m.events = <<>>, NEW t, t = s \/ m.type = "error",
           EventsFlow(h, p, n, f),
           m.type = "done" /\ m.lost = 0 => Behind(h, p, <<>>, n, f)
    PROVE  \E g : /\ EventsFlow(h, Append(p, m), n, g)
                  /\ Behind(h, p, s, n, f) => Behind(h, Append(p, m), t, n, g)
  <1> DEFINE q == Append(p, m)
             l == Len(p)
             g == Longer(f, l, f[l + 1])
  <1>1. l \in Nat /\ Len(q) = l + 1 /\ q[l + 1] = m /\ \A i \in 1..l : q[i] = p[i]
    BY AppendProperties
  <1> HIDE DEF q
  <1>2. /\ f \in [1..(l + 1) -> Nat]
        /\ f[1] = Len(h.events)
    BY DEF EventsFlow
  <1>3. /\ g \in [1..(Len(q) + 1) -> Nat]
        /\ g[l + 2] = f[l + 1]
        /\ \A k \in 1..(l + 1) : g[k] = f[k]
    <2>1. f[l + 1] \in Nat
      BY <1>1, <1>2
    <2>2. PICK x \in Nat : x = f[l + 1]
      BY <2>1
    <2>3. l \in Nat /\ f \in [1..(l + 1) -> Nat]
      BY <1>1, <1>2
    <2>4. /\ Longer(f, l, x) \in [1..(l + 2) -> Nat]
          /\ Longer(f, l, x)[l + 2] = x
          /\ \A k \in 1..(l + 1) : Longer(f, l, x)[k] = f[k]
      BY ONLY <2>3, x \in Nat DEF Longer
    <2> QED
      BY <1>1, <2>2, <2>4
  <1> HIDE DEF g
  <1>4. \A k \in 1..(l + 1) : Clean(h, q, k) => Clean(h, p, k)
    BY <1>1 DEF Clean
  <1>5. g[1] = Len(h.events)
    BY <1>1, <1>2, <1>3
  <1>6. ASSUME NEW k \in 1..Len(q)
        PROVE  /\ g[k + 1] = g[k] + Len(q[k].events)
               /\ Clean(h, q, k) =>
                     /\ \A i \in 1..Len(q[k].events) : q[k].events[i].n = g[k] + i
                     /\ q[k].type = "done" /\ q[k].lost = 0 => g[k] = n
    <2>1. CASE k \in 1..l
      <3>1. /\ k \in 1..(l + 1) /\ k + 1 \in 1..(l + 1) /\ q[k] = p[k]
            /\ g[k] = f[k] /\ g[k + 1] = f[k + 1]
        BY <2>1, <1>1, <1>3
      <3>2. Clean(h, q, k) => Clean(h, p, k)
        BY <3>1, <1>4
      <3> QED
        BY <2>1, <3>1, <3>2 DEF EventsFlow
    <2>2. CASE k = l + 1
      <3>1. g[k] = f[l + 1] /\ g[k + 1] = f[l + 1] /\ q[k] = m /\ f[l + 1] \in Nat
        BY <2>2, <1>1, <1>2, <1>3
      <3>2. Clean(h, q, k) /\ m.type = "done" /\ m.lost = 0 => f[l + 1] = n
        <4>1. Clean(h, q, k) => Clean(h, p, l + 1)
          BY <2>2, <1>1, <1>4
        <4> QED
          BY <4>1, <3>1 DEF Behind
      <3> QED
        BY <3>1, <3>2
    <2> QED
      BY <2>1, <2>2, <1>1
  <1>7. ASSUME Behind(h, p, s, n, f), Clean(h, q, Len(q) + 1)
        PROVE  /\ g[Len(q) + 1] + Len(t) = n
               /\ \A i \in 1..Len(t) : t[i].n = g[Len(q) + 1] + i
    <2>1. Clean(h, p, l + 1) /\ m.type # "error"
      BY <1>7, <1>1 DEF Clean
    <2> QED
      BY <1>1, <1>2, <1>3, <1>7, <2>1 DEF Behind
  <1>8. /\ EventsFlow(h, q, n, g)
        /\ Behind(h, p, s, n, f) => Behind(h, q, t, n, g)
    BY <1>3, <1>5, <1>6, <1>7 DEF EventsFlow, Behind
  <1> QED
    BY <1>8 DEF q

\* When the last messages are lost with the target, the flow ends earlier.
LEMMA EventsCut ==
    ASSUME NEW M, NEW h, NEW p \in Seq(M), NEW q \in Seq(M), NEW n, NEW f,
           Len(q) <= Len(p), \A i \in 1..Len(q) : q[i] = p[i],
           EventsFlow(h, p, n, f)
    PROVE  \E g : EventsFlow(h, q, n, g)
  <1> DEFINE g == [k \in 1..(Len(q) + 1) |-> f[k]]
  <1>1. Len(p) \in Nat /\ Len(q) \in Nat /\ f \in [1..(Len(p) + 1) -> Nat]
    BY DEF EventsFlow
  <1>2. g \in [1..(Len(q) + 1) -> Nat] /\ \A k \in 1..(Len(q) + 1) : g[k] = f[k]
    BY <1>1
  <1> HIDE DEF g
  <1>3. \A k \in 1..Len(q) : Clean(h, q, k) => Clean(h, p, k)
    BY <1>1 DEF Clean
  <1>4. g[1] = Len(h.events)
    BY <1>1, <1>2 DEF EventsFlow
  <1>5. ASSUME NEW k \in 1..Len(q)
        PROVE  /\ g[k + 1] = g[k] + Len(q[k].events)
               /\ Clean(h, q, k) =>
                     /\ \A i \in 1..Len(q[k].events) : q[k].events[i].n = g[k] + i
                     /\ q[k].type = "done" /\ q[k].lost = 0 => g[k] = n
    <2>1. k \in 1..Len(p) /\ k \in 1..(Len(q) + 1) /\ k + 1 \in 1..(Len(q) + 1)
      BY <1>1
    <2>2. g[k] = f[k] /\ g[k + 1] = f[k + 1] /\ q[k] = p[k]
      BY <2>1, <1>2
    <2> QED
      BY <2>1, <2>2, <1>3 DEF EventsFlow
  <1>6. EventsFlow(h, q, n, g)
    BY <1>2, <1>4, <1>5 DEF EventsFlow
  <1> QED
    BY <1>6

\* What the helper h reads moves from the stream to its events.
LEMMA EventsRead ==
    ASSUME NEW M, NEW h, NEW h2, NEW p \in Seq(M), p # <<>>, NEW s, NEW n, NEW f,
           Len(h2.events) = Len(h.events) + Len(Head(p).events),
           h2.errors = 0 => h.errors = 0 /\ Head(p).type # "error",
           EventsFlow(h, p, n, f)
    PROVE  \E g : /\ EventsFlow(h2, Tail(p), n, g)
                  /\ Behind(h, p, s, n, f) => Behind(h2, Tail(p), s, n, g)
  <1> DEFINE q == Tail(p)
             g == [k \in 1..(Len(q) + 1) |-> f[k + 1]]
  <1>1. /\ Len(p) \in Nat \ {0} /\ Len(q) = Len(p) - 1 /\ Head(p) = p[1]
        /\ \A i \in 1..Len(q) : q[i] = p[i + 1]
    BY HeadTailProperties, EmptySeq
  <1> HIDE DEF q
  <1>2. f \in [1..(Len(p) + 1) -> Nat] /\ f[1] = Len(h.events)
    BY DEF EventsFlow
  <1>3. g \in [1..(Len(q) + 1) -> Nat] /\ \A k \in 1..(Len(q) + 1) : g[k] = f[k + 1]
    BY <1>1, <1>2
  <1> HIDE DEF g
  <1>4. \A k \in 1..(Len(q) + 1) : Clean(h2, q, k) => Clean(h, p, k + 1)
    <2> SUFFICES ASSUME NEW k \in 1..(Len(q) + 1), Clean(h2, q, k),
                        NEW j \in 1..k
                 PROVE  h.errors = 0 /\ p[j].type # "error"
      BY <1>1 DEF Clean
    <2>1. CASE j = 1
      BY <2>1, <1>1 DEF Clean
    <2>2. CASE j # 1
      <3>1. j - 1 \in 1..(k - 1) /\ j - 1 \in 1..Len(q) /\ (j - 1) + 1 = j
        BY <2>2, <1>1
      <3>2. q[j - 1].type # "error" /\ q[j - 1] = p[j]
        BY <3>1, <1>1 DEF Clean
      <3> QED
        BY <3>2 DEF Clean
    <2> QED
      BY <2>1, <2>2
  <1>5. g[1] = Len(h2.events)
    <2>1. 1 \in 1..Len(p) /\ g[1] = f[2] /\ 1 + 1 = 2
      BY <1>1, <1>3
    <2>2. f[1 + 1] = f[1] + Len(p[1].events)
      BY <2>1 DEF EventsFlow
    <2>3. f[2] = f[1] + Len(p[1].events)
      BY <2>1, <2>2, Zenon
    <2> QED
      BY <1>1, <1>2, <2>1, <2>3
  <1>6. ASSUME NEW k \in 1..Len(q)
        PROVE  /\ g[k + 1] = g[k] + Len(q[k].events)
               /\ Clean(h2, q, k) =>
                     /\ \A i \in 1..Len(q[k].events) : q[k].events[i].n = g[k] + i
                     /\ q[k].type = "done" /\ q[k].lost = 0 => g[k] = n
    <2>1. /\ k + 1 \in 1..Len(p) /\ g[k] = f[k + 1] /\ g[k + 1] = f[(k + 1) + 1]
          /\ q[k] = p[k + 1]
          /\ Clean(h2, q, k) => Clean(h, p, k + 1)
      BY <1>1, <1>3, <1>4
    <2> QED
      BY <2>1 DEF EventsFlow
  <1>7. ASSUME Behind(h, p, s, n, f), Clean(h2, q, Len(q) + 1)
        PROVE  /\ g[Len(q) + 1] + Len(s) = n
               /\ \A i \in 1..Len(s) : s[i].n = g[Len(q) + 1] + i
    <2>1. /\ (Len(q) + 1) + 1 = Len(p) + 1 /\ g[Len(q) + 1] = f[Len(p) + 1]
          /\ Clean(h, p, Len(p) + 1)
      BY <1>1, <1>3, <1>4, <1>7
    <2> QED
      BY <1>7, <2>1 DEF Behind
  <1>8. /\ EventsFlow(h2, q, n, g)
        /\ Behind(h, p, s, n, f) => Behind(h2, q, s, n, g)
    BY <1>3, <1>5, <1>6, <1>7 DEF EventsFlow, Behind
  <1> QED
    BY <1>8 DEF q

-----------------------------------------------------------------------------
(* The flow of computed jumps *)

\* A message without jumps changes nothing; the end may come when all jumps are
\* in the stream.
LEMMA JumpsOther ==
    ASSUME NEW M, NEW h, NEW p \in Seq(M), NEW jumps, NEW f, NEW m \in M, m.jumps = <<>>,
           JumpsFlow(h, p, jumps, f),
           m.type = "done" => f[Len(p) + 1] = Len(jumps)
    PROVE  \E g : /\ JumpsFlow(h, Append(p, m), jumps, g)
                  /\ g[Len(Append(p, m)) + 1] = f[Len(p) + 1]
  <1> DEFINE q == Append(p, m)
             l == Len(p)
             g == Longer(f, l, f[l + 1])
  <1>1. l \in Nat /\ Len(q) = l + 1 /\ q[l + 1] = m /\ \A i \in 1..l : q[i] = p[i]
    BY AppendProperties
  <1> HIDE DEF q
  <1>2. /\ f \in [1..(l + 1) -> Nat]
        /\ f[1] = Len(h.jumps)
    BY DEF JumpsFlow
  <1>3. /\ g \in [1..(Len(q) + 1) -> Nat]
        /\ g[l + 2] = f[l + 1]
        /\ \A k \in 1..(l + 1) : g[k] = f[k]
    <2>1. f[l + 1] \in Nat
      BY <1>1, <1>2
    <2>2. PICK x \in Nat : x = f[l + 1]
      BY <2>1
    <2>3. l \in Nat /\ f \in [1..(l + 1) -> Nat]
      BY <1>1, <1>2
    <2>4. /\ Longer(f, l, x) \in [1..(l + 2) -> Nat]
          /\ Longer(f, l, x)[l + 2] = x
          /\ \A k \in 1..(l + 1) : Longer(f, l, x)[k] = f[k]
      BY ONLY <2>3, x \in Nat DEF Longer
    <2> QED
      BY <1>1, <2>2, <2>4
  <1> HIDE DEF g
  <1>4. g[1] = Len(h.jumps)
    BY <1>1, <1>2, <1>3
  <1>5. \A k \in 1..(Len(q) + 1) : g[k] <= Len(jumps)
    BY <1>1, <1>3 DEF JumpsFlow
  <1>6. ASSUME NEW k \in 1..Len(q)
        PROVE  /\ g[k + 1] = g[k] + Len(q[k].jumps)
               /\ \A i \in 1..Len(q[k].jumps) : q[k].jumps[i] = jumps[g[k] + i]
               /\ q[k].type = "done" => g[k] = Len(jumps)
    <2>1. CASE k \in 1..l
      <3>1. /\ k \in 1..(l + 1) /\ k + 1 \in 1..(l + 1) /\ q[k] = p[k]
            /\ g[k] = f[k] /\ g[k + 1] = f[k + 1]
        BY <2>1, <1>1, <1>3
      <3> QED
        BY <2>1, <3>1 DEF JumpsFlow
    <2>2. CASE k = l + 1
      <3>1. g[k] = f[l + 1] /\ g[k + 1] = f[l + 1] /\ q[k] = m /\ f[l + 1] \in Nat
        BY <2>2, <1>1, <1>2, <1>3
      <3> QED
        BY <3>1
    <2> QED
      BY <2>1, <2>2, <1>1
  <1>7. JumpsFlow(h, q, jumps, g)
    BY <1>3, <1>4, <1>5, <1>6 DEF JumpsFlow
  <1> QED
    BY <1>1, <1>3, <1>7 DEF q

\* The messages that hold all jumps are sent, when none was before.
LEMMA JumpsSend ==
    ASSUME NEW E, NEW h, NEW p \in Seq(MessagesOf(E)), NEW jumps \in Seq(Nat), NEW f,
           JumpsFlow(h, p, jumps, f), f[Len(p) + 1] = 0,
           \A k \in 1..Len(p) : p[k].type # "done"
    PROVE  \E g : /\ JumpsFlow(h, p \o JumpMessages(jumps), jumps, g)
                  /\ g[Len(p \o JumpMessages(jumps)) + 1] = Len(jumps)
  <1> DEFINE r == JumpMessages(jumps)
             q == p \o r
             l == Len(p)
  <1>1. r \in Seq(MessagesOf(E))
    BY JumpBatches
  <1>2. PICK e \in [1..(Len(r) + 1) -> Nat] :
          /\ e[1] = 0
          /\ e[Len(r) + 1] = Len(jumps)
          /\ \A k \in 1..(Len(r) + 1) : e[k] <= Len(jumps)
          /\ \A k \in 1..Len(r) :
                /\ r[k].type = "jump_batch"
                /\ e[k + 1] = e[k] + Len(r[k].jumps)
                /\ \A i \in 1..Len(r[k].jumps) : r[k].jumps[i] = jumps[e[k] + i]
    BY JumpBatches
  <1> HIDE DEF r
  <1> DEFINE g == [k \in 1..(Len(q) + 1) |-> IF k <= l THEN f[k] ELSE e[k - l]]
  <1>3. /\ l \in Nat /\ Len(r) \in Nat /\ Len(q) = l + Len(r)
        /\ \A i \in 1..Len(q) : q[i] = IF i <= l THEN p[i] ELSE r[i - l]
    BY <1>1, ConcatProperties
  <1> HIDE DEF q
  <1>4. /\ f \in [1..(l + 1) -> Nat]
        /\ f[1] = Len(h.jumps)
    BY DEF JumpsFlow
  <1>5. /\ g \in [1..(Len(q) + 1) -> Nat]
        /\ \A k \in 1..(l + 1) : g[k] = f[k]
        /\ \A k \in 1..(Len(r) + 1) : g[l + k] = e[k]
    BY <1>2, <1>3, <1>4
  <1> HIDE DEF g
  <1>6. g[1] = Len(h.jumps)
    BY <1>3, <1>4, <1>5
  <1>7. ASSUME NEW k \in 1..Len(q)
        PROVE  /\ g[k + 1] = g[k] + Len(q[k].jumps)
               /\ \A i \in 1..Len(q[k].jumps) : q[k].jumps[i] = jumps[g[k] + i]
               /\ q[k].type = "done" => g[k] = Len(jumps)
    <2>1. CASE k \in 1..l
      <3>1. k \in 1..(l + 1) /\ k + 1 \in 1..(l + 1) /\ q[k] = p[k]
        BY <2>1, <1>3
      <3>2. g[k] = f[k] /\ g[k + 1] = f[k + 1]
        BY <3>1, <1>5
      <3> QED
        BY <2>1, <3>1, <3>2 DEF JumpsFlow
    <2>2. CASE k \notin 1..l
      <3> DEFINE j == k - l
      <3>1. /\ j \in 1..Len(r) /\ k = l + j /\ k + 1 = l + (j + 1)
            /\ j \in 1..(Len(r) + 1) /\ j + 1 \in 1..(Len(r) + 1)
        <4>1. k \in Nat /\ k >= 1 /\ k <= l + Len(r) /\ ~(k <= l)
          BY <2>2, <1>3
        <4> HIDE DEF l
        <4> QED
          BY <4>1, <1>3
      <3>3. q[k] = r[j]
        BY <2>2, <1>3
      <3> HIDE DEF j
      <3>2. g[l + j] = e[j] /\ g[l + (j + 1)] = e[j + 1]
        BY <1>5, <3>1
      <3> QED
        BY <1>2, <3>1, <3>2, <3>3
    <2> QED
      BY <2>1, <2>2
  <1>8. g[Len(q) + 1] = Len(jumps)
    <2>1. Len(q) + 1 = l + (Len(r) + 1) /\ Len(r) + 1 \in 1..(Len(r) + 1)
      BY <1>3
    <2> QED
      BY <1>2, <1>5, <2>1
  <1>9. ASSUME NEW k \in 1..(Len(q) + 1) PROVE g[k] <= Len(jumps)
    <2>1. CASE k \in 1..(l + 1)
      BY <2>1, <1>3, <1>5 DEF JumpsFlow
    <2>2. CASE k \notin 1..(l + 1)
      <3> DEFINE j == k - l
      <3>1. j \in 1..(Len(r) + 1) /\ k = l + j
        BY <1>3, <2>2
      <3> HIDE DEF j
      <3> QED
        BY <1>2, <1>5, <3>1
    <2> QED
      BY <2>1, <2>2
  <1>10. JumpsFlow(h, q, jumps, g)
    BY <1>5, <1>6, <1>7, <1>9 DEF JumpsFlow
  <1> QED
    BY <1>8, <1>10 DEF q, r

\* When the last messages are lost with the target, the flow ends earlier.
LEMMA JumpsCut ==
    ASSUME NEW M, NEW h, NEW p \in Seq(M), NEW q \in Seq(M), NEW jumps, NEW f,
           Len(q) <= Len(p), \A i \in 1..Len(q) : q[i] = p[i],
           JumpsFlow(h, p, jumps, f)
    PROVE  \E g : JumpsFlow(h, q, jumps, g)
  <1> DEFINE g == [k \in 1..(Len(q) + 1) |-> f[k]]
  <1>1. Len(p) \in Nat /\ Len(q) \in Nat /\ f \in [1..(Len(p) + 1) -> Nat]
    BY DEF JumpsFlow
  <1>2. g \in [1..(Len(q) + 1) -> Nat] /\ \A k \in 1..(Len(q) + 1) : g[k] = f[k]
    BY <1>1
  <1> HIDE DEF g
  <1>3. g[1] = Len(h.jumps) /\ \A k \in 1..(Len(q) + 1) : g[k] <= Len(jumps)
    BY <1>1, <1>2 DEF JumpsFlow
  <1>4. ASSUME NEW k \in 1..Len(q)
        PROVE  /\ g[k + 1] = g[k] + Len(q[k].jumps)
               /\ \A i \in 1..Len(q[k].jumps) : q[k].jumps[i] = jumps[g[k] + i]
               /\ q[k].type = "done" => g[k] = Len(jumps)
    <2>1. /\ k \in 1..Len(p) /\ q[k] = p[k]
          /\ k \in 1..(Len(q) + 1) /\ k + 1 \in 1..(Len(q) + 1)
      BY <1>1
    <2>2. g[k] = f[k] /\ g[k + 1] = f[k + 1]
      BY <1>2, <2>1
    <2> QED
      BY <2>1, <2>2, SMTT(30) DEF JumpsFlow
  <1>5. JumpsFlow(h, q, jumps, g)
    BY <1>2, <1>3, <1>4 DEF JumpsFlow
  <1> QED
    BY <1>5

\* h becomes h2 with the jumps of the message m.
JumpsTaken(h, m, h2) == Len(h2.jumps) = Len(h.jumps) + Len(m.jumps)

\* The flow f of the stream p after its first message.
Rest(p, f) == [k \in 1..(Len(Tail(p)) + 1) |-> f[k + 1]]

\* What the helper h reads moves from the stream to its jumps.
LEMMA JumpsRead ==
    ASSUME NEW M, NEW h, NEW h2, NEW p \in Seq(M), p # <<>>, NEW jumps, NEW f,
           JumpsTaken(h, Head(p), h2), JumpsFlow(h, p, jumps, f)
    PROVE  /\ JumpsFlow(h2, Tail(p), jumps, Rest(p, f))
           /\ Rest(p, f)[Len(Tail(p)) + 1] = f[Len(p) + 1]
  <1> DEFINE q == Tail(p)
             g == Rest(p, f)
  <1>1. /\ Len(p) \in Nat \ {0} /\ Len(q) = Len(p) - 1 /\ Head(p) = p[1]
        /\ \A i \in 1..Len(q) : q[i] = p[i + 1]
    BY HeadTailProperties, EmptySeq
  <1>9. g = [k \in 1..(Len(q) + 1) |-> f[k + 1]]
    BY DEF Rest
  <1> HIDE DEF q, g
  <1>2. f \in [1..(Len(p) + 1) -> Nat] /\ f[1] = Len(h.jumps)
    BY DEF JumpsFlow
  <1>3. g \in [1..(Len(q) + 1) -> Nat] /\ \A k \in 1..(Len(q) + 1) : g[k] = f[k + 1]
    BY <1>1, <1>2, <1>9
  <1> HIDE DEF g
  <1>4. g[1] = Len(h2.jumps)
    <2>1. 1 \in 1..Len(p) /\ g[1] = f[2] /\ 1 + 1 = 2
      BY <1>1, <1>3
    <2>2. f[1 + 1] = f[1] + Len(p[1].jumps)
      BY <2>1 DEF JumpsFlow
    <2>3. f[2] = f[1] + Len(p[1].jumps)
      BY <2>1, <2>2, Zenon
    <2> QED
      BY <1>1, <1>2, <2>1, <2>3 DEF JumpsTaken
  <1>5. ASSUME NEW k \in 1..(Len(q) + 1) PROVE g[k] <= Len(jumps)
    <2>1. k + 1 \in 1..(Len(p) + 1) /\ g[k] = f[k + 1]
      BY <1>1, <1>3
    <2> QED
      BY <2>1 DEF JumpsFlow
  <1>6. ASSUME NEW k \in 1..Len(q)
        PROVE  /\ g[k + 1] = g[k] + Len(q[k].jumps)
               /\ \A i \in 1..Len(q[k].jumps) : q[k].jumps[i] = jumps[g[k] + i]
               /\ q[k].type = "done" => g[k] = Len(jumps)
    <2>1. /\ k + 1 \in 1..Len(p) /\ g[k] = f[k + 1] /\ g[k + 1] = f[(k + 1) + 1]
          /\ q[k] = p[k + 1]
      BY <1>1, <1>3
    <2> QED
      BY <2>1 DEF JumpsFlow
  <1>7. JumpsFlow(h2, q, jumps, g)
    BY <1>3, <1>4, <1>5, <1>6 DEF JumpsFlow
  <1>8. g[Len(q) + 1] = f[Len(p) + 1]
    BY <1>1, <1>3
  <1> QED
    BY <1>7, <1>8 DEF q, g

-----------------------------------------------------------------------------
(* The sizes of the messages *)

\* Another message brings what it holds.
LEMMA SizesSend ==
    ASSUME NEW M, NEW p \in Seq(M), NEW acc, NEW owed, NEW f, NEW m \in M,
           Size(m) \in Nat,
           SizesFlow(acc, p, owed, f),
           m.type = "done" => f[Len(p) + 1] + Size(m) >= owed
    PROVE  \E g : /\ SizesFlow(acc, Append(p, m), owed, g)
                  /\ g[Len(Append(p, m)) + 1] = f[Len(p) + 1] + Size(m)
  <1> DEFINE q == Append(p, m)
             l == Len(p)
             g == Longer(f, l, f[l + 1] + Size(m))
  <1>1. l \in Nat /\ Len(q) = l + 1 /\ q[l + 1] = m /\ \A i \in 1..l : q[i] = p[i]
    BY AppendProperties
  <1> HIDE DEF q
  <1>2. f \in [1..(l + 1) -> Int] /\ f[1] = acc
    BY DEF SizesFlow
  <1>3. /\ g \in [1..(Len(q) + 1) -> Int]
        /\ g[l + 2] = f[l + 1] + Size(m)
        /\ \A k \in 1..(l + 1) : g[k] = f[k]
    <2>1. f[l + 1] + Size(m) \in Int
      BY <1>1, <1>2
    <2>2. PICK x \in Int : x = f[l + 1] + Size(m)
      BY <2>1
    <2>3. l \in Nat /\ f \in [1..(l + 1) -> Int]
      BY <1>1, <1>2
    <2>4. /\ Longer(f, l, x) \in [1..(l + 2) -> Int]
          /\ Longer(f, l, x)[l + 2] = x
          /\ \A k \in 1..(l + 1) : Longer(f, l, x)[k] = f[k]
      BY ONLY <2>3, x \in Int DEF Longer
    <2> QED
      BY <1>1, <2>2, <2>4
  <1> HIDE DEF g
  <1>4. g[1] = acc /\ g[Len(q) + 1] = f[l + 1] + Size(m)
    BY <1>1, <1>2, <1>3
  <1>5. ASSUME NEW k \in 1..Len(q)
        PROVE  /\ g[k + 1] = g[k] + Size(q[k])
               /\ q[k].type = "done" => g[k + 1] >= owed
    <2>1. CASE k \in 1..l
      <3>1. g[k] = f[k] /\ g[k + 1] = f[k + 1] /\ q[k] = p[k]
        BY <2>1, <1>1, <1>3
      <3> QED
        BY <2>1, <3>1 DEF SizesFlow
    <2>2. CASE k = l + 1
      <3>1. g[k] = f[l + 1] /\ g[k + 1] = f[l + 1] + Size(m) /\ q[k] = m
        BY <2>2, <1>1, <1>3
      <3> QED
        BY <3>1
    <2> QED
      BY <2>1, <2>2, <1>1
  <1>6. SizesFlow(acc, q, owed, g)
    BY <1>3, <1>4, <1>5 DEF SizesFlow
  <1> QED
    BY <1>4, <1>6 DEF q

\* The messages of the computed jumps bring all of them.
LEMMA SizesSendJumps ==
    ASSUME NEW E, NEW p \in Seq(MessagesOf(E)), NEW jumps \in Seq(Nat), NEW acc, NEW owed,
           NEW f, SizesFlow(acc, p, owed, f)
    PROVE  \E g : LET q == p \o JumpMessages(jumps)
                  IN /\ SizesFlow(acc, q, owed, g)
                     /\ g[Len(q) + 1] = f[Len(p) + 1] + Len(jumps)
  <1> DEFINE r == JumpMessages(jumps)
             q == p \o r
             l == Len(p)
             c == f[l + 1]
  <1>1. r \in Seq(MessagesOf(E))
    BY JumpBatches
  <1>2. PICK e \in [1..(Len(r) + 1) -> Nat] :
          /\ e[1] = 0
          /\ e[Len(r) + 1] = Len(jumps)
          /\ \A k \in 1..Len(r) :
                /\ r[k].type = "jump_batch" /\ r[k].events = <<>> /\ r[k].lost = 0
                /\ e[k + 1] = e[k] + Len(r[k].jumps)
    BY JumpBatches, ZenonT(40)
  <1>3. \A k \in 1..Len(r) : Len(r[k].jumps) \in Nat
    BY <1>1, SMTT(30) DEF MessagesOf
  <1> HIDE DEF r
  <1>4. ASSUME NEW k \in 1..Len(r) PROVE Size(r[k]) = Len(r[k].jumps)
    <2>1. /\ r[k].events = <<>> /\ r[k].lost = 0 /\ Len(r[k].jumps) \in Nat
          /\ Len(<<>>) = 0
      BY <1>2, <1>3
    <2>2. Size(r[k]) = 0 + Len(r[k].jumps) + 0
      BY <2>1, Zenon DEF Size
    <2> QED
      BY <2>1, <2>2
  <1>5. /\ l \in Nat /\ Len(r) \in Nat /\ Len(q) = l + Len(r)
        /\ \A i \in 1..Len(q) : q[i] = IF i <= l THEN p[i] ELSE r[i - l]
    BY <1>1, ConcatProperties
  <1> HIDE DEF q
  <1>6. f \in [1..(l + 1) -> Int] /\ f[1] = acc /\ c \in Int
    BY <1>5 DEF SizesFlow
  <1> DEFINE g == [k \in 1..(Len(q) + 1) |-> IF k <= l THEN f[k] ELSE c + e[k - l]]
  <1>7. g \in [1..(Len(q) + 1) -> Int]
    BY <1>2, <1>5, <1>6
  <1>8. ASSUME NEW k \in 1..(l + 1) PROVE g[k] = f[k] /\ k \in 1..(Len(q) + 1)
    <2>1. CASE k <= l
      BY <1>5, <2>1
    <2>2. CASE k = l + 1
      <3>1. g[k] = c + e[1]
        BY <1>5, <2>2
      <3> QED
        BY <1>2, <1>5, <1>6, <2>2, <3>1
    <2> QED
      BY <1>5, <2>1, <2>2
  <1>9. ASSUME NEW j \in 1..(Len(r) + 1) PROVE g[l + j] = c + e[j]
    BY <1>5
  <1> HIDE DEF g, c
  <1>10. g[1] = acc /\ g[Len(q) + 1] = c + Len(jumps)
    <2>1. 1 \in 1..(l + 1) /\ Len(r) + 1 \in 1..(Len(r) + 1) /\ Len(q) + 1 = l + (Len(r) + 1)
      BY <1>5
    <2>2. g[1] = f[1]
      BY <1>8, <2>1
    <2>3. g[l + (Len(r) + 1)] = c + e[Len(r) + 1]
      BY <1>9, <2>1
    <2> QED
      BY <1>2, <1>6, <2>1, <2>2, <2>3
  <1>11. ASSUME NEW k \in 1..Len(q)
         PROVE  /\ g[k + 1] = g[k] + Size(q[k])
                /\ q[k].type = "done" => g[k + 1] >= owed
    <2>1. CASE k \in 1..l
      <3>1. k \in 1..(l + 1) /\ k + 1 \in 1..(l + 1) /\ q[k] = p[k]
        BY <2>1, <1>5
      <3>2. g[k] = f[k] /\ g[k + 1] = f[k + 1]
        BY <3>1, <1>8
      <3> QED
        BY <2>1, <3>1, <3>2 DEF SizesFlow
    <2>2. CASE k \notin 1..l
      <3> DEFINE j == k - l
      <3>1. q[k] = r[j]
        BY <2>2, <1>5
      <3>2. /\ j \in 1..Len(r) /\ k = l + j /\ k + 1 = l + (j + 1)
            /\ j \in 1..(Len(r) + 1) /\ j + 1 \in 1..(Len(r) + 1)
        <4>1. k \in Nat /\ k >= 1 /\ k <= l + Len(r) /\ ~(k <= l)
          BY <2>2, <1>5
        <4> HIDE DEF l
        <4> QED
          BY <4>1, <1>5
      <3> HIDE DEF j
      <3>3. g[l + j] = c + e[j] /\ g[l + (j + 1)] = c + e[j + 1]
        BY <1>9, <3>2
      <3>4. e[j + 1] = e[j] + Len(r[j].jumps) /\ e[j] \in Nat /\ r[j].type = "jump_batch"
        BY <1>2, <3>2
      <3>5. Size(q[k]) = Len(r[j].jumps) /\ Len(r[j].jumps) \in Nat
        BY <1>3, <1>4, <3>1, <3>2
      <3>6. g[k + 1] = g[k] + Size(q[k])
        BY <1>6, <3>2, <3>3, <3>4, <3>5
      <3> QED
        BY <3>1, <3>4, <3>6
    <2> QED
      BY <2>1, <2>2
  <1>12. SizesFlow(acc, q, owed, g)
    BY <1>7, <1>10, <1>11 DEF SizesFlow
  <1> QED
    BY <1>10, <1>12 DEF q, r, c

\* When the last messages are lost with the target, nothing is claimed of them.
LEMMA SizesCut ==
    ASSUME NEW M, NEW p \in Seq(M), NEW q \in Seq(M), NEW acc, NEW owed, NEW f,
           Len(q) <= Len(p), \A i \in 1..Len(q) : q[i] = p[i],
           SizesFlow(acc, p, owed, f)
    PROVE  \E g : SizesFlow(acc, q, owed, g)
  <1> DEFINE g == [k \in 1..(Len(q) + 1) |-> f[k]]
  <1>1. Len(p) \in Nat /\ Len(q) \in Nat /\ f \in [1..(Len(p) + 1) -> Int]
    BY DEF SizesFlow
  <1>2. g \in [1..(Len(q) + 1) -> Int] /\ \A k \in 1..(Len(q) + 1) : g[k] = f[k]
    BY <1>1
  <1> HIDE DEF g
  <1>3. g[1] = acc
    BY <1>1, <1>2 DEF SizesFlow
  <1>4. ASSUME NEW k \in 1..Len(q)
        PROVE  /\ g[k + 1] = g[k] + Size(q[k])
               /\ q[k].type = "done" => g[k + 1] >= owed
    <2>1. /\ k \in 1..Len(p) /\ q[k] = p[k]
          /\ k \in 1..(Len(q) + 1) /\ k + 1 \in 1..(Len(q) + 1)
      BY <1>1
    <2>2. g[k] = f[k] /\ g[k + 1] = f[k + 1]
      BY <1>2, <2>1
    <2> QED
      BY <2>1, <2>2 DEF SizesFlow
  <1>5. SizesFlow(acc, q, owed, g)
    BY <1>2, <1>3, <1>4 DEF SizesFlow
  <1> QED
    BY <1>5

\* q is the stream p without the message at place l.
Without(p, l, q) ==
    /\ Len(q) = Len(p) - 1
    /\ \A i \in 1..Len(q) : q[i] = p[IF i < l THEN i ELSE i + 1]

\* All messages of the stream p have a size; w is not less than that of the one
\* at place l, unless no end comes after it.
Weighed(p, l, w) ==
    /\ \A i \in 1..Len(p) : Size(p[i]) \in Nat
    /\ \/ w >= Size(p[l])
       \/ \A i \in (l + 1)..Len(p) : p[i].type # "done"

\* A message at place l of the stream that finds the queue full is counted.
LEMMA SizesDrop ==
    ASSUME NEW M, NEW p \in Seq(M), NEW q \in Seq(M), NEW acc \in Nat, NEW w \in Nat,
           NEW owed \in Int, NEW f, NEW l \in 1..Len(p),
           Without(p, l, q), Weighed(p, l, w), SizesFlow(acc, p, owed, f)
    PROVE  \E g : /\ SizesFlow(acc + w, q, owed, g)
                  /\ g[Len(q) + 1] = f[Len(p) + 1] + w - Size(p[l])
  <1>11. /\ Len(q) = Len(p) - 1
         /\ \A i \in 1..Len(q) : q[i] = p[IF i < l THEN i ELSE i + 1]
    BY DEF Without
  <1>12. /\ \A i \in 1..Len(p) : Size(p[i]) \in Nat
         /\ \/ w >= Size(p[l])
            \/ \A i \in (l + 1)..Len(p) : p[i].type # "done"
    BY DEF Weighed
  <1> DEFINE d == w - Size(p[l])
             g == [k \in 1..Len(p) |-> IF k <= l THEN f[k] + w ELSE f[k + 1] + d]
  <1>1. /\ Len(p) \in Nat /\ Len(q) \in Nat /\ f \in [1..(Len(p) + 1) -> Int]
        /\ f[1] = acc /\ d \in Int /\ l \in Nat /\ l >= 1 /\ l <= Len(p)
    BY <1>11, <1>12 DEF SizesFlow
  <1>2. ASSUME NEW k \in 1..Len(p)
        PROVE  /\ f[k] \in Int /\ f[k + 1] \in Int
               /\ f[k + 1] = f[k] + Size(p[k])
    <2>1. k \in 1..(Len(p) + 1) /\ k + 1 \in 1..(Len(p) + 1)
      BY <1>1
    <2> QED
      BY <1>1, <2>1 DEF SizesFlow
  <1>3. f[l + 1] + d = f[l] + w
    <2>1. f[l] \in Int /\ f[l + 1] = f[l] + Size(p[l]) /\ Size(p[l]) \in Nat
      BY <1>2, <1>12
    <2> QED
      BY <2>1
  <1> HIDE DEF d
  <1>4. /\ g \in [1..(Len(q) + 1) -> Int]
        /\ \A k \in 1..l : g[k] = f[k] + w
        /\ \A k \in 1..Len(p) : k > l => g[k] = f[k + 1] + d
    <2>1. Len(q) + 1 = Len(p)
      BY <1>1, <1>11
    <2>2. ASSUME NEW k \in 1..Len(p)
          PROVE  (IF k <= l THEN f[k] + w ELSE f[k + 1] + d) \in Int
      <3>1. f[k] + w \in Int /\ f[k + 1] + d \in Int
        <4>1. f[k] \in Int /\ f[k + 1] \in Int
          BY <1>2
        <4> QED
          BY <1>1, <4>1
      <3> QED
        BY <3>1, Zenon
    <2>3. g \in [1..Len(p) -> Int]
      BY <2>2
    <2>4. \A k \in 1..l : k \in 1..Len(p) /\ k <= l
      BY <1>1
    <2>5. \A k \in 1..Len(p) : k > l => ~(k <= l)
      BY <1>1
    <2> QED
      BY <2>1, <2>3, <2>4, <2>5, Zenon
  <1> HIDE DEF g
  <1>5. g[1] = acc + w
    BY <1>1, <1>11, <1>4
  <1>6. \A k \in 1..Len(p) : k >= l => g[k] = f[k + 1] + d
    BY <1>1, <1>3, <1>4
  <1>7. ASSUME NEW k \in 1..Len(q)
        PROVE  /\ g[k + 1] = g[k] + Size(q[k])
               /\ q[k].type = "done" => g[k + 1] >= owed
    <2>1. CASE k < l
      <3>1. /\ k \in 1..Len(p) /\ k \in 1..l /\ k + 1 \in 1..l /\ q[k] = p[k]
        <4>1. q[k] = p[k]
          BY <1>11, <2>1, Zenon
        <4>2. k \in 1..Len(p) /\ k \in 1..l /\ k + 1 \in 1..l
          BY <1>1, <1>11, <2>1
        <4> QED
          BY <4>1, <4>2
      <3>2. g[k] = f[k] + w /\ g[k + 1] = f[k + 1] + w
        BY <1>4, <3>1
      <3>3. Size(p[k]) \in Nat /\ (p[k].type = "done" => f[k + 1] >= owed)
        BY <1>12, <3>1 DEF SizesFlow
      <3>4. f[k] \in Int /\ f[k + 1] \in Int /\ f[k + 1] = f[k] + Size(p[k])
        BY <1>2, <3>1
      <3>5. g[k + 1] = g[k] + Size(q[k])
        BY <3>1, <3>2, <3>3, <3>4
      <3>6. q[k].type = "done" => g[k + 1] >= owed
        BY <3>1, <3>2, <3>3, <3>4
      <3> QED
        BY <3>5, <3>6
    <2>2. CASE ~(k < l)
      <3>1. /\ k \in 1..Len(p) /\ k >= l /\ k + 1 \in 1..Len(p) /\ k + 1 >= l
            /\ k + 1 \in (l + 1)..Len(p)
            /\ q[k] = p[k + 1]
        <4>1. q[k] = p[k + 1]
          BY <1>11, <2>2, Zenon
        <4>2. k \in Nat /\ k >= 1 /\ k <= Len(p) - 1
          BY <1>1, <1>11
        <4>3. /\ k \in 1..Len(p) /\ k >= l /\ k + 1 \in 1..Len(p) /\ k + 1 >= l
              /\ k + 1 \in (l + 1)..Len(p)
          BY <1>1, <2>2, <4>2
        <4> QED
          BY <4>1, <4>3
      <3>2. g[k] = f[k + 1] + d /\ g[k + 1] = f[(k + 1) + 1] + d
        BY <1>6, <3>1
      <3>3. /\ f[(k + 1) + 1] = f[k + 1] + Size(p[k + 1])
            /\ f[k + 1] \in Int /\ f[(k + 1) + 1] \in Int
        BY <1>2, <3>1
      <3>4. Size(p[k + 1]) \in Nat /\ (p[k + 1].type = "done" => f[(k + 1) + 1] >= owed)
        BY <1>12, <3>1 DEF SizesFlow
      <3>5. p[k + 1].type = "done" => d >= 0
        BY <1>12, <3>1, SMTT(30) DEF d
      <3>6. g[k + 1] = g[k] + Size(q[k])
        BY <1>1, <3>1, <3>2, <3>3, <3>4
      <3>7. q[k].type = "done" => g[k + 1] >= owed
        BY <1>1, <3>1, <3>2, <3>3, <3>4, <3>5, SMTT(30)
      <3> QED
        BY <3>6, <3>7
    <2> QED
      BY <2>1, <2>2
  <1>8. SizesFlow(acc + w, q, owed, g)
    BY <1>4, <1>5, <1>7 DEF SizesFlow
  <1>9. g[Len(q) + 1] = f[Len(p) + 1] + d
    BY <1>1, <1>11, <1>6
  <1>10. f[Len(p) + 1] + d = f[Len(p) + 1] + w - Size(p[l])
    BY <1>1, <1>2, <1>12 DEF d
  <1> QED
    BY <1>8, <1>9, <1>10

\* What the helper reads is accounted for, whether or not it has room for it.
LEMMA SizesRead ==
    ASSUME NEW M, NEW p \in Seq(M), p # <<>>, NEW acc, NEW owed, NEW f,
           SizesFlow(acc, p, owed, f)
    PROVE  \E g : /\ SizesFlow(acc + Size(Head(p)), Tail(p), owed, g)
                  /\ g[Len(Tail(p)) + 1] = f[Len(p) + 1]
  <1> DEFINE q == Tail(p)
             g == [k \in 1..(Len(q) + 1) |-> f[k + 1]]
  <1>1. /\ Len(p) \in Nat \ {0} /\ Len(q) = Len(p) - 1 /\ Head(p) = p[1]
        /\ \A i \in 1..Len(q) : q[i] = p[i + 1]
    BY HeadTailProperties, EmptySeq
  <1> HIDE DEF q
  <1>2. f \in [1..(Len(p) + 1) -> Int] /\ f[1] = acc
    BY DEF SizesFlow
  <1>3. g \in [1..(Len(q) + 1) -> Int] /\ \A k \in 1..(Len(q) + 1) : g[k] = f[k + 1]
    BY <1>1, <1>2
  <1> HIDE DEF g
  <1>4. g[1] = acc + Size(Head(p))
    <2>1. 1 \in 1..Len(p) /\ g[1] = f[2] /\ 1 + 1 = 2
      BY <1>1, <1>3
    <2>2. f[1 + 1] = f[1] + Size(p[1])
      BY <2>1 DEF SizesFlow
    <2>3. f[2] = f[1] + Size(p[1])
      BY <2>1, <2>2, Zenon
    <2> QED
      BY <1>1, <1>2, <2>1, <2>3
  <1>5. ASSUME NEW k \in 1..Len(q)
        PROVE  /\ g[k + 1] = g[k] + Size(q[k])
               /\ q[k].type = "done" => g[k + 1] >= owed
    <2>1. /\ k + 1 \in 1..Len(p) /\ g[k] = f[k + 1] /\ g[k + 1] = f[(k + 1) + 1]
          /\ q[k] = p[k + 1]
      BY <1>1, <1>3
    <2> QED
      BY <2>1 DEF SizesFlow
  <1>6. SizesFlow(acc + Size(Head(p)), q, owed, g)
    BY <1>3, <1>4, <1>5 DEF SizesFlow
  <1>7. g[Len(q) + 1] = f[Len(p) + 1]
    BY <1>1, <1>3
  <1> QED
    BY <1>6, <1>7 DEF q

-----------------------------------------------------------------------------
(* What emitting does to the stream *)

\* More jumps may be recorded as long as none was sent.
LEMMA JumpsMore ==
    ASSUME NEW M, NEW h, NEW p \in Seq(M), NEW jumps, NEW more, NEW f,
           Len(jumps) \in Nat, Len(more) \in Nat, Len(jumps) <= Len(more),
           \A k \in 1..Len(p) : p[k].jumps = <<>> /\ p[k].type # "done",
           JumpsFlow(h, p, jumps, f)
    PROVE  JumpsFlow(h, p, more, f)
  <1>1. \A k \in 1..(Len(p) + 1) : f[k] \in Nat /\ f[k] <= Len(jumps)
    BY DEF JumpsFlow
  <1>2. \A k \in 1..(Len(p) + 1) : f[k] <= Len(more)
    BY <1>1
  <1> QED
    BY <1>2 DEF JumpsFlow

\* What is owed matters only to the end.
LEMMA SizesOwed ==
    ASSUME NEW p, NEW acc, NEW was, NEW is, NEW f,
           \A k \in 1..Len(p) : p[k].type # "done",
           SizesFlow(acc, p, was, f)
    PROVE  SizesFlow(acc, p, is, f)
  BY DEF SizesFlow

\* A message on the wire is the last of the stream.
LEMMA StreamAppend ==
    ASSUME NEW M, NEW q \in Seq(M), NEW w \in Seq(M), NEW m \in M
    PROVE  /\ q \o w \in Seq(M)
           /\ q \o Append(w, m) = Append(q \o w, m)
           /\ q \o Append(w, m) \in Seq(M)
           /\ Len(q \o Append(w, m)) = Len(q \o w) + 1
           /\ (q \o Append(w, m))[Len(q \o w) + 1] = m
           /\ \A i \in 1..Len(q \o w) : (q \o Append(w, m))[i] = (q \o w)[i]
  <1> DEFINE p == q \o w
  <1>1. p \in Seq(M) /\ <<m>> \in Seq(M) /\ Append(w, m) = w \o <<m>>
    BY ConcatProperties, AppendIsConcat
  <1>2. q \o (w \o <<m>>) = p \o <<m>>
    BY <1>1, ConcatAssociative
  <1>3. Append(p, m) = p \o <<m>>
    BY <1>1, AppendIsConcat
  <1> HIDE DEF p
  <1>4. /\ Append(p, m) \in Seq(M)
        /\ Len(Append(p, m)) = Len(p) + 1
        /\ Append(p, m)[Len(p) + 1] = m
        /\ \A i \in 1..Len(p) : Append(p, m)[i] = p[i]
    BY <1>1, AppendProperties
  <1>5. q \o Append(w, m) = Append(p, m)
    BY <1>1, <1>2, <1>3
  <1> QED
    BY <1>1, <1>4, <1>5 DEF p

\* The agent a becomes b by emitting the events s.
Emits(a, b, s) ==
    LET accepted == First(s, Cap - a.count)
    IN /\ b.jumps = a.jumps
       /\ b.count = a.count + Len(accepted)
       /\ b.lost = a.lost + Len(s) - Len(accepted)
       /\ accepted = <<>> => b.wire = a.wire
       /\ accepted # <<>> => b.wire = Append(a.wire, Msg("batch", accepted, <<>>, 0))

\* An agent that is whole after it has sent k of n observations has sent all.
LEMMA WholeSends ==
    ASSUME NEW cap \in Nat, NEW c \in Nat, NEW l \in Nat, NEW n \in Nat, NEW k \in Nat,
           c <= cap, k = IF cap - c < n THEN cap - c ELSE n,
           c + k < cap \/ l + n - k = 0
    PROVE  (c < cap \/ l = 0) /\ k = n
  OBVIOUS

\* One batch is sent, or nothing.
LEMMA EmitSends ==
    ASSUME NEW E, NEW a \in Agents(E), NEW b, NEW s \in Seq(E), Emits(a, b, s),
           NEW q \in Seq(MessagesOf(E))
    PROVE  LET accepted == First(s, Cap - a.count)
               p == q \o a.wire
           IN /\ p \in Seq(MessagesOf(E))
              /\ accepted \in Seq(E) /\ Len(accepted) \in Nat /\ Len(accepted) <= Len(s)
              /\ \A i \in 1..Len(accepted) : accepted[i] = s[i]
              /\ Whole(b) => Whole(a) /\ Len(accepted) = Len(s)
              /\ Len(accepted) > 0 => Whole(a)
              /\ b.count = a.count + Len(accepted)
              /\ \/ Len(accepted) = 0 /\ b.wire = a.wire
                 \/ \E m \in MessagesOf(E) :
                       /\ m.type = "batch" /\ m.events = accepted
                       /\ m.jumps = <<>> /\ m.lost = 0
                       /\ q \o b.wire = Append(p, m)
  <1> DEFINE accepted == First(s, Cap - a.count)
             p == q \o a.wire
             m == Msg("batch", accepted, <<>>, 0)
  <1>1. /\ Cap - a.count \in Nat /\ a.count \in Nat /\ a.lost \in Nat /\ Cap \in Nat
        /\ a.wire \in Seq(MessagesOf(E)) /\ Len(s) \in Nat
    BY ConstantAssumption DEF Agents
  <1>2. /\ accepted \in Seq(E)
        /\ Len(accepted) = IF Cap - a.count < Len(s) THEN Cap - a.count ELSE Len(s)
        /\ \A i \in 1..Len(accepted) : accepted[i] = s[i]
    BY <1>1, FirstOf
  <1>3. /\ b.count = a.count + Len(accepted)
        /\ b.lost = a.lost + Len(s) - Len(accepted)
        /\ accepted = <<>> => b.wire = a.wire
        /\ accepted # <<>> => b.wire = Append(a.wire, m)
    BY DEF Emits
  <1> HIDE DEF accepted
  <1>4. Len(accepted) \in Nat /\ Len(accepted) <= Len(s)
    BY <1>1, <1>2
  <1>5. Whole(b) => Whole(a) /\ Len(accepted) = Len(s)
    <2> SUFFICES ASSUME b.count < Cap \/ b.lost = 0
                 PROVE  (a.count < Cap \/ a.lost = 0) /\ Len(accepted) = Len(s)
      BY DEF Whole
    <2>1. \/ a.count + Len(accepted) < Cap
          \/ a.lost + Len(s) - Len(accepted) = 0
      BY <1>3
    <2>2. a.count <= Cap
      BY <1>1
    <2> QED
      BY <1>1, <1>2, <1>4, <2>1, <2>2, WholeSends, SMTT(30)
  <1>6. Len(accepted) > 0 => Whole(a)
    BY <1>1, <1>2, <1>4 DEF Whole
  <1>7. p \in Seq(MessagesOf(E))
    BY <1>1, ConcatProperties
  <1>8. ASSUME accepted # <<>>
        PROVE  /\ m \in MessagesOf(E)
               /\ m.type = "batch" /\ m.events = accepted /\ m.jumps = <<>> /\ m.lost = 0
    BY <1>2, <1>8 DEF Msg, MessagesOf, MessageTypes
  <1> HIDE DEF m
  <1>9. accepted # <<>> => q \o b.wire = Append(p, m)
    <2> SUFFICES ASSUME accepted # <<>>
                 PROVE  q \o b.wire = Append(p, m)
      OBVIOUS
    <2>1. m \in MessagesOf(E)
      BY <1>8 DEF m
    <2>2. q \o Append(a.wire, m) = Append(q \o a.wire, m)
      BY <1>1, <2>1, StreamAppend, SMTT(30)
    <2>3. b.wire = Append(a.wire, m)
      BY <1>3 DEF m
    <2> QED
      BY <2>2, <2>3
  <1>10. accepted = <<>> => Len(accepted) = 0
    OBVIOUS
  <1> QED
    BY <1>2, <1>3, <1>4, <1>5, <1>6, <1>7, <1>8, <1>9, <1>10 DEF accepted

\* The events of the buffer follow those of the stream into it.
LEMMA EmitEvents ==
    ASSUME NEW E, NEW a \in Agents(E), NEW b, NEW s \in Seq(E), Emits(a, b, s),
           NEW q \in Seq(MessagesOf(E)), NEW h, NEW n \in Nat, NEW f,
           EventsFlow(h, q \o a.wire, n, f),
           Whole(a) => Behind(h, q \o a.wire, s, n, f)
    PROVE  \E g : /\ EventsFlow(h, q \o b.wire, n, g)
                  /\ Whole(b) => Behind(h, q \o b.wire, <<>>, n, g)
  <1> DEFINE accepted == First(s, Cap - a.count)
             p == q \o a.wire
  <1>1. /\ p \in Seq(MessagesOf(E))
        /\ Len(accepted) \in Nat /\ Len(accepted) <= Len(s)
        /\ \A i \in 1..Len(accepted) : accepted[i] = s[i]
        /\ Whole(b) => Whole(a) /\ Len(accepted) = Len(s)
        /\ Len(accepted) > 0 => Whole(a)
        /\ \/ Len(accepted) = 0 /\ b.wire = a.wire
           \/ \E m \in MessagesOf(E) : /\ m.type = "batch" /\ m.events = accepted
                                       /\ q \o b.wire = Append(p, m)
    BY EmitSends, SMTT(30)
  <1> HIDE DEF accepted, p
  <1>2. EventsFlow(h, p, n, f) /\ (Whole(a) => Behind(h, p, s, n, f))
    BY DEF p
  <1>3. CASE Len(accepted) = 0 /\ b.wire = a.wire
    <2>1. Whole(b) => Behind(h, p, <<>>, n, f)
      <3>1. Whole(b) => s = <<>>
        BY <1>1, <1>3, EmptySeq
      <3> QED
        BY <1>1, <1>2, <3>1
    <2> QED
      BY <1>2, <1>3, <2>1 DEF p
  <1>4. ASSUME NEW m \in MessagesOf(E), m.type = "batch", m.events = accepted,
               q \o b.wire = Append(p, m), Len(accepted) > 0
        PROVE  \E g : /\ EventsFlow(h, q \o b.wire, n, g)
                      /\ Whole(b) => Behind(h, q \o b.wire, <<>>, n, g)
    <2>1. Behind(h, p, s, n, f)
      BY <1>1, <1>2, <1>4
    <2>2. /\ Len(m.events) \in Nat /\ Len(m.events) <= Len(s) /\ Len(s) \in Nat
          /\ \A i \in 1..Len(m.events) : m.events[i] = s[i]
          /\ p \in Seq(MessagesOf(E)) /\ m \in MessagesOf(E)
      BY <1>1, <1>4
    <2>3. PICK g : /\ EventsFlow(h, Append(p, m), n, g)
                   /\ Len(m.events) = Len(s) => Behind(h, Append(p, m), <<>>, n, g)
      BY <1>2, <1>4, <2>1, <2>2, EventsSend
    <2> QED
      BY <1>1, <1>4, <2>3
  <1>5. \A m \in MessagesOf(E) : m.type = "batch" /\ m.events = accepted => Len(accepted) > 0
    BY EmptySeq DEF MessagesOf
  <1> QED
    BY <1>1, <1>3, <1>4, <1>5

\* Emitting sends no jumps.
LEMMA EmitJumps ==
    ASSUME NEW E, NEW a \in Agents(E), NEW b, NEW s \in Seq(E), Emits(a, b, s),
           NEW q \in Seq(MessagesOf(E)), NEW h, NEW f,
           JumpsFlow(h, q \o a.wire, a.jumps, f), f[Len(q \o a.wire) + 1] = 0
    PROVE  \E g : /\ JumpsFlow(h, q \o b.wire, b.jumps, g)
                  /\ g[Len(q \o b.wire) + 1] = 0
  <1> DEFINE p == q \o a.wire
  <1>1. /\ p \in Seq(MessagesOf(E))
        /\ \/ b.wire = a.wire
           \/ \E m \in MessagesOf(E) : /\ m.type = "batch" /\ m.jumps = <<>>
                                       /\ q \o b.wire = Append(p, m)
    BY EmitSends
  <1>2. b.jumps = a.jumps
    BY DEF Emits
  <1> HIDE DEF p
  <1>3. JumpsFlow(h, p, b.jumps, f) /\ f[Len(p) + 1] = 0
    BY <1>2 DEF p
  <1>4. CASE b.wire = a.wire
    BY <1>3, <1>4 DEF p
  <1>5. ASSUME NEW m \in MessagesOf(E), m.type = "batch", m.jumps = <<>>,
               q \o b.wire = Append(p, m)
        PROVE  \E g : /\ JumpsFlow(h, q \o b.wire, b.jumps, g)
                      /\ g[Len(q \o b.wire) + 1] = 0
    <2>1. \E g : /\ JumpsFlow(h, Append(p, m), b.jumps, g)
                 /\ g[Len(Append(p, m)) + 1] = f[Len(p) + 1]
      BY <1>1, <1>3, <1>5, JumpsOther, SMTT(30)
    <2> QED
      BY <1>3, <1>5, <2>1
  <1> QED
    BY <1>1, <1>4, <1>5

\* What is emitted is counted.
LEMMA EmitSizes ==
    ASSUME NEW E, NEW a \in Agents(E), NEW b, NEW s \in Seq(E), Emits(a, b, s),
           NEW q \in Seq(MessagesOf(E)), NEW acc, NEW owed, NEW f,
           SizesFlow(acc, q \o a.wire, owed, f),
           f[Len(q \o a.wire) + 1] >= a.count - Len(a.jumps)
    PROVE  \E g : /\ SizesFlow(acc, q \o b.wire, owed, g)
                  /\ g[Len(q \o b.wire) + 1] >= b.count - Len(b.jumps)
  <1> DEFINE accepted == First(s, Cap - a.count)
             p == q \o a.wire
  <1>1. /\ p \in Seq(MessagesOf(E))
        /\ Len(accepted) \in Nat
        /\ b.count = a.count + Len(accepted)
        /\ \/ Len(accepted) = 0 /\ b.wire = a.wire
           \/ \E m \in MessagesOf(E) :
                 /\ m.type = "batch" /\ m.events = accepted /\ m.jumps = <<>> /\ m.lost = 0
                 /\ q \o b.wire = Append(p, m)
    BY EmitSends
  <1>2. b.jumps = a.jumps /\ a.count \in Nat /\ Len(a.jumps) \in Nat
    BY ConstantAssumption DEF Emits, Agents
  <1> HIDE DEF p, accepted
  <1>3. SizesFlow(acc, p, owed, f) /\ f[Len(p) + 1] >= a.count - Len(a.jumps)
    BY DEF p
  <1>4. f[Len(p) + 1] \in Int
    BY <1>1, <1>3 DEF SizesFlow
  <1>5. CASE Len(accepted) = 0 /\ b.wire = a.wire
    <2>1. f[Len(p) + 1] >= b.count - Len(b.jumps)
      BY <1>1, <1>2, <1>3, <1>5
    <2> QED
      BY <1>3, <1>5, <2>1 DEF p
  <1>6. ASSUME NEW m \in MessagesOf(E), m.type = "batch", m.events = accepted, m.jumps = <<>>,
               m.lost = 0, q \o b.wire = Append(p, m)
        PROVE  \E g : /\ SizesFlow(acc, q \o b.wire, owed, g)
                      /\ g[Len(q \o b.wire) + 1] >= b.count - Len(b.jumps)
    <2>1. Size(m) = Len(accepted)
      <3>1. Size(m) = Len(accepted) + Len(<<>>) + 0 /\ Len(<<>>) = 0
        BY <1>6 DEF Size
      <3> QED
        BY <1>1, <3>1
    <2>2. PICK g : /\ SizesFlow(acc, Append(p, m), owed, g)
                   /\ g[Len(Append(p, m)) + 1] = f[Len(p) + 1] + Size(m)
      <3>1. Size(m) \in Nat
        BY <1>1, <2>1
      <3> QED
        BY <1>1, <1>3, <1>6, <3>1, SizesSend
    <2>3. g[Len(Append(p, m)) + 1] >= b.count - Len(b.jumps)
      BY <1>1, <1>2, <1>3, <1>4, <2>1, <2>2, SMTT(30)
    <2> QED
      BY <1>6, <2>2, <2>3
  <1> QED
    BY <1>1, <1>5, <1>6

-----------------------------------------------------------------------------
(* Types of the state *)

\* What has happened is part of what will have happened, and so are the
\* messages about it.
LEMMA TypesGrow ==
    ASSUME NEW E, NEW F, E \subseteq F
    PROVE  /\ Seq(E) \subseteq Seq(F)
           /\ Seq(MessagesOf(E)) \subseteq Seq(MessagesOf(F))
           /\ Agents(E) \subseteq Agents(F)
           /\ Helpers(E) \subseteq Helpers(F)
  <1>1. Seq(E) \subseteq Seq(F)
    BY SeqMonotonic
  <1>2. Seq(MessagesOf(E)) \subseteq Seq(MessagesOf(F))
    BY MessagesGrow, SeqMonotonic
  <1> QED
    BY <1>1, <1>2 DEF Agents, Helpers

\* What the types say of the parts of the state.
LEMMA Parts ==
    ASSUME TypeOK
    PROVE  /\ Cap \in Nat
           /\ agent.count \in Nat /\ agent.count <= Cap /\ agent.lost \in Nat
           /\ agent.sink \in Seq(Happened) /\ Len(agent.sink) \in Nat
           /\ agent.jumps \in Seq(Nat) /\ Len(agent.jumps) \in Nat
           /\ agent.wire \in Seq(MessagesOf(Happened))
           /\ queue \in Seq(MessagesOf(Happened))
           /\ Stream \in Seq(MessagesOf(Happened)) /\ Len(Stream) \in Nat
           /\ \A k \in 1..Len(Stream) : Stream[k] \in MessagesOf(Happened)
           /\ seen.events \in Nat /\ seen.jumps \in Nat /\ seen.intrusions \in Nat
           /\ seen.errors \in Nat
           /\ dropped \in Nat /\ helper.lost \in Nat /\ helper.errors \in Nat
           /\ helper.events \in Seq(Happened) /\ Len(helper.events) \in Nat
           /\ helper.jumps \in Seq(Nat) /\ Len(helper.jumps) \in Nat
           /\ helper.done \in BOOLEAN
           /\ Accounted \in Nat
  <1>1. /\ Cap \in Nat
        /\ agent.count \in Nat /\ agent.count <= Cap /\ agent.lost \in Nat
        /\ agent.sink \in Seq(Happened)
        /\ agent.jumps \in Seq(Nat)
        /\ agent.wire \in Seq(MessagesOf(Happened))
    BY ConstantAssumption DEF TypeOK, Agents
  <1>2. /\ seen.events \in Nat /\ seen.jumps \in Nat /\ seen.intrusions \in Nat
        /\ seen.errors \in Nat /\ dropped \in Nat
        /\ queue \in Seq(MessagesOf(Happened))
    BY DEF TypeOK
  <1>3. /\ helper.lost \in Nat /\ helper.errors \in Nat
        /\ helper.events \in Seq(Happened)
        /\ helper.jumps \in Seq(Nat)
        /\ helper.done \in BOOLEAN
    BY DEF TypeOK, Helpers
  <1>4. /\ Len(agent.sink) \in Nat /\ Len(agent.jumps) \in Nat
        /\ Len(helper.events) \in Nat /\ Len(helper.jumps) \in Nat
    BY <1>1, <1>3
  <1>5. Stream \in Seq(MessagesOf(Happened))
    BY <1>1, <1>2, ConcatProperties DEF Stream
  <1>6. Len(Stream) \in Nat /\ \A k \in 1..Len(Stream) : Stream[k] \in MessagesOf(Happened)
    BY <1>5
  <1>7. Accounted \in Nat
    <2>1. /\ helper.lost \in Nat /\ dropped \in Nat
          /\ Len(helper.events) \in Nat /\ Len(helper.jumps) \in Nat
      BY <1>2, <1>3, <1>4
    <2> DEFINE x == Len(helper.events)
               y == Len(helper.jumps)
    <2>2. x \in Nat /\ y \in Nat
      BY <2>1
    <2>3. Accounted = x + y + helper.lost + dropped
      BY DEF Accounted
    <2> HIDE DEF x, y
    <2> QED
      BY <2>1, <2>2, <2>3
  <1> QED
    BY <1>1, <1>2, <1>3, <1>4, <1>5, <1>6, <1>7

\* What is owed is a number.
LEMMA OwedNumber ==
    ASSUME TypeOK, JumpsInv
    PROVE  IsFiniteSet(seen.left) /\ Cardinality(seen.left) \in Nat /\ Owed \in Int
  <1>1. IsFiniteSet(1..seen.jumps)
    <2>1. 1 \in Int /\ seen.jumps \in Int
      BY Parts
    <2> QED
      BY <2>1, FS_Interval
  <1>2. IsFiniteSet(seen.left)
    BY <1>1, FS_Subset DEF JumpsInv
  <1>3. Cardinality(seen.left) \in Nat
    BY <1>2, FS_CardinalityType
  <1> QED
    BY <1>2, <1>3, Parts, SMTT(30) DEF Owed

\* The module base is the only message that waits in the beginning.
LEMMA InitInv == Init => IInv
  <1> SUFFICES ASSUME Init
               PROVE  IInv
    OBVIOUS
  <1> DEFINE m == Msg("meta", <<>>, <<>>, 0)
  <1>1. /\ Happened = EventsOf(0, FALSE)
        /\ agent.phase = "idle" /\ agent.count = 0 /\ agent.lost = 0 /\ agent.sink = <<>>
        /\ agent.jumps = <<>> /\ agent.wire = <<m>> /\ agent.pending = None
    BY DEF Init, Happened
  <1>2. m \in MessagesOf(Happened) /\ m.events = <<>> /\ m.jumps = <<>> /\ m.lost = 0
        /\ m.type = "meta"
    BY DEF Msg, MessagesOf, MessageTypes
  <1> HIDE DEF m
  <1>3. Stream = <<m>> /\ Len(Stream) = 1 /\ Stream[1] = m
    <2>1. <<m>> \in Seq(MessagesOf(Happened)) /\ <<>> \in Seq(MessagesOf(Happened))
      BY <1>2
    <2>2. Stream = <<>> \o <<m>>
      BY <1>1 DEF Init, Stream
    <2>3. <<>> \o <<m>> = <<m>>
      BY <2>1, ConcatEmptySeq
    <2> QED
      BY <2>2, <2>3
  <1>4. TypeOK
    <2>1. agent \in Agents(Happened)
      <3>1. /\ <<m>> \in Seq(MessagesOf(Happened)) /\ <<>> \in Seq(Happened)
            /\ <<>> \in Seq(Nat) /\ 0 \in 0..Cap
        BY <1>2, ConstantAssumption
      <3>2. agent = [phase |-> "idle", owner |-> None, pending |-> None, count |-> 0,
                     lost |-> 0, sink |-> <<>>, jumps |-> <<>>, wire |-> <<m>>]
        BY DEF Init, m
      <3> QED
        BY <3>1, <3>2 DEF Agents, Phases
    <2>2. helper \in Helpers(Happened)
      <3>1. <<>> \in Seq(Happened) /\ <<>> \in Seq(Nat)
        OBVIOUS
      <3> QED
        BY <3>1 DEF Init, Helpers, Pcs
    <2>3. Len(helper.events) + Len(helper.jumps) <= Cap
      BY ConstantAssumption DEF Init
    <2>4. queue \in Seq(MessagesOf(Happened))
      BY DEF Init
    <2> QED
      BY <2>1, <2>2, <2>3, <2>4 DEF Init, TypeOK
  <1>5. PhaseInv
    BY DEF Init, PhaseInv
  <1>6. JumpsInv
    <2>1. ToSet(<<>>) = {}
      BY DEF ToSet
    <2> QED
      BY <2>1 DEF Init, JumpsInv
  <1>7. Owed = 0 /\ Accounted = 0
    BY FS_EmptySet DEF Init, Owed, Accounted
  <1>8. BalanceInv
    BY <1>1, <1>7 DEF BalanceInv
  <1>9. EndInv
    BY <1>2, <1>3 DEF Init, EndInv
  <1> DEFINE f == [k \in 1..2 |-> 0]
  <1>10. f \in [1..(Len(Stream) + 1) -> Nat] /\ f[1] = 0 /\ f[2] = 0 /\ f[Len(Stream) + 1] = 0
    BY <1>3
  <1> HIDE DEF f
  <1>11. \A k \in 1..Len(Stream) : k = 1 /\ f[k + 1] = f[2] /\ Stream[k] = m
    BY <1>3
  <1>12. EventsInv
    <2>1. helper.events = <<>> /\ helper.errors = 0 /\ ~helper.done /\ seen.events = 0
      BY DEF Init
    <2>2. EventsFlow(helper, Stream, seen.events, f)
      BY <1>2, <1>10, <1>11, <2>1 DEF EventsFlow
    <2>3. Behind(helper, Stream, agent.sink, seen.events, f)
      BY <1>1, <1>10, <2>1 DEF Behind
    <2> QED
      BY <2>1, <2>2, <2>3 DEF EventsInv
  <1>13. JumpFlowInv
    <2>1. helper.jumps = <<>> /\ agent.jumps = <<>> /\ ~helper.done
      BY DEF Init
    <2>2. \A k \in 1..(Len(Stream) + 1) : f[k] <= 0
      BY <1>3, <1>10
    <2>3. JumpsFlow(helper, Stream, agent.jumps, f)
      BY <1>2, <1>10, <1>11, <2>1, <2>2 DEF JumpsFlow
    <2> QED
      BY <1>10, <2>1, <2>3 DEF JumpFlowInv
  <1>14. SizesInv
    <2>1. Size(m) = 0
      BY <1>2 DEF Size
    <2>2. f \in [1..(Len(Stream) + 1) -> Int]
      BY <1>10
    <2>3. SizesFlow(Accounted, Stream, Owed, f)
      BY <1>2, <1>7, <1>10, <1>11, <2>1, <2>2 DEF SizesFlow
    <2>4. f[Len(Stream) + 1] >= agent.count - Len(agent.jumps)
      BY <1>1, <1>10
    <2> QED
      BY <2>3, <2>4 DEF Init, SizesInv
  <1>15. TraceInv
    BY DEF Init, TraceInv, TraceTyped, CompletedIsComplete, LossIsAccounted,
           NoGapWithoutLoss, EvidenceIsAccepted
  <1> QED
    BY <1>4, <1>5, <1>6, <1>8, <1>9, <1>12, <1>13, <1>14, <1>15 DEF IInv

-----------------------------------------------------------------------------
(* The steps of the agent before the run has finished *)

\* Before the run has finished there is no trace, and neither the end nor a
\* jump is in the stream.
LEMMA Running ==
    ASSUME IInv, ~detached, agent.phase # "finished"
    PROVE  /\ \A k \in 1..Len(Stream) :
                 /\ Stream[k].type \notin {"jump_batch", "done"}
                 /\ Stream[k].jumps = <<>>
           /\ ~helper.done /\ helper.jumps = <<>> /\ trace = None
           /\ Lossless =>
                 /\ \E f : /\ EventsFlow(helper, Stream, seen.events, f)
                           /\ Whole(agent) =>
                                 Behind(helper, Stream, agent.sink, seen.events, f)
                 /\ \E f : /\ JumpsFlow(helper, Stream, agent.jumps, f)
                           /\ f[Len(Stream) + 1] = 0
           /\ seen.errors = 0 =>
                 \E f : /\ SizesFlow(Accounted, Stream, Owed, f)
                        /\ f[Len(Stream) + 1] >= agent.count - Len(agent.jumps)
  <1>1. \A k \in 1..Len(Stream) : Stream[k].type \notin {"jump_batch", "done"}
    BY DEF IInv, EndInv
  <1>2. \A k \in 1..Len(Stream) : Stream[k].jumps = <<>>
    BY <1>1, Parts DEF IInv, MessagesOf
  <1>3. ~helper.done /\ helper.jumps = <<>> /\ trace = None
    BY DEF IInv, EndInv, TraceInv
  <1>4. Lossless =>
           \E f : /\ EventsFlow(helper, Stream, seen.events, f)
                  /\ Whole(agent) => Behind(helper, Stream, agent.sink, seen.events, f)
    BY DEF IInv, EventsInv
  <1>5. Lossless => \E f : /\ JumpsFlow(helper, Stream, agent.jumps, f)
                           /\ f[Len(Stream) + 1] = 0
    BY DEF IInv, JumpFlowInv
  <1>6. seen.errors = 0 =>
           \E f : /\ SizesFlow(Accounted, Stream, Owed, f)
                  /\ f[Len(Stream) + 1] >= agent.count - Len(agent.jumps)
    BY DEF IInv, SizesInv
  <1> QED
    BY <1>1, <1>2, <1>3, <1>4, <1>5, <1>6

\* A step of the agent that keeps the flows keeps what is known of the stream.
LEMMA RunningKeeps ==
    ASSUME IInv, ~detached, agent.phase # "finished", agent'.phase # "finished",
           UNCHANGED <<detached, host>>,
           Len(agent'.jumps) \in Nat,
           \A k \in 1..Len(queue \o agent'.wire) :
              (queue \o agent'.wire)[k].type \notin {"jump_batch", "done"},
           Lossless =>
              /\ \E f : /\ EventsFlow(helper, queue \o agent'.wire, seen'.events, f)
                        /\ Whole(agent') => Behind(helper, queue \o agent'.wire, agent'.sink,
                                                   seen'.events, f)
              /\ \E f : /\ JumpsFlow(helper, queue \o agent'.wire, agent'.jumps, f)
                        /\ f[Len(queue \o agent'.wire) + 1] = 0,
           seen'.errors = 0 =>
              \E f : /\ SizesFlow(Accounted, queue \o agent'.wire, Owed', f)
                     /\ f[Len(queue \o agent'.wire) + 1] >= agent'.count - Len(agent'.jumps)
    PROVE  EndInv' /\ EventsInv' /\ JumpFlowInv' /\ SizesInv' /\ TraceInv'
  <1>1. /\ Stream' = queue \o agent'.wire /\ helper' = helper /\ dropped' = dropped
        /\ trace' = trace /\ detached' = detached
    BY DEF Stream, host
  <1>2. Accounted' = Accounted /\ Lossless' = Lossless
    BY <1>1 DEF Accounted, Lossless
  <1>3. ~helper.done /\ helper.jumps = <<>> /\ trace = None
    BY Running
  <1>4. EndInv'
    BY <1>1, <1>3 DEF EndInv
  <1>5. EventsInv'
    <2>1. Lossless /\ helper.errors = 0 => \A i \in 1..Len(helper.events) : helper.events[i].n = i
      BY DEF IInv, EventsInv
    <2> QED
      BY <1>1, <1>2, <1>3, <2>1 DEF EventsInv
  <1>6. JumpFlowInv'
    <2>1. Len(helper.jumps) = 0
      BY <1>3
    <2> QED
      BY <1>1, <1>2, <1>3, <2>1 DEF JumpFlowInv
  <1>7. SizesInv'
    BY <1>1, <1>2, <1>3 DEF SizesInv
  <1>8. TraceInv'
    BY <1>1, <1>3 DEF TraceInv, TraceTyped, CompletedIsComplete, LossIsAccounted,
                      NoGapWithoutLoss, EvidenceIsAccepted
  <1> QED
    BY <1>4, <1>5, <1>6, <1>7, <1>8

\* Emitting brings no other kind of message than a batch.
LEMMA EmitKinds ==
    ASSUME NEW E, NEW a \in Agents(E), NEW b, NEW s \in Seq(E), Emits(a, b, s),
           NEW q \in Seq(MessagesOf(E)),
           \A k \in 1..Len(q \o a.wire) : (q \o a.wire)[k].type \notin {"jump_batch", "done"}
    PROVE  \A k \in 1..Len(q \o b.wire) : (q \o b.wire)[k].type \notin {"jump_batch", "done"}
  <1> DEFINE p == q \o a.wire
  <1>1. /\ p \in Seq(MessagesOf(E))
        /\ \/ b.wire = a.wire
           \/ \E m \in MessagesOf(E) : m.type = "batch" /\ q \o b.wire = Append(p, m)
    BY EmitSends, SMTT(30)
  <1> HIDE DEF p
  <1>2. \A k \in 1..Len(p) : p[k].type \notin {"jump_batch", "done"}
    BY DEF p
  <1>3. CASE b.wire = a.wire
    BY <1>3, <1>2 DEF p
  <1>4. ASSUME NEW m \in MessagesOf(E), m.type = "batch", q \o b.wire = Append(p, m)
        PROVE  \A k \in 1..Len(q \o b.wire) : (q \o b.wire)[k].type \notin {"jump_batch", "done"}
    <2>1. /\ Len(Append(p, m)) = Len(p) + 1 /\ Append(p, m)[Len(p) + 1] = m
          /\ \A k \in 1..Len(p) : Append(p, m)[k] = p[k]
      BY <1>1, <1>4, AppendProperties
    <2>2. \A k \in 1..(Len(p) + 1) : k \in 1..Len(p) \/ k = Len(p) + 1
      BY <1>1
    <2> QED
      BY <1>2, <1>4, <2>1, <2>2
  <1> QED
    BY <1>1, <1>3, <1>4

\* What is emitted is counted or lost.
LEMMA EmitCounts ==
    ASSUME NEW E, NEW a \in Agents(E), NEW b, NEW s \in Seq(E), Emits(a, b, s)
    PROVE  /\ b.count \in Nat /\ b.lost \in Nat /\ b.lost >= a.lost
           /\ b.count + b.lost = a.count + a.lost + Len(s)
  <1> DEFINE l == Len(First(s, Cap - a.count))
  <1>1. b.count = a.count + l /\ b.lost = a.lost + Len(s) - l
    BY DEF Emits
  <1>2. /\ Cap - a.count \in Nat /\ a.count \in Nat /\ a.lost \in Nat /\ Len(s) \in Nat
    BY ConstantAssumption DEF Agents
  <1>3. l \in Nat /\ l <= Len(s)
    <2>1. /\ First(s, Cap - a.count) \in Seq(E)
          /\ l = IF Cap - a.count < Len(s) THEN Cap - a.count ELSE Len(s)
      BY <1>2, FirstOf
    <2> QED
      BY <1>2, <2>1
  <1> HIDE DEF l
  <1> QED
    BY <1>1, <1>2, <1>3

\* The flow has an end.
LEMMA FlowEnds ==
    ASSUME NEW h, NEW p, NEW n, NEW f, Len(p) \in Nat, EventsFlow(h, p, n, f)
    PROVE  f[Len(p) + 1] \in Nat
  <1>1. Len(p) + 1 \in 1..(Len(p) + 1)
    OBVIOUS
  <1> QED
    BY <1>1 DEF EventsFlow

\* The first event is the entry; it is sent at once.
LEMMA EnterKeeps ==
    ASSUME IInv, NEW t \in Thread, Enter(t)
    PROVE  IInv'
  <1> DEFINE a == [agent EXCEPT !.phase = "running", !.owner = t]
             e == EventOf("entry")
             E == Happened'
  <1>1. /\ ~detached /\ agent.phase = "idle" /\ agent' = Emit(a, <<e>>)
        /\ seen' = [seen EXCEPT !.events = @ + 1] /\ UNCHANGED <<detached, host>>
    BY DEF Enter
  <1>2. TypeOK
    BY DEF IInv
  <1>3. seen.events = 0 /\ agent.sink = <<>> /\ agent.pending = None
    BY <1>1 DEF IInv, PhaseInv
  <1>4. /\ seen'.events = 1 /\ seen'.jumps = seen.jumps /\ seen'.left = seen.left
        /\ seen'.intrusions = seen.intrusions /\ seen'.errors = seen.errors
        /\ seen' \in [events : Nat, jumps : Nat, left : SUBSET Nat, intrusions : Nat, errors : Nat]
    BY <1>1, <1>2, <1>3 DEF TypeOK
  <1>5. /\ a.phase = "running" /\ a.count = agent.count /\ a.lost = agent.lost
        /\ a.sink = agent.sink /\ a.jumps = agent.jumps /\ a.wire = agent.wire
        /\ a.pending = agent.pending
    BY <1>2 DEF TypeOK, Agents
  <1>6. a \in Agents(Happened)
    BY <1>2 DEF TypeOK, Agents, Phases
  <1> HIDE DEF a
  <1>7. agent'.phase = "running"
    <2>1. Emit(a, <<e>>).phase = a.phase
      <3>1. <<e>> \in Seq({e}) 
        OBVIOUS
      <3> QED
        BY <1>6 DEF Emit, Agents
    <2> QED
      BY <1>1, <1>5, <2>1
  <1>8. E = EventsOf(1, FALSE) /\ Happened = EventsOf(0, FALSE) /\ Happened \subseteq E
    BY <1>1, <1>3, <1>4, <1>7 DEF Happened, EventsOf
  <1>9. e \in E /\ e.n = 0 + 1
    BY <1>3, <1>8 DEF EventOf, EventsOf
  <1> HIDE DEF e, E
  <1>10. /\ a \in Agents(E) /\ <<e>> \in Seq(E) /\ queue \in Seq(MessagesOf(E))
         /\ helper \in Helpers(E)
    <2>1. /\ Seq(MessagesOf(Happened)) \subseteq Seq(MessagesOf(E))
          /\ Agents(Happened) \subseteq Agents(E) /\ Helpers(Happened) \subseteq Helpers(E)
      BY <1>8, TypesGrow
    <2>2. <<e>> \in Seq(E)
      BY <1>9
    <2> QED
      BY <1>2, <1>6, <2>1, <2>2 DEF TypeOK
  <1>11. /\ agent' \in Agents(E) /\ Emits(a, agent', <<e>>)
         /\ agent'.pending = None /\ agent'.sink = <<>> /\ agent'.jumps = agent.jumps
    BY <1>1, <1>3, <1>5, <1>10, EmitFields, ZenonT(40) DEF Emits
  <1>12. TypeOK'
    BY <1>1, <1>2, <1>4, <1>10, <1>11 DEF TypeOK, host, E
  <1>13. /\ agent'.count \in Nat /\ agent'.lost \in Nat /\ agent.lost \in Nat
         /\ agent.count \in Nat /\ agent'.count + agent'.lost = agent.count + agent.lost + 1
         /\ agent'.lost >= agent.lost
    <2>1. /\ agent'.count \in Nat /\ agent'.lost \in Nat /\ agent'.lost >= a.lost
          /\ agent'.count + agent'.lost = a.count + a.lost + Len(<<e>>)
      BY <1>10, <1>11, EmitCounts
    <2>2. Len(<<e>>) = 1
      OBVIOUS
    <2>3. agent.lost \in Nat /\ agent.count \in Nat
      BY <1>2, Parts
    <2> QED
      BY <1>5, <2>1, <2>2, <2>3
  <1>14. PhaseInv'
    BY <1>4, <1>7 DEF PhaseInv
  <1>15. JumpsInv'
    BY <1>3, <1>4, <1>11, <1>13 DEF IInv, JumpsInv
  <1>16. Owed \in Int /\ Owed' = Owed + 1
    <2>1. Owed \in Int /\ Cardinality(seen.left) \in Nat
      BY <1>2, OwedNumber DEF IInv
    <2> QED
      BY <1>2, <1>3, <1>4, <2>1, Parts, SMTT(30) DEF Owed
  <1>17. BalanceInv'
    BY <1>3, <1>4, <1>11, <1>13, <1>16 DEF IInv, BalanceInv
  <1>18. /\ Len(agent'.jumps) \in Nat
         /\ \A k \in 1..Len(queue \o a.wire) :
               (queue \o a.wire)[k].type \notin {"jump_batch", "done"}
         /\ queue \o a.wire = Stream
    BY <1>1, <1>2, <1>5, <1>11, Running, Parts DEF Stream
  <1>19. \A k \in 1..Len(queue \o agent'.wire) :
            (queue \o agent'.wire)[k].type \notin {"jump_batch", "done"}
    BY <1>10, <1>11, <1>18, EmitKinds
  <1>20. ASSUME Lossless
         PROVE  \E f : /\ EventsFlow(helper, queue \o agent'.wire, seen'.events, f)
                       /\ Whole(agent') => Behind(helper, queue \o agent'.wire, agent'.sink,
                                                  seen'.events, f)
    <2>1. PICK f : /\ EventsFlow(helper, Stream, 0, f)
                   /\ Whole(agent) => Behind(helper, Stream, <<>>, 0, f)
      BY <1>1, <1>3, <1>20, Running
    <2>2. EventsFlow(helper, Stream, 1, f)
      BY <1>1, <2>1, EventsMore, Running
    <2>3. Whole(a) => Whole(agent)
      BY <1>5 DEF Whole
    <2>4. Whole(a) => Behind(helper, Stream, <<e>>, 1, f)
      <3>1. f[Len(Stream) + 1] \in Nat
        BY <1>2, <2>1, Parts, FlowEnds
      <3>2. <<>> \in Seq(E) /\ Append(<<>>, e) = <<e>> /\ 0 + 1 = 1 /\ 0 \in Nat
        BY <1>9
      <3>3. Behind(helper, Stream, <<>>, 0, f) => Behind(helper, Stream, Append(<<>>, e), 0 + 1, f)
        BY <1>9, <3>1, <3>2, EventsBuffer
      <3> QED
        BY <2>1, <2>3, <3>2, <3>3
    <2>5. \E g : /\ EventsFlow(helper, queue \o agent'.wire, 1, g)
                 /\ Whole(agent') => Behind(helper, queue \o agent'.wire, <<>>, 1, g)
      <3>1. /\ EventsFlow(helper, queue \o a.wire, 1, f)
            /\ Whole(a) => Behind(helper, queue \o a.wire, <<e>>, 1, f)
        BY <1>18, <2>2, <2>4
      <3>2. 1 \in Nat
        OBVIOUS
      <3> QED
        BY <1>10, <1>11, <3>1, <3>2, EmitEvents
    <2> QED
      BY <1>4, <1>11, <2>5
  <1>21. ASSUME Lossless
         PROVE  \E f : /\ JumpsFlow(helper, queue \o agent'.wire, agent'.jumps, f)
                       /\ f[Len(queue \o agent'.wire) + 1] = 0
    <2>1. PICK f : JumpsFlow(helper, Stream, agent.jumps, f) /\ f[Len(Stream) + 1] = 0
      BY <1>1, <1>21, Running
    <2>2. JumpsFlow(helper, queue \o a.wire, a.jumps, f) /\ f[Len(queue \o a.wire) + 1] = 0
      BY <1>5, <1>18, <2>1
    <2> QED
      BY <1>10, <1>11, <2>2, EmitJumps
  <1>22. ASSUME seen'.errors = 0
         PROVE  \E f : /\ SizesFlow(Accounted, queue \o agent'.wire, Owed', f)
                       /\ f[Len(queue \o agent'.wire) + 1] >= agent'.count - Len(agent'.jumps)
    <2>1. PICK f : /\ SizesFlow(Accounted, Stream, Owed, f)
                   /\ f[Len(Stream) + 1] >= agent.count - Len(agent.jumps)
      BY <1>1, <1>4, <1>22, Running
    <2>2. SizesFlow(Accounted, Stream, Owed', f)
      BY <1>1, <2>1, SizesOwed, Running
    <2>3. /\ SizesFlow(Accounted, queue \o a.wire, Owed', f)
          /\ f[Len(queue \o a.wire) + 1] >= a.count - Len(a.jumps)
      BY <1>5, <1>18, <2>1, <2>2
    <2> QED
      BY <1>10, <1>11, <2>3, EmitSizes
  <1>23. EndInv' /\ EventsInv' /\ JumpFlowInv' /\ SizesInv' /\ TraceInv'
    BY <1>1, <1>7, <1>18, <1>19, <1>20, <1>21, <1>22, RunningKeeps
  <1> QED
    BY <1>12, <1>14, <1>15, <1>17, <1>23 DEF IInv

\* A step that sends nothing keeps the flows, when what was behind the stream
\* still is.
LEMMA SilentKeeps ==
    ASSUME IInv, ~detached, agent.phase # "finished", agent'.phase # "finished",
           UNCHANGED <<detached, host>>,
           agent'.wire = agent.wire,
           seen'.errors = seen.errors,
           Len(agent'.jumps) \in Nat, Len(agent.jumps) <= Len(agent'.jumps),
           agent'.count - Len(agent'.jumps) = agent.count - Len(agent.jumps),
           Whole(agent') => Whole(agent),
           \A f : /\ f[Len(Stream) + 1] \in Nat
                  /\ Behind(helper, Stream, agent.sink, seen.events, f)
                  => Behind(helper, Stream, agent'.sink, seen'.events, f)
    PROVE  EndInv' /\ EventsInv' /\ JumpFlowInv' /\ SizesInv' /\ TraceInv'
  <1>1. /\ queue \o agent'.wire = Stream
        /\ Stream \in Seq(MessagesOf(Happened)) /\ Len(Stream) \in Nat
        /\ Len(agent.jumps) \in Nat
    BY Parts DEF IInv, Stream
  <1>2. \A k \in 1..Len(Stream) : /\ Stream[k].type \notin {"jump_batch", "done"}
                                  /\ Stream[k].jumps = <<>>
    BY Running
  <1>3. ASSUME Lossless
        PROVE  \E f : /\ EventsFlow(helper, Stream, seen'.events, f)
                      /\ Whole(agent') => Behind(helper, Stream, agent'.sink, seen'.events, f)
    <2>1. PICK f : /\ EventsFlow(helper, Stream, seen.events, f)
                   /\ Whole(agent) => Behind(helper, Stream, agent.sink, seen.events, f)
      BY <1>3, Running
    <2>2. EventsFlow(helper, Stream, seen'.events, f)
      BY <1>2, <2>1, EventsMore
    <2>3. f[Len(Stream) + 1] \in Nat
      BY <1>1, <2>1, FlowEnds
    <2> QED
      BY <2>1, <2>2, <2>3
  <1>4. ASSUME Lossless
        PROVE  \E f : JumpsFlow(helper, Stream, agent'.jumps, f) /\ f[Len(Stream) + 1] = 0
    <2>1. PICK f : JumpsFlow(helper, Stream, agent.jumps, f) /\ f[Len(Stream) + 1] = 0
      BY <1>4, Running
    <2>2. JumpsFlow(helper, Stream, agent'.jumps, f)
      BY <1>1, <1>2, <2>1, JumpsMore
    <2> QED
      BY <2>1, <2>2
  <1>5. ASSUME seen'.errors = 0
        PROVE  \E f : /\ SizesFlow(Accounted, Stream, Owed', f)
                      /\ f[Len(Stream) + 1] >= agent'.count - Len(agent'.jumps)
    <2>1. PICK f : /\ SizesFlow(Accounted, Stream, Owed, f)
                   /\ f[Len(Stream) + 1] >= agent.count - Len(agent.jumps)
      BY <1>5, Running
    <2>2. SizesFlow(Accounted, Stream, Owed', f)
      BY <1>2, <2>1, SizesOwed
    <2> QED
      BY <2>1, <2>2
  <1> QED
    BY <1>1, <1>2, <1>3, <1>4, <1>5, RunningKeeps

\* Another thread disturbs the run: what it did is lost.
LEMMA IntrudeKeeps ==
    ASSUME IInv, NEW t \in Thread, Intrude(t)
    PROVE  IInv'
  <1>1. /\ ~detached /\ agent.phase = "running" /\ agent' = Lose(agent, 1)
        /\ seen' = [seen EXCEPT !.intrusions = @ + 1] /\ UNCHANGED <<detached, host>>
    BY DEF Intrude
  <1>2. TypeOK
    BY DEF IInv
  <1>3. /\ seen'.events = seen.events /\ seen'.jumps = seen.jumps /\ seen'.left = seen.left
        /\ seen'.intrusions = seen.intrusions + 1 /\ seen'.errors = seen.errors
        /\ seen' \in [events : Nat, jumps : Nat, left : SUBSET Nat, intrusions : Nat, errors : Nat]
    BY <1>1, <1>2 DEF TypeOK
  <1>4. /\ agent'.phase = "running" /\ agent'.pending = agent.pending
        /\ agent'.count = agent.count /\ agent'.lost = agent.lost + 1
        /\ agent'.sink = agent.sink /\ agent'.jumps = agent.jumps /\ agent'.wire = agent.wire
        /\ agent' \in Agents(Happened)
    <2>1. agent \in Agents(Happened) /\ 1 \in Nat
      BY <1>2 DEF TypeOK
    <2> QED
      BY <1>1, <2>1, LoseFields
  <1>5. Happened' = Happened
    BY <1>1, <1>3, <1>4 DEF Happened
  <1>6. TypeOK'
    BY <1>1, <1>2, <1>3, <1>4, <1>5 DEF TypeOK, host
  <1>7. PhaseInv'
    BY <1>1, <1>3, <1>4 DEF IInv, PhaseInv
  <1>8. JumpsInv'
    <2>1. agent'.lost # 0
      BY <1>2, <1>4, Parts, SMTT(30)
    <2> QED
      BY <1>3, <1>4, <2>1 DEF IInv, JumpsInv
  <1>9. Owed \in Int /\ Owed' = Owed + 1
    <2>1. Owed \in Int /\ Cardinality(seen.left) \in Nat
      BY <1>2, OwedNumber DEF IInv
    <2> DEFINE c == Cardinality(seen.left)
    <2>2. /\ seen.events \in Nat /\ seen.jumps \in Nat /\ seen.intrusions \in Nat
          /\ c \in Nat
      BY <1>2, <2>1, Parts
    <2>3. /\ Owed = seen.events + seen.jumps - c + seen.intrusions
          /\ Owed' = seen.events + seen.jumps - c + (seen.intrusions + 1)
      BY <1>3 DEF Owed
    <2> HIDE DEF c
    <2> QED
      BY <2>2, <2>3
  <1>10. BalanceInv'
    <2> DEFINE l == Len(agent.sink)
               c == IF agent.pending = None THEN 0 ELSE 1
    <2>1. agent.count \in Nat /\ agent.lost \in Nat /\ l \in Nat /\ c \in Nat
      BY <1>2, Parts
    <2>2. seen.errors = 0 => agent.count + agent.lost + l + c = Owed
      BY DEF IInv, BalanceInv
    <2>3. /\ Len(agent'.sink) = l
          /\ (IF agent'.pending = None THEN 0 ELSE 1) = c
      BY <1>4
    <2> HIDE DEF l, c
    <2>4. seen.errors = 0 => agent'.count + agent'.lost + l + c = Owed'
      BY <1>4, <1>9, <2>1, <2>2
    <2> QED
      BY <1>3, <2>3, <2>4 DEF BalanceInv
  <1>11. EndInv' /\ EventsInv' /\ JumpFlowInv' /\ SizesInv' /\ TraceInv'
    <2>1. Whole(agent') => Whole(agent)
      BY <1>2, <1>4, Parts DEF Whole
    <2>2. Len(agent'.jumps) \in Nat /\ Len(agent.jumps) <= Len(agent'.jumps)
      BY <1>2, <1>4, Parts
    <2> QED
      BY <1>1, <1>3, <1>4, <2>1, <2>2, SilentKeeps
  <1> QED
    BY <1>6, <1>7, <1>8, <1>10, <1>11 DEF IInv

\* A computed jump is pending, unless its bytes are unreadable; one that was
\* pending before is lost.
LEMMA JumpSourceKeeps ==
    ASSUME IInv, JumpSource
    PROVE  IInv'
  <1> DEFINE j == seen.jumps + 1
             a == IF agent.pending # None THEN Lose(agent, 1) ELSE agent
             gone == IF agent.pending # None THEN 1 ELSE 0
  <1>1. /\ ~detached /\ agent.phase = "running"
        /\ seen' = [seen EXCEPT !.jumps = @ + 1] /\ UNCHANGED <<detached, host>>
        /\ \/ agent' = [a EXCEPT !.pending = j]
           \/ agent' = [Lose(a, 1) EXCEPT !.pending = None]
    BY DEF JumpSource
  <1>2. TypeOK
    BY DEF IInv
  <1>3. /\ seen'.events = seen.events /\ seen'.jumps = j /\ seen'.left = seen.left
        /\ seen'.intrusions = seen.intrusions /\ seen'.errors = seen.errors
        /\ seen' \in [events : Nat, jumps : Nat, left : SUBSET Nat, intrusions : Nat, errors : Nat]
    BY <1>1, <1>2 DEF TypeOK
  <1>4. j \in Nat /\ j # None /\ None \notin Nat
    <2>1. j \in Nat
      BY <1>2, Parts, SMTT(30)
    <2>2. None \notin Nat
      BY ConstantAssumption
    <2> QED
      BY <2>1, <2>2
  <1>5. gone \in Nat /\ agent.lost \in Nat /\ agent.count \in Nat /\ Len(agent.sink) \in Nat
        /\ seen.jumps \in Nat
    BY <1>2, Parts
  <1>6. /\ a \in Agents(Happened) /\ a.phase = "running" /\ a.count = agent.count
        /\ a.lost = agent.lost + gone
        /\ a.sink = agent.sink /\ a.jumps = agent.jumps /\ a.wire = agent.wire
    <2>1. agent \in Agents(Happened) /\ 1 \in Nat
      BY <1>2 DEF TypeOK
    <2>2. CASE agent.pending # None
      BY <1>1, <2>1, <2>2, LoseFields
    <2>3. CASE agent.pending = None
      BY <1>1, <1>5, <2>1, <2>3
    <2> QED
      BY <2>2, <2>3
  <1> HIDE DEF a, gone, j
  <1>7. /\ agent'.phase = "running" /\ agent'.count = agent.count
        /\ agent'.sink = agent.sink /\ agent'.jumps = agent.jumps /\ agent'.wire = agent.wire
        /\ agent' \in Agents(Happened)
        /\ \/ agent'.pending = j /\ agent'.lost = agent.lost + gone
           \/ agent'.pending = None /\ agent'.lost = agent.lost + gone + 1
    <2>1. CASE agent' = [a EXCEPT !.pending = j]
      BY <1>4, <1>6, <2>1 DEF Agents
    <2>2. CASE agent' = [Lose(a, 1) EXCEPT !.pending = None]
      <3> DEFINE b == Lose(a, 1)
      <3>1. /\ b \in Agents(Happened) /\ b.phase = "running" /\ b.count = agent.count
            /\ b.lost = agent.lost + gone + 1
            /\ b.sink = agent.sink /\ b.jumps = agent.jumps /\ b.wire = agent.wire
        BY <1>6, LoseFields
      <3> HIDE DEF b
      <3> QED
        BY <2>2, <3>1 DEF Agents, b
    <2> QED
      BY <1>1, <2>1, <2>2
  <1>8. Happened' = Happened
    BY <1>1, <1>3, <1>7 DEF Happened
  <1>9. TypeOK'
    BY <1>1, <1>2, <1>3, <1>7, <1>8 DEF TypeOK, host
  <1>10. PhaseInv'
    BY <1>1, <1>3, <1>7 DEF IInv, PhaseInv
  <1>11. JumpsInv'
    <2>1. /\ seen.left \subseteq 1..seen.jumps
          /\ ToSet(agent.jumps) \subseteq (1..seen.jumps) \ seen.left
      BY DEF IInv, JumpsInv
    <2>2. 1..seen.jumps \subseteq 1..j /\ j \in 1..j /\ j \notin 1..seen.jumps
      BY <1>5 DEF j
    <2>3. agent'.pending # None =>
             agent'.pending \in (1..j) \ (seen.left \cup ToSet(agent.jumps))
      BY <1>7, <2>1, <2>2
    <2>4. agent'.lost = 0 => (1..j) \ seen.left \subseteq ToSet(agent.jumps) \cup {agent'.pending}
      <3> SUFFICES ASSUME agent'.lost = 0, NEW i \in (1..j) \ seen.left, i # j
                   PROVE  i \in ToSet(agent.jumps)
        BY <1>5, <1>7
      <3>1. agent.lost = 0 /\ gone = 0
        BY <1>5, <1>7
      <3>2. agent.pending = None
        BY <3>1 DEF gone
      <3>3. i \in (1..seen.jumps) \ seen.left /\ i # None
        BY <1>4, <1>5 DEF j
      <3> QED
        BY <3>1, <3>2, <3>3 DEF IInv, JumpsInv
    <2> QED
      BY <1>3, <1>7, <2>1, <2>2, <2>3, <2>4 DEF JumpsInv
  <1>12. Owed \in Int /\ Owed' = Owed + 1
    <2>1. Owed \in Int /\ Cardinality(seen.left) \in Nat
      BY <1>2, OwedNumber DEF IInv
    <2> DEFINE c == Cardinality(seen.left)
    <2>2. /\ seen.events \in Nat /\ seen.jumps \in Nat /\ seen.intrusions \in Nat
          /\ c \in Nat
      BY <1>2, <2>1, Parts
    <2>3. /\ Owed = seen.events + seen.jumps - c + seen.intrusions
          /\ Owed' = seen.events + (seen.jumps + 1) - c + seen.intrusions
      BY <1>3 DEF Owed, j
    <2> HIDE DEF c
    <2> QED
      BY <2>2, <2>3
  <1>13. BalanceInv'
    <2>1. seen.errors = 0 => agent.count + agent.lost + Len(agent.sink) + gone = Owed
      BY DEF IInv, BalanceInv, gone
    <2>2. \/ agent'.pending # None /\ agent'.lost = agent.lost + gone
          \/ agent'.pending = None /\ agent'.lost = agent.lost + gone + 1
      BY <1>4, <1>7
    <2> DEFINE l == Len(agent.sink)
               c == IF agent'.pending = None THEN 0 ELSE 1
    <2>3. agent'.count = agent.count /\ Len(agent'.sink) = l /\ l \in Nat
      BY <1>5, <1>7
    <2>4. agent'.lost + c = agent.lost + gone + 1 /\ agent'.lost \in Nat /\ c \in Nat
      BY <1>5, <2>2
    <2>5. seen.errors = 0 => agent.count + agent.lost + l + gone = Owed
      BY <2>1
    <2> HIDE DEF l, c
    <2>6. seen.errors = 0 => agent'.count + agent'.lost + l + c = Owed'
      BY <1>5, <1>12, <2>3, <2>4, <2>5, SMTT(30)
    <2> QED
      BY <1>3, <2>3, <2>6 DEF BalanceInv, c
  <1>14. EndInv' /\ EventsInv' /\ JumpFlowInv' /\ SizesInv' /\ TraceInv'
    <2>1. Whole(agent') => Whole(agent)
      BY <1>5, <1>7 DEF Whole
    <2>2. Len(agent'.jumps) \in Nat /\ Len(agent.jumps) <= Len(agent'.jumps)
      BY <1>2, <1>7, Parts
    <2> QED
      BY <1>1, <1>3, <1>7, <2>1, <2>2, SilentKeeps
  <1> QED
    BY <1>9, <1>10, <1>11, <1>13, <1>14 DEF IInv

\* The elements of a longer sequence.
LEMMA ToSetAppend ==
    ASSUME NEW S, NEW s \in Seq(S), NEW e \in S
    PROVE  ToSet(Append(s, e)) = ToSet(s) \cup {e}
  <1> DEFINE t == Append(s, e)
  <1>1. /\ Len(t) = Len(s) + 1 /\ t[Len(s) + 1] = e /\ \A i \in 1..Len(s) : t[i] = s[i]
        /\ t \in Seq(S) /\ Len(s) \in Nat
    BY AppendProperties
  <1> HIDE DEF t
  <1>2. DOMAIN t = 1..(Len(s) + 1) /\ DOMAIN s = 1..Len(s)
    BY <1>1
  <1>3. \A i \in 1..(Len(s) + 1) : i \in 1..Len(s) \/ i = Len(s) + 1
    BY <1>1
  <1>4. 1..Len(s) \subseteq 1..(Len(s) + 1) /\ Len(s) + 1 \in 1..(Len(s) + 1)
    BY <1>1
  <1>5. \A x : x \in ToSet(t) <=> x \in ToSet(s) \cup {e}
    BY <1>1, <1>2, <1>3, <1>4 DEF ToSet
  <1> QED
    BY <1>5 DEF t

\* A block is buffered; a pending jump is recorded, has left, or is lost.
LEMMA BlockKeeps ==
    ASSUME IInv, Block
    PROVE  IInv'
  <1> DEFINE e == EventOf("block")
             jump == agent.pending
             a == [agent EXCEPT !.pending = None, !.sink = Append(@, e)]
             E == Happened'
  <1>1. ~detached /\ agent.phase = "running" /\ UNCHANGED <<detached, host>>
    BY DEF Block
  <1>2. TypeOK
    BY DEF IInv
  <1>3. /\ agent.count \in Nat /\ agent.lost \in Nat /\ Len(agent.sink) \in Nat
        /\ agent.jumps \in Seq(Nat) /\ Len(agent.jumps) \in Nat
        /\ seen.jumps \in Nat /\ seen.events \in Nat /\ seen.intrusions \in Nat
        /\ agent.count <= Cap /\ Cap \in Nat
    BY <1>2, Parts
  <1>4. None \notin Nat /\ jump \in Nat \cup {None}
    BY <1>2, ConstantAssumption DEF TypeOK, Agents
  <1>5. \/ /\ jump = None /\ agent' = a
           /\ seen' = [seen EXCEPT !.events = @ + 1]
        \/ /\ jump # None /\ agent.count < Cap
           /\ agent' = [a EXCEPT !.jumps = Append(@, jump), !.count = @ + 1]
           /\ seen' = [seen EXCEPT !.events = @ + 1]
        \/ /\ jump # None /\ agent' = Lose(a, 1)
           /\ seen' = [seen EXCEPT !.events = @ + 1]
        \/ /\ jump # None /\ agent' = a
           /\ seen' = [seen EXCEPT !.events = @ + 1, !.left = @ \cup {jump}]
    BY DEF Block
  <1>6. /\ seen'.events = seen.events + 1 /\ seen'.jumps = seen.jumps
        /\ seen'.intrusions = seen.intrusions /\ seen'.errors = seen.errors
        /\ seen' \in [events : Nat, jumps : Nat, left : SUBSET Nat, intrusions : Nat, errors : Nat]
    <2>1. jump # None => jump \in Nat
      BY <1>4
    <2> HIDE DEF a, e, jump
    <2>2. \/ seen' = [seen EXCEPT !.events = @ + 1]
          \/ jump \in Nat /\ seen' = [seen EXCEPT !.events = @ + 1, !.left = @ \cup {jump}]
      BY <1>5, <2>1
    <2>3. seen \in [events : Nat, jumps : Nat, left : SUBSET Nat, intrusions : Nat, errors : Nat]
      BY <1>2 DEF TypeOK
    <2>4. CASE seen' = [seen EXCEPT !.events = @ + 1]
      BY <2>3, <2>4
    <2>5. CASE /\ jump \in Nat
               /\ seen' = [seen EXCEPT !.events = @ + 1, !.left = @ \cup {jump}]
      <3>1. seen.left \cup {jump} \in SUBSET Nat
        BY <2>3, <2>5
      <3> DEFINE left == seen.left \cup {jump}
      <3>2. seen' = [seen EXCEPT !.events = @ + 1, !.left = left] /\ left \in SUBSET Nat
        BY <2>5, <3>1
      <3>3. seen.events + 1 \in Nat
        BY <1>3
      <3> HIDE DEF left
      <3>4. /\ seen'.events = seen.events + 1 /\ seen'.jumps = seen.jumps
            /\ seen'.intrusions = seen.intrusions /\ seen'.errors = seen.errors
        BY <2>3, <3>2
      <3>5. seen' \in [events : Nat, jumps : Nat, left : SUBSET Nat, intrusions : Nat,
                       errors : Nat]
        BY <2>3, <3>2, <3>3
      <3> QED
        BY <3>4, <3>5
    <2> QED
      BY <2>2, <2>4, <2>5
  <1>7. seen.events # 0
    BY <1>1 DEF IInv, PhaseInv
  <1>8. Happened = EventsOf(seen.events, FALSE)
    BY <1>1 DEF Happened
  <1>9. EventsOf(seen.events, FALSE) \subseteq EventsOf(seen.events + 1, FALSE)
    BY <1>3, EventsGrow
  <1> DEFINE G == EventsOf(seen.events + 1, FALSE)
  <1>10. e \in G /\ e.n = seen.events + 1
    BY <1>3, <1>7 DEF EventOf, EventsOf
  <1> HIDE DEF e, G
  <1>11. /\ Seq(MessagesOf(Happened)) \subseteq Seq(MessagesOf(G))
         /\ Agents(Happened) \subseteq Agents(G) /\ Helpers(Happened) \subseteq Helpers(G)
    <2>1. Happened \subseteq G
      BY <1>8, <1>9 DEF G
    <2> QED
      BY <2>1, TypesGrow
  <1>12. /\ a \in Agents(G) /\ a.phase = "running" /\ a.count = agent.count
         /\ a.lost = agent.lost /\ a.jumps = agent.jumps /\ a.wire = agent.wire
         /\ a.sink = Append(agent.sink, e) /\ a.pending = None
    <2>1. agent \in Agents(G)
      BY <1>2, <1>11 DEF TypeOK
    <2>2. agent.sink \in Seq(G)
      BY <2>1 DEF Agents
    <2>3. Append(agent.sink, e) \in Seq(G)
      BY <1>10, <2>2
    <2> QED
      BY <1>1, <2>1, <2>3 DEF Agents
  <1> HIDE DEF a
  <1>13. /\ agent' \in Agents(G) /\ agent'.phase = "running" /\ agent'.wire = agent.wire
         /\ agent'.sink = Append(agent.sink, e) /\ agent'.pending = None
         /\ \/ /\ jump = None
               /\ agent'.count = agent.count /\ agent'.lost = agent.lost
               /\ agent'.jumps = agent.jumps /\ seen'.left = seen.left
            \/ /\ jump # None
               /\ agent'.count = agent.count + 1 /\ agent'.lost = agent.lost
               /\ agent'.jumps = Append(agent.jumps, jump) /\ seen'.left = seen.left
            \/ /\ jump # None
               /\ agent'.count = agent.count /\ agent'.lost = agent.lost + 1
               /\ agent'.jumps = agent.jumps /\ seen'.left = seen.left
            \/ /\ jump # None
               /\ agent'.count = agent.count /\ agent'.lost = agent.lost
               /\ agent'.jumps = agent.jumps /\ seen'.left = seen.left \cup {jump}
    <2>1. CASE jump = None
      BY <1>2, <1>5, <1>12, <2>1 DEF TypeOK
    <2>2. CASE /\ jump # None /\ agent.count < Cap
               /\ agent' = [a EXCEPT !.jumps = Append(@, jump), !.count = @ + 1]
               /\ seen' = [seen EXCEPT !.events = @ + 1]
      <3>1. Append(agent.jumps, jump) \in Seq(Nat) /\ agent.count + 1 \in 0..Cap
        BY <1>3, <1>4, <2>2
      <3>2. agent' = [a EXCEPT !.jumps = Append(agent.jumps, jump), !.count = agent.count + 1]
        BY <1>12, <2>2
      <3> HIDE DEF jump
      <3>3. /\ agent' \in Agents(G) /\ agent'.phase = "running" /\ agent'.wire = agent.wire
            /\ agent'.sink = Append(agent.sink, e) /\ agent'.pending = None
            /\ agent'.count = agent.count + 1 /\ agent'.lost = agent.lost
            /\ agent'.jumps = Append(agent.jumps, jump)
        BY <1>12, <3>1, <3>2 DEF Agents
      <3>4. seen'.left = seen.left
        BY <1>2, <2>2 DEF TypeOK
      <3> QED
        BY <2>2, <3>3, <3>4
    <2>3. CASE /\ jump # None /\ agent' = Lose(a, 1)
               /\ seen' = [seen EXCEPT !.events = @ + 1]
      <3>1. seen'.left = seen.left
        BY <1>2, <2>3 DEF TypeOK
      <3> QED
        BY <1>12, <2>3, <3>1, LoseFields
    <2>4. CASE /\ jump # None /\ agent' = a
               /\ seen' = [seen EXCEPT !.events = @ + 1, !.left = @ \cup {jump}]
      <3>1. seen'.left = seen.left \cup {jump}
        BY <1>2, <2>4 DEF TypeOK
      <3> QED
        BY <1>12, <2>4, <3>1
    <2> QED
      BY <1>5, <2>1, <2>2, <2>3, <2>4
  <1>14. Happened' = G
    BY <1>6, <1>13 DEF Happened, G
  <1>15. TypeOK'
    BY <1>1, <1>2, <1>6, <1>11, <1>13, <1>14 DEF TypeOK, host
  <1>16. PhaseInv'
    BY <1>3, <1>6, <1>13 DEF PhaseInv
  <1>17. /\ seen.left \subseteq 1..seen.jumps
         /\ ToSet(agent.jumps) \subseteq (1..seen.jumps) \ seen.left
         /\ jump # None => jump \in (1..seen.jumps) \ (seen.left \cup ToSet(agent.jumps))
         /\ agent.lost = 0 => (1..seen.jumps) \ seen.left \subseteq ToSet(agent.jumps) \cup {jump}
    BY DEF IInv, JumpsInv
  <1>18. jump # None => ToSet(Append(agent.jumps, jump)) = ToSet(agent.jumps) \cup {jump}
    BY <1>3, <1>4, ToSetAppend
  <1> HIDE DEF jump
  <1>19. JumpsInv'
    <2>1. agent.lost + 1 # 0
      BY <1>3
    <2>2. \A i \in 1..seen.jumps : i # None
      BY <1>3, <1>4
    <2> QED
      BY <1>6, <1>13, <1>17, <1>18, <2>1, <2>2 DEF JumpsInv
  <1> DEFINE c == Cardinality(seen.left)
             d == Cardinality(seen'.left)
  <1>20. /\ c \in Nat /\ Owed \in Int
         /\ seen'.left = seen.left => d = c
         /\ seen'.left = seen.left \cup {jump} /\ jump # None => d = c + 1
    <2>1. IsFiniteSet(seen.left) /\ c \in Nat /\ Owed \in Int
      BY <1>2, OwedNumber DEF IInv
    <2>2. jump # None => Cardinality(seen.left \cup {jump}) = c + 1
      BY <1>17, <2>1, FS_AddElement
    <2> QED
      BY <2>1, <2>2
  <1>21. /\ Owed = seen.events + seen.jumps - c + seen.intrusions
         /\ Owed' = (seen.events + 1) + seen.jumps - d + seen.intrusions
    BY <1>6 DEF Owed
  <1> HIDE DEF c, d
  <1>22. BalanceInv'
    <2> DEFINE l == Len(agent.sink)
    <2>1. seen.errors = 0 =>
             agent.count + agent.lost + l + (IF jump = None THEN 0 ELSE 1) = Owed
      BY DEF IInv, BalanceInv, jump
    <2>2. Len(agent'.sink) = l + 1 /\ l \in Nat
      <3>1. agent.sink \in Seq(Happened)
        BY <1>2, Parts
      <3> QED
        BY <1>3, <1>13, <3>1
    <2> HIDE DEF l
    <2>3. seen.errors = 0 => agent'.count + agent'.lost + (l + 1) + 0 = Owed'
      <3> SUFFICES ASSUME seen.errors = 0
                   PROVE  agent'.count + agent'.lost + (l + 1) + 0 = Owed'
        OBVIOUS
      <3> DEFINE q == IF jump = None THEN 0 ELSE 1
                 x == agent.count + agent.lost
                 y == agent'.count + agent'.lost
      <3>1. jump # None => jump \notin seen.left
        BY <1>17
      <3>2. x \in Int /\ q \in Int
        BY <1>3
      <3>3. \/ jump = None /\ seen'.left = seen.left /\ y = x
            \/ jump # None /\ seen'.left = seen.left /\ y = x + 1
            \/ jump # None /\ seen'.left = seen.left \cup {jump} /\ y = x
        <4> DEFINE k == agent.count
                   n == agent.lost
                   u == agent'.count
                   v == agent'.lost
        <4>1. \/ jump = None /\ seen'.left = seen.left /\ u = k /\ v = n
              \/ jump # None /\ seen'.left = seen.left /\ u = k + 1 /\ v = n
              \/ jump # None /\ seen'.left = seen.left /\ u = k /\ v = n + 1
              \/ jump # None /\ seen'.left = seen.left \cup {jump} /\ u = k /\ v = n
          BY <1>13
        <4>2. k \in Nat /\ n \in Nat /\ x = k + n /\ y = u + v
          BY <1>3
        <4> HIDE DEF k, n, u, v, x, y
        <4>3. (k + 1) + n = x + 1 /\ k + (n + 1) = x + 1
          BY <4>2
        <4> QED
          BY <4>1, <4>2, <4>3
      <3> HIDE DEF x, y
      <3>4. y = x + q + c - d /\ d \in Int /\ y \in Int
        BY <1>20, <3>2, <3>3
      <3>5. x + l + q = seen.events + seen.jumps - c + seen.intrusions
        BY <1>21, <2>1 DEF x
      <3> HIDE DEF q
      <3> DEFINE o == seen.events + seen.jumps + seen.intrusions
      <3>6. l \in Int /\ c \in Int /\ o \in Int
        BY <1>3, <1>20, <2>2
      <3>7. x + l + q = o - c
        BY <1>3, <3>5, <3>6, SMTT(30)
      <3>8. Owed' = o + 1 - d
        <4>1. ASSUME NEW n \in Nat, NEW j \in Nat, NEW i \in Nat
              PROVE  (n + 1) + j - d + i = (n + j + i) + 1 - d
          BY <3>4
        <4> QED
          BY <1>3, <1>21, <4>1, SMTT(30)
      <3> HIDE DEF o
      <3>9. y + (l + 1) + 0 = o + 1 - d
        BY <3>2, <3>4, <3>6, <3>7
      <3> QED
        BY <3>8, <3>9 DEF y
    <2> QED
      BY <1>6, <1>13, <2>2, <2>3 DEF BalanceInv
  <1>23. EndInv' /\ EventsInv' /\ JumpFlowInv' /\ SizesInv' /\ TraceInv'
    <2>1. Whole(agent') => Whole(agent)
      BY <1>3, <1>13 DEF Whole
    <2>2. /\ Len(agent'.jumps) \in Nat /\ Len(agent.jumps) <= Len(agent'.jumps)
          /\ agent'.count - Len(agent'.jumps) = agent.count - Len(agent.jumps)
      <3> DEFINE l == Len(agent.jumps)
      <3>1. Len(Append(agent.jumps, jump)) = l + 1
        BY <1>3
      <3>2. \/ Len(agent'.jumps) = l /\ agent'.count = agent.count
            \/ Len(agent'.jumps) = l + 1 /\ agent'.count = agent.count + 1
        BY <1>13, <3>1
      <3>3. l \in Nat /\ agent.count \in Nat
        BY <1>3
      <3> HIDE DEF l
      <3>4. /\ Len(agent'.jumps) \in Nat /\ l <= Len(agent'.jumps)
            /\ agent'.count - Len(agent'.jumps) = agent.count - l
        BY <3>2, <3>3
      <3> QED
        BY <3>4 DEF l
    <2>3. ASSUME NEW f, f[Len(Stream) + 1] \in Nat,
                 Behind(helper, Stream, agent.sink, seen.events, f)
          PROVE  Behind(helper, Stream, agent'.sink, seen'.events, f)
      <3>1. agent.sink \in Seq(G)
        BY <1>2, <1>11 DEF TypeOK, Agents
      <3>2. Behind(helper, Stream, Append(agent.sink, e), seen.events + 1, f)
        BY <1>3, <1>10, <2>3, <3>1, EventsBuffer
      <3> QED
        BY <1>6, <1>13, <3>2
    <2> QED
      BY <1>1, <1>6, <1>13, <2>1, <2>2, <2>3, SilentKeeps
  <1> QED
    BY <1>15, <1>16, <1>19, <1>22, <1>23 DEF IInv

\* What Stalker has buffered is sent.
LEMMA ReceiveKeeps ==
    ASSUME IInv, Receive
    PROVE  IInv'
  <1> DEFINE E == Happened
  <1>1. /\ ~detached /\ agent.sink # <<>> /\ agent' = Flush(agent)
        /\ seen' = seen /\ UNCHANGED <<detached, host>>
    BY DEF Receive
  <1>2. TypeOK /\ agent \in Agents(E) /\ agent.sink \in Seq(E)
        /\ queue \in Seq(MessagesOf(E))
    BY Parts DEF IInv, TypeOK
  <1>3. agent.phase = "running"
    BY <1>1 DEF IInv, PhaseInv
  <1> HIDE DEF E
  <1>4. /\ agent' \in Agents(E) /\ Emits(agent, agent', agent.sink)
        /\ agent'.phase = "running" /\ agent'.pending = agent.pending
        /\ agent'.sink = <<>> /\ agent'.jumps = agent.jumps
    BY <1>1, <1>2, <1>3, FlushFields DEF Emits
  <1>5. Happened' = E
    BY <1>1, <1>3, <1>4 DEF Happened, E
  <1>6. TypeOK'
    BY <1>1, <1>2, <1>4, <1>5 DEF TypeOK, host, E
  <1>7. PhaseInv'
    BY <1>1, <1>3, <1>4 DEF IInv, PhaseInv
  <1>8. /\ agent'.count \in Nat /\ agent'.lost \in Nat /\ agent'.lost >= agent.lost
        /\ agent'.count + agent'.lost = agent.count + agent.lost + Len(agent.sink)
    BY <1>2, <1>4, EmitCounts
  <1>9. JumpsInv'
    <2>1. agent'.lost = 0 => agent.lost = 0
      BY <1>2, <1>8, Parts, SMTT(30)
    <2> QED
      BY <1>1, <1>4, <2>1 DEF IInv, JumpsInv
  <1>10. Owed \in Int /\ Owed' = Owed
    BY <1>1, <1>2, OwedNumber DEF IInv, Owed
  <1>11. BalanceInv'
    <2> DEFINE l == Len(agent.sink)
               c == IF agent.pending = None THEN 0 ELSE 1
    <2>1. agent.count \in Nat /\ agent.lost \in Nat /\ l \in Nat /\ c \in Nat
      BY <1>2, Parts
    <2>2. seen.errors = 0 => agent.count + agent.lost + l + c = Owed
      BY DEF IInv, BalanceInv
    <2>3. /\ Len(agent'.sink) = 0 /\ (IF agent'.pending = None THEN 0 ELSE 1) = c
          /\ agent'.count + agent'.lost = agent.count + agent.lost + l
      BY <1>4, <1>8
    <2> HIDE DEF l, c
    <2>4. seen.errors = 0 => agent'.count + agent'.lost + 0 + c = Owed'
      BY <1>8, <1>10, <2>1, <2>2, <2>3
    <2> QED
      BY <1>1, <2>3, <2>4 DEF BalanceInv
  <1>12. queue \o agent.wire = Stream /\ Len(agent'.jumps) \in Nat
    BY <1>2, <1>4, Parts DEF Stream
  <1>13. \A k \in 1..Len(queue \o agent'.wire) :
            (queue \o agent'.wire)[k].type \notin {"jump_batch", "done"}
    <2>1. \A k \in 1..Len(queue \o agent.wire) :
             (queue \o agent.wire)[k].type \notin {"jump_batch", "done"}
      BY <1>1, <1>3, <1>12, Running
    <2> QED
      BY <1>2, <1>4, <2>1, EmitKinds
  <1>14. ASSUME Lossless
         PROVE  \E f : /\ EventsFlow(helper, queue \o agent'.wire, seen'.events, f)
                       /\ Whole(agent') => Behind(helper, queue \o agent'.wire, agent'.sink,
                                                  seen'.events, f)
    <2>1. PICK f : /\ EventsFlow(helper, queue \o agent.wire, seen.events, f)
                   /\ Whole(agent) => Behind(helper, queue \o agent.wire, agent.sink,
                                             seen.events, f)
      BY <1>1, <1>3, <1>12, <1>14, Running
    <2>2. seen.events \in Nat
      BY <1>2, Parts
    <2>3. \E g : /\ EventsFlow(helper, queue \o agent'.wire, seen.events, g)
                 /\ Whole(agent') => Behind(helper, queue \o agent'.wire, <<>>, seen.events, g)
      BY <1>2, <1>4, <2>1, <2>2, EmitEvents
    <2> QED
      BY <1>1, <1>4, <2>3
  <1>15. ASSUME Lossless
         PROVE  \E f : /\ JumpsFlow(helper, queue \o agent'.wire, agent'.jumps, f)
                       /\ f[Len(queue \o agent'.wire) + 1] = 0
    <2>1. PICK f : /\ JumpsFlow(helper, queue \o agent.wire, agent.jumps, f)
                   /\ f[Len(queue \o agent.wire) + 1] = 0
      BY <1>1, <1>3, <1>12, <1>15, Running
    <2> QED
      BY <1>2, <1>4, <2>1, EmitJumps
  <1>16. ASSUME seen'.errors = 0
         PROVE  \E f : /\ SizesFlow(Accounted, queue \o agent'.wire, Owed', f)
                       /\ f[Len(queue \o agent'.wire) + 1] >= agent'.count - Len(agent'.jumps)
    <2>1. PICK f : /\ SizesFlow(Accounted, queue \o agent.wire, Owed', f)
                   /\ f[Len(queue \o agent.wire) + 1] >= agent.count - Len(agent.jumps)
      BY <1>1, <1>3, <1>10, <1>12, <1>16, Running
    <2> QED
      BY <1>2, <1>4, <2>1, EmitSizes
  <1>17. EndInv' /\ EventsInv' /\ JumpFlowInv' /\ SizesInv' /\ TraceInv'
    BY <1>1, <1>3, <1>4, <1>12, <1>13, <1>14, <1>15, <1>16, RunningKeeps
  <1> QED
    BY <1>6, <1>7, <1>9, <1>11, <1>17 DEF IInv

-----------------------------------------------------------------------------
(* The end of the run *)

\* The messages of the computed jumps hold no events.
LEMMA EventsSendJumps ==
    ASSUME NEW E, NEW h, NEW p \in Seq(MessagesOf(E)), NEW jumps \in Seq(Nat), NEW n, NEW f,
           EventsFlow(h, p, n, f)
    PROVE  \E g : LET q == p \o JumpMessages(jumps)
                  IN /\ EventsFlow(h, q, n, g)
                     /\ Behind(h, p, <<>>, n, f) => Behind(h, q, <<>>, n, g)
  <1> DEFINE r == JumpMessages(jumps)
             q == p \o r
             l == Len(p)
             c == f[l + 1]
             g == [k \in 1..(Len(q) + 1) |-> IF k <= l THEN f[k] ELSE c]
  <1>1. r \in Seq(MessagesOf(E))
    BY JumpBatches
  <1>2. \A k \in 1..Len(r) : r[k].type = "jump_batch" /\ r[k].events = <<>>
    BY JumpBatches
  <1> HIDE DEF r
  <1>3. /\ l \in Nat /\ Len(r) \in Nat /\ Len(q) = l + Len(r)
        /\ \A i \in 1..Len(q) : q[i] = IF i <= l THEN p[i] ELSE r[i - l]
    BY <1>1, ConcatProperties
  <1> HIDE DEF q
  <1>4. f \in [1..(l + 1) -> Nat] /\ f[1] = Len(h.events) /\ c \in Nat
    BY <1>3 DEF EventsFlow
  <1>5. /\ g \in [1..(Len(q) + 1) -> Nat]
        /\ \A k \in 1..(l + 1) : g[k] = f[k]
        /\ \A k \in (l + 1)..(Len(q) + 1) : g[k] = c
    BY <1>3, <1>4
  <1> HIDE DEF g
  <1>6. g[1] = Len(h.events)
    BY <1>3, <1>4, <1>5
  <1>7. ASSUME NEW k \in 1..(l + 1), Clean(h, q, k)
        PROVE  Clean(h, p, k)
    <2>1. \A j \in 1..(k - 1) : j \in 1..Len(q) /\ q[j] = p[j]
      BY <1>3
    <2> QED
      BY <1>7, <2>1 DEF Clean
  <1>8. ASSUME NEW k \in 1..Len(q)
        PROVE  /\ g[k + 1] = g[k] + Len(q[k].events)
               /\ Clean(h, q, k) =>
                     /\ \A i \in 1..Len(q[k].events) : q[k].events[i].n = g[k] + i
                     /\ q[k].type = "done" /\ q[k].lost = 0 => g[k] = n
    <2>1. CASE k \in 1..l
      <3>1. k \in 1..(l + 1) /\ k + 1 \in 1..(l + 1) /\ q[k] = p[k]
        BY <2>1, <1>3
      <3>2. g[k] = f[k] /\ g[k + 1] = f[k + 1]
        BY <3>1, <1>5
      <3> QED
        BY <2>1, <3>1, <3>2, <1>7 DEF EventsFlow
    <2>2. CASE k \notin 1..l
      <3>1. /\ k - l \in 1..Len(r) /\ q[k] = r[k - l]
            /\ k \in (l + 1)..(Len(q) + 1) /\ k + 1 \in (l + 1)..(Len(q) + 1)
        <4>1. k \in Nat /\ k >= 1 /\ k <= l + Len(r) /\ ~(k <= l)
          BY <2>2, <1>3
        <4>2. q[k] = r[k - l]
          BY <2>2, <1>3
        <4> HIDE DEF l
        <4> QED
          BY <4>1, <4>2, <1>3
      <3>2. g[k] = c /\ g[k + 1] = c
        BY <1>5, <3>1
      <3>3. q[k].type = "jump_batch" /\ q[k].events = <<>>
        BY <1>2, <3>1
      <3>4. Len(q[k].events) = 0
        BY <3>3
      <3> HIDE DEF c
      <3> QED
        BY <1>4, <3>2, <3>3, <3>4
    <2> QED
      BY <2>1, <2>2
  <1>9. ASSUME Behind(h, p, <<>>, n, f), Clean(h, q, Len(q) + 1)
        PROVE  g[Len(q) + 1] + Len(<<>>) = n
    <2>1. Clean(h, p, l + 1)
      <3>1. \A j \in 1..l : j \in 1..Len(q) /\ q[j] = p[j]
        BY <1>3
      <3> QED
        BY <1>3, <1>9, <3>1 DEF Clean
    <2>2. Len(q) + 1 \in (l + 1)..(Len(q) + 1)
      BY <1>3
    <2>3. g[Len(q) + 1] = c
      BY <1>5, <2>2
    <2> QED
      BY <1>9, <2>1, <2>3 DEF Behind
  <1>10. EventsFlow(h, q, n, g)
    BY <1>5, <1>6, <1>8 DEF EventsFlow
  <1>11. Behind(h, p, <<>>, n, f) => Behind(h, q, <<>>, n, g)
    BY <1>9 DEF Behind
  <1> QED
    BY <1>10, <1>11 DEF q, r

\* At the end of the run the agent sends all it has: what is buffered, the exit,
\* the computed jumps, and the end itself with what was lost.
LEMMA LeaveKeeps ==
    ASSUME IInv, Leave
    PROVE  IInv'
  <1> DEFINE e == EventOf("exit")
             flushed == Flush(agent)
             settled == IF flushed.pending = None THEN flushed
                        ELSE [Lose(flushed, 1) EXCEPT !.pending = None]
             left == Emit(settled, <<e>>)
             jumps == agent.jumps
             r == JumpMessages(jumps)
             done == Msg("done", <<>>, <<>>, left.lost)
             p2 == queue \o left.wire
             p3 == p2 \o r
             G == EventsOf(seen.events + 1, TRUE)
             M == MessagesOf(G)
             n == seen.events + 1
             pend == IF agent.pending = None THEN 0 ELSE 1
  <1>1. /\ ~detached /\ agent.phase = "running"
        /\ agent' = [left EXCEPT !.phase = "finished",
                       !.wire = @ \o JumpMessages(left.jumps) \o <<done>>]
        /\ seen' = [seen EXCEPT !.events = @ + 1] /\ UNCHANGED <<detached, host>>
    BY DEF Leave
  <1>2. TypeOK
    BY DEF IInv
  <1>3. /\ agent.count \in Nat /\ agent.lost \in Nat /\ Len(agent.sink) \in Nat
        /\ jumps \in Seq(Nat) /\ Len(jumps) \in Nat
        /\ seen.jumps \in Nat /\ seen.events \in Nat /\ seen.intrusions \in Nat
        /\ n \in Nat
    BY <1>2, Parts, SMTT(30)
  <1>4. None \notin Nat
    BY ConstantAssumption
  <1>5. /\ seen'.events = n /\ seen'.jumps = seen.jumps /\ seen'.left = seen.left
        /\ seen'.intrusions = seen.intrusions /\ seen'.errors = seen.errors
        /\ seen' \in [events : Nat, jumps : Nat, left : SUBSET Nat, intrusions : Nat, errors : Nat]
    BY <1>1, <1>2 DEF TypeOK
  <1>6. seen.events # 0
    BY <1>1 DEF IInv, PhaseInv
  <1>7. Happened \subseteq G
    <2>1. Happened = EventsOf(seen.events, FALSE)
      BY <1>1 DEF Happened
    <2>2. EventsOf(seen.events, FALSE) \subseteq EventsOf(seen.events + 1, TRUE)
      BY <1>3, EventsGrow
    <2> QED
      BY <2>1, <2>2
  <1>8. e \in G /\ e.n = seen.events + 1
    BY <1>3, <1>6 DEF EventOf, EventsOf
  <1> HIDE DEF e, G
  <1>9. /\ agent \in Agents(G) /\ queue \in Seq(M) /\ helper \in Helpers(G)
        /\ agent.sink \in Seq(G) /\ <<e>> \in Seq(G)
    <2>1. /\ Seq(MessagesOf(Happened)) \subseteq Seq(M) /\ Seq(Happened) \subseteq Seq(G)
          /\ Agents(Happened) \subseteq Agents(G) /\ Helpers(Happened) \subseteq Helpers(G)
      BY <1>7, TypesGrow
    <2>2. <<e>> \in Seq(G)
      BY <1>8
    <2> QED
      BY <1>2, <2>1, <2>2, Parts DEF TypeOK
  <1>10. /\ flushed \in Agents(G) /\ Emits(agent, flushed, agent.sink)
         /\ flushed.phase = "running" /\ flushed.pending = agent.pending
         /\ flushed.sink = <<>> /\ flushed.jumps = jumps
    BY <1>1, <1>9, FlushFields DEF Emits
  <1> HIDE DEF flushed
  <1>11. /\ flushed.count \in Nat /\ flushed.lost \in Nat /\ flushed.lost >= agent.lost
         /\ flushed.count + flushed.lost = agent.count + agent.lost + Len(agent.sink)
    BY <1>9, <1>10, EmitCounts
  <1>12. /\ settled \in Agents(G) /\ settled.pending = None /\ settled.sink = <<>>
         /\ settled.phase = "running"
         /\ settled.jumps = jumps /\ settled.wire = flushed.wire
         /\ settled.count = flushed.count /\ settled.lost = flushed.lost + pend
    <2>1. CASE agent.pending = None
      BY <1>10, <1>11, <2>1
    <2>2. CASE agent.pending # None
      <3> DEFINE b == Lose(flushed, 1)
      <3>1. /\ b \in Agents(G) /\ b.phase = "running" /\ b.count = flushed.count
            /\ b.lost = flushed.lost + 1
            /\ b.sink = <<>> /\ b.jumps = jumps /\ b.wire = flushed.wire
        BY <1>10, LoseFields
      <3>2. settled = [b EXCEPT !.pending = None]
        BY <1>10, <2>2
      <3> HIDE DEF b, settled
      <3> QED
        BY <2>2, <3>1, <3>2 DEF Agents
    <2> QED
      BY <2>1, <2>2
  <1> HIDE DEF settled
  <1>13. /\ left \in Agents(G) /\ Emits(settled, left, <<e>>)
         /\ left.pending = None /\ left.sink = <<>> /\ left.jumps = jumps
    BY <1>9, <1>12, EmitFields, ZenonT(40) DEF Emits
  <1> HIDE DEF left
  <1>14. pend \in Nat /\ (pend = 0 <=> agent.pending = None)
    OBVIOUS
  <1>15. /\ left.count \in Nat /\ left.lost \in Nat /\ left.lost >= agent.lost + pend
         /\ left.count + left.lost = agent.count + agent.lost + Len(agent.sink) + pend + 1
    <2>1. /\ left.count \in Nat /\ left.lost \in Nat /\ left.lost >= settled.lost
          /\ left.count + left.lost = settled.count + settled.lost + Len(<<e>>)
      BY <1>9, <1>12, <1>13, EmitCounts
    <2>2. Len(<<e>>) = 1
      OBVIOUS
    <2> DEFINE l == Len(agent.sink)
    <2>3. /\ left.count + left.lost = flushed.count + (flushed.lost + pend) + 1
          /\ left.lost >= flushed.lost + pend
          /\ flushed.count + flushed.lost = agent.count + agent.lost + l
          /\ flushed.lost >= agent.lost
          /\ l \in Nat
      BY <1>3, <1>11, <1>12, <2>1, <2>2
    <2> DEFINE k == flushed.count
               o == flushed.lost
    <2>4. k \in Nat /\ o \in Nat /\ agent.lost \in Nat /\ agent.count \in Nat /\ pend \in Nat
      BY <1>3, <1>11, <1>14
    <2>5. /\ left.count + left.lost = k + (o + pend) + 1
          /\ left.lost >= o + pend
          /\ k + o = agent.count + agent.lost + l
          /\ o >= agent.lost
      BY <2>3
    <2> HIDE DEF l, pend, k, o
    <2>6. left.lost >= agent.lost + pend
      BY <2>1, <2>4, <2>5
    <2>7. left.count + left.lost = agent.count + agent.lost + l + pend + 1
      BY <2>1, <2>3, <2>4, <2>5
    <2> QED
      BY <2>1, <2>6, <2>7 DEF l
  <1> HIDE DEF pend
  <1>16. /\ done \in M /\ done.type = "done" /\ done.events = <<>> /\ done.jumps = <<>>
         /\ done.lost = left.lost
    BY <1>15 DEF Msg, MessagesOf, MessageTypes
  <1>17. r \in Seq(M) /\ \A k \in 1..Len(r) : r[k].type = "jump_batch"
    BY <1>3, JumpBatches
  <1> HIDE DEF done, r
  <1>18. agent' = [left EXCEPT !.phase = "finished", !.wire = left.wire \o r \o <<done>>]
    BY <1>1, <1>13 DEF r
  <1>19. /\ left.wire \in Seq(M) /\ <<done>> \in Seq(M) /\ left.wire \o r \in Seq(M)
         /\ left.wire \o r \o <<done>> \in Seq(M)
    <2>1. left.wire \in Seq(M) /\ <<done>> \in Seq(M)
      BY <1>13, <1>16 DEF Agents
    <2>2. left.wire \o r \in Seq(M)
      BY <1>17, <2>1, ConcatProperties
    <2>3. left.wire \o r \o <<done>> \in Seq(M)
      BY <2>1, <2>2, ConcatProperties
    <2> QED
      BY <2>1, <2>2, <2>3
  <1>20. /\ agent' \in Agents(G) /\ agent'.phase = "finished" /\ agent'.pending = None
         /\ agent'.sink = <<>> /\ agent'.jumps = jumps
         /\ agent'.count = left.count /\ agent'.lost = left.lost
         /\ agent'.wire = left.wire \o r \o <<done>>
    <2> DEFINE w == left.wire \o r \o <<done>>
    <2>1. w \in Seq(M) /\ agent' = [left EXCEPT !.phase = "finished", !.wire = w]
      BY <1>18, <1>19
    <2> HIDE DEF w, M
    <2>2. /\ agent'.phase = "finished" /\ agent'.pending = None
          /\ agent'.sink = <<>> /\ agent'.jumps = jumps
          /\ agent'.count = left.count /\ agent'.lost = left.lost
          /\ agent'.wire = w
      BY <1>13, <2>1 DEF Agents
    <2>3. agent' \in Agents(G)
      BY <1>13, <2>1 DEF Agents, Phases, M
    <2> QED
      BY <2>2, <2>3 DEF w
  <1>21. Happened' = G
    BY <1>5, <1>20 DEF Happened, G
  <1>22. TypeOK'
    BY <1>1, <1>2, <1>5, <1>9, <1>20, <1>21 DEF TypeOK, host
  <1>23. PhaseInv'
    BY <1>3, <1>5, <1>20 DEF PhaseInv
  <1>24. JumpsInv'
    <2>1. agent'.lost = 0 => agent.lost = 0 /\ agent.pending = None
      BY <1>3, <1>14, <1>15, <1>20
    <2> QED
      BY <1>5, <1>20, <2>1 DEF IInv, JumpsInv
  <1>25. Owed \in Int /\ Owed' = Owed + 1
    <2> DEFINE c == Cardinality(seen.left)
    <2>1. c \in Nat /\ Owed \in Int
      BY <1>2, OwedNumber DEF IInv
    <2>2. /\ Owed = seen.events + seen.jumps - c + seen.intrusions
          /\ Owed' = (seen.events + 1) + seen.jumps - c + seen.intrusions
      BY <1>5 DEF Owed
    <2> HIDE DEF c
    <2> QED
      BY <1>3, <2>1, <2>2, SMTT(30)
  <1>26. seen.errors = 0 => left.count + left.lost = Owed'
    <2> DEFINE l == Len(agent.sink)
    <2>1. seen.errors = 0 => agent.count + agent.lost + l + pend = Owed
      BY DEF IInv, BalanceInv, pend
    <2>2. left.count + left.lost = agent.count + agent.lost + l + pend + 1 /\ l \in Nat
      BY <1>3, <1>15
    <2> HIDE DEF l
    <2> QED
      BY <1>3, <1>14, <1>25, <2>1, <2>2
  <1>27. BalanceInv'
    <2>1. Len(agent'.sink) = 0
      BY <1>20
    <2>2. left.count + left.lost + 0 + 0 = left.count + left.lost
      BY <1>15
    <2> QED
      BY <1>5, <1>20, <1>26, <2>1, <2>2 DEF BalanceInv
  <1>28. /\ p2 \in Seq(M) /\ p3 \in Seq(M)
         /\ Stream' = Append(p3, done)
    <2>1. p2 \in Seq(M)
      BY <1>9, <1>19, ConcatProperties
    <2>2. p3 \in Seq(M)
      BY <1>17, <2>1, ConcatProperties
    <2>3. Stream' = queue \o (left.wire \o r \o <<done>>)
      BY <1>1, <1>20 DEF Stream, host
    <2>4. queue \o ((left.wire \o r) \o <<done>>) = (queue \o (left.wire \o r)) \o <<done>>
      <3> DEFINE w == left.wire \o r
                 d == <<done>>
      <3>1. queue \in Seq(M) /\ w \in Seq(M) /\ d \in Seq(M)
        BY <1>9, <1>19
      <3> HIDE DEF M, w, d
      <3>2. (queue \o w) \o d = queue \o (w \o d)
        BY <3>1, ConcatAssociative
      <3> QED
        BY <3>2 DEF w, d
    <2>5. queue \o (left.wire \o r) = p3
      <3> DEFINE w == left.wire
      <3>1. queue \in Seq(M) /\ w \in Seq(M) /\ r \in Seq(M)
        BY <1>9, <1>17, <1>19
      <3> HIDE DEF M, w
      <3>2. (queue \o w) \o r = queue \o (w \o r)
        BY <3>1, ConcatAssociative
      <3> QED
        BY <3>2 DEF w
    <2>6. p3 \o <<done>> = Append(p3, done)
      BY <1>16, <2>2, AppendIsConcat
    <2> HIDE DEF p3
    <2> QED
      BY <2>1, <2>2, <2>3, <2>4, <2>5, <2>6
  <1>29. queue \o agent.wire = Stream
    BY DEF Stream
  <1>30. \A k \in 1..Len(queue \o agent.wire) :
            (queue \o agent.wire)[k].type \notin {"jump_batch", "done"}
    BY <1>1, <1>29, Running
  <1>31. \A k \in 1..Len(queue \o settled.wire) :
            (queue \o settled.wire)[k].type \notin {"jump_batch", "done"}
    <2>1. \A k \in 1..Len(queue \o flushed.wire) :
             (queue \o flushed.wire)[k].type \notin {"jump_batch", "done"}
      BY <1>9, <1>10, <1>30, EmitKinds
    <2> QED
      BY <1>12, <2>1
  <1>32. \A k \in 1..Len(p2) : p2[k].type \notin {"jump_batch", "done"}
    BY <1>9, <1>12, <1>13, <1>31, EmitKinds
  <1> HIDE DEF p2
  <1>33. \A k \in 1..Len(p3) : p3[k].type # "done"
    <2>1. /\ Len(p2) \in Nat /\ Len(r) \in Nat /\ Len(p3) = Len(p2) + Len(r)
          /\ \A i \in 1..Len(p3) : p3[i] = IF i <= Len(p2) THEN p2[i] ELSE r[i - Len(p2)]
      BY <1>17, <1>28, ConcatProperties
    <2> HIDE DEF p3
    <2> SUFFICES ASSUME NEW k \in 1..Len(p3)
                 PROVE  p3[k].type # "done"
      OBVIOUS
    <2>2. CASE k <= Len(p2)
      BY <1>32, <2>1, <2>2
    <2>3. CASE ~(k <= Len(p2))
      <3>1. k - Len(p2) \in 1..Len(r) /\ p3[k] = r[k - Len(p2)]
        BY <2>1, <2>3
      <3> QED
        BY <1>17, <3>1
    <2> QED
      BY <2>2, <2>3
  <1> HIDE DEF p3
  <1>34. ~helper.done /\ helper.jumps = <<>> /\ trace = None
    BY <1>1, Running
  <1>35. /\ helper' = helper /\ dropped' = dropped /\ trace' = trace /\ queue' = queue
         /\ Accounted' = Accounted /\ (Lossless' <=> Lossless)
    BY <1>1 DEF host, Accounted, Lossless
  <1>36. EndInv'
    <2>1. /\ Len(Stream') = Len(p3) + 1 /\ Stream'[Len(p3) + 1] = done /\ Len(p3) \in Nat
          /\ \A k \in 1..Len(p3) : Stream'[k] = p3[k]
      BY <1>16, <1>28, AppendProperties
    <2>2. \A k \in 1..(Len(p3) + 1) : k \in 1..Len(p3) \/ k = Len(p3) + 1
      BY <2>1
    <2>3. ASSUME NEW k \in 1..Len(Stream'), Stream'[k].type = "done"
          PROVE  /\ Stream'[k].lost = agent'.lost
                 /\ \A j \in (k + 1)..Len(Stream') : Stream'[j].type = "error"
      <3>1. k = Len(p3) + 1
        BY <1>33, <2>1, <2>2, <2>3
      <3>2. (k + 1)..Len(Stream') = {}
        BY <2>1, <3>1
      <3> QED
        BY <1>16, <1>20, <2>1, <3>1, <3>2
    <2> QED
      BY <1>20, <1>34, <1>35, <2>3 DEF EndInv
  <1>37. EventsInv'
    <2> SUFFICES ASSUME Lossless
                 PROVE  \E f : /\ EventsFlow(helper, Append(p3, done), n, f)
                               /\ Whole(left) => Behind(helper, Append(p3, done), <<>>, n, f)
      <3>1. Lossless /\ helper.errors = 0 => \A i \in 1..Len(helper.events) : helper.events[i].n = i
        BY DEF IInv, EventsInv
      <3>2. Whole(agent') = Whole(left)
        BY <1>20 DEF Whole
      <3> QED
        BY <1>5, <1>20, <1>28, <1>34, <1>35, <3>1, <3>2 DEF EventsInv
    <2>1. PICK f : /\ EventsFlow(helper, queue \o agent.wire, seen.events, f)
                   /\ Whole(agent) => Behind(helper, queue \o agent.wire, agent.sink,
                                             seen.events, f)
      BY <1>1, <1>29, Running
    <2>2. PICK g : /\ EventsFlow(helper, queue \o flushed.wire, seen.events, g)
                   /\ Whole(flushed) => Behind(helper, queue \o flushed.wire, <<>>,
                                               seen.events, g)
      BY <1>3, <1>9, <1>10, <2>1, EmitEvents, ZenonT(40)
    <2>3. Whole(settled) => Whole(flushed)
      BY <1>11, <1>12, <1>14 DEF Whole
    <2>4. /\ EventsFlow(helper, queue \o settled.wire, n, g)
          /\ Whole(settled) => Behind(helper, queue \o settled.wire, <<e>>, n, g)
      <3>1. EventsFlow(helper, queue \o settled.wire, seen.events, g)
        BY <1>12, <2>2
      <3>2. EventsFlow(helper, queue \o settled.wire, n, g)
        BY <1>31, <3>1, EventsMore
      <3>3. Len(queue \o settled.wire) \in Nat
        <4>1. settled.wire \in Seq(M)
          BY <1>12 DEF Agents
        <4>2. queue \o settled.wire \in Seq(M)
          BY <1>9, <4>1, ConcatProperties
        <4> QED
          BY <4>2
      <3>4. g[Len(queue \o settled.wire) + 1] \in Nat
        BY <3>1, <3>3, FlowEnds
      <3>5. <<>> \in Seq(G) /\ Append(<<>>, e) = <<e>>
        BY <1>8
      <3>6. Behind(helper, queue \o settled.wire, <<>>, seen.events, g)
            => Behind(helper, queue \o settled.wire, Append(<<>>, e), seen.events + 1, g)
        BY <1>3, <1>8, <3>4, <3>5, EventsBuffer
      <3> QED
        BY <1>12, <2>2, <2>3, <3>2, <3>5, <3>6
    <2>5. PICK g2 : /\ EventsFlow(helper, queue \o left.wire, n, g2)
                    /\ Whole(left) => Behind(helper, queue \o left.wire, <<>>, n, g2)
      BY <1>3, <1>9, <1>12, <1>13, <2>4, EmitEvents
    <2>6. /\ EventsFlow(helper, p2, n, g2)
          /\ Whole(left) => Behind(helper, p2, <<>>, n, g2)
      BY <2>5 DEF p2
    <2>7. PICK g3 : /\ EventsFlow(helper, p3, n, g3)
                    /\ Behind(helper, p2, <<>>, n, g2) => Behind(helper, p3, <<>>, n, g3)
      BY <1>3, <1>28, <2>6, EventsSendJumps DEF p3, r
    <2>8. done.lost = 0 => Whole(left)
      BY <1>16 DEF Whole
    <2>9. PICK g4 : /\ EventsFlow(helper, Append(p3, done), n, g4)
                    /\ Behind(helper, p3, <<>>, n, g3)
                       => Behind(helper, Append(p3, done), <<>>, n, g4)
      <3>1. done.type = "done" /\ done.lost = 0 => Behind(helper, p3, <<>>, n, g3)
        BY <2>6, <2>7, <2>8
      <3>2. p3 \in Seq(M) /\ done \in M /\ done.events = <<>> /\ n \in Nat
        BY <1>3, <1>16, <1>28
      <3> HIDE DEF n, M
      <3> QED
        BY <2>7, <3>1, <3>2, EventsOther
    <2> QED
      BY <2>6, <2>7, <2>9
  <1>38. JumpFlowInv'
    <2> SUFFICES ASSUME Lossless
                 PROVE  \E f : JumpsFlow(helper, Append(p3, done), jumps, f)
      <3>1. Len(helper.jumps) = 0
        BY <1>34
      <3> QED
        BY <1>3, <1>20, <1>28, <1>34, <1>35, <3>1, SMTT(30) DEF JumpFlowInv
    <2>1. PICK f : /\ JumpsFlow(helper, queue \o agent.wire, agent.jumps, f)
                   /\ f[Len(queue \o agent.wire) + 1] = 0
      BY <1>1, <1>29, Running
    <2>2. PICK g : /\ JumpsFlow(helper, queue \o flushed.wire, flushed.jumps, g)
                   /\ g[Len(queue \o flushed.wire) + 1] = 0
      BY <1>9, <1>10, <2>1, EmitJumps
    <2>3. /\ JumpsFlow(helper, queue \o settled.wire, settled.jumps, g)
          /\ g[Len(queue \o settled.wire) + 1] = 0
      BY <1>10, <1>12, <2>2
    <2>4. PICK g2 : /\ JumpsFlow(helper, queue \o left.wire, left.jumps, g2)
                    /\ g2[Len(queue \o left.wire) + 1] = 0
      BY <1>9, <1>12, <1>13, <2>3, EmitJumps
    <2>5. JumpsFlow(helper, p2, jumps, g2) /\ g2[Len(p2) + 1] = 0
      BY <1>13, <2>4 DEF p2
    <2>6. PICK g3 : JumpsFlow(helper, p3, jumps, g3) /\ g3[Len(p3) + 1] = Len(jumps)
      <3>1. /\ JumpsFlow(helper, p2, jumps, g2) /\ g2[Len(p2) + 1] = 0
            /\ p2 \in Seq(MessagesOf(G)) /\ jumps \in Seq(Nat)
            /\ \A k \in 1..Len(p2) : p2[k].type # "done"
        BY <1>3, <1>28, <1>32, <2>5
      <3> HIDE DEF jumps
      <3>2. \E x : /\ JumpsFlow(helper, p2 \o JumpMessages(jumps), jumps, x)
                   /\ x[Len(p2 \o JumpMessages(jumps)) + 1] = Len(jumps)
        BY <3>1, JumpsSend
      <3> QED
        BY <3>2 DEF p3, r
    <2> HIDE DEF jumps, M
    <2> QED
      BY <1>16, <1>28, <2>6, JumpsOther
  <1>39. SizesInv'
    <2> SUFFICES ASSUME seen.errors = 0
                 PROVE  \E f : SizesFlow(Accounted, Append(p3, done), Owed', f)
      BY <1>5, <1>20, <1>28, <1>34, <1>35 DEF SizesInv
    <2>1. PICK f : /\ SizesFlow(Accounted, queue \o agent.wire, Owed, f)
                   /\ f[Len(queue \o agent.wire) + 1] >= agent.count - Len(agent.jumps)
      BY <1>1, <1>29, Running
    <2>2. SizesFlow(Accounted, queue \o agent.wire, Owed', f)
      BY <1>30, <2>1, SizesOwed
    <2>3. PICK g : /\ SizesFlow(Accounted, queue \o flushed.wire, Owed', g)
                   /\ g[Len(queue \o flushed.wire) + 1] >= flushed.count - Len(flushed.jumps)
      BY <1>9, <1>10, <2>1, <2>2, EmitSizes
    <2>4. /\ SizesFlow(Accounted, queue \o settled.wire, Owed', g)
          /\ g[Len(queue \o settled.wire) + 1] >= settled.count - Len(settled.jumps)
      BY <1>10, <1>12, <2>3
    <2>5. PICK g2 : /\ SizesFlow(Accounted, queue \o left.wire, Owed', g2)
                    /\ g2[Len(queue \o left.wire) + 1] >= left.count - Len(left.jumps)
      BY <1>9, <1>12, <1>13, <2>4, EmitSizes
    <2>6. SizesFlow(Accounted, p2, Owed', g2) /\ g2[Len(p2) + 1] >= left.count - Len(jumps)
      BY <1>13, <2>5 DEF p2
    <2>7. PICK g3 : /\ SizesFlow(Accounted, p3, Owed', g3)
                    /\ g3[Len(p3) + 1] = g2[Len(p2) + 1] + Len(jumps)
      <3>1. SizesFlow(Accounted, p2, Owed', g2) /\ p2 \in Seq(MessagesOf(G))
            /\ jumps \in Seq(Nat)
        BY <1>3, <1>28, <2>6
      <3> HIDE DEF jumps
      <3>2. \E x : LET q == p2 \o JumpMessages(jumps)
                   IN /\ SizesFlow(Accounted, q, Owed', x)
                      /\ x[Len(q) + 1] = g2[Len(p2) + 1] + Len(jumps)
        BY <3>1, SizesSendJumps
      <3> QED
        BY <3>2 DEF p3, r
    <2>8. g2[Len(p2) + 1] \in Int
      <3>1. Len(p2) + 1 \in 1..(Len(p2) + 1)
        BY <1>28
      <3> QED
        BY <2>6, <3>1 DEF SizesFlow
    <2>9. Size(done) = left.lost
      <3>1. Size(done) = Len(<<>>) + Len(<<>>) + left.lost /\ Len(<<>>) = 0
        BY <1>16 DEF Size
      <3> QED
        BY <1>15, <3>1
    <2>10. g3[Len(p3) + 1] + Size(done) >= Owed'
      <3> DEFINE x == g2[Len(p2) + 1]
                 l == Len(jumps)
      <3>1. x \in Int /\ l \in Nat /\ x >= left.count - l /\ g3[Len(p3) + 1] = x + l
        BY <1>3, <2>6, <2>7, <2>8
      <3> HIDE DEF x, l
      <3>2. x + l + left.lost >= left.count + left.lost
        BY <1>15, <3>1
      <3> QED
        BY <1>26, <2>9, <3>1, <3>2
    <2>11. Size(done) \in Nat
      BY <1>15, <2>9
    <2> HIDE DEF M
    <2>12. \E g4 : SizesFlow(Accounted, Append(p3, done), Owed', g4)
      BY <1>16, <1>28, <2>7, <2>10, <2>11, SizesSend
    <2> QED
      BY <2>12
  <1>40. TraceInv'
    BY <1>34, <1>35 DEF TraceInv, TraceTyped, CompletedIsComplete, LossIsAccounted,
                        NoGapWithoutLoss, EvidenceIsAccepted
  <1> QED
    BY <1>22, <1>23, <1>24, <1>27, <1>36, <1>37, <1>38, <1>39, <1>40 DEF IInv

-----------------------------------------------------------------------------
(* Errors, and the end of the target *)

\* After an error nothing is claimed of the events that follow it.
LEMMA AgentErrorKeeps ==
    ASSUME IInv, AgentError
    PROVE  IInv'
  <1> DEFINE m == Msg("error", <<>>, <<>>, 0)
             M == MessagesOf(Happened)
  <1>1. PICK sink \in {agent.sink, <<>>} :
           agent' = [agent EXCEPT !.sink = sink, !.wire = Append(@, m)]
    BY DEF AgentError
  <1>2. /\ ~detached /\ seen' = [seen EXCEPT !.errors = @ + 1]
        /\ UNCHANGED <<detached, host>>
    BY DEF AgentError
  <1>3. TypeOK
    BY DEF IInv
  <1>4. /\ m \in M /\ m.type = "error" /\ m.events = <<>> /\ m.jumps = <<>> /\ m.lost = 0
    BY DEF Msg, MessagesOf, MessageTypes
  <1>5. /\ agent \in Agents(Happened) /\ agent.wire \in Seq(M) /\ queue \in Seq(M)
        /\ sink \in Seq(Happened) /\ seen.errors \in Nat
    <2>1. agent.sink \in Seq(Happened) /\ <<>> \in Seq(Happened)
      BY <1>3, Parts
    <2>2. sink \in Seq(Happened)
      BY <1>1, <2>1
    <2> QED
      BY <1>3, <2>2, Parts DEF TypeOK
  <1> HIDE DEF m
  <1>6. /\ seen'.events = seen.events /\ seen'.jumps = seen.jumps /\ seen'.left = seen.left
        /\ seen'.intrusions = seen.intrusions /\ seen'.errors = seen.errors + 1
        /\ seen'.errors # 0
        /\ seen' \in [events : Nat, jumps : Nat, left : SUBSET Nat, intrusions : Nat, errors : Nat]
    BY <1>2, <1>3 DEF TypeOK
  <1>7. /\ agent'.phase = agent.phase /\ agent'.pending = agent.pending
        /\ agent'.count = agent.count /\ agent'.lost = agent.lost
        /\ agent'.sink = sink /\ agent'.jumps = agent.jumps
        /\ agent'.wire = Append(agent.wire, m)
        /\ agent' \in Agents(Happened)
    <2> DEFINE w == Append(agent.wire, m)
    <2>1. w \in Seq(M) /\ agent' = [agent EXCEPT !.sink = sink, !.wire = w]
      BY <1>1, <1>4, <1>5
    <2> HIDE DEF w
    <2>2. /\ agent'.phase = agent.phase /\ agent'.pending = agent.pending
          /\ agent'.count = agent.count /\ agent'.lost = agent.lost
          /\ agent'.sink = sink /\ agent'.jumps = agent.jumps
          /\ agent'.wire = w
      BY <1>5, <2>1 DEF Agents
    <2>3. agent' \in Agents(Happened)
      BY <1>5, <2>1 DEF Agents
    <2> QED
      BY <2>2, <2>3 DEF w
  <1>8. Happened' = Happened
    BY <1>6, <1>7 DEF Happened
  <1>9. TypeOK'
    BY <1>2, <1>3, <1>6, <1>7, <1>8 DEF TypeOK, host
  <1>10. PhaseInv'
    BY <1>6, <1>7 DEF IInv, PhaseInv
  <1>11. JumpsInv'
    BY <1>6, <1>7 DEF IInv, JumpsInv
  <1>12. BalanceInv' /\ SizesInv'
    BY <1>6 DEF BalanceInv, SizesInv
  <1>13. Stream' = Append(Stream, m)
    <2>1. queue \o Append(agent.wire, m) = Append(queue \o agent.wire, m)
      BY <1>4, <1>5, StreamAppend, SMTT(30)
    <2> QED
      BY <1>2, <1>7, <2>1 DEF Stream, host
  <1>14. /\ Len(Stream') = Len(Stream) + 1 /\ Stream'[Len(Stream) + 1] = m
         /\ Len(Stream) \in Nat
         /\ \A k \in 1..Len(Stream) : Stream'[k] = Stream[k]
    BY <1>3, <1>4, <1>13, Parts, AppendProperties
  <1>15. \A k \in 1..(Len(Stream) + 1) : k \in 1..Len(Stream) \/ k = Len(Stream) + 1
    BY <1>14
  <1>16. /\ helper' = helper /\ dropped' = dropped /\ trace' = trace /\ detached' = detached
         /\ (Lossless' <=> Lossless)
    BY <1>2 DEF host, Lossless
  <1>17. EndInv'
    <2>1. ASSUME agent'.phase # "finished"
          PROVE  /\ ~helper'.done
                 /\ helper'.jumps = <<>>
                 /\ \A k \in 1..Len(Stream') : Stream'[k].type \notin {"jump_batch", "done"}
      BY <1>4, <1>7, <1>14, <1>15, <1>16, <2>1 DEF IInv, EndInv
    <2>2. ASSUME NEW k \in 1..Len(Stream'), Stream'[k].type = "done"
          PROVE  /\ Stream'[k].lost = agent'.lost
                 /\ \A j \in (k + 1)..Len(Stream') : Stream'[j].type = "error"
      <3>1. k \in 1..Len(Stream) /\ Stream'[k] = Stream[k]
        BY <1>4, <1>14, <1>15, <2>2
      <3>2. /\ Stream[k].lost = agent.lost
            /\ \A j \in (k + 1)..Len(Stream) : Stream[j].type = "error"
        BY <2>2, <3>1 DEF IInv, EndInv
      <3>3. ASSUME NEW j \in (k + 1)..Len(Stream')
            PROVE  Stream'[j].type = "error"
        <4>1. j \in 1..(Len(Stream) + 1)
          BY <1>14
        <4>2. CASE j = Len(Stream) + 1
          BY <1>4, <1>14, <4>2
        <4>3. CASE j \in 1..Len(Stream)
          <5>1. j \in (k + 1)..Len(Stream)
            BY <1>14, <4>3
          <5> QED
            BY <1>14, <3>2, <4>3, <5>1
        <4> QED
          BY <1>15, <4>1, <4>2, <4>3
      <3> QED
        BY <1>7, <3>1, <3>2, <3>3
    <2>3. helper'.done /\ helper'.lost = 0 => agent'.lost = 0
      BY <1>7, <1>16 DEF IInv, EndInv
    <2>4. helper'.done => \A k \in 1..Len(Stream') : Stream'[k].type = "error"
      BY <1>4, <1>14, <1>15, <1>16 DEF IInv, EndInv
    <2> QED
      BY <2>1, <2>2, <2>3, <2>4 DEF EndInv
  <1>18. EventsInv'
    <2> SUFFICES ASSUME Lossless
                 PROVE  \E f : /\ EventsFlow(helper, Append(Stream, m), seen.events, f)
                               /\ Whole(agent) => Behind(helper, Append(Stream, m), sink,
                                                         seen.events, f)
      <3>1. Lossless /\ helper.errors = 0 =>
               /\ \A i \in 1..Len(helper.events) : helper.events[i].n = i
               /\ helper.done => Len(helper.events) = seen.events
        BY DEF IInv, EventsInv
      <3>2. Whole(agent') = Whole(agent)
        BY <1>7 DEF Whole
      <3> QED
        BY <1>6, <1>7, <1>13, <1>16, <3>1, <3>2 DEF EventsInv
    <2>1. PICK f : /\ EventsFlow(helper, Stream, seen.events, f)
                   /\ Whole(agent) => Behind(helper, Stream, agent.sink, seen.events, f)
      BY <1>2 DEF IInv, EventsInv
    <2>2. Stream \in Seq(M) /\ m \in M /\ seen.events \in Nat /\ m.type = "error"
          /\ m.events = <<>>
      BY <1>3, <1>4, Parts
    <2>3. m.type = "done" /\ m.lost = 0 => Behind(helper, Stream, <<>>, seen.events, f)
      BY <2>2
    <2> HIDE DEF M
    <2>4. \E g : /\ EventsFlow(helper, Append(Stream, m), seen.events, g)
                 /\ Behind(helper, Stream, agent.sink, seen.events, f) =>
                       Behind(helper, Append(Stream, m), sink, seen.events, g)
      BY <2>1, <2>2, <2>3, EventsOther
    <2> QED
      BY <2>1, <2>4
  <1>19. JumpFlowInv'
    <2> SUFFICES ASSUME Lossless
                 PROVE  \E f : /\ JumpsFlow(helper, Append(Stream, m), agent.jumps, f)
                               /\ agent.phase # "finished" => f[Len(Append(Stream, m)) + 1] = 0
      <3>1. Lossless =>
               /\ Len(helper.jumps) <= Len(agent.jumps)
               /\ \A i \in 1..Len(helper.jumps) : helper.jumps[i] = agent.jumps[i]
               /\ helper.done => Len(helper.jumps) = Len(agent.jumps)
        BY DEF IInv, JumpFlowInv
      <3> QED
        BY <1>7, <1>13, <1>16, <3>1 DEF JumpFlowInv
    <2>1. PICK f : /\ JumpsFlow(helper, Stream, agent.jumps, f)
                   /\ agent.phase # "finished" => f[Len(Stream) + 1] = 0
      BY <1>2 DEF IInv, JumpFlowInv
    <2>2. Stream \in Seq(M) /\ m \in M /\ m.type # "done" /\ m.jumps = <<>>
      BY <1>3, <1>4, Parts
    <2> HIDE DEF M
    <2>3. \E g : /\ JumpsFlow(helper, Append(Stream, m), agent.jumps, g)
                 /\ g[Len(Append(Stream, m)) + 1] = f[Len(Stream) + 1]
      BY <2>1, <2>2, JumpsOther
    <2> QED
      BY <2>1, <2>3
  <1>20. TraceInv'
    <2>1. trace = None
      BY <1>2 DEF IInv, TraceInv
    <2> QED
      BY <1>16, <2>1 DEF TraceInv, TraceTyped, CompletedIsComplete, LossIsAccounted,
                         NoGapWithoutLoss, EvidenceIsAccepted
  <1> QED
    BY <1>9, <1>10, <1>11, <1>12, <1>17, <1>18, <1>19, <1>20 DEF IInv

\* The last messages on the wire are the last of the stream.
LEMMA StreamCut ==
    ASSUME NEW M, NEW q \in Seq(M), NEW w \in Seq(M), NEW n \in Nat
    PROVE  /\ First(w, n) \in Seq(M)
           /\ q \o First(w, n) \in Seq(M)
           /\ Len(q \o First(w, n)) <= Len(q \o w)
           /\ \A i \in 1..Len(q \o First(w, n)) : (q \o First(w, n))[i] = (q \o w)[i]
  <1> DEFINE v == First(w, n)
             p == q \o w
             r == q \o v
  <1>1. /\ v \in Seq(M) /\ Len(v) = (IF n < Len(w) THEN n ELSE Len(w))
        /\ \A i \in 1..Len(v) : v[i] = w[i]
    BY FirstOf
  <1>2. Len(v) <= Len(w) /\ Len(v) \in Nat /\ Len(w) \in Nat /\ Len(q) \in Nat
    BY <1>1
  <1> HIDE DEF v
  <1>3. /\ p \in Seq(M) /\ Len(p) = Len(q) + Len(w)
        /\ \A i \in 1..Len(p) : p[i] = IF i <= Len(q) THEN q[i] ELSE w[i - Len(q)]
    BY ConcatProperties
  <1>4. /\ r \in Seq(M) /\ Len(r) = Len(q) + Len(v)
        /\ \A i \in 1..Len(r) : r[i] = IF i <= Len(q) THEN q[i] ELSE v[i - Len(q)]
    <2>1. v \in Seq(M)
      BY <1>1
    <2> QED
      BY <2>1, ConcatProperties
  <1> HIDE DEF p, r
  <1>5. Len(r) <= Len(p)
    BY <1>2, <1>3, <1>4
  <1>6. ASSUME NEW i \in 1..Len(r)
        PROVE  r[i] = p[i]
    <2>1. i \in 1..Len(p)
      BY <1>2, <1>3, <1>4
    <2>2. CASE i <= Len(q)
      BY <1>3, <1>4, <2>1, <2>2
    <2>3. CASE ~(i <= Len(q))
      <3>1. i - Len(q) \in 1..Len(v)
        BY <1>2, <1>4, <2>3
      <3>2. v[i - Len(q)] = w[i - Len(q)]
        BY <1>1, <3>1
      <3> QED
        BY <1>3, <1>4, <2>1, <2>3, <3>2
    <2> QED
      BY <2>2, <2>3
  <1> QED
    BY <1>1, <1>4, <1>5, <1>6 DEF v, p, r

\* When the target ends, what is on its way may be lost.
LEMMA TargetEndsKeeps ==
    ASSUME IInv, TargetEnds
    PROVE  IInv'
  <1> DEFINE M == MessagesOf(Happened)
  <1>1. PICK n \in 0..Len(agent.wire) : agent' = [agent EXCEPT !.wire = First(@, n)]
    BY DEF TargetEnds
  <1>2. /\ ~detached /\ detached' = TRUE /\ seen' = seen /\ UNCHANGED host
    BY DEF TargetEnds
  <1>3. TypeOK
    BY DEF IInv
  <1>4. /\ agent \in Agents(Happened) /\ agent.wire \in Seq(M) /\ queue \in Seq(M)
        /\ n \in Nat /\ Stream \in Seq(M)
    <2>1. agent.wire \in Seq(M)
      BY <1>3, Parts
    <2>2. n \in Nat
      BY <1>1, <2>1
    <2> QED
      BY <1>3, <2>1, <2>2, Parts DEF TypeOK
  <1> DEFINE w == First(agent.wire, n)
             p == queue \o w
  <1>5. /\ w \in Seq(M) /\ p \in Seq(M) /\ Len(p) <= Len(Stream)
        /\ \A i \in 1..Len(p) : p[i] = Stream[i]
    <2> DEFINE v == agent.wire
    <2>1. v \in Seq(M) /\ queue \in Seq(M) /\ n \in Nat
      BY <1>4
    <2> HIDE DEF v, M
    <2>2. /\ First(v, n) \in Seq(M)
          /\ queue \o First(v, n) \in Seq(M)
          /\ Len(queue \o First(v, n)) <= Len(queue \o v)
          /\ \A i \in 1..Len(queue \o First(v, n)) :
                (queue \o First(v, n))[i] = (queue \o v)[i]
      BY <2>1, StreamCut
    <2> QED
      BY <2>2 DEF Stream, v
  <1>6. agent' = [agent EXCEPT !.wire = w]
    BY <1>1
  <1> HIDE DEF w
  <1>7. /\ agent'.phase = agent.phase /\ agent'.pending = agent.pending
        /\ agent'.count = agent.count /\ agent'.lost = agent.lost
        /\ agent'.sink = agent.sink /\ agent'.jumps = agent.jumps
        /\ agent'.wire = w
        /\ agent' \in Agents(Happened)
    BY <1>4, <1>5, <1>6 DEF Agents
  <1>8. Stream' = p
    BY <1>2, <1>7 DEF Stream, host
  <1> HIDE DEF p
  <1>9. /\ helper' = helper /\ dropped' = dropped /\ trace' = trace /\ queue' = queue
        /\ (Lossless' <=> Lossless) /\ Accounted' = Accounted /\ Owed' = Owed
        /\ Happened' = Happened
    BY <1>2, <1>7 DEF host, Lossless, Accounted, Owed, Happened
  <1>10. TypeOK'
    BY <1>2, <1>3, <1>7, <1>9 DEF TypeOK
  <1>11. PhaseInv' /\ JumpsInv' /\ BalanceInv'
    BY <1>2, <1>7, <1>9 DEF IInv, PhaseInv, JumpsInv, BalanceInv
  <1>12. Len(p) \in Nat /\ Len(Stream) \in Nat
    BY <1>4, <1>5
  <1>13. \A k \in 1..Len(p) : k \in 1..Len(Stream) /\ p[k] = Stream[k]
    BY <1>5, <1>12
  <1>14. EndInv'
    <2>1. ASSUME agent'.phase # "finished"
          PROVE  /\ ~helper'.done
                 /\ helper'.jumps = <<>>
                 /\ \A k \in 1..Len(p) : p[k].type \notin {"jump_batch", "done"}
      BY <1>7, <1>9, <1>13, <2>1 DEF IInv, EndInv
    <2>2. ASSUME NEW k \in 1..Len(p), p[k].type = "done"
          PROVE  /\ p[k].lost = agent'.lost
                 /\ \A j \in (k + 1)..Len(p) : p[j].type = "error"
      <3>1. k \in 1..Len(Stream) /\ p[k] = Stream[k]
        BY <1>13
      <3>2. /\ Stream[k].lost = agent.lost
            /\ \A j \in (k + 1)..Len(Stream) : Stream[j].type = "error"
        BY <2>2, <3>1 DEF IInv, EndInv
      <3>3. \A j \in (k + 1)..Len(p) : j \in (k + 1)..Len(Stream) /\ j \in 1..Len(p)
        BY <1>5, <1>12
      <3> QED
        BY <1>7, <1>13, <3>1, <3>2, <3>3
    <2>3. helper'.done /\ helper'.lost = 0 => agent'.lost = 0
      BY <1>7, <1>9 DEF IInv, EndInv
    <2>4. helper'.done => \A k \in 1..Len(p) : p[k].type = "error"
      BY <1>9, <1>13 DEF IInv, EndInv
    <2> QED
      BY <1>8, <2>1, <2>2, <2>3, <2>4 DEF EndInv
  <1>15. EventsInv'
    <2> SUFFICES ASSUME Lossless
                 PROVE  \E f : EventsFlow(helper, p, seen.events, f)
      <3>1. Lossless /\ helper.errors = 0 =>
               /\ \A i \in 1..Len(helper.events) : helper.events[i].n = i
               /\ helper.done => Len(helper.events) = seen.events
        BY DEF IInv, EventsInv
      <3> QED
        BY <1>2, <1>8, <1>9, <3>1 DEF EventsInv
    <2>1. PICK f : EventsFlow(helper, Stream, seen.events, f)
      BY DEF IInv, EventsInv
    <2> HIDE DEF M
    <2> QED
      BY <1>4, <1>5, <2>1, EventsCut
  <1>16. JumpFlowInv'
    <2> SUFFICES ASSUME Lossless
                 PROVE  \E f : JumpsFlow(helper, p, agent.jumps, f)
      <3>1. Lossless =>
               /\ Len(helper.jumps) <= Len(agent.jumps)
               /\ \A i \in 1..Len(helper.jumps) : helper.jumps[i] = agent.jumps[i]
               /\ helper.done => Len(helper.jumps) = Len(agent.jumps)
        BY DEF IInv, JumpFlowInv
      <3> QED
        BY <1>2, <1>7, <1>8, <1>9, <3>1 DEF JumpFlowInv
    <2>1. PICK f : JumpsFlow(helper, Stream, agent.jumps, f)
      BY DEF IInv, JumpFlowInv
    <2> HIDE DEF M
    <2> QED
      BY <1>4, <1>5, <2>1, JumpsCut
  <1>17. SizesInv'
    <2> SUFFICES ASSUME seen.errors = 0
                 PROVE  \E f : SizesFlow(Accounted, p, Owed, f)
      <3>1. seen.errors = 0 => (helper.done => Accounted >= Owed)
        BY DEF IInv, SizesInv
      <3> QED
        BY <1>2, <1>8, <1>9, <3>1 DEF SizesInv
    <2>1. PICK f : SizesFlow(Accounted, Stream, Owed, f)
      BY DEF IInv, SizesInv
    <2> HIDE DEF M
    <2> QED
      BY <1>4, <1>5, <2>1, SizesCut
  <1>18. TraceInv'
    <2>1. trace = None
      BY <1>2 DEF IInv, TraceInv
    <2> QED
      BY <1>9, <2>1 DEF TraceInv, TraceTyped, CompletedIsComplete, LossIsAccounted,
                        NoGapWithoutLoss, EvidenceIsAccepted
  <1> QED
    BY <1>10, <1>11, <1>14, <1>15, <1>16, <1>17, <1>18 DEF IInv

-----------------------------------------------------------------------------
(* The steps of the callback and of the helper *)

\* A message that the callback queues keeps its place in the stream; one that
\* it drops leaves it.
LEMMA StreamTaken ==
    ASSUME NEW M, NEW q \in Seq(M), NEW w \in Seq(M), w # <<>>
    PROVE  /\ Append(q, Head(w)) \o Tail(w) = q \o w
           /\ q \o Tail(w) \in Seq(M)
           /\ Len(q) + 1 \in 1..Len(q \o w)
           /\ (q \o w)[Len(q) + 1] = Head(w)
           /\ Len(q \o Tail(w)) = Len(q \o w) - 1
           /\ \A i \in 1..Len(q \o Tail(w)) :
                 (q \o Tail(w))[i] = (q \o w)[IF i < Len(q) + 1 THEN i ELSE i + 1]
  <1> DEFINE m == Head(w)
             v == Tail(w)
             l == Len(q)
             n == Len(w)
             p == q \o w
             r == q \o v
  <1>1. /\ m \in M /\ v \in Seq(M) /\ m = w[1] /\ Len(v) = n - 1
        /\ \A i \in 1..Len(v) : v[i] = w[i + 1]
    BY HeadTailProperties, EmptySeq
  <1>2. l \in Nat /\ n \in Nat \ {0}
    BY EmptySeq
  <1>10. w = <<m>> \o v
    <2>1. v = SubSeq(w, 2, n)
      BY TailIsSubSeq
    <2>2. SubSeq(w, 1, n) = w
      BY SubSeqFull
    <2>3. 1 \in 1..n /\ n \in 1..n
      BY <1>2
    <2>4. SubSeq(w, 1, n) = <<w[1]>> \o SubSeq(w, 1 + 1, n)
      BY <2>3, SubSeqRecursiveFirst
    <2>5. 1 + 1 = 2
      OBVIOUS
    <2> HIDE DEF m, v, n
    <2> QED
      BY <1>1, <2>1, <2>2, <2>4, <2>5
  <1>3. <<m>> \in Seq(M) /\ Append(q, m) = q \o <<m>>
    BY <1>1, AppendIsConcat
  <1>4. (q \o <<m>>) \o v = q \o (<<m>> \o v)
    <2> HIDE DEF m, v
    <2> QED
      BY <1>1, <1>3, ConcatAssociative
  <1>5. /\ p \in Seq(M) /\ Len(p) = l + n
        /\ \A i \in 1..Len(p) : p[i] = IF i <= Len(q) THEN q[i] ELSE w[i - Len(q)]
    BY ConcatProperties
  <1>6. /\ r \in Seq(M) /\ Len(r) = l + Len(v)
        /\ \A i \in 1..Len(r) : r[i] = IF i <= Len(q) THEN q[i] ELSE v[i - Len(q)]
    <2>1. v \in Seq(M)
      BY <1>1
    <2> HIDE DEF v
    <2> QED
      BY <2>1, ConcatProperties
  <1>7. Append(q, m) \o v = p
    <2> HIDE DEF m, v
    <2> QED
      BY <1>3, <1>4, <1>10
  <1> HIDE DEF m, v, p, r
  <1>8. /\ l + 1 \in 1..Len(p) /\ p[l + 1] = m /\ Len(r) = Len(p) - 1
    <2> HIDE DEF l, n
    <2>1. l + 1 \in 1..Len(p) /\ ~(l + 1 <= l) /\ (l + 1) - l = 1
      BY <1>2, <1>5
    <2>2. p[l + 1] = m
      BY <1>1, <1>5, <2>1 DEF l
    <2>3. Len(r) = Len(p) - 1
      BY <1>1, <1>2, <1>5, <1>6
    <2> QED
      BY <2>1, <2>2, <2>3
  <1>9. ASSUME NEW i \in 1..Len(r)
        PROVE  r[i] = p[IF i < l + 1 THEN i ELSE i + 1]
    <2>1. CASE i < l + 1
      <3>1. i \in 1..Len(p) /\ i <= l
        BY <1>1, <1>2, <1>5, <1>6, <2>1
      <3> QED
        BY <1>5, <1>6, <2>1, <3>1
    <2>2. CASE ~(i < l + 1)
      <3>1. /\ i + 1 \in 1..Len(p) /\ ~(i <= l) /\ ~(i + 1 <= l)
            /\ i - l \in 1..Len(v) /\ (i + 1) - l = (i - l) + 1
        BY <1>1, <1>2, <1>5, <1>6, <2>2
      <3>2. r[i] = v[i - l] /\ p[i + 1] = w[(i + 1) - l]
        BY <1>5, <1>6, <3>1
      <3>3. v[i - l] = w[(i - l) + 1]
        BY <1>1, <3>1
      <3> QED
        BY <2>2, <3>1, <3>2, <3>3
    <2> QED
      BY <2>1, <2>2
  <1> QED
    BY <1>6, <1>7, <1>8, <1>9 DEF m, v, p, r

\* A message that is not the end weighs as much as it holds, and at least one.
LEMMA WeightOf ==
    ASSUME NEW E, NEW m \in MessagesOf(E)
    PROVE  /\ Weight(m) \in Nat /\ Weight(m) > 0 /\ Size(m) \in Nat
           /\ m.type # "done" => Weight(m) >= Size(m)
  <1> DEFINE e == Len(m.events)
             j == Len(m.jumps)
  <1>1. /\ e \in Nat /\ j \in Nat /\ m.lost \in Nat
        /\ m.events \in Seq(E) /\ m.jumps \in Seq(Nat)
        /\ m.type \in MessageTypes
    BY DEF MessagesOf
  <1>2. /\ m.events = <<>> => e = 0
        /\ m.jumps = <<>> => j = 0
        /\ m.events # <<>> => e # 0
        /\ m.jumps # <<>> => j # 0
    BY <1>1, EmptySeq
  <1>3. /\ m.type = "batch" <=> m.events # <<>>
        /\ m.type = "jump_batch" <=> m.jumps # <<>>
        /\ m.type # "done" => m.lost = 0
    BY DEF MessagesOf
  <1>4. Weight(m) = CASE m.type = "batch" -> e [] m.type = "jump_batch" -> j [] OTHER -> 1
    BY DEF Weight
  <1>5. Size(m) = e + j + m.lost
    BY DEF Size
  <1> HIDE DEF e, j
  <1>6. CASE m.type = "batch"
    <2>1. Weight(m) = e /\ e # 0 /\ j = 0 /\ m.lost = 0
      BY <1>2, <1>3, <1>4, <1>6
    <2> QED
      BY <1>1, <1>5, <2>1
  <1>7. CASE m.type = "jump_batch"
    <2>1. Weight(m) = j /\ j # 0 /\ e = 0 /\ m.lost = 0
      BY <1>2, <1>3, <1>4, <1>7
    <2> QED
      BY <1>1, <1>5, <2>1
  <1>8. CASE m.type # "batch" /\ m.type # "jump_batch"
    <2>1. Weight(m) = 1 /\ j = 0 /\ e = 0
      BY <1>2, <1>3, <1>4, <1>8
    <2>2. m.type # "done" => m.lost = 0
      BY <1>3
    <2> QED
      BY <1>1, <1>5, <2>1, <2>2
  <1> QED
    BY <1>6, <1>7, <1>8

\* The callback queues a message, or drops it and counts what it holds.
LEMMA DeliverKeeps ==
    ASSUME IInv, Deliver
    PROVE  IInv'
  <1> DEFINE M == MessagesOf(Happened)
             m == Head(agent.wire)
             w == Tail(agent.wire)
             l == Len(queue) + 1
             r == queue \o w
  <1>1. TypeOK
    BY DEF IInv
  <1>2. agent.wire \in Seq(M) /\ agent.wire # <<>> /\ queue \in Seq(M)
    BY <1>1, Parts DEF Deliver
  <1>3. /\ Append(queue, m) \o w = Stream
        /\ r \in Seq(M)
        /\ l \in 1..Len(Stream)
        /\ Stream[l] = m
        /\ Len(r) = Len(Stream) - 1
        /\ \A i \in 1..Len(r) : r[i] = Stream[IF i < l THEN i ELSE i + 1]
    <2> DEFINE v == agent.wire
    <2>1. v \in Seq(M) /\ v # <<>> /\ queue \in Seq(M)
      BY <1>2
    <2> HIDE DEF v, M
    <2>2. /\ Append(queue, Head(v)) \o Tail(v) = queue \o v
          /\ queue \o Tail(v) \in Seq(M)
          /\ Len(queue) + 1 \in 1..Len(queue \o v)
          /\ (queue \o v)[Len(queue) + 1] = Head(v)
          /\ Len(queue \o Tail(v)) = Len(queue \o v) - 1
          /\ \A i \in 1..Len(queue \o Tail(v)) :
                (queue \o Tail(v))[i]
                    = (queue \o v)[IF i < Len(queue) + 1 THEN i ELSE i + 1]
      BY <2>1, StreamTaken
    <2> QED
      BY <2>2 DEF Stream, v
  <1>4. m \in M /\ w \in Seq(M)
    BY <1>2, HeadTailProperties
  <1>5. agent' = [agent EXCEPT !.wire = w]
    BY DEF Deliver
  <1>6. UNCHANGED <<seen, detached, helper, trace>>
    BY DEF Deliver
  <1>7. \/ queue' = Append(queue, m) /\ dropped' = dropped
        \/ queue' = queue /\ dropped' = dropped + Weight(m)
    BY DEF Deliver
  <1> HIDE DEF m, w, r
  <1>8. agent \in Agents(Happened)
    BY <1>1 DEF TypeOK
  <1>9. /\ agent'.phase = agent.phase /\ agent'.pending = agent.pending
        /\ agent'.count = agent.count /\ agent'.lost = agent.lost
        /\ agent'.sink = agent.sink /\ agent'.jumps = agent.jumps
        /\ agent'.wire = w
        /\ agent' \in Agents(Happened)
    BY <1>4, <1>5, <1>8 DEF Agents
  <1>10. Happened' = Happened /\ Owed' = Owed
    BY <1>6, <1>9 DEF Happened, Owed
  <1>11. PhaseInv' /\ JumpsInv' /\ BalanceInv'
    BY <1>6, <1>9, <1>10 DEF IInv, PhaseInv, JumpsInv, BalanceInv
  <1>12. TraceInv'
    <2>1. ValidEvidence(trace)' = ValidEvidence(trace)
      BY <1>6, <1>9 DEF ValidEvidence
    <2> QED
      BY <1>6, <1>9, <1>10, <2>1 DEF IInv, TraceInv, TraceTyped, CompletedIsComplete,
                                     LossIsAccounted, NoGapWithoutLoss, EvidenceIsAccepted
  <1>13. Len(Stream) \in Nat /\ dropped \in Nat /\ helper.lost \in Nat /\ Accounted \in Nat
    BY <1>1, Parts
  <1>14. CASE queue' = Append(queue, m) /\ dropped' = dropped
    <2>1. Stream' = Stream
      BY <1>3, <1>9, <1>14 DEF Stream
    <2>2. TypeOK'
      <3>1. queue' \in Seq(M)
        <4> HIDE DEF M
        <4> QED
          BY <1>2, <1>4, <1>14, AppendProperties
      <3> QED
        BY <1>1, <1>6, <1>9, <1>10, <1>14, <3>1 DEF TypeOK
    <2>3. EndInv'
      BY <1>6, <1>9, <2>1 DEF IInv, EndInv
    <2>4. Accounted' = Accounted /\ (Lossless' <=> Lossless)
      BY <1>6, <1>14 DEF Accounted, Lossless
    <2>5. EventsInv'
      <3>1. Whole(agent') = Whole(agent)
        BY <1>9 DEF Whole
      <3> QED
        BY <1>6, <1>9, <2>1, <2>4, <3>1 DEF IInv, EventsInv
    <2>6. JumpFlowInv'
      BY <1>6, <1>9, <2>1, <2>4 DEF IInv, JumpFlowInv
    <2>7. SizesInv'
      BY <1>6, <1>9, <1>10, <2>1, <2>4 DEF IInv, SizesInv
    <2> QED
      BY <1>11, <1>12, <2>2, <2>3, <2>5, <2>6, <2>7 DEF IInv
  <1>15. CASE queue' = queue /\ dropped' = dropped + Weight(m)
    <2>1. Stream' = r
      BY <1>9, <1>15 DEF Stream, r
    <2>2. /\ Weight(m) \in Nat /\ Weight(m) > 0 /\ Size(m) \in Nat
          /\ m.type # "done" => Weight(m) >= Size(m)
      BY <1>4, WeightOf
    <2>3. dropped' \in Nat /\ dropped' # 0 /\ Accounted' = Accounted + Weight(m)
      <3> DEFINE x == Len(helper.events)
                 y == Len(helper.jumps)
                 z == Weight(m)
      <3>1. x \in Nat /\ y \in Nat /\ z \in Nat /\ z > 0
        BY <1>1, <2>2, Parts
      <3>2. Accounted = x + y + helper.lost + dropped
            /\ Accounted' = x + y + helper.lost + dropped' /\ dropped' = dropped + z
        BY <1>6, <1>15 DEF Accounted
      <3> HIDE DEF x, y, z
      <3>3. dropped' \in Nat /\ dropped' # 0 /\ Accounted' = Accounted + z
        BY <1>13, <3>1, <3>2
      <3> QED
        BY <3>3 DEF z
    <2>4. TypeOK'
      BY <1>1, <1>2, <1>6, <1>9, <1>10, <1>15, <2>3 DEF TypeOK
    <2>5. EventsInv' /\ JumpFlowInv'
      BY <2>3 DEF EventsInv, JumpFlowInv, Lossless
    <2> HIDE DEF l
    <2>6. l \in Nat /\ l >= 1 /\ l <= Len(Stream) /\ Len(r) \in Nat
      BY <1>3, <1>13
    <2>7. ASSUME NEW i \in 1..Len(r)
          PROVE  \E j \in 1..Len(Stream) : r[i] = Stream[j] /\ j >= i /\ j <= i + 1
      <3>1. CASE i < l
        BY <1>3, <1>13, <2>6, <3>1, SMTT(30)
      <3>2. CASE ~(i < l)
        <4>1. i + 1 \in 1..Len(Stream)
          BY <1>3, <1>13
        <4>2. r[i] = Stream[i + 1]
          BY <1>3, <3>2
        <4> QED
          BY <4>1, <4>2
      <3> QED
        BY <3>1, <3>2
    <2>8. EndInv'
      <3>1. ASSUME agent'.phase # "finished"
            PROVE  /\ ~helper'.done
                   /\ helper'.jumps = <<>>
                   /\ \A k \in 1..Len(r) : r[k].type \notin {"jump_batch", "done"}
        BY <1>6, <1>9, <2>7, <3>1 DEF IInv, EndInv
      <3>2. ASSUME NEW k \in 1..Len(r), r[k].type = "done"
            PROVE  /\ r[k].lost = agent'.lost
                   /\ \A j \in (k + 1)..Len(r) : r[j].type = "error"
        <4>1. PICK i \in 1..Len(Stream) : r[k] = Stream[i] /\ i = IF k < l THEN k ELSE k + 1
          <5>1. (IF k < l THEN k ELSE k + 1) \in 1..Len(Stream)
            BY <1>3, <1>13, <2>6
          <5> QED
            BY <1>3, <5>1
        <4>2. /\ Stream[i].lost = agent.lost
              /\ \A j \in (i + 1)..Len(Stream) : Stream[j].type = "error"
          BY <3>2, <4>1 DEF IInv, EndInv
        <4>3. ASSUME NEW j \in (k + 1)..Len(r)
              PROVE  r[j].type = "error"
          <5>1. j \in 1..Len(r)
            BY <2>6
          <5>2. (IF j < l THEN j ELSE j + 1) \in (i + 1)..Len(Stream)
            BY <1>3, <1>13, <2>6, <4>1
          <5>3. r[j] = Stream[IF j < l THEN j ELSE j + 1]
            BY <1>3, <5>1
          <5> QED
            BY <4>2, <5>2, <5>3
        <4> QED
          BY <1>9, <4>1, <4>2, <4>3
      <3>3. helper'.done => \A k \in 1..Len(r) : r[k].type = "error"
        BY <1>6, <2>7 DEF IInv, EndInv
      <3>4. helper'.done /\ helper'.lost = 0 => agent'.lost = 0
        BY <1>6, <1>9 DEF IInv, EndInv
      <3> QED
        BY <2>1, <3>1, <3>2, <3>3, <3>4 DEF EndInv
    <2>9. SizesInv'
      <3> SUFFICES ASSUME seen.errors = 0
                   PROVE  /\ \E f : /\ SizesFlow(Accounted + Weight(m), r, Owed, f)
                                    /\ ~detached /\ agent.phase # "finished" =>
                                          f[Len(r) + 1] >= agent.count - Len(agent.jumps)
                          /\ helper.done => Accounted + Weight(m) >= Owed
        BY <1>6, <1>9, <1>10, <2>1, <2>3 DEF SizesInv
      <3>1. PICK f : /\ SizesFlow(Accounted, Stream, Owed, f)
                     /\ ~detached /\ agent.phase # "finished" =>
                           f[Len(Stream) + 1] >= agent.count - Len(agent.jumps)
        BY DEF IInv, SizesInv
      <3>2. Owed \in Int
        BY <1>1, OwedNumber DEF IInv
      <3>3. helper.done => Accounted + Weight(m) >= Owed
        <4>1. helper.done => Accounted >= Owed
          BY DEF IInv, SizesInv
        <4> QED
          BY <1>13, <2>2, <3>2, <4>1
      <3>4. \A i \in 1..Len(Stream) : Size(Stream[i]) \in Nat
        BY <1>1, Parts, WeightOf
      <3>5. \/ Weight(m) >= Size(Stream[l])
            \/ \A i \in (l + 1)..Len(Stream) : Stream[i].type # "done"
        <4>1. CASE m.type # "done"
          BY <1>3, <2>2, <4>1 DEF l
        <4>2. CASE m.type = "done"
          <5>1. l \in 1..Len(Stream) /\ Stream[l].type = "done"
            BY <1>3, <4>2 DEF l
          <5>2. \A i \in (l + 1)..Len(Stream) : Stream[i].type = "error"
            BY <5>1 DEF IInv, EndInv
          <5> QED
            BY <5>2
        <4> QED
          BY <4>1, <4>2
      <3>6. PICK g : /\ SizesFlow(Accounted + Weight(m), r, Owed, g)
                     /\ g[Len(r) + 1] = f[Len(Stream) + 1] + Weight(m) - Size(Stream[l])
        <4>1. /\ Stream \in Seq(M) /\ r \in Seq(M) /\ Accounted \in Nat /\ Weight(m) \in Nat
              /\ l \in 1..Len(Stream) /\ Len(r) = Len(Stream) - 1
              /\ \A i \in 1..Len(r) : r[i] = Stream[IF i < l THEN i ELSE i + 1]
          BY <1>1, <1>3, <1>13, <2>2, Parts DEF l
        <4>2. SizesFlow(Accounted, Stream, Owed, f)
          BY <3>1
        <4>3. Without(Stream, l, r) /\ Weighed(Stream, l, Weight(m))
          BY <3>4, <3>5, <4>1 DEF Without, Weighed
        <4>4. /\ Stream \in Seq(M) /\ r \in Seq(M) /\ Accounted \in Nat /\ Weight(m) \in Nat
              /\ l \in 1..Len(Stream)
          BY <4>1
        <4> DEFINE a == Accounted
                   x == Weight(m)
                   o == Owed
        <4>5. a \in Nat /\ x \in Nat /\ o \in Int
          BY <3>2, <4>4
        <4> HIDE DEF M, a, x, o
        <4>6. \A p \in Seq(M), q \in Seq(M) : \A i \in 1..Len(p) :
                 Without(p, i, q) /\ Weighed(p, i, x) /\ SizesFlow(a, p, o, f) =>
                    \E g : /\ SizesFlow(a + x, q, o, g)
                           /\ g[Len(q) + 1] = f[Len(p) + 1] + x - Size(p[i])
          BY <4>5, SizesDrop
        <4>7. SizesFlow(a, Stream, o, f) /\ Weighed(Stream, l, x)
          BY <4>2, <4>3 DEF a, x, o
        <4>8. \E g : /\ SizesFlow(a + x, r, o, g)
                     /\ g[Len(r) + 1] = f[Len(Stream) + 1] + x - Size(Stream[l])
          BY <4>3, <4>4, <4>6, <4>7
        <4> QED
          BY <4>8 DEF a, x, o
      <3>7. ASSUME ~detached, agent.phase # "finished"
            PROVE  g[Len(r) + 1] >= agent.count - Len(agent.jumps)
        <4>1. Stream[l].type # "done"
          BY <1>3, <3>7 DEF IInv, EndInv, l
        <4>2. Weight(m) >= Size(Stream[l]) /\ Size(Stream[l]) = Size(m)
          BY <1>3, <2>2, <4>1 DEF l
        <4>3. /\ f[Len(Stream) + 1] \in Int /\ agent.count \in Nat /\ Len(agent.jumps) \in Nat
          <5>1. Len(Stream) + 1 \in 1..(Len(Stream) + 1)
            BY <1>13
          <5> QED
            BY <1>1, <3>1, <5>1, Parts DEF SizesFlow
        <4>4. f[Len(Stream) + 1] >= agent.count - Len(agent.jumps)
          BY <3>1, <3>7
        <4> QED
          BY <2>2, <3>6, <4>2, <4>3, <4>4
      <3> QED
        BY <3>3, <3>6, <3>7
    <2> QED
      BY <1>11, <1>12, <2>4, <2>5, <2>8, <2>9 DEF IInv
  <1> QED
    BY <1>7, <1>14, <1>15

\* What fits is taken, in order.
LEMMA Taken ==
    ASSUME NEW S, NEW s \in Seq(S), NEW t \in Seq(S), NEW room \in Nat
    PROVE  LET u == First(t, room) IN
           /\ s \o u \in Seq(S) /\ Len(u) \in Nat /\ Len(u) <= room /\ Len(u) <= Len(t)
           /\ Len(s \o u) = Len(s) + Len(u)
           /\ \A i \in 1..Len(s \o u) :
                 (s \o u)[i] = IF i <= Len(s) THEN s[i] ELSE t[i - Len(s)]
  <1> DEFINE u == First(t, room)
             v == s \o u
  <1>1. /\ u \in Seq(S) /\ Len(u) = (IF room < Len(t) THEN room ELSE Len(t))
        /\ \A i \in 1..Len(u) : u[i] = t[i]
    BY FirstOf
  <1> HIDE DEF u
  <1>2. /\ v \in Seq(S) /\ Len(v) = Len(s) + Len(u)
        /\ \A i \in 1..Len(v) : v[i] = IF i <= Len(s) THEN s[i] ELSE u[i - Len(s)]
    <2>1. u \in Seq(S)
      BY <1>1
    <2> QED
      BY <2>1, ConcatProperties
  <1> HIDE DEF v
  <1>3. Len(s) \in Nat /\ Len(t) \in Nat /\ Len(u) \in Nat /\ Len(u) <= room /\ Len(u) <= Len(t)
    BY <1>1
  <1>4. ASSUME NEW i \in 1..Len(v)
        PROVE  v[i] = IF i <= Len(s) THEN s[i] ELSE t[i - Len(s)]
    <2>1. CASE i <= Len(s)
      BY <1>2, <2>1
    <2>2. CASE ~(i <= Len(s))
      <3>1. i - Len(s) \in 1..Len(u)
        BY <1>2, <1>3, <2>2
      <3> QED
        BY <1>1, <1>2, <2>2, <3>1
    <2> QED
      BY <2>1, <2>2
  <1> QED
    BY <1>2, <1>3, <1>4 DEF u, v

\* What the Collector h becomes with the message m.
Collects(h, m, b) ==
    /\ Len(b.events) + Len(b.jumps) <= Cap
    /\ Len(b.events) + Len(b.jumps) + b.lost = Len(h.events) + Len(h.jumps) + h.lost + Size(m)
    /\ b.lost = 0 =>
          /\ h.lost = 0
          /\ Len(b.events) = Len(h.events) + Len(m.events)
          /\ Len(b.jumps) = Len(h.jumps) + Len(m.jumps)
          /\ \A i \in 1..Len(b.events) : b.events[i] =
                IF i <= Len(h.events) THEN h.events[i] ELSE m.events[i - Len(h.events)]
          /\ \A i \in 1..Len(b.jumps) : b.jumps[i] =
                IF i <= Len(h.jumps) THEN h.jumps[i] ELSE m.jumps[i - Len(h.jumps)]
    /\ b.done = (h.done \/ m.type = "done")
    /\ m.type = "done" => b.lost = h.lost + m.lost
    /\ b.errors = 0 => h.errors = 0 /\ m.type # "error"
    /\ m.type # "jump_batch" => b.jumps = h.jumps

\* apply_agent_record takes what fits under the cap and counts the rest.
LEMMA ApplyCollects ==
    ASSUME NEW E, NEW h \in Helpers(E), NEW m \in MessagesOf(E),
           Len(h.events) + Len(h.jumps) <= Cap
    PROVE  /\ Apply(h, m) \in Helpers(E) /\ Apply(h, m).pc = h.pc
           /\ Collects(h, m, Apply(h, m))
  <1> DEFINE b == Apply(h, m)
             room == Cap - Len(h.events) - Len(h.jumps)
             e == Len(h.events)
             j == Len(h.jumps)
             x == Len(m.events)
             y == Len(m.jumps)
  <1>1. /\ h.events \in Seq(E) /\ h.jumps \in Seq(Nat) /\ h.lost \in Nat /\ h.errors \in Nat
        /\ h.done \in BOOLEAN
    BY DEF Helpers
  <1>2. /\ m.type \in MessageTypes /\ m.events \in Seq(E) /\ m.jumps \in Seq(Nat)
        /\ m.lost \in Nat
        /\ m.type = "batch" <=> m.events # <<>>
        /\ m.type = "jump_batch" <=> m.jumps # <<>>
        /\ m.type # "done" => m.lost = 0
    BY DEF MessagesOf
  <1>3. e \in Nat /\ j \in Nat /\ x \in Nat /\ y \in Nat /\ e + j <= Cap /\ Cap \in Nat
    <2>1. e \in Nat /\ j \in Nat
      BY <1>1
    <2>2. x \in Nat /\ y \in Nat
      BY <1>2
    <2>3. Cap \in Nat
      BY ConstantAssumption
    <2> QED
      BY <2>1, <2>2, <2>3
  <1>4. room = Cap - e - j
    OBVIOUS
  <1>13. room \in Nat
    <2> HIDE DEF e, j, room
    <2> QED
      BY <1>3, <1>4
  <1>5. Size(m) = x + y + m.lost
    BY DEF Size
  <1>6. /\ m.type # "batch" => x = 0
        /\ m.type # "jump_batch" => y = 0
    BY <1>2
  <1>7. /\ \A i \in 1..e : i <= e
        /\ \A i \in 1..j : i <= j
    BY <1>3
  <1> HIDE DEF room
  <1>14. ASSUME NEW c \in Helpers(E),
                c.events = h.events, c.jumps = h.jumps, c.lost = h.lost + m.lost,
                c.done = (h.done \/ m.type = "done"),
                c.errors = 0 => h.errors = 0 /\ m.type # "error",
                m.type \notin {"batch", "jump_batch"}
         PROVE  Collects(h, m, c)
    <2>1. x = 0 /\ y = 0
      BY <1>6, <1>14
    <2> HIDE DEF e, j, x, y
    <2>2. /\ e + j + c.lost = e + j + h.lost + (x + y + m.lost)
          /\ e = e + x /\ j = j + y
          /\ c.lost = 0 => h.lost = 0
      <3> DEFINE n == c.lost
                 l == h.lost
                 o == m.lost
      <3>1. n \in Nat /\ l \in Nat /\ o \in Nat /\ n = l + o
        BY <1>1, <1>2, <1>14 DEF Helpers
      <3> HIDE DEF n, l, o
      <3>2. /\ e + j + n = e + j + l + (x + y + o)
            /\ e = e + x /\ j = j + y
            /\ n = 0 => l = 0
        BY <1>3, <2>1, <3>1
      <3> QED
        BY <3>2 DEF n, l, o
    <2>3. /\ Len(c.events) + Len(c.jumps) <= Cap
          /\ Len(c.events) + Len(c.jumps) + c.lost
                = Len(h.events) + Len(h.jumps) + h.lost + Size(m)
      BY <1>3, <1>5, <1>14, <2>2 DEF e, j
    <2>4. /\ Len(c.events) = Len(h.events) + Len(m.events)
          /\ Len(c.jumps) = Len(h.jumps) + Len(m.jumps)
      BY <1>14, <2>2 DEF e, j, x, y
    <2>5. /\ \A i \in 1..Len(c.events) : c.events[i] =
                IF i <= Len(h.events) THEN h.events[i] ELSE m.events[i - Len(h.events)]
          /\ \A i \in 1..Len(c.jumps) : c.jumps[i] =
                IF i <= Len(h.jumps) THEN h.jumps[i] ELSE m.jumps[i - Len(h.jumps)]
      BY <1>7, <1>14 DEF e, j
    <2> QED
      BY <1>14, <2>2, <2>3, <2>4, <2>5 DEF Collects
  <1>8. CASE m.type = "meta"
    <2>1. b = [h EXCEPT !.base = TRUE]
      BY <1>8 DEF Apply
    <2>2. /\ b \in Helpers(E) /\ b.pc = h.pc /\ b.events = h.events /\ b.jumps = h.jumps
          /\ b.lost = h.lost /\ b.done = h.done /\ b.errors = h.errors
      BY <2>1 DEF Helpers
    <2>3. b.lost = h.lost + m.lost
      BY <1>1, <1>2, <1>8, <2>2
    <2> HIDE DEF b
    <2>4. Collects(h, m, b)
      BY <1>1, <1>8, <1>14, <2>2, <2>3
    <2> QED
      BY <2>2, <2>4 DEF b
  <1>9. CASE m.type = "error"
    <2> DEFINE n == IF h.errors < MaxDiagnostics THEN h.errors + 1 ELSE h.errors
    <2>1. b = [h EXCEPT !.errors = n]
      BY <1>9 DEF Apply
    <2>2. n \in Nat /\ n # 0
      BY <1>1, ConstantAssumption
    <2> HIDE DEF n
    <2>3. /\ b \in Helpers(E) /\ b.pc = h.pc /\ b.events = h.events /\ b.jumps = h.jumps
          /\ b.lost = h.lost /\ b.done = h.done /\ b.errors # 0
      BY <2>1, <2>2 DEF Helpers
    <2>4. b.lost = h.lost + m.lost
      BY <1>1, <1>2, <1>9, <2>3
    <2> HIDE DEF b
    <2>5. Collects(h, m, b)
      BY <1>1, <1>9, <1>14, <2>3, <2>4
    <2> QED
      BY <2>3, <2>5 DEF b
  <1>10. CASE m.type = "done"
    <2> DEFINE n == h.lost + m.lost
    <2>1. b = [h EXCEPT !.done = TRUE, !.lost = n]
      BY <1>10 DEF Apply
    <2>2. n \in Nat
      BY <1>1, <1>2
    <2>3. n = h.lost + m.lost
      OBVIOUS
    <2> HIDE DEF n
    <2>4. /\ b \in Helpers(E) /\ b.pc = h.pc /\ b.events = h.events /\ b.jumps = h.jumps
          /\ b.lost = n /\ b.done = TRUE /\ b.errors = h.errors
      BY <2>1, <2>2 DEF Helpers
    <2> HIDE DEF b
    <2>5. Collects(h, m, b)
      BY <1>10, <1>14, <2>3, <2>4
    <2> QED
      BY <2>4, <2>5 DEF b
  <1>11. CASE m.type = "batch"
    <2> DEFINE u == First(m.events, room)
               v == h.events \o u
               k == Len(u)
               n == h.lost + x - k
    <2>1. b = [h EXCEPT !.events = v, !.lost = n]
      BY <1>11 DEF Apply, room
    <2>2. /\ v \in Seq(E) /\ k \in Nat /\ k <= room /\ k <= x /\ Len(v) = e + k
          /\ \A i \in 1..Len(v) : v[i] = IF i <= e THEN h.events[i] ELSE m.events[i - e]
      <3> DEFINE s == h.events
                 t == m.events
      <3>1. s \in Seq(E) /\ t \in Seq(E) /\ room \in Nat
        BY <1>1, <1>2, <1>13
      <3> HIDE DEF s, t
      <3>2. /\ s \o First(t, room) \in Seq(E) /\ Len(First(t, room)) \in Nat
            /\ Len(First(t, room)) <= room /\ Len(First(t, room)) <= Len(t)
            /\ Len(s \o First(t, room)) = Len(s) + Len(First(t, room))
            /\ \A i \in 1..Len(s \o First(t, room)) :
                  (s \o First(t, room))[i] = IF i <= Len(s) THEN s[i] ELSE t[i - Len(s)]
        BY <3>1, Taken
      <3> QED
        BY <3>2 DEF s, t
    <2>3. n = h.lost + x - k
      OBVIOUS
    <2> HIDE DEF u, v, k, n, e, j, x, y
    <2>4. n \in Nat /\ (n = 0 => h.lost = 0 /\ k = x)
      BY <1>1, <1>3, <2>2, <2>3
    <2>5. /\ b \in Helpers(E) /\ b.pc = h.pc /\ b.events = v /\ b.jumps = h.jumps
          /\ b.lost = n /\ b.done = h.done /\ b.errors = h.errors
      BY <2>1, <2>2, <2>4 DEF Helpers
    <2>6. /\ y = 0 /\ (e + k) + j + n = e + j + h.lost + (x + y + m.lost)
          /\ (e + k) + j <= Cap /\ j = j + y
      <3>1. y = 0 /\ m.lost = 0
        BY <1>2, <1>6, <1>11
      <3> QED
        BY <1>1, <1>3, <1>4, <2>2, <2>3, <3>1
    <2>7. /\ Len(b.events) = e + k /\ Len(b.jumps) = j
          /\ Size(m) = x + y + m.lost
      BY <1>5, <2>2, <2>5 DEF j, x, y
    <2> HIDE DEF b
    <2>8. /\ Len(b.events) + Len(b.jumps) <= Cap
          /\ Len(b.events) + Len(b.jumps) + b.lost = e + j + h.lost + Size(m)
          /\ b.lost = 0 =>
                /\ h.lost = 0 /\ Len(b.events) = e + x /\ Len(b.jumps) = j + y
                /\ \A i \in 1..Len(b.events) :
                      b.events[i] = IF i <= e THEN h.events[i] ELSE m.events[i - e]
      BY <2>2, <2>4, <2>5, <2>6, <2>7
    <2>9. \A i \in 1..Len(b.jumps) : b.jumps[i] =
             IF i <= Len(h.jumps) THEN h.jumps[i] ELSE m.jumps[i - Len(h.jumps)]
      BY <1>7, <2>5 DEF j
    <2>10. Collects(h, m, b)
      BY <1>1, <1>11, <2>5, <2>8, <2>9 DEF Collects, e, j, x, y
    <2> QED
      BY <2>5, <2>10 DEF b
  <1>12. CASE m.type = "jump_batch"
    <2> DEFINE u == First(m.jumps, room)
               v == h.jumps \o u
               k == Len(u)
               n == h.lost + y - k
    <2>1. b = [h EXCEPT !.jumps = v, !.lost = n]
      BY <1>12 DEF Apply, room
    <2>2. /\ v \in Seq(Nat) /\ k \in Nat /\ k <= room /\ k <= y /\ Len(v) = j + k
          /\ \A i \in 1..Len(v) : v[i] = IF i <= j THEN h.jumps[i] ELSE m.jumps[i - j]
      <3> DEFINE s == h.jumps
                 t == m.jumps
      <3>1. s \in Seq(Nat) /\ t \in Seq(Nat) /\ room \in Nat
        BY <1>1, <1>2, <1>13
      <3> HIDE DEF s, t
      <3>2. /\ s \o First(t, room) \in Seq(Nat) /\ Len(First(t, room)) \in Nat
            /\ Len(First(t, room)) <= room /\ Len(First(t, room)) <= Len(t)
            /\ Len(s \o First(t, room)) = Len(s) + Len(First(t, room))
            /\ \A i \in 1..Len(s \o First(t, room)) :
                  (s \o First(t, room))[i] = IF i <= Len(s) THEN s[i] ELSE t[i - Len(s)]
        BY <3>1, Taken
      <3> QED
        BY <3>2 DEF s, t
    <2>3. n = h.lost + y - k
      OBVIOUS
    <2> HIDE DEF u, v, k, n, e, j, x, y
    <2>4. n \in Nat /\ (n = 0 => h.lost = 0 /\ k = y)
      BY <1>1, <1>3, <2>2, <2>3
    <2>5. /\ b \in Helpers(E) /\ b.pc = h.pc /\ b.events = h.events /\ b.jumps = v
          /\ b.lost = n /\ b.done = h.done /\ b.errors = h.errors
      BY <2>1, <2>2, <2>4 DEF Helpers
    <2>6. /\ x = 0 /\ e + (j + k) + n = e + j + h.lost + (x + y + m.lost)
          /\ e + (j + k) <= Cap /\ e = e + x
      <3>1. x = 0 /\ m.lost = 0
        BY <1>2, <1>6, <1>12
      <3> QED
        BY <1>1, <1>3, <1>4, <2>2, <2>3, <3>1
    <2>7. /\ Len(b.events) = e /\ Len(b.jumps) = j + k
          /\ Size(m) = x + y + m.lost
      BY <1>5, <2>2, <2>5 DEF e, x, y
    <2> HIDE DEF b
    <2>8. /\ Len(b.events) + Len(b.jumps) <= Cap
          /\ Len(b.events) + Len(b.jumps) + b.lost = e + j + h.lost + Size(m)
          /\ b.lost = 0 =>
                /\ h.lost = 0 /\ Len(b.events) = e + x /\ Len(b.jumps) = j + y
                /\ \A i \in 1..Len(b.jumps) :
                      b.jumps[i] = IF i <= j THEN h.jumps[i] ELSE m.jumps[i - j]
      BY <2>2, <2>4, <2>5, <2>6, <2>7
    <2>9. \A i \in 1..Len(b.events) : b.events[i] =
             IF i <= Len(h.events) THEN h.events[i] ELSE m.events[i - Len(h.events)]
      BY <1>7, <2>5 DEF e
    <2>10. Collects(h, m, b)
      BY <1>1, <1>12, <2>5, <2>8, <2>9 DEF Collects, e, j, x, y
    <2> QED
      BY <2>5, <2>10 DEF b
  <1> QED
    BY <1>2, <1>8, <1>9, <1>10, <1>11, <1>12 DEF MessageTypes

\* The helper takes the first message of the stream.
LEMMA StreamRead ==
    ASSUME NEW M, NEW q \in Seq(M), NEW w \in Seq(M), q # <<>>
    PROVE  /\ q \o w \in Seq(M) /\ q \o w # <<>>
           /\ Head(q \o w) = Head(q) /\ Head(q) \in M /\ (q \o w)[1] = Head(q)
           /\ Tail(q) \in Seq(M)
           /\ Tail(q) \o w = Tail(q \o w)
           /\ Len(Tail(q) \o w) = Len(q \o w) - 1
           /\ \A i \in 1..Len(Tail(q) \o w) : (Tail(q) \o w)[i] = (q \o w)[i + 1]
  <1> DEFINE p == q \o w
             r == Tail(q)
             l == Len(q)
             n == Len(w)
             t == Tail(p)
             v == r \o w
  <1>1. /\ Head(q) \in M /\ r \in Seq(M) /\ Head(q) = q[1] /\ Len(r) = l - 1
        /\ \A i \in 1..Len(r) : r[i] = q[i + 1]
    BY HeadTailProperties, EmptySeq
  <1>2. l \in Nat \ {0} /\ n \in Nat
    BY EmptySeq
  <1>3. /\ p \in Seq(M) /\ Len(p) = l + n
        /\ \A i \in 1..Len(p) : p[i] = IF i <= Len(q) THEN q[i] ELSE w[i - Len(q)]
    BY ConcatProperties
  <1>4. /\ v \in Seq(M) /\ Len(v) = Len(r) + n
        /\ \A i \in 1..Len(v) : v[i] = IF i <= Len(r) THEN r[i] ELSE w[i - Len(r)]
    <2>1. r \in Seq(M)
      BY <1>1
    <2> HIDE DEF r
    <2> QED
      BY <2>1, ConcatProperties
  <1> HIDE DEF p, r, l, n, v
  <1>5. p # <<>> /\ Len(p) \in Nat \ {0}
    <2>1. Len(p) \in Nat \ {0}
      BY <1>2, <1>3
    <2> QED
      BY <2>1, EmptySeq
  <1>6. Head(p) = p[1] /\ p[1] = Head(q)
    <2>1. 1 \in 1..Len(p) /\ 1 <= l
      BY <1>2, <1>5
    <2>2. p[1] = q[1]
      BY <1>3, <2>1 DEF l
    <2>3. Head(p) = p[1]
      BY <1>3
    <2> QED
      BY <1>1, <2>2, <2>3
  <1>7. /\ t \in Seq(M) /\ Len(t) = Len(p) - 1
        /\ \A i \in 1..Len(t) : t[i] = p[i + 1]
    BY <1>3, <1>5, HeadTailProperties
  <1> HIDE DEF t
  <1>8. Len(v) = Len(t)
    BY <1>1, <1>2, <1>3, <1>4, <1>7
  <1>9. ASSUME NEW i \in 1..Len(v)
        PROVE  v[i] = t[i]
    <2>1. i + 1 \in 1..Len(p) /\ t[i] = p[i + 1]
      BY <1>3, <1>5, <1>7, <1>8
    <2>2. CASE i <= Len(r)
      <3>1. i \in 1..Len(r) /\ i + 1 <= l
        BY <1>1, <1>2, <2>2
      <3> QED
        BY <1>1, <1>3, <1>4, <2>1, <2>2, <3>1 DEF l
    <2>3. CASE ~(i <= Len(r))
      <3>1. ~(i + 1 <= l) /\ i - Len(r) = (i + 1) - l
        BY <1>1, <1>2, <2>3
      <3>2. p[i + 1] = w[(i + 1) - l]
        BY <1>3, <2>1, <3>1 DEF l
      <3> QED
        BY <1>4, <2>1, <2>3, <3>1, <3>2
    <2> QED
      BY <2>2, <2>3
  <1>10. v = t
    BY <1>4, <1>7, <1>8, <1>9, SeqEqual
  <1> QED
    BY <1>1, <1>3, <1>5, <1>6, <1>7, <1>10 DEF p, r, t, v

\* A stream of errors holds no event.
LEMMA ErrorsFlow ==
    ASSUME NEW M, NEW p \in Seq(M), NEW h, NEW n, Len(h.events) \in Nat,
           \A k \in 1..Len(p) : p[k].type = "error" /\ p[k].events = <<>>
    PROVE  \E g : EventsFlow(h, p, n, g)
  <1> DEFINE c == Len(h.events)
             g == [k \in 1..(Len(p) + 1) |-> c]
  <1>1. Len(p) \in Nat /\ c \in Nat
    OBVIOUS
  <1> HIDE DEF c
  <1>2. g \in [1..(Len(p) + 1) -> Nat] /\ \A k \in 1..(Len(p) + 1) : g[k] = c
    BY <1>1
  <1> HIDE DEF g
  <1>3. g[1] = Len(h.events)
    BY <1>1, <1>2 DEF c
  <1>4. ASSUME NEW k \in 1..Len(p)
        PROVE  /\ g[k + 1] = g[k] + Len(p[k].events)
               /\ \A i \in 1..Len(p[k].events) : p[k].events[i].n = g[k] + i
               /\ p[k].type # "done"
    <2>1. k \in 1..(Len(p) + 1) /\ k + 1 \in 1..(Len(p) + 1)
      BY <1>1
    <2>2. Len(p[k].events) = 0 /\ p[k].type = "error"
      BY EmptySeq
    <2> QED
      BY <1>1, <1>2, <2>1, <2>2
  <1>5. EventsFlow(h, p, n, g)
    BY <1>2, <1>3, <1>4 DEF EventsFlow
  <1> QED
    BY <1>5

\* A record is collected; one after the end makes the helper fail.
LEMMA ReadKeeps ==
    ASSUME IInv, Read
    PROVE  IInv'
  <1> DEFINE M == MessagesOf(Happened)
             m == Head(queue)
             p == Stream
             r == Tail(queue) \o agent.wire
  <1>1. TypeOK
    BY DEF IInv
  <1>2. agent.wire \in Seq(M) /\ queue # <<>> /\ queue \in Seq(M)
    BY <1>1, Parts DEF Read
  <1>3. /\ p \in Seq(M) /\ p # <<>>
        /\ Head(p) = m /\ m \in M /\ p[1] = m
        /\ Tail(queue) \in Seq(M)
        /\ r = Tail(p)
        /\ Len(r) = Len(p) - 1
        /\ \A i \in 1..Len(r) : r[i] = p[i + 1]
    <2> DEFINE q == queue
               w == agent.wire
    <2>1. w \in Seq(M) /\ q # <<>> /\ q \in Seq(M)
      BY <1>2
    <2> HIDE DEF q, w, M
    <2>2. /\ q \o w \in Seq(M) /\ q \o w # <<>>
          /\ Head(q \o w) = Head(q) /\ Head(q) \in M /\ (q \o w)[1] = Head(q)
          /\ Tail(q) \in Seq(M)
          /\ Tail(q) \o w = Tail(q \o w)
          /\ Len(Tail(q) \o w) = Len(q \o w) - 1
          /\ \A i \in 1..Len(Tail(q) \o w) : (Tail(q) \o w)[i] = (q \o w)[i + 1]
      BY <2>1, StreamRead
    <2> QED
      BY <2>2 DEF Stream, q, w
  <1>4. /\ helper.pc \in {"watch", "drain"} /\ queue' = Tail(queue)
        /\ UNCHANGED <<agent, seen, dropped, trace>>
        /\ \/ ~helper.done /\ helper' = Apply(helper, m) /\ detached' = detached
           \/ helper.done /\ helper' = [helper EXCEPT !.pc = "failed"] /\ detached' = TRUE
    BY DEF Read, Goto
  <1>5. Stream' = r
    BY <1>4 DEF Stream
  <1>6. Len(p) \in Nat /\ Len(p) >= 1 /\ Len(r) \in Nat /\ 1 \in 1..Len(p)
    <2>1. Len(p) \in Nat \ {0}
      BY <1>3, EmptySeq
    <2> QED
      BY <1>3, <2>1
  <1>7. ASSUME NEW k \in 1..Len(r)
        PROVE  k + 1 \in 1..Len(p) /\ r[k] = p[k + 1] /\ k + 1 \in (1 + 1)..Len(p)
    <2>1. r[k] = p[k + 1]
      BY <1>3
    <2> HIDE DEF p, r
    <2>2. k + 1 \in 1..Len(p) /\ k + 1 \in (1 + 1)..Len(p)
      BY <1>3, <1>6
    <2> QED
      BY <2>1, <2>2
  <1>8. /\ p[1].type = "done" => m.lost = agent.lost
                                 /\ \A k \in 1..Len(r) : r[k].type = "error"
        /\ \A k \in 1..Len(r) : r[k].type = "done" =>
              /\ r[k].lost = agent.lost
              /\ \A j \in (k + 1)..Len(r) : r[j].type = "error"
    <2>1. \A k \in 1..Len(p) : p[k].type = "done" =>
             /\ p[k].lost = agent.lost
             /\ \A j \in (k + 1)..Len(p) : p[j].type = "error"
      BY DEF IInv, EndInv
    <2>2. p[1].type = "done" => m.lost = agent.lost
                                /\ \A k \in 1..Len(r) : r[k].type = "error"
      BY <1>3, <1>6, <1>7, <2>1
    <2>3. ASSUME NEW k \in 1..Len(r), r[k].type = "done"
          PROVE  /\ r[k].lost = agent.lost
                 /\ \A j \in (k + 1)..Len(r) : r[j].type = "error"
      <3>1. k + 1 \in 1..Len(p) /\ r[k] = p[k + 1]
        BY <1>7
      <3>2. /\ p[k + 1].lost = agent.lost
            /\ \A j \in ((k + 1) + 1)..Len(p) : p[j].type = "error"
        BY <2>1, <2>3, <3>1
      <3>3. ASSUME NEW j \in (k + 1)..Len(r)
            PROVE  r[j].type = "error"
        <4>1. j \in 1..Len(r) /\ j + 1 \in ((k + 1) + 1)..Len(p)
          BY <1>3, <1>6
        <4>2. r[j] = p[j + 1]
          BY <1>3, <4>1
        <4> QED
          BY <3>2, <4>1, <4>2
      <3> QED
        BY <3>1, <3>2, <3>3
    <2> QED
      BY <2>2, <2>3
  <1>9. /\ helper.events \in Seq(Happened) /\ helper.jumps \in Seq(Nat)
        /\ Len(helper.events) \in Nat /\ Len(helper.jumps) \in Nat /\ helper.lost \in Nat
        /\ dropped \in Nat /\ helper \in Helpers(Happened) /\ agent.jumps \in Seq(Nat)
        /\ Len(agent.jumps) \in Nat /\ helper.done \in BOOLEAN /\ Accounted \in Nat
        /\ Len(helper.events) + Len(helper.jumps) <= Cap
    BY <1>1, Parts DEF TypeOK
  <1>10. /\ m.type \in MessageTypes /\ m.events \in Seq(Happened) /\ m.jumps \in Seq(Nat)
         /\ m.lost \in Nat
         /\ m.type = "batch" <=> m.events # <<>>
         /\ m.type = "jump_batch" <=> m.jumps # <<>>
         /\ m.type # "done" => m.lost = 0
         /\ Len(m.events) \in Nat /\ Len(m.jumps) \in Nat
         /\ Size(m) \in Nat
    <2>1. Size(m) \in Nat
      BY <1>3, WeightOf
    <2>2. m \in M
      BY <1>3
    <2> HIDE DEF m
    <2> QED
      BY <2>1, <2>2 DEF MessagesOf
  <1>11. Happened' = Happened /\ Owed' = Owed /\ PhaseInv' /\ JumpsInv' /\ BalanceInv'
    BY <1>4 DEF IInv, Happened, Owed, PhaseInv, JumpsInv, BalanceInv
  <1>12. Owed \in Int
    BY <1>1, OwedNumber DEF IInv
  <1>13. TraceInv'
    <2>1. trace = None
      BY <1>4 DEF IInv, TraceInv
    <2> QED
      BY <1>4, <2>1 DEF TraceInv, TraceTyped, CompletedIsComplete, LossIsAccounted,
                        NoGapWithoutLoss, EvidenceIsAccepted
  <1> HIDE DEF m, r, p
  <1>14. EventsInv /\ JumpFlowInv /\ SizesInv /\ EndInv /\ Stream = p
    BY DEF IInv, p
  <1>15. CASE /\ ~helper.done /\ detached' = detached
              /\ helper' \in Helpers(Happened)
              /\ Collects(helper, m, helper')
    <2>1. TypeOK'
      BY <1>1, <1>3, <1>4, <1>11, <1>15 DEF TypeOK, Collects
    <2>2. /\ helper'.done <=> m.type = "done"
          /\ m.type = "done" => helper'.lost = helper.lost + m.lost
      BY <1>15 DEF Collects
    <2>3. EndInv'
      <3>1. ASSUME agent'.phase # "finished"
            PROVE  /\ ~helper'.done
                   /\ helper'.jumps = <<>>
                   /\ \A k \in 1..Len(r) : r[k].type \notin {"jump_batch", "done"}
        <4>1. \A k \in 1..Len(p) : p[k].type \notin {"jump_batch", "done"}
          BY <1>4, <1>14, <3>1 DEF EndInv
        <4>2. m.type \notin {"jump_batch", "done"}
          BY <1>3, <1>6, <4>1
        <4>3. helper'.jumps = <<>>
          BY <1>4, <1>14, <1>15, <3>1, <4>2 DEF Collects, EndInv
        <4> QED
          BY <1>7, <2>2, <4>1, <4>2, <4>3
      <3>2. helper'.done => \A k \in 1..Len(r) : r[k].type = "error"
        BY <1>3, <1>8, <2>2
      <3>3. helper'.done /\ helper'.lost = 0 => agent'.lost = 0
        <4>1. helper'.done /\ helper'.lost = 0 => m.lost = 0 /\ p[1].type = "done"
          BY <1>3, <1>9, <1>10, <2>2
        <4> QED
          BY <1>4, <1>8, <4>1
      <3> QED
        BY <1>4, <1>5, <1>8, <3>1, <3>2, <3>3 DEF EndInv
    <2>4. Lossless' => Lossless
      BY <1>4, <1>15 DEF Lossless, Collects
    <2>5. EventsInv'
      <3> SUFFICES ASSUME Lossless'
                   PROVE  /\ \E f : /\ EventsFlow(helper', r, seen.events, f)
                                    /\ ~detached /\ Whole(agent) =>
                                          Behind(helper', r, agent.sink, seen.events, f)
                          /\ helper'.errors = 0 =>
                                /\ \A i \in 1..Len(helper'.events) : helper'.events[i].n = i
                                /\ helper'.done => Len(helper'.events) = seen.events
        BY <1>4, <1>5, <1>15 DEF EventsInv
      <3>1. Lossless /\ helper'.lost = 0
        BY <2>4 DEF Lossless
      <3>2. PICK f : /\ EventsFlow(helper, p, seen.events, f)
                     /\ ~detached /\ Whole(agent) =>
                           Behind(helper, p, agent.sink, seen.events, f)
        BY <1>14, <3>1 DEF EventsInv
      <3>3. /\ Len(helper'.events) = Len(helper.events) + Len(m.events)
            /\ \A i \in 1..Len(helper'.events) : helper'.events[i] =
                  IF i <= Len(helper.events) THEN helper.events[i]
                  ELSE m.events[i - Len(helper.events)]
            /\ helper'.errors = 0 => helper.errors = 0 /\ m.type # "error"
        BY <1>15, <3>1 DEF Collects
      <3>4. \E g : /\ EventsFlow(helper', r, seen.events, g)
                   /\ Behind(helper, p, agent.sink, seen.events, f) =>
                         Behind(helper', r, agent.sink, seen.events, g)
        <4> DEFINE h2 == helper'
                   n == seen.events
                   s == agent.sink
        <4>1. /\ p \in Seq(M) /\ p # <<>> /\ Head(p) = m /\ r = Tail(p)
              /\ Len(h2.events) = Len(helper.events) + Len(Head(p).events)
              /\ h2.errors = 0 => helper.errors = 0 /\ Head(p).type # "error"
              /\ EventsFlow(helper, p, n, f)
          BY <1>3, <3>2, <3>3
        <4> HIDE DEF M, h2, n, s
        <4>2. \E g : /\ EventsFlow(h2, Tail(p), n, g)
                     /\ Behind(helper, p, s, n, f) => Behind(h2, Tail(p), s, n, g)
          BY <4>1, EventsRead
        <4> QED
          BY <4>1, <4>2 DEF h2, n, s
      <3>5. ASSUME helper'.errors = 0
            PROVE  /\ \A i \in 1..Len(helper'.events) : helper'.events[i].n = i
                   /\ helper'.done => Len(helper'.events) = seen.events
        <4>1. helper.errors = 0 /\ Clean(helper, p, 1)
          BY <3>3, <3>5 DEF Clean
        <4>2. /\ \A i \in 1..Len(p[1].events) : p[1].events[i].n = f[1] + i
              /\ p[1].type = "done" /\ p[1].lost = 0 => f[1] = seen.events
              /\ f[1] = Len(helper.events)
          BY <1>6, <3>2, <4>1 DEF EventsFlow
        <4>3. \A i \in 1..Len(helper.events) : helper.events[i].n = i
          BY <1>14, <3>1, <4>1 DEF EventsInv
        <4>4. ASSUME NEW i \in 1..Len(helper'.events)
              PROVE  helper'.events[i].n = i
          <5>1. CASE i <= Len(helper.events)
            <6>1. i \in 1..Len(helper.events)
              <7> DEFINE l == Len(helper.events)
                         x == Len(helper'.events)
                         y == Len(m.events)
              <7>1. l \in Nat /\ y \in Nat /\ x = l + y /\ i \in 1..x /\ i <= l
                BY <1>9, <1>10, <3>3, <5>1
              <7> HIDE DEF l, x, y
              <7>2. i \in 1..l
                BY <7>1
              <7> QED
                BY <7>2 DEF l
            <6>2. helper'.events[i] = helper.events[i]
              BY <3>3, <5>1, Zenon
            <6> QED
              BY <4>3, <6>1, <6>2
          <5>2. CASE ~(i <= Len(helper.events))
            <6> DEFINE l == Len(helper.events)
                       x == Len(m.events)
            <6>1. l \in Nat /\ x \in Nat /\ i \in 1..(l + x) /\ ~(i <= l)
              BY <1>9, <1>10, <3>3, <5>2
            <6>2. helper'.events[i] = m.events[i - l]
              BY <3>3, <5>2
            <6>3. i - l \in 1..Len(p[1].events) => m.events[i - l].n = l + (i - l)
              BY <1>3, <4>2
            <6>4. Len(p[1].events) = x
              BY <1>3
            <6> HIDE DEF l, x
            <6>5. i - l \in 1..x /\ l + (i - l) = i
              BY <6>1
            <6> QED
              BY <6>2, <6>3, <6>4, <6>5
          <5> QED
            BY <5>1, <5>2
        <4>5. ASSUME helper'.done
              PROVE  Len(helper'.events) = seen.events
          <5>1. m.type = "done" /\ helper'.lost = helper.lost + m.lost
            BY <2>2, <4>5
          <5>2. m.lost = 0 /\ Len(m.events) = 0
            BY <1>9, <1>10, <3>1, <5>1
          <5> QED
            BY <1>3, <1>9, <3>3, <4>2, <5>1, <5>2
        <4> QED
          BY <4>4, <4>5
      <3> QED
        BY <3>2, <3>4, <3>5
    <2>6. JumpFlowInv'
      <3> SUFFICES ASSUME Lossless'
                   PROVE  /\ \E f : /\ JumpsFlow(helper', r, agent.jumps, f)
                                    /\ ~detached /\ agent.phase # "finished" =>
                                          f[Len(r) + 1] = 0
                          /\ Len(helper'.jumps) <= Len(agent.jumps)
                          /\ \A i \in 1..Len(helper'.jumps) : helper'.jumps[i] = agent.jumps[i]
                          /\ helper'.done => Len(helper'.jumps) = Len(agent.jumps)
        BY <1>4, <1>5, <1>15 DEF JumpFlowInv
      <3>1. Lossless /\ helper'.lost = 0
        BY <2>4 DEF Lossless
      <3>2. PICK f : /\ JumpsFlow(helper, p, agent.jumps, f)
                     /\ ~detached /\ agent.phase # "finished" => f[Len(p) + 1] = 0
        BY <1>14, <3>1 DEF JumpFlowInv
      <3>3. /\ Len(helper'.jumps) = Len(helper.jumps) + Len(m.jumps)
            /\ \A i \in 1..Len(helper'.jumps) : helper'.jumps[i] =
                  IF i <= Len(helper.jumps) THEN helper.jumps[i]
                  ELSE m.jumps[i - Len(helper.jumps)]
        BY <1>15, <3>1 DEF Collects
      <3>4. \E g : /\ JumpsFlow(helper', r, agent.jumps, g)
                   /\ g[Len(r) + 1] = f[Len(p) + 1]
        <4> DEFINE h2 == helper'
                   jumps == agent.jumps
        <4>1. /\ p \in Seq(M) /\ p # <<>> /\ Head(p) = m /\ r = Tail(p)
              /\ JumpsTaken(helper, Head(p), h2)
              /\ JumpsFlow(helper, p, jumps, f)
          BY <1>3, <3>2, <3>3 DEF JumpsTaken
        <4> HIDE DEF M, h2, jumps
        <4>2. /\ JumpsFlow(h2, Tail(p), jumps, Rest(p, f))
              /\ Rest(p, f)[Len(Tail(p)) + 1] = f[Len(p) + 1]
          BY <4>1, JumpsRead
        <4> QED
          BY <4>1, <4>2 DEF h2, jumps
      <3>5. /\ f[1] = Len(helper.jumps) /\ f[2] = f[1] + Len(m.jumps)
            /\ f[2] <= Len(agent.jumps)
            /\ \A i \in 1..Len(m.jumps) : m.jumps[i] = agent.jumps[f[1] + i]
            /\ m.type = "done" => f[1] = Len(agent.jumps)
        <4>1. /\ f[1 + 1] = f[1] + Len(p[1].jumps)
              /\ f[1] = Len(helper.jumps)
              /\ \A i \in 1..Len(p[1].jumps) : p[1].jumps[i] = agent.jumps[f[1] + i]
              /\ p[1].type = "done" => f[1] = Len(agent.jumps)
          BY <1>6, <3>2 DEF JumpsFlow
        <4>2. 2 \in 1..(Len(p) + 1) /\ 1 + 1 = 2
          BY <1>6
        <4>3. f[2] <= Len(agent.jumps)
          BY <3>2, <4>2 DEF JumpsFlow
        <4>4. f[2] = f[1] + Len(p[1].jumps)
          BY <4>1, <4>2, Zenon
        <4> QED
          BY <1>3, <4>1, <4>3, <4>4
      <3>6. Len(helper'.jumps) <= Len(agent.jumps)
        BY <3>3, <3>5, ZenonT(40)
      <3>7. ASSUME NEW i \in 1..Len(helper'.jumps)
            PROVE  helper'.jumps[i] = agent.jumps[i]
        <4>1. CASE i <= Len(helper.jumps)
          <5>1. i \in 1..Len(helper.jumps)
            <6> DEFINE l == Len(helper.jumps)
                       x == Len(helper'.jumps)
                       y == Len(m.jumps)
            <6>1. l \in Nat /\ y \in Nat /\ x = l + y /\ i \in 1..x /\ i <= l
              BY <1>9, <1>10, <3>3, <4>1
            <6> HIDE DEF l, x, y
            <6>2. i \in 1..l
              BY <6>1
            <6> QED
              BY <6>2 DEF l
          <5>2. helper'.jumps[i] = helper.jumps[i]
            BY <3>3, <4>1, Zenon
          <5> QED
            BY <1>14, <3>1, <5>1, <5>2 DEF JumpFlowInv
        <4>2. CASE ~(i <= Len(helper.jumps))
          <5> DEFINE l == Len(helper.jumps)
                     x == Len(m.jumps)
          <5>1. l \in Nat /\ x \in Nat /\ i \in 1..(l + x) /\ ~(i <= l)
            BY <1>9, <1>10, <3>3, <4>2
          <5>2. helper'.jumps[i] = m.jumps[i - l]
            BY <3>3, <4>2
          <5>3. i - l \in 1..x => m.jumps[i - l] = agent.jumps[l + (i - l)]
            BY <3>5
          <5> HIDE DEF l, x
          <5>4. i - l \in 1..x /\ l + (i - l) = i
            BY <5>1
          <5> QED
            BY <5>2, <5>3, <5>4
        <4> QED
          BY <4>1, <4>2
      <3>8. helper'.done => Len(helper'.jumps) = Len(agent.jumps)
        <4> DEFINE l == Len(helper.jumps)
                   x == Len(m.jumps)
        <4>1. helper'.done => m.type = "done" /\ x = 0
          BY <1>10, <2>2
        <4>2. l \in Nat /\ Len(helper'.jumps) = l + x
          BY <1>9, <3>3
        <4>3. m.type = "done" => l = Len(agent.jumps)
          BY <3>5
        <4> HIDE DEF l, x
        <4> QED
          BY <4>1, <4>2, <4>3
      <3> QED
        BY <3>2, <3>4, <3>6, <3>7, <3>8
    <2>7. SizesInv'
      <3>1. Accounted' = Accounted + Size(m)
        <4> DEFINE x == Len(helper.events)
                   y == Len(helper.jumps)
                   u == Len(helper'.events)
                   v == Len(helper'.jumps)
                   n == helper'.lost
                   z == Size(m)
        <4>1. u + v + n = x + y + helper.lost + z
          BY <1>15 DEF Collects
        <4>2. /\ x \in Nat /\ y \in Nat /\ z \in Nat /\ u \in Nat /\ v \in Nat /\ n \in Nat
              /\ helper.lost \in Nat
          <5>1. helper'.events \in Seq(Happened) /\ helper'.jumps \in Seq(Nat)
                /\ helper'.lost \in Nat
            BY <1>15 DEF Helpers
          <5> QED
            BY <1>9, <1>10, <5>1
        <4>3. Accounted' = u + v + n + dropped' /\ Accounted = x + y + helper.lost + dropped
              /\ dropped' = dropped
          BY <1>4 DEF Accounted
        <4> DEFINE d == dropped
                   b == helper.lost
        <4>5. /\ d \in Nat /\ b \in Nat /\ Accounted' = u + v + n + d /\ Accounted = x + y + b + d
              /\ u + v + n = x + y + b + z
          BY <1>9, <4>1, <4>3
        <4> HIDE DEF x, y, u, v, n, z, d, b
        <4>4. Accounted' = Accounted + z
          BY <4>2, <4>5
        <4> QED
          BY <4>4 DEF z
      <3> SUFFICES ASSUME seen.errors = 0
                   PROVE  /\ \E f : /\ SizesFlow(Accounted + Size(m), r, Owed, f)
                                    /\ ~detached /\ agent.phase # "finished" =>
                                          f[Len(r) + 1] >= agent.count - Len(agent.jumps)
                          /\ helper'.done => Accounted + Size(m) >= Owed
        BY <1>4, <1>5, <1>11, <1>15, <3>1 DEF SizesInv
      <3>2. PICK f : /\ SizesFlow(Accounted, p, Owed, f)
                     /\ ~detached /\ agent.phase # "finished" =>
                           f[Len(p) + 1] >= agent.count - Len(agent.jumps)
        BY <1>14 DEF SizesInv
      <3>3. \E g : /\ SizesFlow(Accounted + Size(m), r, Owed, g)
                   /\ g[Len(r) + 1] = f[Len(p) + 1]
        <4> DEFINE a == Accounted
                   o == Owed
        <4>1. /\ p \in Seq(M) /\ p # <<>> /\ Head(p) = m /\ r = Tail(p)
              /\ SizesFlow(a, p, o, f)
          BY <1>3, <3>2
        <4> HIDE DEF M, a, o
        <4>2. \E g : /\ SizesFlow(a + Size(Head(p)), Tail(p), o, g)
                     /\ g[Len(Tail(p)) + 1] = f[Len(p) + 1]
          BY <4>1, SizesRead
        <4> QED
          BY <4>1, <4>2 DEF a, o
      <3>4. helper'.done => Accounted + Size(m) >= Owed
        <4>1. /\ f[1 + 1] = f[1] + Size(p[1])
              /\ p[1].type = "done" => f[1 + 1] >= Owed
              /\ f[1] = Accounted
          BY <1>6, <3>2 DEF SizesFlow
        <4> QED
          BY <1>3, <2>2, <4>1
      <3> QED
        BY <3>2, <3>3, <3>4
    <2> QED
      BY <1>11, <1>13, <2>1, <2>3, <2>5, <2>6, <2>7 DEF IInv
  <1>16. CASE helper.done /\ helper' = [helper EXCEPT !.pc = "failed"] /\ detached' = TRUE
    <2>1. /\ helper' \in Helpers(Happened)
          /\ helper'.events = helper.events /\ helper'.jumps = helper.jumps
          /\ helper'.done = helper.done /\ helper'.lost = helper.lost
          /\ helper'.errors = helper.errors
      BY <1>9, <1>16 DEF Helpers, Pcs
    <2>2. \A k \in 1..Len(p) : p[k].type = "error"
      BY <1>14, <1>16 DEF EndInv
    <2>3. m.type = "error" /\ Len(m.events) = 0 /\ Len(m.jumps) = 0 /\ m.lost = 0 /\ Size(m) = 0
      <3>1. m.type = "error"
        BY <1>3, <1>6, <2>2
      <3>2. Len(m.events) = 0 /\ Len(m.jumps) = 0 /\ m.lost = 0
        BY <1>10, <3>1
      <3> QED
        BY <3>1, <3>2 DEF Size
    <2>4. \A k \in 1..Len(r) : r[k].type = "error" /\ r[k].events = <<>>
      <3>1. \A k \in 1..Len(p) : p[k] \in M
        BY <1>3
      <3>2. \A k \in 1..Len(p) : p[k].events = <<>>
        BY <2>2, <3>1 DEF MessagesOf
      <3> QED
        BY <1>7, <2>2, <3>2
    <2>5. TypeOK'
      BY <1>1, <1>3, <1>4, <1>11, <1>16, <2>1 DEF TypeOK
    <2>6. EndInv'
      <3>1. agent.phase = "finished"
        BY <1>14, <1>16 DEF EndInv
      <3>2. helper'.done /\ helper'.lost = 0 => agent'.lost = 0
        BY <1>4, <1>14, <2>1 DEF EndInv
      <3> QED
        BY <1>4, <1>5, <1>8, <2>4, <3>1, <3>2 DEF EndInv
    <2>7. (Lossless' <=> Lossless) /\ Accounted' = Accounted
      BY <1>4, <2>1 DEF Lossless, Accounted
    <2>8. EventsInv'
      <3>1. \E f : EventsFlow(helper', r, seen.events, f)
        <4>1. r \in Seq(M)
          BY <1>3, HeadTailProperties
        <4>2. Len(helper'.events) \in Nat
          BY <1>9, <2>1
        <4> HIDE DEF M
        <4> QED
          BY <2>4, <4>1, <4>2, ErrorsFlow
      <3>2. Lossless /\ helper.errors = 0 =>
               /\ \A i \in 1..Len(helper.events) : helper.events[i].n = i
               /\ helper.done => Len(helper.events) = seen.events
        BY <1>14 DEF EventsInv
      <3> QED
        BY <1>4, <1>5, <1>16, <2>1, <2>7, <3>1, <3>2 DEF EventsInv
    <2>9. JumpFlowInv'
      <3> SUFFICES ASSUME Lossless
                   PROVE  \E f : JumpsFlow(helper', r, agent.jumps, f)
        BY <1>4, <1>5, <1>14, <1>16, <2>1, <2>7 DEF JumpFlowInv
      <3>1. PICK f : JumpsFlow(helper, p, agent.jumps, f)
        BY <1>14 DEF JumpFlowInv
      <3> DEFINE h2 == helper'
                 jumps == agent.jumps
      <3>2. JumpsTaken(helper, Head(p), h2)
        <4> DEFINE l == Len(helper.jumps)
        <4>1. l \in Nat /\ Len(h2.jumps) = l /\ Len(Head(p).jumps) = 0
          BY <1>3, <1>9, <2>1, <2>3
        <4> HIDE DEF l
        <4>2. Len(h2.jumps) = l + Len(Head(p).jumps)
          BY <4>1
        <4> QED
          BY <4>2 DEF l, JumpsTaken
      <3>3. p \in Seq(M) /\ p # <<>> /\ r = Tail(p) /\ JumpsFlow(helper, p, jumps, f)
        BY <1>3, <3>1
      <3> HIDE DEF M, h2, jumps
      <3>4. JumpsFlow(h2, Tail(p), jumps, Rest(p, f))
        BY <3>2, <3>3, JumpsRead
      <3> QED
        BY <3>3, <3>4 DEF h2, jumps
    <2>10. SizesInv'
      <3> SUFFICES ASSUME seen.errors = 0
                   PROVE  \E f : SizesFlow(Accounted, r, Owed, f)
        BY <1>4, <1>5, <1>11, <1>14, <1>16, <2>1, <2>7 DEF SizesInv
      <3>1. PICK f : SizesFlow(Accounted, p, Owed, f)
        BY <1>14 DEF SizesInv
      <3> DEFINE a == Accounted
                 o == Owed
      <3>2. p \in Seq(M) /\ p # <<>> /\ Head(p) = m /\ r = Tail(p) /\ SizesFlow(a, p, o, f)
        BY <1>3, <3>1
      <3>3. a + Size(m) = a
        BY <1>9, <2>3
      <3> HIDE DEF M, a, o
      <3>4. \E g : /\ SizesFlow(a + Size(Head(p)), Tail(p), o, g)
                   /\ g[Len(Tail(p)) + 1] = f[Len(p) + 1]
        BY <3>2, SizesRead
      <3> QED
        BY <3>2, <3>3, <3>4 DEF a, o
    <2> QED
      BY <1>11, <1>13, <2>5, <2>6, <2>8, <2>9, <2>10 DEF IInv
  <1>17. Apply(helper, m) \in Helpers(Happened) /\ Collects(helper, m, Apply(helper, m))
    BY <1>3, <1>9, ApplyCollects
  <1> QED
    BY <1>4, <1>15, <1>16, <1>17

\* A step of the helper that neither reads a message nor collects anything keeps
\* what is known of the stream.
LEMMA QuietKeeps ==
    ASSUME IInv, UNCHANGED <<agent, seen, queue, dropped>>,
           helper' \in Helpers(Happened),
           helper'.events = helper.events, helper'.jumps = helper.jumps,
           helper'.done = helper.done, helper'.lost = helper.lost,
           helper'.errors = helper.errors,
           detached' \in BOOLEAN, detached => detached', TraceInv'
    PROVE  IInv'
  <1>1. /\ Happened' = Happened /\ Owed' = Owed /\ Stream' = Stream /\ Accounted' = Accounted
        /\ (Lossless' <=> Lossless)
    BY DEF Happened, Owed, Stream, Accounted, Lossless
  <1>2. TypeOK'
    BY <1>1 DEF IInv, TypeOK
  <1>3. PhaseInv' /\ JumpsInv' /\ BalanceInv'
    BY <1>1 DEF IInv, PhaseInv, JumpsInv, BalanceInv
  <1>4. EndInv'
    BY <1>1 DEF IInv, EndInv
  <1>5. \A p, k : Clean(helper', p, k) <=> Clean(helper, p, k)
    BY DEF Clean
  <1>6. EventsInv'
    <2>1. \A p, n, f : EventsFlow(helper, p, n, f) => EventsFlow(helper', p, n, f)
      BY <1>5 DEF EventsFlow
    <2>2. \A p, s, n, f : Behind(helper, p, s, n, f) => Behind(helper', p, s, n, f)
      BY <1>5 DEF Behind
    <2> SUFFICES ASSUME Lossless
                 PROVE  \E f : /\ EventsFlow(helper', Stream, seen.events, f)
                               /\ ~detached' /\ Whole(agent) =>
                                     Behind(helper', Stream, agent.sink, seen.events, f)
      <3>1. Lossless /\ helper.errors = 0 =>
               /\ \A i \in 1..Len(helper.events) : helper.events[i].n = i
               /\ helper.done => Len(helper.events) = seen.events
        BY DEF IInv, EventsInv
      <3>2. Whole(agent') = Whole(agent)
        BY DEF Whole
      <3> QED
        BY <1>1, <3>1, <3>2 DEF EventsInv
    <2>3. PICK f : /\ EventsFlow(helper, Stream, seen.events, f)
                   /\ ~detached /\ Whole(agent) =>
                         Behind(helper, Stream, agent.sink, seen.events, f)
      BY DEF IInv, EventsInv
    <2> QED
      BY <2>1, <2>2, <2>3
  <1>7. JumpFlowInv'
    <2>1. \A p, jumps, f : JumpsFlow(helper, p, jumps, f) => JumpsFlow(helper', p, jumps, f)
      BY DEF JumpsFlow
    <2> SUFFICES ASSUME Lossless
                 PROVE  \E f : /\ JumpsFlow(helper', Stream, agent.jumps, f)
                               /\ ~detached' /\ agent.phase # "finished" =>
                                     f[Len(Stream) + 1] = 0
      <3>1. Lossless =>
               /\ Len(helper.jumps) <= Len(agent.jumps)
               /\ \A i \in 1..Len(helper.jumps) : helper.jumps[i] = agent.jumps[i]
               /\ helper.done => Len(helper.jumps) = Len(agent.jumps)
        BY DEF IInv, JumpFlowInv
      <3> QED
        BY <1>1, <3>1 DEF JumpFlowInv
    <2>2. PICK f : /\ JumpsFlow(helper, Stream, agent.jumps, f)
                   /\ ~detached /\ agent.phase # "finished" => f[Len(Stream) + 1] = 0
      BY DEF IInv, JumpFlowInv
    <2> QED
      BY <2>1, <2>2
  <1>8. SizesInv'
    <2>1. seen.errors = 0 =>
             /\ \E f : /\ SizesFlow(Accounted, Stream, Owed, f)
                       /\ ~detached /\ agent.phase # "finished" =>
                             f[Len(Stream) + 1] >= agent.count - Len(agent.jumps)
             /\ helper.done => Accounted >= Owed
      BY DEF IInv, SizesInv
    <2> QED
      BY <1>1, <2>1 DEF SizesInv
  <1> QED
    BY <1>2, <1>3, <1>4, <1>6, <1>7, <1>8 DEF IInv

\* What changes with the helper's place in its code.
LEMMA Moves ==
    ASSUME TypeOK, NEW pc \in Pcs, helper' = [helper EXCEPT !.pc = pc]
    PROVE  /\ helper' \in Helpers(Happened) /\ helper'.pc = pc
           /\ helper'.events = helper.events /\ helper'.jumps = helper.jumps
           /\ helper'.done = helper.done /\ helper'.lost = helper.lost
           /\ helper'.errors = helper.errors
  BY DEF TypeOK, Helpers

\* As long as there is no trace, nothing is claimed of it.
LEMMA NoTrace ==
    ASSUME trace' = None
    PROVE  TraceInv'
  BY DEF TraceInv, TraceTyped, CompletedIsComplete, LossIsAccounted,
         NoGapWithoutLoss, EvidenceIsAccepted

\* Watching, reading is_detached and draining only move the helper on.
LEMMA WatchKeeps ==
    ASSUME IInv, StopWatching \/ ReadDetached \/ EndDrain
    PROVE  IInv'
  <1>1. TypeOK
    BY DEF IInv
  <1>2. UNCHANGED <<agent, seen, detached, queue, dropped, trace>>
    BY DEF StopWatching, ReadDetached, EndDrain
  <1>3. trace = None
    BY DEF IInv, TraceInv, StopWatching, ReadDetached, EndDrain
  <1>4. TraceInv'
    BY <1>2, <1>3, NoTrace
  <1>5. /\ helper' \in Helpers(Happened)
        /\ helper'.events = helper.events /\ helper'.jumps = helper.jumps
        /\ helper'.done = helper.done /\ helper'.lost = helper.lost
        /\ helper'.errors = helper.errors
    <2>1. CASE StopWatching
      BY <1>1, <2>1, Moves DEF StopWatching, Goto, Pcs
    <2>2. CASE EndDrain
      BY <1>1, <2>2, Moves DEF EndDrain, Goto, Pcs
    <2>3. CASE ReadDetached
      <3> DEFINE b == ~detached
      <3>1. b \in BOOLEAN /\ helper' = [helper EXCEPT !.pc = "drain", !.timed_out = b]
        BY <2>3 DEF ReadDetached
      <3> HIDE DEF b
      <3> QED
        BY <1>1, <3>1 DEF TypeOK, Helpers, Pcs
    <2> QED
      BY <2>1, <2>2, <2>3
  <1>6. detached' \in BOOLEAN /\ (detached => detached')
    BY <1>1, <1>2 DEF TypeOK
  <1> QED
    BY <1>2, <1>4, <1>5, <1>6, QuietKeeps

\* The trace stays as it was judged.
LEMMA AfterKeeps ==
    ASSUME IInv, Validate \/ Fails
    PROVE  IInv'
  <1>1. TypeOK
    BY DEF IInv
  <1>2. UNCHANGED <<agent, seen, queue, dropped, trace>>
    BY DEF Validate, Fails
  <1>3. PICK pc \in {"accepted", "rejected", "failed"} : helper' = [helper EXCEPT !.pc = pc]
    <2>1. CASE Validate
      <3> DEFINE pc == IF ValidEvidence(trace) /\ trace.diagnostics <= MaxDiagnostics
                       THEN "accepted" ELSE "rejected"
      <3>1. helper' = [helper EXCEPT !.pc = pc] /\ pc \in {"accepted", "rejected", "failed"}
        BY <2>1 DEF Validate, Goto
      <3> HIDE DEF pc
      <3> QED
        BY <3>1
    <2>2. CASE Fails
      BY <2>2 DEF Fails, Goto
    <2> QED
      BY <2>1, <2>2
  <1>4. detached' \in BOOLEAN /\ (detached => detached')
    BY <1>1 DEF TypeOK, Validate, Fails
  <1>5. /\ helper' \in Helpers(Happened) /\ helper'.pc = pc
        /\ helper'.events = helper.events /\ helper'.jumps = helper.jumps
        /\ helper'.done = helper.done /\ helper'.lost = helper.lost
        /\ helper'.errors = helper.errors
    BY <1>1, <1>3, Moves DEF Pcs
  <1>6. TraceInv'
    <2>1. ValidEvidence(trace)' = ValidEvidence(trace) /\ Owed' = Owed
      BY <1>2 DEF ValidEvidence, Owed
    <2>2. trace' # None => detached' /\ helper'.pc \in {"written", "accepted", "rejected", "failed"}
      BY <1>2, <1>3, <1>4, <1>5 DEF IInv, TraceInv
    <2>3. CompletedIsComplete' /\ LossIsAccounted' /\ NoGapWithoutLoss' /\ EvidenceIsAccepted'
      BY <1>2, <1>5, <2>1 DEF IInv, TraceInv, CompletedIsComplete, LossIsAccounted,
                              NoGapWithoutLoss, EvidenceIsAccepted
    <2>4. TraceTyped'
      BY <1>2 DEF IInv, TraceInv, TraceTyped, Happened
    <2> QED
      BY <2>2, <2>3, <2>4 DEF TraceInv
  <1> QED
    BY <1>2, <1>4, <1>5, <1>6, QuietKeeps

-----------------------------------------------------------------------------
(* The judgement *)

\* What the status says of the helper.
LEMMA StatusSays ==
    ASSUME TypeOK, NEW lost \in Nat
    PROVE  /\ StatusOf(lost) = "completed" =>
                 /\ ~helper.timed_out /\ helper.errors = 0 /\ lost = 0 /\ helper.done
           /\ StatusOf(lost) = "truncated" =>
                 lost > 0 \/ Len(helper.events) + Len(helper.jumps) >= Cap
           /\ StatusOf(lost) \in Statuses
  <1>1. helper.timed_out \in BOOLEAN /\ helper.errors \in Nat /\ helper.done \in BOOLEAN
    BY DEF TypeOK, Helpers
  <1> DEFINE late == helper.timed_out
             clean == helper.errors = 0
             short == lost > 0 \/ Len(helper.events) + Len(helper.jumps) >= Cap
             last == IF helper.done THEN "completed" ELSE "detached"
  <1>2. helper.errors > 0 <=> ~clean
    BY <1>1
  <1>3. StatusOf(lost) = CASE late -> "timed_out"
                           [] ~late /\ ~clean -> "injection_error"
                           [] ~late /\ clean /\ short -> "truncated"
                           [] OTHER -> last
    BY <1>2 DEF StatusOf
  <1>4. ~short => lost = 0
    <2>1. ~(lost > 0) => lost = 0
      OBVIOUS
    <2>2. ~short => ~(lost > 0)
      BY Zenon
    <2> QED
      BY <2>1, <2>2, Zenon
  <1> HIDE DEF late, clean, short, last
  <1>5. CASE late
    <2>1. StatusOf(lost) = "timed_out"
      BY <1>3, <1>5
    <2> QED
      BY <2>1 DEF Statuses
  <1>6. CASE ~late /\ ~clean
    <2>1. StatusOf(lost) = "injection_error"
      BY <1>3, <1>6
    <2> QED
      BY <2>1 DEF Statuses
  <1>7. CASE ~late /\ clean /\ short
    <2>1. StatusOf(lost) = "truncated"
      BY <1>3, <1>7
    <2> QED
      BY <1>7, <2>1 DEF short, Statuses
  <1>8. CASE ~late /\ clean /\ ~short
    <2>1. StatusOf(lost) = last
      BY <1>3, <1>8
    <2>2. last = "completed" => helper.done
      BY DEF last
    <2>3. last # "truncated" /\ last \in Statuses
      BY DEF last, Statuses
    <2> QED
      BY <1>4, <1>8, <2>1, <2>2, <2>3 DEF late, clean
  <1> QED
    BY <1>5, <1>6, <1>7, <1>8

\* Without a loss and with the end received, the helper has what the agent has.
LEMMA CompleteRun ==
    ASSUME IInv, Lossless, helper.errors = 0, helper.done
    PROVE  /\ agent.phase = "finished" /\ seen.events \in Nat \ {0}
           /\ helper.jumps = agent.jumps
           /\ Len(helper.events) = seen.events
           /\ [i \in DOMAIN helper.events |-> helper.events[i].n] = [i \in 1..seen.events |-> i]
           /\ ToSet(helper.jumps) = (1..seen.jumps) \ seen.left
           /\ \E i \in DOMAIN helper.events : helper.events[i].kind = "entry"
           /\ \E i \in DOMAIN helper.events : helper.events[i].kind = "exit"
  <1>1. /\ helper.events \in Seq(Happened) /\ helper.jumps \in Seq(Nat)
        /\ agent.jumps \in Seq(Nat) /\ seen.events \in Nat /\ seen.jumps \in Nat
    BY Parts DEF IInv
  <1>2. agent.phase = "finished"
    BY DEF IInv, EndInv
  <1>3. seen.events # 0 /\ agent.pending = None
    BY <1>2 DEF IInv, PhaseInv
  <1>4. helper.jumps = agent.jumps
    <2>1. /\ Len(helper.jumps) = Len(agent.jumps)
          /\ \A i \in 1..Len(helper.jumps) : helper.jumps[i] = agent.jumps[i]
      BY DEF IInv, JumpFlowInv
    <2> QED
      BY <1>1, <2>1, SeqEqual
  <1>5. /\ Len(helper.events) = seen.events
        /\ \A i \in 1..Len(helper.events) : helper.events[i].n = i
    BY DEF IInv, EventsInv
  <1>6. DOMAIN helper.events = 1..seen.events
    BY <1>1, <1>5, LenProperties
  <1>7. \A i \in 1..seen.events : helper.events[i].n = i /\ helper.events[i] \in Happened
    BY <1>1, <1>5
  <1>8. [i \in DOMAIN helper.events |-> helper.events[i].n] = [i \in 1..seen.events |-> i]
    BY <1>6, <1>7
  <1>9. ToSet(agent.jumps) = (1..seen.jumps) \ seen.left
    <2>1. agent.lost = 0
      BY DEF IInv, EndInv, Lossless
    <2>2. /\ ToSet(agent.jumps) \subseteq (1..seen.jumps) \ seen.left
          /\ (1..seen.jumps) \ seen.left \subseteq ToSet(agent.jumps) \cup {None}
      BY <1>3, <2>1 DEF IInv, JumpsInv
    <2>3. None \notin 1..seen.jumps
      BY <1>1, ConstantAssumption
    <2> QED
      BY <2>2, <2>3
  <1>10. Happened = EventsOf(seen.events, TRUE)
    BY <1>2 DEF Happened
  <1>11. 1 \in 1..seen.events /\ seen.events \in 1..seen.events
    BY <1>1, <1>3
  <1>12. helper.events[1].kind = "entry" /\ helper.events[seen.events].kind = "exit"
    BY <1>7, <1>10, <1>11 DEF EventsOf
  <1> QED
    BY <1>1, <1>2, <1>3, <1>4, <1>5, <1>6, <1>8, <1>9, <1>11, <1>12

\* What is claimed of the trace is true when it is judged.
LEMMA JudgeTrue ==
    ASSUME IInv, Judge
    PROVE  TraceInv'
  <1> DEFINE lost == helper.lost + dropped
             status == StatusOf(lost)
             keep == status = "completed" \/ helper.jumps = <<>>
             t == Discard(status, lost)
             e == Len(helper.events)
             j == Len(helper.jumps)
  <1>1. TypeOK
    BY DEF IInv
  <1>2. /\ trace' = t /\ helper' = [helper EXCEPT !.pc = "written"] /\ detached' = TRUE
        /\ UNCHANGED <<agent, seen, queue, dropped>>
    BY DEF Judge, Goto
  <1>3. /\ helper.lost \in Nat /\ dropped \in Nat /\ helper.errors \in Nat
        /\ helper.events \in Seq(Happened) /\ helper.jumps \in Seq(Nat)
        /\ agent.jumps \in Seq(Nat) /\ e \in Nat /\ j \in Nat /\ helper.done \in BOOLEAN
        /\ e + j <= Cap /\ Cap \in Nat
    BY <1>1, Parts DEF TypeOK
  <1>4. /\ lost \in Nat /\ (lost = 0 => helper.lost = 0 /\ dropped = 0)
    BY <1>3
  <1>5. /\ helper'.pc = "written"
        /\ helper'.done = helper.done /\ helper'.errors = helper.errors
    BY <1>1, <1>2, Moves DEF Pcs
  <1>6. /\ t.status = status /\ t.events = helper.events
        /\ t.jumps = (IF keep THEN helper.jumps ELSE <<>>)
        /\ t.lost = (IF keep THEN lost ELSE lost + j)
    BY DEF Discard
  <1>7. /\ status = "completed" => helper.errors = 0 /\ lost = 0 /\ helper.done
        /\ status = "truncated" => lost > 0 \/ e + j >= Cap
    BY <1>1, <1>4, StatusSays
  <1>8. Accounted = e + j + lost
    <2>1. Accounted = e + j + helper.lost + dropped
      BY DEF Accounted
    <2> HIDE DEF e, j
    <2> QED
      BY <1>3, <2>1
  <1>9. helper.jumps = <<>> => j = 0
    OBVIOUS
  <1>17. helper.jumps # <<>> => j # 0
    BY <1>3, EmptySeq
  <1> HIDE DEF lost, status, t, e, j
  <1>10. status = "completed" =>
           /\ t.jumps = helper.jumps /\ t.lost = 0
           /\ agent.phase = "finished"
           /\ helper.jumps = agent.jumps
           /\ [i \in DOMAIN helper.events |-> helper.events[i].n] = [i \in 1..seen.events |-> i]
           /\ ToSet(helper.jumps) = (1..seen.jumps) \ seen.left
           /\ \E i \in DOMAIN helper.events : helper.events[i].kind = "entry"
           /\ \E i \in DOMAIN helper.events : helper.events[i].kind = "exit"
    <2> SUFFICES ASSUME status = "completed"
                 PROVE  /\ t.jumps = helper.jumps /\ t.lost = 0
                        /\ Lossless /\ helper.errors = 0 /\ helper.done
      BY CompleteRun
    <2> QED
      BY <1>4, <1>6, <1>7 DEF Lossless
  <1>11. CompletedIsComplete'
    <2> SUFFICES ASSUME status = "completed"
                 PROVE  /\ agent.phase = "finished"
                        /\ [i \in DOMAIN t.events |-> t.events[i].n] = [i \in 1..seen.events |-> i]
                        /\ ToSet(t.jumps) = (1..seen.jumps) \ seen.left
                        /\ t.lost = 0
      BY <1>2, <1>6 DEF CompletedIsComplete
    <2> QED
      BY <1>6, <1>10
  <1>12. Len(t.events) = e /\ Len(t.jumps) = (IF keep THEN j ELSE 0)
    BY <1>6 DEF e, j
  <1>13. LossIsAccounted'
    <2>1. t.lost + Len(t.events) + Len(t.jumps) = e + j + lost
      <3>1. CASE keep
        <4>1. t.lost = lost /\ Len(t.events) = e /\ Len(t.jumps) = j
          BY <1>6, <1>12, <3>1
        <4> QED
          BY <1>3, <1>4, <4>1
      <3>2. CASE ~keep
        <4>1. t.lost = lost + j /\ Len(t.events) = e /\ Len(t.jumps) = 0
          BY <1>6, <1>12, <3>2
        <4> QED
          BY <1>3, <1>4, <4>1
      <3> QED
        BY <3>1, <3>2
    <2>2. seen.errors = 0 /\ helper.done => Accounted >= Owed
      BY DEF IInv, SizesInv
    <2>3. Owed' = Owed
      BY <1>2 DEF Owed
    <2> QED
      BY <1>2, <1>5, <1>8, <2>1, <2>2, <2>3 DEF LossIsAccounted
  <1>14. t.lost = 0 => lost = 0
    BY <1>3, <1>4, <1>6
  <1>15. NoGapWithoutLoss'
    <2>1. ASSUME t.lost = 0, helper.errors = 0
          PROVE  \A i \in DOMAIN t.events : t.events[i].n = i
      <3>1. Lossless
        BY <1>4, <1>14, <2>1 DEF Lossless
      <3>2. \A i \in 1..Len(helper.events) : helper.events[i].n = i
        BY <2>1, <3>1 DEF IInv, EventsInv
      <3>3. DOMAIN helper.events = 1..Len(helper.events)
        BY <1>3, LenProperties
      <3> QED
        BY <1>6, <3>2, <3>3
    <2> QED
      BY <1>2, <1>5, <2>1 DEF NoGapWithoutLoss
  <1>16. ValidEvidence(t)
    <2>1. Len(t.events) + Len(t.jumps) <= Cap
      BY <1>3, <1>12
    <2>2. t.jumps # <<>> => t.status = "completed" /\ t.lost = 0
      BY <1>6, <1>10
    <2>3. IsPrefix(t.jumps, agent.jumps)
      <3>1. CASE status = "completed"
        <4>1. t.jumps = agent.jumps
          BY <1>10, <3>1
        <4>2. Len(agent.jumps) <= Len(agent.jumps)
          BY <1>3
        <4> QED
          BY <4>1, <4>2 DEF IsPrefix
      <3>2. CASE status # "completed"
        <4>1. t.jumps = <<>>
          BY <1>6, <3>2
        <4>2. /\ Len(<<>>) = 0 /\ Len(agent.jumps) \in Nat
              /\ SubSeq(<<>>, 1, 0) = <<>> /\ SubSeq(agent.jumps, 1, 0) = <<>>
          BY <1>3, SubSeqEmpty
        <4>3. Len(<<>>) <= Len(agent.jumps)
          BY <4>2
        <4> QED
          BY <4>1, <4>2, <4>3 DEF IsPrefix
      <3> QED
        BY <3>1, <3>2
    <2>4. t.status = "completed" =>
             /\ \E i \in DOMAIN t.events : t.events[i].kind = "entry"
             /\ \E i \in DOMAIN t.events : t.events[i].kind = "exit"
             /\ t.lost = 0
      BY <1>6, <1>10
    <2>5. t.status = "truncated" => Len(t.events) + Len(t.jumps) = Cap \/ t.lost > 0
      <3> SUFFICES ASSUME status = "truncated"
                   PROVE  Len(t.events) + Len(t.jumps) = Cap \/ t.lost > 0
        BY <1>6
      <3>1. CASE lost > 0
        <4>1. t.lost > 0
          BY <1>3, <1>4, <1>6, <3>1
        <4> QED
          BY <4>1
      <3>2. CASE ~(lost > 0)
        <4>1. e + j = Cap
          BY <1>3, <1>7, <3>2
        <4>2. CASE helper.jumps = <<>>
          <5>1. keep /\ j = 0
            BY <1>9, <4>2
          <5>2. Len(t.events) = e /\ Len(t.jumps) = j
            BY <1>12, <5>1
          <5> QED
            BY <4>1, <5>2
        <4>3. CASE helper.jumps # <<>>
          <5>1. ~keep
            BY <4>3
          <5>2. t.lost = lost + j /\ j # 0
            BY <1>6, <1>17, <4>3, <5>1
          <5>3. lost + j > 0
            BY <1>3, <1>4, <5>2
          <5>4. t.lost > 0
            BY <5>2, <5>3
          <5> QED
            BY <5>4
        <4> QED
          BY <4>2, <4>3
      <3> QED
        BY <3>1, <3>2
    <2> QED
      BY <2>1, <2>2, <2>3, <2>4, <2>5 DEF ValidEvidence
  <1>18. EvidenceIsAccepted'
    <2>1. ValidEvidence(trace)' = ValidEvidence(t)
      BY <1>2 DEF ValidEvidence
    <2> QED
      BY <1>16, <2>1 DEF EvidenceIsAccepted
  <1>19. t \in Traces(Happened)
    <2>1. status \in Statuses
      BY <1>1, <1>4, StatusSays DEF status
    <2>2. t.lost \in Nat
      BY <1>3, <1>4, <1>6
    <2>3. t.jumps \in Seq(Nat)
      BY <1>3, <1>6
    <2>4. t.diagnostics \in Nat
      <3> DEFINE told == helper.errors + (IF helper.timed_out THEN 1 ELSE 0)
      <3>1. told \in Nat /\ told + 1 \in Nat
        BY <1>3
      <3>2. t.diagnostics = IF keep \/ told >= MaxDiagnostics THEN told ELSE told + 1
        BY DEF t, Discard
      <3> QED
        BY <3>1, <3>2
    <2>5. t = [status |-> t.status, events |-> t.events, jumps |-> t.jumps,
               lost |-> t.lost, diagnostics |-> t.diagnostics]
      BY DEF t, Discard
    <2> QED
      BY <1>3, <1>6, <2>1, <2>2, <2>3, <2>4, <2>5 DEF Traces
  <1>20. TraceTyped'
    BY <1>2, <1>19 DEF TraceTyped, Happened
  <1> QED
    BY <1>2, <1>5, <1>11, <1>13, <1>15, <1>18, <1>20 DEF TraceInv

\* The judgement writes the trace and kills the target.
LEMMA JudgeKeeps ==
    ASSUME IInv, Judge
    PROVE  IInv'
  <1>1. TypeOK
    BY DEF IInv
  <1>2. UNCHANGED <<agent, seen, queue, dropped>> /\ detached' = TRUE
    BY DEF Judge
  <1>3. /\ helper' \in Helpers(Happened)
        /\ helper'.events = helper.events /\ helper'.jumps = helper.jumps
        /\ helper'.done = helper.done /\ helper'.lost = helper.lost
        /\ helper'.errors = helper.errors
    BY <1>1, Moves DEF Judge, Goto, Pcs
  <1>4. TraceInv'
    BY JudgeTrue
  <1> QED
    BY <1>2, <1>3, <1>4, QuietKeeps

-----------------------------------------------------------------------------
(* The theorems *)

\* Every step keeps the invariant.
LEMMA NextKeeps == IInv /\ [Next]_vars => IInv'
  <1> SUFFICES ASSUME IInv, [Next]_vars
               PROVE  IInv'
    OBVIOUS
  <1>1. ASSUME NEW t \in Thread, Enter(t)
        PROVE  IInv'
    BY <1>1, EnterKeeps
  <1>2. ASSUME NEW t \in Thread, Intrude(t)
        PROVE  IInv'
    BY <1>2, IntrudeKeeps
  <1>3. CASE JumpSource
    BY <1>3, JumpSourceKeeps
  <1>4. CASE Block
    BY <1>4, BlockKeeps
  <1>5. CASE Receive
    BY <1>5, ReceiveKeeps
  <1>6. CASE Leave
    BY <1>6, LeaveKeeps
  <1>7. CASE AgentError
    BY <1>7, AgentErrorKeeps
  <1>8. CASE TargetEnds
    BY <1>8, TargetEndsKeeps
  <1>9. CASE Deliver
    BY <1>9, DeliverKeeps
  <1>10. CASE Read
    BY <1>10, ReadKeeps
  <1>11. CASE StopWatching \/ ReadDetached \/ EndDrain
    BY <1>11, WatchKeeps
  <1>12. CASE Judge
    BY <1>12, JudgeKeeps
  <1>13. CASE Validate \/ Fails
    BY <1>13, AfterKeeps
  <1>14. CASE UNCHANGED vars
    <2>1. UNCHANGED <<agent, seen, detached, queue, dropped, helper, trace>>
      BY <1>14 DEF vars
    <2>2. TypeOK
      BY DEF IInv
    <2>3. helper \in Helpers(Happened) /\ detached \in BOOLEAN
      BY <2>2 DEF TypeOK
    <2>4. TraceInv'
      <3>1. /\ ValidEvidence(trace)' = ValidEvidence(trace) /\ Owed' = Owed
            /\ Happened' = Happened
        BY <2>1 DEF ValidEvidence, Owed, Happened
      <3> QED
        BY <2>1, <3>1 DEF IInv, TraceInv, TraceTyped, CompletedIsComplete,
                          LossIsAccounted, NoGapWithoutLoss, EvidenceIsAccepted
    <2> QED
      BY <2>1, <2>3, <2>4, QuietKeeps
  <1> QED
    BY <1>1, <1>2, <1>3, <1>4, <1>5, <1>6, <1>7, <1>8, <1>9, <1>10, <1>11, <1>12, <1>13,
       <1>14 DEF Next, TargetStep, HelperStep

\* Whatever the threads of the target, the queue and the end of the run do, the
\* stream of messages accounts for every observation (runtime.rs, agent.js).
THEOREM StreamAccounts == Spec => []IInv
  <1>1. Init => IInv
    BY InitInv
  <1>2. IInv /\ [Next]_vars => IInv'
    BY NextKeeps
  <1> QED
    BY <1>1, <1>2, PTL DEF Spec

\* Every event that the agent, a message, the Collector or the trace holds is one
\* of the run: the first is the entry, and the exit is the last of a run that has
\* ended.  The Collector never holds more than MAX_EVENTS.
THEOREM TypesHold == Spec => [](TypeOK /\ TraceTyped)
  <1>1. IInv => TypeOK /\ TraceTyped
    BY DEF IInv, TraceInv
  <1> QED
    BY <1>1, StreamAccounts, PTL

\* A trace with the status "completed" has every event of the run, in its order,
\* and every computed jump that stayed in the module.
THEOREM CompletedTracesAreComplete == Spec => []CompletedIsComplete
  <1>1. IInv => CompletedIsComplete
    BY DEF IInv, TraceInv
  <1> QED
    BY <1>1, StreamAccounts, PTL

\* Once the end was received, lost_events accounts for every observation that is
\* not in the trace, unless the agent threw.
THEOREM LossesAreAccounted == Spec => []LossIsAccounted
  <1>1. IInv => LossIsAccounted
    BY DEF IInv, TraceInv
  <1> QED
    BY <1>1, StreamAccounts, PTL

\* A trace without a loss and an error has the first events of the run.
THEOREM NoGaps == Spec => []NoGapWithoutLoss
  <1>1. IInv => NoGapWithoutLoss
    BY DEF IInv, TraceInv
  <1> QED
    BY <1>1, StreamAccounts, PTL

\* What the helper writes passes validate_dynamic_trace.
THEOREM TracesAreAccepted == Spec => []EvidenceIsAccepted
  <1>1. IInv => EvidenceIsAccepted
    BY DEF IInv, TraceInv
  <1> QED
    BY <1>1, StreamAccounts, PTL
=============================================================================
