-------------------------- MODULE HydirEventStream --------------------------
(***************************************************************************)
(* stream_job_events of crates/hydir-server/src/main.rs, a reader of the   *)
(* jobs of HydirJobLifecycle for an identity of HydirAccess.  A spawned    *)
(* task repeats: it authenticates the bearer of the request again; under   *)
(* another lock of the database it reads the job's state, joined with the  *)
(* role of the identity, and then the next events; it sends them one at a  *)
(* time through a bounded channel.  It returns when it finds the job ended *)
(* and nothing left to send, or with an error when access was lost.  The   *)
(* client may lose the connection at any time, with what is still in the   *)
(* channel, and reconnect after the last event it received.                *)
(*                                                                         *)
(* The state and the events are two statements and no transaction.  The    *)
(* lock held over both is one of the server's process: it keeps out the    *)
(* server's other calls and tasks, not the commands of another process,    *)
(* which change the access and, by opening the database, interrupt jobs.   *)
(*                                                                         *)
(* Abstracted: a database error and a crash of the server end a stream as  *)
(* a lost connection does.                                                 *)
(***************************************************************************)
EXTENDS HydirJobLifecycle, HydirAccess, Sequences, SequencesExt

CONSTANTS
    Stream,       \* client streams
    Reader,       \* identities that open them
    BatchLimit,   \* LIMIT of the query for events (32)
    Capacity,     \* capacity of the channel (32)
    MaxConnects   \* bound: connections a client makes for a stream

ASSUME StreamAssumption ==
    /\ {BatchLimit, Capacity} \subseteq Nat \ {0}
    /\ MaxConnects \in Nat /\ Reader \subseteq Principal
    /\ None \notin Job \cup Principal

VARIABLES
    stream,   \* per stream: pc, job, who, bearer, cursor, whether the job was
              \* read as ended, batch, connections made
    wire,     \* events in the channel and on the connection
    got,      \* events the client has received, over all its connections
    cut       \* history: the last number when an identity lost its role, or None

streamVars == <<stream, wire, got>>
allVars == <<lifecycle, access, streamVars, cut>>

NoStream == [pc |-> "off", job |-> None, who |-> None, bearer |-> 0,
             cursor |-> 0, ended |-> FALSE, batch |-> {}, connects |-> 0]

StreamInit ==
    /\ Init
    /\ AccessInit
    /\ stream = [s \in Stream |-> NoStream]
    /\ wire = [s \in Stream |-> <<>>]
    /\ got = [s \in Stream |-> <<>>]
    /\ cut = [i \in Principal |-> IF role[i] = NoRole THEN 0 ELSE None]

LastSeq(es) == IF es = <<>> THEN 0 ELSE es[Len(es)].seq

\* A client of a viewer or better opens a stream with the credential that is
\* current; it asks for everything after what it has.
Connect(s, j, i) ==
    /\ stream[s].pc = "off"
    /\ stream[s].connects < MaxConnects
    /\ stream[s].job \in {None, j} /\ stream[s].who \in {None, i}
    /\ Authenticates(i, credential[i]) /\ HasRole(i, "viewer")
    /\ phase[j] # "absent"
    /\ stream' = [stream EXCEPT ![s] =
         [pc |-> "auth", job |-> j, who |-> i, bearer |-> credential[i],
          cursor |-> LastSeq(got[s]), ended |-> FALSE, batch |-> {},
          connects |-> @.connects + 1]]
    /\ UNCHANGED <<wire, got>>

\* Mutant of Authenticate: the credential is compared once, when it connects.
AuthenticateOnce(s) ==
    /\ stream[s].pc = "auth"
    /\ stream' = [stream EXCEPT ![s].pc = "read"]
    /\ UNCHANGED <<wire, got>>

\* authenticate_bearer finds no row after a rotation: an error ends the stream.
Authenticate(s) ==
    /\ stream[s].pc = "auth"
    /\ stream' = [stream EXCEPT ![s].pc =
         IF Authenticates(stream[s].who, stream[s].bearer) THEN "read" ELSE "denied"]
    /\ UNCHANGED <<wire, got>>

\* Mutant of ReadState: the role is not joined.
ReadStateWithoutRole(s) ==
    /\ stream[s].pc = "read"
    /\ stream' = [stream EXCEPT ![s].pc = "batch",
                                ![s].ended = phase[stream[s].job] \in Ended]
    /\ UNCHANGED <<wire, got>>

\* SELECT j.state FROM jobs j JOIN project_acls a ... AND a.principal=?
ReadState(s) ==
    /\ stream[s].pc = "read"
    /\ IF role[stream[s].who] = NoRole
       THEN stream' = [stream EXCEPT ![s].pc = "denied"]
       ELSE stream' = [stream EXCEPT ![s].pc = "batch",
                                     ![s].ended = phase[stream[s].job] \in Ended]
    /\ UNCHANGED <<wire, got>>

\* SELECT ... WHERE job_id=? AND sequence>cursor ORDER BY sequence LIMIT 32
Later(s) == {e \in HistoryOf(stream[s].job) : e.seq > stream[s].cursor}
NextBatch(s) ==
    {e \in Later(s) : Cardinality({f \in Later(s) : f.seq <= e.seq}) <= BatchLimit}

\* Mutant of ReadBatch: the stream ends with the first pass that finds the job
\* ended.
ReadBatchClosesEarly(s) ==
    /\ stream[s].pc = "batch"
    /\ IF NextBatch(s) # {} /\ ~stream[s].ended
       THEN stream' = [stream EXCEPT ![s].pc = "send", ![s].batch = NextBatch(s)]
       ELSE stream' = [stream EXCEPT ![s].pc = IF stream[s].ended THEN "closed" ELSE "auth"]
    /\ UNCHANGED <<wire, got>>

\* The events, read after the state; what ended with none left is over.
ReadBatch(s) ==
    /\ stream[s].pc = "batch"
    /\ IF NextBatch(s) # {}
       THEN stream' = [stream EXCEPT ![s].pc = "send", ![s].batch = NextBatch(s)]
       ELSE stream' = [stream EXCEPT ![s].pc = IF stream[s].ended THEN "closed" ELSE "auth"]
    /\ UNCHANGED <<wire, got>>

\* Mutant of Send: the cursor moves before the send, past every event
\* of the table.
SendSkipsBatch(s) ==
    /\ stream[s].pc = "send"
    /\ Len(wire[s]) < Capacity
    /\ \E e \in stream[s].batch :
          /\ \A f \in stream[s].batch : e.seq <= f.seq
          /\ wire' = [wire EXCEPT ![s] = Append(@, e)]
          /\ stream' = [stream EXCEPT ![s].cursor = lastSeq, ![s].batch = {},
                                      ![s].pc = "auth"]
    /\ UNCHANGED got

\* sender.send(event).await blocks while the channel is full.
Send(s) ==
    /\ stream[s].pc = "send"
    /\ Len(wire[s]) < Capacity
    /\ \E e \in stream[s].batch :
          /\ \A f \in stream[s].batch : e.seq <= f.seq
          /\ wire' = [wire EXCEPT ![s] = Append(@, e)]
          /\ stream' = [stream EXCEPT
                ![s].cursor = e.seq, ![s].batch = @ \ {e},
                ![s].pc = IF stream[s].batch = {e} THEN "auth" ELSE "send"]
    /\ UNCHANGED got

\* The client takes the next event; v3's forwarding task keeps the order.
Receive(s) ==
    /\ wire[s] # <<>>
    /\ got' = [got EXCEPT ![s] = Append(@, Head(wire[s]))]
    /\ wire' = [wire EXCEPT ![s] = Tail(@)]
    /\ UNCHANGED stream

\* The connection is lost, or the client ends it.
Disconnect(s) ==
    /\ stream[s].pc # "off"
    /\ stream' = [stream EXCEPT ![s].pc = "off", ![s].cursor = 0, ![s].ended = FALSE,
                                ![s].batch = {}]
    /\ wire' = [wire EXCEPT ![s] = <<>>]
    /\ UNCHANGED got

-----------------------------------------------------------------------------
Task(s) == Authenticate(s) \/ ReadState(s) \/ ReadBatch(s) \/ Send(s)

\* A task between its two reads has the lock of the server's database: no step of
\* the server that writes falls in between (the reads of another task change
\* nothing and may).
Locked == \E s \in Stream : stream[s].pc = "batch"

StreamNext ==
    \/ /\ (ServerStep /\ ~Locked) \/ Interrupt
       /\ UNCHANGED <<access, streamVars, cut>>
    \/ /\ AccessNext
       /\ cut' = [i \in Principal |->
            IF role'[i] # NoRole THEN None
            ELSE IF role[i] # NoRole THEN lastSeq ELSE cut[i]]
       /\ UNCHANGED <<lifecycle, streamVars>>
    \/ /\ \E s \in Stream :
            \/ \E j \in Job, i \in Reader : Connect(s, j, i)
            \/ Task(s) \/ Receive(s) \/ Disconnect(s)
       /\ UNCHANGED <<lifecycle, access, cut>>

StreamSpec == StreamInit /\ [][StreamNext]_allVars

\* The stream's task and the client that awaits its events make progress.
StreamFairSpec ==
    /\ StreamSpec
    /\ \A s \in Stream :
          /\ WF_allVars(Task(s) /\ UNCHANGED <<lifecycle, access, cut>>)
          /\ WF_allVars(Receive(s) /\ UNCHANGED <<lifecycle, access, cut>>)

-----------------------------------------------------------------------------
(* Properties *)

\* Over all its connections a client receives the events of its job in order,
\* each once and with none left out: "replay sequenced events from an
\* after_sequence cursor".
ReceivesPrefixOfHistory ==
    \A s \in Stream : stream[s].job # None =>
        /\ \A m, n \in DOMAIN got[s] : m < n => got[s][m].seq < got[s][n].seq
        /\ ToSet(got[s]) = {e \in HistoryOf(stream[s].job) : e.seq <= LastSeq(got[s])}

\* A stream that ended without an error has delivered, or has on its way, the
\* whole history of a job that has ended.
CloseDeliversTheEnd ==
    \A s \in Stream : stream[s].pc = "closed" =>
        /\ ToSet(got[s] \o wire[s]) = HistoryOf(stream[s].job)
        /\ phase[stream[s].job] \in Ended

\* A client that stays connected to a job that ended learns how it ended, unless
\* it has lost its access.
ClientLearnsTheEnd ==
    \A s \in Stream : \A j \in Job :
        stream[s].pc # "off" /\ stream[s].job = j /\ phase[j] \in Ended ~>
            \/ \E n \in DOMAIN got[s] : got[s][n].state \in Ended
            \/ stream[s].pc \in {"off", "denied"}

\* Without a role an identity is sent nothing that happened after it lost its
\* role, neither by a stream that was open then nor from what a task of one had
\* read and was still sending - but for the interruption of its job: a command
\* that opens the database may write it after the role was read and taken away
\* and before the events are read.
OnlyInterruptionsAfterRevocation ==
    \A s \in Stream : stream[s].who # None /\ cut[stream[s].who] # None =>
        \A e \in stream[s].batch \cup ToSet(wire[s]) \cup ToSet(got[s]) :
            e.seq <= cut[stream[s].who] \/ e.state = "interrupted"

\* A stream whose credential was rotated ends, also while nothing happens to its
\* job.
RotationEndsStreams ==
    \A s \in Stream :
        stream[s].pc # "off" /\ stream[s].bearer # credential[stream[s].who] ~>
            stream[s].pc \in {"off", "denied", "closed"}
=============================================================================
