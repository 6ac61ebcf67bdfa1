-------------------------- MODULE HydirJobLifecycle --------------------------
(***************************************************************************)
(* What hydird promises about its jobs, without calls, tasks, registry or  *)
(* crashes: an identity has at most MaxActive unfinished jobs, a job runs  *)
(* at most once, ends in one of four ways and never leaves its end, has an *)
(* artifact exactly when it succeeded, and every change of its state is an *)
(* event of one sequence of numbers shared by all jobs.                    *)
(*                                                                         *)
(* HydirJobs implements it; HydirEventStream is a reader of it.            *)
(***************************************************************************)
EXTENDS Integers, FiniteSets, Functions

CONSTANTS
    Job,        \* job identifiers
    Identity,   \* who can own a job
    Digest,     \* artifacts
    None,       \* no owner, no artifact
    MaxActive   \* unfinished jobs an identity may have

VARIABLES
    phase,      \* of each job: "absent", unfinished or ended
    owner,      \* the identity a job counts against
    artifact,   \* what a succeeded job produced
    events,     \* everything that happened: set of numbered events
    lastSeq     \* the last number given

lifecycle == <<phase, owner, artifact, events, lastSeq>>

Unfinished == {j \in Job : phase[j] \in {"queued", "running"}}
Ended == {"succeeded", "failed", "cancelled", "interrupted"}
HistoryOf(j) == {e \in events : e.job = j}

Record(n, j, s, d) == [seq |-> n, job |-> j, state |-> s, artifact |-> d]

Init == /\ phase = [j \in Job |-> "absent"]
        /\ owner = [j \in Job |-> None]
        /\ artifact = [j \in Job |-> None]
        /\ events = {}
        /\ lastSeq = 0

\* Job j enters phase s; the event that says so names artifact d.
Enter(j, s, d) ==
    /\ phase' = [phase EXCEPT ![j] = s]
    /\ lastSeq' = lastSeq + 1
    /\ events' = events \cup {Record(lastSeq + 1, j, s, d)}

Submit(j, i) ==
    /\ phase[j] = "absent"
    /\ Cardinality({k \in Unfinished : owner[k] = i}) < MaxActive
    /\ owner' = [owner EXCEPT ![j] = i]
    /\ Enter(j, "queued", None)
    /\ UNCHANGED artifact

Run(j) ==
    /\ phase[j] = "queued"
    /\ Enter(j, "running", None)
    /\ UNCHANGED <<owner, artifact>>

Succeed(j, d) ==
    /\ phase[j] = "running"
    /\ artifact' = [artifact EXCEPT ![j] = d]
    /\ Enter(j, "succeeded", d)
    /\ UNCHANGED owner

Fail(j) ==
    /\ phase[j] = "running"
    /\ Enter(j, "failed", None)
    /\ UNCHANGED <<owner, artifact>>

Cancel(j) ==
    /\ j \in Unfinished
    /\ Enter(j, "cancelled", None)
    /\ UNCHANGED <<owner, artifact>>

\* Every unfinished job is interrupted at once; their events come in any order.
Interrupt ==
    \E pos \in Injection(Unfinished, 1..Cardinality(Unfinished)) :
        /\ phase' = [j \in Job |-> IF j \in Unfinished THEN "interrupted" ELSE phase[j]]
        /\ lastSeq' = lastSeq + Cardinality(Unfinished)
        /\ events' = events \cup
              {Record(lastSeq + pos[j], j, "interrupted", None) : j \in Unfinished}
        /\ UNCHANGED <<owner, artifact>>

\* What the calls and the tasks of the server do, under the lock of its database.
ServerStep ==
    \E j \in Job : \/ \E i \in Identity : Submit(j, i)
                   \/ \E d \in Digest : Succeed(j, d)
                   \/ Run(j) \/ Fail(j) \/ Cancel(j)

\* Any process that opens the database interrupts.
Next == ServerStep \/ Interrupt

Spec == Init /\ [][Next]_lifecycle
=============================================================================
