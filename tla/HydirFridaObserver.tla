-------------------------- MODULE HydirFridaObserver --------------------------
(***************************************************************************)
(* One observation of the Frida helper (crates/hydir-frida-observer): the  *)
(* agent inside the target (agent.js), the callback that queues its        *)
(* messages, and the helper that collects them and judges the run          *)
(* (runtime.rs, inside); validate_dynamic_trace of hydir-execution then    *)
(* accepts or rejects the trace.                                           *)
(*                                                                         *)
(* The agent observes one invocation of the selected function on the       *)
(* thread that enters it first.  Call and block events go through          *)
(* Stalker's buffer; computed jumps are kept in the agent and sent last.   *)
(*                                                                         *)
(* Abstracted: an event is its position in the run, a jump likewise;       *)
(* addresses, bytes and registers are left out, but a witness may be       *)
(* unreadable; every other error of the helper is the action Fails.        *)
(***************************************************************************)
EXTENDS Integers, FiniteSets, Sequences, SequencesExt

CONSTANTS
    Thread,          \* threads of the target
    None,            \* no thread, no jump, no trace
    Cap,             \* MAX_EVENTS: events and jumps of a trace
    JumpBatch,       \* computed jumps sent in one message (128)
    Capacity,        \* messages the queue of the helper holds (32)
    MaxDiagnostics,  \* diagnostics of a trace (16)
    MaxBlocks,       \* bound: blocks the target runs while observed
    MaxJumps,        \* bound: computed jumps among them
    MaxIntrusions,   \* bound: entries by other threads
    MaxErrors        \* bound: errors the agent reports

ASSUME ConstantAssumption ==
    /\ {Cap, JumpBatch, Capacity, MaxDiagnostics} \subseteq Nat \ {0}
    /\ {MaxBlocks, MaxJumps, MaxIntrusions, MaxErrors} \subseteq Nat
    /\ None \notin Thread \cup Nat

VARIABLES
    agent,      \* the agent's variables, its Stalker buffer and what it sent
    seen,       \* what it should account for: numbers of events and jumps, the
                \* jumps that left the module, entries of other threads
    detached,   \* session.is_detached(): the target has ended
    queue,      \* sync_channel between callback and helper
    dropped,    \* observations in messages that found the queue full
    helper,     \* the helper: pc, timed_out, and the Collector
    trace       \* the trace it wrote

vars == <<agent, seen, detached, queue, dropped, helper, trace>>

-----------------------------------------------------------------------------
(* The agent *)

Msg(type, events, jumps, lost) ==
    [type |-> type, events |-> events, jumps |-> jumps, lost |-> lost]

First(s, n) == SubSeq(s, 1, IF n < Len(s) THEN n ELSE Len(s))

Lose(a, n) == [a EXCEPT !.lost = @ + n]

\* emitBatch: what fits under the cap is sent in one message, the rest is lost.
Emit(a, events) ==
    LET accepted == First(events, Cap - a.count)
    IN [a EXCEPT !.count = @ + Len(accepted),
                 !.lost = @ + Len(events) - Len(accepted),
                 !.wire = IF accepted = <<>> THEN @
                          ELSE Append(@, Msg("batch", accepted, <<>>, 0))]

\* onReceive: everything Stalker has buffered.
Flush(a) == [Emit(a, a.sink) EXCEPT !.sink = <<>>]

EventOf(kind) == [n |-> seen.events + 1, kind |-> kind]

Init ==
    /\ agent = [phase |-> "idle", owner |-> None, pending |-> None, count |-> 0,
                lost |-> 0, sink |-> <<>>, jumps |-> <<>>,
                wire |-> <<Msg("meta", <<>>, <<>>, 0)>>]
    /\ seen = [events |-> 0, jumps |-> 0, left |-> {}, intrusions |-> 0, errors |-> 0]
    /\ detached = FALSE
    /\ queue = <<>>
    /\ dropped = 0
    /\ helper = [pc |-> "watch", timed_out |-> FALSE, base |-> FALSE, events |-> <<>>,
                 jumps |-> <<>>, done |-> FALSE, lost |-> 0, errors |-> 0]
    /\ trace = None

host == <<queue, dropped, helper, trace>>

\* onEnter of the first thread begins the run.
Enter(t) ==
    /\ ~detached
    /\ agent.phase = "idle"
    /\ agent' = Emit([agent EXCEPT !.phase = "running", !.owner = t],
                     <<EventOf("entry")>>)
    /\ seen' = [seen EXCEPT !.events = @ + 1]
    /\ UNCHANGED <<detached, host>>

\* onEnter of another thread during the run makes its evidence incomplete;
\* recursion of the owner, and any entry after the run, changes nothing.
Intrude(t) ==
    /\ ~detached
    /\ agent.phase = "running" /\ agent.owner # t
    /\ seen.intrusions < MaxIntrusions
    /\ agent' = Lose(agent, 1)
    /\ seen' = [seen EXCEPT !.intrusions = @ + 1]
    /\ UNCHANGED <<detached, host>>

\* jumpSource: an indirect jmp is about to run.  Its bytes may be unreadable.
JumpSource ==
    /\ ~detached
    /\ agent.phase = "running"
    /\ seen.jumps < MaxJumps
    /\ seen' = [seen EXCEPT !.jumps = @ + 1]
    /\ LET a == IF agent.pending # None THEN Lose(agent, 1) ELSE agent IN
       agent' \in {[a EXCEPT !.pending = seen.jumps + 1],
                   [Lose(a, 1) EXCEPT !.pending = None]}
    /\ UNCHANGED <<detached, host>>

\* A block of the owner runs.  Stalker buffers its event; blockEntry first ends
\* a pending jump, which is recorded, or has left the module, or has an
\* unreadable target or no room under the cap.
Block ==
    /\ ~detached
    /\ agent.phase = "running"
    /\ seen.events < MaxBlocks
    /\ LET jump == agent.pending
           a == [agent EXCEPT !.pending = None, !.sink = Append(@, EventOf("block"))]
       IN \/ /\ jump = None \/ agent.count < Cap
             /\ agent' = IF jump = None THEN a
                         ELSE [a EXCEPT !.jumps = Append(@, jump), !.count = @ + 1]
             /\ seen' = [seen EXCEPT !.events = @ + 1]
          \/ /\ jump # None
             /\ agent' = Lose(a, 1)
             /\ seen' = [seen EXCEPT !.events = @ + 1]
          \/ /\ jump # None
             /\ agent' = a
             /\ seen' = [seen EXCEPT !.events = @ + 1, !.left = @ \cup {jump}]
    /\ UNCHANGED <<detached, host>>

\* Stalker drains its buffer now and then.
Receive ==
    /\ ~detached
    /\ agent.sink # <<>>
    /\ agent' = Flush(agent)
    /\ UNCHANGED <<seen, detached, host>>

\* The jumps in messages of JumpBatch, the last one perhaps shorter.
JumpMessages(jumps) ==
    [k \in 1..((Len(jumps) + JumpBatch - 1) \div JumpBatch) |->
        Msg("jump_batch", <<>>, First(SubSeq(jumps, (k - 1) * JumpBatch + 1, Len(jumps)),
                                      JumpBatch), 0)]

\* onLeave of the owner: flush, the exit event, the jumps, and the end.
Leave ==
    LET flushed == Flush(agent)
        settled == IF flushed.pending = None THEN flushed
                   ELSE [Lose(flushed, 1) EXCEPT !.pending = None]
        left == Emit(settled, <<EventOf("exit")>>)
    IN /\ ~detached
       /\ agent.phase = "running"
       /\ agent' = [left EXCEPT !.phase = "finished",
                      !.wire = @ \o JumpMessages(left.jumps)
                                 \o <<Msg("done", <<>>, <<>>, left.lost)>>]
       /\ seen' = [seen EXCEPT !.events = @ + 1]
       /\ UNCHANGED <<detached, host>>

\* An exception in the agent reaches the helper as an error message; the events
\* that onReceive was handling are gone with it.
AgentError ==
    /\ ~detached
    /\ seen.errors < MaxErrors
    /\ \E sink \in {agent.sink, <<>>} :
          agent' = [agent EXCEPT !.sink = sink,
                                 !.wire = Append(@, Msg("error", <<>>, <<>>, 0))]
    /\ seen' = [seen EXCEPT !.errors = @ + 1]
    /\ UNCHANGED <<detached, host>>

\* The target ends; the last messages on their way may be lost with it.
TargetEnds ==
    /\ ~detached
    /\ detached' = TRUE
    /\ \E n \in 0..Len(agent.wire) : agent' = [agent EXCEPT !.wire = First(@, n)]
    /\ UNCHANGED <<seen, host>>

-----------------------------------------------------------------------------
(* The callback: AgentMessages::on_message *)

\* Mutant of Weight: every dropped message counts as one.
WeightOne(m) == 1

\* dropped_record_events: a dropped batch loses each of its observations.
Weight(m) == CASE m.type = "batch" -> Len(m.events)
               [] m.type = "jump_batch" -> Len(m.jumps)
               [] OTHER -> 1

\* Mutant of Deliver: a message that finds the queue full is not counted.
DeliverUncounted ==
    /\ agent.wire # <<>>
    /\ queue' = IF Len(queue) < Capacity THEN Append(queue, Head(agent.wire)) ELSE queue
    /\ agent' = [agent EXCEPT !.wire = Tail(@)]
    /\ UNCHANGED <<dropped, seen, detached, helper, trace>>

Deliver ==
    /\ agent.wire # <<>>
    /\ agent' = [agent EXCEPT !.wire = Tail(@)]
    /\ LET m == Head(agent.wire) IN
       \/ /\ Len(queue) < Capacity
          /\ queue' = Append(queue, m)
          /\ UNCHANGED dropped
       \/ /\ Len(queue) = Capacity
          /\ dropped' = dropped + Weight(m)
          /\ UNCHANGED queue
    /\ UNCHANGED <<seen, detached, helper, trace>>

-----------------------------------------------------------------------------
(* The helper *)

Goto(pc) == helper' = [helper EXCEPT !.pc = pc]

\* apply_agent_record on the Collector h.
Apply(h, m) ==
    LET room == Cap - Len(h.events) - Len(h.jumps)
        events == First(m.events, room)
        jumps == First(m.jumps, room)
    IN CASE m.type = "meta"  -> [h EXCEPT !.base = TRUE]
         [] m.type = "batch" -> [h EXCEPT !.events = @ \o events,
                                          !.lost = @ + Len(m.events) - Len(events)]
         [] m.type = "jump_batch" -> [h EXCEPT !.jumps = @ \o jumps,
                                          !.lost = @ + Len(m.jumps) - Len(jumps)]
         [] m.type = "done"  -> [h EXCEPT !.done = TRUE, !.lost = @ + m.lost]
         [] m.type = "error" -> [h EXCEPT !.errors = IF @ < MaxDiagnostics THEN @ + 1
                                                     ELSE @]

\* try_recv; evidence after the end is an error of the helper.
Read ==
    /\ helper.pc \in {"watch", "drain"}
    /\ queue # <<>>
    /\ queue' = Tail(queue)
    /\ \/ /\ ~helper.done
          /\ helper' = Apply(helper, Head(queue))
          /\ UNCHANGED detached
       \/ /\ helper.done
          /\ Goto("failed")
          /\ detached' = TRUE
    /\ UNCHANGED <<agent, seen, dropped, trace>>

\* The watching loop ends when the session is detached or time is up; which of
\* the two it was is read a second time.
StopWatching ==
    /\ helper.pc = "watch"
    /\ Goto("stopped")
    /\ UNCHANGED <<agent, seen, detached, queue, dropped, trace>>

ReadDetached ==
    /\ helper.pc = "stopped"
    /\ helper' = [helper EXCEPT !.pc = "drain", !.timed_out = ~detached]
    /\ UNCHANGED <<agent, seen, detached, queue, dropped, trace>>

\* The last drain, 50 ms later, found the queue empty.
EndDrain ==
    /\ helper.pc = "drain"
    /\ queue = <<>>
    /\ Goto("judge")
    /\ UNCHANGED <<agent, seen, detached, queue, dropped, trace>>

StatusOf(lost) ==
    CASE helper.timed_out -> "timed_out"
      [] ~helper.timed_out /\ helper.errors > 0 -> "injection_error"
      [] ~helper.timed_out /\ helper.errors = 0
            /\ (lost > 0 \/ Len(helper.events) + Len(helper.jumps) >= Cap) -> "truncated"
      [] OTHER -> IF helper.done THEN "completed" ELSE "detached"

\* Mutant of Discard: jumps of an incomplete run are kept.
DiscardNothing(status, lost) ==
    [status |-> status, events |-> helper.events, jumps |-> helper.jumps,
     lost |-> lost, diagnostics |-> helper.errors]

\* The jumps of a run that is not complete are discarded, and counted as lost.
Discard(status, lost) ==
    LET told == helper.errors + (IF helper.timed_out THEN 1 ELSE 0)
        keep == status = "completed" \/ helper.jumps = <<>>
    IN [status |-> status, events |-> helper.events,
        jumps |-> IF keep THEN helper.jumps ELSE <<>>,
        lost |-> IF keep THEN lost ELSE lost + Len(helper.jumps),
        diagnostics |-> IF keep \/ told >= MaxDiagnostics THEN told ELSE told + 1]

\* Mutant of Judge: what the callback dropped is not added.
JudgeIgnoresDropped ==
    /\ helper.pc = "judge"
    /\ helper.base
    /\ trace' = Discard(StatusOf(helper.lost), helper.lost)
    /\ Goto("written")
    /\ detached' = TRUE
    /\ UNCHANGED <<agent, seen, queue, dropped>>

\* The count of dropped observations is read, the trace judged and written, and
\* the target killed.
Judge ==
    LET lost == helper.lost + dropped IN
    /\ helper.pc = "judge"
    /\ helper.base
    /\ trace' = Discard(StatusOf(lost), lost)
    /\ Goto("written")
    /\ detached' = TRUE
    /\ UNCHANGED <<agent, seen, queue, dropped>>

\* validate_dynamic_trace, but for the number of diagnostics.
ValidEvidence(t) ==
    /\ Len(t.events) + Len(t.jumps) <= Cap
    /\ t.jumps # <<>> => t.status = "completed" /\ t.lost = 0
    /\ IsPrefix(t.jumps, agent.jumps)           \* jump.sequence is its index
    /\ t.status = "completed" =>
          /\ \E i \in DOMAIN t.events : t.events[i].kind = "entry"
          /\ \E i \in DOMAIN t.events : t.events[i].kind = "exit"
          /\ t.lost = 0
    /\ t.status = "truncated" => Len(t.events) + Len(t.jumps) = Cap \/ t.lost > 0

\* observe, outside the sandbox, validates what the helper wrote.
Validate ==
    /\ helper.pc = "written"
    /\ Goto(IF ValidEvidence(trace) /\ trace.diagnostics <= MaxDiagnostics
            THEN "accepted" ELSE "rejected")
    /\ UNCHANGED <<agent, seen, detached, queue, dropped, trace>>

\* No module base, a malformed or too large record, the outer time limit, too
\* much output: there is no trace for the caller, and the target is killed.
Fails ==
    /\ helper.pc \in {"watch", "drain", "judge", "written"}
    /\ Goto("failed")
    /\ detached' = TRUE
    /\ UNCHANGED <<agent, seen, queue, dropped, trace>>

-----------------------------------------------------------------------------
TargetStep == \/ \E t \in Thread : Enter(t) \/ Intrude(t)
              \/ JumpSource \/ Block \/ Receive \/ Leave \/ AgentError \/ TargetEnds

HelperStep == \/ Read \/ StopWatching \/ ReadDetached \/ EndDrain \/ Judge
              \/ Validate \/ Fails

Next == TargetStep \/ Deliver \/ HelperStep

Spec == Init /\ [][Next]_vars

-----------------------------------------------------------------------------
(* Properties *)

Owed == seen.events + seen.jumps - Cardinality(seen.left) + seen.intrusions

\* "completed" means complete: whatever the queue dropped, the cap cut off or
\* another thread disturbed, a trace with this status has every event of the
\* run in its order, every computed jump that stayed in the module, and no
\* other status has jumps that could be taken for all of them.
CompletedIsComplete ==
    trace # None /\ trace.status = "completed" =>
        /\ agent.phase = "finished"
        /\ [i \in DOMAIN trace.events |-> trace.events[i].n] = [i \in 1..seen.events |-> i]
        /\ ToSet(trace.jumps) = (1..seen.jumps) \ seen.left
        /\ trace.lost = 0

\* "dropped batches count observations, not messages": once the agent's end
\* was received, every observation is in the trace or counted in lost_events,
\* unless the agent threw.
LossIsAccounted ==
    trace # None /\ helper.done /\ seen.errors = 0 =>
        trace.lost + Len(trace.events) + Len(trace.jumps) >= Owed

\* A trace that counts no loss and reports no error has no gap, however it
\* ended: its events are the first events of the run.
NoGapWithoutLoss ==
    trace # None /\ trace.lost = 0 /\ helper.errors = 0 =>
        \A i \in DOMAIN trace.events : trace.events[i].n = i

\* The evidence in a trace the helper writes passes validate_dynamic_trace.
EvidenceIsAccepted == trace # None => ValidEvidence(trace)
=============================================================================
