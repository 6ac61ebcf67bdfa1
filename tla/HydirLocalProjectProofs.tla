----------------------- MODULE HydirLocalProjectProofs -----------------------
(***************************************************************************)
(* For any clients, call graphs, models, rebuilds and bounds: cached C is  *)
(* what emitting it again would give and made of a model of its binary,    *)
(* and a loaded model is the newest of its handle.                         *)
(***************************************************************************)
EXTENDS HydirLocalProject, WellFoundedInduction, TLAPS

-----------------------------------------------------------------------------
(* Least closed sets *)

Closed(D, S, points) == S \subseteq D /\ \A y \in D : points[y] \subseteq D

\* Closure is a closed set, and is contained in every other.
LEMMA ClosureIsLeast ==
    ASSUME NEW U, NEW S \in SUBSET U, NEW points, \A y \in U : points[y] \subseteq U
    PROVE  /\ Closure(U, S, points) \subseteq U
           /\ Closed(Closure(U, S, points), S, points)
           /\ \A D \in SUBSET U : Closed(D, S, points) => Closure(U, S, points) \subseteq D
  <1> DEFINE C == Closure(U, S, points)
  <1>1. C = {x \in U : \A D \in SUBSET U : Closed(D, S, points) => x \in D}
    BY DEF Closure, Closed
  <1> HIDE DEF C
  <1>2. C \subseteq U /\ S \subseteq C
    BY <1>1 DEF Closed
  <1>3. ASSUME NEW y \in C, NEW x \in points[y] PROVE x \in C
    <2>1. y \in U /\ x \in U
      BY <1>2, <1>3
    <2>2. ASSUME NEW D \in SUBSET U, Closed(D, S, points) PROVE x \in D
      BY <1>1, <1>3, <2>2 DEF Closed
    <2> QED
      BY <1>1, <2>1, <2>2
  <1>4. \A D \in SUBSET U : Closed(D, S, points) => C \subseteq D
    BY <1>1
  <1> QED
    BY <1>2, <1>3, <1>4 DEF Closed, C

\* A closure does not change when nothing changes that its members point to.
LEMMA SameClosure ==
    ASSUME NEW U, NEW S \in SUBSET U, NEW p, NEW q,
           \A y \in U : p[y] \subseteq U /\ q[y] \subseteq U,
           \A y \in Closure(U, S, p) : p[y] = q[y]
    PROVE  Closure(U, S, q) = Closure(U, S, p)
  <1> DEFINE P == Closure(U, S, p)
             Q == Closure(U, S, q)
  <1>1. /\ P \subseteq U /\ Closed(P, S, p)
        /\ \A D \in SUBSET U : Closed(D, S, p) => P \subseteq D
    BY ClosureIsLeast
  <1>2. /\ Q \subseteq U /\ Closed(Q, S, q)
        /\ \A D \in SUBSET U : Closed(D, S, q) => Q \subseteq D
    BY ClosureIsLeast
  <1>3. \A y \in P : p[y] = q[y]
    OBVIOUS
  <1> HIDE DEF P, Q
  <1>4. Closed(P, S, q)
    BY <1>1, <1>3 DEF Closed
  <1>5. Q \subseteq P
    BY <1>1, <1>2, <1>4
  <1>6. Closed(Q, S, p)
    BY <1>2, <1>3, <1>5 DEF Closed
  <1>7. P \subseteq Q
    BY <1>1, <1>2, <1>6
  <1> QED
    BY <1>5, <1>7 DEF P, Q

-----------------------------------------------------------------------------
(* Typed C *)

Named(f, kind, m) ==
    IF kind = "typed" THEN UNION {m.functions[g].types : g \in {f} \cup Calls[f]}
    ELSE m.functions[f].types

\* What a model mentions exists.
LEMMA ModelTypes ==
    ASSUME NEW m \in Model
    PROVE  /\ \A f \in Function : m.functions[f].types \subseteq Type
           /\ \A t \in Type : m.types[t].refers \subseteq Type
           /\ \A f \in Function : Calls[f] \subseteq Function
           /\ \A f \in Function : \A kind : Named(f, kind, m) \subseteq Type
  <1>1. m.functions \in [Function -> FunctionRow(Nat)] /\ m.types \in [Type -> TypeRow(Nat)]
    BY ModelAssumption
  <1>2. /\ \A f \in Function : m.functions[f].types \subseteq Type
        /\ \A t \in Type : m.types[t].refers \subseteq Type
    BY <1>1 DEF FunctionRow, TypeRow
  <1>3. \A f \in Function : Calls[f] \subseteq Function
    BY CallsAssumption
  <1> QED
    BY <1>2, <1>3 DEF Named

\* Two models with the same facts about what a function reaches and about the
\* types it declares give the same text.
LEMMA SameText ==
    ASSUME NEW f \in Function, NEW kind, NEW old \in Model, NEW new \in Model,
           \A g \in Reached(f) : old.functions[g] = new.functions[g],
           \A t \in UsedTypes(f, kind, old) : old.types[t] = new.types[t]
    PROVE  /\ Text(f, kind, new) = Text(f, kind, old)
           /\ UsedTypes(f, kind, new) = UsedTypes(f, kind, old)
  <1> DEFINE p == [t \in Type |-> old.types[t].refers]
             q == [t \in Type |-> new.types[t].refers]
  <1>1. f \in Reached(f) /\ Calls[f] \subseteq Reached(f)
    <2>1. {f} \in SUBSET Function /\ \A g \in Function : Calls[g] \subseteq Function
      BY ModelTypes
    <2>2. Closed(Closure(Function, {f}, Calls), {f}, Calls)
      BY <2>1, ClosureIsLeast
    <2> QED
      BY <2>2 DEF Reached, Closed
  <1>2. Named(f, kind, new) = Named(f, kind, old)
    <2>1. \A g \in {f} \cup Calls[f] : old.functions[g] = new.functions[g]
      BY <1>1
    <2> QED
      BY <2>1 DEF Named
  <1>3. /\ UsedTypes(f, kind, old) = Closure(Type, Named(f, kind, old), p)
        /\ UsedTypes(f, kind, new) = Closure(Type, Named(f, kind, new), q)
    BY DEF UsedTypes, Named
  <1>4. /\ Named(f, kind, old) \in SUBSET Type
        /\ \A t \in Type : p[t] \subseteq Type /\ q[t] \subseteq Type
    BY ModelTypes
  <1>5. UsedTypes(f, kind, old) \subseteq Type
    <2> HIDE DEF p, q
    <2>1. \A t \in Type : p[t] \subseteq Type
      BY <1>4
    <2>2. Closure(Type, Named(f, kind, old), p) \subseteq Type
      BY <1>4, <2>1, ClosureIsLeast
    <2> QED
      BY <1>3, <2>2
  <1>6. \A t \in Closure(Type, Named(f, kind, old), p) : p[t] = q[t]
    BY <1>3, <1>5
  <1> HIDE DEF p, q
  <1>7. UsedTypes(f, kind, new) = UsedTypes(f, kind, old)
    BY <1>2, <1>3, <1>4, <1>6, SameClosure
  <1>8. /\ [g \in Reached(f) |-> new.functions[g]] = [g \in Reached(f) |-> old.functions[g]]
        /\ [t \in UsedTypes(f, kind, new) |-> new.types[t]]
             = [t \in UsedTypes(f, kind, old) |-> old.types[t]]
    BY <1>7
  <1> QED
    BY <1>7, <1>8 DEF Text

\* carry_typed_c_cache is sound: of the rows of a model, the text of a function
\* that is not dirty is the one that the new model gives.  That a function with
\* an unknown callee is dirty makes what a clean one reaches have rows.
LEMMA CleanTextIsFresh ==
    ASSUME NEW rows, NEW old \in Model, NEW new \in Model,
           \A r \in rows : /\ r.entry \in Function
                           /\ r.calls = Calls[r.entry]
                           /\ r.types = UsedTypes(r.entry, r.kind, old),
           NEW r \in rows, r.entry \notin Dirty(rows, old, new)
    PROVE  /\ Text(r.entry, r.kind, new) = Text(r.entry, r.kind, old)
           /\ UsedTypes(r.entry, r.kind, new) = UsedTypes(r.entry, r.kind, old)
  <1> DEFINE entries == {q.entry : q \in rows}
             changed == ChangedFunctions(old, new)
             unknown == {x.entry : x \in {q \in rows : ~(q.calls \subseteq entries)}}
             retyped == {x.entry : x \in {q \in rows :
                                            q.types \cap ChangedTypes(old, new) # {}}}
             callers == [f \in Function |-> {x.entry : x \in {q \in rows : f \in q.calls}}]
             S == changed \cup retyped \cup (IF changed = {} THEN {} ELSE unknown)
             D == Closure(Function, S, callers)
             f == r.entry
  <1>1. D = Dirty(rows, old, new)
    BY DEF Dirty
  <1>2. S \in SUBSET Function
    BY DEF ChangedFunctions
  <1>3. \A g \in Function : callers[g] \subseteq Function
    OBVIOUS
  <1>4. D \subseteq Function /\ S \subseteq D /\ \A g \in D : callers[g] \subseteq D
    <2> HIDE DEF S, callers
    <2> QED
      BY <1>2, <1>3, ClosureIsLeast DEF Closed
  <1>5. f \in Function /\ f \notin D
    BY <1>1
  <1> HIDE DEF D
  <1>6. \A g \in Reached(f) : old.functions[g] = new.functions[g]
    <2>1. CASE changed = {}
      <3>1. Reached(f) \subseteq Function
        BY <1>5, ModelTypes, ClosureIsLeast DEF Reached
      <3> QED
        BY <2>1, <3>1 DEF ChangedFunctions
    <2>2. CASE changed # {}
      <3> DEFINE clean == entries \ D
      <3>1. f \in clean
        BY <1>5
      <3>2. ASSUME NEW g \in clean, NEW h \in Calls[g] PROVE h \in clean
        <4>1. PICK x \in rows : g = x.entry
          OBVIOUS
        <4>2. x.calls = Calls[g] /\ g \notin unknown
          BY <1>4, <2>2, <4>1
        <4>3. x.calls \subseteq entries
          BY <4>1, <4>2
        <4>4. h \in entries /\ h \in Function
          BY <4>2, <4>3
        <4>5. g \in callers[h]
          BY <4>1, <4>2, <4>4
        <4>6. h \notin D
          BY <1>4, <4>5
        <4> QED
          BY <4>4, <4>6
      <3>3. clean \in SUBSET Function
        OBVIOUS
      <3> HIDE DEF clean
      <3>4. Closed(clean, {f}, Calls)
        BY <3>1, <3>2 DEF Closed
      <3>5. Reached(f) \subseteq clean
        BY <1>5, <3>3, <3>4, ModelTypes, ClosureIsLeast DEF Reached
      <3>6. \A g \in clean : g \in Function /\ g \notin changed
        BY <1>4, <3>3 DEF clean
      <3> QED
        BY <3>5, <3>6 DEF ChangedFunctions
    <2> QED
      BY <2>1, <2>2
  <1>7. \A t \in UsedTypes(f, r.kind, old) : old.types[t] = new.types[t]
    <2>1. UsedTypes(f, r.kind, old) \subseteq Type
      <3> DEFINE p == [t \in Type |-> old.types[t].refers]
      <3>1. Named(f, r.kind, old) \in SUBSET Type /\ \A t \in Type : p[t] \subseteq Type
        BY <1>5, ModelTypes
      <3>2. UsedTypes(f, r.kind, old) = Closure(Type, Named(f, r.kind, old), p)
        BY DEF UsedTypes, Named
      <3> HIDE DEF p
      <3> QED
        BY <3>1, <3>2, ClosureIsLeast
    <2>2. f \notin retyped
      BY <1>4, <1>5
    <2>3. r.types \cap ChangedTypes(old, new) = {}
      BY <2>2
    <2> QED
      BY <2>1, <2>3 DEF ChangedTypes
  <1> QED
    BY <1>5, <1>6, <1>7, SameText
-----------------------------------------------------------------------------
(* The invariant *)

Handle == [revision : Revision, binary : Binary]
Found == [revision : Revision, model : Model, of : Binary]
ModelRow == [revision : Revision, binary : Binary, model : Model, of : Binary]
Fact == [kind : {"annotation", "snapshot"}, revision : Revision, binary : Binary]
Pc == {"idle", "imported", "opening", "ready", "selecting", "validating", "reading",
       "saving", "annotating", "keeping", "caching"}
ClientState == [pc : Pc, handle : Handle \cup {None}, seen : Binary \cup {None},
                model : Found \cup {None}, save : Save \cup {None},
                entry : Lowered \cup {None}]

Types ==
    /\ file \in Binary
    /\ current \in Revision
    /\ binaryAt \in [Revision -> Binary \cup {None}]
    /\ evidence \subseteq Fact
    /\ models \subseteq ModelRow
    /\ client \in [Client -> ClientState]

\* The revisions that exist are those up to the current one, and each has at most
\* one model.
HistoryInv ==
    /\ \A n \in Revision : binaryAt[n] # None <=> n \in 1..current
    /\ \A e \in evidence \cup models : e.revision \in 1..current
    /\ \A m, k \in models : m.revision = k.revision => m = k
    /\ \A q \in requests : q.revision \in 1..current

\* Facts are under the binary of their revision; the models of a binary describe
\* one content.
BindingInv ==
    /\ \A e \in evidence \cup models : binaryAt[e.revision] = e.binary
    /\ \A m, p \in models : m.binary = p.binary => m.of = p.of

\* A row of the cache is what its model gives, with what the text depends on, and
\* the model describes the binary of the row.
RowOf(r, m) ==
    /\ m.binary = r.binary /\ m.revision = r.revision /\ m.of = r.binary
    /\ r.entry \in Function
    /\ r.text = Text(r.entry, r.kind, m.model)
    /\ r.types = UsedTypes(r.entry, r.kind, m.model)
    /\ r.calls = Calls[r.entry]
CacheInv ==
    \A r \in cache :
        /\ r = [binary |-> r.binary, revision |-> r.revision, entry |-> r.entry,
                kind |-> r.kind, text |-> r.text, types |-> r.types, calls |-> r.calls]
        /\ \E m \in models : RowOf(r, m)

\* A loaded model is the newest one of the handle's binary and revision.
Stored(m, b) == \E k \in models : k.binary = b /\ k.revision = m.revision
                                  /\ k.model = m.model /\ k.of = m.of
Newest(m, b, n) == \A k \in models : k.binary = b /\ k.revision <= n
                                    => k.revision <= m.revision
LoadedInv(c) ==
    client[c].model # None =>
        /\ client[c].handle \in Handle /\ client[c].handle.revision <= current
        /\ client[c].model \in Found
        /\ client[c].model.revision <= client[c].handle.revision
        /\ Stored(client[c].model, client[c].handle.binary)
        /\ Newest(client[c].model, client[c].handle.binary, client[c].handle.revision)

ClientInv(c) ==
    /\ client[c].pc \notin {"idle", "imported", "opening"} =>
         client[c].handle \in Handle /\ client[c].handle.revision \in 1..current
    /\ client[c].pc \in {"imported", "opening", "saving"} => client[c].seen \in Binary
    /\ client[c].pc \in {"reading", "saving", "annotating"} => client[c].save \in Save
    /\ client[c].pc = "caching" =>
         client[c].entry \in Lowered /\ client[c].model.of = client[c].handle.binary
    /\ client[c].pc \in {"validating", "caching"} => client[c].model # None

IInv ==
    /\ Types /\ HistoryInv /\ CacheInv /\ BindingInv
    /\ \A c \in Client : ClientInv(c) /\ LoadedInv(c)

-----------------------------------------------------------------------------
(* The newest model *)

\* A set of numbers with a bound has a largest element.
LEMMA LargestExists ==
    ASSUME NEW S \in SUBSET Revision, S # {}
    PROVE  \E v \in S : \A w \in S : w <= v
  <1> DEFINE T == {MaxRevision - v : v \in S}
             R == OpToRel(<, Nat)
  <1>0. MaxRevision \in Nat /\ \A v \in S : v \in Nat /\ MaxRevision - v \in Nat
    BY BoundAssumption DEF Revision
  <1>1. T \subseteq Nat /\ T # {}
    BY <1>0
  <1>2. PICK x \in T : \A y \in T : <<y, x>> \notin R
    BY <1>1, NatLessThanWellFounded, WFMin
  <1>3. \A y \in T : ~(y < x)
    BY <1>1, <1>2 DEF OpToRel
  <1>4. PICK v \in S : x = MaxRevision - v
    OBVIOUS
  <1>5. ASSUME NEW w \in S PROVE w <= v
    <2>1. ~(MaxRevision - w < x)
      BY <1>3
    <2> QED
      BY <1>0, <1>4, <2>1
  <1> QED
    BY <1>5

\* The answer of the query for the newest model up to a revision.
LEMMA LatestIsNewest ==
    ASSUME Types, NEW b, NEW n
    PROVE  LatestModel(b, n) # None =>
             /\ LatestModel(b, n) \in Found
             /\ LatestModel(b, n).revision <= n
             /\ Stored(LatestModel(b, n), b)
             /\ Newest(LatestModel(b, n), b, n)
  <1> DEFINE saved == {m \in models : m.binary = b /\ m.revision <= n}
             newest == CHOOSE m \in saved : \A k \in saved : k.revision <= m.revision
             row == [revision |-> newest.revision, model |-> newest.model, of |-> newest.of]
  <1>1. LatestModel(b, n) = IF saved = {} THEN None ELSE row
    BY DEF LatestModel
  <1>2. CASE saved = {}
    BY <1>1, <1>2
  <1>3. CASE saved # {}
    <2>1. saved \subseteq ModelRow
      BY DEF Types
    <2>2. \E m \in saved : \A k \in saved : k.revision <= m.revision
      <3> DEFINE S == {m.revision : m \in saved}
      <3>1. S \in SUBSET Revision /\ S # {}
        BY <1>3, <2>1 DEF ModelRow
      <3>2. PICK v \in S : \A w \in S : w <= v
        <4> HIDE DEF S
        <4> QED
          BY <3>1, LargestExists
      <3> QED
        BY <3>2
    <2> HIDE DEF saved
    <2>3. newest \in saved /\ \A k \in saved : k.revision <= newest.revision
      BY <2>2
    <2> HIDE DEF newest
    <2>4. row \in Found /\ row.revision = newest.revision /\ row.model = newest.model
          /\ row.of = newest.of
      BY <2>1, <2>3 DEF ModelRow, Found
    <2> HIDE DEF row
    <2>5. row.revision <= n /\ Stored(row, b) /\ Newest(row, b, n)
      BY <2>3, <2>4 DEF saved, Stored, Newest
    <2> QED
      BY <1>1, <1>3, <2>4, <2>5
  <1> QED
    BY <1>2, <1>3

\* The query finds a model if there is one.
LEMMA SavedIsFound ==
    ASSUME Types, NEW b, NEW n, NEW p \in models, p.binary = b, p.revision <= n
    PROVE  LatestModel(b, n) # None
  <1> SUFFICES ASSUME LatestModel(b, n) = None PROVE FALSE
    OBVIOUS
  <1> DEFINE saved == {m \in models : m.binary = b /\ m.revision <= n}
             newest == CHOOSE m \in saved : \A k \in saved : k.revision <= m.revision
             row == [revision |-> newest.revision, model |-> newest.model, of |-> newest.of]
  <1>1. saved # {} /\ saved \subseteq ModelRow
    BY DEF Types
  <1>2. None = row
    BY <1>1 DEF LatestModel
  <1>3. \E m \in saved : \A k \in saved : k.revision <= m.revision
    <2> DEFINE S == {m.revision : m \in saved}
    <2>1. S \in SUBSET Revision /\ S # {}
      BY <1>1 DEF ModelRow
    <2>2. PICK v \in S : \A w \in S : w <= v
      <3> HIDE DEF S
      <3> QED
        BY <2>1, LargestExists
    <2> QED
      BY <2>2
  <1> HIDE DEF saved
  <1>4. newest \in ModelRow
    BY <1>1, <1>3
  <1> HIDE DEF newest
  <1>5. row \in [revision : Nat, model : Model, of : Binary]
    BY <1>4, BoundAssumption DEF ModelRow, Revision
  <1> QED
    BY <1>2, <1>5, NoneAssumption
-----------------------------------------------------------------------------
(* Clients *)

\* Later revisions do not change what a client has loaded.
LEMMA OthersKeep ==
    ASSUME IInv, current' \in Revision, current' >= current, models \subseteq models',
           \A m \in models' \ models : m.revision > current,
           models' \subseteq ModelRow,
           NEW d \in Client, client'[d] = client[d]
    PROVE  ClientInv(d)' /\ LoadedInv(d)'
  <1>1. current \in Nat /\ current' \in Nat
    BY BoundAssumption DEF IInv, Types, Revision
  <1>2. ClientInv(d)'
    BY <1>1 DEF IInv, ClientInv
  <1>3. LoadedInv(d)'
    <2> SUFFICES ASSUME client[d].model # None PROVE LoadedInv(d)'
      BY DEF LoadedInv
    <2> DEFINE h == client[d].handle
               m == client[d].model
    <2>1. /\ h \in Handle /\ h.revision <= current /\ m \in Found
          /\ m.revision <= h.revision
          /\ Stored(m, h.binary) /\ Newest(m, h.binary, h.revision)
      BY DEF IInv, LoadedInv
    <2>2. h.revision \in Nat
      BY <2>1, BoundAssumption DEF Handle, Revision
    <2>3. ASSUME NEW k \in models', k.binary = h.binary, k.revision <= h.revision
          PROVE  k.revision <= m.revision
      <3>1. k.revision \in Nat
        BY BoundAssumption DEF ModelRow, Revision
      <3>2. k \in models
        BY <1>1, <2>1, <2>2, <2>3, <3>1
      <3> QED
        BY <2>1, <2>3, <3>2 DEF Newest
    <2>4. \E k \in models' : /\ k.binary = h.binary /\ k.revision = m.revision
                            /\ k.model = m.model /\ k.of = m.of
      BY <2>1 DEF Stored
    <2> HIDE DEF h, m
    <2>5. client'[d].handle = h /\ client'[d].model = m
      BY DEF h, m
    <2>6. h.revision <= current'
      BY <1>1, <2>1, <2>2
    <2> QED
      BY <2>1, <2>3, <2>4, <2>5, <2>6 DEF LoadedInv, Stored, Newest
  <1> QED
    BY <1>2, <1>3

\* A client that returns to its handle has nothing in progress.
LEMMA ReadyFields ==
    ASSUME Types, NEW c \in Client, NEW h \in Handle, NEW m \in Found \cup {None},
           Ready(c, h, m)
    PROVE  /\ client' \in [Client -> ClientState]
           /\ client'[c].pc = "ready" /\ client'[c].handle = h /\ client'[c].model = m
           /\ \A d \in Client \ {c} : client'[d] = client[d]
  <1> DEFINE r == [Idle EXCEPT !.pc = "ready", !.handle = h, !.model = m]
  <1>1. r \in ClientState /\ r.pc = "ready" /\ r.handle = h /\ r.model = m
    <2>1. "ready" \in Pc
      BY DEF Pc
    <2> QED
      BY <2>1 DEF Idle, ClientState
  <1>2. client' = [client EXCEPT ![c] = r]
    BY DEF Ready, Set
  <1> HIDE DEF r
  <1> QED
    BY <1>1, <1>2 DEF Types

\* A client that moves on keeps what it holds.
LEMMA MoveFields ==
    ASSUME NEW x \in ClientState, NEW pc \in Pc
    PROVE  LET y == [x EXCEPT !.pc = pc] IN
             /\ y \in ClientState /\ y.pc = pc /\ y.handle = x.handle
             /\ y.seen = x.seen /\ y.model = x.model /\ y.save = x.save
  BY DEF ClientState

\* A client that starts anew holds nothing but the bytes it read.
LEMMA IdleFields ==
    ASSUME NEW b \in Binary
    PROVE  /\ Idle \in ClientState /\ Idle.pc = "idle" /\ Idle.model = None
           /\ LET y == [Idle EXCEPT !.pc = "imported", !.seen = b] IN
                /\ y \in ClientState /\ y.pc = "imported" /\ y.seen = b /\ y.model = None
  <1>1. "idle" \in Pc /\ "imported" \in Pc
    BY DEF Pc
  <1>2. Idle \in ClientState /\ Idle.pc = "idle" /\ Idle.model = None
    BY <1>1 DEF Idle, ClientState
  <1>3. LET y == [Idle EXCEPT !.pc = "imported", !.seen = b] IN
          /\ y \in ClientState /\ y.pc = "imported" /\ y.seen = b /\ y.model = None
    BY <1>1 DEF Idle, ClientState
  <1> QED
    BY <1>2, <1>3

\* A step that writes no table only has to leave its client in order.
LEMMA QuietKeeps ==
    ASSUME IInv, UNCHANGED <<file, tables>>, NEW c \in Client, NEW x \in ClientState,
           Set(c, x),
           client'[c] = x => ClientInv(c)' /\ LoadedInv(c)'
    PROVE  IInv'
  <1>1. /\ client' \in [Client -> ClientState] /\ client'[c] = x
        /\ \A d \in Client \ {c} : client'[d] = client[d]
    BY DEF Set, IInv, Types
  <1>2. /\ file' = file /\ current' = current /\ binaryAt' = binaryAt
        /\ evidence' = evidence /\ models' = models /\ requests' = requests
        /\ cache' = cache
    BY DEF tables
  <1>3. ASSUME NEW d \in Client \ {c} PROVE ClientInv(d)' /\ LoadedInv(d)'
    BY <1>1, <1>2 DEF IInv, ClientInv, LoadedInv, Stored, Newest
  <1>4. Types' /\ HistoryInv' /\ BindingInv'
    BY <1>1, <1>2 DEF IInv, Types, HistoryInv, BindingInv
  <1>5. CacheInv'
    BY <1>2, SMTT(30) DEF IInv, CacheInv
  <1> QED
    BY <1>1, <1>3, <1>4, <1>5 DEF IInv

\* Steps that read the file or the tables, and those that give up.
LEMMA ReadsKeep ==
    ASSUME IInv, NEW c \in Client,
           \/ ReadElf(c) \/ OpenCheck(c) \/ Verify(c, "selecting") \/ Verify(c, "keeping")
           \/ \E s \in Save : BeginSave(c, s) \/ BeginAnnotation(c, s)
           \/ SaveRead(c) \/ Quit(c)
    PROVE  IInv'
  <1> DEFINE x == client[c]
  <1>1. x \in ClientState /\ file \in Binary /\ ClientInv(c) /\ LoadedInv(c)
    BY SMTT(30) DEF IInv, Types
  <1>2. UNCHANGED <<file, tables>>
    BY DEF ReadElf, OpenCheck, Verify, BeginSave, BeginAnnotation, SaveRead, Quit
  <1>3. current' = current /\ models' = models
    BY <1>2 DEF tables
  <1>4. ASSUME NEW y \in ClientState, y.pc \in {"idle", "imported"}, y.model = None,
               y.pc = "imported" => y.seen \in Binary, Set(c, y)
        PROVE  IInv'
    <2>1. ASSUME client'[c] = y PROVE ClientInv(c)' /\ LoadedInv(c)'
      BY <1>4, <2>1 DEF ClientInv, LoadedInv
    <2> QED
      BY <1>2, <1>4, <2>1, QuietKeeps
  <1>5. ASSUME NEW y \in ClientState, Set(c, y),
               y.handle = x.handle, y.model = x.model,
               y.pc \notin {"validating", "caching"},
               x.pc \in {"idle", "imported", "opening"} =>
                  y.pc \in {"idle", "imported", "opening"},
               y.pc \in {"imported", "opening", "saving"} => y.seen \in Binary,
               y.pc \in {"reading", "saving", "annotating"} => y.save \in Save
        PROVE  IInv'
    <2>1. ASSUME client'[c] = y PROVE ClientInv(c)' /\ LoadedInv(c)'
      <3>1. ClientInv(c)'
        BY <1>1, <1>3, <1>5, <2>1 DEF ClientInv
      <3>2. LoadedInv(c)'
        BY <1>1, <1>3, <1>5, <2>1 DEF LoadedInv, Stored, Newest
      <3> QED
        BY <3>1, <3>2
    <2> QED
      BY <1>2, <1>5, <2>1, QuietKeeps
  <1> HIDE DEF x
  <1>6. CASE ReadElf(c)
    BY <1>1, <1>4, <1>6, IdleFields DEF ReadElf
  <1>7. CASE Quit(c)
    BY <1>1, <1>4, <1>7, IdleFields DEF Quit
  <1>8. CASE OpenCheck(c)
    <2>1. CASE file = x.seen
      <3> DEFINE y == [x EXCEPT !.pc = "opening"]
      <3>1. "opening" \in Pc
        BY DEF Pc
      <3>2. /\ y \in ClientState /\ y.pc = "opening" /\ y.handle = x.handle
            /\ y.model = x.model /\ y.seen = x.seen
        BY <1>1, <3>1, MoveFields
      <3>3. Set(c, y)
        BY <1>8, <2>1 DEF OpenCheck, Goto, x
      <3> HIDE DEF y
      <3> QED
        BY <1>1, <1>5, <2>1, <3>2, <3>3
    <2>2. CASE file # x.seen
      BY <1>1, <1>4, <1>8, <2>2, IdleFields DEF OpenCheck, x
    <2> QED
      BY <2>1, <2>2
  <1>9. ASSUME NEW pc \in {"selecting", "keeping"}, Verify(c, pc) PROVE IInv'
    <2> DEFINE y == [x EXCEPT !.pc = pc]
    <2>1. pc \in Pc /\ x.pc = "ready"
      BY <1>9 DEF Pc, Verify, x
    <2>2. y \in ClientState /\ y.pc = pc /\ y.handle = x.handle /\ y.model = x.model
      BY <1>1, <2>1, MoveFields
    <2>3. Set(c, y)
      BY <1>9 DEF Verify, Goto, x
    <2> HIDE DEF y
    <2> QED
      BY <1>5, <2>1, <2>2, <2>3
  <1>10. ASSUME NEW s \in Save, NEW pc \in {"reading", "annotating"}, x.pc = "ready",
                Set(c, [x EXCEPT !.pc = pc, !.save = s])
         PROVE  IInv'
    <2> DEFINE y == [x EXCEPT !.pc = pc, !.save = s]
    <2>1. pc \in Pc
      BY DEF Pc
    <2>2. /\ y \in ClientState /\ y.pc = pc /\ y.handle = x.handle
          /\ y.model = x.model /\ y.save = s
      BY <1>1, <2>1, <1>10 DEF ClientState
    <2>3. Set(c, y)
      BY <1>10
    <2> HIDE DEF y
    <2> QED
      BY <1>5, <1>10, <2>2, <2>3
  <1>11. CASE SaveRead(c)
    <2> DEFINE y == [x EXCEPT !.pc = "saving", !.seen = file]
    <2>1. "saving" \in Pc /\ x.pc = "reading"
      BY <1>11 DEF Pc, SaveRead, x
    <2>2. /\ y \in ClientState /\ y.pc = "saving" /\ y.handle = x.handle
          /\ y.model = x.model /\ y.save = x.save /\ y.seen = file
      BY <1>1, <2>1 DEF ClientState
    <2>3. Set(c, y)
      BY <1>11 DEF SaveRead, x
    <2> HIDE DEF y
    <2>4. x.save \in Save
      BY <1>1, <2>1 DEF ClientInv, x
    <2> QED
      BY <1>1, <1>5, <2>1, <2>2, <2>3, <2>4
  <1> QED
    BY <1>6, <1>7, <1>8, <1>9, <1>10, <1>11 DEF BeginSave, BeginAnnotation, x

\* load_model and the look-up in the cache work with the newest model.
LEMMA LoadsKeep ==
    ASSUME IInv, NEW c \in Client,
           SelectModel(c) \/ ValidateModel(c) \/ \E e \in Lowered : LookUp(c, e)
    PROVE  IInv'
  <1> DEFINE x == client[c]
             h == x.handle
  <1>1. x \in ClientState /\ file \in Binary /\ Types
    BY SMTT(30) DEF IInv, Types
  <1>2. UNCHANGED <<file, tables>>
    BY DEF SelectModel, ValidateModel, LookUp
  <1>3. current' = current /\ models' = models
    BY <1>2 DEF tables
  <1>4. /\ x.pc \in {"selecting", "validating", "ready"}
        /\ h \in Handle /\ h.revision \in 1..current /\ h.revision <= current
    <2>1. x.pc \in {"selecting", "validating", "ready"}
      BY DEF SelectModel, ValidateModel, LookUp
    <2>2. h \in Handle /\ h.revision \in 1..current
      BY <2>1 DEF IInv, ClientInv
    <2> QED
      BY <1>1, <2>1, <2>2, BoundAssumption, SMTT(30) DEF Types, Revision
  <1>5. ASSUME NEW y \in ClientState, Set(c, y), y.handle = h, y.model = None,
               y.pc = "ready"
        PROVE  IInv'
    <2>1. ASSUME client'[c] = y PROVE ClientInv(c)' /\ LoadedInv(c)'
      BY <1>3, <1>4, <1>5, <2>1 DEF ClientInv, LoadedInv
    <2> QED
      BY <1>2, <1>5, <2>1, QuietKeeps
  <1>6. ASSUME NEW y \in ClientState, Set(c, y), y.handle = h,
               y.model # None, y.model \in Found, y.model.revision <= h.revision,
               Stored(y.model, h.binary), Newest(y.model, h.binary, h.revision),
               y.pc \in {"ready", "validating", "caching"},
               y.pc = "caching" => y.entry \in Lowered /\ y.model.of = h.binary
        PROVE  IInv'
    <2>1. ASSUME client'[c] = y PROVE ClientInv(c)' /\ LoadedInv(c)'
      <3>1. ClientInv(c)'
        BY <1>3, <1>4, <1>6, <2>1 DEF ClientInv
      <3>2. LoadedInv(c)'
        BY <1>3, <1>4, <1>6, <2>1 DEF LoadedInv, Stored, Newest
      <3> QED
        BY <3>1, <3>2
    <2> QED
      BY <1>2, <1>6, <2>1, QuietKeeps
  <1>7. x.model # None =>
          /\ x.model \in Found /\ x.model.revision <= h.revision
          /\ Stored(x.model, h.binary) /\ Newest(x.model, h.binary, h.revision)
    BY DEF IInv, LoadedInv
  <1>8. ASSUME NEW m \in Found \cup {None}, Ready(c, h, m)
        PROVE  \E y \in ClientState : /\ Set(c, y) /\ y.handle = h /\ y.model = m
                                      /\ y.pc = "ready"
    <2> DEFINE y == [Idle EXCEPT !.pc = "ready", !.handle = h, !.model = m]
    <2>1. "ready" \in Pc
      BY DEF Pc
    <2>2. y \in ClientState /\ y.pc = "ready" /\ y.handle = h /\ y.model = m
      BY <1>4, <1>8, <2>1 DEF Idle, ClientState
    <2>3. Set(c, y)
      BY <1>8 DEF Ready
    <2> HIDE DEF y
    <2> QED
      BY <2>2, <2>3
  <1>9. CASE SelectModel(c)
    <2> DEFINE m == LatestModel(h.binary, h.revision)
    <2>1. CASE m = None
      <3>1. Ready(c, h, None)
        BY <1>9, <2>1 DEF SelectModel
      <3> HIDE DEF x, h, m
      <3> QED
        BY <1>5, <1>8, <3>1
    <2>2. CASE m # None
      <3> DEFINE y == [x EXCEPT !.pc = "validating", !.model = m]
      <3>1. Set(c, y)
        BY <1>9, <2>2 DEF SelectModel
      <3>2. /\ m \in Found /\ m.revision <= h.revision
            /\ Stored(m, h.binary) /\ Newest(m, h.binary, h.revision)
        BY <1>1, <2>2, LatestIsNewest
      <3>3. "validating" \in Pc
        BY DEF Pc
      <3> HIDE DEF m
      <3>4. y \in ClientState /\ y.pc = "validating" /\ y.handle = h /\ y.model = m
        BY <1>1, <3>2, <3>3 DEF ClientState
      <3> HIDE DEF y, x, h
      <3> QED
        BY <1>6, <2>2, <3>1, <3>2, <3>4
    <2> QED
      BY <2>1, <2>2
  <1>10. CASE ValidateModel(c)
    <2>1. x.model # None
      BY <1>10 DEF ValidateModel, IInv, ClientInv
    <2>2. CASE x.model.of = file
      <3>1. Ready(c, h, x.model)
        BY <1>10, <2>2 DEF ValidateModel
      <3> DEFINE m == x.model
      <3>2. m \in Found
        BY <1>7, <2>1
      <3> HIDE DEF x, h
      <3>3. PICK y \in ClientState : /\ Set(c, y) /\ y.handle = h /\ y.model = m
                                     /\ y.pc = "ready"
        BY <1>8, <3>1, <3>2
      <3> QED
        BY <1>6, <1>7, <2>1, <3>3
    <2>3. CASE x.model.of # file
      <3>1. Set(c, Idle)
        BY <1>10, <2>3 DEF ValidateModel
      <3>2. ASSUME client'[c] = Idle PROVE ClientInv(c)' /\ LoadedInv(c)'
        BY <1>1, <3>2, IdleFields DEF ClientInv, LoadedInv
      <3> QED
        BY <1>1, <1>2, <3>1, <3>2, IdleFields, QuietKeeps
    <2> QED
      BY <2>2, <2>3
  <1>11. ASSUME NEW e \in Lowered, LookUp(c, e) PROVE IInv'
    <2> DEFINE y == [x EXCEPT !.pc = "caching", !.entry = e]
    <2>1. Set(c, y) /\ x.model # None /\ x.model.of = h.binary
      BY <1>11 DEF LookUp, OfHandle
    <2>2. "caching" \in Pc
      BY DEF Pc
    <2>3. /\ y \in ClientState /\ y.pc = "caching" /\ y.handle = h
          /\ y.model = x.model /\ y.entry = e
      BY <1>1, <1>11, <2>2 DEF ClientState
    <2> HIDE DEF y, x, h
    <2> QED
      BY <1>6, <1>7, <2>1, <2>3, SMTT(30)
  <1> QED
    BY <1>9, <1>10, <1>11
-----------------------------------------------------------------------------
(* Transactions *)

\* What the cache holds stays right while models are added.
LEMMA CacheStays ==
    ASSUME CacheInv, models \subseteq models', cache' = cache
    PROVE  CacheInv'
  BY DEF CacheInv, RowOf

\* A transaction writes facts of one revision, the current one or the next.
LEMMA WriteKeeps ==
    ASSUME IInv, NEW c \in Client, NEW b \in Binary, file' = file,
           current' \in 1..MaxRevision, current' \in {current, current + 1},
           current' = current => binaryAt[current] = b,
           binaryAt' = [binaryAt EXCEPT ![current'] = b],
           evidence \subseteq evidence',
           \A e \in evidence' \ evidence :
              e \in Fact /\ e.revision = current' /\ e.binary = b,
           models \subseteq models', models' # models => current' = current + 1,
           \A m \in models' \ models :
              /\ m \in ModelRow /\ m.revision = current' /\ m.binary = b
              /\ \A p \in models : p.binary = b => p.of = m.of,
           \A m, k \in models' \ models : m = k,
           \A q \in requests' \ requests : q.revision = current',
           CacheInv',
           client' \in [Client -> ClientState],
           \A d \in Client \ {c} : client'[d] = client[d],
           ClientInv(c)', LoadedInv(c)'
    PROVE  IInv'
  <1>1. /\ current \in Nat /\ MaxRevision \in Nat /\ current' \in Nat
        /\ current' \in Revision /\ current' >= current /\ current' >= 1
    BY BoundAssumption DEF IInv, Types, Revision
  <1>2. /\ \A n \in Revision : binaryAt'[n] = IF n = current' THEN b ELSE binaryAt[n]
        /\ binaryAt' \in [Revision -> Binary \cup {None}]
    BY <1>1 DEF IInv, Types
  <1>3. Types'
    <2>1. evidence' \subseteq Fact /\ models' \subseteq ModelRow
      BY DEF IInv, Types
    <2> QED
      BY <1>1, <1>2, <2>1 DEF IInv, Types
  <1>4. \A e \in evidence \cup models : e.revision \in 1..current /\ e.revision \in Revision
    BY <1>1 DEF IInv, HistoryInv, Revision, Types
  <1>5. \A e \in evidence' \cup models' : e.revision \in 1..current'
    BY <1>1, <1>4
  <1>6. \A n \in Revision : binaryAt'[n] # None <=> n \in 1..current'
    <2>1. SUFFICES ASSUME NEW n \in Revision PROVE binaryAt'[n] # None <=> n \in 1..current'
      OBVIOUS
    <2>2. n \in Nat /\ (binaryAt[n] # None <=> n \in 1..current) /\ b # None
      BY <1>1, NoneAssumption DEF IInv, HistoryInv, Revision
    <2>3. CASE n = current'
      BY <1>1, <1>2, <2>2, <2>3
    <2>4. CASE n # current'
      BY <1>1, <1>2, <2>2, <2>4
    <2> QED
      BY <2>3, <2>4
  <1>7. \A m, k \in models' : m.revision = k.revision => m = k
    <2>1. ASSUME NEW m \in models, NEW k \in models' \ models PROVE m.revision # k.revision
      <3>1. m.revision \in 1..current /\ k.revision = current + 1
        BY <1>4
      <3> QED
        BY <1>1, <3>1
    <2>2. \A m, k \in models : m.revision = k.revision => m = k
      BY DEF IInv, HistoryInv
    <2> QED
      BY <2>1, <2>2
  <1>8. HistoryInv'
    <2>1. \A q \in requests' : q.revision \in 1..current'
      BY <1>1 DEF IInv, HistoryInv
    <2> QED
      BY <1>5, <1>6, <1>7, <2>1 DEF HistoryInv
  <1>9. BindingInv'
    <2>1. ASSUME NEW e \in evidence' \cup models' PROVE binaryAt'[e.revision] = e.binary
      <3>1. CASE e \in evidence \cup models
        <4>1. binaryAt[e.revision] = e.binary /\ e.revision \in Revision
              /\ e.revision \in 1..current
          BY <1>4, <3>1 DEF IInv, BindingInv
        <4>2. e.revision = current' => binaryAt[e.revision] = b
          BY <1>1, <4>1
        <4> QED
          BY <1>2, <4>1, <4>2
      <3>2. CASE e \notin evidence \cup models
        BY <1>1, <1>2, <2>1, <3>2
      <3> QED
        BY <3>1, <3>2
    <2>2. ASSUME NEW m \in models', NEW p \in models', m.binary = p.binary
          PROVE  m.of = p.of
      BY <2>2 DEF IInv, BindingInv
    <2> QED
      BY <2>1, <2>2 DEF BindingInv
  <1>10. ASSUME NEW d \in Client \ {c} PROVE ClientInv(d)' /\ LoadedInv(d)'
    <2>1. \A m \in models' \ models : m.revision > current
      BY <1>1
    <2>2. models' \subseteq ModelRow
      BY <1>3 DEF Types
    <2> QED
      BY <1>1, <2>1, <2>2, OthersKeep
  <1> QED
    BY <1>3, <1>8, <1>9, <1>10 DEF IInv

\* A client that is ready with a handle and no model.
LEMMA ReadyKeeps ==
    ASSUME Types, NEW c \in Client, NEW h \in Handle, Ready(c, h, None),
           h.revision \in 1..current'
    PROVE  /\ client' \in [Client -> ClientState]
           /\ \A d \in Client \ {c} : client'[d] = client[d]
           /\ ClientInv(c)' /\ LoadedInv(c)'
  <1>1. /\ client' \in [Client -> ClientState]
        /\ client'[c].pc = "ready" /\ client'[c].handle = h /\ client'[c].model = None
        /\ \A d \in Client \ {c} : client'[d] = client[d]
    BY ReadyFields
  <1> QED
    BY <1>1 DEF ClientInv, LoadedInv

\* A retry, or a key used for something else, writes nothing.
LEMMA RetryKeeps ==
    ASSUME IInv, UNCHANGED <<file, tables>>, NEW c \in Client, NEW q \in requests,
           \/ Ready(c, [revision |-> q.revision, binary |-> binaryAt[q.revision]], None)
           \/ Set(c, Idle)
    PROVE  IInv'
  <1>1. current' = current /\ file \in Binary
    BY DEF tables, IInv, Types
  <1>2. CASE Set(c, Idle)
    <2>1. ASSUME client'[c] = Idle PROVE ClientInv(c)' /\ LoadedInv(c)'
      BY <1>1, <2>1, IdleFields DEF ClientInv, LoadedInv
    <2> QED
      BY <1>1, <1>2, <2>1, IdleFields, QuietKeeps
  <1>3. CASE Ready(c, [revision |-> q.revision, binary |-> binaryAt[q.revision]], None)
    <2> DEFINE h == [revision |-> q.revision, binary |-> binaryAt[q.revision]]
               y == [Idle EXCEPT !.pc = "ready", !.handle = h, !.model = None]
    <2>1. q.revision \in 1..current /\ q.revision \in Revision
      BY BoundAssumption DEF IInv, HistoryInv, Types, Revision
    <2>2. binaryAt[q.revision] \in Binary
      BY <2>1 DEF IInv, HistoryInv, Types
    <2>3. h \in Handle /\ h.revision \in 1..current'
      BY <1>1, <2>1, <2>2 DEF Handle
    <2> HIDE DEF h
    <2>4. /\ client' \in [Client -> ClientState]
          /\ \A d \in Client \ {c} : client'[d] = client[d]
          /\ ClientInv(c)' /\ LoadedInv(c)'
      BY <1>3, <2>3, ReadyKeeps DEF IInv, h
    <2>5. "ready" \in Pc
      BY DEF Pc
    <2>6. y \in ClientState
      BY <2>3, <2>5 DEF Idle, ClientState
    <2>7. Set(c, y)
      BY <1>3 DEF Ready, h
    <2> HIDE DEF y
    <2> QED
      BY <2>4, <2>6, <2>7, QuietKeeps
  <1> QED
    BY <1>2, <1>3

\* An open makes a revision if the bytes are not those of the current one.
LEMMA OpenCommitKeeps ==
    ASSUME IInv, NEW c \in Client, OpenCommit(c)
    PROVE  IInv'
  <1> DEFINE b == client[c].seen
             known == current > 0 /\ binaryAt[current] = b
             n == IF known THEN current ELSE current + 1
             h == [revision |-> n, binary |-> b]
  <1>1. b \in Binary
    BY DEF OpenCommit, IInv, ClientInv
  <1>2. /\ n <= MaxRevision /\ current' = n /\ binaryAt' = [binaryAt EXCEPT ![n] = b]
        /\ Ready(c, h, None)
    BY DEF OpenCommit
  <1>3. file' = file /\ evidence' = evidence /\ models' = models
        /\ requests' = requests /\ cache' = cache
    BY DEF OpenCommit
  <1>4. current \in Nat /\ MaxRevision \in Nat
    BY BoundAssumption DEF IInv, Types, Revision
  <1>5. n \in 1..MaxRevision /\ n \in {current, current + 1} /\ n \in Revision
        /\ (n = current => binaryAt[current] = b)
    BY <1>2, <1>4 DEF Revision
  <1> HIDE DEF b, n
  <1>6. h \in Handle /\ h.revision \in 1..current'
    BY <1>1, <1>2, <1>4, <1>5 DEF Handle
  <1> HIDE DEF h
  <1>7. /\ client' \in [Client -> ClientState]
        /\ \A d \in Client \ {c} : client'[d] = client[d]
        /\ ClientInv(c)' /\ LoadedInv(c)'
    BY <1>2, <1>6, ReadyKeeps DEF IInv
  <1>8. CacheInv'
    BY <1>3, CacheStays DEF IInv
  <1> QED
    BY <1>1, <1>2, <1>3, <1>5, <1>7, <1>8, WriteKeeps

\* An annotation is one fact of a new revision of the same binary.
LEMMA AnnotationCommitKeeps ==
    ASSUME IInv, NEW c \in Client, AnnotationCommit(c)
    PROVE  IInv'
  <1> DEFINE s == client[c].save
             b == client[c].handle.binary
             n == current + 1
             h == [revision |-> n, binary |-> b]
             e == [kind |-> "annotation", revision |-> n, binary |-> b]
             q == [table |-> "annotation", key |-> s.key, expected |-> s.expected,
                   what |-> <<s.binary, s.model>>, revision |-> n]
  <1>1. b \in Binary
    BY DEF AnnotationCommit, IInv, ClientInv, Handle
  <1>2. current \in Nat /\ MaxRevision \in Nat
    BY BoundAssumption DEF IInv, Types, Revision
  <1>3. CASE /\ n <= MaxRevision
             /\ current' = n /\ binaryAt' = [binaryAt EXCEPT ![n] = b]
             /\ evidence' = evidence \cup {e} /\ requests' = requests \cup {q}
             /\ Ready(c, h, None)
             /\ UNCHANGED <<file, models, cache>>
    <2>1. file' = file /\ models' = models /\ cache' = cache
      BY <1>3
    <2>2. n \in 1..MaxRevision /\ n \in Revision
      BY <1>2, <1>3 DEF Revision
    <2>3. e \in Fact /\ e.revision = n /\ e.binary = b /\ q.revision = n
      BY <1>1, <2>2 DEF Fact
    <2>4. h \in Handle /\ h.revision \in 1..current'
      BY <1>1, <1>2, <1>3, <2>2 DEF Handle
    <2> HIDE DEF b, h, e, q
    <2>5. /\ client' \in [Client -> ClientState]
          /\ \A d \in Client \ {c} : client'[d] = client[d]
          /\ ClientInv(c)' /\ LoadedInv(c)'
      BY <1>3, <2>4, ReadyKeeps DEF IInv
    <2>6. CacheInv'
      BY <2>1, CacheStays DEF IInv
    <2>7. /\ evidence \subseteq evidence'
          /\ \A f \in evidence' \ evidence :
                f \in Fact /\ f.revision = current' /\ f.binary = b
          /\ \A r \in requests' \ requests : r.revision = current'
      BY <1>3, <2>3
    <2>8. current' # current /\ current' \in 1..MaxRevision
      BY <1>2, <1>3, <2>2
    <2> QED
      BY <1>1, <1>3, <2>1, <2>5, <2>6, <2>7, <2>8, WriteKeeps
  <1>4. CASE \E r \in requests :
               /\ \/ Ready(c, [revision |-> r.revision, binary |-> binaryAt[r.revision]],
                           None)
                  \/ Set(c, Idle)
               /\ UNCHANGED <<file, tables>>
    BY <1>4, RetryKeeps
  <1> QED
    BY <1>3, <1>4 DEF AnnotationCommit, Prior

\* What Ghidra found is kept for the current revision.
LEMMA KeepSnapshotKeeps ==
    ASSUME IInv, NEW c \in Client, KeepSnapshot(c)
    PROVE  IInv'
  <1> DEFINE h == client[c].handle
             m == client[c].model
             b == h.binary
             e == [kind |-> "snapshot", revision |-> h.revision, binary |-> h.binary]
  <1>1. h \in Handle /\ h.revision \in 1..current
    BY DEF KeepSnapshot, IInv, ClientInv
  <1>2. /\ h = [revision |-> current, binary |-> binaryAt[current]]
        /\ Ready(c, h, m)
        /\ \A f \in evidence' : f \in evidence \/ f = e
        /\ evidence \subseteq evidence'
    BY DEF KeepSnapshot
  <1>3. /\ file' = file /\ current' = current /\ binaryAt' = binaryAt
        /\ models' = models /\ requests' = requests /\ cache' = cache
    BY DEF KeepSnapshot
  <1>4. b \in Binary /\ h.revision = current /\ binaryAt[current] = b
        /\ e \in Fact /\ e.revision = current /\ e.binary = b
    <2>1. h.revision = current /\ h.binary = binaryAt[current]
      BY <1>2
    <2>2. h.revision \in Revision /\ h.binary \in Binary
      BY <1>1 DEF Handle
    <2> QED
      BY <2>1, <2>2 DEF Fact
  <1>5. current \in 1..MaxRevision
    BY <1>1, <1>4, BoundAssumption DEF IInv, Types, Revision
  <1>6. binaryAt' = [binaryAt EXCEPT ![current'] = b]
    <2>1. binaryAt \in [Revision -> Binary \cup {None}]
      BY DEF IInv, Types
    <2> HIDE DEF b
    <2> QED
      BY <1>3, <1>4, <2>1
  <1>7. m \in Found \cup {None}
    BY DEF IInv, Types, ClientState
  <1>8. LoadedInv(c)
    BY DEF IInv
  <1>9. /\ m # None =>
              /\ m.revision <= h.revision
              /\ Stored(m, b) /\ Newest(m, b, h.revision)
        /\ h.revision <= current
    BY <1>1, <1>4, <1>5, <1>8 DEF LoadedInv
  <1> HIDE DEF h, m, b, e
  <1>10. /\ client' \in [Client -> ClientState]
         /\ client'[c].pc = "ready" /\ client'[c].handle = h /\ client'[c].model = m
         /\ \A d \in Client \ {c} : client'[d] = client[d]
    BY <1>1, <1>2, <1>7, ReadyFields DEF IInv
  <1>11. ClientInv(c)'
    BY <1>1, <1>3, <1>10 DEF ClientInv
  <1>12. LoadedInv(c)'
    BY <1>1, <1>3, <1>7, <1>9, <1>10 DEF LoadedInv, Stored, Newest, b
  <1>13. CacheInv'
    BY <1>3, CacheStays DEF IInv
  <1>14. \A f \in evidence' \ evidence :
            f \in Fact /\ f.revision = current' /\ f.binary = b
    BY <1>2, <1>3, <1>4
  <1> QED
    BY <1>2, <1>3, <1>4, <1>5, <1>6, <1>10, <1>11, <1>12, <1>13, <1>14, WriteKeeps

\* A client adds the text of the model it loaded, at that model's revision.
LEMMA CacheInsertKeeps ==
    ASSUME IInv, NEW c \in Client, CacheInsert(c)
    PROVE  IInv'
  <1> DEFINE h == client[c].handle
             m == client[c].model
             e == client[c].entry
             b == binaryAt[current]
             r == CacheRow(h.binary, m.revision, e[1], e[2], m.model)
  <1>1. /\ h \in Handle /\ h.revision \in 1..current /\ e \in Lowered /\ m # None
        /\ m \in Found /\ m.of = h.binary
    BY DEF CacheInsert, IInv, ClientInv, Types, ClientState
  <1>2. LoadedInv(c)
    BY DEF IInv
  <1>3. /\ m.revision <= h.revision /\ h.revision <= current
        /\ Stored(m, h.binary) /\ Newest(m, h.binary, h.revision)
    BY <1>1, <1>2 DEF LoadedInv
  <1>4. cache' = cache \cup {r} /\ Ready(c, h, m)
    BY DEF CacheInsert
  <1>5. /\ file' = file /\ current' = current /\ binaryAt' = binaryAt
        /\ evidence' = evidence /\ models' = models /\ requests' = requests
    BY DEF CacheInsert
  <1>6. /\ current \in Revision /\ current \in Nat /\ MaxRevision \in Nat
        /\ current \in 1..MaxRevision
    BY <1>1, BoundAssumption DEF IInv, Types, Revision
  <1>7. b \in Binary /\ binaryAt' = [binaryAt EXCEPT ![current'] = b]
    <2>1. binaryAt \in [Revision -> Binary \cup {None}] /\ binaryAt[current] # None
      BY <1>6 DEF IInv, Types, HistoryInv
    <2> QED
      BY <1>5, <1>6, <2>1
  <1>8. CacheInv'
    <2>1. e[1] \in Function
      BY <1>1, LoweredAssumption
    <2>2. PICK k \in models : /\ k.binary = h.binary /\ k.revision = m.revision
                              /\ k.model = m.model /\ k.of = h.binary
      BY <1>1, <1>3 DEF Stored
    <2>3. /\ r.binary = h.binary /\ r.revision = m.revision /\ r.entry = e[1]
          /\ r.kind = e[2] /\ r.text = Text(e[1], e[2], m.model)
          /\ r.types = UsedTypes(e[1], e[2], m.model) /\ r.calls = Calls[e[1]]
          /\ r = [binary |-> r.binary, revision |-> r.revision, entry |-> r.entry,
                  kind |-> r.kind, text |-> r.text, types |-> r.types, calls |-> r.calls]
      BY DEF CacheRow
    <2> HIDE DEF r, m, e, h
    <2>4. RowOf(r, k)
      BY <2>1, <2>2, <2>3 DEF RowOf
    <2> QED
      BY <1>4, <1>5, <2>2, <2>3, <2>4 DEF IInv, CacheInv, RowOf
  <1> HIDE DEF h, m, b, e, r
  <1>9. /\ client' \in [Client -> ClientState]
        /\ client'[c].pc = "ready" /\ client'[c].handle = h /\ client'[c].model = m
        /\ \A d \in Client \ {c} : client'[d] = client[d]
    BY <1>1, <1>4, ReadyFields DEF IInv
  <1>10. ClientInv(c)'
    BY <1>1, <1>5, <1>9 DEF ClientInv
  <1>11. LoadedInv(c)'
    BY <1>1, <1>3, <1>5, <1>9 DEF LoadedInv, Stored, Newest
  <1> QED
    BY <1>5, <1>6, <1>7, <1>8, <1>9, <1>10, <1>11, WriteKeeps DEF b

\* A row that is carried differs in its revision only.
LEMMA CarriedRow ==
    ASSUME NEW q, NEW n,
           q = [binary |-> q.binary, revision |-> q.revision, entry |-> q.entry,
                kind |-> q.kind, text |-> q.text, types |-> q.types, calls |-> q.calls]
    PROVE  LET r == [q EXCEPT !.revision = n] IN
             /\ r = [binary |-> r.binary, revision |-> r.revision, entry |-> r.entry,
                     kind |-> r.kind, text |-> r.text, types |-> r.types,
                     calls |-> r.calls]
             /\ r.revision = n /\ r.binary = q.binary /\ r.entry = q.entry
             /\ r.kind = q.kind /\ r.text = q.text /\ r.types = q.types
             /\ r.calls = q.calls
  <1> DEFINE s == [binary |-> q.binary, revision |-> n, entry |-> q.entry,
                   kind |-> q.kind, text |-> q.text, types |-> q.types,
                   calls |-> q.calls]
  <1>1. [[binary |-> q.binary, revision |-> q.revision, entry |-> q.entry,
          kind |-> q.kind, text |-> q.text, types |-> q.types, calls |-> q.calls]
         EXCEPT !.revision = n] = s
    OBVIOUS
  <1>2. [q EXCEPT !.revision = n] = s
    BY <1>1
  <1> QED
    BY <1>2

\* The rows that are carried to an edited model are what that model gives.
LEMMA CarryKeeps ==
    ASSUME IInv, NEW b, NEW x, NEW n, NEW new \in Model, LatestModel(b, x) # None,
           NEW k, k.binary = b, k.revision = n, k.model = new,
           k.of = LatestModel(b, x).of,
           NEW r \in Carried(LatestModel(b, x), new, b, n)
    PROVE  /\ r = [binary |-> r.binary, revision |-> r.revision, entry |-> r.entry,
                   kind |-> r.kind, text |-> r.text, types |-> r.types,
                   calls |-> r.calls]
           /\ RowOf(r, k)
  <1> DEFINE old == LatestModel(b, x)
             rows == {q \in cache : q.binary = b /\ q.revision = old.revision}
  <1>1. old \in Found /\ Stored(old, b)
    BY LatestIsNewest DEF IInv
  <1>2. PICK p \in models : p.binary = b /\ p.revision = old.revision /\ p.model = old.model
    BY <1>1 DEF Stored
  <1>3. PICK q \in rows : /\ q.entry \notin Dirty(rows, old.model, new)
                          /\ r = [q EXCEPT !.revision = n]
    BY DEF Carried
  <1>4. old.model \in Model /\ k.of = b
    BY <1>1 DEF Found, Carried
  <1> HIDE DEF old
  <1>5. ASSUME NEW y \in rows
        PROVE  /\ RowOf(y, p)
               /\ y = [binary |-> y.binary, revision |-> y.revision, entry |-> y.entry,
                       kind |-> y.kind, text |-> y.text, types |-> y.types,
                       calls |-> y.calls]
    <2>1. y \in cache /\ y.revision = old.revision
      OBVIOUS
    <2>2. PICK m \in models : RowOf(y, m)
      BY <2>1 DEF IInv, CacheInv
    <2>3. m.revision = p.revision
      BY <1>2, <2>1, <2>2 DEF RowOf
    <2>4. m = p
      BY <2>3 DEF IInv, HistoryInv
    <2> QED
      BY <2>1, <2>2, <2>4 DEF IInv, CacheInv
  <1> HIDE DEF rows
  <1>6. \A y \in rows : /\ y.entry \in Function
                        /\ y.calls = Calls[y.entry]
                        /\ y.types = UsedTypes(y.entry, y.kind, old.model)
    BY <1>2, <1>5 DEF RowOf
  <1>7. /\ Text(q.entry, q.kind, new) = Text(q.entry, q.kind, old.model)
        /\ UsedTypes(q.entry, q.kind, new) = UsedTypes(q.entry, q.kind, old.model)
    BY <1>3, <1>4, <1>6, CleanTextIsFresh
  <1>8. /\ r = [binary |-> r.binary, revision |-> r.revision, entry |-> r.entry,
                kind |-> r.kind, text |-> r.text, types |-> r.types, calls |-> r.calls]
        /\ r.revision = n /\ r.binary = q.binary /\ r.entry = q.entry
        /\ r.kind = q.kind /\ r.text = q.text /\ r.types = q.types
        /\ r.calls = q.calls
    BY <1>3, <1>5, CarriedRow
  <1>9. RowOf(q, p)
    BY <1>5
  <1>10. RowOf(r, k)
    BY <1>2, <1>4, <1>7, <1>8, <1>9, SMTT(30) DEF RowOf
  <1> QED
    BY <1>8, <1>10

\* A save is one model of a new revision, and what is carried to it.
LEMMA SaveCommitKeeps ==
    ASSUME IInv, NEW c \in Client, SaveCommit(c)
    PROVE  IInv'
  <1> DEFINE s == client[c].save
             b == client[c].handle.binary
             n == current + 1
             old == LatestModel(b, s.expected)
             h == [revision |-> n, binary |-> b]
             k == [revision |-> n, binary |-> b, model |-> s.model, of |-> s.binary]
             q == [table |-> "model", key |-> s.key, expected |-> s.expected,
                   what |-> <<s.binary, s.model>>, revision |-> n]
  <1>1. b \in Binary /\ s \in Save /\ client[c].seen \in Binary
    BY DEF SaveCommit, IInv, ClientInv, Handle
  <1>2. s.model \in Model /\ s.binary \in Binary
    BY <1>1, SaveAssumption
  <1>3. current \in Nat /\ MaxRevision \in Nat
    BY BoundAssumption DEF IInv, Types, Revision
  <1>4. CASE /\ Valid(s, client[c].seen, old)
             /\ s.expected = current
             /\ n <= MaxRevision
             /\ current' = n /\ binaryAt' = [binaryAt EXCEPT ![n] = b]
             /\ models' = models \cup {k} /\ requests' = requests \cup {q}
             /\ cache' = cache \cup (IF old = None THEN {} ELSE Carried(old, s.model, b, n))
             /\ Ready(c, h, None)
             /\ UNCHANGED <<file, evidence>>
    <2>1. file' = file /\ evidence' = evidence
      BY <1>4
    <2>2. n \in 1..MaxRevision /\ n \in Revision /\ 0 \in Revision
      BY <1>3, <1>4 DEF Revision
    <2>3. h \in Handle /\ h.revision \in 1..current'
      BY <1>1, <1>3, <1>4, <2>2 DEF Handle
    <2>4. \A p \in models : p.binary = b => p.of = s.binary
      <3>1. CASE old = None
        <4>1. ASSUME NEW p \in models, p.binary = b PROVE FALSE
          <5>1. p.revision \in 1..current
            BY DEF IInv, HistoryInv
          <5>2. p.revision <= s.expected
            BY <1>3, <1>4, <5>1
          <5> HIDE DEF old, s, b
          <5> QED
            BY <3>1, <4>1, <5>2, SavedIsFound DEF IInv, old
        <4> QED
          BY <4>1
      <3>2. CASE old # None
        <4>1. old.of = s.binary /\ Stored(old, b)
          BY <1>4, <3>2, LatestIsNewest DEF IInv, Valid
        <4>2. PICK m \in models : m.binary = b /\ m.of = old.of
          BY <4>1 DEF Stored
        <4> QED
          BY <4>1, <4>2 DEF IInv, BindingInv
      <3> QED
        BY <3>1, <3>2
    <2>5. /\ k \in ModelRow /\ k.revision = n /\ k.binary = b /\ k.model = s.model
          /\ k.of = s.binary /\ q.revision = n
      <3> HIDE DEF old, n, s, b
      <3> QED
        BY <1>1, <1>2, <2>2 DEF ModelRow
    <2>6. CacheInv'
      <3>1. ASSUME NEW r \in cache'
            PROVE  /\ r = [binary |-> r.binary, revision |-> r.revision,
                           entry |-> r.entry, kind |-> r.kind, text |-> r.text,
                           types |-> r.types, calls |-> r.calls]
                   /\ \E m \in models' : RowOf(r, m)
        <4>1. CASE r \in cache
          BY <1>4, <4>1 DEF IInv, CacheInv
        <4>2. CASE r \notin cache
          <5>1. old # None /\ r \in Carried(old, s.model, b, n) /\ k.of = old.of
            BY <1>4, <2>5, <3>1, <4>2 DEF Valid
          <5> HIDE DEF k, n, s, b
          <5>2. /\ RowOf(r, k)
                /\ r = [binary |-> r.binary, revision |-> r.revision,
                        entry |-> r.entry, kind |-> r.kind, text |-> r.text,
                        types |-> r.types, calls |-> r.calls]
            BY <1>2, <2>5, <5>1, CarryKeeps
          <5>3. k \in models'
            BY <1>4
          <5> QED
            BY <5>2, <5>3
        <4> QED
          BY <4>1, <4>2
      <3> QED
        BY <3>1 DEF CacheInv, RowOf
    <2> HIDE DEF b, h, k, q, old, s
    <2>7. /\ client' \in [Client -> ClientState]
          /\ \A d \in Client \ {c} : client'[d] = client[d]
          /\ ClientInv(c)' /\ LoadedInv(c)'
      BY <1>4, <2>3, ReadyKeeps DEF IInv
    <2>8. /\ models \subseteq models'
          /\ \A m \in models' \ models : m = k
          /\ \A r \in requests' \ requests : r.revision = current'
      BY <1>4, <2>5
    <2>10. \A m \in models' \ models :
              /\ m \in ModelRow /\ m.revision = current' /\ m.binary = b
              /\ \A p \in models : p.binary = b => p.of = m.of
      BY <1>4, <2>4, <2>5, <2>8
    <2>11. current' # current /\ current' \in 1..MaxRevision /\ current' = current + 1
           /\ binaryAt' = [binaryAt EXCEPT ![current'] = b]
           /\ \A m, j \in models' \ models : m = j
      BY <1>3, <1>4, <2>2, <2>8
    <2> QED
      BY <1>1, <2>1, <2>6, <2>7, <2>8, <2>10, <2>11, WriteKeeps
  <1>5. CASE \E r \in requests :
               /\ \/ Ready(c, [revision |-> r.revision, binary |-> binaryAt[r.revision]],
                           None)
                  \/ Set(c, Idle)
               /\ UNCHANGED <<file, tables>>
    BY <1>5, RetryKeeps
  <1> QED
    BY <1>4, <1>5 DEF SaveCommit, Prior

-----------------------------------------------------------------------------
(* Theorems *)

\* A rebuild changes nothing but the file.
LEMMA RebuildKeeps ==
    ASSUME IInv, NEW b \in Binary, Rebuild(b)
    PROVE  IInv'
  <1>1. /\ file' \in Binary /\ current' = current /\ binaryAt' = binaryAt
        /\ evidence' = evidence /\ models' = models /\ requests' = requests
        /\ cache' = cache /\ client' = client
    BY DEF Rebuild, tables
  <1>2. Types' /\ HistoryInv' /\ CacheInv' /\ BindingInv'
    BY <1>1 DEF IInv, Types, HistoryInv, CacheInv, BindingInv
  <1>3. ASSUME NEW c \in Client PROVE ClientInv(c)' /\ LoadedInv(c)'
    BY <1>1 DEF IInv, ClientInv, LoadedInv, Stored, Newest
  <1> QED
    BY <1>2, <1>3 DEF IInv

\* The invariant holds before the first open.
LEMMA InitInv == Init => IInv
  <1> SUFFICES ASSUME Init PROVE IInv
    OBVIOUS
  <1>1. /\ file \in Binary /\ current = 0 /\ current \in Revision
        /\ MaxRevision \in Nat
    BY BoundAssumption DEF Init, Revision
  <1>2. Idle \in ClientState /\ Idle.pc = "idle" /\ Idle.model = None
    BY <1>1, IdleFields
  <1>3. \A c \in Client : client[c] = Idle
    BY DEF Init
  <1>4. client \in [Client -> ClientState]
    <2> HIDE DEF Idle
    <2> QED
      BY <1>2 DEF Init
  <1>5. Types
    BY <1>1, <1>4 DEF Init, Types
  <1>6. HistoryInv /\ CacheInv /\ BindingInv
    BY <1>1 DEF Init, HistoryInv, CacheInv, BindingInv, Revision
  <1>7. ASSUME NEW c \in Client PROVE ClientInv(c) /\ LoadedInv(c)
    <2>1. client[c].pc = "idle" /\ client[c].model = None
      BY <1>2, <1>3
    <2> QED
      BY <2>1 DEF ClientInv, LoadedInv
  <1> QED
    BY <1>5, <1>6, <1>7 DEF IInv

\* Every step preserves the invariant.
LEMMA NextInv == IInv /\ [Next]_vars => IInv'
  <1> SUFFICES ASSUME IInv, [Next]_vars PROVE IInv'
    OBVIOUS
  <1>1. CASE \E b \in Binary : Rebuild(b)
    BY <1>1, RebuildKeeps
  <1>2. ASSUME NEW c \in Client, Operate(c) PROVE IInv'
    <2>1. CASE \/ ReadElf(c) \/ OpenCheck(c) \/ Verify(c, "selecting")
               \/ Verify(c, "keeping")
               \/ \E s \in Save : BeginSave(c, s) \/ BeginAnnotation(c, s)
               \/ SaveRead(c) \/ Quit(c)
      BY <2>1, ReadsKeep
    <2>2. CASE SelectModel(c) \/ ValidateModel(c) \/ \E e \in Lowered : LookUp(c, e)
      BY <2>2, LoadsKeep
    <2>3. CASE OpenCommit(c) \/ SaveCommit(c) \/ AnnotationCommit(c)
      BY <2>3, OpenCommitKeeps, SaveCommitKeeps, AnnotationCommitKeeps
    <2>4. CASE KeepSnapshot(c) \/ CacheInsert(c)
      BY <2>4, KeepSnapshotKeeps, CacheInsertKeeps
    <2> QED
      BY <1>2, <2>1, <2>2, <2>3, <2>4 DEF Operate
  <1>3. CASE UNCHANGED vars
    <2>1. /\ file' = file /\ current' = current /\ binaryAt' = binaryAt
          /\ evidence' = evidence /\ models' = models /\ requests' = requests
          /\ cache' = cache /\ client' = client
      BY <1>3 DEF vars, tables
    <2>2. Types' /\ HistoryInv' /\ CacheInv' /\ BindingInv'
      BY <2>1 DEF IInv, Types, HistoryInv, CacheInv, BindingInv
    <2>3. ASSUME NEW c \in Client PROVE ClientInv(c)' /\ LoadedInv(c)'
      BY <2>1 DEF IInv, ClientInv, LoadedInv, Stored, Newest
    <2> QED
      BY <2>2, <2>3 DEF IInv
  <1> QED
    BY <1>1, <1>2, <1>3 DEF Next

\* The invariant holds of every behaviour of the clients.
THEOREM Invariant == Spec => []IInv
  BY InitInv, NextInv, PTL DEF Spec

\* Every cached text, carried or inserted, is what its model gives.
THEOREM Freshness == Spec => []CacheIsFresh
  <1>1. IInv => CacheIsFresh
    BY DEF IInv, CacheInv, RowOf, CacheIsFresh
  <1> QED
    BY <1>1, Invariant, PTL

\* No typed C is cached under a binary for a model of another.
THEOREM Binding == Spec => []TypedCIsOfItsBinary
  <1>1. IInv => TypedCIsOfItsBinary
    <2> SUFFICES ASSUME IInv PROVE TypedCIsOfItsBinary
      OBVIOUS
    <2>1. ASSUME NEW r \in cache, NEW m \in models, m.revision = r.revision
          PROVE  m.of = r.binary
      <3>1. PICK k \in models : RowOf(r, k)
        BY DEF IInv, CacheInv
      <3>2. k = m
        BY <2>1, <3>1 DEF IInv, HistoryInv, RowOf
      <3> QED
        BY <3>1, <3>2 DEF RowOf
    <2> QED
      BY <2>1 DEF IInv, BindingInv, TypedCIsOfItsBinary
  <1> QED
    BY <1>1, Invariant, PTL

\* A loaded model is the newest one of its handle.
THEOREM Loaded == Spec => []LoadedModelIsOfTheHandle
  <1>1. IInv => LoadedModelIsOfTheHandle
    BY DEF IInv, LoadedInv, Stored, Newest, LoadedModelIsOfTheHandle
  <1> QED
    BY <1>1, Invariant, PTL
=============================================================================
