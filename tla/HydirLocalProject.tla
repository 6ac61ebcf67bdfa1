-------------------------- MODULE HydirLocalProject --------------------------
(***************************************************************************)
(* The local project of one ELF path (crates/hydir-project/src/lib.rs and  *)
(* typed_cache.rs): a private SQLite database that the command line and    *)
(* the desktop application share, beside a file that anybody may rebuild.  *)
(*                                                                         *)
(* A client opens the ELF and gets a handle, the revision and the binary   *)
(* it saw.  Every operation compares the handle with the file, with the    *)
(* project's row, or with both, and then commits one transaction; the file *)
(* and the row can change between any two of those steps.  A saved model   *)
(* carries the typed C that was cached for the model it replaces to the    *)
(* new revision, when no fact the text depends on changed.                 *)
(*                                                                         *)
(* Abstracted: a model is the facts of its functions and types that typed  *)
(* C is made of; provenance, annotation values and snapshot contents are   *)
(* left out, and so is the limit of 512 annotations.  A client may stop at *)
(* any step (Quit), as on any error.                                       *)
(***************************************************************************)
EXTENDS Integers, FiniteSets

CONSTANTS
    Client,         \* threads of the applications that share the database
    Binary,         \* contents the file may have
    Function,       \* functions of the ELF
    Type,           \* ids of the types of a model
    Calls,          \* [Function -> SUBSET Function]: direct calls
    Lowered,        \* functions and the kind of C they can be lowered to
    Model,          \* [functions, types]: see ModelAssumption
    Save,           \* what clients save: [table, key, expected, binary, model]
    None,           \* no value
    MaxRevision,    \* bound: revisions of the project
    MaxTexts,       \* bound: rows of the cache to which a client adds one
    MaxCacheRows    \* rows of one model that are carried (4096)

FunctionRow(S) == [name : S, types : SUBSET Type]
TypeRow(S) == [shape : S, refers : SUBSET Type]

ASSUME CallsAssumption == Calls \in [Function -> SUBSET Function]
\* The statements of a typed CFG have no calls.
ASSUME LoweredAssumption ==
    /\ Lowered \subseteq Function \X {"typed", "cfg"}
    /\ \A e \in Lowered : e[2] = "cfg" => Calls[e[1]] = {}
ASSUME ModelAssumption ==
    /\ \A m \in Model : m \in [functions : [Function -> FunctionRow(Nat)],
                               types : [Type -> TypeRow(Nat)]]
ASSUME SaveAssumption ==
    Save \subseteq [table : {"model", "annotation"}, key : STRING, expected : Nat,
                    binary : Binary, model : Model]
ASSUME NoneAssumption ==
    None \notin Binary \cup Model \cup Save
                 \cup [revision : Nat, model : Model, of : Binary]
ASSUME BoundAssumption == {MaxRevision, MaxTexts, MaxCacheRows} \subseteq Nat

VARIABLES
    file,       \* the bytes at the canonical path
    current,    \* local_projects.current_revision, 0 before the first open
    binaryAt,   \* local_revisions
    evidence,   \* local_annotations and local_ghidra_snapshots
    models,     \* local_models; of is the digest in the model itself
    requests,   \* annotation_requests and model_requests
    cache,      \* local_typed_c_cache
    client      \* [pc, handle: [revision, binary], seen: the bytes last read,
                \* model: load_model's answer, save, entry: text to cache]

tables == <<current, binaryAt, evidence, models, requests, cache>>
vars == <<file, tables, client>>

Revision == 0..MaxRevision

-----------------------------------------------------------------------------
(* What typed C depends on *)

\* The least set that contains S and what each of its members points to.
Closure(U, S, points) ==
    {x \in U : \A D \in SUBSET U :
        (S \subseteq D /\ \A y \in D : points[y] \subseteq D) => x \in D}

Reached(f) == Closure(Function, {f}, Calls)

\* used_type_ids and used_cfg_type_ids: typed C declares the types of the
\* function and of those it calls, a typed CFG only its own.
UsedTypes(f, kind, m) ==
    LET named == IF kind = "typed"
                 THEN UNION {m.functions[g].types : g \in {f} \cup Calls[f]}
                 ELSE m.functions[f].types
    IN Closure(Type, named, [t \in Type |-> m.types[t].refers])

\* The facts a text stands for: those of the function, of the functions it
\* reaches and of the types it declares.
Text(f, kind, m) ==
    [functions |-> [g \in Reached(f) |-> m.functions[g]],
     types |-> [t \in UsedTypes(f, kind, m) |-> m.types[t]]]

CacheRow(b, n, f, kind, m) ==
    [binary |-> b, revision |-> n, entry |-> f, kind |-> kind,
     text |-> Text(f, kind, m), types |-> UsedTypes(f, kind, m), calls |-> Calls[f]]

\* changed_model_facts
ChangedTypes(old, new) == {t \in Type : old.types[t] # new.types[t]}
ChangedFunctions(old, new) == {f \in Function : old.functions[f] # new.functions[f]}

\* Mutant of Dirty: a function without a cached row has no callees.
DirtyKnown(rows, old, new) ==
    LET retyped == {r.entry : r \in {q \in rows :
                                       q.types \cap ChangedTypes(old, new) # {}}}
        callers == [f \in Function |-> {r.entry : r \in {q \in rows : f \in q.calls}}]
    IN Closure(Function, ChangedFunctions(old, new) \cup retyped, callers)

\* Functions whose text may not be carried, given the rows of the old model.
Dirty(rows, old, new) ==
    LET entries == {r.entry : r \in rows}
        changed == ChangedFunctions(old, new)
        unknown == {r.entry : r \in {q \in rows : ~(q.calls \subseteq entries)}}
        retyped == {r.entry : r \in {q \in rows :
                                       q.types \cap ChangedTypes(old, new) # {}}}
        callers == [f \in Function |-> {r.entry : r \in {q \in rows : f \in q.calls}}]
    IN Closure(Function, changed \cup retyped \cup (IF changed = {} THEN {} ELSE unknown),
               callers)

\* carry_typed_c_cache: the rows of the new revision n.  A graph of too many
\* rows is not carried at all.
Carried(old, m, b, n) ==
    LET rows == {r \in cache : r.binary = b /\ r.revision = old.revision}
    IN IF old.of # b \/ Cardinality(rows) > MaxCacheRows THEN {}
       ELSE {[r EXCEPT !.revision = n] :
                r \in {q \in rows : q.entry \notin Dirty(rows, old.model, m)}}

-----------------------------------------------------------------------------
(* Tables *)

\* Mutant of LatestModel: the newest model of the binary at any revision.
NewestModel(b, n) ==
    LET saved == {m \in models : m.binary = b /\ n <= MaxRevision}
    IN IF saved = {} THEN None
       ELSE LET newest == CHOOSE m \in saved : \A k \in saved : k.revision <= m.revision
            IN [revision |-> newest.revision, model |-> newest.model, of |-> newest.of]

\* The newest model of a binary, None if there is none.
LatestModel(b, n) ==
    LET saved == {m \in models : m.binary = b /\ m.revision <= n}
    IN IF saved = {} THEN None
       ELSE LET newest == CHOOSE m \in saved : \A k \in saved : k.revision <= m.revision
            IN [revision |-> newest.revision, model |-> newest.model, of |-> newest.of]

\* verify_current: the digest of the file, then the row of the project.
Verified(h) == /\ file = h.binary
               /\ h = [revision |-> current, binary |-> binaryAt[current]]

Set(c, s) == client' = [client EXCEPT ![c] = s]
Goto(c, pc) == Set(c, [client[c] EXCEPT !.pc = pc])
Idle == [pc |-> "idle", handle |-> None, seen |-> None, model |-> None,
         save |-> None, entry |-> None]
\* Back to the handle h, with nothing in progress.
Ready(c, h, m) == Set(c, [Idle EXCEPT !.pc = "ready", !.handle = h, !.model = m])

Init ==
    /\ file \in Binary
    /\ current = 0
    /\ binaryAt = [n \in Revision |-> None]
    /\ evidence = {} /\ models = {} /\ requests = {} /\ cache = {}
    /\ client = [c \in Client |-> Idle]

-----------------------------------------------------------------------------
(* Actions *)

\* The user rebuilds the program.
Rebuild(b) ==
    /\ b # file
    /\ file' = b
    /\ UNCHANGED <<tables, client>>

\* A client gives up, meets an error or dies: its transaction, if any, is lost.
Quit(c) ==
    /\ client[c].pc # "idle"
    /\ Set(c, Idle)
    /\ UNCHANGED <<file, tables>>

\* read_binary and import_elf.
ReadElf(c) ==
    /\ client[c].pc = "idle"
    /\ Set(c, [Idle EXCEPT !.pc = "imported", !.seen = file])
    /\ UNCHANGED <<file, tables>>

\* open_binary compares the digest of the file with the imported one.
OpenCheck(c) ==
    /\ client[c].pc = "imported"
    /\ IF file = client[c].seen THEN Goto(c, "opening") ELSE Set(c, Idle)
    /\ UNCHANGED <<file, tables>>

\* Another binary is another revision of the project.
OpenCommit(c) ==
    /\ client[c].pc = "opening"
    /\ LET b == client[c].seen
           known == current > 0 /\ binaryAt[current] = b
           n == IF known THEN current ELSE current + 1
       IN /\ n <= MaxRevision
          /\ current' = n
          /\ binaryAt' = [binaryAt EXCEPT ![n] = b]
          /\ Ready(c, [revision |-> n, binary |-> b], None)
    /\ UNCHANGED <<file, evidence, models, requests, cache>>

\* The first check of load_model, save_ghidra_snapshot, cached_typed_c and
\* cache_typed_c; it is an error if it fails.
Verify(c, pc) ==
    /\ client[c].pc = "ready"
    /\ Verified(client[c].handle)
    /\ Goto(c, pc)
    /\ UNCHANGED <<file, tables>>

\* load_model selects the newest model of the handle's revision ...
SelectModel(c) ==
    /\ client[c].pc = "selecting"
    /\ LET h == client[c].handle
           m == LatestModel(h.binary, h.revision)
       IN IF m = None THEN Ready(c, h, None)
          ELSE Set(c, [client[c] EXCEPT !.pc = "validating", !.model = m])
    /\ UNCHANGED <<file, tables>>

\* ... and validates it against the bytes of the file, read once more.
ValidateModel(c) ==
    /\ client[c].pc = "validating"
    /\ IF client[c].model.of = file
       THEN Ready(c, client[c].handle, client[c].model)
       ELSE Set(c, Idle)
    /\ UNCHANGED <<file, tables>>

\* save_model and add_annotation compare the digest of the file.
BeginSave(c, s) ==
    /\ client[c].pc = "ready" /\ s.table = "model"
    /\ file = client[c].handle.binary
    /\ Set(c, [client[c] EXCEPT !.pc = "reading", !.save = s])
    /\ UNCHANGED <<file, tables>>

\* save_model reads the bytes it validates the model against.
SaveRead(c) ==
    /\ client[c].pc = "reading"
    /\ Set(c, [client[c] EXCEPT !.pc = "saving", !.seen = file])
    /\ UNCHANGED <<file, tables>>

\* The request row a key names, as a set.
Prior(table, key) == {q \in requests : q.table = table /\ q.key = key}
SameSave(q, s) == q.expected = s.expected /\ q.what = <<s.binary, s.model>>

\* validate_model compares the model with the bytes, and record_analyst_edits
\* with the model it replaces.
Valid(s, bytes, old) == s.binary = bytes /\ (old # None => old.of = s.binary)

\* The transaction of save_model.  The handle names the expected revision: the
\* client's own on the command line.
SaveCommit(c) ==
    /\ client[c].pc = "saving"
    /\ LET s == client[c].save
           b == client[c].handle.binary
           n == current + 1
           old == LatestModel(b, s.expected)
       IN \/ \E q \in Prior("model", s.key) :
                /\ IF SameSave(q, s)
                   THEN Ready(c, [revision |-> q.revision, binary |-> binaryAt[q.revision]],
                              None)
                   ELSE Set(c, Idle)
                /\ UNCHANGED <<file, tables>>
          \/ /\ Prior("model", s.key) = {}
             /\ s.expected = current /\ binaryAt[current] = b
             /\ Valid(s, client[c].seen, old)
             /\ n <= MaxRevision
             /\ current' = n
             /\ binaryAt' = [binaryAt EXCEPT ![n] = b]
             /\ models' = models \cup {[revision |-> n, binary |-> b, model |-> s.model,
                              of |-> s.binary]}
             /\ requests' = requests \cup {[table |-> "model", key |-> s.key,
                    expected |-> s.expected, what |-> <<s.binary, s.model>>, revision |-> n]}
             /\ cache' = cache \cup
                    (IF old = None THEN {} ELSE Carried(old, s.model, b, n))
             /\ Ready(c, [revision |-> n, binary |-> b], None)
             /\ UNCHANGED <<file, evidence>>

\* add_annotation: the digest of the file, then one transaction.  The payload
\* of the request stands for the annotation.
BeginAnnotation(c, s) ==
    /\ client[c].pc = "ready" /\ s.table = "annotation"
    /\ file = client[c].handle.binary
    /\ Set(c, [client[c] EXCEPT !.pc = "annotating", !.save = s])
    /\ UNCHANGED <<file, tables>>

AnnotationCommit(c) ==
    /\ client[c].pc = "annotating"
    /\ LET s == client[c].save
           b == client[c].handle.binary
           n == current + 1
       IN \/ \E q \in Prior("annotation", s.key) :
                /\ IF SameSave(q, s)
                   THEN Ready(c, [revision |-> q.revision, binary |-> binaryAt[q.revision]],
                              None)
                   ELSE Set(c, Idle)
                /\ UNCHANGED <<file, tables>>
          \/ /\ Prior("annotation", s.key) = {}
             /\ s.expected = current /\ binaryAt[current] = b
             /\ n <= MaxRevision
             /\ current' = n
             /\ binaryAt' = [binaryAt EXCEPT ![n] = b]
             /\ evidence' = evidence \cup {[kind |-> "annotation", revision |-> n, binary |-> b]}
             /\ requests' = requests \cup {[table |-> "annotation", key |-> s.key,
                    expected |-> s.expected, what |-> <<s.binary, s.model>>, revision |-> n]}
             /\ Ready(c, [revision |-> n, binary |-> b], None)
             /\ UNCHANGED <<file, models, cache>>

\* save_ghidra_snapshot checks the row again in its transaction.  It makes no
\* revision, and the same snapshot is kept once.
KeepSnapshot(c) ==
    /\ client[c].pc = "keeping"
    /\ LET h == client[c].handle
       IN /\ h = [revision |-> current, binary |-> binaryAt[current]]
          /\ evidence' = evidence \cup
                (IF \E e \in evidence : e.kind = "snapshot" /\ e.binary = h.binary THEN {}
                 ELSE {[kind |-> "snapshot", revision |-> h.revision, binary |-> h.binary]})
          /\ Ready(c, h, client[c].model)
    /\ UNCHANGED <<file, current, binaryAt, models, requests, cache>>

Cached(h, m, e) ==
    \E r \in cache : /\ r.binary = h.binary /\ r.revision = m.revision
                     /\ <<r.entry, r.kind>> = e

\* Mutant of OfHandle: the digest in the model is not compared.
OfAnyHandle(c) == client[c].model # None

\* A model is loaded, and it is of the handle's binary.
OfHandle(c) == client[c].model # None /\ client[c].model.of = client[c].handle.binary

\* cache_typed_c emits the text of the loaded model and asks cached_typed_c,
\* which verifies the handle once more and compares the loaded model with the
\* stored one.
LookUp(c, e) ==
    /\ client[c].pc = "ready" /\ OfHandle(c)
    /\ Cardinality(cache) < MaxTexts
    /\ LET h == client[c].handle
           m == client[c].model
       IN /\ Verified(h)
          /\ m = LatestModel(h.binary, h.revision)
          /\ ~Cached(h, m, e)
          /\ Set(c, [client[c] EXCEPT !.pc = "caching", !.entry = e])
    /\ UNCHANGED <<file, tables>>

\* The row is inserted outside of a transaction, whatever was saved meanwhile.
CacheInsert(c) ==
    /\ client[c].pc = "caching"
    /\ LET h == client[c].handle
           m == client[c].model
           e == client[c].entry
       IN /\ cache' = cache \cup {CacheRow(h.binary, m.revision, e[1], e[2], m.model)}
          /\ Ready(c, h, m)
    /\ UNCHANGED <<file, current, binaryAt, evidence, models, requests>>

Operate(c) ==
    \/ ReadElf(c) \/ OpenCheck(c) \/ OpenCommit(c)
    \/ Verify(c, "selecting") \/ SelectModel(c) \/ ValidateModel(c)
    \/ \E s \in Save : BeginSave(c, s) \/ BeginAnnotation(c, s)
    \/ SaveRead(c) \/ SaveCommit(c) \/ AnnotationCommit(c)
    \/ Verify(c, "keeping") \/ KeepSnapshot(c)
    \/ \E e \in Lowered : LookUp(c, e)
    \/ CacheInsert(c) \/ Quit(c)

Next == \/ \E b \in Binary : Rebuild(b)
        \/ \E c \in Client : Operate(c)

Spec == Init /\ [][Next]_vars

-----------------------------------------------------------------------------
(* Properties *)

\* A cached text is what emitting it again from the model of its revision would
\* give: what carry_typed_c_cache brings over from an edited model, over edits
\* and over cache rows of several clients, depends on no fact that changed.
CacheIsFresh ==
    \A r \in cache : \E m \in models :
        /\ m.binary = r.binary /\ m.revision = r.revision
        /\ r.text = Text(r.entry, r.kind, m.model)

\* A model is validated against bytes that save_model reads once more, so the
\* first model saved under a binary may describe another one, built between the
\* digest check and that reading.  This goes no further: facts are under the
\* binary of their revision, all models under a binary describe one content,
\* and no typed C is cached under a binary for a model of another, however often
\* the file is rebuilt and whatever a client loaded before.
TypedCIsOfItsBinary ==
    /\ \A e \in evidence \cup models : binaryAt[e.revision] = e.binary
    /\ \A m, p \in models : m.binary = p.binary => m.of = p.of
    /\ \A r \in cache, m \in models :
          m.binary = r.binary /\ m.revision = r.revision => m.of = r.binary

\* The model a client works on is the newest of its handle's binary at its
\* handle's revision, whatever was saved or rebuilt while it was loaded.
LoadedModelIsOfTheHandle ==
    \A c \in Client : client[c].pc = "ready" /\ client[c].model # None =>
        LET h == client[c].handle
            loaded == client[c].model.revision
        IN /\ loaded <= h.revision
           /\ \E m \in models : m.revision = loaded /\ m.model = client[c].model.model
           /\ \A m \in models : m.binary = h.binary /\ m.revision <= h.revision
                                   => m.revision <= loaded
=============================================================================
