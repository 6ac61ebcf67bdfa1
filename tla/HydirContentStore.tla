-------------------------- MODULE HydirContentStore --------------------------
(***************************************************************************)
(* Content storage of hydird: ContentStorage::stage and load, the          *)
(* filesystem store (FilesystemCas), the S3 store (S3ContentStore), and    *)
(* the table binaries whose rows name what they hold.  An upload stages    *)
(* its content and then commits a row; a reader loads a row and then its   *)
(* object.  Calls interleave, may be abandoned by their client, and the    *)
(* server may crash, lose its power, and be started with another backend.  *)
(*                                                                         *)
(* A content stands for its bytes and their digest, so a verified object   *)
(* is one that holds its bytes.  The disk: fsync makes a file's bytes and  *)
(* all earlier renames durable (a journal that keeps their order); the     *)
(* commit of SQLite is such an fsync.                                      *)
(***************************************************************************)
EXTENDS Naturals, FiniteSets

CONSTANTS
    Content,      \* what is stored
    Call,         \* calls of clients, each used once
    None,         \* no content, no backend
    MaxCrashes,   \* bound: crashes of the server
    MaxFaults     \* bound: errors of the file system and of S3

Backend == {"inline", "filesystem-cas", "s3"}

ASSUME ConstantAssumption ==
    /\ None \notin Content \cup Backend
    /\ {MaxCrashes, MaxFaults} \subseteq Nat

VARIABLES
    call,      \* where each call is: pc and content
    gone,      \* calls whose client has left
    temp,      \* the temporary file of each put, with whether it was synced
    object,    \* the file of a digest, whether its bytes and its name are on
               \* disk, and what the disk has under the name if not
    bucket,    \* the objects of S3
    rows,      \* table binaries: storage_kind of a digest
    backend,   \* the storage the server runs with, None when it is down
    spent      \* crashes and faults so far

vars == <<call, gone, temp, object, bucket, rows, backend, spent>>
disk == <<temp, object>>

Bytes == {"absent", "partial", "whole"}
Putting == {"create", "write", "sync", "rename", "verify"}   \* blocking task of put
Waiting == {"stage", "send", "confirm", "insert", "get"}
Ended == {"answered", "loaded", "failed", "lost", "crashed"}

Pc == {"idle"} \cup Putting \cup Waiting \cup Ended
File == [bytes : Bytes, synced : BOOLEAN]
Object == [bytes : Bytes, synced : BOOLEAN, named : BOOLEAN, old : Bytes]

Types ==
    /\ call \in [Call -> [pc : Pc, content : Content \cup {None}]]
    /\ gone \subseteq Call
    /\ temp \in [Call -> File]
    /\ object \in [Content -> Object]
    /\ bucket \subseteq Content
    /\ rows \in [Content -> Backend \cup {None}]
    /\ backend \in Backend \cup {None}
    /\ spent \in [crashes : 0..MaxCrashes, faults : 0..MaxFaults]

CallsHaveContent == \A c \in Call : call[c].pc # "idle" => call[c].content \in Content

NothingRunsWhenDown == backend = None => \A c \in Call : call[c].pc \in {"idle"} \cup Ended

RenamesAreSynced ==
    \A c \in Call : /\ call[c].pc \in {"sync", "rename"} => temp[c].bytes = "whole"
                    /\ call[c].pc = "rename" => temp[c].synced

TypeOK == Types /\ CallsHaveContent /\ NothingRunsWhenDown /\ RenamesAreSynced

NoFile == [bytes |-> "absent", synced |-> FALSE]

Init ==
    /\ call = [c \in Call |-> [pc |-> "idle", content |-> None]]
    /\ gone = {}
    /\ temp = [c \in Call |-> NoFile]
    /\ object = [d \in Content |-> [bytes |-> "absent", synced |-> FALSE,
                                    named |-> TRUE, old |-> "absent"]]
    /\ bucket = {}
    /\ rows = [d \in Content |-> None]
    /\ backend \in Backend
    /\ spent = [crashes |-> 0, faults |-> 0]

-----------------------------------------------------------------------------
At(c, pc) == backend # None /\ call[c].pc = pc

Goto(c, pc) == call' = [call EXCEPT ![c].pc = pc]

Fault == /\ spent.faults < MaxFaults
         /\ spent' = [spent EXCEPT !.faults = @ + 1]

\* The journal of the disk: what was renamed before is durable.
NamesDurable(o) == [d \in Content |-> [o[d] EXCEPT !.named = TRUE]]

Begin(c, d, pc) ==
    /\ At(c, "idle")
    /\ call' = [call EXCEPT ![c] = [pc |-> pc, content |-> d]]
    /\ UNCHANGED <<gone, disk, bucket, rows, backend, spent>>

\* upload_binary, at its stage.
Upload(c, d) == Begin(c, d, "stage")

\* stage, to the first effect of its backend; put of the file system first
\* looks whether the object is there.
Stage(c) ==
    /\ At(c, "stage")
    /\ \/ /\ backend = "inline"
          /\ Goto(c, "insert")
       \/ /\ backend = "filesystem-cas"
          /\ object[call[c].content].bytes = "absent"
          /\ Goto(c, "create")
       \/ /\ backend = "filesystem-cas"
          /\ object[call[c].content].bytes # "absent"
          /\ Goto(c, "verify")
       \/ /\ backend = "s3"
          /\ Goto(c, "send")
    /\ UNCHANGED <<gone, disk, bucket, rows, backend, spent>>

(* FilesystemCas::put *)

\* create_new of the temporary file, whose name no other put has.
Create(c) ==
    /\ At(c, "create")
    /\ temp' = [temp EXCEPT ![c] = [bytes |-> "partial", synced |-> FALSE]]
    /\ Goto(c, "write")
    /\ UNCHANGED <<gone, object, bucket, rows, backend, spent>>

\* Mutant of Write: sync_all is left out.
WriteSkipsSync(c) ==
    /\ At(c, "write")
    /\ temp' = [temp EXCEPT ![c].bytes = "whole"]
    /\ Goto(c, "rename")
    /\ UNCHANGED <<gone, object, bucket, rows, backend, spent>>

Write(c) ==
    /\ At(c, "write")
    /\ temp' = [temp EXCEPT ![c].bytes = "whole"]
    /\ Goto(c, "sync")
    /\ UNCHANGED <<gone, object, bucket, rows, backend, spent>>

Sync(c) ==
    /\ At(c, "sync")
    /\ temp' = [temp EXCEPT ![c].synced = TRUE]
    /\ object' = NamesDurable(object)
    /\ Goto(c, "rename")
    /\ UNCHANGED <<gone, bucket, rows, backend, spent>>

\* rename replaces an object that another put has made meanwhile.
Rename(c) ==
    /\ At(c, "rename")
    /\ object' = [object EXCEPT ![call[c].content] =
                     [bytes |-> temp[c].bytes, synced |-> temp[c].synced, named |-> FALSE,
                      old |-> IF @.named THEN @.bytes ELSE @.old]]
    /\ temp' = [temp EXCEPT ![c] = NoFile]
    /\ Goto(c, "verify")
    /\ UNCHANGED <<gone, bucket, rows, backend, spent>>

\* A rename that fails because the object is there counts as done.
RenameRefused(c) ==
    /\ At(c, "rename")
    /\ object[call[c].content].bytes # "absent"
    /\ Fault
    /\ temp' = [temp EXCEPT ![c] = NoFile]
    /\ Goto(c, "verify")
    /\ UNCHANGED <<gone, object, bucket, rows, backend>>

\* Mutant of PutFails: the temporary file is not removed.
PutFailsKeepsTemporary(c) ==
    /\ backend # None /\ call[c].pc \in Putting
    /\ Fault
    /\ Goto(c, "failed")
    /\ UNCHANGED <<gone, disk, bucket, rows, backend>>

\* Any error of the file system; the temporary file is removed (the code does
\* not look whether that fails, too; here it does not).
PutFails(c) ==
    /\ backend # None /\ call[c].pc \in Putting
    /\ Fault
    /\ temp' = [temp EXCEPT ![c] = NoFile]
    /\ Goto(c, "failed")
    /\ UNCHANGED <<gone, object, bucket, rows, backend>>

\* verify_existing; nobody waits for the result when the client has left.
Verify(c) ==
    /\ At(c, "verify")
    /\ Goto(c, IF object[call[c].content].bytes = "whole" /\ c \notin gone
               THEN "insert" ELSE "failed")
    /\ UNCHANGED <<gone, disk, bucket, rows, backend, spent>>

(* S3ContentStore::put *)

\* Mutant of Send: any error counts as the refusal of an object that exists.
SendUnconfirmed(c) ==
    /\ At(c, "send")
    /\ \/ /\ bucket' = bucket \cup {call[c].content}
          /\ UNCHANGED spent
       \/ /\ Fault
          /\ UNCHANGED bucket
    /\ Goto(c, "insert")
    /\ UNCHANGED <<gone, disk, rows, backend>>

\* put_object with if_none_match: the object is made, or it is there and the
\* request is refused, or an error leaves open whether it was made.
Send(c) ==
    /\ At(c, "send")
    /\ \/ /\ call[c].content \notin bucket
          /\ bucket' = bucket \cup {call[c].content}
          /\ Goto(c, "insert")
          /\ UNCHANGED spent
       \/ /\ call[c].content \in bucket
          /\ Goto(c, "confirm")
          /\ UNCHANGED <<bucket, spent>>
       \/ /\ Fault
          /\ bucket' \in {bucket, bucket \cup {call[c].content}}
          /\ Goto(c, "confirm")
    /\ UNCHANGED <<gone, disk, rows, backend>>

\* After an error, get decides.
Confirm(c) ==
    /\ At(c, "confirm")
    /\ \/ /\ call[c].content \in bucket
          /\ Goto(c, "insert")
          /\ UNCHANGED spent
       \/ /\ call[c].content \notin bucket
          /\ Goto(c, "failed")
          /\ UNCHANGED spent
       \/ /\ Fault
          /\ Goto(c, "failed")
    /\ UNCHANGED <<gone, disk, bucket, rows, backend>>

(* The transaction, and readers *)

\* insert_binary and the commit: INSERT OR IGNORE keeps the row of a content
\* that is stored already, also in another backend.
Insert(c) ==
    /\ At(c, "insert")
    /\ rows' = [rows EXCEPT ![call[c].content] = IF @ = None THEN backend ELSE @]
    /\ object' = NamesDurable(object)
    /\ Goto(c, "answered")
    /\ UNCHANGED <<gone, temp, bucket, backend, spent>>

\* The transaction refuses the call: its content stays without a row.
Refuse(c) ==
    /\ At(c, "insert")
    /\ Goto(c, "failed")
    /\ UNCHANGED <<gone, disk, bucket, rows, backend, spent>>

\* A reader finds the row, and load asks for the backend it names.
Read(c, d) ==
    /\ At(c, "idle")
    /\ rows[d] # None
    /\ call' = [call EXCEPT ![c] = [pc |-> IF rows[d] = "inline" THEN "loaded"
                                           ELSE IF rows[d] = backend THEN "get"
                                           ELSE "failed",
                                    content |-> d]]
    /\ UNCHANGED <<gone, disk, bucket, rows, backend, spent>>

\* The object that a row of this kind names is there.
Stored(d, kind) ==
    /\ kind = "filesystem-cas" => object[d].bytes = "whole"
    /\ kind = "s3" => d \in bucket

\* get of the two stores, with the check of size and digest.
Get(c) ==
    /\ At(c, "get")
    /\ \/ /\ Goto(c, IF Stored(call[c].content, backend) THEN "loaded" ELSE "lost")
          /\ UNCHANGED spent
       \/ /\ Fault
          /\ Goto(c, "failed")
    /\ UNCHANGED <<gone, disk, bucket, rows, backend>>

\* The client leaves: the call is dropped at its await, but a put that runs in
\* a blocking task goes on to its end.
Abandon(c) ==
    /\ backend # None /\ c \notin gone
    /\ \/ /\ call[c].pc \in Putting
          /\ gone' = gone \cup {c}
          /\ UNCHANGED call
       \/ /\ call[c].pc \in {"stage", "send", "confirm", "get"}
          /\ gone' = gone \cup {c}
          /\ Goto(c, "failed")
    /\ UNCHANGED <<disk, bucket, rows, backend, spent>>

-----------------------------------------------------------------------------
(* The environment *)

Stop ==
    /\ backend # None
    /\ spent.crashes < MaxCrashes
    /\ backend' = None
    /\ spent' = [spent EXCEPT !.crashes = @ + 1]
    /\ call' = [c \in Call |->
                  IF call[c].pc \in {"idle"} \cup Ended THEN call[c]
                  ELSE [call[c] EXCEPT !.pc = "crashed"]]

Crash ==
    /\ Stop
    /\ UNCHANGED <<gone, disk, bucket, rows>>

\* What a file may hold after its bytes were not synced.
Survives(f) == IF f.bytes = "absent" \/ f.synced THEN {f.bytes} ELSE Bytes

\* The power fails: a file that was not synced has any bytes, and a rename that
\* no later fsync followed may be undone.
PowerFailure ==
    /\ Stop
    /\ \E b \in [Content -> Bytes], t \in [Call -> Bytes] :
          /\ \A d \in Content :
                b[d] \in Survives(object[d]) \cup (IF object[d].named THEN {} ELSE {object[d].old})
          /\ \A c \in Call : t[c] \in Survives(temp[c])
          /\ object' = [d \in Content |-> [bytes |-> b[d], synced |-> b[d] # "absent",
                                           named |-> TRUE, old |-> "absent"]]
          /\ temp' = [c \in Call |-> [bytes |-> t[c], synced |-> t[c] # "absent"]]
    /\ UNCHANGED <<gone, bucket, rows>>

\* The operator starts the server, with any of serve, serve-oidc-cas and
\* serve-oidc-s3.
Restart ==
    /\ backend = None
    /\ backend' \in Backend
    /\ UNCHANGED <<call, gone, disk, bucket, rows, spent>>

Put(c) == \/ Stage(c) \/ Create(c) \/ Write(c) \/ Sync(c)
          \/ Rename(c) \/ RenameRefused(c) \/ PutFails(c) \/ Verify(c)
          \/ Send(c) \/ Confirm(c) \/ Insert(c) \/ Refuse(c)

Next == \/ \E c \in Call : Put(c) \/ Get(c) \/ Abandon(c)
        \/ \E c \in Call, d \in Content : Upload(c, d) \/ Read(c, d)
        \/ Crash \/ PowerFailure \/ Restart

Spec == Init /\ [][Next]_vars

-----------------------------------------------------------------------------
(* Properties *)

\* "written through same-directory temporary files and an atomic rename": a
\* file under a digest has the bytes of that digest, whatever was interrupted.
\* Otherwise verify_existing would refuse its content for ever.
ObjectsAreWhole == \A d \in Content : object[d].bytes # "partial"

\* A row is committed only for an object that is stored, and what a row names
\* stays stored, in whichever backend and after any crash: no reader is told
\* that the object is missing or wrong.
NoDataLoss ==
    /\ \A d \in Content : rows[d] # None => Stored(d, rows[d])
    /\ \A c \in Call : call[c].pc # "lost"

\* Only a crash leaves temporary files: an error or an abandoned call does not.
OnlyCrashesLeaveTemporaries ==
    \A c \in Call : temp[c].bytes # "absent" => call[c].pc \in Putting \cup {"crashed"}
=============================================================================
