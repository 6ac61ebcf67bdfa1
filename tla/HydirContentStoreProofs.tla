----------------------- MODULE HydirContentStoreProofs -----------------------
(***************************************************************************)
(* For any contents, calls, crashes and faults: files under a digest are   *)
(* whole, and what a row names is stored.                                  *)
(***************************************************************************)
EXTENDS HydirContentStore, TLAPS

\* What is under a digest is synced and whole, also what a power failure may
\* bring back.
DiskInv ==
    \A d \in Content :
        /\ object[d].bytes # "partial"
        /\ object[d].old # "partial"
        /\ object[d].bytes = "whole" => object[d].synced

\* What a row names is there, and survives a power failure.
RowsInv ==
    \A d \in Content :
        /\ rows[d] = "filesystem-cas" =>
              /\ object[d].bytes = "whole"
              /\ object[d].named \/ object[d].old = "whole"
        /\ rows[d] = "s3" => d \in bucket

\* A put belongs to the backend the server runs with.
PutsInv ==
    \A c \in Call : /\ call[c].pc \in Putting => backend = "filesystem-cas"
                    /\ call[c].pc \in {"send", "confirm"} => backend = "s3"

\* A call that is about to write a row has stored its content, and one that is
\* about to read an object has found a row that names it.
CallsInv ==
    \A c \in Call :
        /\ call[c].pc = "insert" =>
              /\ backend = "filesystem-cas" => object[call[c].content].bytes = "whole"
              /\ backend = "s3" => call[c].content \in bucket
        /\ call[c].pc = "get" => rows[call[c].content] = backend
        /\ call[c].pc # "lost"

IInv == TypeOK /\ DiskInv /\ PutsInv /\ RowsInv /\ CallsInv

-----------------------------------------------------------------------------
(* Types *)

\* The initial storage has its type: nothing is stored, and no call runs.
LEMMA InitType == Init => TypeOK
  BY ConstantAssumption DEF Init, TypeOK, Types, CallsHaveContent, NothingRunsWhenDown,
     RenamesAreSynced, Pc, File, Object, Bytes, NoFile, Ended

\* A call that moves on keeps its type.
LEMMA GotoType ==
    ASSUME Types, NEW c \in Call, NEW pc \in Pc, Goto(c, pc)
    PROVE  call' \in [Call -> [pc : Pc, content : Content \cup {None}]]
  BY DEF Types, Goto

\* What a rename leaves, and that a sync changes only whether names are durable.
LEMMA ObjectTypes ==
    ASSUME Types, NEW d \in Content, NEW f \in File
    PROVE  /\ NamesDurable(object) \in [Content -> Object]
           /\ [object EXCEPT ![d] =
                 [bytes |-> f.bytes, synced |-> f.synced, named |-> FALSE,
                  old |-> IF @.named THEN @.bytes ELSE @.old]] \in [Content -> Object]
  <1>1. ASSUME NEW e \in Content PROVE [object[e] EXCEPT !.named = TRUE] \in Object
    BY DEF Types, Object
  <1>2. [bytes |-> f.bytes, synced |-> f.synced, named |-> FALSE,
         old |-> IF object[d].named THEN object[d].bytes ELSE object[d].old] \in Object
    BY DEF Types, Object, File
  <1> QED
    BY <1>1, <1>2 DEF Types, NamesDurable

\* Every step keeps the types of the variables.
LEMMA NextTypes == TypeOK /\ [Next]_vars => Types'
  <1> SUFFICES ASSUME TypeOK, [Next]_vars PROVE Types'
    OBVIOUS
  <1> USE ConstantAssumption DEF TypeOK, Types
  <1>1. CASE UNCHANGED vars
    BY <1>1 DEF vars, disk
  <1>2. ASSUME NEW c \in Call, NEW d \in Content, Upload(c, d) PROVE Types'
    BY <1>2 DEF Upload, Begin, At, disk, Pc, Waiting, Putting, Ended
  <1>3. ASSUME NEW c \in Call, NEW d \in Content, Read(c, d) PROVE Types'
    BY <1>3 DEF Read, At, disk, Pc, Waiting, Putting, Ended
  <1>4. ASSUME NEW c \in Call, Stage(c) PROVE Types'
    <2>1. PICK pc \in {"insert", "create", "verify", "send"} : Goto(c, pc)
      BY <1>4 DEF Stage
    <2>2. pc \in Pc
      BY DEF Pc, Putting, Waiting
    <2> QED
      BY <1>4, <2>1, <2>2, GotoType DEF Stage, disk
  <1>5. ASSUME NEW c \in Call, Create(c) PROVE Types'
    BY <1>5, ZenonT(40) DEF Create, File, Bytes, Goto, At, Pc, Waiting, Putting, Ended
  <1>6. ASSUME NEW c \in Call, Write(c) PROVE Types'
    BY <1>6, ZenonT(40) DEF Write, File, Bytes, Goto, At, Pc, Waiting, Putting, Ended
  <1>7. ASSUME NEW c \in Call, Sync(c) PROVE Types'
    <2>1. call' \in [Call -> [pc : Pc, content : Content \cup {None}]]
      BY <1>7, GotoType DEF Sync, Pc, Putting
    <2>2. temp' \in [Call -> File]
      BY <1>7 DEF Sync, File
    <2>3. call[c].content \in Content
      BY <1>7 DEF Sync, At, CallsHaveContent
    <2>4. object' \in [Content -> Object]
      BY <1>7, <2>3, ObjectTypes DEF Sync
    <2> QED
      BY <1>7, <2>1, <2>2, <2>4 DEF Sync
  <1>8. ASSUME NEW c \in Call, Rename(c) PROVE Types'
    <2>1. call' \in [Call -> [pc : Pc, content : Content \cup {None}]]
      BY <1>8, GotoType DEF Rename, Pc, Putting
    <2>2. temp' \in [Call -> File]
      BY <1>8 DEF Rename, File, NoFile, Bytes
    <2>3. call[c].content \in Content
      BY <1>8 DEF Rename, At, CallsHaveContent
    <2>4. object' \in [Content -> Object]
      BY <1>8, <2>3, ObjectTypes DEF Rename
    <2> QED
      BY <1>8, <2>1, <2>2, <2>4 DEF Rename
  <1>9. ASSUME NEW c \in Call, RenameRefused(c) PROVE Types'
    BY <1>9 DEF RenameRefused, Fault, NoFile, File, Bytes, Goto, At, Pc, Waiting, Putting, Ended
  <1>10. ASSUME NEW c \in Call, PutFails(c) PROVE Types'
    BY <1>10 DEF PutFails, Fault, NoFile, File, Bytes, Goto, At, Pc, Waiting, Putting, Ended
  <1>11. ASSUME NEW c \in Call, Verify(c) PROVE Types'
    BY <1>11 DEF Verify, disk, Goto, At, Pc, Waiting, Putting, Ended
  <1>12. ASSUME NEW c \in Call, Send(c) PROVE Types'
    <2>1. PICK pc \in {"insert", "confirm"} : Goto(c, pc)
      BY <1>12 DEF Send
    <2>2. call' \in [Call -> [pc : Pc, content : Content \cup {None}]]
      BY <2>1, GotoType DEF Pc, Waiting
    <2>3. bucket' \subseteq Content
      BY <1>12 DEF Send, At, CallsHaveContent
    <2>4. spent' \in [crashes : 0..MaxCrashes, faults : 0..MaxFaults]
      BY <1>12 DEF Send, Fault
    <2> QED
      BY <1>12, <2>2, <2>3, <2>4 DEF Send, disk
  <1>13. ASSUME NEW c \in Call, Confirm(c) PROVE Types'
    BY <1>13 DEF Confirm, Fault, disk, Goto, At, Pc, Waiting, Putting, Ended
  <1>14. ASSUME NEW c \in Call, Insert(c) PROVE Types'
    BY <1>14, ZenonT(40) DEF Insert, NamesDurable, Object, Goto, At, Pc, Waiting, Putting, Ended
  <1>15. ASSUME NEW c \in Call, Refuse(c) PROVE Types'
    BY <1>15 DEF Refuse, disk, Goto, At, Pc, Waiting, Putting, Ended
  <1>16. ASSUME NEW c \in Call, Get(c) PROVE Types'
    BY <1>16 DEF Get, Fault, disk, Goto, At, Pc, Waiting, Putting, Ended
  <1>17. ASSUME NEW c \in Call, Abandon(c) PROVE Types'
    BY <1>17 DEF Abandon, disk, Goto, Pc, Waiting, Putting, Ended
  <1>18. CASE Crash
    BY <1>18 DEF Crash, Stop, disk, Pc, Waiting, Putting, Ended
  <1>19. CASE PowerFailure
    <2>1. /\ call' \in [Call -> [pc : Pc, content : Content \cup {None}]]
          /\ spent' \in [crashes : 0..MaxCrashes, faults : 0..MaxFaults]
          /\ backend' = None
      <3>1. \A c \in Call : [call[c] EXCEPT !.pc = "crashed"]
                               \in [pc : Pc, content : Content \cup {None}]
        BY DEF Pc, Ended
      <3> QED
        BY <1>19, <3>1 DEF PowerFailure, Stop
    <2>2. object' \in [Content -> Object]
      BY <1>19 DEF PowerFailure, Object, Bytes
    <2>3. temp' \in [Call -> File]
      BY <1>19 DEF PowerFailure, File
    <2> QED
      BY <1>19, <2>1, <2>2, <2>3 DEF PowerFailure
  <1>20. CASE Restart
    BY <1>20 DEF Restart, disk, Pc, Waiting, Putting, Ended
  <1> QED
    BY <1>1, <1>2, <1>3, <1>4, <1>5, <1>6, <1>7, <1>8, <1>9, <1>10, <1>11, <1>12, <1>13, <1>14, <1>15, <1>16, <1>17, <1>18, <1>19, <1>20 DEF Next, Put

\* A call under way keeps the content it began with.
LEMMA NextCallsHaveContent == TypeOK /\ [Next]_vars => CallsHaveContent'
  <1> SUFFICES ASSUME TypeOK, [Next]_vars PROVE CallsHaveContent'
    OBVIOUS
  <1> USE ConstantAssumption DEF TypeOK, Types, CallsHaveContent
  <1>1. CASE UNCHANGED vars
    BY <1>1 DEF vars, disk
  <1>2. ASSUME NEW c \in Call, NEW d \in Content, Upload(c, d) PROVE CallsHaveContent'
    BY <1>2 DEF Upload, Begin, At, disk, Pc, Waiting, Putting, Ended
  <1>3. ASSUME NEW c \in Call, NEW d \in Content, Read(c, d) PROVE CallsHaveContent'
    BY <1>3 DEF Read, At, disk, Pc, Waiting, Putting, Ended
  <1>4. ASSUME NEW c \in Call, Stage(c) PROVE CallsHaveContent'
    BY <1>4 DEF Stage, disk, Goto, At, Pc, Waiting, Putting, Ended
  <1>5. ASSUME NEW c \in Call, Create(c) PROVE CallsHaveContent'
    BY <1>5 DEF Create, File, Bytes, Goto, At, Pc, Waiting, Putting, Ended
  <1>6. ASSUME NEW c \in Call, Write(c) PROVE CallsHaveContent'
    BY <1>6 DEF Write, File, Bytes, Goto, At, Pc, Waiting, Putting, Ended
  <1>7. ASSUME NEW c \in Call, Sync(c) PROVE CallsHaveContent'
    BY <1>7 DEF Sync, NamesDurable, File, Object, Goto, At, Pc, Waiting, Putting, Ended
  <1>8. ASSUME NEW c \in Call, Rename(c) PROVE CallsHaveContent'
    BY <1>8 DEF Rename, NoFile, File, Object, Bytes, Goto, At, Pc, Waiting, Putting, Ended
  <1>9. ASSUME NEW c \in Call, RenameRefused(c) PROVE CallsHaveContent'
    BY <1>9 DEF RenameRefused, Fault, NoFile, File, Bytes, Goto, At, Pc, Waiting, Putting, Ended
  <1>10. ASSUME NEW c \in Call, PutFails(c) PROVE CallsHaveContent'
    BY <1>10 DEF PutFails, Fault, NoFile, File, Bytes, Goto, At, Pc, Waiting, Putting, Ended
  <1>11. ASSUME NEW c \in Call, Verify(c) PROVE CallsHaveContent'
    BY <1>11 DEF Verify, disk, Goto, At, Pc, Waiting, Putting, Ended
  <1>12. ASSUME NEW c \in Call, Send(c) PROVE CallsHaveContent'
    BY <1>12 DEF Send, Fault, disk, Goto, At, Pc, Waiting, Putting, Ended
  <1>13. ASSUME NEW c \in Call, Confirm(c) PROVE CallsHaveContent'
    BY <1>13 DEF Confirm, Fault, disk, Goto, At, Pc, Waiting, Putting, Ended
  <1>14. ASSUME NEW c \in Call, Insert(c) PROVE CallsHaveContent'
    BY <1>14 DEF Insert, NamesDurable, Object, Goto, At, Pc, Waiting, Putting, Ended
  <1>15. ASSUME NEW c \in Call, Refuse(c) PROVE CallsHaveContent'
    BY <1>15 DEF Refuse, disk, Goto, At, Pc, Waiting, Putting, Ended
  <1>16. ASSUME NEW c \in Call, Get(c) PROVE CallsHaveContent'
    BY <1>16 DEF Get, Fault, disk, Goto, At, Pc, Waiting, Putting, Ended
  <1>17. ASSUME NEW c \in Call, Abandon(c) PROVE CallsHaveContent'
    BY <1>17 DEF Abandon, disk, Goto, Pc, Waiting, Putting, Ended
  <1>18. CASE Crash
    BY <1>18 DEF Crash, Stop, disk, Pc, Waiting, Putting, Ended
  <1>19. CASE PowerFailure
    BY <1>19 DEF PowerFailure, Stop, File, Object, Bytes, Pc, Waiting, Putting, Ended
  <1>20. CASE Restart
    BY <1>20 DEF Restart, disk, Pc, Waiting, Putting, Ended
  <1> QED
    BY <1>1, <1>2, <1>3, <1>4, <1>5, <1>6, <1>7, <1>8, <1>9, <1>10, <1>11, <1>12, <1>13, <1>14, <1>15, <1>16, <1>17, <1>18, <1>19, <1>20 DEF Next, Put

\* A crash ends every call, and none starts before the restart.
LEMMA NextNothingRunsWhenDown == TypeOK /\ [Next]_vars => NothingRunsWhenDown'
  <1> SUFFICES ASSUME TypeOK, [Next]_vars PROVE NothingRunsWhenDown'
    OBVIOUS
  <1> USE ConstantAssumption DEF TypeOK, Types, NothingRunsWhenDown
  <1>1. CASE UNCHANGED vars
    BY <1>1 DEF vars, disk
  <1>2. ASSUME NEW c \in Call, NEW d \in Content, Upload(c, d) PROVE NothingRunsWhenDown'
    BY <1>2 DEF Upload, Begin, At, disk, Pc, Waiting, Putting, Ended
  <1>3. ASSUME NEW c \in Call, NEW d \in Content, Read(c, d) PROVE NothingRunsWhenDown'
    BY <1>3 DEF Read, At, disk, Pc, Waiting, Putting, Ended
  <1>4. ASSUME NEW c \in Call, Stage(c) PROVE NothingRunsWhenDown'
    BY <1>4 DEF Stage, disk, Goto, At, Pc, Waiting, Putting, Ended
  <1>5. ASSUME NEW c \in Call, Create(c) PROVE NothingRunsWhenDown'
    BY <1>5 DEF Create, File, Bytes, Goto, At, Pc, Waiting, Putting, Ended
  <1>6. ASSUME NEW c \in Call, Write(c) PROVE NothingRunsWhenDown'
    BY <1>6 DEF Write, File, Bytes, Goto, At, Pc, Waiting, Putting, Ended
  <1>7. ASSUME NEW c \in Call, Sync(c) PROVE NothingRunsWhenDown'
    BY <1>7 DEF Sync, NamesDurable, File, Object, Goto, At, Pc, Waiting, Putting, Ended
  <1>8. ASSUME NEW c \in Call, Rename(c) PROVE NothingRunsWhenDown'
    BY <1>8 DEF Rename, NoFile, File, Object, Bytes, Goto, At, Pc, Waiting, Putting, Ended
  <1>9. ASSUME NEW c \in Call, RenameRefused(c) PROVE NothingRunsWhenDown'
    BY <1>9 DEF RenameRefused, Fault, NoFile, File, Bytes, Goto, At, Pc, Waiting, Putting, Ended
  <1>10. ASSUME NEW c \in Call, PutFails(c) PROVE NothingRunsWhenDown'
    BY <1>10 DEF PutFails, Fault, NoFile, File, Bytes, Goto, At, Pc, Waiting, Putting, Ended
  <1>11. ASSUME NEW c \in Call, Verify(c) PROVE NothingRunsWhenDown'
    BY <1>11 DEF Verify, disk, Goto, At, Pc, Waiting, Putting, Ended
  <1>12. ASSUME NEW c \in Call, Send(c) PROVE NothingRunsWhenDown'
    BY <1>12 DEF Send, Fault, disk, Goto, At, Pc, Waiting, Putting, Ended
  <1>13. ASSUME NEW c \in Call, Confirm(c) PROVE NothingRunsWhenDown'
    BY <1>13 DEF Confirm, Fault, disk, Goto, At, Pc, Waiting, Putting, Ended
  <1>14. ASSUME NEW c \in Call, Insert(c) PROVE NothingRunsWhenDown'
    BY <1>14 DEF Insert, NamesDurable, Object, Goto, At, Pc, Waiting, Putting, Ended
  <1>15. ASSUME NEW c \in Call, Refuse(c) PROVE NothingRunsWhenDown'
    BY <1>15 DEF Refuse, disk, Goto, At, Pc, Waiting, Putting, Ended
  <1>16. ASSUME NEW c \in Call, Get(c) PROVE NothingRunsWhenDown'
    BY <1>16 DEF Get, Fault, disk, Goto, At, Pc, Waiting, Putting, Ended
  <1>17. ASSUME NEW c \in Call, Abandon(c) PROVE NothingRunsWhenDown'
    BY <1>17 DEF Abandon, disk, Goto, Pc, Waiting, Putting, Ended
  <1>18. CASE Crash
    BY <1>18 DEF Crash, Stop, disk, Pc, Waiting, Putting, Ended
  <1>19. CASE PowerFailure
    BY <1>19 DEF PowerFailure, Stop, File, Object, Bytes, Pc, Waiting, Putting, Ended
  <1>20. CASE Restart
    BY <1>20 DEF Restart, disk, Pc, Waiting, Putting, Ended
  <1> QED
    BY <1>1, <1>2, <1>3, <1>4, <1>5, <1>6, <1>7, <1>8, <1>9, <1>10, <1>11, <1>12, <1>13, <1>14, <1>15, <1>16, <1>17, <1>18, <1>19, <1>20 DEF Next, Put

\* A put syncs its whole temporary file before it renames it.
LEMMA NextRenamesAreSynced == TypeOK /\ [Next]_vars => RenamesAreSynced'
  <1> SUFFICES ASSUME TypeOK, [Next]_vars PROVE RenamesAreSynced'
    OBVIOUS
  <1> USE ConstantAssumption DEF TypeOK, Types, RenamesAreSynced
  <1>1. CASE UNCHANGED vars
    BY <1>1 DEF vars, disk
  <1>2. ASSUME NEW c \in Call, NEW d \in Content, Upload(c, d) PROVE RenamesAreSynced'
    BY <1>2 DEF Upload, Begin, At, disk, Pc, Waiting, Putting, Ended
  <1>3. ASSUME NEW c \in Call, NEW d \in Content, Read(c, d) PROVE RenamesAreSynced'
    BY <1>3 DEF Read, At, disk, Pc, Waiting, Putting, Ended
  <1>4. ASSUME NEW c \in Call, Stage(c) PROVE RenamesAreSynced'
    BY <1>4 DEF Stage, disk, Goto, At, Pc, Waiting, Putting, Ended
  <1>5. ASSUME NEW c \in Call, Create(c) PROVE RenamesAreSynced'
    BY <1>5 DEF Create, File, Bytes, Goto, At, Pc, Waiting, Putting, Ended
  <1>6. ASSUME NEW c \in Call, Write(c) PROVE RenamesAreSynced'
    BY <1>6 DEF Write, File, Bytes, Goto, At, Pc, Waiting, Putting, Ended
  <1>7. ASSUME NEW c \in Call, Sync(c) PROVE RenamesAreSynced'
    BY <1>7 DEF Sync, Goto, At, File
  <1>8. ASSUME NEW c \in Call, Rename(c) PROVE RenamesAreSynced'
    BY <1>8 DEF Rename, NoFile, File, Object, Bytes, Goto, At, Pc, Waiting, Putting, Ended
  <1>9. ASSUME NEW c \in Call, RenameRefused(c) PROVE RenamesAreSynced'
    BY <1>9 DEF RenameRefused, Fault, NoFile, File, Bytes, Goto, At, Pc, Waiting, Putting, Ended
  <1>10. ASSUME NEW c \in Call, PutFails(c) PROVE RenamesAreSynced'
    BY <1>10 DEF PutFails, Fault, NoFile, File, Bytes, Goto, At, Pc, Waiting, Putting, Ended
  <1>11. ASSUME NEW c \in Call, Verify(c) PROVE RenamesAreSynced'
    BY <1>11 DEF Verify, disk, Goto, At, Pc, Waiting, Putting, Ended
  <1>12. ASSUME NEW c \in Call, Send(c) PROVE RenamesAreSynced'
    BY <1>12 DEF Send, Fault, disk, Goto, At, Pc, Waiting, Putting, Ended
  <1>13. ASSUME NEW c \in Call, Confirm(c) PROVE RenamesAreSynced'
    BY <1>13 DEF Confirm, Fault, disk, Goto, At, Pc, Waiting, Putting, Ended
  <1>14. ASSUME NEW c \in Call, Insert(c) PROVE RenamesAreSynced'
    BY <1>14 DEF Insert, NamesDurable, Object, Goto, At, Pc, Waiting, Putting, Ended
  <1>15. ASSUME NEW c \in Call, Refuse(c) PROVE RenamesAreSynced'
    BY <1>15 DEF Refuse, disk, Goto, At, Pc, Waiting, Putting, Ended
  <1>16. ASSUME NEW c \in Call, Get(c) PROVE RenamesAreSynced'
    BY <1>16 DEF Get, Fault, disk, Goto, At, Pc, Waiting, Putting, Ended
  <1>17. ASSUME NEW c \in Call, Abandon(c) PROVE RenamesAreSynced'
    BY <1>17 DEF Abandon, disk, Goto, Pc, Waiting, Putting, Ended
  <1>18. CASE Crash
    BY <1>18 DEF Crash, Stop, disk, Pc, Waiting, Putting, Ended
  <1>19. CASE PowerFailure
    BY <1>19 DEF PowerFailure, Stop, File, Object, Bytes, Pc, Waiting, Putting, Ended
  <1>20. CASE Restart
    BY <1>20 DEF Restart, disk, Pc, Waiting, Putting, Ended
  <1> QED
    BY <1>1, <1>2, <1>3, <1>4, <1>5, <1>6, <1>7, <1>8, <1>9, <1>10, <1>11, <1>12, <1>13, <1>14, <1>15, <1>16, <1>17, <1>18, <1>19, <1>20 DEF Next, Put

-----------------------------------------------------------------------------
(* Objects and rows *)

\* Only four actions write the files under digests.
LEMMA NextDiskInv == TypeOK /\ DiskInv /\ [Next]_vars => DiskInv'
  <1> SUFFICES ASSUME TypeOK, DiskInv, [Next]_vars PROVE DiskInv'
    OBVIOUS
  <1> USE DEF TypeOK, DiskInv
  <1>1. CASE UNCHANGED object
    BY <1>1
  <1>2. CASE object' = NamesDurable(object)
    BY <1>2 DEF NamesDurable, Types, Object
  <1>3. ASSUME NEW c \in Call, Rename(c) PROVE DiskInv'
    <2>1. temp[c].bytes = "whole" /\ temp[c].synced
      BY <1>3 DEF Rename, At, RenamesAreSynced
    <2> QED
      BY <1>3, <2>1 DEF Rename, Types, Object
  <1>4. CASE PowerFailure
    <2>1. PICK b \in [Content -> Bytes] :
            /\ \A d \in Content : b[d] \in Survives(object[d]) \cup
                                   (IF object[d].named THEN {} ELSE {object[d].old})
            /\ object' = [d \in Content |-> [bytes |-> b[d], synced |-> b[d] # "absent",
                                             named |-> TRUE, old |-> "absent"]]
      BY <1>4 DEF PowerFailure
    <2>2. ASSUME NEW d \in Content PROVE b[d] # "partial"
      BY <2>1 DEF Survives, Types, Object, Bytes
    <2> QED
      BY <2>1, <2>2
  <1>5. ASSUME NEW c \in Call, Put(c) PROVE DiskInv'
    BY <1>5, <1>1, <1>2, <1>3 DEF Put, Stage, Create, Write, Sync, RenameRefused,
       PutFails, Verify, Send, Confirm, Insert, Refuse, disk
  <1>6. CASE ~ \E c \in Call : Put(c)
    BY <1>6, <1>1, <1>4 DEF Next, vars, disk, Get, Abandon, Upload, Begin, Read, Crash, Restart
  <1> QED
    BY <1>5, <1>6

\* The backend changes only while no call runs.
LEMMA NextPutsInv == TypeOK /\ PutsInv /\ [Next]_vars => PutsInv'
  <1> SUFFICES ASSUME TypeOK, PutsInv, [Next]_vars PROVE PutsInv'
    OBVIOUS
  <1> USE ConstantAssumption DEF TypeOK, PutsInv, Types
  <1>1. CASE UNCHANGED vars
    BY <1>1 DEF vars
  <1>2. ASSUME NEW c \in Call, NEW d \in Content, Upload(c, d) PROVE PutsInv'
    BY <1>2 DEF Upload, Begin, Putting
  <1>3. ASSUME NEW c \in Call, NEW d \in Content, Read(c, d) PROVE PutsInv'
    BY <1>3 DEF Read, Putting
  <1>4. ASSUME NEW c \in Call, Stage(c) PROVE PutsInv'
    BY <1>4, SMTT(30) DEF Stage, Goto, At, Putting
  <1>5. ASSUME NEW c \in Call, Create(c) PROVE PutsInv'
    BY <1>5 DEF Create, Goto, At, Putting
  <1>6. ASSUME NEW c \in Call, Write(c) PROVE PutsInv'
    BY <1>6 DEF Write, Goto, At, Putting
  <1>7. ASSUME NEW c \in Call, Sync(c) PROVE PutsInv'
    BY <1>7 DEF Sync, Goto, At, Putting
  <1>8. ASSUME NEW c \in Call, Rename(c) PROVE PutsInv'
    BY <1>8 DEF Rename, Goto, At, Putting
  <1>9. ASSUME NEW c \in Call, RenameRefused(c) PROVE PutsInv'
    BY <1>9 DEF RenameRefused, Goto, At, Putting
  <1>10. ASSUME NEW c \in Call, PutFails(c) PROVE PutsInv'
    BY <1>10 DEF PutFails, Goto, At, Putting
  <1>11. ASSUME NEW c \in Call, Verify(c) PROVE PutsInv'
    BY <1>11 DEF Verify, Goto, At, Putting
  <1>12. ASSUME NEW c \in Call, Send(c) PROVE PutsInv'
    BY <1>12, SMTT(30) DEF Send, Goto, At, Putting
  <1>13. ASSUME NEW c \in Call, Confirm(c) PROVE PutsInv'
    BY <1>13 DEF Confirm, Goto, At, Putting
  <1>14. ASSUME NEW c \in Call, Insert(c) PROVE PutsInv'
    BY <1>14 DEF Insert, Goto, At, Putting
  <1>15. ASSUME NEW c \in Call, Refuse(c) PROVE PutsInv'
    BY <1>15 DEF Refuse, Goto, At, Putting
  <1>16. ASSUME NEW c \in Call, Get(c) PROVE PutsInv'
    BY <1>16 DEF Get, Goto, At, Putting
  <1>17. ASSUME NEW c \in Call, Abandon(c) PROVE PutsInv'
    BY <1>17 DEF Abandon, Goto, At, Putting
  <1>18. CASE Crash \/ PowerFailure
    BY <1>18, SMTT(30) DEF Crash, PowerFailure, Stop, Putting, Ended
  <1>19. CASE Restart
    BY <1>19 DEF Restart, NothingRunsWhenDown, Putting, Ended
  <1> QED
    BY <1>1, <1>2, <1>3, <1>4, <1>5, <1>6, <1>7, <1>8, <1>9, <1>10, <1>11, <1>12,
       <1>13, <1>14, <1>15, <1>16, <1>17, <1>18, <1>19 DEF Next, Put

\* An object that a row names stays: it is replaced only by a whole one, and a
\* power failure finds it, or the one it replaced, on the disk.
LEMMA NextRowsInv == IInv /\ [Next]_vars => RowsInv'
  <1> SUFFICES ASSUME IInv, [Next]_vars PROVE RowsInv'
    OBVIOUS
  <1> USE ConstantAssumption DEF IInv, TypeOK, RowsInv, Types
  <1>1. CASE UNCHANGED <<object, bucket, rows>>
    BY <1>1
  <1>2. ASSUME NEW c \in Call, Sync(c) PROVE RowsInv'
    BY <1>2 DEF Sync, NamesDurable, Object
  <1>3. ASSUME NEW c \in Call, Rename(c) PROVE RowsInv'
    <2>1. temp[c].bytes = "whole" /\ call[c].content \in Content
      BY <1>3 DEF Rename, At, RenamesAreSynced, CallsHaveContent
    <2>2. \A d \in Content \ {call[c].content} : object'[d] = object[d]
      BY <1>3 DEF Rename
    <2>3. LET o == object[call[c].content]
              p == object'[call[c].content]
          IN p.bytes = "whole" /\ p.old = IF o.named THEN o.bytes ELSE o.old
      BY <1>3, <2>1 DEF Rename
    <2> QED
      BY <1>3, <2>1, <2>2, <2>3 DEF Rename
  <1>4. ASSUME NEW c \in Call, Send(c) PROVE RowsInv'
    BY <1>4 DEF Send, disk
  <1>5. ASSUME NEW c \in Call, Insert(c) PROVE RowsInv'
    <2>1. call[c].content \in Content
      BY <1>5 DEF Insert, At, CallsHaveContent
    <2>2. /\ backend = "filesystem-cas" => object[call[c].content].bytes = "whole"
          /\ backend = "s3" => call[c].content \in bucket
      BY <1>5 DEF Insert, At, CallsInv
    <2>3. \A d \in Content : object'[d].bytes = object[d].bytes /\ object'[d].named
      BY <1>5 DEF Insert, NamesDurable, Object
    <2>4. /\ rows' = [rows EXCEPT ![call[c].content] = IF @ = None THEN backend ELSE @]
          /\ bucket' = bucket
      BY <1>5 DEF Insert
    <2>5. ASSUME NEW d \in Content, rows'[d] = rows[d]
          PROVE  /\ rows'[d] = "filesystem-cas" =>
                       /\ object'[d].bytes = "whole"
                       /\ object'[d].named \/ object'[d].old = "whole"
                 /\ rows'[d] = "s3" => d \in bucket'
      BY <2>3, <2>4, <2>5
    <2>6. ASSUME rows'[call[c].content] = backend
          PROVE  /\ rows'[call[c].content] = "filesystem-cas" =>
                       /\ object'[call[c].content].bytes = "whole"
                       /\ object'[call[c].content].named
                 /\ rows'[call[c].content] = "s3" => call[c].content \in bucket'
      BY <2>1, <2>2, <2>3, <2>4, <2>6
    <2>7. \A d \in Content : rows'[d] = rows[d] \/ (d = call[c].content /\ rows'[d] = backend)
      BY <2>1, <2>4
    <2> QED
      BY <2>5, <2>6, <2>7
  <1>6. CASE PowerFailure
    <2>1. PICK b \in [Content -> Bytes] :
            /\ \A d \in Content : b[d] \in Survives(object[d]) \cup
                                   (IF object[d].named THEN {} ELSE {object[d].old})
            /\ object' = [d \in Content |-> [bytes |-> b[d], synced |-> b[d] # "absent",
                                             named |-> TRUE, old |-> "absent"]]
      BY <1>6 DEF PowerFailure
    <2>2. ASSUME NEW d \in Content, rows[d] = "filesystem-cas" PROVE b[d] = "whole"
      <3>1. object[d].bytes = "whole"
        BY <2>2
      <3>2. object[d].synced
        BY <3>1, Zenon DEF DiskInv
      <3>3. Survives(object[d]) = {"whole"}
        BY <3>1, <3>2 DEF Survives
      <3>4. object[d].named \/ object[d].old = "whole"
        BY <2>2, Zenon DEF RowsInv
      <3> QED
        BY <2>1, <3>3, <3>4
    <2> QED
      BY <1>6, <2>1, <2>2 DEF PowerFailure
  <1>7. ASSUME NEW c \in Call, Put(c) PROVE RowsInv'
    BY <1>7, <1>1, <1>2, <1>3, <1>4, <1>5 DEF Put, Stage, Create, Write, RenameRefused,
       PutFails, Verify, Confirm, Refuse, disk
  <1>8. CASE ~ \E c \in Call : Put(c)
    BY <1>8, <1>1, <1>6 DEF Next, vars, disk, Get, Abandon, Upload, Begin, Read, Crash, Restart
  <1> QED
    BY <1>7, <1>8

\* What a call has stored or found stays so until it uses it.
LEMMA NextCallsInv == IInv /\ [Next]_vars => CallsInv'
  <1> SUFFICES ASSUME IInv, [Next]_vars PROVE CallsInv'
    OBVIOUS
  <1> USE ConstantAssumption DEF IInv, TypeOK, CallsInv, Types
  <1>1. CASE UNCHANGED vars
    BY <1>1 DEF vars, disk
  <1>2. ASSUME NEW c \in Call, NEW d \in Content, Upload(c, d) PROVE CallsInv'
    BY <1>2 DEF Upload, Begin, At, disk
  <1>3. ASSUME NEW c \in Call, NEW d \in Content, Read(c, d) PROVE CallsInv'
    BY <1>3 DEF Read, At, disk
  <1>4. ASSUME NEW c \in Call, Stage(c) PROVE CallsInv'
    BY <1>4 DEF Stage, Goto, At, disk
  <1>5. ASSUME NEW c \in Call, Create(c) PROVE CallsInv'
    BY <1>5 DEF Create, Goto, At
  <1>6. ASSUME NEW c \in Call, Write(c) PROVE CallsInv'
    BY <1>6 DEF Write, Goto, At
  <1>7. ASSUME NEW c \in Call, Sync(c) PROVE CallsInv'
    BY <1>7 DEF Sync, NamesDurable, Object, CallsHaveContent, Goto, At
  <1>8. ASSUME NEW c \in Call, Rename(c) PROVE CallsInv'
    BY <1>8 DEF Rename, RenamesAreSynced, CallsHaveContent, Object, Goto, At
  <1>9. ASSUME NEW c \in Call, RenameRefused(c) PROVE CallsInv'
    BY <1>9 DEF RenameRefused, Goto, At
  <1>10. ASSUME NEW c \in Call, PutFails(c) PROVE CallsInv'
    BY <1>10 DEF PutFails, Goto
  <1>11. ASSUME NEW c \in Call, Verify(c) PROVE CallsInv'
    <2>1. CASE object[call[c].content].bytes = "whole" /\ c \notin gone
      <3>1. /\ backend # "s3"
            /\ call' = [call EXCEPT ![c].pc = "insert"]
        BY <1>11, <2>1 DEF Verify, Goto, At, PutsInv, Putting
      <3> QED
        BY <1>11, <2>1, <3>1 DEF Verify, disk
    <2>2. CASE ~ (object[call[c].content].bytes = "whole" /\ c \notin gone)
      <3>1. call' = [call EXCEPT ![c].pc = "failed"]
        BY <1>11, <2>2 DEF Verify, Goto
      <3> QED
        BY <1>11, <3>1 DEF Verify, disk
    <2> QED
      BY <2>1, <2>2
  <1>12. ASSUME NEW c \in Call, Send(c) PROVE CallsInv'
    <2>1. backend = "s3" /\ bucket \subseteq bucket' /\ UNCHANGED <<object, rows, backend>>
      BY <1>12 DEF Send, At, PutsInv, disk
    <2>2. CASE call' = [call EXCEPT ![c].pc = "insert"] /\ call[c].content \in bucket'
      BY <2>1, <2>2
    <2>3. CASE call' = [call EXCEPT ![c].pc = "confirm"]
      BY <2>1, <2>3
    <2> QED
      BY <1>12, <2>2, <2>3 DEF Send, Goto
  <1>13. ASSUME NEW c \in Call, Confirm(c) PROVE CallsInv'
    <2>1. backend = "s3" /\ UNCHANGED <<object, bucket, rows, backend>>
      BY <1>13 DEF Confirm, At, PutsInv, disk
    <2>2. CASE call' = [call EXCEPT ![c].pc = "insert"] /\ call[c].content \in bucket
      BY <2>1, <2>2
    <2>3. CASE call' = [call EXCEPT ![c].pc = "failed"]
      BY <2>1, <2>3
    <2> QED
      BY <1>13, <2>2, <2>3 DEF Confirm, Goto
  <1>14. ASSUME NEW c \in Call, Insert(c) PROVE CallsInv'
    BY <1>14 DEF Insert, NamesDurable, Object, CallsHaveContent, Goto, At
  <1>15. ASSUME NEW c \in Call, Refuse(c) PROVE CallsInv'
    BY <1>15 DEF Refuse, Goto, At, disk
  <1>16. ASSUME NEW c \in Call, Get(c) PROVE CallsInv'
    <2>1. /\ call[c].content \in Content
          /\ rows[call[c].content] = backend
          /\ backend \in Backend
      BY <1>16 DEF Get, At, CallsHaveContent
    <2>2. Stored(call[c].content, backend)
      BY <2>1 DEF RowsInv, Stored, Backend
    <2>3. PICK pc \in {"loaded", "failed"} : call' = [call EXCEPT ![c].pc = pc]
      BY <1>16, <2>2 DEF Get, Goto
    <2> QED
      BY <1>16, <2>3 DEF Get, disk
  <1>17. ASSUME NEW c \in Call, Abandon(c) PROVE CallsInv'
    BY <1>17 DEF Abandon, Goto, disk
  <1>18. CASE Crash
    BY <1>18 DEF Crash, Stop, Ended
  <1>19. CASE PowerFailure
    BY <1>19 DEF PowerFailure, Stop, Ended
  <1>20. CASE Restart
    BY <1>20 DEF Restart, disk, NothingRunsWhenDown, Ended
  <1> QED
    BY <1>1, <1>2, <1>3, <1>4, <1>5, <1>6, <1>7, <1>8, <1>9, <1>10, <1>11, <1>12,
       <1>13, <1>14, <1>15, <1>16, <1>17, <1>18, <1>19, <1>20 DEF Next, Put

-----------------------------------------------------------------------------
(* Theorems *)

\* The invariant holds in every state.
LEMMA InvariantHolds == Spec => []IInv
  <1>1. Init => IInv
    <2>1. Init => DiskInv /\ RowsInv
      BY ConstantAssumption DEF Init, DiskInv, RowsInv, Backend
    <2>2. Init => PutsInv /\ CallsInv
      BY DEF Init, PutsInv, CallsInv, Putting
    <2> QED
      BY InitType, <2>1, <2>2 DEF IInv
  <1>2. IInv /\ [Next]_vars => IInv'
    BY NextTypes, NextCallsHaveContent, NextNothingRunsWhenDown, NextRenamesAreSynced,
       NextDiskInv, NextPutsInv, NextRowsInv, NextCallsInv DEF IInv, TypeOK
  <1> QED
    BY <1>1, <1>2, PTL DEF Spec

\* The state of the storage has its type, no call runs while the server is down,
\* and no put renames a file before it is synced.
THEOREM StorageTypes == Spec => []TypeOK
  <1>1. IInv => TypeOK
    BY DEF IInv
  <1> QED
    BY <1>1, InvariantHolds, PTL

\* Every file under a digest is whole, after any interleaving of puts, errors,
\* crashes and power failures.
THEOREM WholeObjects == Spec => []ObjectsAreWhole
  <1>1. IInv => ObjectsAreWhole
    BY DEF IInv, DiskInv, ObjectsAreWhole
  <1> QED
    BY <1>1, InvariantHolds, PTL

\* What a row names is stored, and no reader finds it missing.
THEOREM StoredIsKept == Spec => []NoDataLoss
  <1>1. IInv => NoDataLoss
    <2> SUFFICES ASSUME IInv PROVE NoDataLoss
      OBVIOUS
    <2>1. ASSUME NEW d \in Content, rows[d] # None PROVE Stored(d, rows[d])
      <3>1. rows[d] \in Backend
        BY <2>1 DEF IInv, TypeOK, Types
      <3> QED
        BY <3>1 DEF IInv, RowsInv, Stored
    <2> QED
      BY <2>1 DEF IInv, CallsInv, NoDataLoss
  <1> QED
    BY <1>1, InvariantHolds, PTL

-----------------------------------------------------------------------------
(* Temporary files *)

\* A temporary file is there only between its creation and the end of its put,
\* or when a crash has ended the put in between.
TempInv == \A c \in Call : temp[c].bytes # "absent" =>
                call[c].pc \in {"write", "sync", "rename", "crashed"}

\* No step leaves a temporary file behind: the rename and both of its failures
\* remove it, and only a crash takes a put from between.
LEMMA NextTempInv == TypeOK /\ TempInv /\ [Next]_vars => TempInv'
  <1> SUFFICES ASSUME TypeOK, TempInv, [Next]_vars PROVE TempInv'
    OBVIOUS
  <1> USE DEF TypeOK, Types, TempInv
  <1>1. CASE UNCHANGED vars
    BY <1>1 DEF vars, disk
  <1>2. ASSUME NEW c \in Call, NEW d \in Content, Upload(c, d) \/ Read(c, d) PROVE TempInv'
    BY <1>2 DEF Upload, Begin, Read, At, disk
  <1>3. ASSUME NEW c \in Call,
               \/ Stage(c) \/ Verify(c) \/ Send(c) \/ Confirm(c) \/ Insert(c)
               \/ Refuse(c) \/ Get(c)
        PROVE  TempInv'
    <2>1. temp' = temp
      BY <1>3 DEF Stage, Verify, Send, Confirm, Insert, Refuse, Get, disk
    <2>2. call[c].pc \in {"stage", "verify", "send", "confirm", "insert", "get"}
      BY <1>3 DEF Stage, Verify, Send, Confirm, Insert, Refuse, Get, At
    <2>3. \A b \in Call \ {c} : call'[b] = call[b]
      BY <1>3 DEF Stage, Verify, Send, Confirm, Insert, Refuse, Get, Goto
    <2> QED
      BY <2>1, <2>2, <2>3
  <1>4. ASSUME NEW c \in Call, Create(c) \/ Write(c) \/ Sync(c) PROVE TempInv'
    BY <1>4 DEF Create, Write, Sync, Goto, At
  <1>5. ASSUME NEW c \in Call, Rename(c) \/ RenameRefused(c) \/ PutFails(c) PROVE TempInv'
    BY <1>5 DEF Rename, RenameRefused, PutFails, Goto, At, NoFile
  <1>6. ASSUME NEW c \in Call, Abandon(c) PROVE TempInv'
    BY <1>6 DEF Abandon, Goto, disk
  <1>7. CASE Crash
    BY <1>7 DEF Crash, Stop, disk, Ended
  <1>8. CASE PowerFailure
    <2>1. \A c \in Call : temp'[c].bytes # "absent" => temp[c].bytes # "absent"
      BY <1>8 DEF PowerFailure, Survives
    <2> QED
      BY <1>8, <2>1 DEF PowerFailure, Stop, Ended
  <1>9. CASE Restart
    BY <1>9 DEF Restart, disk
  <1> QED
    BY <1>1, <1>2, <1>3, <1>4, <1>5, <1>6, <1>7, <1>8, <1>9 DEF Next, Put

\* Whatever fails, is abandoned or races another put: a temporary file outlives
\* its put only by a crash.
THEOREM TemporariesEnd == Spec => []OnlyCrashesLeaveTemporaries
  <1>1. Init => TempInv
    BY DEF Init, TempInv, NoFile
  <1>2. TypeOK /\ TempInv /\ [Next]_vars => TempInv'
    BY NextTempInv
  <1>3. TempInv => OnlyCrashesLeaveTemporaries
    BY DEF TempInv, OnlyCrashesLeaveTemporaries, Putting
  <1> QED
    BY <1>1, <1>2, <1>3, StorageTypes, PTL DEF Spec
=============================================================================
