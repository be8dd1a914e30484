--------------------------- MODULE ConvertFileProofs --------------------------
(***************************************************************************)
(* Proofs about convert_file() as a whole.  The writer in it takes only    *)
(* steps of ParquetWriter, so its invariant, proved there, holds here too; *)
(* what is added is what ties the writer to the records it is fed.         *)
(***************************************************************************)
EXTENDS ConvertFile, FiniteSetTheorems, TLAPS

WP == INSTANCE ParquetWriterProofs WITH AllowReclose <- FALSE

\* The types of what the writer does not know.
FileTypes ==
  /\ total \in Nat /\ whole \in BOOLEAN /\ limit \in Nat /\ given \in Nat
  /\ source \in {"open", "done", "failed"}
  /\ fpc \in {"parse", "try", "rename", "cleanup", "report", "failed"}
  /\ out \in {"none", "old", "new"} /\ tmp \in BOOLEAN

\* Every record given has been accepted or skipped.
Fed == given = accepted + skipped

\* The limit ends the source as soon as it is reached, and otherwise nothing
\* but the end of a whole content does.
Limited ==
  /\ given <= total
  /\ source = "open" /\ limit # 0 => given < limit
  /\ source = "done" => IF limit # 0 /\ limit <= total THEN given = limit
                        ELSE given = total /\ whole

\* close() is only called when the source is done, and a file is completed by
\* close() only; what it reports is the number of a completed file.
ClosePlaces == {"close_null", "close_join", "finalize", "closed"}
Closing ==
  /\ pc \in ClosePlaces => closed
  /\ closed => source = "done" /\ records = given
  /\ sink = "complete" => closed
  /\ reported # -1 => sink = "complete"

\* What is renamed is complete, and what was renamed stays as it is.
Renamed ==
  /\ fpc \in {"rename", "report"} => sink = "complete"
  /\ out = "new" => fpc = "report"

\* From its construction to the rename, the writer's file is there; outside the
\* try block there is no writer.
Opened ==
  /\ fpc = "parse" => pc = "start"
  /\ fpc # "try" => pc \in {"start", "gone"}
  /\ pc = "start" => sink = "none"
  /\ sink = "none" => pc \in {"start", "gone"}
  /\ fpc \in {"parse", "try"} => leaked = 0
  /\ fpc \in {"try", "rename"} /\ sink # "none" => tmp

Inv == WP!Inv /\ FileTypes /\ Fed /\ Limited /\ Closing /\ Renamed /\ Opened

\* What the proofs about the writer assume of the constants.
LEMMA WriterConstants ==
  /\ Null \notin WP!Batch /\ Depth \in Nat \ {0} /\ BatchRows \in Nat \ {0}
  /\ MaxRecords \in Nat /\ FALSE \in BOOLEAN
BY NullAssumption, FileAssumption DEF Batch, WP!Batch

\* The writer starts in its invariant.
LEMMA WriterInit == WP!Init => WP!Inv
BY WP!InitInv, WriterConstants

\* Its steps keep it.
LEMMA WriterInvStep == WP!Inv /\ [WP!Next]_(WP!vars) => WP!Inv'
BY WP!InvStep, WriterConstants

\* The writer of convert_file() and the writer the proofs are about take the
\* same steps.
LEMMA SameSteps ==
  /\ W!Construct => WP!Construct
  /\ W!ConstructFails => WP!ConstructFails
  /\ W!AppendRow => WP!AppendRow
  /\ W!AppendOther => WP!AppendOther
  /\ W!AppendThrows => WP!AppendThrows
  /\ W!PushBatch => WP!PushBatch
  /\ W!Close => WP!Close
  /\ W!CloseNull => WP!CloseNull
  /\ W!CloseJoin => WP!CloseJoin
  /\ W!Finalize => WP!Finalize
  /\ W!FinalizeFails => WP!FinalizeFails
  /\ W!Destroy => WP!Destroy
  /\ W!DestroyNull => WP!DestroyNull
  /\ W!DestroyJoin => WP!DestroyJoin
  /\ W!Writer => WP!Writer
<1> USE DEF W!builderVars, WP!builderVars, W!countVars, WP!countVars, W!resultVars, WP!resultVars,
            W!producerVars, WP!producerVars, W!writerVars, WP!writerVars
<1>1. W!Construct => WP!Construct
  BY DEF W!Construct, WP!Construct
<1>2. W!ConstructFails => WP!ConstructFails
  BY DEF W!ConstructFails, WP!ConstructFails
<1>3. W!AppendRow => WP!AppendRow
  BY DEF W!AppendRow, WP!AppendRow, W!CanAppend, WP!CanAppend, W!RaisesFailure,
         WP!RaisesFailure, W!FlushDue, WP!FlushDue, W!flush, WP!flush,
         W!FinishSucceeds, WP!FinishSucceeds, W!FinishFails, WP!FinishFails,
         W!FinishLeaving, WP!FinishLeaving
<1>4. W!AppendOther => WP!AppendOther
  BY DEF W!AppendOther, WP!AppendOther, W!CanAppend, WP!CanAppend, W!RaisesFailure,
         WP!RaisesFailure
<1>5. W!AppendThrows => WP!AppendThrows
  BY DEF W!AppendThrows, WP!AppendThrows, W!CanAppend, WP!CanAppend
<1>6. W!PushBatch => WP!PushBatch
  BY DEF W!PushBatch, WP!PushBatch, W!try_push, WP!try_push
<1>7. W!Close => WP!Close
  BY DEF W!Close, WP!Close, W!flush, WP!flush, W!FinishSucceeds, WP!FinishSucceeds,
         W!FinishFails, WP!FinishFails, W!FinishLeaving, WP!FinishLeaving
<1>8. W!CloseNull => WP!CloseNull
  BY DEF W!CloseNull, WP!CloseNull, W!try_push, WP!try_push
<1>9. W!CloseJoin => WP!CloseJoin
  BY DEF W!CloseJoin, WP!CloseJoin
<1>10. W!Finalize => WP!Finalize
  BY DEF W!Finalize, WP!Finalize, W!RaisesFailure, WP!RaisesFailure
<1>11. W!FinalizeFails => WP!FinalizeFails
  BY DEF W!FinalizeFails, WP!FinalizeFails
<1>12. W!Destroy => WP!Destroy
  BY DEF W!Destroy, WP!Destroy, W!MustJoin, WP!MustJoin, W!Dropped, WP!Dropped
<1>13. W!DestroyNull => WP!DestroyNull
  BY DEF W!DestroyNull, WP!DestroyNull, W!try_push, WP!try_push
<1>14. W!DestroyJoin => WP!DestroyJoin
  BY DEF W!DestroyJoin, WP!DestroyJoin, W!Dropped, WP!Dropped
<1>15. W!Writer => WP!Writer
  <2>1. W!Pop => WP!Pop
    BY DEF W!Pop, WP!Pop, W!try_pop, WP!try_pop
  <2>2. W!WriteSucceeds => WP!WriteSucceeds
    BY DEF W!WriteSucceeds, WP!WriteSucceeds, W!num_rows, WP!num_rows
  <2>3. W!WriteFails => WP!WriteFails
    BY DEF W!WriteFails, WP!WriteFails
  <2>4. W!Publish => WP!Publish
    BY DEF W!Publish, WP!Publish, W!Drops, WP!Drops
  <2> QED BY <2>1, <2>2, <2>3, <2>4 DEF W!Writer, WP!Writer
<1> QED BY <1>1, <1>2, <1>3, <1>4, <1>5, <1>6, <1>7, <1>8, <1>9, <1>10, <1>11, <1>12, <1>13,
           <1>14, <1>15

\* The steps outside the try block leave the writer and the source alone.
LEMMA OutsideMoves ==
  ASSUME Parse \/ ParseThrows \/ Unwind \/ Cleanup \/ Rename \/ RenameThrows
  PROVE  UNCHANGED <<writerVars, sourceVars, records>>
BY DEF Parse, ParseThrows, Unwind, Cleanup, Rename, RenameThrows, Steps, fileVars

\* Every step is one of the writer or leaves the writer alone.
LEMMA WriterMoves == [Next]_vars => [WP!Next]_(WP!vars)
<1> SUFFICES ASSUME [Next]_vars PROVE [WP!Next]_(WP!vars)
  OBVIOUS
<1>1. ASSUME UNCHANGED writerVars PROVE UNCHANGED WP!vars
  BY <1>1 DEF writerVars, WP!vars, WP!producerVars, WP!writerVars, WP!builderVars,
     WP!countVars, WP!resultVars
<1>2. CASE Parse \/ ParseThrows \/ Unwind \/ Cleanup \/ Rename \/ RenameThrows
  BY <1>1, <1>2, OutsideMoves
<1>3. CASE Drained \/ Over \/ UNCHANGED vars
  BY <1>1, <1>3 DEF Drained, Over, vars
<1>4. CASE OpenWriter \/ Feed \/ FeedThrows \/ Close \/ Continue \/ WriterThread
  BY <1>4, SameSteps DEF OpenWriter, Feed, FeedThrows, Close, Continue, WriterThread,
     WP!Next, WP!Producer
<1> QED BY <1>2, <1>3, <1>4 DEF Next, Caller

\* Once its file is open, what the writer does by itself: it neither accepts a
\* row nor skips one, and completes the file at the end of close() only.
LEMMA ContinueMoves ==
  ASSUME Continue \/ WriterThread
  PROVE  /\ UNCHANGED <<accepted, skipped, closed, sourceVars, records, fpc, out, tmp, leaked>>
         /\ pc \notin {"start", "gone"} \/ UNCHANGED pc
         /\ pc' # "start" \/ UNCHANGED pc
         /\ pc' \in ClosePlaces => pc \in ClosePlaces \/ closed
         /\ \/ UNCHANGED <<sink, reported>>
            \/ pc = "finalize" /\ sink' = "complete"
            \/ sink = "open" /\ reported' = reported /\ sink' = "incomplete"
<1> USE DEF W!builderVars, W!countVars, W!resultVars, W!producerVars, W!writerVars,
            ClosePlaces
<1>1. UNCHANGED <<sourceVars, records, fpc, out, tmp, leaked>>
  BY DEF Continue, WriterThread, Inside, Trying
<1>2. CASE W!PushBatch
  BY <1>1, <1>2 DEF W!PushBatch
<1>3. CASE W!CloseNull \/ W!CloseJoin
  BY <1>1, <1>3 DEF W!CloseNull, W!CloseJoin
<1>4. CASE W!Finalize \/ W!FinalizeFails
  BY <1>1, <1>4 DEF W!Finalize, W!FinalizeFails
<1>5. CASE W!Destroy \/ W!DestroyNull \/ W!DestroyJoin
  BY <1>1, <1>5 DEF W!Destroy, W!DestroyNull, W!DestroyJoin, W!Dropped
<1>6. CASE W!Writer
  BY <1>1, <1>6 DEF W!Writer, W!Pop, W!WriteSucceeds, W!WriteFails, W!Publish, W!Drops
<1> QED BY <1>2, <1>3, <1>4, <1>5, <1>6 DEF Continue, WriterThread

\* What a row, or a record of another schema, does to the counts.
LEMMA FeedMoves ==
  ASSUME W!TypeOK, W!AppendRow \/ W!AppendOther
  PROVE  /\ accepted' + skipped' = accepted + skipped + 1 /\ pc = "idle"
         /\ pc' \notin ClosePlaces \cup {"start"} /\ UNCHANGED <<closed, sink, reported>>
<1> USE DEF W!builderVars, W!countVars, W!resultVars, ClosePlaces, W!CanAppend
<1>1. CASE W!AppendRow
  BY <1>1 DEF W!AppendRow, W!flush, W!FinishSucceeds, W!FinishFails, W!FinishLeaving, W!TypeOK
<1>2. CASE W!AppendOther
  BY <1>2 DEF W!AppendOther, W!TypeOK
<1> QED BY <1>1, <1>2

\* The initial states satisfy the invariant.
LEMMA InitInv == Init => Inv
<1> SUFFICES ASSUME Init PROVE Inv
  OBVIOUS
<1>1. WP!Inv
  BY WriterInit DEF Init, W!Init, WP!Init
<1>2. FileTypes /\ Limited
  BY FileAssumption DEF Init, FileTypes, Limited
<1>3. Fed /\ Closing /\ Renamed /\ Opened
  BY DEF Init, W!Init, Fed, Closing, ClosePlaces, Renamed, Opened
<1> QED BY <1>1, <1>2, <1>3 DEF Inv

\* Every step of either thread keeps the invariant.
LEMMA InvStep == Inv /\ [Next]_vars => Inv'
<1> SUFFICES ASSUME Inv, [Next]_vars PROVE Inv'
  OBVIOUS
<1> USE DEF sourceVars
<1>1. WP!Inv'
  BY WriterMoves, WriterInvStep DEF Inv
<1>2. W!TypeOK /\ accepted \in Nat /\ skipped \in Nat
  BY DEF Inv, WP!Inv, WP!TypeOK, W!TypeOK, WP!ProducerStates, W!ProducerStates,
     WP!WriterStates, W!WriterStates, WP!Batch, W!Batch
<1> SUFFICES FileTypes' /\ Fed' /\ Limited' /\ Closing' /\ Renamed' /\ Opened'
  BY <1>1 DEF Inv
<1>3. CASE Parse \/ ParseThrows \/ Unwind \/ Cleanup \/ Rename \/ RenameThrows
  <2>1. UNCHANGED <<writerVars, sourceVars, records>>
    BY <1>3, OutsideMoves
  <2>2. Fed' /\ Limited' /\ Closing'
    BY <2>1 DEF Inv, Fed, Limited, Closing, writerVars
  <2>3. FileTypes' /\ Renamed'
    BY <1>3, <2>1 DEF Inv, FileTypes, Renamed, Closing, Parse, ParseThrows, Unwind, Cleanup,
       Rename, RenameThrows, Steps, Renames, fileVars, writerVars
  <2>4. Opened'
    BY <1>3, <2>1 DEF Inv, Opened, Parse, ParseThrows, Unwind, Cleanup, Rename, RenameThrows,
       Steps, fileVars, writerVars
  <2> QED BY <2>2, <2>3, <2>4
<1>4. CASE OpenWriter
  <2>1. /\ UNCHANGED <<accepted, skipped, closed, reported, sourceVars, records, fpc, out>>
        /\ pc = "start" /\ pc' \in {"idle", "gone"} /\ fpc = "try"
    BY <1>4 DEF OpenWriter, Trying, W!Construct, W!ConstructFails, W!builderVars, W!countVars
  <2>2. tmp' \in BOOLEAN
    BY <1>4, Zenon DEF OpenWriter
  <2>3. ~closed
    BY <2>1 DEF Inv, WP!Inv, WP!Builder
  <2>4. sink' # "complete"
    BY <1>4 DEF OpenWriter, W!Construct, W!ConstructFails
  <2>5. FileTypes' /\ Fed' /\ Limited'
    BY <2>1, <2>2 DEF Inv, FileTypes, Fed, Limited
  <2>6. Closing' /\ Renamed'
    BY <2>1, <2>3, <2>4 DEF Inv, Closing, ClosePlaces, Renamed
  <2>7. (sink = "none" => pc = "gone")'
    BY <1>4 DEF OpenWriter, W!Construct, W!ConstructFails
  <2>8. (sink # "none" => tmp)' /\ leaked' = leaked
    BY <1>4, Zenon DEF OpenWriter, Trying
  <2>9. Opened'
    BY <2>1, <2>7, <2>8 DEF Inv, Opened
  <2> QED BY <2>5, <2>6, <2>9
<1>5. CASE Feed
  <2>1. S!Give /\ UNCHANGED <<fpc, out, tmp, records>>
    BY <1>5 DEF Feed, Inside, Trying
  <2>2. /\ accepted' + skipped' = accepted + skipped + 1
        /\ pc' \notin ClosePlaces \cup {"start"} /\ UNCHANGED <<closed, sink, reported>>
    BY <1>2, <1>5, FeedMoves DEF Feed
  <2>3. FileTypes' /\ Fed' /\ Limited' /\ Closing' /\ Renamed'
    BY <1>2, <2>1, <2>2 DEF Inv, FileTypes, Fed, Limited, Closing, Renamed, S!Give, S!contentVars
  <2>4. pc = "idle" /\ fpc = "try" /\ leaked' = leaked
    BY <1>2, <1>5, FeedMoves DEF Feed, Inside, Trying
  <2> QED BY <2>1, <2>2, <2>3, <2>4 DEF Inv, Opened
<1>6. CASE FeedThrows
  BY <1>6 DEF Inv, FeedThrows, Inside, Trying, S!Fail, S!contentVars, W!AppendThrows,
     W!CanAppend, W!builderVars, W!countVars, W!resultVars, FileTypes, Fed, Limited, Closing,
     ClosePlaces, Renamed, Opened
<1>7. CASE Drained
  <2>1. UNCHANGED <<writerVars, fpc, out, tmp, leaked, records, total, whole, limit, given>>
    BY <1>7 DEF Drained, Inside, Trying, S!Finish, S!Fail, S!contentVars
  <2>2. source = "open" /\ \/ source' = "failed"
                           \/ source' = "done" /\ given = total /\ whole
    BY <1>7 DEF Drained, S!Finish, S!Fail
  <2> QED BY <2>1, <2>2 DEF Inv, FileTypes, Fed, Limited, Closing, Renamed, Opened, writerVars
<1>8. CASE Close
  BY <1>8 DEF Inv, Close, Trying, AtEnd, W!Close, W!flush, W!FinishSucceeds, W!FinishFails,
     W!FinishLeaving, W!builderVars, W!countVars, FileTypes, Fed, Limited, Closing,
     ClosePlaces, Renamed, Opened
<1>9. CASE Continue \/ WriterThread
  <2>1. FileTypes' /\ Fed' /\ Limited'
    BY <1>9, ContinueMoves DEF Inv, FileTypes, Fed, Limited
  <2>2. Closing' /\ Renamed'
    BY <1>9, ContinueMoves DEF Inv, Closing, Renamed, ClosePlaces
  <2>3. Opened'
    BY <1>9, ContinueMoves DEF Inv, Opened
  <2> QED BY <2>1, <2>2, <2>3
<1>10. CASE Over \/ UNCHANGED vars
  BY <1>10 DEF Over, vars, writerVars, fileVars, Inv, FileTypes, Fed, Limited, Closing, Renamed,
     Opened
<1> QED BY <1>3, <1>4, <1>5, <1>6, <1>7, <1>8, <1>9, <1>10 DEF Next, Caller

\* convert_file() keeps its invariant, whatever fails in whichever thread.
THEOREM FileInv == Spec => []Inv
BY InitInv, InvStep, PTL DEF Spec

\* Through the decoder's promise, both threads and the rename: a new output has
\* the rows of exactly the records asked for.
THEOREM OutputCorrect == Spec => []OutputFaithful
<1>1. Inv => OutputFaithful
  <2> SUFFICES ASSUME Inv, out = "new" PROVE
        /\ sink = "complete" /\ Linked(file, Len(file), 0, accepted)
        /\ reported = accepted /\ records = accepted + skipped
        /\ IF limit # 0 /\ limit <= total THEN records = limit
           ELSE records = total /\ whole
    BY DEF OutputFaithful
  <2>1. sink = "complete" /\ source = "done" /\ records = given
    BY DEF Inv, Renamed, Closing
  <2>2. Linked(file, Len(file), 0, accepted) /\ reported = accepted
    BY <2>1 DEF Inv, WP!Inv, WP!RowsInOrder, WP!Completion, WP!Linked, Linked
  <2> QED BY <2>1, <2>2 DEF Inv, Fed, Limited
<1> QED BY <1>1, FileInv, PTL

\* The temporary file is renamed or removed, and the conversion reported, only
\* when no thread writes to it any more and no batch is left.
NobodyWriting ==
  fpc \in {"rename", "cleanup", "report", "failed"} =>
    wpc \in {"unborn", "exited"} /\ item = Null /\ queue = << >>

\* Wherever an exception leaves the try block, the writer's thread has ended
\* before convert_file() touches the temporary file.
THEOREM ThreadEnded == Spec => []NobodyWriting
<1>1. Inv => NobodyWriting
  BY DEF Inv, Opened, NobodyWriting, WP!Inv, WP!Pill, WP!Hands
<1> QED BY <1>1, FileInv, PTL

\* Under convert_file() too, a full queue or a join never stops both threads:
\* the source feeds the writer, fails or ends at any record, and close() or the
\* destructor meets a thread that goes on.
THEOREM FileDeadlockFree == Spec => []WP!NoDeadlock
<1>1. WP!Inv => WP!NoDeadlock
  BY WP!NeverBothWait, WriterConstants
<1>2. Inv => WP!NoDeadlock
  BY <1>1 DEF Inv
<1> QED BY <1>2, FileInv, PTL

-------------------------------------------------------------------------------
(* convert_file() implements the conversion of ConvertTree, for one worker *)
(* and one file.                                                           *)

OutInode == CASE out = "none" -> 0 [] out = "old" -> 2 [] out = "new" -> 1
TmpInode == IF tmp THEN 1 ELSE 0
Handle == IF Place = "write" THEN 1 ELSE 0
Contents == <<Inode1, "complete", "partial">>

\* The library's Cardinality is the same in both modules.
LEMMA SameCardinality == ASSUME NEW A PROVE Tree!Cardinality(A) = Cardinality(A)
BY DEF Cardinality, Tree!Cardinality

\* There is one worker, one name and three inodes.
LEMMA TreeConstants ==
  /\ Tree!Workers = {1} /\ Tree!Inodes = {1, 2, 3}
<1>1. Tree!Cardinality({1}) = 1
  BY FS_Singleton, SameCardinality
<1> QED BY <1>1 DEF Tree!Workers, Tree!Inodes

\* Functions on one worker, or on one name.
LEMMA OneFacts ==
  ASSUME NEW x, NEW y
  PROVE  /\ One(x)[1] = x /\ [One(x) EXCEPT ![1] = y] = One(y)
         /\ {One(x)[i] : i \in {1}} = {x}
BY DEF One

\* The descriptors of a conversion: its input, and the file of its writer.
LEMMA Fds ==
  ASSUME leaked = 0
  PROVE  /\ Place = "parse" => Tree!FdLeft
         /\ Place = "open" => Tree!FdLeft
<1>1. \A w \in {1} : One(Place)[w] = Place /\ One(Handle)[w] = Handle
  BY OneFacts
<1>2. Cardinality({1}) = 1 /\ Cardinality({}) = 0
  BY FS_Singleton, FS_EmptySet
<1>3. Tree!FdsInUse = leaked + Cardinality(Tree!Holding)
                      + Cardinality({w \in {1} : One(Handle)[w] # 0})
  BY TreeConstants, SameCardinality DEF Tree!FdsInUse, Handle
<1>4. Place \in {"parse", "open"} => {w \in {1} : One(Handle)[w] # 0} = {}
  BY <1>1 DEF Handle
<1>5. Place = "parse" => Tree!Holding = {}
  BY <1>1, TreeConstants DEF Tree!Holding
<1>6. Place = "open" => Tree!Holding = {1}
  BY <1>1, TreeConstants DEF Tree!Holding
<1> QED BY <1>2, <1>3, <1>4, <1>5, <1>6 DEF Tree!FdLeft

\* The temporary file is the first inode: the output, if there is one, is the
\* second.
LEMMA FirstInode ==
  ASSUME Inv, Place = "open"
  PROVE  (IF TmpInode = 0 THEN Tree!FreshInode ELSE TmpInode) = 1
<1>1. CASE tmp
  BY <1>1 DEF TmpInode
<1>2. CASE ~tmp
  <2>1. out \in {"none", "old"}
    BY DEF Inv, FileTypes, Renamed, Place
  <2>2. OutInode \in {0, 2} /\ TmpInode = 0 /\ Handle = 0
    BY <1>2, <2>1 DEF OutInode, TmpInode, Handle
  <2>3. Tree!InUse = {TmpInode} \cup {OutInode} \cup {Handle}
    <3>1. Tree!InUse = {One(TmpInode)[o] : o \in {1}} \cup {One(OutInode)[o] : o \in {1}}
                       \cup {One(Handle)[w] : w \in Tree!Workers}
      BY DEF Tree!InUse, TmpInode, OutInode, Handle
    <3>2. {One(Handle)[w] : w \in Tree!Workers} = {One(Handle)[w] : w \in {1}}
      BY TreeConstants, Zenon
    <3> QED BY <3>1, <3>2, OneFacts, Zenon
  <2> DEFINE R == Tree!Inodes \ Tree!InUse
  <2>4. 1 \in R /\ R \subseteq {1, 2, 3}
    BY <2>2, <2>3, TreeConstants
  <2> HIDE DEF R
  <2>5. Tree!FreshInode = 1
    BY <2>4 DEF Tree!FreshInode, Tree!Min, R
  <2> QED BY <2>2, <2>5
<1> QED BY <1>1, <1>2 DEF Inv, FileTypes

\* Where the worker is, and that it moves.
LEMMA TreeMoves ==
  ASSUME NEW from, NEW to, Place = from, Place' = to
  PROVE  Tree!At(1, from) /\ Tree!Goto(1, to)
<1>1. One(Place)[1] = from /\ One(Place)' = [One(Place) EXCEPT ![1] = to]
  BY DEF One
<1> QED BY <1>1 DEF Tree!At, Tree!Goto, Tree!startVars

\* The name a worker has is the one there is.
LEMMA TreeName == Tree!Name(1) = 1
BY DEF Tree!Name, One

\* A step of the worker is a step of the tree.
LEMMA TreeWork == ASSUME Tree!Work(1) \/ Tree!Throws(1) PROVE Tree!Next
BY TreeConstants DEF Tree!Next

Plain == <<Place, leaked, TmpInode, OutInode, Inode1>>

\* The tree's variables are those of Plain.
LEMMA TreeVars ==
  /\ UNCHANGED Plain => UNCHANGED Tree!vars
  /\ UNCHANGED <<leaked, Handle, TmpInode, OutInode, Inode1>> => UNCHANGED Tree!dataVars
<1> USE DEF Tree!startVars, Tree!countVars, Tree!diskVars, Tree!logVars, Tree!dataVars
<1>1. ASSUME UNCHANGED <<leaked, Handle, TmpInode, OutInode, Inode1>>
      PROVE  UNCHANGED Tree!dataVars
  <2>1. UNCHANGED <<One(Handle), One(TmpInode), One(OutInode), Contents>>
    BY <1>1 DEF Contents, One
  <2>2. UNCHANGED <<One(1), 1, 0, leaked, {}>>
    BY <1>1
  <2> QED BY <2>1, <2>2 DEF Handle, TmpInode, OutInode, Contents
<1>2. ASSUME UNCHANGED Plain PROVE UNCHANGED Tree!vars
  <2>1. UNCHANGED <<leaked, Handle, TmpInode, OutInode, Inode1>> /\ Place' = Place
    BY <1>2 DEF Plain, Handle
  <2> QED BY <1>1, <2>1 DEF Tree!vars
<1> QED BY <1>1, <1>2

\* A step that only moves the worker.
LEMMA TreeStepOnly ==
  ASSUME NEW from, NEW to, Place = from, Place' = to, from # "write", to # "write",
         UNCHANGED <<leaked, tmp, out, Inode1>>
  PROVE  Tree!Moves(1, from, to)
<1>1. UNCHANGED <<leaked, Handle, TmpInode, OutInode, Inode1>>
  BY DEF Handle, TmpInode, OutInode
<1> QED BY <1>1, TreeVars, TreeMoves DEF Tree!Moves

\* The steps before and after the try block, and out of it.
LEMMA OutsideStep ==
  ASSUME Inv, Parse \/ ParseThrows \/ Unwind \/ Cleanup \/ Rename \/ RenameThrows
  PROVE  Tree!Next
<1>1. UNCHANGED <<writerVars, sourceVars, records>>
  BY OutsideMoves
<1>2. sink' = sink /\ reported' = reported
  BY <1>1 DEF writerVars
<1>3. CASE Parse
  <2>1. /\ fpc = "parse" /\ fpc' = "try" /\ UNCHANGED <<tmp, out, leaked>> /\ sink = "none"
        /\ leaked = 0
    BY <1>3 DEF Parse, Steps, fileVars, Inv, Opened
  <2>2. Place = "parse" /\ Place' = "open" /\ Inode1' = Inode1
    BY <1>2, <2>1 DEF Place, Inode1
  <2>3. Tree!Parse(1)
    BY <2>1, <2>2, Fds, TreeStepOnly DEF Tree!Parse
  <2> QED BY <2>3, TreeWork DEF Tree!Work
<1>4. CASE ParseThrows
  <2>1. /\ fpc = "parse" /\ fpc' = "failed" /\ UNCHANGED <<tmp, out>> /\ sink = "none"
        /\ leaked = 0 /\ leaked' \in {0, 1}
    BY <1>4 DEF ParseThrows, Steps, Inv, Opened
  <2>2. Place = "parse" /\ Place' = "failed" /\ Inode1' = Inode1
    BY <1>2, <2>1 DEF Place, Inode1
  <2>3. UNCHANGED Tree!diskVars
    BY <2>1, <2>2 DEF Tree!diskVars, One
  <2>4. Tree!ParseThrows(1)
    BY <2>1, <2>2, <2>3, Fds, TreeMoves DEF Tree!ParseThrows, Tree!logVars, One
  <2> QED BY <2>4, TreeWork DEF Tree!Throws
<1>5. CASE Unwind
  <2>1. /\ fpc = "try" /\ fpc' = IF Renames THEN "rename" ELSE "cleanup"
        /\ UNCHANGED <<tmp, out, leaked>>
    BY <1>5 DEF Unwind, Steps, fileVars
  <2>2. Renames <=> sink = "complete"
    BY DEF Inv, WP!Inv, WP!TypeOK, WP!Completion, Closing, Renames
  <2>3. /\ UNCHANGED <<One(TmpInode), One(OutInode)>>
        /\ UNCHANGED Tree!countVars /\ UNCHANGED Tree!logVars
    BY <2>1 DEF TmpInode, OutInode, Tree!countVars, Tree!logVars
  <2>4. CASE sink = "none"
    <3>1. Place = "open" /\ Place' = "cleanup" /\ Inode1' = Inode1
      BY <1>2, <2>1, <2>2, <2>4 DEF Place, Inode1
    <3>2. Tree!OpenThrows(1)
      BY <2>1, <3>1, TreeStepOnly DEF Tree!OpenThrows
    <3> QED BY <3>2, TreeWork DEF Tree!Throws
  <2>5. CASE sink = "complete"
    <3>1. /\ Place = "write" /\ Place' = "rename" /\ Inode1 = "partial"
          /\ Inode1' = "complete"
      BY <1>2, <2>1, <2>2, <2>5 DEF Place, Inode1
    <3>2. /\ Contents' = [Contents EXCEPT ![1] = IF @ = "partial" THEN "complete" ELSE @]
          /\ One(Handle)[1] = 1 /\ One(Handle)' = [One(Handle) EXCEPT ![1] = 0]
      BY <3>1 DEF Contents, Handle, One
    <3>3. Tree!Write(1)
      BY <2>3, <3>1, <3>2, TreeMoves
         DEF Tree!Write, Tree!WriterEnds, Contents, Handle, TmpInode, OutInode
    <3> QED BY <3>3, TreeWork DEF Tree!Work
  <2>6. CASE sink \notin {"none", "complete"}
    <3>1. Place = "write" /\ Place' = "cleanup" /\ Inode1' = Inode1
      BY <1>2, <2>1, <2>2, <2>6 DEF Place, Inode1
    <3>2. Contents' = Contents /\ One(Handle)' = [One(Handle) EXCEPT ![1] = 0]
      BY <3>1 DEF Contents, Handle, One
    <3>3. Tree!WriteThrows(1)
      BY <2>3, <3>1, <3>2, TreeMoves
         DEF Tree!WriteThrows, Tree!WriterEnds, Contents, Handle, TmpInode, OutInode
    <3> QED BY <3>3, TreeWork DEF Tree!Throws
  <2> QED BY <2>4, <2>5, <2>6
<1>6. CASE Cleanup
  <2>1. /\ fpc = "cleanup" /\ fpc' = "failed" /\ tmp' \in {FALSE, tmp}
        /\ UNCHANGED <<out, leaked>>
    BY <1>6 DEF Cleanup, Steps
  <2>2. Place = "cleanup" /\ Place' = "failed" /\ Inode1' = Inode1
    BY <1>2, <2>1 DEF Place, Inode1
  <2>5. One(TmpInode)' \in {One(TmpInode), [One(TmpInode) EXCEPT ![1] = 0]}
    <3>1. TmpInode' = TmpInode \/ TmpInode' = 0
      <4>1. CASE tmp' = FALSE
        BY <4>1 DEF TmpInode
      <4>2. CASE tmp' = tmp
        BY <4>2 DEF TmpInode
      <4> QED BY <2>1, <4>1, <4>2
    <3> QED BY <3>1, OneFacts DEF One
  <2>3. /\ UNCHANGED <<One(OutInode), One(Handle), Contents>>
        /\ UNCHANGED Tree!countVars /\ UNCHANGED Tree!logVars
    BY <2>1, <2>2 DEF OutInode, Handle, Contents, One, Tree!countVars, Tree!logVars
  <2>4. Tree!Cleanup(1)
    BY <2>2, <2>3, <2>5, TreeMoves, TreeName
       DEF Tree!Cleanup, Tree!Removes, Contents, Handle, TmpInode, OutInode
  <2> QED BY <2>4, TreeWork DEF Tree!Work
<1>7. CASE Rename
  <2>1. /\ fpc = "rename" /\ fpc' = "report" /\ tmp' = FALSE /\ out' = "new"
        /\ leaked' = leaked /\ tmp
    BY <1>7 DEF Rename, Steps, Inv, Opened, Renamed
  <2>2. Place = "rename" /\ Place' = "report" /\ Inode1' = Inode1
    BY <1>2, <2>1 DEF Place, Inode1
  <2>3. /\ One(TmpInode)[1] = 1 /\ One(OutInode)' = [One(OutInode) EXCEPT ![1] = 1]
        /\ One(TmpInode)' = [One(TmpInode) EXCEPT ![1] = 0]
        /\ UNCHANGED <<One(Handle), Contents>>
        /\ UNCHANGED Tree!countVars /\ UNCHANGED Tree!logVars
    BY <2>1, <2>2 DEF TmpInode, OutInode, Handle, Contents, One, Tree!countVars, Tree!logVars
  <2>5. /\ One(TmpInode)[Tree!Name(1)] # 0
        /\ One(OutInode)' = [One(OutInode) EXCEPT ![Tree!Name(1)] = One(TmpInode)[Tree!Name(1)]]
        /\ One(TmpInode)' = [One(TmpInode) EXCEPT ![Tree!Name(1)] = 0]
    <3>1. One(TmpInode)[Tree!Name(1)] = 1 /\ 1 # 0
      BY <2>3, TreeName
    <3>2. One(OutInode)' = [One(OutInode) EXCEPT ![Tree!Name(1)] = 1]
      BY <2>3, TreeName, Zenon
    <3>3. One(TmpInode)' = [One(TmpInode) EXCEPT ![Tree!Name(1)] = 0]
      BY <2>3, TreeName, Zenon
    <3> QED BY <3>1, <3>2, <3>3, Zenon
  <2>6. Tree!At(1, "rename") /\ Tree!Goto(1, "report")
    BY <2>2, TreeMoves
  <2>4. Tree!Rename(1)
    BY <2>3, <2>5, <2>6 DEF Tree!Rename, Contents, Handle, TmpInode, OutInode
  <2> QED BY <2>4, TreeWork DEF Tree!Work
<1>8. CASE RenameThrows
  <2>1. fpc = "rename" /\ fpc' = "failed" /\ UNCHANGED <<tmp, out, leaked>>
    BY <1>8 DEF RenameThrows, Steps, fileVars
  <2>2. Place = "rename" /\ Place' = "failed" /\ Inode1' = Inode1
    BY <1>2, <2>1 DEF Place, Inode1
  <2>3. Tree!RenameThrows(1)
    BY <2>1, <2>2, TreeStepOnly DEF Tree!RenameThrows
  <2> QED BY <2>3, TreeWork DEF Tree!Throws
<1> QED BY <1>3, <1>4, <1>5, <1>6, <1>7, <1>8

\* The writer's constructor opens the temporary file, or fails before it does,
\* which is not seen until the exception leaves the try block.
LEMMA OpenStep ==
  ASSUME Inv, OpenWriter
  PROVE  Tree!Next \/ UNCHANGED Tree!vars
<1>1. /\ fpc = "try" /\ UNCHANGED <<fpc, out, leaked>> /\ pc = "start"
      /\ sink' \in {"none", "open", "incomplete"}
  BY DEF OpenWriter, Trying, W!Construct, W!ConstructFails
<1>2. sink = "none" /\ leaked = 0 /\ Place = "open" /\ Inode1 = "partial" /\ Inode1' = "partial"
  BY <1>1 DEF Inv, Opened, Place, Inode1
<1>3. tmp' <=> tmp \/ sink' # "none"
  BY DEF OpenWriter
<1>4. CASE sink' = "none"
  <2>1. Place' = Place /\ TmpInode' = TmpInode
    BY <1>1, <1>2, <1>3, <1>4 DEF Place, TmpInode
  <2> QED BY <1>1, <1>2, <2>1, TreeVars DEF Plain, OutInode
<1>5. CASE sink' # "none"
  <2>1. Place' = "write" /\ TmpInode' = 1
    BY <1>1, <1>3, <1>5 DEF Place, TmpInode
  <2> DEFINE i == IF One(TmpInode)[Tree!Name(1)] = 0 THEN Tree!FreshInode
                  ELSE One(TmpInode)[Tree!Name(1)]
  <2>2. i = 1
    BY <1>2, FirstInode, OneFacts, TreeName
  <2>3. ~\E v \in Tree!Workers \ {1} : One(Handle)[v] = i
    BY TreeConstants
  <2>4. Contents' = [Contents EXCEPT ![i] = "partial"]
    BY <1>2, <2>2 DEF Contents
  <2>5. One(Handle)' = [One(Handle) EXCEPT ![1] = i]
    <3>1. Handle' = 1
      BY <2>1 DEF Handle
    <3> QED BY <2>2, <3>1, OneFacts DEF One
  <2>6. One(TmpInode)' = [One(TmpInode) EXCEPT ![Tree!Name(1)] = i]
    BY <2>1, <2>2, OneFacts, TreeName DEF One
  <2>7. UNCHANGED <<One(OutInode), One(1)>> /\ UNCHANGED Tree!countVars /\ UNCHANGED Tree!logVars
    BY <1>1 DEF OutInode, Tree!countVars, Tree!logVars
  <2>8. Tree!At(1, "open") /\ Tree!Goto(1, "write") /\ Tree!FdLeft
    BY <1>2, <2>1, TreeMoves, Fds
  <2>9. Contents' = [Contents EXCEPT ![i] =
          IF \E v \in Tree!Workers \ {1} : One(Handle)[v] = i THEN "garbled" ELSE "partial"]
    BY <2>3, <2>4, Zenon
  <2>10. Tree!Open(1)
    BY <2>5, <2>6, <2>7, <2>8, <2>9
       DEF Tree!Open, Contents, Handle, TmpInode, OutInode
  <2> QED BY <2>10, TreeWork DEF Tree!Work
<1> QED BY <1>4, <1>5

\* While the writer works, the tree sees nothing.
LEMMA InsideStep ==
  ASSUME Inv, Feed \/ FeedThrows \/ Drained \/ Close \/ Continue \/ WriterThread
  PROVE  UNCHANGED Tree!vars
<1>1. fpc = "try" /\ UNCHANGED <<fpc, out, leaked, tmp>>
  BY DEF Feed, FeedThrows, Drained, Close, Continue, WriterThread, Inside, Trying
<1>2. sink = "none" <=> sink' = "none"
  <2>1. CASE Feed
    <3>1. W!TypeOK
      BY DEF Inv, WP!Inv, WP!TypeOK, W!TypeOK, WP!ProducerStates, W!ProducerStates,
         WP!WriterStates, W!WriterStates, WP!Batch, W!Batch
    <3> QED BY <2>1, <3>1, FeedMoves DEF Feed
  <2>2. CASE FeedThrows \/ Drained \/ Close
    BY <2>2 DEF FeedThrows, Drained, Close, W!AppendThrows, W!Close, W!resultVars, writerVars
  <2>3. CASE Continue \/ WriterThread
    BY <2>3, ContinueMoves DEF Inv, Opened
  <2> QED BY <2>1, <2>2, <2>3
<1>3. Place' = Place /\ Inode1' = Inode1
  BY <1>1, <1>2 DEF Place, Inode1
<1> QED BY <1>1, <1>3, TreeVars DEF Plain, TmpInode, OutInode

\* The decoder, the writer with its two threads and the handler together do, for
\* one file, what the tree relies on.
THEOREM ConversionRefined == Spec => ImplementsConvertTree
<1>1. Inv /\ [Next]_vars => [Tree!Next]_(Tree!vars)
  <2> SUFFICES ASSUME Inv, [Next]_vars PROVE Tree!Next \/ UNCHANGED Tree!vars
    OBVIOUS
  <2>1. CASE Over \/ UNCHANGED vars
    <3>1. UNCHANGED <<fpc, sink, tmp, out, leaked>>
      BY <2>1 DEF Over, vars, writerVars, fileVars
    <3>2. Place' = Place /\ Inode1' = Inode1
      BY <3>1 DEF Place, Inode1
    <3> QED BY <3>1, <3>2, TreeVars DEF Plain, TmpInode, OutInode
  <2> QED BY <2>1, OutsideStep, OpenStep, InsideStep DEF Next, Caller
<1> QED BY <1>1, FileInv, PTL DEF Spec, ImplementsConvertTree
===============================================================================
