------------------------------ MODULE ConvertFile -----------------------------
(***************************************************************************)
(* convert_file(), composed of its parts: the records of a RecordSource    *)
(* (which DbnParser implements) are appended one by one to a threaded      *)
(* ParquetWriter, whose file is renamed to the output when close() has     *)
(* returned and removed when anything throws.  All variables of the writer *)
(* and of the source are here; its steps are theirs, in the order the code *)
(* calls them in.                                                          *)
(***************************************************************************)
EXTENDS Naturals, RowBatches

CONSTANTS Depth, BatchRows,   \* of ParquetWriter
          MaxRecords,         \* bound: records in the content
          Limits              \* the values of --limit

ASSUME FileAssumption == /\ Depth \in Nat \ {0} /\ BatchRows \in Nat \ {0}
                         /\ MaxRecords \in Nat /\ Limits \subseteq Nat

VARIABLES
  pc, joinable, rows, capacity, accepted, skipped, pending, closed, reported,
  sink, wpc, item, status, failed, file, written, queue,    \* ParquetWriter
  total, whole, limit, given, source,                       \* RecordSource
  fpc,      \* where convert_file() is; "try" is inside its try block
  tmp,      \* the file beside the output exists
  out,      \* the output: "none", "old" or "new"
  leaked,   \* descriptors nothing will close any more
  records   \* result.records

W == INSTANCE ParquetWriter WITH AllowReclose <- FALSE
S == INSTANCE RecordSource

writerVars == <<pc, joinable, rows, capacity, accepted, skipped, pending, closed,
                reported, sink, wpc, item, status, failed, file, written, queue>>
sourceVars == <<total, whole, limit, given, source>>
fileVars   == <<tmp, out, leaked, records>>
vars       == <<writerVars, sourceVars, fpc, fileVars>>

Init ==
  /\ W!Init /\ given = 0 /\ source = "open"
  /\ total \in 0 .. MaxRecords /\ whole \in BOOLEAN /\ limit \in Limits
  /\ fpc = "parse" /\ tmp \in BOOLEAN /\ out \in {"none", "old"}
  /\ leaked = 0 /\ records = 0

-------------------------------------------------------------------------------
(* Before and after the try block.                                         *)

Steps(from, to) == fpc = from /\ fpc' = to /\ UNCHANGED <<writerVars, sourceVars>>

\* The metadata is read and the directories are made, ...
Parse == Steps("parse", "try") /\ UNCHANGED fileVars

\* ... or not; the parser's constructor may have left the input open.
ParseThrows ==
  Steps("parse", "failed") /\ leaked' \in 0 .. 1 /\ UNCHANGED <<tmp, out, records>>

\* Faulty variant: the handler does not rethrow.
RenamesAlways == TRUE

\* The writer is gone.  Its file goes on to the rename if close() returned.
Renames == reported # -1

Unwind ==
  /\ pc = "gone" /\ Steps("try", IF Renames THEN "rename" ELSE "cleanup")
  /\ UNCHANGED fileVars

\* remove(tmp, ignored)
Cleanup == Steps("cleanup", "failed") /\ tmp' \in {FALSE, tmp} /\ UNCHANGED <<out, leaked, records>>

Rename == Steps("rename", "report") /\ out' = "new" /\ tmp' = FALSE /\ UNCHANGED <<leaked, records>>

RenameThrows == Steps("rename", "failed") /\ UNCHANGED fileVars

-------------------------------------------------------------------------------
(* The try block.                                                          *)

Trying == fpc = "try" /\ UNCHANGED <<fpc, out, leaked>>

\* The writer opens the temporary file, or throws before or after it has.
OpenWriter ==
  /\ Trying /\ (W!Construct \/ W!ConstructFails)
  /\ tmp' = (tmp \/ sink' # "none")
  /\ UNCHANGED <<sourceVars, records>>

Inside == Trying /\ UNCHANGED <<tmp, records>>

\* for_each_record() calls append() with the next record, ...
Feed == Inside /\ S!Give /\ (W!AppendRow \/ W!AppendOther)

\* ... which throws, ...
FeedThrows == Inside /\ given < total /\ S!Fail /\ W!AppendThrows

\* ... or it finds no further record: none is left, or none can be read.
Drained == Inside /\ pc = "idle" /\ (S!Finish \/ S!Fail) /\ UNCHANGED writerVars

\* Faulty variant: close() whatever for_each_record() did.
AtAnyEnd == source # "open"

AtEnd == source = "done"

\* for_each_record() returns the number of records, and close() is called.
Close == Trying /\ AtEnd /\ W!Close /\ records' = given /\ UNCHANGED <<sourceVars, tmp>>

\* The rest of append() and close(); the destructor, on return and on throw.
Continue ==
  /\ Inside /\ UNCHANGED sourceVars
  /\ \/ W!PushBatch \/ W!CloseNull \/ W!CloseJoin \/ W!Finalize \/ W!FinalizeFails
     \/ W!DestroyNull \/ W!DestroyJoin
     \/ (pc = "idle" => source = "failed") /\ W!Destroy

WriterThread == Inside /\ UNCHANGED sourceVars /\ W!Writer

-------------------------------------------------------------------------------
Caller == \/ Parse \/ ParseThrows \/ OpenWriter \/ Feed \/ FeedThrows \/ Drained
          \/ Close \/ Continue \/ Unwind \/ Cleanup \/ Rename \/ RenameThrows

Ended == fpc \in {"report", "failed"}

Over == Ended /\ UNCHANGED vars

Next == Caller \/ WriterThread \/ Over

Spec == Init /\ [][Next]_vars

\* The two threads keep being scheduled.
FairSpec == Spec /\ WF_vars(Caller) /\ WF_vars(WriterThread)

-------------------------------------------------------------------------------
(* Properties.                                                             *)

\* A new output holds, in order, one row for every record of the schema, up to
\* the limit or to the end of the content, and nothing of a content that broke
\* off; and the numbers reported are those of the records read and of the rows.
OutputFaithful ==
  out = "new" =>
    /\ sink = "complete" /\ Linked(file, Len(file), 0, accepted)
    /\ reported = accepted /\ records = accepted + skipped
    /\ IF limit # 0 /\ limit <= total THEN records = limit
       ELSE records = total /\ whole

\* A conversion ends, whatever fails in whichever thread.
ConversionEnds == <>Ended

-------------------------------------------------------------------------------
(* Refinement.                                                             *)

\* convert_file() as ConvertTree has it, for one worker and one file.  The
\* temporary file is inode 1 and the old output inode 2.
Place == IF fpc # "try" THEN fpc ELSE IF sink = "none" THEN "open" ELSE "write"

One(x) == [i \in {1} |-> x]
Inode1 == IF sink = "complete" /\ fpc # "try" THEN "complete" ELSE "partial"

Tree == INSTANCE ConvertTree WITH
  N <- 1, MaxJobs <- 1, Outs <- {1}, OutOf <- One(1), MaxFds <- 2, MaxRuns <- 1,
  process <- "running", runs <- 1, files <- 1, jobs <- 1, next <- 1, failed <- 0,
  leaked <- leaked, wpc <- One(Place), cur <- One(1),
  handle <- One(IF Place = "write" THEN 1 ELSE 0),
  tmp <- One(IF tmp THEN 1 ELSE 0),
  out <- One(CASE out = "none" -> 0 [] out = "old" -> 2 [] out = "new" -> 1),
  content <- <<Inode1, "complete", "partial">>,
  converted <- {}, failures <- {}

\* The writer, the source and the handler together do what convert_tree()
\* relies on: every step here is a step of convert_file() there, or none.
ImplementsConvertTree == [][Tree!Next]_(Tree!vars)
===============================================================================
