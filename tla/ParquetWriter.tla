---------------------------- MODULE ParquetWriter -----------------------------
(***************************************************************************)
(* The threaded Parquet writer.  The producer thread calls append() for    *)
(* each record, then close(), then the destructor; a full batch crosses    *)
(* the bounded queue to the writer thread, which encodes it.  Either side  *)
(* may fail at any Arrow call.  The producer's calls follow convert_file:  *)
(* an exception of append(), of close() or of the decoder that feeds it    *)
(* goes straight to the destructor.                                        *)
(*                                                                         *)
(* A record is one of three things to the writer: a row of its schema, a   *)
(* record of another schema, or a record too short for its type.  Rows are *)
(* numbered in the order they are accepted (see RowBatches).               *)
(***************************************************************************)
EXTENDS SingleQueue

CONSTANTS
  BatchRows,     \* batch_rows_: rows per batch
  MaxRecords,    \* bound: records offered to append()
  AllowReclose   \* whether the caller may call close() again, which the
                 \* test of closed_ provides for and convert_file never does

ASSUME WriterAssumption == /\ BatchRows \in Nat \ {0}
                           /\ MaxRecords \in Nat
                           /\ AllowReclose \in BOOLEAN

VARIABLES
  pc,         \* where the producer thread is
  joinable,   \* thread_.joinable()
  rows,       \* builder_: rows appended since the last finish()
  capacity,   \* builder_: rows reserved
  accepted,   \* rows the builder has accepted so far
  skipped,    \* skipped_
  pending,    \* the argument of enqueue() while it is being pushed
  closed,     \* closed_
  reported,   \* what close() returned, or -1 while it has not returned
  sink,       \* the file: not created, open, complete (footer written and
              \* stream closed), or left incomplete
  wpc,        \* where the writer thread is
  item,       \* the batch the writer thread holds
  status,     \* thread_status_
  failed,     \* failed_
  file,       \* the row groups written, in order
  written     \* written_

builderVars  == <<rows, capacity, pending>>
countVars    == <<accepted, skipped>>
resultVars   == <<closed, reported, sink>>
producerVars == <<pc, joinable, builderVars, countVars, resultVars>>
writerVars   == <<wpc, item, status, failed, file, written>>
vars         == <<producerVars, writerVars, queue>>

Init ==
  /\ pc = "start" /\ joinable = FALSE
  /\ rows = 0 /\ capacity = 0 /\ accepted = 0 /\ skipped = 0
  /\ pending = Null /\ closed = FALSE /\ reported = -1 /\ sink = "none"
  /\ wpc = "unborn" /\ item = Null /\ status = "ok" /\ failed = FALSE
  /\ file = << >> /\ written = 0
  /\ queue = << >>

-------------------------------------------------------------------------------
(* Producer thread: construction.                                          *)

\* Throws before the sink is open (unsupported schema, bad batch_rows, Open),
\* or after it (FileWriter::Open, reserve): then the half-built members are
\* destroyed and ~ParquetWriter does not run.
ConstructFails ==
  /\ pc = "start"
  /\ pc' = "gone"
  /\ sink' \in {"none", "incomplete"}
  /\ UNCHANGED <<joinable, builderVars, countVars, closed, reported,
                 writerVars, queue>>

Construct ==
  /\ pc = "start"
  /\ pc' = "idle" /\ joinable' = TRUE /\ wpc' = "poll"
  /\ sink' = "open" /\ capacity' = BatchRows
  /\ UNCHANGED <<rows, pending, countVars, closed, reported, item, status,
                 failed, file, written, queue>>

-------------------------------------------------------------------------------
(* Producer thread: append() and flush().                                  *)

\* Faulty variants, one per property they break; they stand in for the
\* definition that follows them and are used in no specification.
RaisesFailureNever == FALSE
FlushDueLate(n) == n > BatchRows

\* if (failed_) check(thread_status_)
RaisesFailure == failed /\ status # "ok"

FlushDue(n) == n >= BatchRows

FinishLeaving(n, hi, cap) ==
  /\ pending' = [lo |-> hi - n, hi |-> hi]
  /\ rows' = 0 /\ capacity' = cap /\ pc' = "push"

\* Faulty variant: the buffers stay reserved.
FinishKeepingBuffer(n, hi) == FinishLeaving(n, hi, BatchRows)

\* builder_->finish(): the n rows up to hi become a batch, and the buffers go
\* with it.  Then enqueue() starts.
FinishSucceeds(n, hi) == FinishLeaving(n, hi, 0)

FinishFails(n) == /\ pc' = "unwind" /\ rows' = n
                  /\ UNCHANGED <<capacity, pending>>

flush(n, hi) == FinishSucceeds(n, hi) \/ FinishFails(n)

CanAppend == pc = "idle" /\ accepted + skipped < MaxRecords

\* append() of a row.
AppendRow ==
  /\ CanAppend /\ ~RaisesFailure
  /\ accepted' = accepted + 1
  /\ \/ /\ ~FlushDue(rows + 1)
        /\ rows' = rows + 1
        /\ UNCHANGED <<pc, capacity, pending>>
     \/ FlushDue(rows + 1) /\ flush(rows + 1, accepted + 1)
  /\ UNCHANGED <<joinable, skipped, resultVars, writerVars, queue>>

\* append() of a record of another schema.
AppendOther ==
  /\ CanAppend /\ ~RaisesFailure
  /\ skipped' = skipped + 1
  /\ UNCHANGED <<pc, joinable, builderVars, accepted, resultVars, writerVars,
                 queue>>

\* append() throws: the writer thread has failed, or the record is short.
AppendThrows ==
  /\ CanAppend
  /\ pc' = "unwind"
  /\ UNCHANGED <<joinable, builderVars, countVars, resultVars, writerVars,
                 queue>>

\* flush(), continued: the push succeeds, then the builder reserves the next
\* batch or throws.  closed_ tells whether append() or close() called flush().
PushBatch ==
  /\ pc = "push"
  /\ try_push(pending)
  /\ pending' = Null
  /\ \/ capacity' = BatchRows /\ pc' = IF closed THEN "close_null" ELSE "idle"
     \/ capacity' = capacity /\ pc' = "unwind"
  /\ UNCHANGED <<joinable, rows, countVars, resultVars, writerVars>>

-------------------------------------------------------------------------------
(* Producer thread: close().                                               *)

Close ==
  /\ pc = "idle"
  /\ closed' = TRUE
  /\ \/ rows = 0 /\ pc' = "close_null" /\ UNCHANGED builderVars
     \/ rows > 0 /\ flush(rows, accepted)
  /\ UNCHANGED <<joinable, countVars, reported, sink, writerVars, queue>>

CloseNull ==
  /\ pc = "close_null"
  /\ try_push(Null)
  /\ pc' = "close_join"
  /\ UNCHANGED <<joinable, builderVars, countVars, resultVars, writerVars>>

CloseJoin ==
  /\ pc = "close_join" /\ wpc = "exited"
  /\ joinable' = FALSE /\ pc' = "finalize"
  /\ UNCHANGED <<builderVars, countVars, resultVars, writerVars, queue>>

\* check(thread_status_), writer_->Close(), sink_->Close(); any of them throws.
FinalizeFails ==
  /\ pc = "finalize"
  /\ pc' = "unwind"
  /\ UNCHANGED <<joinable, builderVars, countVars, resultVars, writerVars,
                 queue>>

Finalize ==
  /\ pc = "finalize" /\ ~RaisesFailure
  /\ sink' = "complete" /\ reported' = written /\ pc' = "closed"
  /\ UNCHANGED <<joinable, builderVars, countVars, closed, writerVars, queue>>

\* close() on a closed writer returns written_ at once, also after a close()
\* that threw.
Reclose ==
  /\ AllowReclose /\ closed /\ pc \in {"unwind", "closed"}
  /\ reported' = written /\ pc' = "closed"
  /\ UNCHANGED <<joinable, builderVars, countVars, closed, sink, writerVars,
                 queue>>

-------------------------------------------------------------------------------
(* Producer thread: ~ParquetWriter, on return or while unwinding.          *)

Dropped == IF sink = "open" THEN "incomplete" ELSE sink

\* Faulty variant: the thread is joined without a look at joinable().
AlwaysJoins == TRUE

MustJoin == joinable

\* From "idle" this is the decoder throwing between two records.
Destroy ==
  /\ pc \in {"idle", "unwind", "closed"}
  /\ \/ MustJoin /\ pc' = "dtor_null" /\ UNCHANGED sink
     \/ ~MustJoin /\ pc' = "gone" /\ sink' = Dropped
  /\ UNCHANGED <<joinable, builderVars, countVars, closed, reported,
                 writerVars, queue>>

DestroyNull ==
  /\ pc = "dtor_null"
  /\ try_push(Null)
  /\ pc' = "dtor_join"
  /\ UNCHANGED <<joinable, builderVars, countVars, resultVars, writerVars>>

DestroyJoin ==
  /\ pc = "dtor_join" /\ wpc = "exited"
  /\ joinable' = FALSE /\ pc' = "gone" /\ sink' = Dropped
  /\ UNCHANGED <<builderVars, countVars, closed, reported, writerVars, queue>>

-------------------------------------------------------------------------------
(* Writer thread: writer_loop().                                           *)

\* Pops the pill and returns, or pops a batch; after a failure a batch is
\* dropped at once.
Pop ==
  /\ wpc = "poll"
  /\ try_pop(Head(queue))
  /\ LET b == Head(queue) IN
       \/ b = Null /\ wpc' = "exited" /\ UNCHANGED item
       \/ b # Null /\ failed /\ UNCHANGED <<wpc, item>>
       \/ b # Null /\ ~failed /\ wpc' = "write" /\ item' = b
  /\ UNCHANGED <<producerVars, status, failed, file, written>>

WriteSucceeds ==
  /\ wpc = "write"
  /\ file' = Append(file, item)
  /\ written' = written + num_rows(item)
  /\ item' = Null /\ wpc' = "poll"
  /\ UNCHANGED <<producerVars, status, failed, queue>>

\* WriteRecordBatch fails: thread_status_ is stored first, ...
WriteFails ==
  /\ wpc = "write"
  /\ status' = "error" /\ wpc' = "publish"
  /\ UNCHANGED <<producerVars, item, failed, file, written, queue>>

Drops(f, to) ==
  /\ wpc = "publish"
  /\ failed' = f /\ item' = Null /\ wpc' = to
  /\ UNCHANGED <<producerVars, status, file, written, queue>>

\* Faulty variants: the failure is only noted, or the thread stops draining.
PublishNothing == Drops(failed, "poll")
PublishAndExit == Drops(TRUE, "exited")

\* ... then failed_ is set, and the thread goes back to draining the queue.
Publish == Drops(TRUE, "poll")

-------------------------------------------------------------------------------
Producer == \/ Construct \/ ConstructFails
            \/ AppendRow \/ AppendOther \/ AppendThrows \/ PushBatch
            \/ Close \/ CloseNull \/ CloseJoin \/ Finalize \/ FinalizeFails
            \/ Reclose
            \/ Destroy \/ DestroyNull \/ DestroyJoin

Writer == Pop \/ WriteSucceeds \/ WriteFails \/ Publish

\* The destroyed writer takes no further step.
Gone == pc = "gone" /\ UNCHANGED vars

Next == Producer \/ Writer \/ Gone

Spec == Init /\ [][Next]_vars

\* Both are operating-system threads that poll: each keeps being scheduled.
FairSpec == Spec /\ WF_vars(Producer) /\ WF_vars(Writer)

-------------------------------------------------------------------------------
(* Properties.                                                             *)

ProducerStates == {"start", "idle", "push", "close_null", "close_join",
                   "finalize", "closed", "unwind", "dtor_null", "dtor_join",
                   "gone"}
WriterStates   == {"unborn", "poll", "write", "publish", "exited"}

\* Every variable of the writer keeps its type.
TypeOK ==
  /\ pc \in ProducerStates /\ joinable \in BOOLEAN
  /\ rows \in Nat /\ capacity \in {0, BatchRows}
  /\ accepted \in Nat /\ skipped \in Nat
  /\ pending \in Batch \cup {Null} /\ closed \in BOOLEAN
  /\ reported \in Nat \cup {-1}
  /\ sink \in {"none", "open", "complete", "incomplete"}
  /\ wpc \in WriterStates /\ item \in Batch \cup {Null}
  /\ status \in {"ok", "error"} /\ failed \in BOOLEAN
  /\ file \in Seq(Batch) /\ written \in Nat
  /\ queue \in Seq(Batch \cup {Null}) /\ Len(queue) <= Depth

\* append() never stores past the reservation, which would be undefined
\* behaviour (the assert in mbo_builder::append and trades_builder::append):
\* whatever flush() did last, a producer that may append has room for a row.
ReservationHolds == pc = "idle" => rows < capacity

\* The batches written, held, queued and pending are, end to end, exactly the
\* rows accepted and no longer in the builder: the two threads lose, repeat
\* and reorder nothing.  After a failed write the row groups in the file are
\* still the first rows, without a gap.
RowsInOrder ==
  /\ Linked(file, Len(file), 0, written)
  /\ status = "ok" =>
       LET queueLo == IF item = Null THEN written ELSE item.hi
           queueHi == IF pending = Null THEN accepted - rows ELSE pending.lo
       IN /\ item # Null => item.lo = written
          /\ Linked(queue, DataLen, queueLo, queueHi)
          /\ pending # Null => pending.hi = accepted /\ rows = 0

\* A file with a footer holds every row accepted, and close() returns their
\* number: no failure of the writer thread can slip past join() and the
\* checks of close() and leave a short but well-formed file.
CompleteFileHasAllRows ==
  sink = "complete" => /\ Linked(file, Len(file), 0, accepted)
                       /\ reported = accepted
                       /\ rows = 0

\* The pill is the last thing in the queue and the writer thread leaves
\* nothing behind it: nothing is pushed after the pill, and it is pushed once.
NothingBehindPill ==
  /\ \A i \in 1 .. Len(queue) : queue[i] = Null => i = Len(queue)
  /\ wpc = "exited" => queue = << >>

LiveBatches == (IF capacity > 0 THEN 1 ELSE 0)
             + (IF pending # Null THEN 1 ELSE 0)
             + DataLen
             + (IF item # Null THEN 1 ELSE 0)

\* Batches peak_memory() budgets for: one under construction, Depth waiting,
\* one being encoded.
PeakBatches == Depth + 2

\* The memory of a conversion stays within what auto_jobs budgets for it.
MemoryWithinPeak == LiveBatches <= PeakBatches

\* Every row group but the last holds exactly batch_rows rows, and the last
\* at least one and at most batch_rows.
FullRowGroups ==
  \A i \in 1 .. Len(file) :
    /\ num_rows(file[i]) \in 1 .. BatchRows
    /\ i < Len(file) => num_rows(file[i]) = BatchRows

\* Once the writer thread has published its failure, no row is accepted and
\* no file is completed.
FailureSurfaces ==
  [][failed => accepted' = accepted /\ (sink' = "complete" => sink = "complete")]_vars

\* A producer blocked on a full queue, or joining, is always released, also
\* after the writer thread has failed: the thread keeps draining.
ProducerReleased ==
  /\ pc = "push" ~> pc # "push"
  /\ joinable ~> ~joinable

-------------------------------------------------------------------------------
(* Refinement.                                                             *)

SinkState == IF sink = "complete" THEN "complete"
             ELSE IF pc = "gone" THEN "abandoned"
             ELSE IF failed THEN "broken"
             ELSE "open"

Sink == INSTANCE RowSink WITH
          offered <- accepted, stored <- written, state <- SinkState

\* The threaded writer implements the plain sink: rows are stored in order and
\* never ahead of what was accepted, and the file completes only with all of
\* them, never after a failure.
ImplementsRowSink == Sink!Spec
===============================================================================
