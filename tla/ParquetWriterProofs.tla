------------------------- MODULE ParquetWriterProofs --------------------------
(***************************************************************************)
(* Proofs about ParquetWriter, for every batch size, queue depth and       *)
(* number of records.                                                      *)
(*                                                                         *)
(* None of the invariants is inductive alone.  Inv adds what ties the two  *)
(* threads together: where each holds a batch (Hands), how a failure       *)
(* travels from thread_status_ to failed_ (Failure), when the pill may be  *)
(* in the queue (Pill), and what the builder holds at each point of the    *)
(* producer (Builder).                                                     *)
(***************************************************************************)
EXTENDS ParquetWriter, TLAPS

-------------------------------------------------------------------------------
(* The queue: what a push and a pop do to its adjoining batches.           *)

QueueType == queue \in Seq(Batch \cup {Null})

\* No pill has been pushed.
NoPill == \A i \in 1 .. Len(queue) : queue[i] # Null

\* If there is a pill it is at the end.
PillLast == \A i \in 1 .. Len(queue) : queue[i] = Null => i = Len(queue)

\* WriteRecordBatch: a batch that starts where s ends extends s.
LEMMA LinkedAppend ==
  ASSUME NEW S, NEW s \in Seq(S), NEW e \in S, NEW a, NEW b,
         Linked(s, Len(s), a, b), e.lo = b
  PROVE  Linked(Append(s, e), Len(s) + 1, a, e.hi)
BY DEF Linked

\* Pushing the batch that continues the queue keeps the queue without gaps.
LEMMA PushLinked ==
  ASSUME QueueType, NoPill, NEW b \in Batch, try_push(b),
         NEW lo, NEW hi, Linked(queue, DataLen, lo, hi), b.lo = hi
  PROVE  Linked(queue', DataLen', lo, b.hi)
BY NullAssumption, LinkedAppend DEF QueueType, NoPill, DataLen, try_push

\* Pushing the pill does not touch the batches ahead of it.
LEMMA PushPillLinked ==
  ASSUME QueueType, NoPill, try_push(Null),
         NEW lo, NEW hi, Linked(queue, DataLen, lo, hi)
  PROVE  Linked(queue', DataLen', lo, hi)
BY DEF QueueType, NoPill, DataLen, try_push, Linked

\* Popping a batch leaves one batch fewer, whether or not the pill is behind it.
LEMMA PopShortens ==
  ASSUME QueueType, PillLast, try_pop(Head(queue)), Head(queue) # Null
  PROVE  DataLen' = DataLen - 1
BY DEF QueueType, PillLast, DataLen, try_pop

\* Popping a batch yields the one the queue starts with and leaves the rest.
LEMMA PopLinked ==
  ASSUME QueueType, PillLast, try_pop(Head(queue)), Head(queue) # Null,
         NEW lo, NEW hi, Linked(queue, DataLen, lo, hi)
  PROVE  /\ Head(queue) \in Batch
         /\ Head(queue).lo = lo
         /\ Linked(queue', DataLen', Head(queue).hi, hi)
<1>1. DataLen' = DataLen - 1
  BY PopShortens
<1>2. Head(queue) \in Batch
  BY DEF QueueType, try_pop
<1>3. /\ DataLen > 0 /\ DataLen \in Nat /\ Head(queue) = queue[1]
      /\ \A i \in 1 .. DataLen - 1 : queue'[i] = queue[i + 1]
  BY DEF QueueType, DataLen, try_pop
<1> HIDE DEF DataLen
<1> QED
  BY <1>1, <1>2, <1>3 DEF Linked

-------------------------------------------------------------------------------
(* The invariant.                                                          *)

Hands ==
  /\ pending # Null <=> pc = "push"
  /\ item # Null <=> wpc \in {"write", "publish"}

Failure ==
  /\ failed => status = "error"
  /\ status = "error" => failed \/ wpc = "publish"
  /\ wpc = "write" => status = "ok" /\ ~failed
  /\ wpc = "publish" => status = "error"

PillSent == wpc = "exited" \/ \E i \in 1 .. Len(queue) : queue[i] = Null

Pill ==
  /\ \A i \in 1 .. Len(queue) : queue[i] = Null => i = Len(queue)
  /\ wpc = "exited" => queue = << >>
  /\ PillSent => pc \in {"close_join", "dtor_join"} \/ ~joinable
  /\ pc \in {"close_join", "dtor_join"} => PillSent
  /\ ~joinable => queue = << >> /\ wpc \in {"unborn", "exited"}
  /\ wpc = "unborn" => pc \in {"start", "gone"}
  /\ pc \in {"idle", "push", "close_null", "close_join", "dtor_null", "dtor_join"}
       => joinable
  /\ pc \in {"start", "finalize", "gone"} => ~joinable

Builder ==
  /\ rows <= accepted /\ rows <= BatchRows
  /\ pc = "start" => accepted = 0 /\ ~closed
  /\ pc = "idle" => capacity = BatchRows /\ rows < BatchRows /\ ~closed
  /\ pc = "push" => capacity = 0 /\ rows = 0
  /\ pc \in {"close_null", "close_join", "finalize"} => rows = 0

Completion ==
  sink = "complete" => /\ written = accepted /\ reported = accepted /\ rows = 0
                       /\ ~joinable /\ pc \in {"closed", "gone"}
                       /\ ~failed

\* A batch has its full size, or is the one that close() flushed (c) and ends
\* with the last row accepted (n).
Sized(b, n, c) == /\ num_rows(b) \in 1 .. BatchRows
                  /\ b.hi <= n
                  /\ num_rows(b) = BatchRows \/ (c /\ b.hi = n)

Sizes ==
  /\ pending # Null => Sized(pending, accepted, closed)
  /\ item # Null => Sized(item, accepted, closed)
  /\ \A i \in 1 .. Len(queue) : queue[i] # Null => Sized(queue[i], accepted, closed)
  /\ \A i \in 1 .. Len(file) : Sized(file[i], accepted, closed)

Inv == /\ TypeOK
       /\ Hands /\ Failure /\ Pill /\ Builder /\ Sizes
       /\ RowsInOrder /\ Completion

USE WriterAssumption, DepthAssumption, NullAssumption
USE DEF builderVars, countVars, resultVars

-------------------------------------------------------------------------------
(* Init and the type invariant.                                            *)

\* Before the constructor there is no row, no batch and no thread.
LEMMA InitInv == Init => Inv
<1> SUFFICES ASSUME Init PROVE Inv
  OBVIOUS
<1> USE DEF Init
<1>1. TypeOK
  <2>1. queue \in Seq(Batch \cup {Null}) /\ Len(queue) <= Depth
    OBVIOUS
  <2>2. file \in Seq(Batch)
    OBVIOUS
  <2> QED
    BY <2>1, <2>2 DEF TypeOK, ProducerStates, WriterStates
<1>2. Hands /\ Failure /\ Pill
  BY DEF Hands, Failure, Pill, PillSent
<1>3. Builder /\ Sizes /\ Completion
  BY DEF Builder, Sizes, Completion
<1>4. RowsInOrder
  BY DEF RowsInOrder, Linked, DataLen
<1> QED
  BY <1>1, <1>2, <1>3, <1>4 DEF Inv

\* Every step keeps the types.
LEMMA TypeStep == Inv /\ [Next]_vars => TypeOK'
<1> SUFFICES ASSUME Inv, [Next]_vars PROVE TypeOK'
  OBVIOUS
<1> USE DEF Inv, TypeOK, ProducerStates, WriterStates, Batch, producerVars,
            writerVars
<1>1. CASE Construct
  BY <1>1 DEF Construct
<1>2. CASE ConstructFails
  BY <1>2 DEF ConstructFails
<1>3. CASE AppendRow
  BY <1>3 DEF AppendRow, CanAppend, flush, FinishSucceeds, FinishLeaving, FinishFails, Builder
<1>4. CASE AppendOther
  BY <1>4 DEF AppendOther
<1>5. CASE AppendThrows
  BY <1>5 DEF AppendThrows
<1>6. CASE PushBatch
  BY <1>6 DEF PushBatch, try_push
<1>7. CASE Close
  BY <1>7 DEF Close, flush, FinishSucceeds, FinishLeaving, FinishFails, Builder
<1>8. CASE CloseNull
  BY <1>8 DEF CloseNull, try_push
<1>9. CASE CloseJoin
  BY <1>9 DEF CloseJoin
<1>10. CASE Finalize
  BY <1>10 DEF Finalize
<1>11. CASE FinalizeFails
  BY <1>11 DEF FinalizeFails
<1>12. CASE Reclose
  BY <1>12 DEF Reclose
<1>13. CASE Destroy
  BY <1>13 DEF Destroy, MustJoin, Dropped
<1>14. CASE DestroyNull
  BY <1>14 DEF DestroyNull, try_push
<1>15. CASE DestroyJoin
  BY <1>15 DEF DestroyJoin, Dropped
<1>16. CASE Pop
  BY <1>16 DEF Pop, try_pop
<1>17. CASE WriteSucceeds
  BY <1>17 DEF WriteSucceeds, num_rows, Hands, Sizes, Sized
<1>18. CASE WriteFails
  BY <1>18 DEF WriteFails
<1>19. CASE Publish
  BY <1>19 DEF Publish, Drops
<1>20. CASE UNCHANGED vars
  BY <1>20 DEF vars
<1> QED
  BY <1>1, <1>2, <1>3, <1>4, <1>5, <1>6, <1>7, <1>8, <1>9, <1>10, <1>11, <1>12,
     <1>13, <1>14, <1>15, <1>16, <1>17, <1>18, <1>19, <1>20
     DEF Next, Producer, Writer, Gone

-------------------------------------------------------------------------------
(* Control: who holds a batch, how a failure travels, when the pill is in  *)
(* the queue, and what the builder holds.                                  *)

\* Every step of either thread keeps the control invariants.
LEMMA ControlStep ==
  Inv /\ [Next]_vars => Hands' /\ Failure' /\ Pill' /\ Builder'
<1> SUFFICES ASSUME Inv, [Next]_vars PROVE Hands' /\ Failure' /\ Pill' /\ Builder'
  OBVIOUS
<1> USE DEF Inv, TypeOK, Hands, Failure, Pill, PillSent, Builder,
            ProducerStates, WriterStates, Batch, producerVars, writerVars
<1>1. CASE Construct
  BY <1>1 DEF Construct
<1>2. CASE ConstructFails
  BY <1>2 DEF ConstructFails
<1>3. CASE AppendRow
  BY <1>3 DEF AppendRow, CanAppend, FlushDue, flush, FinishSucceeds, FinishLeaving, FinishFails
<1>4. CASE AppendOther
  BY <1>4 DEF AppendOther, CanAppend
<1>5. CASE AppendThrows
  BY <1>5 DEF AppendThrows, CanAppend
<1>6. CASE PushBatch
  BY <1>6 DEF PushBatch, try_push
<1>7. CASE Close
  BY <1>7 DEF Close, flush, FinishSucceeds, FinishLeaving, FinishFails
<1>8. CASE CloseNull
  BY <1>8 DEF CloseNull, try_push
<1>9. CASE CloseJoin
  BY <1>9 DEF CloseJoin
<1>10. CASE Finalize
  BY <1>10 DEF Finalize
<1>11. CASE FinalizeFails
  BY <1>11 DEF FinalizeFails
<1>12. CASE Reclose
  BY <1>12 DEF Reclose
<1>13. CASE Destroy
  BY <1>13 DEF Destroy, MustJoin
<1>14. CASE DestroyNull
  BY <1>14 DEF DestroyNull, try_push
<1>15. CASE DestroyJoin
  BY <1>15 DEF DestroyJoin
<1>16. CASE Pop
  <2> USE <1>16 DEF Pop, try_pop
  <2>1. pc \in {"close_join", "dtor_join"} => PillSent'
    <3> SUFFICES ASSUME NEW i \in 1 .. Len(queue), queue[i] = Null, wpc' # "exited"
                 PROVE  \E j \in 1 .. Len(queue') : queue'[j] = Null
      OBVIOUS
    <3>1. i - 1 \in 1 .. Len(queue') /\ queue'[i - 1] = Null
      OBVIOUS
    <3> QED
      BY <3>1
  <2>2. Hands' /\ Failure' /\ Builder'
    OBVIOUS
  <2>3. PillSent' => pc \in {"close_join", "dtor_join"} \/ ~joinable
    OBVIOUS
  <2>4. /\ \A i \in 1 .. Len(queue') : queue'[i] = Null => i = Len(queue')
        /\ wpc' = "exited" => queue' = << >>
    OBVIOUS
  <2> HIDE DEF PillSent
  <2> QED
    BY <2>1, <2>2, <2>3, <2>4
<1>17. CASE WriteSucceeds
  BY <1>17 DEF WriteSucceeds
<1>18. CASE WriteFails
  BY <1>18 DEF WriteFails
<1>19. CASE Publish
  BY <1>19 DEF Publish, Drops
<1>20. CASE UNCHANGED vars
  BY <1>20 DEF vars
<1> QED
  BY <1>1, <1>2, <1>3, <1>4, <1>5, <1>6, <1>7, <1>8, <1>9, <1>10, <1>11, <1>12,
     <1>13, <1>14, <1>15, <1>16, <1>17, <1>18, <1>19, <1>20
     DEF Next, Producer, Writer, Gone

-------------------------------------------------------------------------------
(* Sizes, order and completeness of what is written.                       *)

\* Every step keeps the batches full, except the last one of a closed writer.
LEMMA SizesStep == Inv /\ [Next]_vars => Sizes'
<1> SUFFICES ASSUME Inv, [Next]_vars PROVE Sizes'
  OBVIOUS
<1> USE DEF Inv, TypeOK, Sizes, Hands, producerVars, writerVars
<1>1. CASE Construct
  BY <1>1 DEF Construct
<1>2. CASE ConstructFails
  BY <1>2 DEF ConstructFails
<1>3. CASE AppendRow
  <2>1. /\ ~closed /\ closed' = closed /\ pc = "idle" /\ rows < BatchRows
        /\ accepted' = accepted + 1 /\ pending = Null
        /\ queue' = queue /\ file' = file /\ item' = item
    BY <1>3 DEF AppendRow, CanAppend, Builder
  <2>2. \A b \in Batch : Sized(b, accepted, closed) => Sized(b, accepted', closed')
    BY <2>1 DEF Sized, Batch
  <2>3. pending' # Null => Sized(pending', accepted', closed')
    BY <1>3, <2>1 DEF AppendRow, FlushDue, flush, FinishSucceeds, FinishLeaving, FinishFails,
                      Sized, num_rows, Builder
  <2> QED
    BY <2>1, <2>2, <2>3
<1>4. CASE AppendOther
  BY <1>4 DEF AppendOther
<1>5. CASE AppendThrows
  BY <1>5 DEF AppendThrows
<1>6. CASE PushBatch
  <2>1. /\ Len(queue') = Len(queue) + 1 /\ queue'[Len(queue')] = pending
        /\ \A i \in 1 .. Len(queue) : queue'[i] = queue[i]
    BY <1>6 DEF PushBatch, try_push
  <2> QED
    BY <1>6, <2>1 DEF PushBatch
<1>7. CASE Close
  <2>1. /\ pc = "idle" /\ closed' = TRUE /\ accepted' = accepted /\ pending = Null
        /\ queue' = queue /\ file' = file /\ item' = item
    BY <1>7 DEF Close
  <2>2. \A b \in Batch : Sized(b, accepted, closed) => Sized(b, accepted', closed')
    BY <2>1 DEF Sized
  <2>3. pending' # Null => Sized(pending', accepted', closed')
    BY <1>7, <2>1 DEF Close, flush, FinishSucceeds, FinishLeaving, FinishFails, Sized, num_rows,
                      Builder
  <2>4. item' # Null => Sized(item', accepted', closed')
    BY <2>1, <2>2
  <2>5. \A i \in 1 .. Len(queue') :
          queue'[i] # Null => Sized(queue'[i], accepted', closed')
    <3>1. \A i \in 1 .. Len(queue) :
            queue[i] # Null => queue[i] \in Batch /\ Sized(queue[i], accepted, closed)
      OBVIOUS
    <3> QED
      BY <2>1, <2>2, <3>1, Zenon
  <2>6. \A i \in 1 .. Len(file') : Sized(file'[i], accepted', closed')
    <3>1. \A i \in 1 .. Len(file) :
            file[i] \in Batch /\ Sized(file[i], accepted, closed)
      OBVIOUS
    <3> QED
      BY <2>1, <2>2, <3>1, Zenon
  <2> QED
    BY <2>3, <2>4, <2>5, <2>6
<1>8. CASE CloseNull
  <2>1. /\ Len(queue') = Len(queue) + 1 /\ queue'[Len(queue')] = Null
        /\ \A i \in 1 .. Len(queue) : queue'[i] = queue[i]
    BY <1>8 DEF CloseNull, try_push
  <2> QED
    BY <1>8, <2>1 DEF CloseNull
<1>9. CASE CloseJoin
  BY <1>9 DEF CloseJoin
<1>10. CASE Finalize
  BY <1>10 DEF Finalize
<1>11. CASE FinalizeFails
  BY <1>11 DEF FinalizeFails
<1>12. CASE Reclose
  BY <1>12 DEF Reclose
<1>13. CASE Destroy
  BY <1>13 DEF Destroy, MustJoin
<1>14. CASE DestroyNull
  <2>1. /\ Len(queue') = Len(queue) + 1 /\ queue'[Len(queue')] = Null
        /\ \A i \in 1 .. Len(queue) : queue'[i] = queue[i]
    BY <1>14 DEF DestroyNull, try_push
  <2> QED
    BY <1>14, <2>1 DEF DestroyNull
<1>15. CASE DestroyJoin
  BY <1>15 DEF DestroyJoin
<1>16. CASE Pop
  <2>1. /\ Head(queue) = queue[1] /\ Len(queue) > 0
        /\ Len(queue') = Len(queue) - 1
        /\ \A i \in 1 .. Len(queue') : queue'[i] = queue[i + 1]
    BY <1>16 DEF Pop, try_pop
  <2>2. UNCHANGED <<accepted, closed, pending, file>>
    BY <1>16 DEF Pop
  <2>3. item' # Null => item' = item \/ item' = queue[1]
    BY <1>16, <2>1 DEF Pop
  <2>4. item' # Null => Sized(item', accepted, closed)
    BY <2>1, <2>3
  <2>5. \A i \in 1 .. Len(queue') : queue'[i] # Null => Sized(queue'[i], accepted, closed)
    <3>1. TAKE i \in 1 .. Len(queue')
    <3>2. i + 1 \in 1 .. Len(queue) /\ queue'[i] = queue[i + 1]
      BY <2>1, <3>1
    <3> QED
      BY <3>2
  <2> QED
    BY <2>2, <2>4, <2>5
<1>17. CASE WriteSucceeds
  <2>1. /\ Len(file') = Len(file) + 1 /\ file'[Len(file')] = item
        /\ \A i \in 1 .. Len(file) : file'[i] = file[i]
    BY <1>17 DEF WriteSucceeds
  <2> QED
    BY <1>17, <2>1 DEF WriteSucceeds
<1>18. CASE WriteFails
  BY <1>18 DEF WriteFails
<1>19. CASE Publish
  BY <1>19 DEF Publish, Drops
<1>20. CASE UNCHANGED vars
  BY <1>20 DEF vars
<1> QED
  BY <1>1, <1>2, <1>3, <1>4, <1>5, <1>6, <1>7, <1>8, <1>9, <1>10, <1>11, <1>12,
     <1>13, <1>14, <1>15, <1>16, <1>17, <1>18, <1>19, <1>20
     DEF Next, Producer, Writer, Gone

\* Every step keeps the facts about a finished file.
LEMMA CompletionStep == Inv /\ [Next]_vars => Completion'
<1> SUFFICES ASSUME Inv, [Next]_vars PROVE Completion'
  OBVIOUS
<1> USE DEF Inv, TypeOK, Completion, Hands, Pill, Failure, Builder, producerVars, writerVars
<1>1. CASE Construct
  BY <1>1 DEF Construct
<1>2. CASE ConstructFails
  BY <1>2 DEF ConstructFails
<1>3. CASE AppendRow
  BY <1>3 DEF AppendRow, CanAppend, FlushDue, flush, FinishSucceeds, FinishLeaving, FinishFails
<1>4. CASE AppendOther
  BY <1>4 DEF AppendOther, CanAppend
<1>5. CASE AppendThrows
  BY <1>5 DEF AppendThrows, CanAppend
<1>6. CASE PushBatch
  BY <1>6 DEF PushBatch, try_push
<1>7. CASE Close
  BY <1>7 DEF Close, flush, FinishSucceeds, FinishLeaving, FinishFails
<1>8. CASE CloseNull
  BY <1>8 DEF CloseNull, try_push
<1>9. CASE CloseJoin
  BY <1>9 DEF CloseJoin
<1>10. CASE Finalize
  <2>1. wpc = "exited" /\ status = "ok" /\ ~failed
    BY <1>10 DEF Finalize, RaisesFailure
  <2>2. queue = << >> /\ item = Null /\ pending = Null /\ rows = 0
    BY <1>10, <2>1 DEF Finalize
  <2>3. written = accepted
    BY <2>1, <2>2 DEF RowsInOrder, Linked, DataLen
  <2> QED
    BY <1>10, <2>1, <2>2, <2>3 DEF Finalize
<1>11. CASE FinalizeFails
  BY <1>11 DEF FinalizeFails
<1>12. CASE Reclose
  BY <1>12 DEF Reclose
<1>13. CASE Destroy
  BY <1>13 DEF Destroy, MustJoin, Dropped
<1>14. CASE DestroyNull
  BY <1>14 DEF DestroyNull, try_push
<1>15. CASE DestroyJoin
  BY <1>15 DEF DestroyJoin, Dropped
<1>16. CASE Pop
  BY <1>16 DEF Pop, try_pop
<1>17. CASE WriteSucceeds
  BY <1>17 DEF WriteSucceeds
<1>18. CASE WriteFails
  BY <1>18 DEF WriteFails
<1>19. CASE Publish
  BY <1>19 DEF Publish, Drops
<1>20. CASE UNCHANGED vars
  BY <1>20 DEF vars
<1> QED
  BY <1>1, <1>2, <1>3, <1>4, <1>5, <1>6, <1>7, <1>8, <1>9, <1>10, <1>11, <1>12,
     <1>13, <1>14, <1>15, <1>16, <1>17, <1>18, <1>19, <1>20
     DEF Next, Producer, Writer, Gone

\* The types of Inv are the types the queue lemmas ask for.
LEMMA QueueIsTyped == Inv => QueueType /\ PillLast
BY DEF Inv, TypeOK, Pill, QueueType, PillLast

QueueLo == IF item = Null THEN written ELSE item.hi

\* Every step keeps the rows in order and without gaps.
LEMMA RowsStep == Inv /\ [Next]_vars => RowsInOrder'
<1> SUFFICES ASSUME Inv, [Next]_vars PROVE RowsInOrder'
  OBVIOUS
<1> USE DEF Inv, TypeOK, RowsInOrder, QueueLo, producerVars, writerVars
<1>1. CASE Construct
  BY <1>1 DEF Construct, DataLen, Linked, Builder, Pill, Hands
<1>2. CASE ConstructFails
  BY <1>2 DEF ConstructFails, DataLen
<1>3. CASE AppendRow
  <2>1. /\ pc = "idle" /\ pending = Null /\ accepted' = accepted + 1
        /\ UNCHANGED <<queue, item, file, written, status>>
    BY <1>3 DEF AppendRow, CanAppend, Hands
  <2>2. DataLen' = DataLen
    BY <2>1 DEF DataLen
  <2>3. \/ pending' = Null /\ accepted' - rows' = accepted - rows
        \/ pending' # Null /\ pending'.lo = accepted - rows
           /\ pending'.hi = accepted' /\ rows' = 0
    <3>1. CASE FinishSucceeds(rows + 1, accepted + 1)
      <4>1. /\ pending' = [lo |-> accepted + 1 - (rows + 1), hi |-> accepted + 1]
            /\ rows' = 0
        BY <3>1 DEF FinishSucceeds, FinishLeaving
      <4>2. accepted + 1 - (rows + 1) = accepted - rows /\ accepted - rows \in Nat
        BY DEF Builder
      <4>3. pending' \in Batch
        BY <4>1, <4>2 DEF Batch
      <4> QED
        BY <2>1, <4>1, <4>2, <4>3
    <3>2. CASE rows' = rows + 1 /\ pending' = pending
      BY <2>1, <3>2
    <3> QED
      BY <1>3, <3>1, <3>2 DEF AppendRow, flush, FinishFails
  <2> QED
    BY <2>1, <2>2, <2>3
<1>4. CASE AppendOther
  BY <1>4 DEF AppendOther, DataLen
<1>5. CASE AppendThrows
  BY <1>5 DEF AppendThrows, DataLen
<1>6. CASE PushBatch
  <2>1. /\ try_push(pending) /\ NoPill /\ pending \in Batch /\ pending' = Null
        /\ UNCHANGED <<item, status, written, file, accepted, rows>>
    BY <1>6 DEF PushBatch, Hands, Pill, PillSent, NoPill
  <2>2. status = "ok" => Linked(queue', DataLen', QueueLo, pending.hi)
    BY <2>1, PushLinked, QueueIsTyped
  <2>3. status = "ok" => pending.hi = accepted - rows
    BY <2>1
  <2> QED
    BY <2>1, <2>2, <2>3
<1>7. CASE Close
  <2>1. /\ pc = "idle" /\ pending = Null /\ accepted' = accepted
        /\ UNCHANGED <<queue, item, file, written, status>>
    BY <1>7 DEF Close, Hands
  <2>2. DataLen' = DataLen
    BY <2>1 DEF DataLen
  <2>3. \/ pending' = Null /\ rows' = rows
        \/ pending' # Null /\ pending'.lo = accepted - rows
           /\ pending'.hi = accepted /\ rows' = 0
    <3>1. CASE FinishSucceeds(rows, accepted)
      <4>1. pending' = [lo |-> accepted - rows, hi |-> accepted] /\ rows' = 0
        BY <3>1 DEF FinishSucceeds, FinishLeaving
      <4>2. pending' \in Batch
        BY <4>1 DEF Batch, Builder
      <4> QED
        BY <4>1, <4>2
    <3>2. CASE rows' = rows /\ pending' = pending
      BY <2>1, <3>2
    <3> QED
      BY <1>7, <3>1, <3>2 DEF Close, flush, FinishFails
  <2> QED
    BY <2>1, <2>2, <2>3
<1>8. CASE CloseNull
  <2>1. try_push(Null) /\ NoPill /\ pending = Null
    BY <1>8 DEF CloseNull, Hands, Pill, PillSent, NoPill
  <2>2. UNCHANGED <<item, status, written, file, accepted, rows, pending>>
    BY <1>8 DEF CloseNull
  <2>3. status = "ok" => Linked(queue', DataLen', QueueLo, accepted - rows)
    BY <2>1, PushPillLinked, QueueIsTyped
  <2> QED
    BY <2>1, <2>2, <2>3
<1>9. CASE CloseJoin
  BY <1>9 DEF CloseJoin, DataLen
<1>10. CASE Finalize
  BY <1>10 DEF Finalize, DataLen
<1>11. CASE FinalizeFails
  BY <1>11 DEF FinalizeFails, DataLen
<1>12. CASE Reclose
  BY <1>12 DEF Reclose, DataLen
<1>13. CASE Destroy
  BY <1>13 DEF Destroy, MustJoin, DataLen
<1>14. CASE DestroyNull
  <2>1. try_push(Null) /\ NoPill /\ pending = Null
    BY <1>14 DEF DestroyNull, Hands, Pill, PillSent, NoPill
  <2>2. UNCHANGED <<item, status, written, file, accepted, rows, pending>>
    BY <1>14 DEF DestroyNull
  <2>3. status = "ok" => Linked(queue', DataLen', QueueLo, accepted - rows)
    BY <2>1, PushPillLinked, QueueIsTyped
  <2> QED
    BY <2>1, <2>2, <2>3
<1>15. CASE DestroyJoin
  BY <1>15 DEF DestroyJoin, DataLen
<1>16. CASE Pop
  <2>1. /\ try_pop(Head(queue)) /\ item = Null
        /\ UNCHANGED <<status, written, file, accepted, rows, pending>>
    BY <1>16 DEF Pop, Hands
  <2>2. CASE Head(queue) = Null
    <3>1. queue # << >> /\ Len(queue) \in Nat \ {0} /\ queue[1] = Null
      BY <2>1, <2>2 DEF try_pop
    <3>2. Len(queue) = 1
      <4>1. \A i \in 1 .. Len(queue) : queue[i] = Null => i = Len(queue)
        BY QueueIsTyped DEF PillLast
      <4> HIDE DEF Inv, TypeOK, RowsInOrder
      <4>2. 1 \in 1 .. Len(queue)
        BY <3>1
      <4> QED
        BY <3>1, <4>1, <4>2
    <3>3. queue' = << >>
      BY <2>1, <3>2 DEF try_pop
    <3>4. DataLen = 0
      BY <3>1, <3>2 DEF DataLen
    <3>5. DataLen' = 0
      BY <3>3 DEF DataLen
    <3>6. item' = item
      BY <1>16, <2>2 DEF Pop
    <3> QED
      BY <2>1, <3>4, <3>5, <3>6 DEF Linked
  <2>3. CASE Head(queue) # Null /\ failed
    BY <2>1, <2>3 DEF Failure
  <2>4. CASE Head(queue) # Null /\ ~failed
    <3>1. item' = Head(queue) /\ status = "ok"
      BY <1>16, <2>4 DEF Pop, Failure
    <3> DEFINE hi == IF pending = Null THEN accepted - rows ELSE pending.lo
    <3>2. Linked(queue, DataLen, written, hi)
      BY <2>1, <3>1
    <3>3. /\ Head(queue) \in Batch /\ Head(queue).lo = written
          /\ Linked(queue', DataLen', Head(queue).hi, hi)
      BY <2>1, <2>4, <3>2, PopLinked, QueueIsTyped
    <3> QED
      BY <2>1, <2>4, <3>1, <3>3
  <2> QED
    BY <2>2, <2>3, <2>4
<1>17. CASE WriteSucceeds
  <2>1. /\ status = "ok" /\ item \in Batch /\ item' = Null
        /\ UNCHANGED <<queue, status, accepted, rows, pending>>
    BY <1>17 DEF WriteSucceeds, Hands, Failure
  <2>2. item.lo = written /\ written' = item.hi
    BY <1>17, <2>1 DEF WriteSucceeds, num_rows, Batch
  <2>3. Len(file') = Len(file) + 1 /\ file' = Append(file, item)
    BY <1>17 DEF WriteSucceeds
  <2>4. Linked(file', Len(file'), 0, written')
    BY <2>1, <2>2, <2>3, LinkedAppend
  <2>5. DataLen' = DataLen
    BY <2>1 DEF DataLen
  <2> QED
    BY <2>1, <2>2, <2>4, <2>5
<1>18. CASE WriteFails
  BY <1>18 DEF WriteFails
<1>19. CASE Publish
  BY <1>19 DEF Publish, Drops, Failure
<1>20. CASE UNCHANGED vars
  BY <1>20 DEF vars, DataLen
<1> QED
  BY <1>1, <1>2, <1>3, <1>4, <1>5, <1>6, <1>7, <1>8, <1>9, <1>10, <1>11, <1>12,
     <1>13, <1>14, <1>15, <1>16, <1>17, <1>18, <1>19, <1>20
     DEF Next, Producer, Writer, Gone

-------------------------------------------------------------------------------
(* Theorems.                                                               *)

\* Every step of either thread keeps the invariant.
LEMMA InvStep == Inv /\ [Next]_vars => Inv'
BY TypeStep, ControlStep, SizesStep, RowsStep, CompletionStep DEF Inv

\* The inductive invariant holds in every reachable state.
THEOREM InvHolds == Spec => []Inv
BY InitInv, InvStep, PTL DEF Spec

\* The types of the writer's variables, and with them the bound of the queue.
THEOREM TypeCorrect == Spec => []TypeOK
<1>1. Inv => TypeOK
  BY DEF Inv
<1> QED
  BY InvHolds, <1>1, PTL

\* append() never stores past the reservation.
THEOREM ReservationCorrect == Spec => []ReservationHolds
<1>1. Inv => ReservationHolds
  BY DEF Inv, Builder, ReservationHolds
<1> QED
  BY InvHolds, <1>1, PTL

\* No row is lost, repeated or reordered between append() and the file.
THEOREM OrderCorrect == Spec => []RowsInOrder
<1>1. Inv => RowsInOrder
  BY DEF Inv
<1> QED
  BY InvHolds, <1>1, PTL

\* A finished file holds every accepted row, and close() returns their number.
THEOREM CompleteCorrect == Spec => []CompleteFileHasAllRows
<1>1. Inv => CompleteFileHasAllRows
  BY DEF Inv, Completion, RowsInOrder, CompleteFileHasAllRows
<1> QED
  BY InvHolds, <1>1, PTL

\* Nothing is pushed behind the pill, and the pill is pushed once.
THEOREM PillCorrect == Spec => []NothingBehindPill
<1>1. Inv => NothingBehindPill
  BY DEF Inv, Pill, NothingBehindPill
<1> QED
  BY InvHolds, <1>1, PTL

\* A conversion holds at most as many batches as peak_memory() budgets for.
THEOREM MemoryCorrect == Spec => []MemoryWithinPeak
<1>1. Inv => MemoryWithinPeak
  <2> SUFFICES ASSUME Inv PROVE MemoryWithinPeak
    OBVIOUS
  <2>1. DataLen \in Int /\ DataLen <= Depth
    BY DEF Inv, TypeOK, DataLen
  <2>2. pending # Null => capacity = 0
    BY DEF Inv, Hands, Builder
  <2> QED
    BY <2>1, <2>2 DEF MemoryWithinPeak, LiveBatches, PeakBatches
<1> QED
  BY InvHolds, <1>1, PTL

\* Every row group but the last is full.
THEOREM RowGroupsCorrect == Spec => []FullRowGroups
<1>1. Inv => FullRowGroups
  <2> SUFFICES ASSUME Inv, NEW i \in 1 .. Len(file)
               PROVE  /\ num_rows(file[i]) \in 1 .. BatchRows
                      /\ i < Len(file) => num_rows(file[i]) = BatchRows
    BY DEF FullRowGroups
  <2>1. file[i] \in Batch /\ Sized(file[i], accepted, closed)
    BY DEF Inv, TypeOK, Sizes
  <2>2. ASSUME i < Len(file) PROVE num_rows(file[i]) = BatchRows
    <3>1. file[i + 1] \in Batch /\ Sized(file[i + 1], accepted, closed)
      BY <2>2 DEF Inv, TypeOK, Sizes
    <3>2. file[i].hi = file[i + 1].lo
      BY <2>2 DEF Inv, TypeOK, RowsInOrder, Linked
    <3> QED
      BY <2>1, <3>1, <3>2, SMTT(30) DEF Sized, num_rows, Batch, Inv, TypeOK
  <2> QED
    BY <2>1, <2>2 DEF Sized
<1> QED
  BY InvHolds, <1>1, PTL

-------------------------------------------------------------------------------
(* Waiting: neither thread waits for a thread that waits for it.           *)

Joining == pc \in {"close_join", "dtor_join"}

\* The producer waits for room in the queue, or for the end of the thread.
Waits == Joining \/ pc \in {"push", "close_null", "dtor_null"}

\* What it waits for is there.
MayGoOn == IF Joining THEN wpc = "exited" ELSE Len(queue) < Depth

\* writer_loop() has a batch to write, to drop or to pop, or the pill to pop.
ThreadRuns == wpc \in {"write", "publish"} \/ (wpc = "poll" /\ queue # << >>)

\* Whenever the producer waits in vain, the writer thread is at work: it never
\* leaves before the pill, and at a join the pill is on its way.
NoDeadlock == Waits => MayGoOn \/ ThreadRuns

\* What the writer thread has to do before its queue is empty.
Backlog == 3 * Len(queue) + (IF wpc = "write" THEN 2 ELSE IF wpc = "publish" THEN 1 ELSE 0)

\* While the producer waits, every step brings the thread closer to the end of
\* its backlog, whether it writes, fails or drops, and takes nothing back.
WaitShortens ==
  [][Waits /\ pc' = pc => /\ Backlog' \in Nat /\ Backlog' < Backlog
                          /\ MayGoOn => MayGoOn']_vars

\* Where the pill is decides what a waiting producer may count on.
LEMMA NeverBothWait == Inv => NoDeadlock
<1> SUFFICES ASSUME Inv, Waits PROVE MayGoOn \/ ThreadRuns
  BY DEF NoDeadlock
<1> USE DEF Inv, TypeOK, Pill, PillSent, WriterStates, MayGoOn, ThreadRuns
<1>1. CASE Joining
  BY <1>1 DEF Joining
<1>2. CASE ~Joining
  BY <1>2 DEF Waits, Joining
<1> QED
  BY <1>1, <1>2

\* A full queue or a join never stops both threads.
THEOREM DeadlockFree == Spec => []NoDeadlock
BY InvHolds, NeverBothWait, PTL

\* The safety half of ProducerReleased: with the scheduling of both threads,
\* DeadlockFree and a backlog that only shrinks end every wait.
THEOREM WaitsEnd == Spec => WaitShortens
<1> DEFINE Step == Waits /\ pc' = pc => /\ Backlog' \in Nat /\ Backlog' < Backlog
                                        /\ MayGoOn => MayGoOn'
<1>1. ASSUME Inv, Inv', [Next]_vars PROVE Step \/ UNCHANGED vars
  <2> SUFFICES ASSUME Waits, pc' = pc, ~UNCHANGED vars
               PROVE  /\ Backlog' \in Nat /\ Backlog' < Backlog
                      /\ MayGoOn => MayGoOn'
    OBVIOUS
  <2>1. Writer
    <3> USE DEF Waits, Joining
    <3>1. ~(Construct \/ ConstructFails \/ AppendRow \/ AppendOther \/ AppendThrows)
      BY DEF Construct, ConstructFails, AppendRow, AppendOther, AppendThrows, CanAppend
    <3>2. ~(PushBatch \/ Close \/ CloseNull \/ CloseJoin)
      BY DEF PushBatch, Close, CloseNull, CloseJoin
    <3>3. ~(Finalize \/ FinalizeFails \/ Reclose \/ Destroy \/ DestroyNull \/ DestroyJoin)
      BY DEF Finalize, FinalizeFails, Reclose, Destroy, DestroyNull, DestroyJoin
    <3> QED
      BY <1>1, <3>1, <3>2, <3>3 DEF Next, Producer, Gone
  <2>2. Len(queue) \in Nat /\ Len(queue') \in Nat /\ queue \in Seq(Batch \cup {Null})
    BY <1>1 DEF Inv, TypeOK
  <2> USE DEF Waits, Joining, MayGoOn, Backlog, WriterStates
  <2>3. CASE Pop
    <3>1. Len(queue') = Len(queue) - 1
      BY <2>2, <2>3 DEF Pop, try_pop
    <3> QED
      BY <2>2, <2>3, <3>1 DEF Pop
  <2>4. CASE WriteSucceeds
    BY <2>2, <2>4 DEF WriteSucceeds
  <2>5. CASE WriteFails
    BY <2>2, <2>5 DEF WriteFails
  <2>6. CASE Publish
    BY <2>2, <2>6 DEF Publish, Drops
  <2> QED
    BY <2>1, <2>3, <2>4, <2>5, <2>6 DEF Writer
<1>2. Spec => [][Step]_vars
  BY <1>1, InvHolds, PTL DEF Spec
<1> QED
  BY <1>2 DEF WaitShortens

-------------------------------------------------------------------------------
(* The action property and the refinement.                                 *)

\* Once the failure is published, no row is accepted and no file completed.
THEOREM FailureCorrect == Spec => FailureSurfaces
<1> DEFINE Step == failed => /\ accepted' = accepted
                             /\ sink' = "complete" => sink = "complete"
<1>1. ASSUME Inv, [Next]_vars PROVE Step
  <2> SUFFICES ASSUME failed PROVE Step
    OBVIOUS
  <2>1. RaisesFailure
    BY <1>1 DEF Inv, Failure, RaisesFailure
  <2> USE DEF producerVars, writerVars
  <2>2. CASE AppendRow \/ Finalize
    BY <2>1, <2>2 DEF AppendRow, Finalize
  <2>3. CASE Construct \/ ConstructFails \/ AppendOther \/ AppendThrows
    BY <2>3 DEF Construct, ConstructFails, AppendOther, AppendThrows
  <2>4. CASE PushBatch \/ Close \/ CloseNull \/ CloseJoin
    BY <2>4 DEF PushBatch, Close, CloseNull, CloseJoin
  <2>5. CASE FinalizeFails \/ Reclose \/ DestroyNull
    BY <2>5 DEF FinalizeFails, Reclose, DestroyNull
  <2>6. CASE Destroy \/ DestroyJoin
    BY <2>6 DEF Destroy, MustJoin, DestroyJoin, Dropped
  <2>7. CASE Writer
    BY <2>7 DEF Writer, Pop, WriteSucceeds, WriteFails, Publish, Drops
  <2>8. CASE UNCHANGED vars
    BY <2>8 DEF vars
  <2> QED
    BY <1>1, <2>2, <2>3, <2>4, <2>5, <2>6, <2>7, <2>8 DEF Next, Producer, Gone
<1> QED
  BY <1>1, InvHolds, PTL DEF Spec, FailureSurfaces

\* The initial states of the writer are initial states of the sink.
LEMMA RefinesInit == Init => Sink!Init
BY DEF Init, Sink!Init, SinkState

\* Every step of either thread is a step of the sink, or leaves it alone.
LEMMA RefinesStep == Inv /\ Inv' /\ [Next]_vars => [Sink!Next]_(Sink!vars)
<1> SUFFICES ASSUME Inv, Inv', [Next]_vars PROVE [Sink!Next]_(Sink!vars)
  OBVIOUS
<1> USE DEF producerVars, writerVars
<1>1. CASE AppendRow
  <2>1. pc = "idle" /\ joinable /\ ~RaisesFailure
    BY <1>1 DEF AppendRow, CanAppend, Inv, Pill
  <2>2. SinkState = "open"
    BY <2>1 DEF SinkState, Inv, TypeOK, Failure, Completion, RaisesFailure
  <2>3. SinkState' = "open"
    BY <1>1, <2>1, <2>2 DEF SinkState, AppendRow, flush, FinishSucceeds, FinishLeaving, FinishFails
  <2> QED
    BY <1>1, <2>2, <2>3 DEF AppendRow, Sink!Next, Sink!Accept
<1>2. CASE WriteSucceeds
  <2>1. /\ wpc = "write" /\ item \in Batch /\ item.lo = written
        /\ written' = written + num_rows(item) /\ accepted' = accepted
    BY <1>2 DEF WriteSucceeds, Inv, TypeOK, Hands, Failure, RowsInOrder
  <2>2. written' \in written + 1 .. accepted
    <3>1. Sized(item, accepted, closed) /\ accepted \in Nat /\ written \in Nat
      BY <2>1 DEF Inv, TypeOK, Hands, Sizes
    <3>2. num_rows(item) = item.hi - item.lo /\ item.hi \in Nat
      BY <2>1 DEF num_rows, Batch
    <3> QED
      BY <2>1, <3>1, <3>2 DEF Sized
  <2>3. SinkState = "open" /\ SinkState' = SinkState
    BY <1>2 DEF WriteSucceeds, SinkState, Inv, Failure, Completion, Pill
  <2> QED
    BY <2>1, <2>2, <2>3 DEF Sink!Next, Sink!Store
<1>3. CASE Publish
  <2>1. SinkState \in {"open", "broken"} /\ SinkState' = "broken"
    BY <1>3 DEF Publish, Drops, SinkState, Inv, Completion, Pill
  <2> QED
    BY <1>3, <2>1 DEF Publish, Drops, Sink!Next, Sink!Break, Sink!vars
<1>4. CASE Finalize
  <2>1. SinkState = "open" /\ SinkState' = "complete"
    BY <1>4 DEF Finalize, RaisesFailure, SinkState, Inv, TypeOK, Failure, Completion
  <2>2. written = accepted
    BY <1>4 DEF Finalize, Inv, Completion
  <2> QED
    BY <1>4, <2>1, <2>2 DEF Finalize, Sink!Next, Sink!Complete
<1>5. CASE ConstructFails \/ Destroy \/ DestroyJoin
  <2>1. UNCHANGED <<accepted, written>>
    BY <1>5 DEF ConstructFails, Destroy, MustJoin, DestroyJoin
  <2>2. \/ SinkState' = SinkState
        \/ SinkState \in {"open", "broken"} /\ SinkState' = "abandoned"
    BY <1>5 DEF ConstructFails, Destroy, MustJoin, DestroyJoin, Dropped, SinkState, Inv,
                Completion
  <2> QED
    BY <2>1, <2>2 DEF Sink!Next, Sink!Abandon, Sink!vars
<1>6. CASE Construct
  BY <1>6 DEF Construct, SinkState, Sink!vars, Inv, Completion
<1>7. CASE AppendOther \/ AppendThrows \/ PushBatch
  BY <1>7 DEF AppendOther, AppendThrows, CanAppend, PushBatch, SinkState, Sink!vars
<1>8. CASE Close \/ CloseNull \/ CloseJoin
  BY <1>8 DEF Close, flush, FinishSucceeds, FinishLeaving, FinishFails, CloseNull, CloseJoin,
              SinkState, Sink!vars
<1>9. CASE FinalizeFails \/ Reclose \/ DestroyNull
  BY <1>9 DEF FinalizeFails, Reclose, DestroyNull, SinkState, Sink!vars
<1>10. CASE Pop \/ WriteFails
  BY <1>10 DEF Pop, WriteFails, SinkState, Sink!vars
<1>11. CASE UNCHANGED vars
  BY <1>11 DEF vars, SinkState, Sink!vars
<1> QED
  BY <1>1, <1>2, <1>3, <1>4, <1>5, <1>6, <1>7, <1>8, <1>9, <1>10, <1>11
     DEF Next, Producer, Writer, Gone

\* The threaded writer implements the plain sink.
THEOREM Refinement == Spec => ImplementsRowSink
BY RefinesInit, RefinesStep, InvHolds, PTL DEF Spec, ImplementsRowSink, Sink!Spec
===============================================================================
