----------------------------- MODULE SingleQueue ------------------------------
(***************************************************************************)
(* nlib::single_queue<shared_ptr<RecordBatch>>, the bounded queue with one *)
(* producer thread and one consumer thread that joins the two halves of    *)
(* both pipelines.  nlib is a git submodule, so the queue is modelled from *)
(* its uses: try_push(v) returns false, leaving v with its caller, when    *)
(* the queue is full, and try_pop() returns nothing when it is empty.  A   *)
(* failed call only makes its caller sleep and try again, so each of the   *)
(* two is an action that waits for its condition.                          *)
(***************************************************************************)
EXTENDS RowBatches

CONSTANT Depth    \* capacity given to the constructor

ASSUME DepthAssumption == Depth \in Nat \ {0}

VARIABLE queue

\* Faulty variant: a push that does not fail on a full queue.
try_push_unbounded(v) == queue' = Append(queue, v)

try_push(v) == /\ Len(queue) < Depth
               /\ queue' = Append(queue, v)

try_pop(v) == /\ queue # << >>
              /\ v = Head(queue)
              /\ queue' = Tail(queue)

\* The elements ahead of the stop pill.  A pill is pushed last, so it is the
\* only null pointer in the queue and sits at the end.
DataLen == IF queue # << >> /\ queue[Len(queue)] = Null
           THEN Len(queue) - 1
           ELSE Len(queue)
===============================================================================
