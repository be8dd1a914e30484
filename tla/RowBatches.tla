------------------------------ MODULE RowBatches ------------------------------
(***************************************************************************)
(* Arrow record batches, as the two pipelines of nplayer use them: a batch *)
(* is a run of consecutive rows.  Rows are identified by their ordinal in  *)
(* the order in which they were produced, so the batch [lo, hi] holds the  *)
(* rows lo, lo + 1, ..., hi - 1.  What the rows contain is irrelevant to   *)
(* the pipelines; which rows a batch holds, and in which order the batches *)
(* arrive, is all they can get wrong.                                      *)
(***************************************************************************)
EXTENDS Integers, Sequences

CONSTANT Null    \* the null shared_ptr<RecordBatch>: no batch, or the stop pill

Batch == [lo : Nat, hi : Nat]

ASSUME NullAssumption == Null \notin Batch

num_rows(b) == b.hi - b.lo

\* The first n elements of s are batches that, laid end to end, cover exactly
\* the rows from a up to b: none missing, none repeated, none out of order.
Linked(s, n, a, b) ==
  /\ n = 0 => a = b
  /\ n > 0 => s[1].lo = a /\ s[n].hi = b
  /\ \A i \in 1 .. n - 1 : s[i].hi = s[i + 1].lo
===============================================================================
