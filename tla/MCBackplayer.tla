---------------------------- MODULE MCBackplayer ------------------------------
(***************************************************************************)
(* Backplayer for TLC.  The streams hold an empty batch, a batch that      *)
(* passes several progress marks at once, more batches than the queue and  *)
(* the player can hold, a stream without end marker, and bytes behind the  *)
(* end marker.                                                             *)
(***************************************************************************)
EXTENDS Backplayer

Schema == [kind |-> "schema", rows |-> 0]
Eos == [kind |-> "eos", rows |-> 0]
Rows(n) == [kind |-> "batch", rows |-> n]

MCStreams == {<< >>,
              <<Schema, Rows(1), Rows(5), Rows(0), Rows(1), Eos>>,
              <<Schema, Rows(2), Rows(0), Rows(2), Rows(1)>>,
              <<Schema, Eos, Rows(2)>>}

===============================================================================
