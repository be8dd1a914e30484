------------------------------- MODULE RowSink --------------------------------
(***************************************************************************)
(* What ParquetWriter promises, without its threads, batches and queue: a  *)
(* file that takes rows one at a time, stores them in order at its leisure,*)
(* and in the end is complete with all of them or is not complete at all.  *)
(* A sink whose storing failed takes no further row and never completes.   *)
(***************************************************************************)
EXTENDS Naturals

VARIABLES
  offered,   \* rows taken from the caller
  stored,    \* rows in the file: the first `stored' of those offered
  state      \* "open", "broken", "complete" or "abandoned"

vars == <<offered, stored, state>>

Init == offered = 0 /\ stored = 0 /\ state = "open"

Accept == /\ state = "open"
          /\ offered' = offered + 1
          /\ UNCHANGED <<stored, state>>

Store == /\ state = "open"
         /\ stored' \in stored + 1 .. offered
         /\ UNCHANGED <<offered, state>>

Break == /\ state = "open"
         /\ state' = "broken"
         /\ UNCHANGED <<offered, stored>>

Complete == /\ state = "open" /\ stored = offered
            /\ state' = "complete"
            /\ UNCHANGED <<offered, stored>>

Abandon == /\ state \in {"open", "broken"}
           /\ state' = "abandoned"
           /\ UNCHANGED <<offered, stored>>

Next == Accept \/ Store \/ Break \/ Complete \/ Abandon

Spec == Init /\ [][Next]_vars
===============================================================================
