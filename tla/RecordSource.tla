----------------------------- MODULE RecordSource -----------------------------
(***************************************************************************)
(* What for_each_record() promises, without the file, the decompressor and *)
(* the buffer: the records of the content in order, one at a time, until   *)
(* the limit or the last of them; and a normal end only there.             *)
(***************************************************************************)
EXTENDS Naturals

VARIABLES
  total,   \* the complete records in the content, up to the first corrupt one
  whole,   \* whether the content is nothing but these
  limit,   \* the limit given, 0 for none
  given,   \* records given to fn
  source   \* "open", "done" or "failed"

contentVars == <<total, whole, limit>>
vars == <<contentVars, given, source>>

Init == /\ total \in Nat /\ whole \in BOOLEAN /\ limit \in Nat
        /\ given = 0 /\ source = "open"

\* The next record; the one that reaches the limit is the last.
Give ==
  /\ source = "open" /\ given < total
  /\ given' = given + 1
  /\ source' = IF given' = limit THEN "done" ELSE "open"
  /\ UNCHANGED contentVars

\* The end of the content.
Finish ==
  /\ source = "open" /\ given = total /\ whole
  /\ source' = "done"
  /\ UNCHANGED <<contentVars, given>>

\* Reading, decoding or fn itself fails, or what is left is no record.
Fail ==
  /\ source = "open"
  /\ source' = "failed"
  /\ UNCHANGED <<contentVars, given>>

Next == Give \/ Finish \/ Fail

Spec == Init /\ [][Next]_vars
===============================================================================
