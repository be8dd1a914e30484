------------------------------- MODULE Playback -------------------------------
(***************************************************************************)
(* What the backplayer promises of the batches it decodes, without the     *)
(* connection, the decoder and the queue: each is played, in turn, and the *)
(* player stops only when all of them have been.  A stream that breaks off *)
(* may take the batch just decoded with it, and no other.                  *)
(***************************************************************************)
EXTENDS Naturals

VARIABLES
  received,   \* batches and rows decoded, as <<batches, rows>>
  handled,    \* batches and rows played
  lost,       \* batches and rows decoded and never played
  state       \* "open", "over" (the stream ended), "broken" (an error ended it)
              \* or "stopped"

vars == <<received, handled, lost, state>>

Init == /\ received = <<0, 0>> /\ handled = <<0, 0>> /\ lost = <<0, 0>>
        /\ state = "open"

\* A batch is decoded; it may have no rows.
Decode == received'[1] = received[1] + 1 /\ received'[2] >= received[2]

Receive == state = "open" /\ Decode /\ UNCHANGED <<handled, lost, state>>

Play == /\ state # "stopped" /\ handled[1] < received[1]
        /\ handled'[1] = handled[1] + 1 /\ handled'[2] \in handled[2] .. received[2]
        /\ UNCHANGED <<received, lost, state>>

\* The stream ends, ...
End == state = "open" /\ state' = "over" /\ UNCHANGED <<received, handled, lost>>

\* ... or breaks off, ...
Break == state = "open" /\ state' = "broken" /\ UNCHANGED <<received, handled, lost>>

\* ... or breaks off over the batch just decoded.
Lose == /\ state = "open" /\ state' = "broken"
        /\ Decode /\ lost' = <<1, received'[2] - received[2]>>
        /\ UNCHANGED handled

Stop == /\ state # "stopped" /\ state' = "stopped"
        /\ state # "broken" => lost = <<0, 0>>
        /\ \A i \in 1 .. 2 : handled[i] + lost[i] = received[i]
        /\ UNCHANGED <<received, handled, lost>>

Next == Receive \/ Play \/ End \/ Break \/ Lose \/ Stop

Spec == Init /\ [][Next]_vars
===============================================================================
