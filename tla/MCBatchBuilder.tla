--------------------------- MODULE MCBatchBuilder -----------------------------
(***************************************************************************)
(* BatchBuilder for TLC.  64 bits shrink to 6 and 32 to 4, so that every   *)
(* sentinel and sign boundary is there; every other column holds a number  *)
(* of its own, so that no two columns can be mistaken for each other.      *)
(***************************************************************************)
EXTENDS BatchBuilder, Functions

AllColumns == HeaderFields \o MboFields \o <<"depth", "ts_in_delta", "sequence", "ts_out">>

Rec(t, n, changes) == [rtype |-> t, bytes |-> n, value |->
  [c \in Range(AllColumns) |-> IF c \in DOMAIN changes THEN changes[c]
     ELSE CHOOSE i \in 1 .. Len(AllColumns) : AllColumns[i] = c]]

MCRecords ==
  UNION {{Rec(t, MsgSize + TsOutLen,
              [ts_recv |-> Mod64 - 2, price |-> undef_price - 1,
               size |-> undef_order_size - 1, order_id |-> Mod64 - 1]),
          Rec(t, MsgSize + TsOutLen,
              [price |-> undef_price, size |-> undef_order_size,
               ts_recv |-> undef_timestamp, ts_event |-> undef_timestamp,
               ts_out |-> undef_timestamp, order_id |-> Mod64 \div 2])} : t \in {160, 0}}
    \cup {Rec(160, MsgSize, << >>), Rec(0, MsgSize - 1, << >>)}
===============================================================================
