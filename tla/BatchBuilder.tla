----------------------------- MODULE BatchBuilder -----------------------------
(***************************************************************************)
(* mbo_builder and trades_builder: records are converted column by column  *)
(* into reserved buffers, and finish() turns the buffers into one batch.   *)
(* The validity bitmaps, null counts and character offsets are used again  *)
(* for the next batch; the column order is written down several times (the *)
(* fields of the schema, the arrays of finish()).                          *)
(*                                                                         *)
(* A record has a record type, a size in bytes and a value for every       *)
(* column.  64-bit integers are integers modulo Mod64, 32-bit ones modulo  *)
(* Mod32; the conversions depend on nothing else about their width.  The   *)
(* caller keeps the contract of batch_builder: reserve(), append() up to   *)
(* that many rows, finish().                                               *)
(***************************************************************************)
EXTENDS Integers, Sequences

CONSTANTS
  Mod64, Mod32,\* 2^64 and 2^32
  BatchRows,   \* rows reserved
  MsgSize,     \* sizeof(mbo_msg) or sizeof(trade_msg)
  TsOutLen,    \* dbn::ts_out_len
  Records,     \* the records offered
  MaxRecords,  \* bound: how many are offered
  Null,        \* a null in an array
  Garbage      \* what a reserved buffer holds before it is written

ASSUME BuilderAssumption ==
  /\ BatchRows \in Nat \ {0} /\ MaxRecords \in Nat
  /\ Mod64 \in Nat \ {0} /\ Mod32 \in Nat \ {0} /\ Mod64 % 2 = 0 /\ Mod32 % 2 = 0

VARIABLES
  schema,    \* md.schema, "mbo" or "trades": which builder was made
  ts_out,    \* md.ts_out
  pc,        \* "ready", "finished" (to be reserved again), or "broken"
  rows,      \* rows_
  capacity,  \* capacity_
  cols,      \* the columns
  taken,     \* the records accepted, in order
  skipped,   \* records of other types
  batches    \* the batches finished, in order, each with the number of its first row

vars == <<schema, ts_out, pc, rows, capacity, cols, taken, skipped, batches>>

-------------------------------------------------------------------------------
(* The schema.                                                             *)

rtype == IF schema = "mbo" THEN 160 ELSE 0

HeaderFields == <<"ts_recv", "ts_event", "rtype", "publisher_id", "instrument_id">>
MboFields    == <<"action", "side", "price", "size", "channel_id", "order_id", "flags">>
TradesFields == <<"action", "side", "depth", "price", "size", "flags">>
TailFields   == <<"ts_in_delta", "sequence">> \o (IF ts_out THEN <<"ts_out">> ELSE << >>)

\* schema(): the fields in order.
Fields == HeaderFields \o (IF schema = "mbo" THEN MboFields ELSE TradesFields)
            \o TailFields

\* finish(): the arrays in order.
Arrays == HeaderFields
  \o (IF schema = "mbo"
      THEN <<"action", "side", "price", "size", "channel_id", "order_id", "flags">>
      ELSE <<"action", "side", "depth", "price", "size", "flags">>)
  \o TailFields

Columns == {Fields[i] : i \in 1 .. Len(Fields)}

Chars == {"action", "side"}
Timestamps == {"ts_recv", "ts_event", "ts_out"}

\* Timestamps and order ids are unsigned 64-bit integers.
ASSUME RecordsAssumption ==
  \A r \in Records, c \in Timestamps \cup {"order_id"} : r.value[c] \in 0 .. Mod64 - 1

undef_timestamp  == Mod64 - 1
undef_price      == Mod64 \div 2 - 1
undef_order_size == Mod32 - 1

\* static_cast of an integer to the signed type of Mod values.
ToSigned(v, Mod) == ((v + (Mod \div 2)) % Mod) - (Mod \div 2)

-------------------------------------------------------------------------------
(* One column: reserve(), set(), finish().                                 *)

Released == [vals |-> << >>, valid |-> << >>, nulls |-> 0, offsets |-> << >>]

\* bitmap_ starts all valid.  Faulty variant first: that of the last batch stays.
BitmapKept(col) ==
  IF col.valid = << >> THEN [i \in 1 .. BatchRows |-> TRUE] ELSE col.valid
Bitmap(col) == [i \in 1 .. BatchRows |-> TRUE]

\* char_column: the offsets, built once, serve every batch.
Offsets(c, col) ==
  IF c \in Chars /\ col.offsets = << >>
  THEN [i \in 1 .. BatchRows + 1 |-> ToSigned(i - 1, Mod32)] ELSE col.offsets

\* value_column: the buffer is taken anew.
Buffer == [i \in 1 .. BatchRows |-> Garbage]

Reserve(c, col) == [vals |-> Buffer, valid |-> Bitmap(col), nulls |-> 0,
                    offsets |-> Offsets(c, col)]

\* set_ts, set_price, set_size: what is stored, and whether it is valid.
StoredValue(c, v) == IF c \in Timestamps \cup {"order_id"} THEN ToSigned(v, Mod64) ELSE v

IsValid(c, v) == CASE c \in Timestamps -> v # undef_timestamp
                   [] c = "price" -> v # undef_price
                   [] c = "size" -> v # undef_order_size
                   [] OTHER -> TRUE

\* set(i, v, valid)
SetRow(c, col, i, v) ==
  [vals    |-> [col.vals EXCEPT ![i] = StoredValue(c, v)],
   valid   |-> [col.valid EXCEPT ![i] = @ /\ IsValid(c, v)],
   nulls   |-> IF IsValid(c, v) THEN col.nulls ELSE col.nulls + 1,
   offsets |-> col.offsets]

\* The character between two offsets; other offsets are outside the values.
CharAt(col, from, to) ==
  IF from >= 0 /\ to = from + 1 THEN col.vals[to] ELSE Garbage

\* finish(n): the bitmap is used only if there was a null.
ArrayOf(c, n) == LET col == cols[c] IN
  [i \in 1 .. n |-> IF c \in Chars THEN CharAt(col, col.offsets[i], col.offsets[i + 1])
                    ELSE IF col.nulls # 0 /\ ~col.valid[i] THEN Null ELSE col.vals[i]]

\* base_ is null until the next reserve().
HandedOver(col) == [col EXCEPT !.vals = << >>]

-------------------------------------------------------------------------------
(* The builder.                                                            *)

Init == /\ schema \in {"mbo", "trades"} /\ ts_out \in BOOLEAN
        /\ pc = "finished" /\ rows = 0 /\ capacity = 0
        /\ cols = [c \in Columns |-> Released]
        /\ taken = << >> /\ skipped = 0 /\ batches = << >>

reserve ==
  /\ pc = "finished"
  /\ cols' = [c \in Columns |-> Reserve(c, cols[c])]
  /\ capacity' = BatchRows /\ pc' = "ready"
  /\ UNCHANGED <<schema, ts_out, rows, taken, skipped, batches>>

\* A column cannot be reserved, or one cannot be finished: the caller gives up.
Fails == /\ pc' = "broken"
         /\ UNCHANGED <<schema, ts_out, rows, capacity, cols, taken, skipped, batches>>

ReserveFails == pc = "finished" /\ Fails

\* Faulty variant: one record more than was reserved for.
OfferedToFull == pc = "ready" /\ rows <= BatchRows /\ Len(taken) + skipped < MaxRecords

Offered == pc = "ready" /\ rows < BatchRows /\ Len(taken) + skipped < MaxRecords

\* load(): the record is long enough.
LongEnough(r) == r.bytes >= MsgSize + (IF ts_out THEN TsOutLen ELSE 0)

AppendRow(r) ==
  /\ Offered /\ r.rtype = rtype /\ LongEnough(r)
  /\ cols' = [c \in Columns |-> SetRow(c, cols[c], rows + 1, r.value[c])]
  /\ rows' = rows + 1 /\ taken' = Append(taken, r)
  /\ UNCHANGED <<schema, ts_out, pc, capacity, skipped, batches>>

\* append() returns false, whatever the size.
AppendOther(r) ==
  /\ Offered /\ r.rtype # rtype
  /\ skipped' = skipped + 1
  /\ UNCHANGED <<schema, ts_out, pc, rows, capacity, cols, taken, batches>>

AppendThrows(r) == Offered /\ r.rtype = rtype /\ ~LongEnough(r) /\ Fails

\* finish() of the rows appended so far.  The offsets of a char_column and the
\* bitmap of a nullable_column outlive the batch.
finish ==
  /\ pc = "ready" /\ rows > 0
  /\ batches' = Append(batches,
       [first |-> Len(taken) - rows, num_rows |-> rows,
        columns |-> [i \in 1 .. Len(Arrays) |-> ArrayOf(Arrays[i], rows)]])
  /\ cols' = [c \in Columns |-> HandedOver(cols[c])]
  /\ rows' = 0 /\ capacity' = 0 /\ pc' = "finished"
  /\ UNCHANGED <<schema, ts_out, taken, skipped>>

FinishFails == pc = "ready" /\ rows > 0 /\ Fails

\* The caller has no more use for the builder.
Done == (pc = "broken" \/ Len(taken) + skipped = MaxRecords) /\ UNCHANGED vars

Next == \/ reserve \/ ReserveFails
        \/ \E r \in Records : AppendRow(r) \/ AppendOther(r) \/ AppendThrows(r)
        \/ finish \/ FinishFails \/ Done

Spec == Init /\ [][Next]_vars

-------------------------------------------------------------------------------
(* Properties.                                                             *)

\* Every variable of the builder keeps its type; a row is only ever appended
\* to buffers that are reserved.
TypeOK ==
  /\ schema \in {"mbo", "trades"} /\ ts_out \in BOOLEAN
  /\ pc \in {"ready", "finished", "broken"}
  /\ rows \in 0 .. BatchRows /\ capacity \in {0, BatchRows}
  /\ DOMAIN cols = Columns
  /\ \A c \in Columns : /\ cols[c].nulls \in 0 .. BatchRows
                        /\ Len(cols[c].vals) \in {0, BatchRows}
                        /\ pc = "ready" => Len(cols[c].vals) = BatchRows
  /\ skipped \in Nat

\* The meaning of a value in the output: an undefined price, size or timestamp
\* is null; an unsigned 64-bit value is the signed one it is congruent to.
Meaning(c, v) ==
  IF \/ c = "price" /\ v = Mod64 \div 2 - 1
     \/ c = "size" /\ v = Mod32 - 1
     \/ c \in Timestamps /\ v = Mod64 - 1
  THEN Null
  ELSE IF c \in Timestamps \cup {"order_id"}
       THEN CHOOSE s \in -(Mod64 \div 2) .. Mod64 \div 2 - 1 : (s - v) % Mod64 = 0
       ELSE v

\* Where batch b has to start: behind the batch before it.
StartOf(b) == IF b = 1 THEN 0 ELSE batches[b - 1].first + batches[b - 1].num_rows

\* The batches hold one row for each record accepted, in order, and under each
\* field of the schema the meaning of that field of the record: no value and
\* no null of an earlier batch shows through, no column is in the place of
\* another, and the offsets of the characters are 0, 1, 2, ...  A record that is
\* in no batch yet is still in the builder.
RowsFaithful ==
  /\ Len(taken) = rows + StartOf(Len(batches) + 1)
  /\ \A b \in 1 .. Len(batches) :
       LET batch == batches[b]
       IN /\ batch.first = StartOf(b) /\ Len(batch.columns) = Len(Fields)
          /\ \A i \in 1 .. Len(Fields) :
               /\ Len(batch.columns[i]) = batch.num_rows
               /\ \A k \in 1 .. batch.num_rows :
                    batch.columns[i][k] =
                      Meaning(Fields[i], taken[batch.first + k].value[Fields[i]])
===============================================================================
