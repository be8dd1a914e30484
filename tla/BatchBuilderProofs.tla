-------------------------- MODULE BatchBuilderProofs --------------------------
(***************************************************************************)
(* Proofs about BatchBuilder, for both schemas, with and without ts_out,   *)
(* for every batch size, number of records and width of the integers.      *)
(***************************************************************************)
EXTENDS BatchBuilder, TLAPS

\* The 32-bit offsets of a char_column can count the rows of a batch.  The code
\* does not see to it.
OffsetsFit == BatchRows < Mod32 \div 2

Names == {"ts_recv", "ts_event", "rtype", "publisher_id", "instrument_id", "action",
          "side", "price", "size", "channel_id", "order_id", "flags", "depth",
          "ts_in_delta", "sequence", "ts_out"}

\* What a column, an array and a batch are made of.
Value  == {Garbage} \cup {StoredValue(c, r.value[c]) : c \in Names, r \in Records}
Column == [vals    : {<< >>} \cup [1 .. BatchRows -> Value],
           valid   : {<< >>} \cup [1 .. BatchRows -> BOOLEAN],
           nulls   : 0 .. BatchRows,
           offsets : {<< >>} \cup [1 .. BatchRows + 1 -> Int]]

\* A cell of an array; a wrong offset may read outside the buffer.
Cell == Value \cup {Null} \cup {f[x] : f \in [1 .. BatchRows -> Value], x \in Int}
Finished == [first : Nat, num_rows : Nat, columns : Seq(Seq(Cell))]

Types ==
  /\ schema \in {"mbo", "trades"} /\ ts_out \in BOOLEAN
  /\ pc \in {"ready", "finished", "broken"}
  /\ rows \in 0 .. BatchRows /\ capacity \in {0, BatchRows}
  /\ cols \in [Columns -> Column]
  /\ skipped \in Nat /\ taken \in Seq(Records) /\ batches \in Seq(Finished)

\* The record that became row i of the builder.
RowRecord(i) == taken[Len(taken) - rows + i]

\* Between two batches a builder has no rows.
Between == pc = "finished" => rows = 0

\* While it is filled, the buffers of a column are there; the rows appended are
\* the values stored and the validity of their records, the bits of the others
\* are set, and a null among the rows is counted.
Filled ==
  pc = "ready" => \A c \in Columns :
    /\ DOMAIN cols[c].vals = 1 .. BatchRows /\ DOMAIN cols[c].valid = 1 .. BatchRows
    /\ cols[c].nulls <= rows
    /\ \A i \in 1 .. rows :
         /\ cols[c].vals[i] = StoredValue(c, RowRecord(i).value[c])
         /\ cols[c].valid[i] = IsValid(c, RowRecord(i).value[c])
         /\ cols[c].nulls = 0 => cols[c].valid[i]
    /\ \A i \in rows + 1 .. BatchRows : cols[c].valid[i]

\* The offsets of a char_column are built when it is first reserved and stay.
OffsetList == [i \in 1 .. BatchRows + 1 |-> ToSigned(i - 1, Mod32)]
OffsetsBuilt ==
  \A c \in Columns \cap Chars : /\ cols[c].offsets \in {<< >>, OffsetList}
                                /\ pc = "ready" => cols[c].offsets = OffsetList

\* No batch reaches into the rows of the builder.
Behind ==
  /\ rows <= Len(taken)
  /\ \A b \in 1 .. Len(batches) : batches[b].first + batches[b].num_rows <= Len(taken) - rows

Inv == Types /\ Between /\ Filled /\ OffsetsBuilt /\ Behind

USE BuilderAssumption

-------------------------------------------------------------------------------
(* Arithmetic and sequences.                                               *)

\* A number below the modulus, or not far above it, is congruent to itself or
\* to itself less the modulus.
LEMMA SmallMod ==
  ASSUME NEW m \in Nat \ {0}, NEW x \in 0 .. 2 * m - 1
  PROVE  x % m = IF x < m THEN x ELSE x - m
OBVIOUS

\* Half of an even number, twice.
LEMMA Halves ==
  ASSUME NEW m \in Nat \ {0}, m % 2 = 0
  PROVE  /\ m \div 2 \in Nat /\ m \div 2 > 0 /\ m = (m \div 2) + (m \div 2)
OBVIOUS

\* Casting an unsigned integer to the signed type of its width.
LEMMA ToSignedIs ==
  ASSUME NEW m \in Nat \ {0}, m % 2 = 0, NEW v \in 0 .. m - 1
  PROVE  ToSigned(v, m) = IF v < m \div 2 THEN v ELSE v - m
<1> DEFINE h == m \div 2
<1>1. h \in Nat /\ h > 0 /\ m = h + h
  BY Halves
<1> DEFINE x == v + h
<1>2. ToSigned(v, m) = (x % m) - h
  BY DEF ToSigned
<1> HIDE DEF h
<1>3. x \in 0 .. 2 * m - 1
  BY <1>1
<1> HIDE DEF x
<1>4. x % m = IF x < m THEN x ELSE x - m
  BY <1>3, SmallMod
<1>5. ToSigned(v, m) = (IF x < m THEN x ELSE x - m) - h
  BY <1>2, <1>4
<1> QED
  BY <1>1, <1>5 DEF h, x

\* The cast is the only signed integer that is congruent to the unsigned one.
LEMMA Congruent ==
  ASSUME NEW m \in Nat \ {0}, m % 2 = 0, NEW v \in 0 .. m - 1
  PROVE  (CHOOSE s \in -(m \div 2) .. m \div 2 - 1 : (s - v) % m = 0) = ToSigned(v, m)
<1> DEFINE h == m \div 2
           t == IF v < h THEN v ELSE v - m
<1>1. h \in Nat /\ h > 0 /\ m = h + h
  BY Halves
<1>2. ToSigned(v, m) = t
  BY ToSignedIs
<1> HIDE DEF h
<1>3. t \in -h .. h - 1 /\ (t - v) % m = 0
  <2>1. t \in -h .. h - 1 /\ t - v \in {0, -m}
    BY <1>1
  <2>2. 0 % m = 0 /\ (-m) % m = 0
    OBVIOUS
  <2> QED
    BY <2>1, <2>2
<1>4. ASSUME NEW s \in -h .. h - 1, (s - v) % m = 0 PROVE s = t
  <2> DEFINE q == (s - v) \div m
  <2>1. q \in Int /\ s - v = m * q
    BY <1>4
  <2>2. s - v > -(2 * m) /\ s - v < m
    BY <1>1
  <2> HIDE DEF q
  <2>3. q \in {-1, 0}
    <3>1. ~(q >= 1)
      BY <2>1, <2>2
    <3>2. ~(q <= -2)
      BY <2>1, <2>2
    <3> QED
      BY <2>1, <3>1, <3>2
  <2>4. s - v \in {-m, 0}
    BY <2>1, <2>3
  <2> QED
    BY <1>1, <2>4
<1> QED
  BY <1>2, <1>3, <1>4 DEF h

\* A function on 1 .. n is a sequence of length n.
LEMMA FunctionLength ==
  ASSUME NEW S, NEW n \in Nat, NEW f \in [1 .. n -> S]
  PROVE  f \in Seq(S) /\ Len(f) = n
OBVIOUS

-------------------------------------------------------------------------------
(* The columns.                                                            *)

\* finish() puts the arrays in the order of the schema.
LEMMA SameOrder == Arrays = Fields
BY DEF Arrays, Fields, MboFields, TradesFields

\* A schema is a list of names.
LEMMA FieldsType ==
  /\ Fields \in Seq(Names) /\ Len(Fields) \in Nat
  /\ Columns \subseteq Names /\ \A i \in 1 .. Len(Fields) : Fields[i] \in Columns
<1>1. Fields \in Seq(Names)
  <2>1. HeaderFields \in Seq(Names)
    BY DEF HeaderFields, Names
  <2>2. MboFields \in Seq(Names) /\ TradesFields \in Seq(Names)
    BY DEF MboFields, TradesFields, Names
  <2>3. TailFields \in Seq(Names)
    <3>1. <<"ts_in_delta", "sequence">> \in Seq(Names)
      BY DEF Names
    <3>2. <<"ts_out">> \in Seq(Names) /\ << >> \in Seq(Names)
      BY DEF Names
    <3> QED
      BY <3>1, <3>2 DEF TailFields
  <2> QED
    BY <2>1, <2>2, <2>3 DEF Fields
<1> HIDE DEF Fields
<1> QED
  BY <1>1 DEF Columns

\* The columns do not change.
LEMMA SameColumns == ASSUME UNCHANGED <<schema, ts_out>> PROVE Columns' = Columns /\ Fields' = Fields
BY DEF Columns, Fields, TailFields

\* What is stored and marked valid is what the value means.
LEMMA StoredMeans ==
  ASSUME NEW c \in Names, NEW r \in Records
  PROVE  Meaning(c, r.value[c])
           = IF IsValid(c, r.value[c]) THEN StoredValue(c, r.value[c]) ELSE Null
<1> DEFINE v == r.value[c]
<1>1. CASE c \in Timestamps \cup {"order_id"}
  <2>1. v \in 0 .. Mod64 - 1
    BY <1>1, RecordsAssumption
  <2>2. (CHOOSE s \in -(Mod64 \div 2) .. Mod64 \div 2 - 1 : (s - v) % Mod64 = 0)
          = ToSigned(v, Mod64)
    BY <2>1, Congruent
  <2> QED
    BY <1>1, <2>2
    DEF Meaning, IsValid, StoredValue, Timestamps, undef_timestamp
<1>2. CASE c \notin Timestamps \cup {"order_id"}
  BY <1>2 DEF Meaning, IsValid, StoredValue, Timestamps, undef_price, undef_order_size
<1> QED
  BY <1>1, <1>2

\* Offset i is i as long as there are fewer rows than half the range.
LEMMA OffsetIs ==
  ASSUME OffsetsFit, NEW i \in 1 .. BatchRows + 1
  PROVE  OffsetList[i] = i - 1
<1> DEFINE h == Mod32 \div 2
<1>1. h \in Nat /\ Mod32 = h + h /\ BatchRows < h
  BY Halves DEF OffsetsFit
<1> HIDE DEF h
<1>2. i - 1 \in 0 .. Mod32 - 1 /\ i - 1 < h
  BY <1>1
<1>3. ToSigned(i - 1, Mod32) = i - 1
  BY <1>2, ToSignedIs DEF h
<1> QED
  BY <1>3 DEF OffsetList

\* reserve() of a column.
LEMMA ReserveIs ==
  ASSUME NEW c, NEW col \in Column
  PROVE  /\ Reserve(c, col) \in Column
         /\ Reserve(c, col).vals = Buffer
         /\ Reserve(c, col).valid = [i \in 1 .. BatchRows |-> TRUE]
         /\ Reserve(c, col).nulls = 0
         /\ Reserve(c, col).offsets =
              IF c \in Chars /\ col.offsets = << >> THEN OffsetList ELSE col.offsets
<1>1. Buffer \in [1 .. BatchRows -> Value]
  BY DEF Buffer, Value
<1>2. [i \in 1 .. BatchRows |-> TRUE] \in [1 .. BatchRows -> BOOLEAN]
  OBVIOUS
<1>3. Offsets(c, col) = IF c \in Chars /\ col.offsets = << >> THEN OffsetList ELSE col.offsets
  BY DEF Offsets, OffsetList
<1>4. OffsetList \in [1 .. BatchRows + 1 -> Int]
  <2>1. ASSUME NEW i \in 1 .. BatchRows + 1 PROVE ToSigned(i - 1, Mod32) \in Int
    <3>1. Mod32 \div 2 \in Nat
      BY Halves
    <3>2. i - 1 + (Mod32 \div 2) \in Nat
      BY <3>1
    <3>3. ((i - 1) + (Mod32 \div 2)) % Mod32 \in Int
      BY <3>2
    <3> QED
      BY <3>1, <3>3 DEF ToSigned
  <2> QED
    BY <2>1 DEF OffsetList
<1>5. /\ col.offsets \in {<< >>} \cup [1 .. BatchRows + 1 -> Int]
  BY DEF Column
<1> HIDE DEF Buffer, OffsetList
<1> QED
  BY <1>1, <1>2, <1>3, <1>4, <1>5 DEF Reserve, Column, Bitmap

\* set() of row i of a column whose buffers are there.
LEMMA SetRowIs ==
  ASSUME NEW c \in Names, NEW r \in Records, NEW col \in Column, NEW i \in 1 .. BatchRows,
         DOMAIN col.vals = 1 .. BatchRows, DOMAIN col.valid = 1 .. BatchRows,
         col.nulls < BatchRows
  PROVE  LET v == r.value[c]
             new == SetRow(c, col, i, v)
         IN /\ new \in Column
            /\ new.vals = [col.vals EXCEPT ![i] = StoredValue(c, v)]
            /\ new.valid = [col.valid EXCEPT ![i] = col.valid[i] /\ IsValid(c, v)]
            /\ new.nulls = IF IsValid(c, v) THEN col.nulls ELSE col.nulls + 1
            /\ new.offsets = col.offsets
<1> DEFINE v == r.value[c]
<1>1. /\ col.vals \in [1 .. BatchRows -> Value] /\ col.valid \in [1 .. BatchRows -> BOOLEAN]
      /\ col.nulls \in 0 .. BatchRows - 1
      /\ col.offsets \in {<< >>} \cup [1 .. BatchRows + 1 -> Int]
  BY DEF Column
<1>2. StoredValue(c, v) \in Value
  BY DEF Value
<1>3. [col.vals EXCEPT ![i] = StoredValue(c, v)] \in [1 .. BatchRows -> Value]
  BY <1>1, <1>2
<1>4. [col.valid EXCEPT ![i] = col.valid[i] /\ IsValid(c, v)] \in [1 .. BatchRows -> BOOLEAN]
  BY <1>1
<1> HIDE DEF StoredValue, IsValid
<1> QED
  BY <1>1, <1>3, <1>4 DEF SetRow, Column

-------------------------------------------------------------------------------
(* The inductive invariant.                                                *)

\* The columns of a new builder are not reserved.
LEMMA InitInv == Init => Inv
<1> SUFFICES ASSUME Init PROVE Inv
  OBVIOUS
<1>1. Released \in Column
  BY DEF Released, Column
<1>2. Types
  BY <1>1 DEF Init, Types
<1>3. Between /\ Filled /\ Behind
  BY DEF Init, Between, Filled, Behind
<1>4. OffsetsBuilt
  BY DEF Init, OffsetsBuilt, Released
<1> QED
  BY <1>2, <1>3, <1>4 DEF Inv

\* reserve(): every bit is set and there are no rows.
LEMMA ReserveStep == Inv /\ reserve => Inv'
<1> SUFFICES ASSUME Inv, reserve PROVE Inv'
  OBVIOUS
<1>1. /\ pc = "finished" /\ rows = 0 /\ pc' = "ready" /\ capacity' = BatchRows
      /\ UNCHANGED <<schema, ts_out, rows, taken, skipped, batches>>
      /\ cols' = [c \in Columns |-> Reserve(c, cols[c])]
  BY DEF reserve, Inv, Between
<1>2. Columns' = Columns
  BY <1>1, SameColumns
<1>3. \A c \in Columns : cols[c] \in Column /\ cols'[c] = Reserve(c, cols[c])
  BY <1>1 DEF Inv, Types
<1>4. ASSUME NEW c \in Columns
      PROVE  /\ cols'[c] \in Column
             /\ cols'[c].vals = Buffer /\ cols'[c].valid = [i \in 1 .. BatchRows |-> TRUE]
             /\ cols'[c].nulls = 0
             /\ cols'[c].offsets = IF c \in Chars /\ cols[c].offsets = << >>
                                   THEN OffsetList ELSE cols[c].offsets
  <2>1. cols[c] \in Column /\ cols'[c] = Reserve(c, cols[c])
    BY <1>3
  <2>2. /\ Reserve(c, cols[c]) \in Column
        /\ Reserve(c, cols[c]).vals = Buffer
        /\ Reserve(c, cols[c]).valid = [i \in 1 .. BatchRows |-> TRUE]
        /\ Reserve(c, cols[c]).nulls = 0
        /\ Reserve(c, cols[c]).offsets =
             IF c \in Chars /\ cols[c].offsets = << >> THEN OffsetList ELSE cols[c].offsets
    BY <2>1, ReserveIs
  <2> QED
    BY <2>1, <2>2
<1>5. Types'
  <2>1. cols' \in [Columns -> Column]
    BY <1>1, <1>4
  <2> QED
    BY <1>1, <1>2, <2>1 DEF Inv, Types
<1>6. Filled'
  BY <1>1, <1>2, <1>4 DEF Filled, Buffer
<1>7. OffsetsBuilt'
  BY <1>1, <1>2, <1>4 DEF Inv, OffsetsBuilt
<1> QED
  BY <1>1, <1>5, <1>6, <1>7 DEF Inv, Between, Behind

\* append(): the record becomes the next row.
LEMMA AppendStep == ASSUME Inv, NEW r \in Records, AppendRow(r) PROVE Inv'
<1>1. /\ pc = "ready" /\ rows \in 0 .. BatchRows - 1 /\ rows' = rows + 1
      /\ taken' = Append(taken, r)
      /\ UNCHANGED <<schema, ts_out, pc, capacity, skipped, batches>>
      /\ cols' = [c \in Columns |-> SetRow(c, cols[c], rows + 1, r.value[c])]
  BY DEF AppendRow, Offered, Inv, Types
<1>2. Columns' = Columns /\ Columns \subseteq Names
  BY <1>1, SameColumns, FieldsType
<1>3. /\ taken \in Seq(Records) /\ taken' \in Seq(Records) /\ Len(taken') = Len(taken) + 1
      /\ taken'[Len(taken')] = r /\ \A j \in 1 .. Len(taken) : taken'[j] = taken[j]
      /\ Len(taken) \in Nat /\ rows <= Len(taken)
  BY <1>1 DEF Inv, Types, Behind
<1>4. \A c \in Columns :
        /\ cols[c] \in Column /\ cols[c].nulls <= rows
        /\ DOMAIN cols[c].vals = 1 .. BatchRows /\ DOMAIN cols[c].valid = 1 .. BatchRows
  BY <1>1 DEF Inv, Types, Filled
<1>5. ASSUME NEW c \in Columns
      PROVE  /\ cols'[c] \in Column
             /\ cols'[c].vals = [cols[c].vals EXCEPT ![rows + 1] = StoredValue(c, r.value[c])]
             /\ cols'[c].valid = [cols[c].valid EXCEPT
                  ![rows + 1] = cols[c].valid[rows + 1] /\ IsValid(c, r.value[c])]
             /\ cols'[c].nulls = IF IsValid(c, r.value[c]) THEN cols[c].nulls
                                 ELSE cols[c].nulls + 1
             /\ cols'[c].offsets = cols[c].offsets
  <2>1. cols'[c] = SetRow(c, cols[c], rows + 1, r.value[c])
    BY <1>1
  <2>2. /\ c \in Names /\ cols[c] \in Column /\ rows + 1 \in 1 .. BatchRows
        /\ cols[c].nulls < BatchRows
    BY <1>1, <1>2, <1>4 DEF Column
  <2> QED
    BY <1>4, <2>1, <2>2, SetRowIs
<1>6. Types'
  <2>1. cols' \in [Columns -> Column]
    BY <1>1, <1>5
  <2> QED
    BY <1>1, <1>2, <1>3, <2>1 DEF Inv, Types
<1>7. ASSUME NEW i \in 1 .. rows PROVE RowRecord(i)' = RowRecord(i)
  BY <1>1, <1>3 DEF RowRecord
<1>8. ASSUME NEW i \in Nat, i = rows + 1 PROVE RowRecord(i)' = r
  BY <1>1, <1>3, <1>8 DEF RowRecord
<1>9. Filled'
  <2> SUFFICES ASSUME NEW c \in Columns
               PROVE  /\ DOMAIN cols'[c].vals = 1 .. BatchRows
                      /\ DOMAIN cols'[c].valid = 1 .. BatchRows
                      /\ cols'[c].nulls <= rows'
                      /\ \A i \in 1 .. rows' :
                           /\ cols'[c].vals[i] = StoredValue(c, RowRecord(i)'.value[c])
                           /\ cols'[c].valid[i] = IsValid(c, RowRecord(i)'.value[c])
                           /\ cols'[c].nulls = 0 => cols'[c].valid[i]
                      /\ \A i \in rows' + 1 .. BatchRows : cols'[c].valid[i]
    BY <1>1, <1>2 DEF Filled
  <2> DEFINE v == StoredValue(c, r.value[c])
             ok == IsValid(c, r.value[c])
  <2>0. /\ cols'[c].vals = [cols[c].vals EXCEPT ![rows + 1] = v]
        /\ cols'[c].valid = [cols[c].valid EXCEPT ![rows + 1] = cols[c].valid[rows + 1] /\ ok]
        /\ cols'[c].nulls = IF ok THEN cols[c].nulls ELSE cols[c].nulls + 1
        /\ ok \in BOOLEAN
    BY <1>5 DEF IsValid
  <2> HIDE DEF v, ok
  <2>1. /\ cols[c].nulls \in Nat /\ cols[c].nulls <= rows
        /\ cols[c].valid \in [1 .. BatchRows -> BOOLEAN]
    BY <1>4 DEF Column
  <2>2. /\ \A i \in 1 .. rows :
             /\ cols[c].vals[i] = StoredValue(c, RowRecord(i).value[c])
             /\ cols[c].valid[i] = IsValid(c, RowRecord(i).value[c])
             /\ cols[c].nulls = 0 => cols[c].valid[i]
        /\ \A i \in rows + 1 .. BatchRows : cols[c].valid[i]
    BY <1>1 DEF Inv, Filled
  <2>3. DOMAIN cols'[c].vals = 1 .. BatchRows /\ DOMAIN cols'[c].valid = 1 .. BatchRows
    BY <1>4, <1>5
  <2>4. cols'[c].nulls <= rows + 1
    BY <1>1, <2>0, <2>1
  <2>5. ASSUME NEW i \in rows + 2 .. BatchRows PROVE cols'[c].valid[i]
    <3>1. i \in 1 .. BatchRows /\ i \in rows + 1 .. BatchRows /\ i # rows + 1
      BY <1>1
    <3>2. cols'[c].valid[i] = cols[c].valid[i]
      BY <2>0, <2>1, <3>1
    <3> QED
      BY <2>2, <3>1, <3>2
  <2>6. ASSUME NEW i \in 1 .. rows + 1
        PROVE  /\ cols'[c].vals[i] = StoredValue(c, RowRecord(i)'.value[c])
               /\ cols'[c].valid[i] = IsValid(c, RowRecord(i)'.value[c])
               /\ cols'[c].nulls = 0 => cols'[c].valid[i]
    <3>1. CASE i = rows + 1
      <4>1. cols'[c].vals[i] = v
        BY <1>1, <1>4, <2>0, <3>1
      <4>2. cols'[c].valid[i] = ok
        BY <1>1, <1>4, <2>0, <2>1, <2>2, <3>1
      <4>3. cols'[c].nulls = 0 => ok
        BY <2>0, <2>1
      <4> QED
        BY <1>8, <3>1, <4>1, <4>2, <4>3 DEF v, ok
    <3>2. CASE i \in 1 .. rows
      <4>1. i # rows + 1 /\ i \in 1 .. BatchRows
        BY <1>1, <3>2
      <4>2. cols'[c].vals[i] = cols[c].vals[i]
        BY <1>4, <2>0, <4>1
      <4>3. cols'[c].valid[i] = cols[c].valid[i]
        BY <1>4, <2>0, <4>1
      <4>4. cols'[c].nulls = 0 => cols[c].nulls = 0
        BY <2>0, <2>1
      <4> QED
        BY <1>7, <2>2, <3>2, <4>2, <4>3, <4>4
    <3> QED
      BY <1>1, <3>1, <3>2
  <2>7. rows' = rows + 1 /\ rows' + 1 = rows + 2
    BY <1>1
  <2> QED
    BY <2>3, <2>4, <2>5, <2>6, <2>7
<1>10. OffsetsBuilt'
  BY <1>1, <1>2, <1>5 DEF Inv, OffsetsBuilt
<1>11. Behind'
  BY <1>1, <1>3 DEF Inv, Behind
<1> QED
  BY <1>1, <1>6, <1>9, <1>10, <1>11 DEF Inv, Between

\* finish(): an array has a cell for each row.
LEMMA ArrayType ==
  ASSUME Inv, pc = "ready", NEW c \in Columns
  PROVE  ArrayOf(c, rows) \in [1 .. rows -> Cell]
<1> DEFINE col == cols[c]
<1>1. /\ rows \in 0 .. BatchRows /\ BatchRows \in Nat
      /\ col \in Column /\ DOMAIN col.vals = 1 .. BatchRows
      /\ c \in Chars => col.offsets = OffsetList
  BY DEF Inv, Types, Filled, OffsetsBuilt
<1>2. /\ col.vals \in [1 .. BatchRows -> Value]
      /\ col.offsets \in {<< >>} \cup [1 .. BatchRows + 1 -> Int]
  BY <1>1 DEF Column
<1>3. c \in Chars => col.offsets \in [1 .. BatchRows + 1 -> Int]
  BY <1>1, <1>2 DEF OffsetList
<1> HIDE DEF col
<1>4. ASSUME NEW x \in Int, NEW y \in Int PROVE CharAt(col, x, y) \in Cell
  BY <1>2 DEF CharAt, Cell, Value
<1>5. ASSUME NEW i \in 1 .. rows
      PROVE  (IF c \in Chars THEN CharAt(col, col.offsets[i], col.offsets[i + 1])
              ELSE IF col.nulls # 0 /\ ~col.valid[i] THEN Null ELSE col.vals[i]) \in Cell
  <2>1. CASE c \in Chars
    <3>1. col.offsets[i] \in Int /\ col.offsets[i + 1] \in Int
      BY <1>1, <1>3, <2>1
    <3> QED
      BY <1>4, <2>1, <3>1
  <2>2. CASE c \notin Chars
    <3>1. col.vals[i] \in Value
      BY <1>1, <1>2
    <3> QED
      BY <2>2, <3>1 DEF Cell
  <2> QED
    BY <2>1, <2>2
<1> QED
  BY <1>5 DEF ArrayOf, col

\* The cells of an array mean what the records said.
LEMMA ArrayMeans ==
  ASSUME Inv, OffsetsFit, pc = "ready", NEW c \in Columns, NEW k \in 1 .. rows
  PROVE  ArrayOf(c, rows)[k] = Meaning(c, RowRecord(k).value[c])
<1> DEFINE col == cols[c]
           r == RowRecord(k)
           v == StoredValue(c, r.value[c])
           ok == IsValid(c, r.value[c])
<1>1. /\ rows \in 0 .. BatchRows /\ rows <= Len(taken) /\ taken \in Seq(Records)
      /\ c \in Names
  BY FieldsType DEF Inv, Types, Behind
<1>2. r \in Records
  BY <1>1 DEF RowRecord
<1>3. Meaning(c, r.value[c]) = IF ok THEN v ELSE Null
  BY <1>1, <1>2, StoredMeans
<1>4. col.vals[k] = v /\ col.valid[k] = ok /\ (col.nulls = 0 => ok)
  BY DEF Inv, Filled
<1>5. ArrayOf(c, rows)[k] = IF c \in Chars THEN CharAt(col, col.offsets[k], col.offsets[k + 1])
                            ELSE IF col.nulls # 0 /\ ~col.valid[k] THEN Null ELSE col.vals[k]
  BY DEF ArrayOf
<1>6. CASE c \in Chars
  <2>1. ok
    BY <1>6 DEF IsValid, Chars, Timestamps
  <2>2. col.offsets = OffsetList
    BY <1>6 DEF Inv, OffsetsBuilt
  <2>3. k \in 1 .. BatchRows + 1 /\ k + 1 \in 1 .. BatchRows + 1
    BY <1>1
  <2>4. OffsetList[k] = k - 1 /\ OffsetList[k + 1] = (k + 1) - 1
    BY <2>3, OffsetIs
  <2> HIDE DEF col, r, v, ok
  <2>5. CharAt(col, col.offsets[k], col.offsets[k + 1]) = col.vals[k]
    BY <2>2, <2>3, <2>4 DEF CharAt
  <2> QED
    BY <1>3, <1>4, <1>5, <1>6, <2>1, <2>5 DEF r
<1>7. CASE c \notin Chars
  <2> HIDE DEF col, v, ok
  <2> QED
    BY <1>3, <1>4, <1>5, <1>7
<1> QED
  BY <1>6, <1>7

\* finish(): the batch ends where the rows of the builder began anew.
LEMMA FinishStep == Inv /\ finish => Inv'
<1> SUFFICES ASSUME Inv, finish PROVE Inv'
  OBVIOUS
<1> DEFINE batch == [first |-> Len(taken) - rows, num_rows |-> rows,
                     columns |-> [i \in 1 .. Len(Arrays) |-> ArrayOf(Arrays[i], rows)]]
<1>1. /\ pc = "ready" /\ pc' = "finished" /\ rows' = 0 /\ capacity' = 0
      /\ UNCHANGED <<schema, ts_out, taken, skipped>>
      /\ cols' = [c \in Columns |-> HandedOver(cols[c])]
      /\ batches' = Append(batches, batch)
  BY DEF finish
<1>2. Columns' = Columns
  BY <1>1, SameColumns
<1>3. /\ rows \in 0 .. BatchRows /\ taken \in Seq(Records) /\ Len(taken) \in Nat
      /\ rows <= Len(taken) /\ batches \in Seq(Finished)
  BY DEF Inv, Types, Behind
<1>4. \A c \in Columns : cols[c] \in Column /\ cols'[c] = HandedOver(cols[c])
  BY <1>1 DEF Inv, Types
<1>5. ASSUME NEW c \in Columns
      PROVE  cols'[c] \in Column /\ cols'[c].offsets = cols[c].offsets
  <2>1. cols[c] \in Column /\ cols'[c] = HandedOver(cols[c])
    BY <1>4
  <2> QED
    BY <2>1 DEF HandedOver, Column
<1>6. batch \in Finished
  <2>1. Len(Arrays) \in Nat /\ \A i \in 1 .. Len(Arrays) : Arrays[i] \in Columns
    BY FieldsType, SameOrder
  <2>2. ASSUME NEW i \in 1 .. Len(Arrays) PROVE ArrayOf(Arrays[i], rows) \in Seq(Cell)
    <3>1. ArrayOf(Arrays[i], rows) \in [1 .. rows -> Cell]
      BY <1>1, <2>1, ArrayType
    <3> QED
      BY <1>3, <3>1, FunctionLength
  <2>3. [i \in 1 .. Len(Arrays) |-> ArrayOf(Arrays[i], rows)] \in Seq(Seq(Cell))
    BY <2>1, <2>2, FunctionLength
  <2> QED
    BY <1>3, <2>3 DEF Finished
<1>7. batch.first + batch.num_rows = Len(taken)
  BY <1>3
<1> HIDE DEF batch
<1>8. Types'
  <2>1. cols' \in [Columns -> Column]
    BY <1>1, <1>5
  <2>2. batches' \in Seq(Finished)
    BY <1>1, <1>3, <1>6
  <2> QED
    BY <1>1, <1>2, <2>1, <2>2 DEF Inv, Types
<1>9. OffsetsBuilt'
  BY <1>1, <1>2, <1>5 DEF Inv, OffsetsBuilt
<1>10. Behind'
  <2> SUFFICES ASSUME NEW b \in 1 .. Len(batches')
               PROVE  batches'[b].first + batches'[b].num_rows <= Len(taken)
    BY <1>1, <1>3 DEF Behind
  <2>1. CASE b \in 1 .. Len(batches)
    <3>1. batches'[b] = batches[b] /\ batches[b] \in Finished
      BY <1>1, <1>3, <1>6, <2>1
    <3>2. batches[b].first + batches[b].num_rows <= Len(taken) - rows
      BY <2>1 DEF Inv, Behind
    <3> QED
      BY <1>3, <3>1, <3>2 DEF Finished
  <2>2. CASE b = Len(batches) + 1
    BY <1>1, <1>3, <1>6, <1>7, <2>2
  <2> QED
    BY <1>1, <1>3, <1>6, <2>1, <2>2
<1> QED
  BY <1>1, <1>8, <1>9, <1>10 DEF Inv, Between, Filled

\* Giving up leaves everything in place.
LEMMA FailStep == Inv /\ Fails => Inv'
<1> SUFFICES ASSUME Inv, Fails PROVE Inv'
  OBVIOUS
<1>1. pc' = "broken" /\ UNCHANGED <<schema, ts_out, rows, capacity, cols, taken, skipped, batches>>
  BY DEF Fails
<1>2. Columns' = Columns
  BY <1>1, SameColumns
<1>3. Types'
  BY <1>1, <1>2 DEF Inv, Types
<1> QED
  BY <1>1, <1>2, <1>3 DEF Inv, Between, Filled, OffsetsBuilt, Behind

\* A step that leaves the rows and the columns alone.
LEMMA OtherStep ==
  ASSUME Inv, UNCHANGED <<schema, ts_out, pc, rows, capacity, cols, taken, batches>>,
         skipped' \in Nat
  PROVE  Inv'
<1>1. Columns' = Columns
  BY SameColumns
<1>2. Types'
  BY <1>1 DEF Inv, Types
<1>3. \A i : RowRecord(i)' = RowRecord(i)
  BY DEF RowRecord
<1>4. Filled'
  BY <1>1, <1>3 DEF Inv, Filled
<1> QED
  BY <1>1, <1>2, <1>4 DEF Inv, Between, OffsetsBuilt, Behind

\* The steps of Next, one by one.
LEMMA NextInv == Inv /\ [Next]_vars => Inv'
<1> SUFFICES ASSUME Inv, [Next]_vars PROVE Inv'
  OBVIOUS
<1>1. CASE reserve
  BY <1>1, ReserveStep
<1>2. CASE ReserveFails \/ FinishFails
  BY <1>2, FailStep DEF ReserveFails, FinishFails
<1>3. ASSUME NEW r \in Records, AppendRow(r) PROVE Inv'
  BY <1>3, AppendStep
<1>4. ASSUME NEW r \in Records, AppendOther(r) PROVE Inv'
  <2>1. skipped' \in Nat
    BY <1>4 DEF AppendOther, Inv, Types
  <2> QED
    BY <1>4, <2>1, OtherStep DEF AppendOther
<1>5. ASSUME NEW r \in Records, AppendThrows(r) PROVE Inv'
  BY <1>5, FailStep DEF AppendThrows
<1>6. CASE finish
  BY <1>6, FinishStep
<1>7. CASE UNCHANGED vars
  <2>1. skipped' \in Nat
    BY <1>7 DEF vars, Inv, Types
  <2> QED
    BY <1>7, <2>1, OtherStep DEF vars
<1> QED
  BY <1>1, <1>2, <1>3, <1>4, <1>5, <1>6, <1>7 DEF Next, Done

\* In every state the buffers of a builder that is filled hold what its records
\* said, and no bit, null count or offset of an earlier batch stands in them.
THEOREM BuilderInv == Spec => []Inv
<1>1. Init => Inv
  BY InitInv
<1>2. Inv /\ [Next]_vars => Inv'
  BY NextInv
<1> QED
  BY <1>1, <1>2, PTL DEF Spec

\* Every variable keeps its type, and a builder takes rows only while its
\* buffers are reserved.
THEOREM BuilderTypes == Spec => []TypeOK
<1>1. Inv => TypeOK
  <2> SUFFICES ASSUME Inv PROVE TypeOK
    OBVIOUS
  <2>1. cols \in [Columns -> Column]
    BY DEF Inv, Types
  <2>2. ASSUME NEW c \in Columns
        PROVE  /\ cols[c].nulls \in 0 .. BatchRows
               /\ Len(cols[c].vals) \in {0, BatchRows}
               /\ pc = "ready" => Len(cols[c].vals) = BatchRows
    <3>1. /\ cols[c].nulls \in 0 .. BatchRows
          /\ cols[c].vals = << >> \/ cols[c].vals \in [1 .. BatchRows -> Value]
      BY <2>1 DEF Column
    <3>2. cols[c].vals \in [1 .. BatchRows -> Value] => Len(cols[c].vals) = BatchRows
      BY FunctionLength
    <3>3. pc = "ready" => DOMAIN cols[c].vals = 1 .. BatchRows
      BY DEF Inv, Filled
    <3>4. cols[c].vals = << >> => DOMAIN cols[c].vals # 1 .. BatchRows
      <4>1. 1 \in 1 .. BatchRows /\ Len(<< >>) = 0 /\ DOMAIN << >> = {}
        OBVIOUS
      <4> QED
        BY <4>1
    <3> QED
      BY <3>1, <3>2, <3>3, <3>4
  <2> QED
    BY <2>1, <2>2 DEF Inv, Types, TypeOK
<1> QED
  BY <1>1, BuilderInv, PTL

-------------------------------------------------------------------------------
(* Every batch holds its records.                                          *)

\* What one batch has to be.
BatchFaithful(b) ==
  LET batch == batches[b]
  IN /\ batch.first = StartOf(b) /\ Len(batch.columns) = Len(Fields)
     /\ \A i \in 1 .. Len(Fields) :
          /\ Len(batch.columns[i]) = batch.num_rows
          /\ \A k \in 1 .. batch.num_rows : \A c, v :
               c = Fields[i] /\ v = taken[batch.first + k].value[c]
                 => batch.columns[i][k] = Meaning(c, v)

RowsByBatch == /\ Len(taken) = rows + StartOf(Len(batches) + 1)
               /\ \A b \in 1 .. Len(batches) : BatchFaithful(b)

\* RowsFaithful, batch by batch.
LEMMA ByBatch == RowsByBatch => RowsFaithful
<1> SUFFICES ASSUME RowsByBatch, NEW b \in 1 .. Len(batches)
             PROVE  /\ batches[b].first = StartOf(b)
                    /\ Len(batches[b].columns) = Len(Fields)
                    /\ \A i \in 1 .. Len(Fields) :
                         /\ Len(batches[b].columns[i]) = batches[b].num_rows
                         /\ \A k \in 1 .. batches[b].num_rows :
                              batches[b].columns[i][k] =
                                Meaning(Fields[i], taken[batches[b].first + k].value[Fields[i]])
  BY DEF RowsByBatch, RowsFaithful
<1>1. BatchFaithful(b)
  BY DEF RowsByBatch
<1>2. /\ batches[b].first = StartOf(b) /\ Len(batches[b].columns) = Len(Fields)
      /\ \A i \in 1 .. Len(Fields) : Len(batches[b].columns[i]) = batches[b].num_rows
  BY <1>1, Zenon DEF BatchFaithful
<1>3. ASSUME NEW i \in 1 .. Len(Fields), NEW k \in 1 .. batches[b].num_rows
      PROVE  batches[b].columns[i][k] =
               Meaning(Fields[i], taken[batches[b].first + k].value[Fields[i]])
  <2>1. \A c, v : c = Fields[i] /\ v = taken[batches[b].first + k].value[c]
                    => batches[b].columns[i][k] = Meaning(c, v)
    BY <1>1, Zenon DEF BatchFaithful
  <2> QED
    BY <2>1, Zenon
<1> QED
  BY <1>2, <1>3, Zenon

\* A batch stays faithful while records are added behind it.
LEMMA BatchStays ==
  ASSUME Inv, NEW b \in 1 .. Len(batches), BatchFaithful(b),
         UNCHANGED <<schema, ts_out>>,
         \A j \in 1 .. b : batches'[j] = batches[j],
         \A j \in 1 .. Len(taken) : taken'[j] = taken[j]
  PROVE  BatchFaithful(b)'
<1>1. Fields' = Fields
  BY SameColumns
<1>2. batches \in Seq(Finished) /\ taken \in Seq(Records) /\ rows \in Nat
  BY DEF Inv, Types
<1>3. /\ batches[b] \in Finished /\ batches'[b] = batches[b]
      /\ batches[b].first + batches[b].num_rows <= Len(taken) - rows
  BY <1>2 DEF Inv, Behind
<1>4. StartOf(b)' = StartOf(b)
  BY <1>2 DEF StartOf
<1>5. ASSUME NEW k \in 1 .. batches[b].num_rows
      PROVE  taken'[batches[b].first + k] = taken[batches[b].first + k]
  <2>1. /\ batches[b].first \in Nat /\ batches[b].num_rows \in Nat /\ Len(taken) \in Nat
        /\ k \in Nat /\ 1 <= k /\ k <= batches[b].num_rows
    BY <1>2, <1>3 DEF Finished
  <2>2. batches[b].first + k \in 1 .. Len(taken)
    BY <1>2, <1>3, <2>1
  <2> QED
    BY <2>2
<1>6. ASSUME NEW i \in 1 .. Len(Fields), NEW k \in 1 .. batches[b].num_rows, NEW c, NEW v,
             c = Fields[i], v = taken'[batches[b].first + k].value[c]
      PROVE  batches[b].columns[i][k] = Meaning(c, v)
  <2>1. v = taken[batches[b].first + k].value[c]
    BY <1>5, <1>6
  <2>2. \A x, y : x = Fields[i] /\ y = taken[batches[b].first + k].value[x]
                    => batches[b].columns[i][k] = Meaning(x, y)
    BY Zenon DEF BatchFaithful
  <2> QED
    BY <1>6, <2>1, <2>2, Zenon
<1>7. /\ batches[b].first = StartOf(b) /\ Len(batches[b].columns) = Len(Fields)
      /\ \A i \in 1 .. Len(Fields) : Len(batches[b].columns[i]) = batches[b].num_rows
  BY Zenon DEF BatchFaithful
<1>8. /\ batches'[b].first = StartOf(b)' /\ Len(batches'[b].columns) = Len(Fields')
      /\ \A i \in 1 .. Len(Fields') : Len(batches'[b].columns[i]) = batches'[b].num_rows
  BY <1>1, <1>3, <1>4, <1>7
<1>9. ASSUME NEW i \in 1 .. Len(Fields'), NEW k \in 1 .. batches'[b].num_rows, NEW c, NEW v,
             c = Fields'[i], v = taken'[batches'[b].first + k].value[c]
      PROVE  batches'[b].columns[i][k] = Meaning(c, v)
  <2>1. i \in 1 .. Len(Fields) /\ k \in 1 .. batches[b].num_rows
    BY <1>1, <1>3
  <2>2. c = Fields[i] /\ v = taken'[batches[b].first + k].value[c]
    BY <1>1, <1>3, <1>9
  <2>3. batches[b].columns[i][k] = Meaning(c, v)
    BY <1>6, <2>1, <2>2
  <2> QED
    BY <1>3, <2>3
<1>10. \A i \in 1 .. Len(Fields'), k \in 1 .. batches'[b].num_rows : \A c, v :
         c = Fields'[i] /\ v = taken'[batches'[b].first + k].value[c]
           => batches'[b].columns[i][k] = Meaning(c, v)
  BY <1>9, SMT
<1> QED
  BY <1>8, <1>10, Zenon DEF BatchFaithful

\* finish() makes a faithful batch.
LEMMA FinishRows == ASSUME Inv, OffsetsFit, RowsByBatch, finish PROVE RowsByBatch'
<1> DEFINE batch == [first |-> Len(taken) - rows, num_rows |-> rows,
                     columns |-> [i \in 1 .. Len(Arrays) |-> ArrayOf(Arrays[i], rows)]]
           n == Len(batches)
<1>1. /\ pc = "ready" /\ rows' = 0 /\ UNCHANGED <<schema, ts_out, taken>>
      /\ batches' = Append(batches, batch)
  BY DEF finish
<1>2. /\ rows \in 0 .. BatchRows /\ taken \in Seq(Records) /\ Len(taken) \in Nat
      /\ rows <= Len(taken) /\ batches \in Seq(Finished) /\ n \in Nat
  BY DEF Inv, Types, Behind
<1>3. /\ Len(taken) = rows + StartOf(n + 1)
      /\ \A b \in 1 .. n : BatchFaithful(b)
  BY DEF RowsByBatch
<1>4. Fields' = Fields
  BY <1>1, SameColumns
<1>5. /\ Len(Fields) \in Nat /\ \A i \in 1 .. Len(Fields) : Fields[i] \in Columns
  BY FieldsType
<1>6. /\ batch.first = Len(taken) - rows /\ batch.num_rows = rows
      /\ batch.columns = [i \in 1 .. Len(Fields) |-> ArrayOf(Fields[i], rows)]
  BY SameOrder
<1> HIDE DEF batch
<1>7. /\ Len(batches') = n + 1 /\ batches'[n + 1] = batch
      /\ \A j \in 1 .. n : batches'[j] = batches[j]
  BY <1>1, <1>2
<1>8. StartOf(n + 1) \in Int
  <2>1. CASE n = 0
    BY <2>1 DEF StartOf
  <2>2. CASE n > 0
    <3>1. batches[(n + 1) - 1] \in Finished
      BY <1>2, <2>2
    <3> QED
      BY <1>2, <2>2, <3>1 DEF StartOf, Finished
  <2> QED
    BY <1>2, <2>1, <2>2
<1>9. ASSUME NEW b \in Nat, b = n + 1 PROVE StartOf(b)' = StartOf(b)
  BY <1>2, <1>7, <1>9 DEF StartOf
<1>10. ASSUME NEW b \in 1 .. n PROVE BatchFaithful(b)'
  BY <1>1, <1>2, <1>3, <1>7, BatchStays
<1>11. ASSUME NEW b \in Nat, b = n + 1 PROVE BatchFaithful(b)'
  <2>1. batch.first = StartOf(b)'
    BY <1>2, <1>3, <1>6, <1>8, <1>9, <1>11
  <2>2. Len(batch.columns) = Len(Fields)
    <3>1. batch.columns \in [1 .. Len(Fields) -> {ArrayOf(Fields[i], rows) : i \in 1 .. Len(Fields)}]
      BY <1>6
    <3> QED
      BY <1>5, <3>1, FunctionLength
  <2>3. ASSUME NEW i \in 1 .. Len(Fields)
        PROVE  /\ Len(batch.columns[i]) = rows
               /\ \A k \in 1 .. rows :
                    batch.columns[i][k] =
                      Meaning(Fields[i], taken[batch.first + k].value[Fields[i]])
    <3>1. Fields[i] \in Columns /\ batch.columns[i] = ArrayOf(Fields[i], rows)
      BY <1>5, <1>6
    <3>2. ArrayOf(Fields[i], rows) \in [1 .. rows -> Cell]
      BY <1>1, <3>1, ArrayType
    <3>3. Len(batch.columns[i]) = rows
      BY <1>2, <3>1, <3>2, FunctionLength
    <3>4. ASSUME NEW k \in 1 .. rows
          PROVE  batch.columns[i][k] =
                   Meaning(Fields[i], taken[batch.first + k].value[Fields[i]])
      <4>1. ArrayOf(Fields[i], rows)[k] = Meaning(Fields[i], RowRecord(k).value[Fields[i]])
        BY <1>1, <3>1, ArrayMeans
      <4>2. RowRecord(k) = taken[batch.first + k]
        BY <1>6 DEF RowRecord
      <4> QED
        BY <3>1, <4>1, <4>2
    <3> QED
      BY <3>3, <3>4
  <2>4. batches'[b] = batch /\ Fields' = Fields /\ taken' = taken /\ batch.num_rows = rows
    BY <1>1, <1>4, <1>6, <1>7, <1>11
  <2>5. /\ batches'[b].first = StartOf(b)' /\ Len(batches'[b].columns) = Len(Fields')
        /\ \A i \in 1 .. Len(Fields') : Len(batches'[b].columns[i]) = batches'[b].num_rows
    BY <2>1, <2>2, <2>3, <2>4
  <2>6. ASSUME NEW i \in 1 .. Len(Fields'), NEW k \in 1 .. batches'[b].num_rows, NEW c, NEW v,
               c = Fields'[i], v = taken'[batches'[b].first + k].value[c]
        PROVE  batches'[b].columns[i][k] = Meaning(c, v)
    <3>1. i \in 1 .. Len(Fields) /\ k \in 1 .. rows
      BY <2>4
    <3>2. c = Fields[i] /\ v = taken[batch.first + k].value[Fields[i]]
      BY <2>4, <2>6
    <3>3. batch.columns[i][k] = Meaning(c, v)
      BY <2>3, <3>1, <3>2, Zenon
    <3> QED
      BY <2>4, <3>3
  <2>7. \A i \in 1 .. Len(Fields'), k \in 1 .. batches'[b].num_rows : \A c, v :
          c = Fields'[i] /\ v = taken'[batches'[b].first + k].value[c]
            => batches'[b].columns[i][k] = Meaning(c, v)
    BY <2>6, SMT
  <2> QED
    BY <2>5, <2>7, Zenon DEF BatchFaithful
<1>12. ASSUME NEW b \in Nat, b = n + 2 PROVE Len(taken)' = rows' + StartOf(b)'
  <2>1. StartOf(b)' = batch.first + batch.num_rows
    BY <1>2, <1>7, <1>12 DEF StartOf
  <2> QED
    BY <1>1, <1>2, <1>6, <2>1
<1> QED
  <2>1. \A b \in 1 .. Len(batches') : BatchFaithful(b)'
    BY <1>2, <1>7, <1>10, <1>11
  <2>2. Len(taken)' = rows' + StartOf(Len(batches) + 1)'
    BY <1>2, <1>7, <1>12
  <2> QED
    BY <2>1, <2>2 DEF RowsByBatch

\* No other step touches the batches or the records they hold.
LEMMA OtherRows ==
  ASSUME Inv, RowsByBatch, NEW new \in Seq(Records), rows' = rows + Len(new),
         taken' = taken \o new, UNCHANGED <<schema, ts_out, batches>>
  PROVE  RowsByBatch'
<1>1. /\ rows \in Nat /\ taken \in Seq(Records) /\ batches \in Seq(Finished)
  BY DEF Inv, Types
<1>2. \A j \in 1 .. Len(taken) : taken'[j] = taken[j]
  BY <1>1
<1>3. ASSUME NEW b \in 1 .. Len(batches) PROVE BatchFaithful(b)'
  <2>1. BatchFaithful(b)
    BY DEF RowsByBatch
  <2> QED
    BY <1>2, <2>1, BatchStays
<1>4. ASSUME NEW b \in Nat, b = Len(batches) + 1
      PROVE  StartOf(b)' = StartOf(b) /\ StartOf(b) \in Int
  <2>1. StartOf(b)' = StartOf(b)
    BY DEF StartOf
  <2>2. CASE b = 1
    BY <2>1, <2>2 DEF StartOf
  <2>3. CASE b # 1
    <3>1. b - 1 \in 1 .. Len(batches)
      BY <1>1, <1>4, <2>3
    <3>2. batches[b - 1] \in Finished
      BY <1>1, <3>1
    <3> QED
      BY <2>1, <2>3, <3>2 DEF StartOf, Finished
  <2> QED
    BY <2>2, <2>3
<1>5. ASSUME NEW b \in Nat, b = Len(batches) + 1 PROVE Len(taken)' = rows' + StartOf(b)'
  <2>1. Len(taken) = rows + StartOf(b)
    BY <1>5 DEF RowsByBatch
  <2>2. Len(taken') = Len(taken) + Len(new) /\ Len(new) \in Nat
    BY <1>1
  <2>3. StartOf(b)' = StartOf(b) /\ StartOf(b) \in Int
    BY <1>4, <1>5
  <2> QED
    BY <1>1, <2>1, <2>2, <2>3
<1>6. Len(taken)' = rows' + StartOf(Len(batches) + 1)'
  BY <1>1, <1>5
<1> QED
  BY <1>3, <1>6 DEF RowsByBatch

\* The batches hold one row for each record accepted, in order and in the columns
\* of the schema, with the meaning of every value, for every sequence of
\* reserve(), append() and finish(), if the offsets of a char_column can count
\* the rows of a batch.
THEOREM RowsCorrect == ASSUME OffsetsFit PROVE Spec => []RowsFaithful
<1>1. Init => RowsByBatch
  BY DEF Init, RowsByBatch, StartOf
<1>2. ASSUME Inv, RowsByBatch, [Next]_vars PROVE RowsByBatch'
  <2>0. rows \in Nat /\ taken \in Seq(Records) /\ << >> \in Seq(Records)
    BY <1>2 DEF Inv, Types
  <2>1. ASSUME NEW r \in Records, AppendRow(r) PROVE RowsByBatch'
    <3> DEFINE new == <<r>>
    <3>1. /\ new \in Seq(Records) /\ Len(new) = 1 /\ taken' = taken \o new /\ rows' = rows + 1
          /\ UNCHANGED <<schema, ts_out, batches>>
      BY <2>0, <2>1, SMTT(30) DEF AppendRow
    <3> HIDE DEF new
    <3> QED
      BY <1>2, <3>1, OtherRows
  <2>2. CASE finish
    BY <1>2, <2>2, FinishRows
  <2>3. CASE UNCHANGED <<schema, ts_out, rows, taken, batches>>
    <3> DEFINE new == << >>
    <3>1. new \in Seq(Records) /\ taken' = taken \o new /\ rows' = rows + Len(new)
      BY <2>0, <2>3
    <3> HIDE DEF new
    <3> QED
      BY <1>2, <2>3, <3>1, OtherRows
  <2> QED
    BY <1>2, <2>1, <2>2, <2>3
    DEF Next, vars, reserve, ReserveFails, Fails, AppendOther, AppendThrows, FinishFails, Done
<1>3. RowsByBatch => RowsFaithful
  BY ByBatch
<1> QED
  BY <1>1, <1>2, <1>3, BuilderInv, PTL DEF Spec

===============================================================================
