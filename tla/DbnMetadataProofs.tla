-------------------------- MODULE DbnMetadataProofs --------------------------
(***************************************************************************)
(* Proofs about DbnMetadata, for every declared length, symbol width and   *)
(* number of entries, in which no addition of the cursor wraps.            *)
(*                                                                         *)
(* The position is tied to the field being read in the fixed part (Fixed), *)
(* and to the counts, symbols and dates read in the lists (Parsed); a list *)
(* is being read when entries are left (Reading).                          *)
(***************************************************************************)
EXTENDS DbnMetadata, TLAPS

\* Where each field of the fixed part starts, and where the lists do.
Offsets == IF version = 1 THEN <<0, 16, 18, 26, 34, 42, 50, 51, 52, 53, 100, 104>>
                          ELSE <<0, 16, 18, 26, 34, 42, 43, 44, 45, 47, 100, 104>>

Fixed == pc = "fixed" => /\ field \in 1 .. 11 /\ at = Offsets[field]
                         /\ field = 11 => width # 0
                         /\ list = 0 /\ entries = [l \in 1 .. 4 |-> 0] /\ intervals = 0

\* The bytes taken off the lists, with the fixed part ahead of them.
Taken == 104 + 4 * (list + entries[4]) + 8 * intervals + width * Symbols

Parsed == pc \in {"lists", "done", "bad_alloc"} => at = Taken /\ width # 0

Reading == (left > 0 => list \in 1 .. 4) /\ (leftIv > 0 => list = 4)

Inv == TypeOK /\ Fixed /\ Parsed /\ Reading /\ WorkBounded

USE MetadataAssumption, CursorAssumption
USE DEF headVars, readVars

\* The fixed part of either layout: its fields, and that they adjoin.
LEMMA Layout ==
  ASSUME TypeOK
  PROVE  /\ Len(FixedFields) = 11 /\ DefinitionField = 11
         /\ Offsets[1] = 0 /\ Offsets[12] = 104
         /\ \A k \in 1 .. 11 : /\ FixedFields[k] \in 1 .. 53
                               /\ Offsets[k + 1] = Offsets[k] + FixedFields[k]
BY DEF FixedFields, DefinitionField, Offsets, U32

\* need(n) does not throw exactly when the bytes are there.
LEMMA NeedExact ==
  ASSUME TypeOK, NEW n \in Nat, n <= width + 53
  PROVE  need(n) <=> at + n <= length
<1>1. /\ length \in Lengths /\ length \in Nat /\ at \in 0 .. length
      /\ width \in Widths \cup {symbol_cstr_len_v1} /\ width \in Nat
  BY DEF TypeOK, symbol_cstr_len_v1
<1>2. length + width + 53 < Word
  BY <1>1
<1>3. at + n \in Nat /\ at + n < Word
  BY <1>1, <1>2
<1>4. (at + n) % Word = at + n
  BY <1>3
<1> QED
  BY <1>4 DEF need

\* Behind the prelude the cursor is at the first field.
LEMMA InitInv == Init => Inv
<1> SUFFICES ASSUME Init PROVE Inv
  OBVIOUS
<1> USE DEF Init
<1>1. /\ length \in Nat /\ entries \in [1 .. 4 -> Nat]
      /\ width \in Widths \cup {symbol_cstr_len_v1}
  OBVIOUS
<1>2. TypeOK
  BY <1>1 DEF TypeOK, FixedFields, Mappings, U32
<1>3. Fixed
  BY DEF Fixed, Offsets
<1>4. Parsed /\ Reading
  BY DEF Parsed, Reading
<1>5. WorkBounded
  BY <1>1 DEF WorkBounded, Symbols
<1> QED
  BY <1>2, <1>3, <1>4, <1>5 DEF Inv

\* The numbers the parse works with.
LEMMA Numbers ==
  ASSUME TypeOK
  PROVE  /\ length \in Nat /\ at \in Nat /\ at <= length /\ width \in Nat
         /\ entries[1] \in Nat /\ entries[2] \in Nat /\ entries[3] \in Nat
         /\ entries[4] \in Nat /\ intervals \in Nat /\ Symbols \in Nat
BY SMTT(30) DEF TypeOK, Symbols, symbol_cstr_len_v1, Mappings

\* Every symbol takes at least a byte.
LEMMA SymbolsBounded == TypeOK /\ at = Taken /\ width # 0 => WorkBounded
<1> SUFFICES ASSUME TypeOK, at = Taken, width # 0 PROVE WorkBounded
  OBVIOUS
<1> DEFINE s == Symbols
<1>1. s \in Nat /\ width \in Nat \ {0} /\ at \in Nat /\ at <= length /\ length \in Nat
  BY Numbers
<1>2. width * s >= s
  <2> HIDE DEF s
  <2> QED
    BY <1>1
<1>3. at >= width * s
  <2>1. /\ list \in Nat /\ entries[4] \in Nat /\ intervals \in Nat
        /\ at = 104 + 4 * (list + entries[4]) + 8 * intervals + width * s
    BY Numbers DEF TypeOK, Taken, Mappings
  <2>2. width * s \in Nat
    BY <1>1
  <2> HIDE DEF s
  <2> QED
    BY <2>1, <2>2
<1> HIDE DEF s
<1>4. s <= length
  BY <1>1, <1>2, <1>3
<1> QED
  BY <1>4 DEF WorkBounded, s

\* No symbols take nothing, and a further one takes its width.
LEMMA OneMore ==
  ASSUME NEW w \in Nat, NEW n \in Nat
  PROVE  w * 0 = 0 /\ w * (n + 1) = w * n + w
OBVIOUS

\* A read that throws leaves everything else as it is.
LEMMA ThrowStep == ASSUME Inv, NEW n, Throws(n) PROVE Inv'
<1>1. TypeOK'
  BY DEF Inv, TypeOK, Throws, FixedFields
<1> QED
  BY <1>1 DEF Inv, Throws, Fixed, Parsed, Reading, WorkBounded, Symbols

\* A field of the fixed part.
LEMMA FixedStep == Inv /\ ReadFixed => Inv'
<1> SUFFICES ASSUME Inv, ReadFixed PROVE Inv'
  OBVIOUS
<1>0. TypeOK /\ Fixed /\ Reading /\ WorkBounded
  BY DEF Inv
<1>1. /\ field \in 1 .. 11 /\ at = Offsets[field] /\ (field = 11 => width # 0)
      /\ list = 0 /\ entries = [l \in 1 .. 4 |-> 0] /\ intervals = 0 /\ pc = "fixed"
  BY <1>0 DEF ReadFixed, Fixed
<1> DEFINE n == FixedFields[field]
<1>2. n \in 1 .. 53 /\ Offsets[field + 1] = Offsets[field] + n /\ DefinitionField = 11
  BY <1>0, <1>1, Layout
<1>3. need(n) /\ at' = at + n /\ field' = field + 1
  BY DEF ReadFixed, Take
<1> HIDE DEF n
<1>4. at' \in 0 .. length /\ at' = Offsets[field']
  <2>1. n \in Nat /\ n <= width + 53
    BY <1>0, <1>2, Numbers
  <2>2. at + n <= length
    BY <1>0, <1>3, <2>1, NeedExact
  <2> QED
    BY <1>0, <1>1, <1>2, <1>3, <2>2, Numbers
<1>5. /\ UNCHANGED <<version, length, width, list, left, leftIv, entries, intervals>>
      /\ \/ field < 10 /\ pc' = "fixed"
         \/ field = 10 /\ pc' = (IF GoodWidth THEN "fixed" ELSE "threw")
         \/ field = 11 /\ pc' \in {"lists", "threw"}
  BY <1>1, <1>2 DEF ReadFixed
<1>6. Offsets' = Offsets /\ Offsets[12] = 104
  BY <1>0, <1>5, Layout DEF Offsets
<1>7. TypeOK'
  <2>1. field' \in 1 .. Len(FixedFields') + 1
    BY <1>1, <1>3 DEF FixedFields
  <2>2. pc' \in {"fixed", "lists", "done", "threw", "bad_alloc"}
    BY <1>5
  <2> QED
    BY <1>0, <1>4, <1>5, <2>1, <2>2 DEF TypeOK
<1>8. Fixed'
  BY <1>1, <1>3, <1>4, <1>5, <1>6 DEF Fixed, GoodWidth
<1>9. Parsed'
  <2> SUFFICES ASSUME pc' = "lists" PROVE at' = Taken' /\ width' # 0
    BY <1>5 DEF Parsed
  <2>1. at' = 104 /\ width # 0
    BY <1>1, <1>3, <1>4, <1>5, <1>6
  <2>2. Symbols' = 0 /\ width' \in Nat
    BY <1>0, <1>1, <1>5, Numbers DEF Symbols
  <2>3. width' * 0 = 0
    BY <2>2, OneMore
  <2> QED
    BY <1>1, <1>5, <2>1, <2>2, <2>3 DEF Taken
<1>10. Reading' /\ WorkBounded'
  BY <1>0, <1>5 DEF Reading, WorkBounded, Symbols
<1> QED
  BY <1>7, <1>8, <1>9, <1>10 DEF Inv

\* The number of entries of the next list.
LEMMA CountStep == Inv /\ ReadCount => Inv'
<1> SUFFICES ASSUME Inv, ReadCount PROVE Inv'
  OBVIOUS
<1>0. TypeOK /\ Parsed /\ Reading
  BY DEF Inv
<1>1. /\ pc = "lists" /\ leftIv = 0 /\ list < 4 /\ list' = list + 1
      /\ need(4) /\ at' = at + 4 /\ left' \in Nat /\ pc' \in {"lists", "bad_alloc"}
      /\ UNCHANGED <<version, length, width, field, leftIv, entries, intervals>>
  BY DEF ReadCount, BetweenLists, Mappings, Take, U32, Reserves
<1>2. at' \in 0 .. length
  BY <1>0, <1>1, NeedExact, Numbers
<1>3. TypeOK'
  BY <1>0, <1>1, <1>2 DEF TypeOK, Mappings, FixedFields
<1>4. at' = Taken' /\ width' # 0
  <2>1. at = Taken /\ width # 0
    BY <1>0, <1>1 DEF Parsed
  <2>2. Symbols' = Symbols /\ width * Symbols \in Nat
    BY <1>0, <1>1, Numbers DEF Symbols
  <2> DEFINE p == width * Symbols
  <2>3. p \in Nat /\ width' * Symbols' = p
    BY <1>1, <2>2
  <2>4. at = 104 + 4 * (list + entries[4]) + 8 * intervals + p
    BY <2>1 DEF Taken
  <2> HIDE DEF p
  <2>5. list \in Nat /\ entries[4] \in Nat /\ intervals \in Nat
    BY <1>0, Numbers DEF TypeOK, Mappings
  <2>6. at' = 104 + 4 * (list' + entries'[4]) + 8 * intervals' + p
    BY <1>1, <2>4, <2>5, <2>3
  <2> QED
    BY <1>1, <2>1, <2>3, <2>6 DEF Taken
<1>5. WorkBounded'
  <2>1. (TypeOK /\ at = Taken /\ width # 0 => WorkBounded)'
    BY SymbolsBounded, PTL
  <2> QED
    BY <1>3, <1>4, <2>1
<1> QED
  BY <1>0, <1>1, <1>3, <1>4, <1>5, Numbers DEF Inv, Fixed, Parsed, Reading, TypeOK, Mappings

\* A symbol, or the symbol of a mapping with the number of its intervals.
LEMMA EntryStep == Inv /\ ReadEntry => Inv'
<1> SUFFICES ASSUME Inv, ReadEntry PROVE Inv'
  OBVIOUS
<1>0. TypeOK /\ Parsed /\ Reading
  BY DEF Inv
<1>1. /\ pc = "lists" /\ left \in Nat /\ left > 0 /\ list \in 1 .. 4 /\ leftIv = 0
      /\ need(EntrySize) /\ at' = at + EntrySize
      /\ left' = left - 1 /\ entries' = [entries EXCEPT ![list] = @ + 1]
      /\ UNCHANGED <<version, length, width, field, list, intervals>>
  BY <1>0 DEF ReadEntry, InList, Take, Reading, TypeOK
<1>2. /\ leftIv' \in Nat /\ (leftIv' > 0 => list = 4) /\ pc' \in {"lists", "bad_alloc"}
  BY <1>0, <1>1 DEF ReadEntry, Mappings, Reserves
<1>3. /\ EntrySize = (IF list = 4 THEN width + 4 ELSE width)
      /\ EntrySize \in Nat /\ EntrySize <= width + 53
  BY <1>0, Numbers DEF EntrySize, Mappings, U32
<1>4. at' \in 0 .. length
  BY <1>0, <1>1, <1>3, NeedExact, Numbers
<1>5. entries' \in [1 .. 4 -> Nat]
  BY <1>0, <1>1, SMTT(30) DEF TypeOK, Mappings
<1>6. TypeOK'
  BY <1>0, <1>1, <1>2, <1>4, <1>5 DEF TypeOK, Mappings, FixedFields
<1>7. Symbols' = Symbols + 1 /\ entries'[4] = entries[4] + (IF list = 4 THEN 1 ELSE 0)
  <2>1. /\ entries[1] \in Nat /\ entries[2] \in Nat /\ entries[3] \in Nat
        /\ entries[4] \in Nat /\ intervals \in Nat /\ entries \in [1 .. 4 -> Nat]
    BY <1>0, Numbers DEF TypeOK, Mappings
  <2>2. \A l \in 1 .. 4 : entries'[l] = IF l = list THEN entries[l] + 1 ELSE entries[l]
    BY <1>1, <2>1
  <2>3. entries'[1] + entries'[2] + entries'[3] + entries'[4]
          = entries[1] + entries[2] + entries[3] + entries[4] + 1
    BY <1>1, <2>1, <2>2
  <2> QED
    BY <1>1, <2>1, <2>2, <2>3 DEF Symbols
<1>8. at' = Taken' /\ width' # 0
  <2> DEFINE p == width * Symbols
  <2>1. at = 104 + 4 * (list + entries[4]) + 8 * intervals + p /\ width # 0
    BY <1>0, <1>1 DEF Parsed, Taken
  <2>2. width' * Symbols' = p + width
    BY <1>0, <1>1, <1>7, OneMore, Numbers
  <2>3. p \in Nat /\ width \in Nat /\ list \in Nat /\ entries[4] \in Nat /\ intervals \in Nat
    BY <1>0, Numbers DEF TypeOK, Mappings
  <2> HIDE DEF p
  <2>4. at' = 104 + 4 * (list' + entries'[4]) + 8 * intervals' + (p + width)
    BY <1>1, <1>3, <1>7, <2>1, <2>3
  <2> QED
    BY <1>1, <2>1, <2>2, <2>4 DEF Taken
<1>9. WorkBounded'
  <2>1. (TypeOK /\ at = Taken /\ width # 0 => WorkBounded)'
    BY SymbolsBounded, PTL
  <2> QED
    BY <1>6, <1>8, <2>1
<1> QED
  BY <1>1, <1>2, <1>6, <1>8, <1>9 DEF Inv, Fixed, Parsed, Reading

\* An interval of a mapping.
LEMMA IntervalStep == Inv /\ ReadInterval => Inv'
<1> SUFFICES ASSUME Inv, ReadInterval PROVE Inv'
  OBVIOUS
<1>0. TypeOK /\ Parsed /\ Reading
  BY DEF Inv
<1>1. /\ pc = "lists" /\ pc' = pc /\ leftIv \in Nat /\ leftIv > 0 /\ leftIv' = leftIv - 1
      /\ need(IntervalSize) /\ at' = at + IntervalSize /\ intervals' = intervals + 1
      /\ UNCHANGED <<version, length, width, field, list, left, entries>>
  BY <1>0 DEF ReadInterval, InIntervals, Take, TypeOK
<1>3. IntervalSize = width + 8 /\ IntervalSize \in Nat /\ IntervalSize <= width + 53
  BY <1>0, Numbers DEF IntervalSize, U32
<1>4. at' \in 0 .. length
  BY <1>0, <1>1, <1>3, NeedExact, Numbers
<1>6. TypeOK'
  BY <1>0, <1>1, <1>4 DEF TypeOK, Mappings, FixedFields
<1>7. Symbols' = Symbols + 1
  BY <1>0, <1>1, Numbers DEF Symbols
<1>8. at' = Taken' /\ width' # 0
  <2> DEFINE p == width * Symbols
  <2>1. at = 104 + 4 * (list + entries[4]) + 8 * intervals + p /\ width # 0
    BY <1>0, <1>1 DEF Parsed, Taken
  <2>2. width' * Symbols' = p + width
    BY <1>0, <1>1, <1>7, OneMore, Numbers
  <2>3. p \in Nat /\ width \in Nat /\ list \in Nat /\ entries[4] \in Nat /\ intervals \in Nat
    BY <1>0, Numbers DEF TypeOK, Mappings
  <2> HIDE DEF p
  <2>4. at' = 104 + 4 * (list' + entries'[4]) + 8 * intervals' + (p + width)
    BY <1>1, <1>3, <2>1, <2>3
  <2> QED
    BY <1>1, <2>1, <2>2, <2>4 DEF Taken
<1>9. WorkBounded'
  <2>1. (TypeOK /\ at = Taken /\ width # 0 => WorkBounded)'
    BY SymbolsBounded, PTL
  <2> QED
    BY <1>6, <1>8, <2>1
<1> QED
  BY <1>0, <1>1, <1>6, <1>8, <1>9 DEF Inv, Fixed, Parsed, Reading

\* The inductive invariant of the parse.
THEOREM MetadataInv == Spec => []Inv
<1>1. Inv /\ [Next]_vars => Inv'
  <2> SUFFICES ASSUME Inv, [Next]_vars PROVE Inv'
    OBVIOUS
  <2>1. CASE ReadFixed \/ ReadCount \/ ReadEntry \/ ReadInterval
    BY <2>1, FixedStep, CountStep, EntryStep, IntervalStep
  <2>2. CASE FixedThrows \/ CountThrows \/ EntryThrows \/ IntervalThrows
    BY <2>2, ThrowStep DEF FixedThrows, CountThrows, EntryThrows, IntervalThrows
  <2>3. CASE Done
    <3>1. pc = "lists" /\ pc' = "done"
          /\ UNCHANGED <<version, length, width, at, field, list, left, leftIv, entries, intervals>>
      BY <2>3 DEF Done, BetweenLists
    <3>2. TypeOK'
      BY <3>1 DEF Inv, TypeOK, FixedFields
    <3> QED
      BY <3>1, <3>2 DEF Inv, Fixed, Parsed, Taken, Reading, WorkBounded, Symbols
  <2>4. CASE Finished \/ UNCHANGED vars
    <3>1. TypeOK'
      BY <2>4 DEF Finished, vars, Inv, TypeOK, FixedFields
    <3> QED
      BY <2>4, <3>1 DEF Finished, vars, Inv, Fixed, Offsets, Parsed, Taken, Reading,
                        WorkBounded, Symbols
  <2> QED
    BY <2>1, <2>2, <2>3, <2>4 DEF Next
<1> QED
  BY InitInv, <1>1, PTL DEF Spec

\* Every variable keeps its type, and the cursor never passes the end of the
\* declared bytes.
THEOREM MetadataTypes == Spec => []TypeOK
<1>1. Inv => TypeOK
  BY DEF Inv
<1> QED
  BY MetadataInv, <1>1, PTL

\* What is taken off the header is, byte for byte, its fixed part, the counts,
\* the symbols and the dates.
THEOREM MetadataExact == Spec => []ParsedExactly
<1>1. Inv => ParsedExactly
  <2> SUFFICES ASSUME Inv, pc \in {"lists", "done"}
               PROVE  at = fixed_len + U32 + U32 * (list + entries[Mappings])
                             + 2 * U32 * intervals + width * Symbols
    BY DEF ParsedExactly
  <2> DEFINE p == width * Symbols
  <2>1. at = 104 + 4 * (list + entries[4]) + 8 * intervals + p
    BY DEF Inv, Parsed, Taken
  <2>2. p \in Nat /\ list \in Nat /\ entries[4] \in Nat /\ intervals \in Nat
    BY Numbers DEF Inv, TypeOK, Mappings
  <2> HIDE DEF p
  <2>3. at = fixed_len + U32 + U32 * (list + entries[Mappings]) + 2 * U32 * intervals + p
    BY <2>1, <2>2 DEF fixed_len, U32, Mappings
  <2> QED
    BY <2>3 DEF p
<1> QED
  BY MetadataInv, <1>1, PTL

\* Symbols read never outnumber the bytes of the header, whatever counts it
\* declares.
THEOREM MetadataWork == Spec => []WorkBounded
<1>1. Inv => WorkBounded
  BY DEF Inv
<1> QED
  BY MetadataInv, <1>1, PTL
===============================================================================
