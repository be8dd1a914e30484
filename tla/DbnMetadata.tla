------------------------------ MODULE DbnMetadata -----------------------------
(***************************************************************************)
(* read_metadata() behind the prelude: the fields of the DBN header are    *)
(* taken one after another from the declared number of bytes, through a    *)
(* bounds-checked cursor.  Version 1 and the later ones lay the fixed part *)
(* out differently; then come three lists of symbols and the list of       *)
(* mappings, with the numbers of their entries and the width of a symbol   *)
(* taken from the file itself.                                             *)
(*                                                                         *)
(* What the bytes say is any choice from the sets of widths and counts;    *)
(* the cursor is its position.  Reads of which no value is looked at in    *)
(* between are one step: they throw together or succeed together.          *)
(***************************************************************************)
EXTENDS Naturals, Sequences

CONSTANTS
  Lengths,     \* the metadata lengths a prelude may declare
  Widths,      \* the symbol widths a header may declare
  Counts,      \* the numbers of entries a list may declare
  MaxReserve,  \* the most entries there is memory for
  Word         \* 2^64, where the cursor's additions wrap

ASSUME MetadataAssumption ==
  /\ Lengths \subseteq Nat /\ Widths \subseteq Nat /\ Counts \subseteq Nat
  /\ MaxReserve \in Nat /\ Word \in Nat \ {0}

VARIABLES
  version,    \* md.version
  length,     \* the declared length
  width,      \* md.symbol_cstr_len: what the header says, but for version 1
  at,         \* the cursor's position
  pc,         \* "fixed", "lists", or how it ended: "done", "threw", "bad_alloc"
  field,      \* the next field of the fixed part
  list,       \* the list being read; 0 is none yet
  left,       \* entries of it still to read
  leftIv,     \* intervals of the current mapping still to read
  entries,    \* entries read of each list
  intervals   \* intervals read of all mappings

headVars == <<version, length, width>>
readVars == <<entries, intervals>>
vars == <<headVars, at, pc, field, list, left, leftIv, readVars>>

prelude_versions == 1 .. 3
fixed_len == 100
symbol_cstr_len_v1 == 22
U32 == 4

\* No addition of the cursor wraps: a length has 32 bits, and no read is longer
\* than a symbol, whose width has 16, and the 53 reserved bytes.
ASSUME CursorAssumption ==
  \A n \in Lengths, w \in Widths \cup {symbol_cstr_len_v1} : n + w + 53 < Word

Init ==
  /\ version \in prelude_versions /\ length \in {n \in Lengths : n >= fixed_len}
  /\ width \in IF version = 1 THEN {symbol_cstr_len_v1} ELSE Widths
  /\ at = 0 /\ pc = "fixed" /\ field = 1
  /\ list = 0 /\ left = 0 /\ leftIv = 0
  /\ entries = [l \in 1 .. 4 |-> 0] /\ intervals = 0

-------------------------------------------------------------------------------
(* The cursor.                                                             *)

\* Faulty variant: only the length that is asked for is compared.
NeedFromStart(n) == n <= length

\* need(n) does not throw.
need(n) == (at + n) % Word <= length

Take(n) == need(n) /\ at' = at + n

\* A read that does not fit throws.
Throws(n) == ~need(n) /\ pc' = "threw" /\ UNCHANGED <<headVars, at, field,
                                                      list, left, leftIv, readVars>>

-------------------------------------------------------------------------------
(* The fixed part.                                                         *)

\* Faulty variant: version 1 has its record count left in place.
FixedFieldsNoCount ==
  IF version = 1 THEN <<16, 2, 8, 8, 8, 1, 1, 1, 47, U32>>
                 ELSE <<16, 2, 8, 8, 8, 1, 1, 1, 2, 53, U32>>

\* dataset; schema; start, end, limit; in version 1 record_count; stype_in,
\* stype_out, ts_out; in later versions the symbol width; the reserved bytes;
\* the schema definition length.
FixedFields ==
  IF version = 1 THEN <<16, 2, 8, 8, 8, 8, 1, 1, 1, 47, U32>>
                 ELSE <<16, 2, 8, 8, 8, 1, 1, 1, 2, 53, U32>>

DefinitionField == Len(FixedFields)

\* Faulty variant: a width of zero is taken.
AnyWidth == TRUE

GoodWidth == width # 0

\* One field is read.  Behind the reserved bytes the width is checked, and a
\* schema definition is refused.
ReadFixed ==
  /\ pc = "fixed" /\ Take(FixedFields[field])
  /\ field' = field + 1
  /\ \/ field < DefinitionField - 1 /\ UNCHANGED pc
     \/ field = DefinitionField - 1 /\ pc' = IF GoodWidth THEN "fixed" ELSE "threw"
     \/ field = DefinitionField /\ pc' \in {"lists", "threw"}
  /\ UNCHANGED <<headVars, list, left, leftIv, readVars>>

FixedThrows == pc = "fixed" /\ Throws(FixedFields[field])

-------------------------------------------------------------------------------
(* The lists: symbols, partial, not_found and mappings.                    *)

Mappings == 4
BetweenLists == pc = "lists" /\ left = 0 /\ leftIv = 0
InList == pc = "lists" /\ left > 0 /\ leftIv = 0
InIntervals == pc = "lists" /\ leftIv > 0

\* vector::reserve(c), before any entry is read.
Reserves(c) == pc' \in {pc} \cup (IF c > MaxReserve THEN {"bad_alloc"} ELSE {})

\* read_symbols(), and the mappings: the number of entries.
ReadCount ==
  /\ BetweenLists /\ list < Mappings /\ Take(U32)
  /\ \E c \in Counts : left' = c /\ Reserves(c)
  /\ list' = list + 1
  /\ UNCHANGED <<headVars, field, leftIv, readVars>>

CountThrows == BetweenLists /\ list < Mappings /\ Throws(U32)

EntrySize == IF list = Mappings THEN width + U32 ELSE width

\* A symbol, or the symbol of a mapping and the number of its intervals.
ReadEntry ==
  /\ InList /\ Take(EntrySize)
  /\ left' = left - 1 /\ entries' = [entries EXCEPT ![list] = @ + 1]
  /\ \/ list < Mappings /\ UNCHANGED <<leftIv, pc>>
     \/ list = Mappings /\ \E c \in Counts : leftIv' = c /\ Reserves(c)
  /\ UNCHANGED <<headVars, field, list, intervals>>

EntryThrows == InList /\ Throws(EntrySize)

\* Faulty variant: an interval has one date.
OneDate == U32 + width

\* Two dates and a symbol.
IntervalSize == U32 + U32 + width

ReadInterval ==
  /\ InIntervals /\ Take(IntervalSize)
  /\ leftIv' = leftIv - 1 /\ intervals' = intervals + 1
  /\ UNCHANGED <<headVars, pc, field, list, left, entries>>

IntervalThrows == InIntervals /\ Throws(IntervalSize)

\* Bytes behind the last list are left unread.
Done ==
  /\ BetweenLists /\ list = Mappings
  /\ pc' = "done"
  /\ UNCHANGED <<headVars, at, field, list, left, leftIv, readVars>>

Finished == pc \in {"done", "threw", "bad_alloc"} /\ UNCHANGED vars

Next == \/ ReadFixed \/ FixedThrows \/ ReadCount \/ CountThrows \/ ReadEntry
        \/ EntryThrows \/ ReadInterval \/ IntervalThrows \/ Done \/ Finished

Spec == Init /\ [][Next]_vars

-------------------------------------------------------------------------------
(* Properties.                                                             *)

Symbols == entries[1] + entries[2] + entries[3] + entries[4] + intervals

\* Every variable of the parse keeps its type, and the cursor never passes the
\* end of the declared bytes, so no read is out of bounds.
TypeOK ==
  /\ version \in prelude_versions /\ length \in Lengths /\ at \in 0 .. length
  /\ pc \in {"fixed", "lists", "done", "threw", "bad_alloc"}
  /\ field \in 1 .. Len(FixedFields) + 1 /\ width \in Widths \cup {symbol_cstr_len_v1}
  /\ list \in 0 .. Mappings /\ left \in Nat /\ leftIv \in Nat
  /\ entries \in [1 .. Mappings -> Nat] /\ intervals \in Nat

\* The two layouts of the fixed part have the same length, the one the prelude
\* is checked against, and every version's lists start right behind it and the
\* schema definition length; and what is taken off the lists is, byte for byte,
\* the counts, the symbols, and the dates of the intervals.
ParsedExactly ==
  pc \in {"lists", "done"} =>
    at = fixed_len + U32 + U32 * (list + entries[Mappings]) + 2 * U32 * intervals
           + width * Symbols

\* A header cannot make the parser do more work than it has bytes: symbols read
\* never outnumber them, whatever counts are declared.
WorkBounded == Symbols <= length
===============================================================================
