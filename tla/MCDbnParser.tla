----------------------------- MODULE MCDbnParser ------------------------------
(***************************************************************************)
(* DbnParser for TLC: a few record sequences, their content cut off at any *)
(* byte and packed into one or two zstd frames in every way, with and      *)
(* without an empty frame behind them, and the file cut off at any byte.   *)
(* Bytes inside a record declare a length of 0, so a framing that slips is *)
(* seen at once.                                                           *)
(***************************************************************************)
EXTENDS DbnParser, SequencesExt

MCMeta == 1

\* Declared lengths of the records; 0 is a corrupt one.
RecordLists == {<<3, 1, 2, 3>>, <<2, 0, 1>>}

RecordBytes(n) == <<n>> \o [i \in 1 .. n - 1 |-> 0]

Content(recs) ==
  [i \in 1 .. PreludeLen + MCMeta |-> 0]
    \o FlattenSeq([i \in 1 .. Len(recs) |-> RecordBytes(recs[i])])

\* The ends of the records of the first d bytes of content s.
Records(s, d) ==
  LET from[o \in 0 .. PreludeLen + MCMeta + d] ==
        IF o < d /\ s[o + 1] >= HeaderLen /\ o + s[o + 1] <= d
        THEN <<o + s[o + 1]>> \o from[o + s[o + 1]] ELSE << >>
  IN from[PreludeLen + MCMeta]

\* The frames of d bytes of content, the last of them with or without any.
Packings(d) ==
  {<<[c |-> 2, d |-> d]>>, <<[c |-> 3, d |-> d]>>, <<[c |-> 3, d |-> d], [c |-> 4, d |-> d]>>}
    \cup {<<[c |-> 2, d |-> x], [c |-> 4, d |-> d]>> : x \in 0 .. d}

Packed(s, d) ==
  {[frames |-> p, len |-> l, meta |-> MCMeta, decl |-> s, recs |-> Records(s, d)] :
     p \in Packings(d), l \in 1 .. 4}

EmptyFile == [frames |-> << >>, len |-> 0, meta |-> MCMeta, decl |-> << >>, recs |-> << >>]

MCInputs ==
  UNION {UNION {Packed(Content(r), d) : d \in 0 .. Len(Content(r))} : r \in RecordLists}

MCFiles == {EmptyFile} \cup {x \in MCInputs : WellPacked(x)}
===============================================================================
