---------------------------- MODULE DbnParserProofs ---------------------------
(***************************************************************************)
(* What the streaming decoder does with every file, for every size of the  *)
(* input buffer and of the output chunk: the framing never slips, the      *)
(* buffer stays small, a complete file is not called truncated, and        *)
(* for_each_record() gives its caller what a RecordSource promises.        *)
(***************************************************************************)
EXTENDS DbnParser, TLAPS

Frames == Len(input.frames)
Active == {"prelude", "metadata", "records"}

\* Where zstd is.  What is in the input buffer and not consumed is all that has
\* been read beyond k, and what has been delivered is what was dropped from
\* buf_ and what is in it.  Between two frames zstd is at the end of the last;
\* inside one, it is past the start of the frame or has input to go on with.
Stream ==
  /\ frame <= Frames + 1
  /\ k + inSize = fpos + inPos
  /\ f = base + size
  /\ frame <= Frames => k < Fr.c /\ f <= Fr.d
  /\ FrameEnd(input, frame - 1).c <= k /\ FrameEnd(input, frame - 1).d <= f
  /\ ~in_frame => /\ k = FrameEnd(input, frame - 1).c
                  /\ f = FrameEnd(input, frame - 1).d
  /\ in_frame => /\ frame <= Frames
                 /\ k > FrameEnd(input, frame - 1).c \/ inPos < inSize

\* Which loop waits for bytes, and how few it has.
Waiting ==
  /\ filling => /\ pc \in Active
                /\ pc = "prelude" => size < PreludeLen
                /\ pc = "metadata" => size < MetaEnd
                /\ pc = "records" => pos = 0 /\ size < MaxRecord
  /\ pc \in {"prelude", "metadata"} => base = 0 /\ pos = 0 /\ count = 0

\* The records given to fn are the first of the content's.
Prefix ==
  /\ count <= Len(input.recs)
  /\ count > 0 \/ pc = "records" => base + pos = RecordEnd(input, count)

Inv == /\ TypeOK /\ Stream /\ Waiting /\ Prefix
       /\ RecordsFramed /\ BufferBounded /\ NoFalseTruncation

\* The parts of the type invariant: positions, control and what fn was given.
PositionTypes ==
  /\ fpos \in 0 .. input.len /\ inSize \in 0 .. InSize /\ inPos \in 0 .. inSize
  /\ frame \in Nat \ {0} /\ k \in Nat /\ f \in Nat
  /\ base \in Nat /\ size \in Nat /\ pos \in 0 .. size
ControlTypes ==
  /\ input \in Inputs /\ limit \in Limits
  /\ in_frame \in BOOLEAN /\ filling \in BOOLEAN /\ pc \in Active \cup Endings
YieldTypes == count \in Nat /\ yielded \in Seq(Batch)

\* The parts are the whole.
LEMMA TypeParts == TypeOK <=> PositionTypes /\ ControlTypes /\ YieldTypes
  BY DEF TypeOK, PositionTypes, ControlTypes, YieldTypes, Active

\* The sizes are numbers.
LEMMA Numbers ==
  /\ InSize \in Nat /\ InSize > 0 /\ OutChunk \in Nat /\ OutChunk > 0
  /\ PreludeLen \in Nat /\ PreludeLen > 0 /\ HeaderLen \in Nat /\ HeaderLen > 0
  /\ MaxRecord \in Nat /\ MaxRecord > 0 /\ FixedLen \in Nat
  BY ParserAssumption

\* What the assumptions say of one file.
LEMMA FileFacts ==
  ASSUME NEW x \in Inputs
  PROVE  /\ x.frames \in Seq(Frame) /\ x.len \in Nat /\ x.meta \in Nat
         /\ x.decl \in Seq(0 .. MaxRecord) /\ x.recs \in Seq(Nat)
         /\ WellPacked(x) /\ WellFramed(x)
  BY ParserAssumption DEF File

\* Frame ends are offsets.
LEMMA FrameEndType ==
  ASSUME NEW x \in Inputs, NEW i \in 0 .. Len(x.frames)
  PROVE  FrameEnd(x, i).c \in Nat /\ FrameEnd(x, i).d \in Nat
<1>1. x.frames \in Seq(Frame)
  BY FileFacts
<1>2. CASE i = 0
  BY <1>2 DEF FrameEnd
<1>3. CASE i # 0
  <2>1. i \in 1 .. Len(x.frames)
    BY <1>1, <1>3
  <2>2. x.frames[i] \in Frame
    BY <1>1, <2>1
  <2> QED BY <1>3, <2>2 DEF FrameEnd, Frame
<1> QED BY <1>2, <1>3

\* Record ends are offsets.
LEMMA RecordEndType ==
  ASSUME NEW x \in Inputs, NEW i \in 0 .. Len(x.recs)
  PROVE  RecordEnd(x, i) \in Nat
<1>1. x.recs \in Seq(Nat) /\ x.meta \in Nat
  BY FileFacts
<1>2. CASE i = 0
  BY <1>1, <1>2, Numbers DEF RecordEnd
<1>3. CASE i # 0
  BY <1>1, <1>3 DEF RecordEnd
<1> QED BY <1>2, <1>3

\* Every offset inside the content declares a length.
LEMMA DeclaredType ==
  ASSUME NEW x \in Inputs, NEW o \in Nat, o < LastFrame(x).d
  PROVE  x.decl[o + 1] \in 0 .. MaxRecord
<1>1. x.decl \in Seq(0 .. MaxRecord) /\ x.frames \in Seq(Frame) /\ WellPacked(x)
  BY FileFacts
<1>2. LastFrame(x).d \in Nat
  BY <1>1, FrameEndType DEF LastFrame
<1>3. o + 1 \in 1 .. Len(x.decl)
  BY <1>1, <1>2 DEF WellPacked
<1>4. ASSUME NEW S, NEW s \in Seq(S), NEW n \in 1 .. Len(s)
      PROVE  s[n] \in S
  OBVIOUS
<1> QED BY <1>1, <1>3, <1>4

\* What has been delivered is content that is there.
LEMMA Delivered ==
  ASSUME TypeOK, Stream
  PROVE  f <= LastFrame(input).d
<1>1. input \in Inputs /\ f \in Nat /\ frame \in Nat \ {0}
  BY DEF TypeOK
<1>2. input.frames \in Seq(Frame) /\ WellPacked(input)
  BY <1>1, FileFacts
<1>3. LastFrame(input).d \in Nat
  BY <1>1, <1>2, FrameEndType DEF LastFrame
<1>4. CASE frame <= Frames
  <2>1. frame \in 0 .. Frames /\ Frames \in 0 .. Frames
    BY <1>1, <1>2, <1>4 DEF Frames
  <2>2. FrameEnd(input, frame) = Fr
    BY <1>1 DEF FrameEnd, Fr
  <2>3. f <= Fr.d /\ Fr.d \in Nat
    BY <1>1, <1>4, <2>1, <2>2, FrameEndType DEF Stream, Frames
  <2>4. frame < Frames => Fr.d <= LastFrame(input).d
    BY <1>2, <2>1, <2>2 DEF WellPacked, LastFrame, Frames
  <2>5. frame = Frames => Fr.d = LastFrame(input).d
    BY <2>2 DEF LastFrame, Frames
  <2> QED BY <1>1, <1>2, <1>3, <1>4, <2>3, <2>4, <2>5 DEF Frames
<1>5. CASE ~(frame <= Frames)
  <2>1. frame - 1 = Frames
    BY <1>1, <1>2, <1>5 DEF Stream, Frames
  <2>2. ~in_frame
    BY <1>5 DEF Stream
  <2> QED BY <1>3, <2>1, <2>2 DEF Stream, LastFrame, Frames
<1> QED BY <1>4, <1>5

\* The initial states satisfy the invariant.
LEMMA InitInv == Init => Inv
<1> SUFFICES ASSUME Init PROVE Inv
  OBVIOUS
<1>1. input \in Inputs /\ limit \in Limits
  BY DEF Init
<1>2. /\ input.frames \in Seq(Frame) /\ input.len \in Nat /\ input.meta \in Nat
      /\ input.recs \in Seq(Nat) /\ WellPacked(input)
  BY <1>1, FileFacts
<1>3. TypeOK
  <2>1. YieldTypes
    BY DEF Init, YieldTypes
  <2>2. PositionTypes
    BY <1>2, Numbers DEF Init, PositionTypes
  <2>3. ControlTypes
    BY <1>1 DEF Init, ControlTypes, Active
  <2> QED BY <2>1, <2>2, <2>3, TypeParts
<1>4. Stream
  <2>1. FrameEnd(input, frame - 1) = [c |-> 0, d |-> 0]
    BY DEF Init, FrameEnd
  <2>2. ASSUME frame <= Frames PROVE k < Fr.c /\ f <= Fr.d
    <3>1. 0 \in 0 .. Frames /\ 1 \in 0 .. Frames
      BY <1>2, <2>2 DEF Init, Frames
    <3>2. FrameEnd(input, 1) = Fr /\ FrameEnd(input, 0) = [c |-> 0, d |-> 0]
      BY DEF Init, FrameEnd, Fr
    <3> QED BY <1>2, <3>1, <3>2 DEF Init, WellPacked, Frames
  <2> QED BY <1>2, <2>1, <2>2 DEF Init, Stream, Frames
<1>5. Waiting /\ Prefix
  BY <1>2, Numbers DEF Init, Waiting, Prefix, Active
<1>6. RecordsFramed
  BY DEF Init, RecordsFramed
<1>7. BufferBounded
  BY <1>2, Numbers DEF Init, BufferBounded, MetaEnd
<1>8. NoFalseTruncation
  BY DEF Init, NoFalseTruncation
<1> QED BY <1>3, <1>4, <1>5, <1>6, <1>7, <1>8 DEF Inv

\* A failure changes nothing but where the parser is.
LEMMA FailStep ==
  ASSUME Inv, NEW why \in Endings, Fail(why), why = "truncated" => ~EndsBetweenFrames
  PROVE  Inv'
<1>1. TypeOK'
  BY DEF Inv, TypeOK, Fail, streamVars, inputVars, zstdVars, bufVars, yieldVars
<1>2. Stream'
  BY DEF Inv, Stream, Frames, Fr, Fail, streamVars, inputVars, zstdVars, bufVars
<1>3. pc' \notin Active
  BY DEF Fail, Endings, Active
<1>4. Waiting' /\ Prefix' /\ RecordsFramed' /\ BufferBounded' /\ NoFalseTruncation'
  BY <1>3 DEF Inv, Waiting, Prefix, RecordsFramed, BufferBounded, NoFalseTruncation,
     EndsBetweenFrames, MetaEnd, DeclaredAt, Active, Fail, streamVars, inputVars,
     zstdVars, bufVars, yieldVars
<1> QED BY <1>1, <1>2, <1>4 DEF Inv

\* fread() moves the file's position and the input buffer together.
LEMMA ReadStep == Inv /\ FileRead => Inv'
<1> SUFFICES ASSUME Inv, FileRead PROVE Inv'
  OBVIOUS
<1>1. UNCHANGED <<input, limit, frame, k, f, in_frame, base, size, pos, filling, pc,
                  count, yielded>>
  BY DEF FileRead, zstdVars, bufVars, yieldVars
<1>2. input \in Inputs /\ input.len \in Nat
  BY FileFacts DEF Inv, TypeOK
<1>3. /\ inPos' = 0 /\ inSize' \in 1 .. InSize /\ fpos' \in 0 .. input.len
      /\ fpos' = fpos + inSize' /\ inPos = inSize
  BY <1>2, Numbers DEF Inv, TypeOK, FileRead
<1>4. TypeOK'
  <2>1. PositionTypes'
    BY <1>1, <1>3, Numbers, TypeParts DEF Inv, PositionTypes
  <2>2. ControlTypes' /\ YieldTypes'
    BY <1>1, TypeParts DEF Inv, ControlTypes, YieldTypes
  <2> QED BY <2>1, <2>2, TypeParts DEF TypeOK, PositionTypes, ControlTypes, YieldTypes, Active
<1>5. Stream'
  <2>1. (k + inSize = fpos + inPos)'
    BY <1>1, <1>3 DEF Inv, Stream, TypeOK
  <2>2. (inPos < inSize)'
    BY <1>3, Numbers
  <2> QED BY <1>1, <2>1, <2>2 DEF Inv, Stream, Frames, Fr
<1>6. Waiting' /\ Prefix' /\ RecordsFramed' /\ BufferBounded' /\ NoFalseTruncation'
  BY <1>1 DEF Inv, Waiting, Prefix, RecordsFramed, BufferBounded, NoFalseTruncation,
     EndsBetweenFrames, MetaEnd, DeclaredAt
<1> QED BY <1>4, <1>5, <1>6 DEF Inv

\* At the end of the file zstd has consumed all of it: it stops inside a frame
\* only if the frame is not all there, and otherwise at the end of the last.
LEMMA AtEndOfFile ==
  ASSUME Inv, EndOfFile
  PROVE  /\ in_frame => ~EndsBetweenFrames
         /\ ~in_frame => EndsBetweenFrames /\ base + size = LastFrame(input).d
<1>1. /\ input \in Inputs /\ f \in Nat /\ k \in Nat /\ frame \in Nat \ {0}
      /\ inPos \in Nat /\ inSize \in Nat /\ fpos \in Nat
  BY Numbers, FileFacts DEF Inv, TypeOK
<1>2. input.frames \in Seq(Frame) /\ WellPacked(input) /\ input.len \in Nat
  BY <1>1, FileFacts
<1>3. k = input.len /\ inPos = inSize
  BY <1>1, <1>2 DEF Inv, Stream, EndOfFile
<1>4. /\ Frames \in Nat /\ \A i \in 0 .. Frames : FrameEnd(input, i).c \in Nat
      /\ \A i \in 0 .. Frames - 1 : FrameEnd(input, i).c < input.len
      /\ \A i, j \in 0 .. Frames : i < j => FrameEnd(input, i).c < FrameEnd(input, j).c
      /\ LastFrame(input) = FrameEnd(input, Frames)
      /\ input.len <= FrameEnd(input, Frames).c
  BY <1>1, <1>2, FrameEndType DEF WellPacked, Frames, LastFrame
<1>5. ASSUME in_frame PROVE ~EndsBetweenFrames
  <2>1. frame \in 1 .. Frames /\ k < Fr.c
    BY <1>1, <1>4, <1>5 DEF Inv, Stream
  <2>2. Fr = FrameEnd(input, frame) /\ Fr.c \in Nat
    BY <1>4, <2>1 DEF Fr, FrameEnd
  <2>3. frame < Frames => Fr.c < FrameEnd(input, Frames).c
    BY <1>4, <2>1, <2>2
  <2>4. frame = Frames => Fr.c = FrameEnd(input, Frames).c
    BY <2>2
  <2>5. k < FrameEnd(input, Frames).c
    BY <1>1, <1>4, <2>1, <2>2, <2>3, <2>4
  <2> QED BY <1>1, <1>3, <1>4, <2>5 DEF EndsBetweenFrames
<1>6. ASSUME ~in_frame PROVE EndsBetweenFrames /\ base + size = LastFrame(input).d
  <2>1. k = FrameEnd(input, frame - 1).c /\ f = FrameEnd(input, frame - 1).d
    BY <1>6 DEF Inv, Stream
  <2>2. frame - 1 \in 0 .. Frames
    BY <1>1, <1>4 DEF Inv, Stream
  <2>3. frame - 1 = Frames
    BY <1>1, <1>3, <1>4, <2>1, <2>2
  <2> QED BY <1>3, <1>4, <2>1, <2>3 DEF EndsBetweenFrames, Inv, Stream
<1> QED BY <1>5, <1>6

\* One call of zstd moves through one frame, or to the start of the next.
LEMMA DecompressStep == Inv /\ Decompress => Inv'
<1> SUFFICES ASSUME Inv, Decompress PROVE Inv'
  OBVIOUS
<1>1. UNCHANGED <<input, limit, fpos, inSize, base, pos, pc, count, yielded>>
  BY DEF Decompress, yieldVars
<1>2. /\ input \in Inputs /\ f \in Nat /\ k \in Nat /\ frame \in Nat \ {0}
      /\ inPos \in Nat /\ inSize \in Nat /\ fpos \in Nat /\ size \in Nat /\ base \in Nat
      /\ fpos <= input.len
  BY Numbers, FileFacts DEF Inv, TypeOK
<1>3. input.frames \in Seq(Frame) /\ WellPacked(input) /\ input.len \in Nat /\ input.meta \in Nat
  BY <1>2, FileFacts
<1>4. /\ Frames \in Nat
      /\ \A i \in 0 .. Frames : FrameEnd(input, i).c \in Nat /\ FrameEnd(input, i).d \in Nat
      /\ \A i, j \in 0 .. Frames : i < j => /\ FrameEnd(input, i).c < FrameEnd(input, j).c
                                            /\ FrameEnd(input, i).d <= FrameEnd(input, j).d
      /\ input.len <= FrameEnd(input, Frames).c
  BY <1>2, <1>3, FrameEndType DEF WellPacked, Frames, LastFrame
<1>5. filling /\ inPos < inSize
  BY DEF Decompress
<1>6. PICK a \in 0 .. inSize - inPos, o \in 0 .. OutChunk :
        /\ decompressStream(a, o)
        /\ inPos' = inPos + a
        /\ size' = size + o
        /\ filling' = (o = 0)
        /\ in_frame' = ~FrameEnds(a, o)
        /\ k' = k + a /\ f' = f + o
        /\ frame' = IF FrameEnds(a, o) THEN frame + 1 ELSE frame
  BY DEF Decompress
<1>7. a \in Nat /\ o \in Nat /\ a <= inSize - inPos /\ o <= OutChunk
  BY <1>2, Numbers
<1>8. frame \in 1 .. Frames
  <2>1. k < FrameEnd(input, Frames).c
    BY <1>2, <1>3, <1>4, <1>5 DEF Inv, Stream
  <2>2. frame - 1 # Frames
    BY <1>2, <1>4, <2>1 DEF Inv, Stream
  <2> QED BY <1>2, <1>4, <2>2 DEF Inv, Stream
<1>9. /\ Fr = FrameEnd(input, frame) /\ Fr.c \in Nat /\ Fr.d \in Nat
      /\ k < Fr.c /\ f <= Fr.d
  BY <1>4, <1>8 DEF Fr, FrameEnd, Inv, Stream
<1>10. /\ k' = k + a /\ f' = f + o /\ k' <= Fr.c /\ f' <= Fr.d /\ a + o > 0
       /\ k' = Fr.c => f' = Fr.d
  BY <1>2, <1>6, <1>7, <1>9 DEF decompressStream, KeepsLastByte
<1>11. TypeOK'
  <2>1. PositionTypes'
    BY <1>1, <1>2, <1>6, <1>7, Numbers, TypeParts DEF Inv, PositionTypes
  <2>2. ControlTypes'
    BY <1>1, <1>6, TypeParts DEF Inv, ControlTypes
  <2>3. YieldTypes'
    BY <1>1, TypeParts DEF Inv, YieldTypes
  <2> QED BY <2>1, <2>2, <2>3
       DEF TypeOK, PositionTypes, ControlTypes, YieldTypes, Active
<1>12. Stream'
  <2>1. (k + inSize = fpos + inPos)' /\ (f = base + size)'
    BY <1>1, <1>2, <1>6, <1>7 DEF Inv, Stream
  <2>2. CASE FrameEnds(a, o)
    <3>1. k' = Fr.c /\ f' = Fr.d /\ frame' = frame + 1 /\ ~in_frame'
      BY <1>6, <2>2 DEF FrameEnds
    <3>2. frame' - 1 = frame /\ Frames' = Frames
      BY <1>1, <1>8, <3>1 DEF Frames
    <3>3. FrameEnd(input', frame' - 1) = Fr
      BY <1>1, <1>9, <3>2
    <3>4. ASSUME (frame <= Frames)' PROVE (k < Fr.c /\ f <= Fr.d)'
      <4>1. frame + 1 \in 0 .. Frames /\ frame \in 0 .. Frames
        BY <1>4, <1>8, <3>1, <3>2, <3>4
      <4>2. Fr' = FrameEnd(input, frame + 1)
        BY <1>1, <1>8, <3>1 DEF Fr, FrameEnd
      <4> QED BY <1>4, <1>8, <1>9, <3>1, <4>1, <4>2
    <3> QED BY <1>4, <1>8, <1>9, <2>1, <3>1, <3>2, <3>3, <3>4 DEF Stream
  <2>3. CASE ~FrameEnds(a, o)
    <3>1. frame' = frame /\ in_frame' /\ Fr' = Fr /\ Frames' = Frames
      BY <1>1, <1>6, <2>3 DEF Fr, Frames
    <3>2. k' < Fr.c
      BY <1>2, <1>6, <1>7, <1>9, <1>10, <2>3 DEF FrameEnds
    <3>3. FrameEnd(input', frame' - 1) = FrameEnd(input, frame - 1)
      BY <1>1, <3>1
    <3>4. FrameEnd(input, frame - 1).c \in Nat /\ FrameEnd(input, frame - 1).d \in Nat
      BY <1>4, <1>8
    <3>5. /\ FrameEnd(input, frame - 1).c <= k' /\ FrameEnd(input, frame - 1).d <= f'
          /\ k' > FrameEnd(input, frame - 1).c \/ inPos' < inSize'
      BY <1>1, <1>2, <1>5, <1>6, <1>7, <3>4 DEF Inv, Stream
    <3>6. frame <= Frames + 1 /\ frame <= Frames
      BY <1>4, <1>8
    <3> QED BY <1>10, <2>1, <3>1, <3>2, <3>3, <3>5, <3>6 DEF Stream
  <2> QED BY <2>2, <2>3
<1>13. Waiting'
  <2>1. filling' => o = 0
    BY <1>6, Zenon
  <2>2. o = 0 => size' = size
    BY <1>2, <1>6
  <2> QED BY <1>1, <1>5, <2>1, <2>2 DEF Inv, Waiting, MetaEnd
<1>14. Prefix' /\ RecordsFramed'
  BY <1>1 DEF Inv, Prefix, RecordsFramed, MetaEnd, DeclaredAt
<1>15. BufferBounded'
  <2>1. size < (IF MetaEnd > MaxRecord THEN MetaEnd ELSE MaxRecord)
    BY <1>2, <1>3, <1>5, Numbers DEF Inv, Waiting, MetaEnd, Active
  <2> QED BY <1>1, <1>2, <1>3, <1>6, <1>7, <2>1, Numbers DEF BufferBounded, MetaEnd
<1>16. NoFalseTruncation'
  BY <1>1 DEF Inv, NoFalseTruncation, EndsBetweenFrames
<1> QED BY <1>11, <1>12, <1>13, <1>14, <1>15, <1>16 DEF Inv

\* The steps of read_metadata().
LEMMA MetadataStep == Inv /\ (MetadataFill \/ Prelude \/ Metadata) => Inv'
<1> SUFFICES ASSUME Inv, MetadataFill \/ Prelude \/ Metadata PROVE Inv'
  OBVIOUS
<1> USE DEF streamVars, inputVars, zstdVars, bufVars, yieldVars
<1>1. UNCHANGED <<input, limit, fpos, inPos, inSize, frame, k, f, in_frame, base, size,
                  count, yielded>>
  BY DEF MetadataFill, Prelude, Metadata
<1>2. input \in Inputs /\ size \in Nat /\ pos \in 0 .. size
  BY DEF Inv, TypeOK
<1>3. input.meta \in Nat /\ MetaEnd \in Nat
  BY <1>2, FileFacts, Numbers DEF MetaEnd
<1>4. /\ pc \in {"prelude", "metadata"} /\ base = 0 /\ pos = 0 /\ count = 0
      /\ pos' \in 0 .. size
      /\ pc' \in {"prelude", "metadata", "records", "bad_metadata"}
      /\ filling' => \/ pc' = "prelude" /\ size < PreludeLen
                     \/ pc' = "metadata" /\ size < MetaEnd
      /\ pc' \in {"prelude", "metadata"} => pos' = 0
      /\ pc' = "records" => pos' = MetaEnd
  <2>1. ~filling /\ pc \in {"prelude", "metadata"}
    BY DEF MetadataFill, Prelude, Metadata
  <2>2. base = 0 /\ pos = 0 /\ count = 0
    BY <2>1 DEF Inv, Waiting
  <2>3. CASE MetadataFill
    BY <1>2, <2>1, <2>2, <2>3 DEF MetadataFill
  <2>4. CASE Prelude
    <3>1. ~filling' /\ pos' = pos
      BY <2>1, <2>4, Zenon DEF Prelude
    <3>2. pc' \in {"metadata", "bad_metadata"}
      BY <2>4 DEF Prelude
    <3> QED BY <1>2, <2>1, <2>2, <3>1, <3>2
  <2>5. CASE Metadata
    <3>1. ~filling' /\ size >= MetaEnd
      BY <2>1, <2>5, Zenon DEF Metadata, MetadataThere
    <3>2. \/ pc' = "records" /\ pos' = MetaEnd
          \/ pc' = "bad_metadata" /\ pos' = pos
      BY <2>5 DEF Metadata
    <3> QED BY <1>2, <1>3, <2>1, <2>2, <3>1, <3>2
  <2> QED BY <2>3, <2>4, <2>5
<1>5. TypeOK'
  <2>1. PositionTypes'
    BY <1>1, <1>4, TypeParts DEF Inv, PositionTypes
  <2>4. filling' \in BOOLEAN
    BY Zenon DEF Inv, TypeOK, MetadataFill, Prelude, Metadata
  <2>2. ControlTypes'
    BY <1>1, <1>4, <2>4, TypeParts DEF Inv, ControlTypes, Active, Endings
  <2>3. YieldTypes'
    BY <1>1, TypeParts DEF Inv, YieldTypes
  <2> QED BY <2>1, <2>2, <2>3
       DEF TypeOK, PositionTypes, ControlTypes, YieldTypes, Active
<1>6. Stream'
  BY <1>1 DEF Inv, Stream, Frames, Fr
<1>7. Waiting'
  BY <1>1, <1>4 DEF Waiting, Active, MetaEnd
<1>8. Prefix'
  BY <1>1, <1>3, <1>4 DEF Inv, Prefix, RecordEnd, MetaEnd
<1>9. RecordsFramed'
  BY <1>1, <1>3, <1>4 DEF Inv, RecordsFramed, Linked, MetaEnd, DeclaredAt
<1>10. BufferBounded' /\ NoFalseTruncation'
  BY <1>1, <1>4 DEF Inv, BufferBounded, NoFalseTruncation, EndsBetweenFrames, MetaEnd
<1> QED BY <1>5, <1>6, <1>7, <1>8, <1>9, <1>10 DEF Inv

\* A span that starts where the last one ends extends the framing.
LEMMA SpanAppend ==
  ASSUME NEW s \in Seq(Batch), NEW e \in Batch, NEW a, NEW b,
         Linked(s, Len(s), a, b), e.lo = b
  PROVE  Linked(Append(s, e), Len(s) + 1, a, e.hi)
BY DEF Linked

\* The record at the read position is one of the content: bytes in the buffer
\* are content, so its length is declared, and if it is all there it is the
\* record that follows those given to fn.
LEMMA NextRecord ==
  ASSUME Inv, Framing, pos < size
  PROVE  /\ base + pos \in Nat /\ base + pos < LastFrame(input).d
         /\ len \in 0 .. MaxRecord
         /\ len >= HeaderLen /\ pos + len <= size =>
              count < Len(input.recs) /\ input.recs[count + 1] = base + pos + len
<1>1. /\ input \in Inputs /\ base \in Nat /\ size \in Nat /\ pos \in Nat /\ count \in Nat
      /\ pos <= size
  BY DEF Inv, TypeOK
<1>2. /\ input.recs \in Seq(Nat) /\ WellFramed(input)
      /\ LastFrame(input).d \in Nat /\ base + size <= LastFrame(input).d
  BY <1>1, FileFacts, FrameEndType, Delivered DEF Inv, Stream, LastFrame
<1>3. base + pos \in Nat /\ base + pos < LastFrame(input).d
  BY <1>1, <1>2
<1>4. len \in 0 .. MaxRecord
  BY <1>1, <1>3, DeclaredType DEF len, DeclaredAt
<1>5. ASSUME len >= HeaderLen, pos + len <= size
      PROVE  count < Len(input.recs) /\ input.recs[count + 1] = base + pos + len
  <2>1. RecordAt(input, base + pos)
    BY <1>1, <1>2, <1>3, <1>4, <1>5, Numbers DEF RecordAt, len, DeclaredAt
  <2>2. base + pos = RecordEnd(input, count) /\ count <= Len(input.recs)
    BY DEF Inv, Prefix, Framing
  <2>3. count # Len(input.recs)
    BY <1>2, <2>1, <2>2 DEF WellFramed
  <2>4. count + 1 \in 1 .. Len(input.recs) /\ count + 1 - 1 = count
    BY <1>1, <1>2, <2>2, <2>3
  <2>5. \A i \in 1 .. Len(input.recs) :
          input.recs[i] = RecordEnd(input, i - 1) + input.decl[RecordEnd(input, i - 1) + 1]
    BY <1>2 DEF WellFramed
  <2>6. input.recs[count + 1] = RecordEnd(input, count) + input.decl[RecordEnd(input, count) + 1]
    BY <1>1, <2>4, <2>5
  <2> QED BY <1>1, <1>2, <2>2, <2>4, <2>6 DEF len, DeclaredAt
<1> QED BY <1>3, <1>4, <1>5

\* fn is given the next record, or throws.
LEMMA YieldStep == Inv /\ Yield => Inv'
<1> SUFFICES ASSUME Inv, Yield PROVE Inv'
  OBVIOUS
<1> USE DEF streamVars, inputVars, zstdVars, yieldVars
<1>1. /\ UNCHANGED <<input, limit, fpos, inPos, inSize, frame, k, f, in_frame, base, size, filling>>
      /\ Framing /\ pos < size /\ len >= HeaderLen /\ pos + len <= size
  BY DEF Yield
<1>2. /\ base + pos \in Nat /\ len \in 0 .. MaxRecord
      /\ count < Len(input.recs) /\ input.recs[count + 1] = base + pos + len
  BY <1>1, NextRecord
<1>3. /\ input \in Inputs /\ base \in Nat /\ size \in Nat /\ pos \in Nat /\ count \in Nat
      /\ yielded \in Seq(Batch) /\ len \in Nat /\ HeaderLen \in Nat
  BY <1>2, Numbers DEF Inv, TypeOK
<1>4. Stream'
  BY <1>1 DEF Inv, Stream, Frames, Fr
<1>5. BufferBounded'
  BY <1>1 DEF Inv, BufferBounded, MetaEnd
<1>6. ~filling' /\ pc = "records"
  BY <1>1, Zenon DEF Framing
<1>7. CASE UNCHANGED <<pos, count, yielded>> /\ pc' = "fn_threw"
  <2>1. TypeOK'
    BY <1>1, <1>7 DEF Inv, TypeOK, Endings
  <2>2. Waiting' /\ Prefix' /\ RecordsFramed' /\ NoFalseTruncation'
    BY <1>1, <1>6, <1>7 DEF Inv, Waiting, Prefix, RecordsFramed, NoFalseTruncation,
       MetaEnd, DeclaredAt
  <2> QED BY <1>4, <1>5, <2>1, <2>2 DEF Inv
<1>8. CASE /\ yielded' = Append(yielded, [lo |-> base + pos, hi |-> base + pos + len])
           /\ pos' = pos + len /\ count' = count + 1
           /\ pc' = IF LimitReached(count + 1) THEN "done" ELSE pc
  <2> DEFINE e == [lo |-> base + pos, hi |-> base + pos + len]
  <2>1. e \in Batch /\ yielded' = Append(yielded, e) /\ e.lo = base + pos /\ e.hi = base + pos'
    BY <1>2, <1>3, <1>8, SMTT(30) DEF Batch
  <2>2. pc' \in {"done", "records"} /\ pos' \in 0 .. size
    BY <1>1, <1>3, <1>6, <1>8
  <2>3. num_rows(e) = len
    BY <1>3 DEF num_rows
  <2> HIDE DEF e
  <2>4. yielded' \in Seq(Batch) /\ Len(yielded') = Len(yielded) + 1
    BY <1>3, <2>1
  <2>5. TypeOK'
    <3>1. PositionTypes'
      BY <1>1, <2>2, TypeParts DEF Inv, PositionTypes
    <3>2. ControlTypes'
      BY <1>1, <2>2, TypeParts DEF Inv, ControlTypes, Active, Endings
    <3>3. YieldTypes'
      BY <1>3, <1>8, <2>4 DEF YieldTypes
    <3> QED BY <3>1, <3>2, <3>3
         DEF TypeOK, PositionTypes, ControlTypes, YieldTypes, Active
  <2>6. Waiting' /\ NoFalseTruncation'
    BY <1>6, <2>2 DEF Waiting, NoFalseTruncation
  <2>7. Prefix'
    BY <1>1, <1>2, <1>3, <1>8 DEF Prefix, RecordEnd
  <2>8. RecordsFramed'
    <3>1. count = Len(yielded) /\ Linked(yielded, Len(yielded), MetaEnd, base + pos)
      BY <1>6 DEF Inv, RecordsFramed
    <3>2. Linked(yielded', Len(yielded) + 1, MetaEnd, base + pos')
      BY <1>3, <2>1, <3>1, SpanAppend
    <3>3. ASSUME NEW i \in 1 .. count'
          PROVE  /\ num_rows(yielded'[i]) = DeclaredAt(yielded'[i].lo)
                 /\ num_rows(yielded'[i]) >= HeaderLen
      <4>1. CASE i = count + 1
        <5>1. yielded'[i] = e
          BY <1>3, <2>1, <3>1, <4>1
        <5> QED BY <1>1, <2>1, <2>3, <5>1 DEF len
      <4>2. CASE i # count + 1
        <5>1. i \in 1 .. count
          BY <1>3, <1>8, <4>2
        <5>2. yielded'[i] = yielded[i]
          BY <1>3, <2>1, <3>1, <5>1
        <5> QED BY <5>1, <5>2 DEF Inv, RecordsFramed
      <4> QED BY <4>1, <4>2
    <3> QED BY <1>1, <1>3, <1>8, <2>4, <3>1, <3>2, <3>3
         DEF RecordsFramed, MetaEnd, DeclaredAt
  <2> QED BY <1>4, <1>5, <2>5, <2>6, <2>7, <2>8 DEF Inv
<1> QED BY <1>7, <1>8 DEF Yield

\* The consumed bytes are dropped: the read position stays where it is in the
\* stream, and what is kept is less than a record.
LEMMA DropStep == Inv /\ DropConsumed => Inv'
<1> SUFFICES ASSUME Inv, DropConsumed PROVE Inv'
  OBVIOUS
<1> USE DEF streamVars, inputVars, zstdVars, yieldVars, DropConsumed, DropLeaving
<1>1. /\ UNCHANGED <<input, limit, fpos, inPos, inSize, frame, k, f, in_frame, pc, count, yielded>>
      /\ Framing /\ (pos < size => len >= HeaderLen /\ pos + len > size)
      /\ base' = base + pos /\ size' = size - pos /\ pos' = 0 /\ filling' = TRUE
  BY DEF NeedsMore
<1>2. /\ input \in Inputs /\ base \in Nat /\ size \in Nat /\ pos \in Nat /\ pos <= size
      /\ pc = "records" /\ input.meta \in Nat
  BY <1>1, FileFacts DEF Inv, TypeOK, Framing
<1>3. pos < size => len \in 0 .. MaxRecord
  BY <1>1, NextRecord
<1>4. size' \in Nat /\ size' < MaxRecord /\ base' \in Nat /\ base' + pos' = base + pos
  BY <1>1, <1>2, <1>3, Numbers
<1>5. TypeOK'
  <2>1. PositionTypes'
    BY <1>1, <1>4, TypeParts DEF Inv, PositionTypes
  <2>2. ControlTypes'
    BY <1>1, TypeParts DEF Inv, ControlTypes
  <2>3. YieldTypes'
    BY <1>1, TypeParts DEF Inv, YieldTypes
  <2> QED BY <2>1, <2>2, <2>3
       DEF TypeOK, PositionTypes, ControlTypes, YieldTypes, Active
<1>6. Stream'
  <2>1. base' + size' = base + size
    BY <1>1, <1>2
  <2> QED BY <1>1, <2>1 DEF Inv, Stream, Frames, Fr
<1>7. Waiting' /\ Prefix' /\ NoFalseTruncation'
  BY <1>1, <1>2, <1>4 DEF Inv, Waiting, Prefix, NoFalseTruncation, Active
<1>8. RecordsFramed'
  BY <1>1, <1>4 DEF Inv, RecordsFramed, MetaEnd, DeclaredAt
<1>9. BufferBounded'
  BY <1>1, <1>2, <1>4, Numbers DEF BufferBounded, MetaEnd
<1> QED BY <1>5, <1>6, <1>7, <1>8, <1>9 DEF Inv

\* The decoder keeps its invariant: every step of fill(), read_metadata() and
\* for_each_record() does.
THEOREM ParserInv == Spec => []Inv
<1>1. Inv /\ [Next]_vars => Inv'
  <2> SUFFICES ASSUME Inv, [Next]_vars PROVE Inv'
    OBVIOUS
  <2>1. CASE FileRead
    BY <2>1, ReadStep
  <2>2. CASE ReadError
    BY <2>2, FailStep DEF ReadError, Endings
  <2>3. CASE Truncated
    <3>1. ~EndsBetweenFrames /\ Fail("truncated")
      BY <2>3, AtEndOfFile DEF Truncated, EndsInsideFrame
    <3> QED BY <3>1, FailStep DEF Endings
  <2>4. CASE Exhausted
    <3>1. Fail(NoMoreBytes) /\ NoMoreBytes \in {"no_metadata", "partial_record", "done"}
      BY <2>4 DEF Exhausted, NoMoreBytes
    <3> QED BY <3>1, FailStep DEF Endings
  <2>5. CASE Decompress
    BY <2>5, DecompressStep
  <2>6. CASE ZstdError
    BY <2>6, FailStep DEF ZstdError, Endings
  <2>7. CASE MetadataFill \/ Prelude \/ Metadata
    BY <2>7, MetadataStep
  <2>8. CASE ShortRecord
    BY <2>8, FailStep DEF ShortRecord, Endings
  <2>9. CASE Yield
    BY <2>9, YieldStep
  <2>10. CASE DropConsumed
    BY <2>10, DropStep
  <2>11. CASE UNCHANGED vars
    <3> USE <2>11 DEF vars, streamVars, inputVars, zstdVars, bufVars, yieldVars
    <3>1. TypeOK'
      BY DEF Inv, TypeOK
    <3>2. Stream'
      BY DEF Inv, Stream, Frames, Fr
    <3>3. Waiting' /\ Prefix' /\ RecordsFramed' /\ BufferBounded' /\ NoFalseTruncation'
      BY DEF Inv, Waiting, Prefix, RecordsFramed, BufferBounded, NoFalseTruncation,
         EndsBetweenFrames, MetaEnd, DeclaredAt
    <3> QED BY <3>1, <3>2, <3>3 DEF Inv
  <2> QED BY <2>1, <2>2, <2>3, <2>4, <2>5, <2>6, <2>7, <2>8, <2>9, <2>10, <2>11
       DEF Next, Decode, Finished
<1> QED BY <1>1, InitInv, PTL DEF Spec

\* No position of the decoder passes the end of its buffer, for every file and
\* every size of the buffers.
THEOREM ParserTypes == Spec => []TypeOK
<1>1. Inv => TypeOK
  BY DEF Inv
<1> QED BY <1>1, ParserInv, PTL

\* The framing of for_each_record() never slips.
THEOREM FramingCorrect == Spec => []RecordsFramed
<1>1. Inv => RecordsFramed
  BY DEF Inv
<1> QED BY <1>1, ParserInv, PTL

\* fill() calls truncated only what is truncated.
THEOREM TruncationCorrect == Spec => []NoFalseTruncation
<1>1. Inv => NoFalseTruncation
  BY DEF Inv
<1> QED BY <1>1, ParserInv, PTL

\* buf_ never holds more than the header or an incomplete record, and a chunk.
THEOREM BufferCorrect == Spec => []BufferBounded
<1>1. Inv => BufferBounded
  BY DEF Inv
<1> QED BY <1>1, ParserInv, PTL

-------------------------------------------------------------------------------
(* The end of decoding.                                                    *)

\* fill() calls zstd only when there is something for it to do: the input that
\* is left belongs to a frame, which has bytes to take or content to deliver.
FillProgress ==
  filling /\ inPos < inSize =>
    \E a \in 0 .. inSize - inPos, o \in 0 .. OutChunk : decompressStream(a, o)

Stage == IF pc = "prelude" THEN 3 ELSE IF pc = "metadata" THEN 2
         ELSE IF pc = "records" THEN 1 ELSE 0

\* What is left to do: content to deliver and to frame, bytes to consume and to
\* read, loops to finish.
Work ==
  2 * (LastFrame(input).d - f) + (LastFrame(input).d - (base + pos))
    + (LastFrame(input).c - k) + (input.len - fpos)
    + 2 * Stage + (IF filling THEN 0 ELSE 1)

\* Every step of the decoder leaves less to do, so a file takes no more steps
\* than its bytes and its content allow; frames without content included.
WorkShrinks == [](Work \in Nat) /\ [][Work' < Work]_vars

\* The positions stay within the file and its content.
LEMMA Within ==
  ASSUME Inv
  PROVE  /\ LastFrame(input).d \in Nat /\ LastFrame(input).c \in Nat /\ input.len \in Nat
         /\ f \in Nat /\ base + pos \in Nat /\ k \in Nat /\ fpos \in Nat
         /\ base + pos <= f /\ f <= LastFrame(input).d
         /\ k <= LastFrame(input).c /\ fpos <= input.len
<1>1. /\ input \in Inputs /\ fpos \in 0 .. input.len /\ inSize \in Nat /\ inPos \in 0 .. inSize
      /\ k \in Nat /\ f \in Nat /\ base \in Nat /\ size \in Nat /\ pos \in 0 .. size
  BY Numbers DEF Inv, TypeOK
<1>2. /\ input.frames \in Seq(Frame) /\ input.len \in Nat /\ WellPacked(input)
      /\ LastFrame(input).d \in Nat /\ LastFrame(input).c \in Nat
  BY <1>1, FileFacts, FrameEndType DEF LastFrame
<1>3. f <= LastFrame(input).d /\ f = base + size
  BY Delivered DEF Inv, Stream
<1>4. k + inSize = fpos + inPos /\ input.len <= LastFrame(input).c
  BY <1>2 DEF Inv, Stream, WellPacked
<1> QED
  BY <1>1, <1>2, <1>3, <1>4

\* Work is a number.
LEMMA WorkIsNat == Inv => Work \in Nat
<1> SUFFICES ASSUME Inv PROVE Work \in Nat
  OBVIOUS
<1>1. Stage \in Nat
  BY DEF Stage
<1> QED
  BY <1>1, Within DEF Work

\* The decompressor can always go on.
THEOREM FillProgresses == Spec => []FillProgress
<1>1. Inv => FillProgress
  <2> SUFFICES ASSUME Inv, filling, inPos < inSize
               PROVE  \E a \in 0 .. inSize - inPos, o \in 0 .. OutChunk : decompressStream(a, o)
    BY DEF FillProgress
  <2>1. /\ input \in Inputs /\ inSize \in Nat /\ inPos \in 0 .. inSize /\ fpos \in 0 .. input.len
        /\ k \in Nat /\ f \in Nat /\ frame \in Nat \ {0}
    BY Numbers DEF Inv, TypeOK
  <2>2. /\ input.frames \in Seq(Frame) /\ input.len \in Nat /\ WellPacked(input)
        /\ LastFrame(input).c \in Nat
    BY <2>1, FileFacts, FrameEndType DEF LastFrame
  <2>3. k < LastFrame(input).c
    <3>1. k + inSize = fpos + inPos /\ input.len <= LastFrame(input).c
      BY <2>2 DEF Inv, Stream, WellPacked
    <3> QED
      BY <2>1, <2>2, <3>1
  <2>4. frame <= Frames
    <3> SUFFICES ASSUME ~(frame <= Frames) PROVE FALSE
      OBVIOUS
    <3>1. frame - 1 = Frames /\ ~in_frame
      BY <2>1, <2>2 DEF Inv, Stream, Frames
    <3>2. k = LastFrame(input).c
      BY <3>1 DEF Inv, Stream, LastFrame, Frames
    <3> QED
      BY <2>2, <2>3, <3>2
  <2>5. Fr.c \in Nat /\ Fr.d \in Nat /\ k < Fr.c /\ f <= Fr.d
    <3>1. FrameEnd(input, frame) = Fr /\ frame \in 0 .. Len(input.frames)
      BY <2>1, <2>2, <2>4 DEF FrameEnd, Fr, Frames
    <3>2. FrameEnd(input, frame).c \in Nat /\ FrameEnd(input, frame).d \in Nat
      BY <2>1, <3>1, FrameEndType
    <3> QED
      BY <2>4, <3>1, <3>2 DEF Inv, Stream
  <2>6. CASE Fr.d - f <= OutChunk
    <3> DEFINE a == IF inSize - inPos <= Fr.c - k THEN inSize - inPos ELSE Fr.c - k
               o == Fr.d - f
    <3>1. a \in 0 .. inSize - inPos /\ o \in 0 .. OutChunk /\ a > 0
      BY <2>1, <2>5, <2>6, Numbers
    <3>2. decompressStream(a, o)
      BY <2>1, <2>5, <2>6, Numbers DEF decompressStream, KeepsLastByte
    <3> QED
      BY <3>1, <3>2
  <2>7. CASE ~(Fr.d - f <= OutChunk)
    <3>1. 0 \in 0 .. inSize - inPos /\ OutChunk \in 0 .. OutChunk
      BY <2>1, Numbers
    <3>2. decompressStream(0, OutChunk)
      BY <2>1, <2>5, <2>7, Numbers DEF decompressStream, KeepsLastByte
    <3> QED
      BY <3>1, <3>2
  <2> QED
    BY <2>6, <2>7
<1> QED
  BY <1>1, ParserInv, PTL

\* Work is less when content was delivered or a loop finished, or when something
\* else moved on and fill() did not return.
LEMMA LessWork ==
  ASSUME NEW d \in Int, NEW c \in Int, NEW l \in Int,
         NEW f0 \in Int, NEW p0 \in Int, NEW k0 \in Int, NEW r0 \in Int,
         NEW f1 \in Int, NEW p1 \in Int, NEW k1 \in Int, NEW r1 \in Int,
         NEW s0 \in 0 .. 3, NEW s1 \in 0 .. 3, NEW o0 \in 0 .. 1, NEW o1 \in 0 .. 1,
         f0 <= f1, p0 <= p1, k0 <= k1, r0 <= r1, s1 <= s0,
         \/ f0 < f1 \/ s1 < s0 \/ o1 < o0
         \/ o1 <= o0 /\ (p0 < p1 \/ k0 < k1 \/ r0 < r1)
  PROVE  2 * (d - f1) + (d - p1) + (c - k1) + (l - r1) + 2 * s1 + o1
           < 2 * (d - f0) + (d - p0) + (c - k0) + (l - r0) + 2 * s0 + o0
OBVIOUS

\* The safety half of Terminates: with FillProgresses and a thread that is
\* scheduled, work that shrinks with every step ends.
THEOREM WorkEnds == Spec => WorkShrinks
<1> DEFINE at == base + pos
           open == IF filling THEN 0 ELSE 1
           Onward == /\ f <= f' /\ at <= at' /\ k <= k' /\ fpos <= fpos' /\ Stage' <= Stage
                     /\ \/ f < f' \/ Stage' < Stage \/ open' < open
                        \/ open' <= open /\ (at < at' \/ k < k' \/ fpos < fpos')
<1> USE DEF streamVars, inputVars, zstdVars, bufVars
<1>1. ASSUME Inv, [Next]_vars, ~UNCHANGED vars PROVE Onward
  <2>1. /\ f \in Nat /\ k \in Nat /\ fpos \in Nat /\ base \in Nat /\ pos \in Nat
    BY <1>1, Within DEF Inv, TypeOK
  <2>2. at \in Nat
    BY <2>1
  <2>3. filling \in BOOLEAN
    BY <1>1 DEF Inv, TypeOK
  <2>10. Stage \in Nat /\ Stage' \in Nat /\ open \in Nat /\ open' \in Nat
    BY DEF Stage
  <2>4. CASE FileRead
    <3>1. UNCHANGED <<f, base, pos, k, pc, filling>>
      BY <2>4 DEF FileRead
    <3>2. fpos < fpos' /\ fpos' \in Nat
      <4>1. fpos < input.len /\ input.len \in Nat
        BY <1>1, <2>4, Within DEF FileRead
      <4> QED
        BY <2>1, <2>4, <4>1, Numbers DEF FileRead
    <3>3. at' = at /\ open' = open /\ Stage' = Stage
      BY <3>1 DEF Stage
    <3>4. open' <= open
      BY <2>10, <3>3
    <3> HIDE DEF at, open
    <3> QED
      BY <2>1, <2>2, <2>10, <3>1, <3>2, <3>3, <3>4
  <2>5. CASE Decompress
    <3>1. PICK a \in 0 .. inSize - inPos, o \in 0 .. OutChunk :
            /\ decompressStream(a, o) /\ filling' = (o = 0)
            /\ k' = k + a /\ f' = f + o
      BY <2>5 DEF Decompress
    <3>2. a \in Nat /\ o \in Nat /\ a + o > 0
      BY <1>1, <3>1, Numbers DEF decompressStream, Inv, TypeOK
    <3>3. UNCHANGED <<base, pos, pc, fpos>> /\ filling
      BY <2>5 DEF Decompress
    <3>4. at' = at /\ Stage' = Stage /\ (o = 0 => open' = open)
      BY <3>1, <3>3 DEF Stage
    <3>5. f <= f' /\ k <= k' /\ (f < f' \/ (o = 0 /\ k < k'))
      BY <2>1, <3>1, <3>2
    <3>6. o = 0 => open' <= open
      BY <2>10, <3>4
    <3> HIDE DEF at, open
    <3> QED
      BY <2>1, <2>2, <2>10, <3>3, <3>4, <3>5, <3>6
  <2>6. CASE MetadataFill \/ DropConsumed
    <3>1. /\ UNCHANGED <<f, k, fpos, pc>> /\ at' = at
          /\ ~filling /\ filling'
      BY <2>1, <2>6 DEF MetadataFill, DropConsumed, DropLeaving, NeedsMore, Framing
    <3>2. Stage' = Stage /\ open' < open
      BY <3>1 DEF Stage
    <3> HIDE DEF at, open
    <3> QED
      BY <2>1, <2>2, <3>1, <3>2 DEF Stage
  <2>7. CASE Prelude \/ Metadata
    <3>1. UNCHANGED <<f, k, fpos, base>> /\ pos' \in Nat /\ pos <= pos'
      BY <1>1, <2>1, <2>7, FileFacts, Numbers
         DEF Prelude, Metadata, Inv, TypeOK, Waiting, MetaEnd
    <3>2. Stage' < Stage /\ Stage' <= Stage
      BY <2>7 DEF Prelude, Metadata, Stage
    <3>3. at = 0 /\ at' = pos'
      <4>1. base = 0 /\ pos = 0
        BY <1>1, <2>7 DEF Prelude, Metadata, Inv, Waiting
      <4>2. at' = 0 + pos'
        BY <3>1, <4>1, Zenon
      <4>3. \A n \in Nat : 0 + n = n
        OBVIOUS
      <4> QED
        BY <3>1, <4>1, <4>2, <4>3, Zenon
    <3> HIDE DEF at, open
    <3> QED
      BY <2>1, <2>2, <2>10, <3>1, <3>2, <3>3
  <2>8. CASE Yield
    <3>1. UNCHANGED <<f, k, fpos, base, filling>>
      BY <2>8 DEF Yield
    <3>2. len \in Nat /\ len > 0
      BY <1>1, <2>8, NextRecord, Numbers DEF Yield
    <3>3. \/ pos' = pos + len /\ Stage' <= Stage
          \/ pos' = pos /\ Stage' < Stage /\ Stage' <= Stage
      BY <2>8 DEF Yield, Framing, Stage
    <3>4. Stage' <= Stage /\ \/ at < at'
                             \/ at = at' /\ Stage' < Stage
      BY <2>1, <3>1, <3>2, <3>3
    <3>5. open' <= open
      BY <3>1
    <3>6. at' \in Nat
      BY <2>1, <3>1, <3>2, <3>3
    <3> HIDE DEF at, open
    <3> QED
      BY <2>1, <2>2, <2>10, <3>1, <3>4, <3>5, <3>6
  <2>9. CASE ReadError \/ ZstdError \/ Truncated \/ Exhausted \/ ShortRecord
    <3>1. pc \in Active
      BY <1>1, <2>9 DEF ReadError, ZstdError, Truncated, Exhausted, EndOfFile, ShortRecord,
         Framing, Inv, Waiting, Active
    <3>2. PICK why \in Endings : Fail(why)
      BY <2>9 DEF ReadError, ZstdError, Truncated, Exhausted, NoMoreBytes, ShortRecord, Endings
    <3>3. UNCHANGED <<f, base, pos, k, fpos>> /\ pc' \in Endings
      BY <3>2 DEF Fail
    <3>4. Stage' < Stage /\ Stage' <= Stage
      BY <3>1, <3>3 DEF Stage, Active, Endings
    <3>5. at' = at
      BY <3>3
    <3> HIDE DEF at, open
    <3> QED
      BY <2>1, <2>2, <3>3, <3>4, <3>5
  <2> QED
    BY <1>1, <2>4, <2>5, <2>6, <2>7, <2>8, <2>9 DEF Next, Decode, Finished
<1>2. ASSUME Inv, Inv', Onward, [Next]_vars PROVE Work' < Work
  <2>1. input' = input
    BY <1>2 DEF Next, Decode, FileRead, ReadError, Truncated, Exhausted, Decompress, ZstdError,
       MetadataFill, Prelude, Metadata, ShortRecord, Yield, DropConsumed, DropLeaving, Finished,
       Fail, vars
  <2>2. /\ LastFrame(input).d \in Int /\ LastFrame(input).c \in Int /\ input.len \in Int
        /\ f \in Int /\ at \in Int /\ k \in Int /\ fpos \in Int
    BY <1>2, Within
  <2>3. f' \in Int /\ at' \in Int /\ k' \in Int /\ fpos' \in Int
    BY <1>2, SMTT(30) DEF Inv, TypeOK
  <2>4. open \in 0 .. 1 /\ open' \in 0 .. 1 /\ Stage \in 0 .. 3 /\ Stage' \in 0 .. 3
    BY DEF Stage
  <2> DEFINE d == LastFrame(input).d
             c == LastFrame(input).c
             l == input.len
  <2>5. /\ Work = 2 * (d - f) + (d - at) + (c - k) + (l - fpos) + 2 * Stage + open
        /\ Work' = 2 * (d - f') + (d - at') + (c - k') + (l - fpos') + 2 * Stage' + open'
    BY <2>1 DEF Work, LastFrame
  <2> HIDE DEF at, open, d, c, l
  <2>6. 2 * (d - f') + (d - at') + (c - k') + (l - fpos') + 2 * Stage' + open'
          < 2 * (d - f) + (d - at) + (c - k) + (l - fpos) + 2 * Stage + open
    <3>1. d \in Int /\ c \in Int /\ l \in Int
      BY <2>2 DEF d, c, l
    <3> QED
      BY <1>2, <2>2, <2>3, <2>4, <3>1, LessWork, ZenonT(60)
  <2> QED
    BY <2>5, <2>6, Zenon
<1>3. ASSUME Inv, Inv', [Next]_vars PROVE Work' < Work \/ UNCHANGED vars
  BY <1>1, <1>2, <1>3
<1> QED
  BY <1>3, WorkIsNat, ParserInv, PTL DEF Spec, WorkShrinks

-------------------------------------------------------------------------------
(* The decoder implements RecordSource.                                    *)

\* The first state is the first state of a source.
LEMMA SourceInit == Init => Source!Init
<1> SUFFICES ASSUME Init PROVE Source!Init
  OBVIOUS
<1>1. input \in Inputs /\ limit \in Nat
  BY ParserAssumption DEF Init
<1>2. Len(input.recs) \in Nat
  BY <1>1, FileFacts
<1> QED BY <1>1, <1>2 DEF Init, Source!Init, SourceState, Stopped, EndsBetweenFrames

\* A normal return at the end of the file: every record has been given, and the
\* content is nothing but records.
LEMMA AllGiven ==
  ASSUME Inv, Exhausted, pc = "records", size = 0
  PROVE  /\ count = Len(input.recs) /\ EndsBetweenFrames
         /\ RecordEnd(input, Len(input.recs)) = LastFrame(input).d
<1>1. /\ input \in Inputs /\ base \in Nat /\ pos = 0 /\ count \in Nat
  BY DEF Inv, TypeOK
<1>2. /\ input.recs \in Seq(Nat) /\ WellFramed(input) /\ LastFrame(input).d \in Nat
      /\ HeaderLen \in Nat /\ HeaderLen > 0
  BY <1>1, FileFacts, FrameEndType, Numbers DEF LastFrame
<1>3. EndsBetweenFrames /\ base = LastFrame(input).d
  BY <1>1, AtEndOfFile DEF Exhausted, EndsInsideFrame
<1>4. base = RecordEnd(input, count) /\ count <= Len(input.recs)
  BY <1>1 DEF Inv, Prefix
<1>5. count = Len(input.recs)
  <2> SUFFICES ASSUME count < Len(input.recs) PROVE FALSE
    BY <1>1, <1>2, <1>4
  <2>1. \A i \in 1 .. Len(input.recs) : RecordAt(input, RecordEnd(input, i - 1))
    BY <1>2 DEF WellFramed
  <2>2. count + 1 \in 1 .. Len(input.recs) /\ count + 1 - 1 = count
    BY <1>1, <1>2
  <2>3. RecordAt(input, RecordEnd(input, count))
    BY <1>1, <2>1, <2>2
  <2> QED BY <1>2, <1>3, <1>4, <2>3 DEF RecordAt
<1> QED BY <1>3, <1>4, <1>5

\* Every step is a step of the source or invisible to it.
LEMMA SourceStep == Inv /\ [Next]_vars => [Source!Next]_(Source!vars)
<1> SUFFICES ASSUME Inv, [Next]_vars PROVE [Source!Next]_(Source!vars)
  OBVIOUS
<1> USE DEF streamVars, inputVars, zstdVars, bufVars, yieldVars
<1>1. input' = input /\ limit' = limit
  BY DEF Next, Decode, FileRead, ReadError, Truncated, Exhausted, Decompress, ZstdError,
     MetadataFill, Prelude, Metadata, ShortRecord, Yield, DropConsumed, DropLeaving,
     Fail, Finished, vars
<1>2. UNCHANGED Source!contentVars
  BY <1>1 DEF Source!contentVars, EndsBetweenFrames
<1>3. ASSUME NEW why \in Endings \ {"done"}, Fail(why), pc \in Active
      PROVE  Source!Fail
  BY <1>2, <1>3 DEF Source!Fail, Fail, SourceState, Stopped, Active, Endings
<1>4. ASSUME UNCHANGED count, pc \in Active, pc' \in Active
      PROVE  UNCHANGED Source!vars
  BY <1>2, <1>4 DEF Source!vars, SourceState, Stopped, Active
<1>5. ASSUME UNCHANGED count, UNCHANGED pc
      PROVE  UNCHANGED Source!vars
  BY <1>2, <1>5 DEF Source!vars, SourceState, Stopped
<1>6. filling => pc \in Active
  BY DEF Inv, Waiting
<1>7. CASE FileRead \/ Decompress \/ MetadataFill \/ DropConsumed \/ UNCHANGED vars
  <2>1. UNCHANGED count /\ UNCHANGED pc
    BY <1>7 DEF FileRead, Decompress, MetadataFill, DropConsumed, DropLeaving, vars
  <2> QED BY <1>5, <2>1
<1>8. CASE ReadError \/ Truncated \/ ZstdError \/ ShortRecord
  <2>1. \E why \in Endings \ {"done"} : Fail(why)
    BY <1>8 DEF ReadError, Truncated, ZstdError, ShortRecord, Endings
  <2>2. pc \in Active
    BY <1>6, <1>8 DEF ReadError, Truncated, EndOfFile, ZstdError, ShortRecord, Framing, Active
  <2> QED BY <1>3, <2>1, <2>2 DEF Source!Next
<1>9. CASE Exhausted
  <2>1. filling /\ pc \in Active /\ Fail(NoMoreBytes)
    BY <1>6, <1>9 DEF Exhausted, EndOfFile
  <2>2. CASE NoMoreBytes # "done"
    <3>1. NoMoreBytes \in Endings \ {"done"}
      BY <2>2 DEF NoMoreBytes, Endings
    <3> QED BY <1>3, <2>1, <3>1 DEF Source!Next
  <2>3. CASE NoMoreBytes = "done"
    <3>1. pc = "records" /\ size = 0
      <4>1. size \in Nat
        BY DEF Inv, TypeOK
      <4> QED BY <2>1, <2>3, <4>1 DEF NoMoreBytes, Active
    <3>2. /\ count = Len(input.recs) /\ EndsBetweenFrames
          /\ RecordEnd(input, Len(input.recs)) = LastFrame(input).d
      BY <1>9, <3>1, AllGiven
    <3>3. SourceState = "open" /\ SourceState' = "done" /\ count' = count
      BY <2>1, <2>3, <3>1 DEF Fail, SourceState, Stopped
    <3> QED BY <1>2, <3>2, <3>3 DEF Source!Next, Source!Finish
  <2> QED BY <2>2, <2>3
<1>10. CASE Prelude \/ Metadata
  <2>1. UNCHANGED count /\ pc \in Active
    BY <1>10 DEF Prelude, Metadata, Active
  <2>2. pc' \in Active \cup {"bad_metadata"}
    BY <1>10 DEF Prelude, Metadata, Active
  <2>3. CASE pc' = "bad_metadata"
    BY <1>2, <2>1, <2>3 DEF Source!Next, Source!Fail, SourceState, Stopped, Active
  <2> QED BY <1>4, <2>1, <2>2, <2>3
<1>11. CASE Yield
  <2>1. Framing /\ pos < size /\ len >= HeaderLen /\ pos + len <= size /\ pc = "records"
    BY <1>11 DEF Yield, Framing
  <2>2. count < Len(input.recs) /\ count \in Nat
    BY <2>1, NextRecord DEF Inv, TypeOK
  <2>3. CASE count' = count + 1 /\ pc' = IF LimitReached(count + 1) THEN "done" ELSE pc
    <3>1. LimitReached(count + 1) <=> count' = limit
      BY <2>2, <2>3 DEF LimitReached
    <3>2. SourceState = "open" /\ SourceState' = IF count' = limit THEN "done" ELSE "open"
      BY <2>1, <2>3, <3>1 DEF SourceState, Stopped
    <3> QED BY <1>2, <2>2, <2>3, <3>2 DEF Source!Next, Source!Give
  <2>4. CASE pc' = "fn_threw" /\ count' = count
    BY <1>2, <2>1, <2>4 DEF Source!Next, Source!Fail, SourceState, Stopped
  <2> QED BY <1>11, <2>3, <2>4 DEF Yield
<1> QED BY <1>7, <1>8, <1>9, <1>10, <1>11 DEF Next, Decode, Finished

\* The streaming decoder implements the plain source of records.
THEOREM SourceRefined == Spec => ImplementsRecordSource
BY SourceInit, SourceStep, ParserInv, PTL DEF Spec, ImplementsRecordSource, Source!Spec
===============================================================================
