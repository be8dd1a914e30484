------------------------------- MODULE DbnParser ------------------------------
(***************************************************************************)
(* The streaming decoder of one .dbn.zst file: fread() fills the input     *)
(* buffer, zstd decompresses it onto the end of buf_, read_metadata()      *)
(* takes the header from the front and for_each_record() frames the rest.  *)
(* None of the three sees the same boundaries: a read, a zstd frame, an    *)
(* output chunk and a record can end anywhere within each other.           *)
(*                                                                         *)
(* Bytes are not stored.  The decompressed stream is numbered from 0, and  *)
(* buf_ is the run of it from base to base + size; a record that starts at *)
(* offset o declares DeclaredAt(o) bytes.                                  *)
(***************************************************************************)
EXTENDS RowBatches

CONSTANTS
  Inputs,      \* the files to decode
  Limits,      \* the limits for_each_record() may be given; 0 is none
  InSize,      \* ZSTD_DStreamInSize()
  OutChunk,    \* out_chunk_
  PreludeLen,  \* dbn::prelude_len
  FixedLen,    \* dbn::fixed_len: the least metadata length
  HeaderLen,   \* sizeof(dbn::record_header)
  MaxRecord    \* the longest record a length byte can declare

\* A file is cut into zstd frames: a frame ends at byte c of the file and at
\* byte d of the content.  The first len bytes of the file are there, the last
\* of them in the last frame.  The content declares the metadata length and, at
\* each offset, a record length; recs are the ends of its records.
Frame == [c : Nat, d : Nat]
File == [frames : Seq(Frame), len : Nat, meta : Nat, decl : Seq(0 .. MaxRecord),
         recs : Seq(Nat)]

FrameEnd(x, i) == IF i = 0 THEN [c |-> 0, d |-> 0] ELSE x.frames[i]
LastFrame(x) == FrameEnd(x, Len(x.frames))

\* Frames have bytes, and perhaps no content; only the last can be cut off.
WellPacked(x) ==
  /\ \A i, j \in 0 .. Len(x.frames) :
       i < j => /\ FrameEnd(x, i).c < FrameEnd(x, j).c
                /\ FrameEnd(x, i).d <= FrameEnd(x, j).d
  /\ x.len <= LastFrame(x).c
  /\ \A i \in 0 .. Len(x.frames) - 1 : FrameEnd(x, i).c < x.len
  /\ LastFrame(x).d <= Len(x.decl)

RecordEnd(x, i) == IF i = 0 THEN PreludeLen + x.meta ELSE x.recs[i]

\* A complete record of the content starts at offset o.
RecordAt(x, o) == /\ o < LastFrame(x).d
                  /\ x.decl[o + 1] >= HeaderLen
                  /\ o + x.decl[o + 1] <= LastFrame(x).d

\* recs is what a decoder of the whole content at once would frame: each record
\* starts where the one before it ends, and none starts behind the last.
WellFramed(x) ==
  /\ \A i \in 1 .. Len(x.recs) :
       LET o == RecordEnd(x, i - 1)
       IN RecordAt(x, o) /\ x.recs[i] = o + x.decl[o + 1]
  /\ ~RecordAt(x, RecordEnd(x, Len(x.recs)))

ASSUME ParserAssumption ==
  /\ Inputs \subseteq File /\ Limits \subseteq Nat
  /\ \A x \in Inputs : WellPacked(x) /\ WellFramed(x)
  /\ {InSize, OutChunk, PreludeLen, HeaderLen, MaxRecord} \subseteq Nat \ {0}
  /\ FixedLen \in Nat

VARIABLES
  input,          \* the file
  limit,          \* the argument of for_each_record()
  fpos,           \* bytes of the file read
  inPos, inSize,  \* in_buf_
  frame, k, f,    \* dstream_: the frame it is in, bytes of the file consumed,
                  \* bytes of the content delivered
  in_frame,       \* in_frame_
  base, size,     \* buf_
  pos,            \* pos_
  filling,        \* fill() is running
  pc,             \* which loop is running, or how it ended
  count,          \* records yielded
  yielded         \* the spans given to fn, in order

zstdVars   == <<frame, k, f>>
inputVars  == <<fpos, inPos, inSize>>
streamVars == <<input, limit, inputVars, zstdVars, in_frame>>
bufVars    == <<base, size, pos>>
yieldVars  == <<count, yielded>>
vars == <<streamVars, bufVars, filling, pc, yieldVars>>

Init ==
  /\ input \in Inputs /\ limit \in Limits
  /\ fpos = 0 /\ inPos = 0 /\ inSize = 0
  /\ frame = 1 /\ k = 0 /\ f = 0 /\ in_frame = FALSE
  /\ base = 0 /\ size = 0 /\ pos = 0
  /\ filling = FALSE /\ pc = "prelude"
  /\ count = 0 /\ yielded = << >>

MetaEnd == PreludeLen + input.meta
DeclaredAt(o) == input.decl[o + 1]

-------------------------------------------------------------------------------
(* ZSTD_decompressStream (external): consumes a input bytes and delivers o *)
(* bytes of content.  It stops when the input is used up, the output is    *)
(* full, or the frame ends; and it does not take the last byte of a frame  *)
(* before all content of the frame is delivered.  It returns 0 exactly     *)
(* when the frame has ended.                                               *)

Fr == input.frames[frame]

\* Faulty variant: the last byte is taken although content is left.
TakesLastByte(a, o) == TRUE
KeepsLastByte(a, o) == k + a = Fr.c => f + o = Fr.d

decompressStream(a, o) ==
  /\ a <= inSize - inPos /\ a <= Fr.c - k
  /\ o <= OutChunk /\ o <= Fr.d - f
  /\ a + o > 0 /\ KeepsLastByte(a, o)
  /\ k + a = Fr.c \/ inPos + a = inSize \/ o = OutChunk

FrameEnds(a, o) == k + a = Fr.c /\ f + o = Fr.d

-------------------------------------------------------------------------------
(* fill()                                                                  *)

Fail(why) == /\ pc' = why /\ filling' = FALSE
             /\ UNCHANGED <<streamVars, bufVars, yieldVars>>

\* fread() returns what fits and is there.
FileRead ==
  /\ filling /\ inPos = inSize /\ fpos < input.len
  /\ LET n == IF input.len - fpos < InSize THEN input.len - fpos ELSE InSize IN
       inPos' = 0 /\ inSize' = n /\ fpos' = fpos + n
  /\ UNCHANGED <<input, limit, zstdVars, in_frame, bufVars, filling, pc, yieldVars>>

ReadError == filling /\ inPos = inSize /\ Fail("read_error")

EndOfFile == filling /\ inPos = inSize /\ fpos = input.len

\* Faulty variant: the end of the file is the end of the stream.
EndsInsideFrameNever == FALSE

EndsInsideFrame == in_frame

Truncated == EndOfFile /\ EndsInsideFrame /\ Fail("truncated")

\* Faulty variant: the result of fill() is not looked at.
Unnoticed == pc

\* fill() returns false.  read_metadata() fails; for_each_record() fails if
\* bytes of a record are left and returns otherwise.
NoMoreBytes == IF pc \in {"prelude", "metadata"} THEN "no_metadata"
               ELSE IF size > 0 THEN "partial_record" ELSE "done"

Exhausted == EndOfFile /\ ~EndsInsideFrame /\ Fail(NoMoreBytes)

\* One call of the decompressor; fill() returns true once it delivered bytes.
Decompress ==
  /\ filling /\ inPos < inSize
  /\ \E a \in 0 .. inSize - inPos, o \in 0 .. OutChunk :
       /\ decompressStream(a, o)
       /\ inPos' = inPos + a
       /\ size' = size + o
       /\ filling' = (o = 0)
       /\ in_frame' = ~FrameEnds(a, o)
       /\ k' = k + a /\ f' = f + o
       /\ frame' = IF FrameEnds(a, o) THEN frame + 1 ELSE frame
  /\ UNCHANGED <<input, limit, fpos, inSize, base, pos, pc, yieldVars>>

ZstdError == filling /\ inPos < inSize /\ Fail("zstd_error")

-------------------------------------------------------------------------------
(* read_metadata()                                                         *)

\* Either loop asks for more bytes.
MetadataFill ==
  /\ ~filling
  /\ \/ pc = "prelude" /\ size < PreludeLen
     \/ pc = "metadata" /\ size < MetaEnd
  /\ filling' = TRUE
  /\ UNCHANGED <<streamVars, bufVars, pc, yieldVars>>

\* The magic, the version and the declared length are there to be checked.
Prelude ==
  /\ ~filling /\ pc = "prelude" /\ size >= PreludeLen
  /\ \/ input.meta >= FixedLen /\ pc' = "metadata"
     \/ pc' = "bad_metadata"
  /\ UNCHANGED <<streamVars, bufVars, filling, yieldVars>>

\* Faulty variant: the records start where they should, there or not.
MetadataAssumed == TRUE
MetadataThere == size >= MetaEnd

\* The fields are parsed from exactly the declared bytes (DbnMetadata).
Metadata ==
  /\ ~filling /\ pc = "metadata" /\ MetadataThere
  /\ \/ pc' = "records" /\ pos' = MetaEnd
     \/ pc' = "bad_metadata" /\ UNCHANGED pos
  /\ UNCHANGED <<streamVars, base, size, filling, yieldVars>>

-------------------------------------------------------------------------------
(* for_each_record()                                                       *)

Framing == pc = "records" /\ ~filling
len == DeclaredAt(base + pos)

ShortRecord == Framing /\ pos < size /\ len < HeaderLen /\ Fail("short_record")

LimitReached(n) == limit # 0 /\ n = limit

\* fn(record), which may throw.
Yield ==
  /\ Framing /\ pos < size /\ len >= HeaderLen /\ pos + len <= size
  /\ \/ /\ yielded' = Append(yielded, [lo |-> base + pos, hi |-> base + pos + len])
        /\ pos' = pos + len /\ count' = count + 1
        /\ pc' = IF LimitReached(count + 1) THEN "done" ELSE pc
     \/ pc' = "fn_threw" /\ UNCHANGED <<pos, count, yielded>>
  /\ UNCHANGED <<streamVars, base, size, filling>>

NeedsMore == Framing /\ (pos < size => len >= HeaderLen /\ pos + len > size)

DropLeaving(n, p) ==
  /\ NeedsMore /\ filling' = TRUE
  /\ base' = base + n /\ size' = size - n /\ pos' = p
  /\ UNCHANGED <<streamVars, pc, yieldVars>>

\* Faulty variants: the consumed bytes stay, or pos_ is not reset.
KeepConsumed == DropLeaving(0, pos)
DropWithoutReset == DropLeaving(pos, pos)

\* The rest of the buffer is moved to its front and fill() is called.
DropConsumed == DropLeaving(pos, 0)

-------------------------------------------------------------------------------
Stopped == pc \notin {"prelude", "metadata", "records"}

\* The parser has returned or thrown.
Finished == Stopped /\ UNCHANGED vars

Decode == \/ FileRead \/ Truncated \/ Exhausted \/ Decompress
          \/ MetadataFill \/ Prelude \/ Metadata
          \/ ShortRecord \/ Yield \/ DropConsumed

Next == Decode \/ ReadError \/ ZstdError \/ Finished

Spec == Init /\ [][Next]_vars

\* The decoder is one thread that never waits for another.
FairSpec == Spec /\ WF_vars(Decode)

-------------------------------------------------------------------------------
(* Properties.                                                             *)

Endings == {"read_error", "truncated", "no_metadata", "partial_record", "done",
            "zstd_error", "bad_metadata", "short_record", "fn_threw"}

\* Every variable of the parser keeps its type, and no position passes the end
\* of its buffer.
TypeOK ==
  /\ input \in Inputs /\ limit \in Limits
  /\ fpos \in 0 .. input.len /\ inSize \in 0 .. InSize /\ inPos \in 0 .. inSize
  /\ frame \in Nat \ {0} /\ k \in Nat /\ f \in Nat /\ in_frame \in BOOLEAN
  /\ base \in Nat /\ size \in Nat /\ pos \in 0 .. size
  /\ filling \in BOOLEAN
  /\ pc \in {"prelude", "metadata", "records"} \cup Endings
  /\ count \in Nat /\ yielded \in Seq(Batch)

\* The spans given to fn are, end to end, the stream from the end of the
\* metadata to the read position, each with the length it declares: however
\* reads, frames, chunks and records overlap, the framing never slips.
RecordsFramed ==
  /\ count = Len(yielded)
  /\ count > 0 \/ pc = "records" => Linked(yielded, count, MetaEnd, base + pos)
  /\ \A i \in 1 .. count :
       /\ num_rows(yielded[i]) = DeclaredAt(yielded[i].lo)
       /\ num_rows(yielded[i]) >= HeaderLen

\* The file ends between two frames.
EndsBetweenFrames == input.len = LastFrame(input).c

\* "truncated zstd stream" is reported of truncated files only: a complete
\* file is not refused because zstd still held content when its last bytes
\* had been read.
NoFalseTruncation == pc = "truncated" => ~EndsBetweenFrames

\* The buffer holds at most one incomplete record, or the header, and one
\* chunk: memory does not depend on the size of the file.
BufferBounded ==
  size < (IF MetaEnd > MaxRecord THEN MetaEnd ELSE MaxRecord) + OutChunk

\* Decoding comes to an end, also over frames without content.
Terminates == <>Stopped

-------------------------------------------------------------------------------
(* Refinement.                                                             *)

SourceState == IF pc = "done" THEN "done" ELSE IF Stopped THEN "failed" ELSE "open"

Source == INSTANCE RecordSource WITH
            total  <- Len(input.recs),
            whole  <- /\ EndsBetweenFrames
                      /\ RecordEnd(input, Len(input.recs)) = LastFrame(input).d,
            given  <- count,
            source <- SourceState

\* The streaming decoder implements the plain source of records: what fn is
\* given is a prefix of what a decoder of the whole content at once would frame,
\* and when for_each_record() returns, `limit' records of it, or all of it and
\* the file ends between two frames with no byte left over.
ImplementsRecordSource == Source!Spec
===============================================================================
