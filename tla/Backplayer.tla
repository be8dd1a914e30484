------------------------------ MODULE Backplayer ------------------------------
(***************************************************************************)
(* The backplayer: run() reads one Arrow IPC stream from a TCP connection  *)
(* on the calling thread, decodes it step by step and hands every batch to *)
(* the player thread through the bounded queue.  The sender delivers its   *)
(* bytes at any pace and may close the connection after any of them.       *)
(*                                                                         *)
(* A stream is a sequence of messages, a message a sequence of parts, and  *)
(* the decoder asks for one part at a time (next_required_size).  Bytes    *)
(* are counted, not stored; batches are runs of row numbers (RowBatches).  *)
(***************************************************************************)
EXTENDS SingleQueue, FiniteSetsExt

CONSTANTS
  Streams,        \* the streams the sender may set out to send
  WordSize,       \* size of a continuation token and of a length
  MetadataSize,   \* size of a message's metadata
  BodySize,       \* size of a non-empty body
  LogEvery,       \* log_every_rows
  Addresses,      \* how many addresses the host resolves to
  Modes           \* the values of opt_.listen

Kinds == {"schema", "batch", "eos"}
Message == [kind : Kinds, rows : Nat]

ASSUME BackplayerAssumption ==
  /\ Streams \subseteq Seq(Message)
  /\ WordSize \in Nat \ {0} /\ MetadataSize \in Nat \ {0}
  /\ BodySize \in Nat \ {0} /\ LogEvery \in Nat \ {0}
  /\ Addresses \in Nat \ {0} /\ Modes \subseteq BOOLEAN

VARIABLES
  listen,     \* opt_.listen
  stream,     \* what the sender sets out to send
  peer,       \* the sender: "away", "connected" or "closed"
  sent,       \* bytes sent
  consumed,   \* bytes read
  pc,         \* where the run() thread is
  joinable,   \* thread_.joinable()
  fds,        \* open descriptors: listen_fd_ and conn
  addr,       \* addresses tried by connect_socket()
  msg, part,  \* what the decoder expects next
  done,       \* bytes read_fully() has got of it
  eos,        \* eos_
  hasSchema,  \* result.schema is set
  batches,    \* result.batches
  rows,       \* result.rows
  next_log,   \* next_log_
  lines,      \* progress lines printed
  pending,    \* the argument of enqueue() while it is being pushed
  dropped,    \* the batch whose progress line could not be printed
  ppc,        \* where the player thread is
  played      \* the batches played, in order

senderVars == <<listen, stream, peer, sent>>
resultVars == <<hasSchema, batches, rows, next_log, lines, dropped>>
decodeVars == <<consumed, msg, part, done, eos>>
threadVars == <<joinable, ppc, played, queue>>
dataVars   == <<senderVars, resultVars, decodeVars>>
socketVars == <<fds, addr>>
vars == <<dataVars, threadVars, pc, socketVars, pending>>

Init ==
  /\ listen \in Modes /\ stream \in Streams /\ peer = "away" /\ sent = 0
  /\ pc = "start" /\ joinable = FALSE /\ fds = {} /\ addr = 0
  /\ consumed = 0 /\ msg = 1 /\ part = 1 /\ done = 0 /\ eos = FALSE
  /\ hasSchema = FALSE /\ batches = 0 /\ rows = 0
  /\ next_log = LogEvery /\ lines = 0 /\ dropped = Null
  /\ pending = Null /\ queue = << >> /\ ppc = "unborn" /\ played = << >>

-------------------------------------------------------------------------------
(* The stream format: continuation token, length, metadata, body.  The end *)
(* of stream marker is a zero length.                                      *)

Parts(m) == IF m.kind = "eos" THEN <<WordSize, WordSize>>
            ELSE <<WordSize, WordSize, MetadataSize,
                   IF m.rows = 0 THEN 0 ELSE BodySize>>

MessageSize(m) == LET p == Parts(m) IN
  IF Len(p) = 2 THEN p[1] + p[2] ELSE p[1] + p[2] + p[3] + p[4]

StreamSize ==
  LET upTo[i \in 0 .. Len(stream)] ==
        IF i = 0 THEN 0 ELSE upTo[i - 1] + MessageSize(stream[i])
  IN upTo[Len(stream)]

\* decoder.next_required_size(): past the last message, another token.
need == IF msg > Len(stream) THEN WordSize ELSE Parts(stream[msg])[part]

-------------------------------------------------------------------------------
(* The sender and the network.                                             *)

PeerConnects ==
  /\ peer = "away" /\ (listen => "listen" \in fds)
  /\ peer' = "connected"
  /\ UNCHANGED <<listen, stream, sent, resultVars, decodeVars, threadVars, pc,
                 socketVars, pending>>

PeerSends ==
  /\ peer = "connected" /\ sent < StreamSize
  /\ sent' = sent + 1
  /\ UNCHANGED <<listen, stream, peer, resultVars, decodeVars, threadVars, pc,
                 socketVars, pending>>

\* Orderly or not: what was sent can still be read, then read() returns 0.
PeerCloses ==
  /\ peer = "connected"
  /\ peer' = "closed"
  /\ UNCHANGED <<listen, stream, sent, resultVars, decodeVars, threadVars, pc,
                 socketVars, pending>>

-------------------------------------------------------------------------------
(* Construction, and the start of run().                                   *)

\* With listen, the listening socket is set up here.
Construct ==
  /\ pc = "start"
  /\ pc' = "built" /\ fds' = IF listen THEN {"listen"} ELSE {}
  /\ UNCHANGED <<dataVars, threadVars, addr, pending>>

\* resolve, socket, setsockopt, bind or listen fails: the guard closes the
\* descriptor and no Backplayer exists.
ConstructFails ==
  /\ pc = "start" /\ listen
  /\ pc' = "gone"
  /\ UNCHANGED <<dataVars, threadVars, socketVars, pending>>

RunStarts ==
  /\ pc = "built"
  /\ joinable' = TRUE /\ ppc' = "poll" /\ pc' = "connect"
  /\ UNCHANGED <<dataVars, played, queue, socketVars, pending>>

\* The player thread cannot be created.
RunFails ==
  /\ pc = "built" /\ pc' = "unwind"
  /\ UNCHANGED <<dataVars, threadVars, socketVars, pending>>

Accept ==
  /\ pc = "connect" /\ listen /\ peer # "away"
  /\ pc' = "decode" /\ fds' = fds \cup {"conn"}
  /\ UNCHANGED <<dataVars, threadVars, addr, pending>>

\* connect_socket(): a socket for the next address, ...
OpenSocket ==
  /\ pc = "connect" /\ ~listen /\ addr < Addresses
  /\ addr' = addr + 1 /\ pc' = "try" /\ fds' = fds \cup {"conn"}
  /\ UNCHANGED <<dataVars, threadVars, pending>>

\* ... or none to be had, and the address is passed over.
SocketFails ==
  /\ pc = "connect" /\ ~listen /\ addr < Addresses
  /\ addr' = addr + 1
  /\ UNCHANGED <<dataVars, threadVars, pc, fds, pending>>

\* The address takes the connection, ...
ConnectAddress ==
  /\ pc = "try" /\ peer # "away"
  /\ pc' = "decode"
  /\ UNCHANGED <<dataVars, threadVars, socketVars, pending>>

\* ... or refuses it, and the guard closes the socket.
AddressRefuses ==
  /\ pc = "try"
  /\ pc' = "connect" /\ fds' = fds \ {"conn"}
  /\ UNCHANGED <<dataVars, threadVars, addr, pending>>

\* Faulty variant: nothing guards the connection.
ThrowLeaking == pc' = "unwind" /\ UNCHANGED fds

\* An exception leaves run(): the connection's guard closes it.
Throw == pc' = "unwind" /\ fds' = fds \ {"conn"}

\* accept() or getaddrinfo() fails, or no address is left.
ConnectFails ==
  /\ pc = "connect"
  /\ listen \/ addr \in {0, Addresses}
  /\ Throw
  /\ UNCHANGED <<dataVars, threadVars, addr, pending>>

-------------------------------------------------------------------------------
(* decode() and the decoder's callbacks, on the run() thread.              *)

Decoding == pc = "decode" /\ ~eos

\* read() returns some of the bytes that are there.
Read ==
  /\ Decoding /\ done < need /\ consumed < sent
  /\ \E n \in 1 .. sent - consumed :
       /\ n <= need - done
       /\ consumed' = consumed + n /\ done' = done + n
  /\ UNCHANGED <<senderVars, resultVars, msg, part, eos, threadVars, pc,
                 socketVars, pending>>

\* read() returns 0.
AtEnd == peer = "closed" /\ consumed = sent

\* Faulty variant: an empty part is taken for the end.
EndsOnEmptyRead == done = 0 /\ (need = 0 \/ AtEnd)

\* read_fully() got nothing of a part that has bytes: the stream is over.
StreamOver == done = 0 /\ need > 0 /\ AtEnd

DecodeReturns ==
  /\ Decoding /\ StreamOver
  /\ pc' = "run_null"
  /\ UNCHANGED <<dataVars, threadVars, socketVars, pending>>

\* The sender closed inside a part.
TruncatedThrows ==
  /\ Decoding /\ done > 0 /\ done < need /\ AtEnd
  /\ Throw
  /\ UNCHANGED <<dataVars, threadVars, addr, pending>>

\* The print of the connection, AllocateBuffer, read() or Consume() fails: an
\* output or socket failure, no memory, a malformed message.  The message at
\* hand is not decoded, and what result held is gone with run().
DecodeThrows ==
  /\ Decoding
  /\ Throw
  /\ UNCHANGED <<dataVars, threadVars, addr, pending>>

PartRead == Decoding /\ done = need /\ msg <= Len(stream)
LastPart == part = Len(Parts(stream[msg]))

\* Consume() of a part that does not complete a message.
ConsumePart ==
  /\ PartRead /\ ~LastPart
  /\ part' = part + 1 /\ done' = 0
  /\ UNCHANGED <<senderVars, resultVars, consumed, msg, eos, threadVars, pc,
                 socketVars, pending>>

NextMessage == msg' = msg + 1 /\ part' = 1 /\ done' = 0

\* OnSchemaDecoded
ConsumeSchema ==
  /\ PartRead /\ LastPart /\ stream[msg].kind = "schema"
  /\ NextMessage /\ hasSchema' = TRUE
  /\ UNCHANGED <<senderVars, batches, rows, next_log, lines, dropped, consumed,
                 eos, threadVars, pc, socketVars, pending>>

\* Faulty variant: the next mark is counted from the last mark.
NextMarkFromLast(n) == next_log + LogEvery

NextMark(n) == (n \div LogEvery + 1) * LogEvery

BatchRead == PartRead /\ LastPart /\ stream[msg].kind = "batch"
Decoded == [lo |-> rows, hi |-> rows + stream[msg].rows]

\* OnRecordBatchDecoded counts the batch before anything else.
CountBatch == batches' = batches + 1 /\ rows' = Decoded.hi

\* OnRecordBatchDecoded, up to the push.
ConsumeBatch ==
  /\ BatchRead /\ CountBatch
  /\ \/ rows' >= next_log /\ lines' = lines + 1 /\ next_log' = NextMark(rows')
     \/ rows' < next_log /\ UNCHANGED <<lines, next_log>>
  /\ NextMessage /\ pending' = Decoded /\ pc' = "push"
  /\ UNCHANGED <<senderVars, hasSchema, dropped, consumed, eos, threadVars,
                 socketVars>>

\* The progress line of a batch cannot be printed: the batch has been counted
\* and is not enqueued.
PrintThrows ==
  /\ BatchRead /\ CountBatch /\ rows' >= next_log
  /\ dropped' = Decoded
  /\ Throw
  /\ UNCHANGED <<senderVars, hasSchema, next_log, lines, decodeVars, threadVars,
                 addr, pending>>

PushBatch ==
  /\ pc = "push"
  /\ try_push(pending)
  /\ pending' = Null /\ pc' = "decode"
  /\ UNCHANGED <<dataVars, joinable, ppc, played, socketVars>>

\* OnEOS; the loop ends.
ConsumeEos ==
  /\ PartRead /\ LastPart /\ stream[msg].kind = "eos"
  /\ NextMessage /\ eos' = TRUE /\ pc' = "run_null"
  /\ UNCHANGED <<senderVars, resultVars, consumed, threadVars, socketVars,
                 pending>>

-------------------------------------------------------------------------------
(* The end of run(), and ~Backplayer.                                      *)

RunNull ==
  /\ pc = "run_null"
  /\ try_push(Null)
  /\ pc' = "run_join"
  /\ UNCHANGED <<dataVars, joinable, ppc, played, socketVars, pending>>

\* Faulty variant: the thread is not waited for.
JoinsNothing == TRUE

\* thread_.join() returns.
Joins == ppc = "exited"

RunReturns ==
  /\ pc = "run_join" /\ Joins
  /\ joinable' = FALSE /\ pc' = "returned" /\ fds' = fds \ {"conn"}
  /\ UNCHANGED <<dataVars, ppc, played, queue, addr, pending>>

Destroy ==
  /\ pc \in {"built", "unwind", "returned"}
  /\ \/ joinable /\ pc' = "dtor_null" /\ UNCHANGED fds
     \/ ~joinable /\ pc' = "gone" /\ fds' = fds \ {"listen"}
  /\ UNCHANGED <<dataVars, threadVars, addr, pending>>

DestroyNull ==
  /\ pc = "dtor_null"
  /\ try_push(Null)
  /\ pc' = "dtor_join"
  /\ UNCHANGED <<dataVars, joinable, ppc, played, socketVars, pending>>

DestroyJoin ==
  /\ pc = "dtor_join" /\ Joins
  /\ joinable' = FALSE /\ pc' = "gone" /\ fds' = fds \ {"listen"}
  /\ UNCHANGED <<dataVars, ppc, played, queue, addr, pending>>

-------------------------------------------------------------------------------
(* The player thread: player_loop().                                       *)

Plays(b) ==
  /\ ppc = "poll"
  /\ \/ b = Null /\ ppc' = "exited" /\ UNCHANGED played
     \/ b # Null /\ played' = Append(played, b) /\ UNCHANGED ppc
  /\ UNCHANGED <<dataVars, joinable, pc, socketVars, pending>>

\* Faulty variants: the newest batch is played first, or the queue is not
\* drained once the stream has ended.
PlayNewestFirst == /\ queue # << >> /\ Plays(queue[Len(queue)])
                   /\ queue' = SubSeq(queue, 1, Len(queue) - 1)
PlayOnlyWhileDecoding ==
  pc \in {"decode", "push"} /\ try_pop(Head(queue)) /\ Plays(Head(queue))

Play == try_pop(Head(queue)) /\ Plays(Head(queue))

-------------------------------------------------------------------------------
Sender == PeerConnects \/ PeerSends \/ PeerCloses

\* What the run() thread does by itself, and what can go wrong for it.
Steps == \/ Construct \/ RunStarts \/ Accept
         \/ OpenSocket \/ ConnectAddress \/ AddressRefuses \/ Read \/ DecodeReturns
         \/ TruncatedThrows \/ ConsumePart \/ ConsumeSchema \/ ConsumeBatch \/ PushBatch \/ ConsumeEos
         \/ RunNull \/ RunReturns \/ Destroy \/ DestroyNull \/ DestroyJoin

Failures == \/ ConstructFails \/ RunFails \/ SocketFails \/ ConnectFails
            \/ DecodeThrows \/ PrintThrows

\* Nothing is left to happen once the Backplayer is destroyed.
Gone == pc = "gone" /\ UNCHANGED vars

Next == Sender \/ Steps \/ Failures \/ Play \/ Gone

Spec == Init /\ [][Next]_vars

\* Both threads keep being scheduled, connect() gives up in the end, and the
\* last refusal throws.  Neither the sender nor any other failure is relied on.
FairSpec == /\ Spec /\ WF_vars(Steps) /\ WF_vars(Play)
            /\ WF_vars(ConnectFails /\ addr = Addresses)

-------------------------------------------------------------------------------
(* Properties.                                                             *)

CallerStates == {"start", "built", "connect", "try", "decode", "push", "run_null",
                 "run_join", "returned", "unwind", "dtor_null", "dtor_join", "gone"}

\* Every variable of the backplayer keeps its type.
TypeOK ==
  /\ listen \in Modes /\ stream \in Streams /\ peer \in {"away", "connected", "closed"}
  /\ sent \in Nat /\ consumed \in 0 .. sent
  /\ pc \in CallerStates /\ joinable \in BOOLEAN
  /\ fds \subseteq {"listen", "conn"} /\ addr \in 0 .. Addresses
  /\ msg \in Nat \ {0} /\ part \in 1 .. 4 /\ done \in Nat /\ done <= need
  /\ eos \in BOOLEAN /\ hasSchema \in BOOLEAN
  /\ batches \in Nat /\ rows \in Nat /\ next_log \in Nat /\ lines \in Nat
  /\ pending \in Batch \cup {Null} /\ dropped \in Batch \cup {Null}
  /\ ppc \in {"unborn", "poll", "exited"} /\ played \in Seq(Batch)
  /\ queue \in Seq(Batch \cup {Null}) /\ Len(queue) <= Depth

PlayedRows == IF played = << >> THEN 0 ELSE played[Len(played)].hi

\* The batch counted that never was in the queue: being pushed, or dropped.
InHand == IF pending # Null THEN pending ELSE dropped

Ended == pc \in {"run_null", "run_join", "returned"}

\* Batches reach the player in the order they were decoded, none played twice,
\* empty ones included, and none lost but the last one counted, when its
\* progress line could not be printed; run() never returns after that.
BatchesInOrder ==
  /\ Linked(played, Len(played), 0, PlayedRows)
  /\ Linked(queue, DataLen, PlayedRows, IF InHand = Null THEN rows ELSE InHand.lo)
  /\ InHand # Null => InHand.hi = rows
  /\ Len(played) + DataLen + (IF InHand = Null THEN 0 ELSE 1) = batches
  /\ dropped # Null => pending = Null /\ ~Ended

\* run() ends a stream normally only at its end: at the end-of-stream marker,
\* or when the sender has closed, every byte it sent was read, and no part was
\* left half read.  An empty part never ends it.
EndsOnlyAtEnd == Ended => eos \/ (AtEnd /\ done = 0)

\* "A close inside a message is an error": run() ends normally only at the end
\* of the stream or between two messages.
CloseInsideMessageIsError == Ended => eos \/ (part = 1 /\ done = 0)

\* The descriptors open are those of the listening socket and of the
\* connection in use: a socket whose address refused is closed before the next
\* one is tried, the connection however run() ended, and none outlives the
\* Backplayer.
DescriptorsReleased ==
  /\ pc \in {"connect", "unwind", "returned", "dtor_null", "dtor_join"}
       => "conn" \notin fds
  /\ pc = "gone" => fds = {}

\* A progress line is printed exactly when the row count passes a multiple of
\* log_every_rows, one line for a batch however many multiples it passes; the
\* one exception is a line whose print fails, and with it run().
LinePerMark ==
  [][/\ lines' \in lines .. lines + 1
     /\ rows' \div LogEvery > rows \div LogEvery
          <=> lines' # lines \/ (dropped' # dropped /\ pc' = "unwind")]_vars

MaxBatches == Max({Len(s) : s \in Streams})

\* The batches given to enqueue(), the one being pushed included.
Enqueued == batches - (IF dropped = Null THEN 0 ELSE 1)

\* Every batch handed to enqueue() is played in the end, whether the stream goes
\* on, ends or breaks off, and also while the sender keeps silent, so a full queue
\* never holds the reader up for good; and once the sender has closed, run() and
\* the destructor come to an end.
Released ==
  /\ \A n \in 1 .. MaxBatches : Enqueued >= n ~> Len(played) >= n
  /\ (peer = "closed" /\ joinable) ~> ~joinable

-------------------------------------------------------------------------------
(* Refinement.                                                             *)

PlayerState ==
  IF pc \in {"start", "built", "connect", "try", "decode", "push"} THEN "open"
  ELSE IF ~joinable THEN "stopped" ELSE IF Ended THEN "over" ELSE "broken"

Lost == IF dropped = Null THEN <<0, 0>> ELSE <<1, num_rows(dropped)>>

Player == INSTANCE Playback WITH
            received <- <<batches, rows>>, handled <- <<Len(played), PlayedRows>>,
            lost <- Lost, state <- PlayerState

\* The two threads implement the plain playback.  When run() returns, the player
\* thread has played exactly what was decoded, so the counts run() returns are
\* the counts the player saw.  When run() threw, the thread is joined only after
\* it has played all that was decoded but the batch whose progress line could not
\* be printed, if that was why.
ImplementsPlayback == Player!Spec
===============================================================================
