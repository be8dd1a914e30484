--------------------------- MODULE BackplayerProofs ---------------------------
(***************************************************************************)
(* Proofs about Backplayer, for every set of streams, queue depth, size of *)
(* a message part, distance of the progress marks and number of addresses. *)
(*                                                                         *)
(* As with the writer, none of the invariants is inductive alone.  Inv     *)
(* adds who holds a batch (Hands), where run() can be once a batch was     *)
(* dropped (Dropped), when the pill may be in the queue and the thread     *)
(* joinable (Pill), which part of which message is expected (Expected),    *)
(* that batches run forwards (Spans), where the next progress mark is      *)
(* (Mark), and which descriptors are open where (Descriptors).             *)
(***************************************************************************)
EXTENDS Backplayer, TLAPS

-------------------------------------------------------------------------------
(* The queue: what a push and a pop do to its adjoining batches.           *)

QueueType == queue \in Seq(Batch \cup {Null})

\* No pill has been pushed.
NoPill == \A i \in 1 .. Len(queue) : queue[i] # Null

\* If there is a pill it is at the end.
PillLast == \A i \in 1 .. Len(queue) : queue[i] = Null => i = Len(queue)

\* The player: a batch that starts where s ends extends s.
LEMMA LinkedAppend ==
  ASSUME NEW S, NEW s \in Seq(S), NEW e \in S, NEW a, NEW b,
         Linked(s, Len(s), a, b), e.lo = b
  PROVE  Linked(Append(s, e), Len(s) + 1, a, e.hi)
BY DEF Linked

\* Pushing the batch that continues the queue keeps the queue without gaps.
LEMMA PushLinked ==
  ASSUME QueueType, NoPill, NEW b \in Batch, try_push(b),
         NEW lo, NEW hi, Linked(queue, DataLen, lo, hi), b.lo = hi
  PROVE  Linked(queue', DataLen', lo, b.hi)
BY NullAssumption, LinkedAppend DEF QueueType, NoPill, DataLen, try_push

\* Pushing the pill does not touch the batches ahead of it.
LEMMA PushPillLinked ==
  ASSUME QueueType, NoPill, try_push(Null),
         NEW lo, NEW hi, Linked(queue, DataLen, lo, hi)
  PROVE  Linked(queue', DataLen', lo, hi)
BY DEF QueueType, NoPill, DataLen, try_push, Linked

\* Popping a batch leaves one batch fewer, whether or not the pill is behind it.
LEMMA PopShortens ==
  ASSUME QueueType, PillLast, try_pop(Head(queue)), Head(queue) # Null
  PROVE  DataLen' = DataLen - 1
BY DEF QueueType, PillLast, DataLen, try_pop

\* Popping a batch yields the one the queue starts with and leaves the rest.
LEMMA PopLinked ==
  ASSUME QueueType, PillLast, try_pop(Head(queue)), Head(queue) # Null,
         NEW lo, NEW hi, Linked(queue, DataLen, lo, hi)
  PROVE  /\ Head(queue) \in Batch
         /\ Head(queue).lo = lo
         /\ Linked(queue', DataLen', Head(queue).hi, hi)
<1>1. DataLen' = DataLen - 1
  BY PopShortens
<1>2. Head(queue) \in Batch
  BY DEF QueueType, try_pop
<1>3. /\ DataLen > 0 /\ DataLen \in Nat /\ Head(queue) = queue[1]
      /\ \A i \in 1 .. DataLen - 1 : queue'[i] = queue[i + 1]
  BY DEF QueueType, DataLen, try_pop
<1> HIDE DEF DataLen
<1> QED
  BY <1>1, <1>2, <1>3 DEF Linked

-------------------------------------------------------------------------------
(* The invariant.                                                          *)

Hands == pending # Null <=> pc = "push"

\* The throw that drops a batch leaves run(); only ~Backplayer is left.
Dropped == dropped # Null => pc \in {"unwind", "dtor_null", "dtor_join", "gone"}

PillSent == ppc = "exited" \/ \E i \in 1 .. Len(queue) : queue[i] = Null

Pill ==
  /\ PillLast
  /\ ppc = "exited" => queue = << >>
  /\ PillSent => pc \in {"run_join", "dtor_join"} \/ ~joinable
  /\ pc \in {"run_join", "dtor_join"} => PillSent
  /\ joinable => ppc # "unborn" /\ pc \notin {"start", "built", "returned", "gone"}
  /\ ~joinable => queue = << >> /\ ppc # "poll"
  /\ pc \in {"connect", "try", "decode", "push", "run_null", "run_join", "dtor_null",
             "dtor_join"} => joinable
  /\ pc \in {"start", "built"} => ppc = "unborn" /\ batches = 0 /\ rows = 0

Expected == msg <= Len(stream) => part <= Len(Parts(stream[msg]))

Spans ==
  /\ pending # Null => pending.lo <= pending.hi
  /\ dropped # Null => dropped.lo <= dropped.hi
  /\ \A i \in 1 .. Len(queue) :
       queue[i] # Null => queue[i].lo <= queue[i].hi /\ queue[i].hi <= rows

Mark == dropped = Null => next_log = NextMark(rows)

Descriptors ==
  /\ "conn" \in fds => pc \in {"try", "decode", "push", "run_null", "run_join"}
  /\ pc \in {"start", "gone"} => fds = {}

Inv == /\ TypeOK
       /\ Hands /\ Dropped /\ Pill /\ Expected /\ Spans /\ Mark /\ Descriptors
       /\ BatchesInOrder /\ EndsOnlyAtEnd

USE BackplayerAssumption, DepthAssumption, NullAssumption
USE DEF senderVars, resultVars, decodeVars, threadVars, dataVars, socketVars,
        BatchRead, InHand

-------------------------------------------------------------------------------
(* The operators of the model.                                             *)

\* The quotient of the code's division, by what it is for.
LEMMA Quotient ==
  ASSUME NEW n \in Nat, NEW d \in Nat \ {0}
  PROVE  /\ n \div d \in Nat
         /\ (n \div d) * d <= n
         /\ n < (n \div d + 1) * d
OBVIOUS

\* Row n is at or past the mark that follows row m exactly when a multiple of
\* log_every_rows lies between them.
LEMMA MarkPassed ==
  ASSUME NEW m \in Nat, NEW n \in Nat, m <= n
  PROVE  /\ NextMark(m) \in Nat
         /\ n >= NextMark(m) <=> n \div LogEvery > m \div LogEvery
         /\ n < NextMark(m) => NextMark(n) = NextMark(m)
<1> DEFINE q == m \div LogEvery
           p == n \div LogEvery
<1>1. /\ q \in Nat /\ p \in Nat
      /\ q * LogEvery <= m /\ m < (q + 1) * LogEvery
      /\ p * LogEvery <= n /\ n < (p + 1) * LogEvery
  BY Quotient
<1>2. NextMark(m) = (q + 1) * LogEvery /\ NextMark(n) = (p + 1) * LogEvery
  BY DEF NextMark
<1> HIDE DEF p, q
<1>3. ASSUME p > q PROVE (q + 1) * LogEvery <= p * LogEvery
  BY <1>1, <1>3
<1>4. ASSUME p < q PROVE (p + 1) * LogEvery <= q * LogEvery
  BY <1>1, <1>4
<1>5. p >= q
  BY <1>1, <1>4
<1> QED
  BY <1>1, <1>2, <1>3, <1>5 DEF p, q

\* A message of the stream is a message.
LEMMA MessageType ==
  ASSUME TypeOK, msg <= Len(stream)
  PROVE  /\ stream[msg] \in Message
         /\ stream[msg].kind \in Kinds /\ stream[msg].rows \in Nat
<1>1. stream \in Seq(Message) /\ msg \in 1 .. Len(stream)
  BY DEF TypeOK
<1>2. stream[msg] \in Message
  BY <1>1
<1> QED
  BY <1>2 DEF Message

\* What the decoder asks for next has a size.
LEMMA NeedIsNat ==
  ASSUME TypeOK, Expected
  PROVE  need \in Nat
<1>1. CASE msg > Len(stream)
  BY <1>1 DEF need
<1>2. CASE msg <= Len(stream)
  <2>1. stream[msg].kind \in Kinds /\ stream[msg].rows \in Nat
    BY <1>2, MessageType
  <2> QED
    BY <1>2, <2>1, SMTT(30) DEF need, Parts, TypeOK, Expected, Kinds
<1> QED
  BY <1>1, <1>2 DEF TypeOK

-------------------------------------------------------------------------------
(* Init and the type invariant.                                            *)

\* Before run() the invariant holds: nothing is decoded, queued or open.
LEMMA InitInv == Init => Inv
<1> SUFFICES ASSUME Init PROVE Inv
  OBVIOUS
<1> USE DEF Init
<1>1. Expected
  BY DEF Expected, Parts
<1>2. TypeOK
  <2>1. need \in Nat
    BY DEF need, Parts, Message
  <2>2. queue \in Seq(Batch \cup {Null}) /\ Len(queue) <= Depth
    OBVIOUS
  <2>3. played \in Seq(Batch)
    OBVIOUS
  <2>4. joinable \in BOOLEAN /\ eos \in BOOLEAN /\ hasSchema \in BOOLEAN
    OBVIOUS
  <2>5. fds \subseteq {"listen", "conn"} /\ pending \in Batch \cup {Null}
        /\ dropped \in Batch \cup {Null}
    OBVIOUS
  <2> QED
    BY <2>1, <2>2, <2>3, <2>4, <2>5 DEF TypeOK, CallerStates
<1>3. Hands /\ Dropped /\ Pill /\ Spans /\ Descriptors
  BY DEF Hands, Dropped, Pill, PillSent, PillLast, Spans, Descriptors
<1>4. Mark
  BY DEF Mark, NextMark
<1>5. BatchesInOrder /\ EndsOnlyAtEnd
  BY DEF BatchesInOrder, PlayedRows, Linked, DataLen, EndsOnlyAtEnd, Ended
<1> QED
  BY <1>1, <1>2, <1>3, <1>4, <1>5 DEF Inv

\* Every step of either thread keeps the control invariants.
LEMMA ControlStep ==
  Inv /\ [Next]_vars => Hands' /\ Dropped' /\ Pill' /\ Descriptors'
<1> SUFFICES ASSUME Inv, [Next]_vars
             PROVE  Hands' /\ Dropped' /\ Pill' /\ Descriptors'
  OBVIOUS
<1> USE DEF Inv, TypeOK, Hands, Dropped, Pill, PillSent, PillLast, Descriptors, CallerStates, Batch
<1>1. CASE PeerConnects
  BY <1>1 DEF PeerConnects
<1>2. CASE PeerSends
  BY <1>2 DEF PeerSends
<1>3. CASE PeerCloses
  BY <1>3 DEF PeerCloses
<1>4. CASE Construct
  BY <1>4 DEF Construct
<1>5. CASE ConstructFails
  BY <1>5 DEF ConstructFails
<1>6. CASE RunStarts
  BY <1>6 DEF RunStarts
<1>7. CASE RunFails
  BY <1>7 DEF RunFails
<1>8. CASE Accept
  BY <1>8 DEF Accept
<1>9. CASE ConnectAddress
  BY <1>9 DEF ConnectAddress
<1>10. CASE AddressRefuses
  BY <1>10 DEF AddressRefuses
<1>11. CASE ConnectFails
  BY <1>11 DEF ConnectFails, Throw
<1>12. CASE Read
  BY <1>12 DEF Read, Decoding
<1>13. CASE DecodeReturns
  BY <1>13 DEF DecodeReturns, Decoding, StreamOver, AtEnd
<1>14. CASE TruncatedThrows
  BY <1>14 DEF TruncatedThrows, Decoding, AtEnd, Throw
<1>15. CASE DecodeThrows
  BY <1>15 DEF DecodeThrows, Decoding, Throw
<1>16. CASE ConsumePart
  BY <1>16 DEF ConsumePart, PartRead, Decoding, LastPart
<1>17. CASE ConsumeSchema
  BY <1>17 DEF ConsumeSchema, PartRead, Decoding, LastPart, NextMessage
<1>18. CASE ConsumeBatch
  <2>1. /\ pc = "decode" /\ pc' = "push" /\ pending' \in Batch
        /\ UNCHANGED <<threadVars, fds, dropped>>
    <3>1. stream[msg].rows \in Nat
      BY <1>18, MessageType DEF ConsumeBatch, PartRead
    <3> QED
      BY <1>18, <3>1 DEF ConsumeBatch, Decoded, PartRead, Decoding
  <2> QED
    BY <2>1
<1>19. CASE PushBatch
  BY <1>19 DEF PushBatch, try_push
<1>20. CASE ConsumeEos
  BY <1>20 DEF ConsumeEos, PartRead, Decoding, LastPart, NextMessage
<1>21. CASE RunNull
  <2>1. /\ pc = "run_null" /\ pc' = "run_join" /\ joinable /\ joinable'
        /\ \A i \in 1 .. Len(queue) : queue[i] # Null
        /\ ppc = "poll" /\ ppc' = "poll"
    BY <1>21 DEF RunNull
  <2>2. queue' = Append(queue, Null)
    BY <1>21 DEF RunNull, try_push
  <2>3. Hands' /\ Dropped' /\ Descriptors'
    BY <1>21, <2>1 DEF RunNull
  <2>4. PillLast'
    BY <2>1, <2>2, SMTT(30)
  <2>5. queue'[Len(queue')] = Null /\ Len(queue') \in 1 .. Len(queue')
    BY <2>2
  <2>6. PillSent'
    BY <2>5
  <2> QED
    BY <1>21, <2>1, <2>3, <2>4, <2>6 DEF RunNull
<1>22. CASE RunReturns
  BY <1>22 DEF RunReturns, Joins
<1>23. CASE Destroy
  BY <1>23 DEF Destroy, BatchesInOrder
<1>24. CASE DestroyNull
  <2>1. /\ pc = "dtor_null" /\ pc' = "dtor_join" /\ joinable /\ joinable'
        /\ \A i \in 1 .. Len(queue) : queue[i] # Null
        /\ ppc = "poll" /\ ppc' = "poll"
    BY <1>24 DEF DestroyNull
  <2>2. queue' = Append(queue, Null)
    BY <1>24 DEF DestroyNull, try_push
  <2>3. Hands' /\ Dropped' /\ Descriptors'
    BY <1>24, <2>1 DEF DestroyNull
  <2>4. PillLast'
    BY <2>1, <2>2
  <2>5. queue'[Len(queue')] = Null /\ Len(queue') \in 1 .. Len(queue')
    BY <2>2
  <2>6. PillSent'
    BY <2>5
  <2> QED
    BY <1>24, <2>1, <2>3, <2>4, <2>6 DEF DestroyNull
<1>25. CASE DestroyJoin
  BY <1>25 DEF DestroyJoin, Joins
<1>26. CASE Play
  <2> USE <1>26 DEF Play, Plays, try_pop
  <2>1. pc \in {"run_join", "dtor_join"} => PillSent'
    <3> SUFFICES ASSUME NEW i \in 1 .. Len(queue), queue[i] = Null, ppc' # "exited"
                 PROVE  \E j \in 1 .. Len(queue') : queue'[j] = Null
      OBVIOUS
    <3>1. i - 1 \in 1 .. Len(queue') /\ queue'[i - 1] = Null
      OBVIOUS
    <3> QED
      BY <3>1
  <2>2. Hands' /\ Dropped' /\ Descriptors'
    OBVIOUS
  <2>3. PillSent' => pc \in {"run_join", "dtor_join"} \/ ~joinable
    OBVIOUS
  <2>4. PillLast' /\ (ppc' = "exited" => queue' = << >>)
    OBVIOUS
  <2> HIDE DEF PillSent, PillLast
  <2> QED
    BY <2>1, <2>2, <2>3, <2>4
<1>27. CASE OpenSocket
  BY <1>27 DEF OpenSocket
<1>28. CASE SocketFails
  BY <1>28 DEF SocketFails
<1>29. CASE PrintThrows
  <2>1. /\ pc = "decode" /\ pc' = "unwind" /\ fds' = fds \ {"conn"}
        /\ UNCHANGED <<threadVars, pending>>
    BY <1>29 DEF PrintThrows, PartRead, Decoding, Throw
  <2> QED
    BY <2>1
<1>30. CASE UNCHANGED vars
  BY <1>30 DEF vars
<1> QED
  BY <1>1, <1>2, <1>3, <1>4, <1>5, <1>6, <1>7, <1>8, <1>9, <1>10, <1>11,
     <1>12, <1>13, <1>14, <1>15, <1>16, <1>17, <1>18, <1>19, <1>20, <1>21,
     <1>22, <1>23, <1>24, <1>25, <1>26, <1>27,
     <1>28, <1>29, <1>30
     DEF Next, Sender, Steps, Failures, Gone

-------------------------------------------------------------------------------
(* The decoder: types, the part expected, and the end of the stream.       *)

decoderVars == <<listen, stream, peer, sent, consumed, msg, part, done, eos>>

\* The steps that move the sender or the decoder.
LEMMA DecoderMoves ==
  ASSUME [Next]_vars
  PROVE  \/ PeerConnects \/ PeerSends \/ PeerCloses \/ Read \/ ConsumePart
         \/ ConsumeSchema \/ ConsumeBatch \/ ConsumeEos
         \/ UNCHANGED decoderVars
<1> USE DEF decoderVars
<1>1. CASE \/ Construct \/ ConstructFails \/ RunStarts \/ RunFails \/ Accept
           \/ OpenSocket \/ SocketFails \/ ConnectAddress \/ AddressRefuses
           \/ ConnectFails
  BY <1>1 DEF Construct, ConstructFails, RunStarts, RunFails, Accept, OpenSocket,
              SocketFails, ConnectAddress, AddressRefuses, ConnectFails
<1>2. CASE \/ DecodeReturns \/ TruncatedThrows \/ DecodeThrows \/ PrintThrows
           \/ PushBatch \/ RunNull \/ RunReturns \/ Destroy \/ DestroyNull \/ DestroyJoin
  BY <1>2 DEF DecodeReturns, TruncatedThrows, DecodeThrows, PrintThrows, PushBatch,
              RunNull, RunReturns, Destroy, DestroyNull, DestroyJoin
<1>3. CASE Play \/ Gone \/ UNCHANGED vars
  BY <1>3 DEF Play, Plays, Gone, vars
<1> QED
  BY <1>1, <1>2, <1>3 DEF Next, Sender, Steps, Failures

\* Every step keeps the decoder inside a part of a message.
LEMMA ExpectedStep == Inv /\ [Next]_vars => Expected' /\ (done <= need)'
<1> SUFFICES ASSUME Inv, [Next]_vars PROVE Expected' /\ (done <= need)'
  OBVIOUS
<1>1. /\ need \in Nat /\ done \in Nat /\ done <= need /\ Expected
      /\ msg \in Nat \ {0} /\ part \in 1 .. 4
      /\ sent \in Nat /\ consumed \in 0 .. sent
      /\ stream \in Seq(Message)
  BY NeedIsNat DEF Inv, TypeOK
<1>2. CASE UNCHANGED <<stream, msg, part, done>>
  BY <1>1, <1>2 DEF Expected, need
<1>3. CASE Read
  BY <1>1, <1>3 DEF Read, Expected, need
<1>4. CASE ConsumePart
  <2>1. /\ msg <= Len(stream) /\ part # Len(Parts(stream[msg])) /\ part' = part + 1
        /\ done' = 0 /\ UNCHANGED <<stream, msg>>
    BY <1>4 DEF ConsumePart, PartRead, LastPart
  <2>2. stream[msg].kind \in Kinds /\ stream[msg].rows \in Nat
    BY <2>1, MessageType DEF Inv
  <2>3. Expected'
    BY <1>1, <2>1 DEF Expected, Parts
  <2> QED
    BY <1>1, <2>1, <2>2, <2>3 DEF need, Parts, Expected
<1>5. CASE NextMessage /\ UNCHANGED stream
  <2>1. msg' = msg + 1 /\ part' = 1 /\ done' = 0
    BY <1>5 DEF NextMessage
  <2>2. ASSUME msg' <= Len(stream)
        PROVE  stream[msg'].kind \in Kinds /\ stream[msg'].rows \in Nat
    <3>1. stream[msg'] \in Message
      BY <1>1, <2>1, <2>2
    <3> QED
      BY <3>1 DEF Message
  <2> QED
    BY <1>1, <1>5, <2>1, <2>2 DEF Expected, need, Parts
<1> QED
  BY <1>2, <1>3, <1>4, <1>5, DecoderMoves
     DEF decoderVars, PeerConnects, PeerSends, PeerCloses, ConsumeSchema,
         ConsumeBatch, ConsumeEos

\* Every step that ends the stream finds its end, and nothing comes after it.
LEMMA EndStep == Inv /\ [Next]_vars => EndsOnlyAtEnd'
<1> SUFFICES ASSUME Inv, [Next]_vars, Ended' PROVE (eos \/ (AtEnd /\ done = 0))'
  BY DEF EndsOnlyAtEnd
<1> USE DEF Ended, AtEnd, Inv, EndsOnlyAtEnd
<1>1. CASE PeerConnects \/ PeerSends \/ PeerCloses
  BY <1>1 DEF PeerConnects, PeerSends, PeerCloses
<1>2. CASE Read \/ ConsumePart \/ ConsumeSchema \/ ConsumeBatch
  BY <1>2 DEF Read, ConsumePart, ConsumeSchema, ConsumeBatch, PartRead, Decoding
<1>3. CASE ConsumeEos
  BY <1>3 DEF ConsumeEos
<1>4. CASE DecodeReturns
  BY <1>4 DEF DecodeReturns, StreamOver
<1>5. CASE \/ Construct \/ ConstructFails \/ RunStarts \/ RunFails \/ Accept
           \/ OpenSocket \/ SocketFails \/ ConnectAddress \/ AddressRefuses
           \/ ConnectFails
  BY <1>5 DEF Construct, ConstructFails, RunStarts, RunFails, Accept, OpenSocket,
     SocketFails, ConnectAddress, AddressRefuses, ConnectFails, Throw
<1>6. CASE \/ TruncatedThrows \/ DecodeThrows \/ PrintThrows \/ PushBatch
           \/ Destroy \/ DestroyNull \/ DestroyJoin
  BY <1>6 DEF TruncatedThrows, DecodeThrows, PrintThrows, PushBatch, Destroy,
     DestroyNull, DestroyJoin, Throw
<1>7. CASE RunNull \/ RunReturns \/ Play \/ Gone \/ UNCHANGED vars
  BY <1>7 DEF RunNull, RunReturns, Play, Plays, Gone, vars
<1> QED
  BY <1>1, <1>2, <1>3, <1>4, <1>5, <1>6, <1>7 DEF Next, Sender, Steps, Failures

\* The threads, the descriptors and the addresses tried keep their types.
ControlTypes ==
  /\ pc \in CallerStates /\ joinable \in BOOLEAN /\ hasSchema \in BOOLEAN
  /\ fds \subseteq {"listen", "conn"} /\ addr \in 0 .. Addresses
  /\ ppc \in {"unborn", "poll", "exited"}

\* Every step keeps the types of the threads' places, of the flags and of the sockets.
LEMMA ControlTypesStep == ControlTypes /\ [Next]_vars => ControlTypes'
<1> SUFFICES ASSUME ControlTypes, [Next]_vars PROVE ControlTypes'
  OBVIOUS
<1> USE DEF ControlTypes, CallerStates
<1>1. CASE PeerConnects \/ PeerSends \/ PeerCloses
  BY <1>1 DEF PeerConnects, PeerSends, PeerCloses
<1>2. CASE Construct \/ ConstructFails
  BY <1>2 DEF Construct, ConstructFails
<1>3. CASE RunStarts \/ RunFails
  BY <1>3 DEF RunStarts, RunFails
<1>4. CASE Accept \/ ConnectAddress \/ AddressRefuses
  BY <1>4 DEF Accept, ConnectAddress, AddressRefuses
<1>5. CASE OpenSocket \/ SocketFails
  <2>1. addr' \in 0 .. Addresses
    BY <1>5 DEF OpenSocket, SocketFails
  <2> QED
    BY <1>5, <2>1 DEF OpenSocket, SocketFails
<1>14. CASE ConnectFails
  BY <1>14 DEF ConnectFails, Throw
<1>6. CASE Read \/ ConsumePart \/ ConsumeSchema
  BY <1>6 DEF Read, ConsumePart, ConsumeSchema
<1>7. CASE ConsumeBatch \/ ConsumeEos \/ PushBatch
  BY <1>7 DEF ConsumeBatch, ConsumeEos, PushBatch
<1>8. CASE DecodeReturns \/ TruncatedThrows \/ DecodeThrows \/ PrintThrows
  BY <1>8 DEF DecodeReturns, TruncatedThrows, DecodeThrows, PrintThrows, Throw
<1>9. CASE RunNull \/ RunReturns
  BY <1>9 DEF RunNull, RunReturns
<1>10. CASE Destroy
  BY <1>10 DEF Destroy
<1>11. CASE DestroyNull \/ DestroyJoin
  BY <1>11 DEF DestroyNull, DestroyJoin
<1>12. CASE Play
  BY <1>12 DEF Play, Plays
<1>13. CASE Gone \/ UNCHANGED vars
  BY <1>13 DEF Gone, vars
<1> QED
  BY <1>1, <1>2, <1>3, <1>4, <1>5, <1>6, <1>7, <1>8, <1>9, <1>10, <1>11, <1>12,
     <1>13, <1>14 DEF Next, Sender, Steps, Failures

\* The sender and the decoder keep their types.
DecoderTypes ==
  /\ listen \in Modes /\ stream \in Streams /\ peer \in {"away", "connected", "closed"}
  /\ sent \in Nat /\ consumed \in 0 .. sent
  /\ msg \in Nat \ {0} /\ part \in 1 .. 4 /\ done \in Nat /\ eos \in BOOLEAN

\* Every step keeps the types of the sender and of the decoder.
LEMMA DecoderTypesStep == Inv /\ [Next]_vars => DecoderTypes'
<1> SUFFICES ASSUME Inv, [Next]_vars PROVE DecoderTypes'
  OBVIOUS
<1>0. DecoderTypes
  BY DEF Inv, TypeOK, DecoderTypes
<1> USE DEF DecoderTypes
<1>1. CASE PeerConnects \/ PeerCloses
  BY <1>0, <1>1 DEF PeerConnects, PeerCloses
<1>2. CASE PeerSends
  BY <1>0, <1>2 DEF PeerSends
<1>3. CASE Read
  BY <1>0, <1>3 DEF Read
<1>4. CASE ConsumePart
  <2>0. part' = part + 1
    BY <1>4 DEF ConsumePart
  <2>1. Expected' /\ msg' <= Len(stream') /\ UNCHANGED <<stream, msg>>
    BY <1>4, ExpectedStep DEF ConsumePart, PartRead
  <2>2. Len(Parts(stream[msg])) \in {2, 4}
    BY DEF Parts
  <2>3. part' <= Len(Parts(stream[msg]))
    BY <2>1 DEF Expected, Parts
  <2> DEFINE n == Len(Parts(stream[msg]))
  <2>4. part' \in 1 .. 4
    <3>1. part \in 1 .. 4 /\ n \in {2, 4} /\ part' <= n
      BY <1>0, <2>2, <2>3
    <3> HIDE DEF n
    <3> QED
      BY <3>1, <2>0
  <2> QED
    BY <1>0, <1>4, <2>4 DEF ConsumePart
<1>5. CASE ConsumeSchema
  BY <1>0, <1>5 DEF ConsumeSchema, NextMessage
<1>6. CASE ConsumeBatch
  BY <1>0, <1>6 DEF ConsumeBatch, NextMessage
<1>7. CASE ConsumeEos
  BY <1>0, <1>7 DEF ConsumeEos, NextMessage
<1>8. CASE UNCHANGED decoderVars
  BY <1>0, <1>8 DEF decoderVars
<1> QED
  BY <1>1, <1>2, <1>3, <1>4, <1>5, <1>6, <1>7, <1>8, DecoderMoves

-------------------------------------------------------------------------------
(* The batches, from the decoder to the player.                            *)

batchVars == <<queue, played, pending, dropped, rows, batches, next_log, lines>>

\* The steps that move a batch.
LEMMA BatchMoves ==
  ASSUME [Next]_vars
  PROVE  \/ ConsumeBatch \/ PrintThrows \/ PushBatch \/ RunNull \/ DestroyNull
         \/ Play \/ UNCHANGED batchVars
<1> USE DEF batchVars
<1>1. CASE \/ Construct \/ ConstructFails \/ RunStarts \/ RunFails \/ Accept
           \/ OpenSocket \/ SocketFails \/ ConnectAddress \/ AddressRefuses
           \/ ConnectFails
  BY <1>1 DEF Construct, ConstructFails, RunStarts, RunFails, Accept, OpenSocket,
              SocketFails, ConnectAddress, AddressRefuses, ConnectFails
<1>2. CASE \/ PeerConnects \/ PeerSends \/ PeerCloses \/ Read \/ ConsumePart
           \/ ConsumeSchema \/ ConsumeEos
  BY <1>2 DEF PeerConnects, PeerSends, PeerCloses, Read, ConsumePart,
              ConsumeSchema, ConsumeEos
<1>3. CASE \/ DecodeReturns \/ TruncatedThrows \/ DecodeThrows \/ RunReturns
           \/ Destroy \/ DestroyJoin
  BY <1>3 DEF DecodeReturns, TruncatedThrows, DecodeThrows, RunReturns, Destroy,
              DestroyJoin
<1>4. CASE Gone \/ UNCHANGED vars
  BY <1>4 DEF Gone, vars
<1> QED
  BY <1>1, <1>2, <1>3, <1>4 DEF Next, Sender, Steps, Failures

\* What a decoded batch adds, in every state of the decoder.
LEMMA BatchDecoded ==
  ASSUME Inv, ConsumeBatch
  PROVE  /\ pending = Null /\ pending' \in Batch
         /\ dropped = Null /\ dropped' = Null
         /\ rows \in Nat /\ rows' \in Nat /\ rows <= rows'
         /\ pending'.lo = rows /\ pending'.hi = rows'
         /\ batches \in Nat /\ batches' = batches + 1
         /\ \/ rows' >= next_log /\ lines' = lines + 1 /\ next_log' = NextMark(rows')
            \/ rows' < next_log /\ UNCHANGED <<lines, next_log>>
         /\ UNCHANGED <<queue, played>>
<1>1. stream[msg].rows \in Nat
  BY MessageType DEF Inv, ConsumeBatch, PartRead
<1>2. rows \in Nat /\ batches \in Nat /\ rows' = rows + stream[msg].rows
      /\ batches' = batches + 1
  BY DEF Inv, TypeOK, ConsumeBatch, CountBatch, Decoded
<1>3. pending' = [lo |-> rows, hi |-> rows']
  BY <1>2 DEF ConsumeBatch, Decoded
<1>4. pc = "decode" /\ pending = Null /\ dropped = Null
  BY DEF Inv, Hands, Dropped, ConsumeBatch, PartRead, Decoding
<1> QED
  BY <1>1, <1>2, <1>3, <1>4 DEF ConsumeBatch, Batch

\* What a batch leaves behind whose progress line cannot be printed.
LEMMA BatchDropped ==
  ASSUME Inv, PrintThrows
  PROVE  /\ pending = Null /\ pending' = Null
         /\ dropped = Null /\ dropped' \in Batch
         /\ rows \in Nat /\ rows' \in Nat /\ rows <= rows' /\ rows' >= next_log
         /\ dropped'.lo = rows /\ dropped'.hi = rows'
         /\ batches \in Nat /\ batches' = batches + 1
         /\ UNCHANGED <<queue, played, lines, next_log>>
<1>1. stream[msg].rows \in Nat
  BY MessageType DEF Inv, PrintThrows, PartRead
<1>2. rows \in Nat /\ batches \in Nat /\ rows' = rows + stream[msg].rows
      /\ batches' = batches + 1
  BY DEF Inv, TypeOK, PrintThrows, CountBatch, Decoded
<1>3. dropped' = [lo |-> rows, hi |-> rows']
  BY <1>2 DEF PrintThrows, Decoded
<1>4. pc = "decode" /\ pending = Null /\ dropped = Null
  BY DEF Inv, Hands, Dropped, PrintThrows, PartRead, Decoding
<1> QED
  BY <1>1, <1>2, <1>3, <1>4 DEF PrintThrows, Batch

\* Every step keeps the next mark behind the rows.
LEMMA MarkStep == Inv /\ [Next]_vars => Mark'
<1> SUFFICES ASSUME Inv, [Next]_vars PROVE Mark'
  OBVIOUS
<1>1. CASE ConsumeBatch
  <2>1. rows' < NextMark(rows) => NextMark(rows') = NextMark(rows)
    BY <1>1, BatchDecoded, MarkPassed
  <2> QED
    BY <1>1, <2>1, BatchDecoded DEF Mark, Inv
<1>2. CASE PushBatch \/ RunNull \/ DestroyNull \/ Play \/ UNCHANGED batchVars
  BY <1>2 DEF PushBatch, RunNull, DestroyNull, Play, Plays, batchVars, Inv, Mark, NextMark
<1>3. CASE PrintThrows
  BY <1>3, BatchDropped, NullAssumption DEF Mark
<1> QED
  BY <1>1, <1>2, <1>3, BatchMoves

\* The counts, and the places a batch may be in, keep their types.
BatchTypes ==
  /\ batches \in Nat /\ rows \in Nat /\ next_log \in Nat /\ lines \in Nat
  /\ pending \in Batch \cup {Null} /\ dropped \in Batch \cup {Null}
  /\ played \in Seq(Batch)
  /\ queue \in Seq(Batch \cup {Null}) /\ Len(queue) <= Depth

\* Every step keeps the types of the counters and batches, and the queue its bound.
LEMMA BatchTypesStep == Inv /\ [Next]_vars => BatchTypes'
<1> SUFFICES ASSUME Inv, [Next]_vars PROVE BatchTypes'
  OBVIOUS
<1>0. BatchTypes
  BY DEF Inv, TypeOK, BatchTypes
<1> USE DEF BatchTypes
<1>1. CASE ConsumeBatch
  <2>1. next_log' \in Nat /\ lines' \in Nat
    <3>1. rows' \in Nat
      BY <1>1, BatchDecoded
    <3>2. NextMark(rows') \in Nat
      BY <3>1, MarkPassed
    <3> QED
      BY <1>0, <1>1, <3>2, BatchDecoded
  <2> QED
    BY <1>0, <1>1, <2>1, BatchDecoded
<1>2. CASE PushBatch
  <2>1. queue' = Append(queue, pending) /\ pending' = Null /\ Len(queue) < Depth
    BY <1>2 DEF PushBatch, try_push
  <2>2. queue' \in Seq(Batch \cup {Null}) /\ Len(queue') <= Depth
    BY <1>0, <2>1
  <2> QED
    BY <1>0, <1>2, <2>1, <2>2 DEF PushBatch
<1>3. CASE RunNull \/ DestroyNull
  <2>1. queue' = Append(queue, Null) /\ Len(queue) < Depth
    BY <1>3 DEF RunNull, DestroyNull, try_push
  <2>2. queue' \in Seq(Batch \cup {Null}) /\ Len(queue') <= Depth
    BY <1>0, <2>1
  <2> QED
    BY <1>0, <1>3, <2>2 DEF RunNull, DestroyNull
<1>4. CASE Play
  <2>1. queue # << >> /\ queue' = Tail(queue)
    BY <1>4 DEF Play, try_pop
  <2>2. Head(queue) \in Batch \cup {Null}
    BY <1>0, <2>1
  <2>3. queue' \in Seq(Batch \cup {Null}) /\ Len(queue') <= Depth
    BY <1>0, <2>1
  <2>4. played' = played \/ (Head(queue) # Null /\ played' = Append(played, Head(queue)))
    BY <1>4 DEF Play, Plays
  <2>5. played' \in Seq(Batch)
    BY <1>0, <2>2, <2>4
  <2> QED
    BY <1>0, <1>4, <2>3, <2>5 DEF Play, Plays
<1>5. CASE PrintThrows
  BY <1>0, <1>5, BatchDropped
<1>6. CASE UNCHANGED batchVars
  BY <1>0, <1>6 DEF batchVars
<1> QED
  BY <1>1, <1>2, <1>3, <1>4, <1>5, <1>6, BatchMoves

\* Every step keeps the types.
LEMMA TypeStep == Inv /\ [Next]_vars => TypeOK'
<1> SUFFICES ASSUME Inv, [Next]_vars PROVE TypeOK'
  OBVIOUS
<1>1. ControlTypes'
  BY ControlTypesStep DEF Inv, TypeOK, ControlTypes
<1>2. DecoderTypes' /\ BatchTypes' /\ (done <= need)'
  BY DecoderTypesStep, BatchTypesStep, ExpectedStep
<1> QED
  BY <1>1, <1>2 DEF TypeOK, ControlTypes, DecoderTypes, BatchTypes

\* Every step keeps the batches in the queue running forwards, and none ahead
\* of the rows decoded.
LEMMA SpansStep == Inv /\ [Next]_vars => Spans'
<1> SUFFICES ASSUME Inv, [Next]_vars PROVE Spans'
  OBVIOUS
<1>0. /\ queue \in Seq(Batch \cup {Null}) /\ rows \in Nat /\ Spans
      /\ pending \in Batch \cup {Null} /\ (pending # Null => pending.hi = rows)
      /\ \A i \in 1 .. Len(queue) : queue[i] # Null => queue[i].hi \in Nat
  <2>1. queue \in Seq(Batch \cup {Null})
    BY DEF Inv, TypeOK
  <2>2. ASSUME NEW i \in 1 .. Len(queue), queue[i] # Null
        PROVE  queue[i].hi \in Nat
    <3>1. queue[i] \in Batch
      BY <2>1, <2>2
    <3> QED
      BY <3>1 DEF Batch
  <2> QED
    BY <2>1, <2>2 DEF Inv, TypeOK, BatchesInOrder
<1>1. CASE ConsumeBatch
  BY <1>0, <1>1, BatchDecoded DEF Spans
<1>2. CASE PushBatch
  <2>1. queue' = Append(queue, pending) /\ pending' = Null /\ UNCHANGED <<rows, dropped>>
    BY <1>2 DEF PushBatch, try_push
  <2>2. Len(queue') = Len(queue) + 1 /\ Len(queue) \in Nat
        /\ \A i \in 1 .. Len(queue) + 1 :
              queue'[i] = IF i <= Len(queue) THEN queue[i] ELSE pending
    BY <1>0, <2>1
  <2>3. pending # Null => pending.lo <= pending.hi /\ pending.hi <= rows
    BY <1>0 DEF Spans
  <2> QED
    BY <1>0, <2>1, <2>2, <2>3 DEF Spans
<1>3. CASE RunNull \/ DestroyNull
  <2>1. queue' = Append(queue, Null) /\ UNCHANGED <<pending, dropped, rows>>
    BY <1>3 DEF RunNull, DestroyNull, try_push
  <2> QED
    BY <1>0, <2>1 DEF Spans
<1>4. CASE Play
  <2>1. queue # << >> /\ queue' = Tail(queue) /\ UNCHANGED <<pending, dropped, rows>>
    BY <1>4 DEF Play, Plays, try_pop
  <2>2. Len(queue') = Len(queue) - 1 /\ \A i \in 1 .. Len(queue') : queue'[i] = queue[i + 1]
    BY <1>0, <2>1
  <2> QED
    BY <1>0, <2>1, <2>2 DEF Spans
<1>5. CASE PrintThrows
  BY <1>0, <1>5, BatchDropped DEF Spans
<1>6. CASE UNCHANGED batchVars
  BY <1>6, <1>0 DEF batchVars, Spans
<1> QED
  BY <1>1, <1>2, <1>3, <1>4, <1>5, <1>6, BatchMoves

\* Every step keeps the batches in order: what was played, what is queued and
\* what is being pushed adjoin, and together are what was decoded.
LEMMA OrderStep == Inv /\ [Next]_vars => BatchesInOrder'
<1> SUFFICES ASSUME Inv, [Next]_vars PROVE BatchesInOrder'
  OBVIOUS
<1>0. /\ QueueType /\ PillLast /\ pending \in Batch \cup {Null} /\ rows \in Nat
      /\ played \in Seq(Batch) /\ batches \in Nat
  BY DEF Inv, TypeOK, QueueType, Pill
<1>00. BatchesInOrder
  BY DEF Inv
<1>01. /\ DataLen \in Nat /\ Len(queue) \in Nat
       /\ NoPill => DataLen = Len(queue)
       /\ queue # << >> /\ Head(queue) = Null => Len(queue) = 1
  <2>1. DataLen \in Nat /\ Len(queue) \in Nat
    BY <1>0 DEF QueueType, DataLen
  <2>2. NoPill => DataLen = Len(queue)
    BY <1>0 DEF QueueType, DataLen, NoPill
  <2>3. queue # << >> => 1 \in 1 .. Len(queue) /\ Head(queue) = queue[1]
    BY <1>0 DEF QueueType
  <2> QED
    BY <1>0, <2>1, <2>2, <2>3 DEF PillLast
<1>02. (dropped # Null => pending = Null /\ ~Ended)'
  BY ControlStep DEF Hands, Dropped, Ended
<1>1. CASE ConsumeBatch
  <2>1. DataLen' = DataLen /\ PlayedRows' = PlayedRows
    BY <1>1, BatchDecoded DEF DataLen, PlayedRows
  <2>2. pending' # Null
    BY <1>1, BatchDecoded, NullAssumption
  <2>3. /\ pending = Null /\ pending'.lo = rows /\ pending'.hi = rows'
        /\ batches' = batches + 1 /\ queue' = queue /\ played' = played
        /\ dropped = Null /\ dropped' = Null
    BY <1>1, BatchDecoded
  <2> QED
    BY <1>0, <1>00, <1>01, <1>02, <2>1, <2>2, <2>3 DEF BatchesInOrder
<1>2. CASE PushBatch
  <2>1. /\ pending # Null /\ pending \in Batch /\ NoPill
        /\ try_push(pending) /\ pending' = Null
        /\ dropped = Null /\ UNCHANGED <<rows, batches, played, dropped>>
    BY <1>0, <1>2 DEF PushBatch, Inv, Hands, Dropped, Pill, PillSent, NoPill
  <2>2. Linked(queue', DataLen', PlayedRows, pending.hi)
    BY <1>0, <1>00, <2>1, PushLinked DEF BatchesInOrder
  <2>3. DataLen' = DataLen + 1
    <3>1. /\ queue' = Append(queue, pending) /\ Len(queue') = Len(queue) + 1
          /\ queue'[Len(queue')] = pending
      BY <1>0, <2>1 DEF try_push, QueueType
    <3> QED
      BY <1>01, <2>1, <3>1 DEF DataLen
  <2>4. PlayedRows' = PlayedRows
    BY <2>1 DEF PlayedRows
  <2> QED
    BY <1>0, <1>00, <1>01, <1>02, <2>1, <2>2, <2>3, <2>4 DEF BatchesInOrder
<1>3. CASE RunNull \/ DestroyNull
  <2>1. /\ pending = Null /\ NoPill /\ try_push(Null)
        /\ UNCHANGED <<rows, batches, played, pending, dropped>>
    BY <1>0, <1>3 DEF RunNull, DestroyNull, Inv, Hands, Pill, PillSent, NoPill
  <2>2. Linked(queue', DataLen', PlayedRows, IF InHand = Null THEN rows ELSE InHand.lo)
    BY <1>0, <1>00, <2>1, PushPillLinked DEF BatchesInOrder
  <2>3. DataLen' = DataLen
    <3>1. /\ queue' = Append(queue, Null) /\ Len(queue') = Len(queue) + 1
          /\ queue'[Len(queue')] = Null
      BY <1>0, <2>1 DEF try_push, QueueType
    <3> QED
      BY <1>01, <2>1, <3>1 DEF DataLen
  <2>4. PlayedRows' = PlayedRows
    BY <2>1 DEF PlayedRows
  <2> QED
    BY <1>0, <1>00, <1>01, <1>02, <2>1, <2>2, <2>3, <2>4 DEF BatchesInOrder
<1>4. CASE Play
  <2>1. /\ try_pop(Head(queue)) /\ queue # << >> /\ queue' = Tail(queue)
        /\ UNCHANGED <<rows, batches, pending, dropped>>
    BY <1>4 DEF Play, Plays, try_pop
  <2>2. CASE Head(queue) = Null
    <3>1. played' = played
      BY <1>4, <2>2 DEF Play, Plays
    <3>2. DataLen = 0 /\ DataLen' = 0
      BY <1>0, <1>01, <2>1, <2>2 DEF DataLen, QueueType
    <3>3. PlayedRows' = PlayedRows
      BY <3>1 DEF PlayedRows
    <3> QED
      BY <1>0, <1>00, <1>02, <2>1, <3>1, <3>2, <3>3 DEF BatchesInOrder, Linked
  <2>3. CASE Head(queue) # Null
    <3> DEFINE h == Head(queue)
               end == IF InHand = Null THEN rows ELSE InHand.lo
    <3>1. played' = Append(played, h)
      BY <1>4, <2>3 DEF Play, Plays
    <3>2. h \in Batch /\ h.lo = PlayedRows /\ Linked(queue', DataLen', h.hi, end)
      BY <1>0, <1>00, <2>1, <2>3, PopLinked DEF BatchesInOrder
    <3>3. Linked(played', Len(played) + 1, 0, h.hi)
      BY <1>0, <1>00, <3>1, <3>2, LinkedAppend DEF BatchesInOrder
    <3>4. /\ Len(played') = Len(played) + 1 /\ PlayedRows' = h.hi
          /\ Len(played) \in Nat
      BY <1>0, <3>1, <3>2 DEF PlayedRows
    <3>5. DataLen' = DataLen - 1
      BY <1>0, <2>1, <2>3, PopShortens
    <3> QED
      BY <1>0, <1>00, <1>01, <1>02, <2>1, <3>2, <3>3, <3>4, <3>5 DEF BatchesInOrder
  <2> QED
    BY <2>2, <2>3
<1>5. CASE PrintThrows
  <2>1. DataLen' = DataLen /\ PlayedRows' = PlayedRows
    BY <1>5, BatchDropped DEF DataLen, PlayedRows
  <2>2. /\ pending = Null /\ pending' = Null /\ dropped = Null /\ dropped' # Null
        /\ dropped'.lo = rows /\ dropped'.hi = rows'
        /\ batches' = batches + 1 /\ queue' = queue /\ played' = played
    BY <1>5, BatchDropped, NullAssumption
  <2> QED
    BY <1>0, <1>00, <1>01, <1>02, <2>1, <2>2 DEF BatchesInOrder
<1>6. CASE UNCHANGED batchVars
  BY <1>00, <1>02, <1>6 DEF batchVars, BatchesInOrder, PlayedRows, DataLen
<1> QED
  BY <1>1, <1>2, <1>3, <1>4, <1>5, <1>6, BatchMoves

-------------------------------------------------------------------------------
(* The invariants.                                                         *)

\* The inductive invariant holds in every reachable state.
THEOREM PlayerInv == Spec => []Inv
<1>1. Inv /\ [Next]_vars => Inv'
  BY TypeStep, ControlStep, ExpectedStep, SpansStep, MarkStep, OrderStep, EndStep
     DEF Inv
<1> QED
  BY InitInv, <1>1, PTL DEF Spec

\* Every variable keeps its type: the queue stays within its depth, and no part
\* of a message is read past its end.
THEOREM PlayerTypes == Spec => []TypeOK
<1>1. Inv => TypeOK
  BY DEF Inv
<1> QED
  BY PlayerInv, <1>1, PTL

\* Batches reach the player in the order they were decoded, none played twice,
\* and none lost but one whose progress line could not be printed, after which
\* run() never returns.
THEOREM PlayerOrder == Spec => []BatchesInOrder
<1>1. Inv => BatchesInOrder
  BY DEF Inv
<1> QED
  BY PlayerInv, <1>1, PTL

\* run() ends a stream normally only at its end.
THEOREM PlayerEnd == Spec => []EndsOnlyAtEnd
<1>1. Inv => EndsOnlyAtEnd
  BY DEF Inv
<1> QED
  BY PlayerInv, <1>1, PTL

\* No descriptor outlives what it was opened for.
THEOREM PlayerDescriptors == Spec => []DescriptorsReleased
<1>1. Inv => DescriptorsReleased
  BY DEF Inv, Descriptors, DescriptorsReleased
<1> QED
  BY PlayerInv, <1>1, PTL

\* A progress line for every batch that passes a multiple of log_every_rows, and
\* for no other, unless the print fails and run() with it.
THEOREM PlayerMarks == Spec => LinePerMark
<1> DEFINE Step == /\ lines' \in lines .. lines + 1
                   /\ rows' \div LogEvery > rows \div LogEvery
                        <=> lines' # lines \/ (dropped' # dropped /\ pc' = "unwind")
<1>1. ASSUME Inv, [Next]_vars PROVE Step
  <2>0. lines \in Nat /\ rows \in Nat
    BY <1>1 DEF Inv, TypeOK
  <2> DEFINE passed == rows' \div LogEvery > rows \div LogEvery
             threw == dropped' # dropped /\ pc' = "unwind"
  <2>1. CASE ConsumeBatch
    <3>1. /\ rows' \in Nat /\ rows <= rows' /\ dropped = Null /\ ~threw
          /\ \/ rows' >= next_log /\ lines' = lines + 1
             \/ rows' < next_log /\ lines' = lines
      BY <1>1, <2>1, BatchDecoded
    <3>2. next_log = NextMark(rows) /\ next_log \in Nat
      BY <1>1, <3>1 DEF Inv, Mark, TypeOK
    <3>3. rows' >= next_log <=> passed
      BY <2>0, <3>1, <3>2, MarkPassed
    <3> HIDE DEF passed, threw
    <3>4. lines' \in lines .. lines + 1 /\ (passed <=> lines' # lines \/ threw)
      BY <2>0, <3>1, <3>2, <3>3
    <3> QED
      BY <3>4 DEF passed, threw
  <2>2. CASE PrintThrows
    <3>1. /\ rows' \in Nat /\ rows <= rows' /\ rows' >= next_log
          /\ lines' = lines /\ dropped = Null /\ dropped' # Null
      BY <1>1, <2>2, BatchDropped, NullAssumption
    <3>2. next_log = NextMark(rows)
      BY <1>1, <3>1 DEF Inv, Mark
    <3>3. passed
      BY <2>0, <3>1, <3>2, MarkPassed
    <3>4. threw
      BY <2>2, <3>1 DEF PrintThrows, Throw
    <3> HIDE DEF passed, threw
    <3>5. lines' \in lines .. lines + 1 /\ (passed <=> lines' # lines \/ threw)
      BY <2>0, <3>1, <3>3, <3>4
    <3> QED
      BY <3>5 DEF passed, threw
  <2>3. CASE UNCHANGED <<lines, rows, dropped>>
    <3>1. rows \div LogEvery \in Nat
      BY <2>0, Quotient
    <3> QED
      BY <2>0, <2>3, <3>1
  <2> QED
    BY <1>1, <2>1, <2>2, <2>3, BatchMoves
       DEF PushBatch, RunNull, DestroyNull, Play, Plays, batchVars
<1> QED
  BY <1>1, PlayerInv, PTL DEF Spec, LinePerMark

-------------------------------------------------------------------------------
(* Waiting: neither thread waits for a thread that waits for it.           *)

Joining == pc \in {"run_join", "dtor_join"}

\* The calling thread waits for room in the queue, or for the end of the player.
Waits == Joining \/ pc \in {"push", "run_null", "dtor_null"}

\* What it waits for is there.
MayGoOn == IF Joining THEN ppc = "exited" ELSE Len(queue) < Depth

\* player_loop() has a batch or the pill to pop.
PlayerRuns == ppc = "poll" /\ queue # << >>

\* Whenever the calling thread waits in vain, the player is at work: it never
\* leaves before the pill, and at a join the pill is on its way.
NoDeadlock == Waits => MayGoOn \/ PlayerRuns

\* While the calling thread waits, the sender's steps touch neither thread, and
\* every other step shortens the queue and takes nothing back.
WaitShortens ==
  [][Waits /\ pc' = pc => \/ UNCHANGED threadVars
                          \/ /\ Len(queue') \in Nat /\ Len(queue') < Len(queue)
                             /\ MayGoOn => MayGoOn']_vars

\* A full queue or a join never stops both threads, however the stream ended.
THEOREM PlayerDeadlockFree == Spec => []NoDeadlock
<1>1. Inv => NoDeadlock
  <2> SUFFICES ASSUME Inv, Waits PROVE MayGoOn \/ PlayerRuns
    BY DEF NoDeadlock
  <2> USE DEF Inv, TypeOK, Pill, PillSent, MayGoOn, PlayerRuns
  <2>1. CASE Joining
    BY <2>1 DEF Joining
  <2>2. CASE ~Joining
    BY <2>2 DEF Waits, Joining
  <2> QED
    BY <2>1, <2>2
<1> QED
  BY PlayerInv, <1>1, PTL

\* The safety half of Released: with the scheduling of both threads,
\* PlayerDeadlockFree and a queue that only shrinks end every wait.
THEOREM PlayerWaitsEnd == Spec => WaitShortens
<1> DEFINE Step == Waits /\ pc' = pc =>
                     \/ UNCHANGED threadVars
                     \/ /\ Len(queue') \in Nat /\ Len(queue') < Len(queue)
                        /\ MayGoOn => MayGoOn'
<1>1. ASSUME Inv, [Next]_vars PROVE Step
  <2> SUFFICES ASSUME Waits, pc' = pc, ~UNCHANGED threadVars
               PROVE  /\ Len(queue') \in Nat /\ Len(queue') < Len(queue)
                      /\ MayGoOn => MayGoOn'
    OBVIOUS
  <2>1. Play
    <3> USE DEF Waits, Joining
    <3>1. ~(Sender \/ Failures \/ Gone \/ UNCHANGED vars)
      BY DEF Sender, PeerConnects, PeerSends, PeerCloses, Failures, ConstructFails,
             RunFails, SocketFails, ConnectFails, DecodeThrows, PrintThrows,
             PartRead, Decoding, Gone, vars
    <3>2. ~(Construct \/ RunStarts \/ Accept)
      BY DEF Construct, RunStarts, Accept
    <3>6. ~(OpenSocket \/ ConnectAddress \/ AddressRefuses)
      BY DEF OpenSocket, ConnectAddress, AddressRefuses
    <3>3. ~(Read \/ DecodeReturns \/ TruncatedThrows)
      BY DEF Read, DecodeReturns, TruncatedThrows, Decoding
    <3>4. ~(ConsumePart \/ ConsumeSchema \/ ConsumeBatch \/ ConsumeEos)
      BY DEF ConsumePart, ConsumeSchema, ConsumeBatch, ConsumeEos, PartRead, Decoding
    <3>5. ~(PushBatch \/ RunNull \/ RunReturns \/ Destroy \/ DestroyNull \/ DestroyJoin)
      BY DEF PushBatch, RunNull, RunReturns, Destroy, DestroyNull, DestroyJoin
    <3> QED
      BY <1>1, <3>1, <3>2, <3>3, <3>4, <3>5, <3>6 DEF Next, Steps
  <2>2. queue \in Seq(Batch \cup {Null}) /\ Len(queue) \in Nat
    BY <1>1 DEF Inv, TypeOK
  <2>3. Len(queue') = Len(queue) - 1 /\ Len(queue') \in Nat
    BY <2>1, <2>2 DEF Play, try_pop
  <2> QED
    BY <2>1, <2>2, <2>3 DEF Play, Plays, MayGoOn, Joining
<1> QED
  BY <1>1, PlayerInv, PTL DEF Spec, WaitShortens

-------------------------------------------------------------------------------
(* The refinement.                                                         *)

\* With nothing pending and nothing queued, everything decoded was played, but
\* for what was dropped.
LEMMA Drained ==
  ASSUME Inv, pending = Null, queue = << >>
  PROVE  /\ Len(played) + Lost[1] = batches /\ PlayedRows + Lost[2] = rows
         /\ dropped = Null => Lost = <<0, 0>>
<1>1. DataLen = 0
  BY DEF DataLen
<1>2. Len(played) \in Nat /\ batches \in Nat /\ rows \in Nat
  BY DEF Inv, TypeOK
<1>3. CASE dropped = Null
  BY <1>1, <1>2, <1>3 DEF Inv, BatchesInOrder, Linked, Lost
<1>4. CASE dropped # Null
  <2>1. /\ dropped \in Batch /\ dropped.lo \in Nat /\ dropped.hi \in Nat
    BY <1>4 DEF Inv, TypeOK, Batch
  <2>2. PlayedRows = dropped.lo /\ dropped.hi = rows /\ Len(played) + 1 = batches
    BY <1>1, <1>2, <1>4 DEF Inv, BatchesInOrder, Linked
  <2>3. Lost[1] = 1 /\ Lost[2] = dropped.hi - dropped.lo
    BY <1>4 DEF Lost, num_rows
  <2> QED
    BY <1>2, <1>4, <2>1, <2>2, <2>3
<1> QED
  BY <1>3, <1>4

\* The initial states are initial states of the plain playback.
LEMMA PlaybackInit == Init => Player!Init
BY DEF Init, Player!Init, PlayerState, PlayedRows, Lost

\* A batch is played: it ends at or after the last one, and within what was
\* decoded.
LEMMA PlaybackPlays ==
  ASSUME Inv, Inv', Play
  PROVE  [Player!Next]_(Player!vars)
<1>1. /\ try_pop(Head(queue)) /\ queue # << >>
      /\ UNCHANGED <<batches, rows, joinable, pc, pending, dropped>>
  BY DEF Play, Plays, try_pop
<1>2. PlayerState' = PlayerState /\ Lost' = Lost
  BY <1>1 DEF PlayerState, Ended, Lost
<1>3. CASE Head(queue) = Null
  BY <1>1, <1>2, <1>3 DEF Play, Plays, PlayedRows, Player!vars
<1>4. CASE Head(queue) # Null
  <2> DEFINE h == Head(queue)
  <2>1. played' = Append(played, h)
    BY <1>4 DEF Play, Plays
  <2>2. h \in Batch /\ h.lo = PlayedRows
    BY <1>1, <1>4, PopLinked DEF Inv, TypeOK, QueueType, Pill, BatchesInOrder
  <2>3. h.lo <= h.hi /\ h.hi <= rows
    <3>1. h = queue[1] /\ 1 \in 1 .. Len(queue)
      BY <1>1 DEF Inv, TypeOK
    <3> QED
      BY <1>4, <3>1 DEF Inv, Spans
  <2>4. /\ Len(played') = Len(played) + 1 /\ PlayedRows' = h.hi
        /\ Len(played) \in Nat
    <3>1. played \in Seq(Batch)
      BY DEF Inv, TypeOK
    <3> QED
      BY <2>1, <2>2, <3>1 DEF PlayedRows
  <2>5. Len(played) < batches
    <3>0. queue' \in Seq(Batch \cup {Null})
      BY DEF Inv, TypeOK
    <3>1. DataLen' \in Nat
      BY <3>0 DEF DataLen
    <3>2. /\ Len(played') + DataLen' + (IF InHand' = Null THEN 0 ELSE 1) = batches'
          /\ batches' \in Nat /\ Len(played') \in Nat
      BY DEF Inv, BatchesInOrder, TypeOK
    <3> QED
      BY <1>1, <2>4, <3>1, <3>2
  <2>6. PlayedRows' \in PlayedRows .. rows
    <3>1. h.lo \in Nat /\ h.hi \in Nat /\ rows \in Nat
      BY <2>2 DEF Batch, Inv, TypeOK
    <3> HIDE DEF h
    <3> QED
      BY <2>2, <2>3, <2>4, <3>1
  <2>7. PlayerState # "stopped"
    BY <1>1 DEF PlayerState, Inv, Pill
  <2> QED
    BY <1>1, <1>2, <2>4, <2>5, <2>6, <2>7 DEF Player!Next, Player!Play
<1> QED
  BY <1>3, <1>4

\* Every step of either thread is a step of the plain playback, or leaves it
\* alone.
LEMMA PlaybackStep == Inv /\ Inv' /\ [Next]_vars => [Player!Next]_(Player!vars)
<1> SUFFICES ASSUME Inv, Inv', [Next]_vars PROVE [Player!Next]_(Player!vars)
  OBVIOUS
<1>1. CASE ConsumeBatch
  <2>1. batches' = batches + 1 /\ rows' >= rows
    BY <1>1, BatchDecoded
  <2>2. UNCHANGED played /\ PlayedRows' = PlayedRows /\ Lost' = Lost
    BY <1>1, BatchDecoded DEF PlayedRows, Lost
  <2>3. PlayerState = "open" /\ PlayerState' = "open"
    BY <1>1 DEF ConsumeBatch, PartRead, Decoding, PlayerState
  <2> QED
    BY <2>1, <2>2, <2>3 DEF Player!Next, Player!Receive, Player!Decode
<1>2. CASE PrintThrows
  <2>1. batches' = batches + 1 /\ rows' >= rows
    BY <1>2, BatchDropped
  <2>2. UNCHANGED played /\ PlayedRows' = PlayedRows
    BY <1>2, BatchDropped DEF PlayedRows
  <2>3. Lost' = <<1, rows' - rows>>
    BY <1>2, BatchDropped DEF Lost, num_rows
  <2>4. PlayerState = "open" /\ PlayerState' = "broken"
    BY <1>2 DEF PrintThrows, PartRead, Decoding, Throw, PlayerState, Ended, Inv, Pill
  <2> QED
    BY <2>1, <2>2, <2>3, <2>4 DEF Player!Next, Player!Lose, Player!Decode
<1>3. ASSUME UNCHANGED <<batches, rows, played, dropped>>
      PROVE  PlayedRows' = PlayedRows /\ Lost' = Lost
  BY <1>3 DEF PlayedRows, Lost
<1>4. ASSUME UNCHANGED <<batches, rows, played, dropped>>,
             PlayerState # "stopped", PlayerState' = "stopped",
             pending = Null, queue = << >>, PlayerState # "broken" => dropped = Null
      PROVE  Player!Next
  <2>1. \A i \in 1 .. 2 : <<Len(played), PlayedRows>>[i] + Lost[i] = <<batches, rows>>[i]
    <3>1. Len(played) + Lost[1] = batches /\ PlayedRows + Lost[2] = rows
      BY <1>4, Drained
    <3>2. \A i \in 1 .. 2 : i = 1 \/ i = 2
      OBVIOUS
    <3> QED
      BY <3>1, <3>2
  <2>2. PlayerState # "broken" => Lost = <<0, 0>>
    BY <1>4, Drained
  <2> QED
    BY <1>3, <1>4, <2>1, <2>2 DEF Player!Next, Player!Stop
<1>5. CASE RunReturns \/ DestroyJoin
  <2>1. queue = << >> /\ pending = Null /\ joinable
    BY <1>5 DEF RunReturns, DestroyJoin, Joins, Inv, Pill, Hands
  <2>2. /\ PlayerState = IF pc = "run_join" THEN "over" ELSE "broken"
        /\ PlayerState' = "stopped"
    BY <1>5, <2>1 DEF RunReturns, DestroyJoin, PlayerState, Ended
  <2>3. PlayerState # "broken" => dropped = Null
    BY <2>2 DEF Inv, Dropped
  <2>4. UNCHANGED <<batches, rows, played, dropped>>
    BY <1>5 DEF RunReturns, DestroyJoin
  <2> QED
    BY <1>4, <2>1, <2>2, <2>3, <2>4
<1>6. CASE UNCHANGED <<batches, rows, played, dropped>> /\ PlayerState' = PlayerState
  BY <1>3, <1>6 DEF Player!vars
<1>7. CASE ConstructFails \/ RunFails \/ Destroy
  <2>1. UNCHANGED <<batches, rows, played, dropped>>
    BY <1>7 DEF ConstructFails, RunFails, Destroy
  <2>2. \/ PlayerState' = PlayerState
        \/ pc \in {"start", "built"} /\ PlayerState = "open" /\ PlayerState' = "stopped"
    BY <1>7 DEF ConstructFails, RunFails, Destroy, PlayerState, Ended, Inv, Pill
  <2>3. ASSUME pc \in {"start", "built"}
        PROVE  queue = << >> /\ pending = Null /\ dropped = Null
    BY <2>3 DEF Inv, Pill, Hands, Dropped
  <2> QED
    BY <1>4, <1>6, <2>1, <2>2, <2>3
<1>8. CASE ConnectFails \/ TruncatedThrows \/ DecodeThrows
  <2>1. UNCHANGED <<batches, rows, played, dropped>>
    BY <1>8 DEF ConnectFails, TruncatedThrows, DecodeThrows
  <2>2. PlayerState = "open" /\ PlayerState' = "broken"
    BY <1>8 DEF ConnectFails, TruncatedThrows, DecodeThrows, Decoding, Throw,
                PlayerState, Ended, Inv, Pill
  <2> QED
    BY <1>3, <2>1, <2>2 DEF Player!Next, Player!Break
<1>9. CASE DecodeReturns \/ ConsumeEos
  <2>1. UNCHANGED <<batches, rows, played, dropped>>
    BY <1>9 DEF DecodeReturns, ConsumeEos
  <2>2. PlayerState = "open" /\ PlayerState' = "over"
    BY <1>9 DEF DecodeReturns, ConsumeEos, PartRead, Decoding, PlayerState, Ended,
                Inv, Pill
  <2> QED
    BY <1>3, <2>1, <2>2 DEF Player!Next, Player!End
<1>10. CASE PeerConnects \/ PeerSends \/ PeerCloses \/ Read \/ ConsumePart \/ ConsumeSchema
  BY <1>6, <1>10 DEF PeerConnects, PeerSends, PeerCloses, Read, ConsumePart,
                     ConsumeSchema, PlayerState, Ended
<1>11. CASE Construct \/ RunStarts \/ Accept
  BY <1>6, <1>11 DEF Construct, RunStarts, Accept, PlayerState
<1>12. CASE OpenSocket \/ SocketFails \/ ConnectAddress \/ AddressRefuses
  BY <1>6, <1>12 DEF OpenSocket, SocketFails, ConnectAddress, AddressRefuses, PlayerState
<1>13. CASE PushBatch \/ RunNull \/ DestroyNull
  BY <1>6, <1>13 DEF PushBatch, RunNull, DestroyNull, PlayerState, Ended
<1>14. CASE Play
  BY <1>14, PlaybackPlays
<1>15. CASE Gone \/ UNCHANGED vars
  BY <1>6, <1>15 DEF Gone, vars, PlayerState, Ended
<1> QED
  BY <1>1, <1>2, <1>5, <1>7, <1>8, <1>9, <1>10, <1>11, <1>12, <1>13, <1>14, <1>15
     DEF Next, Sender, Steps, Failures

\* The two threads implement the plain playback: when run() returns, the player
\* has played exactly what was decoded; when the thread is joined after run()
\* threw, all of it but a batch whose progress line could not be printed.
THEOREM PlaybackRefined == Spec => ImplementsPlayback
BY PlaybackInit, PlaybackStep, PlayerInv, PTL DEF Spec, ImplementsPlayback, Player!Spec
===============================================================================
