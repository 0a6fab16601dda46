------------------------------ MODULE PeerWire ------------------------------
(***************************************************************************)
(* receive_peer_wire_message (peer_connection.c:438-580) and the call in   *)
(* the download loop (main.c:345-355): messages are cut out of a TCP       *)
(* stream that delivers any number of bytes at a time, ends anywhere, and  *)
(* whose reads fail or are interrupted.  An interrupted recv is tried      *)
(* again: a stuttering step.                                               *)
(*                                                                         *)
(* Every stream of bytes is a sequence of messages, given by their length  *)
(* prefix and id, of which the last may be cut off; payload bytes are      *)
(* only counted.  starts[k] is where the k-th message begins, limit is     *)
(* where the stream ends, taken is how much of it recv has returned.       *)
(* How four bytes make a prefix is left out: the prefix is what the bytes  *)
(* at the beginning of a message say.                                      *)
(***************************************************************************)
EXTENDS Sequences, Naturals

CONSTANTS
  Message,          \* the messages of this model, [prefix, id]
  PrefixSize,       \* LENGTH_PREFIX_SIZE, 4
  MaxPayload,       \* MAX_PAYLOAD_LENGTH
  MaxPiecePayload,  \* 16392, the longest payload of a piece message
  MaxSent           \* bound: messages sent by the peer

\* enum MessageId
PEER_MESSAGE_CHOKE == 0
PEER_MESSAGE_UNCHOKE == 1
PEER_MESSAGE_INTERESTED == 2
PEER_MESSAGE_NOT_INTERESTED == 3
PEER_MESSAGE_HAVE == 4
PEER_MESSAGE_BITFIELD == 5
PEER_MESSAGE_REQUEST == 6
PEER_MESSAGE_PIECE == 7
PEER_MESSAGE_CANCEL == 8
PEER_MESSAGE_INVALID == 9

ASSUME WireAssumption ==
  /\ Message \subseteq [prefix : Nat, id : Nat]
  /\ \A m \in Message : m.prefix = 0 => m.id = PEER_MESSAGE_INVALID   \* a keep-alive has no id
  /\ PrefixSize \in Nat \ {0}
  /\ MaxPayload \in Nat /\ MaxPiecePayload \in Nat /\ MaxSent \in Nat

VARIABLES
  sent, starts, limit, closed,          \* the peer and the network
  taken,                                \* bytes recv has returned so far
  phase,            \* idle, call, prefix, id, payload, failed
  received_total,   \* of the part that is being read
  message,          \* *out_message
  prefix_length, message_id,
  heap,             \* payload buffers allocated and not freed
  delivered         \* what the download loop was given

networkVars == <<sent, starts, limit, closed>>
readerVars == <<taken, phase, received_total, message, prefix_length, message_id, heap>>
vars == <<networkVars, readerVars, delivered>>

-----------------------------------------------------------------------------
EmptyMessage ==
  [message_id |-> PEER_MESSAGE_INVALID, is_keep_alive |-> FALSE, payload |-> FALSE,
   payload_length |-> 0]

Init ==
  /\ sent = <<>> /\ starts = <<>> /\ limit = 0 /\ closed = FALSE
  /\ taken = 0
  /\ phase = "idle"
  /\ received_total = 0
  /\ message = EmptyMessage
  /\ prefix_length = 0 /\ message_id = PEER_MESSAGE_INVALID
  /\ heap = 0
  /\ delivered = <<>>

-----------------------------------------------------------------------------
(* The peer and the network.                                               *)

PeerSends(m) ==
  /\ ~closed
  /\ Len(sent) < MaxSent
  /\ sent' = Append(sent, m)
  /\ starts' = Append(starts, limit)
  /\ limit' = limit + PrefixSize + m.prefix
  /\ UNCHANGED <<closed, readerVars, delivered>>

\* The stream ends, perhaps in the middle of a message.
StreamEnds(where) ==
  /\ ~closed
  /\ closed' = TRUE
  /\ limit' = where
  /\ UNCHANGED <<sent, starts, readerVars, delivered>>

\* What the bytes at a position of the stream say.  Bytes that are not where
\* a message begins are no prefix and no id.  The four bytes of a prefix are one
\* number here: the shifts that put it together (peer_connection.c:475-481) are
\* those of every other word, which DownloadBytes' WordAt does byte by byte.
PrefixAt(position) ==
  IF \E k \in DOMAIN starts : starts[k] = position
  THEN sent[CHOOSE k \in DOMAIN starts : starts[k] = position].prefix
  ELSE MaxPayload + 2

IdAt(position) ==
  IF \E k \in DOMAIN starts : starts[k] + PrefixSize = position
  THEN sent[CHOOSE k \in DOMAIN starts : starts[k] + PrefixSize = position].id
  ELSE PEER_MESSAGE_INVALID

-----------------------------------------------------------------------------
(* The caller.                                                             *)

\* free_peer_wire_message
FreeMessage ==
  /\ message' = EmptyMessage
  /\ heap' = IF message.payload THEN heap - 1 ELSE heap

\* The head of the loop frees the last message before it asks for the next.
LoopHead ==
  /\ phase = "idle"
  /\ FreeMessage
  /\ phase' = "call"
  /\ UNCHANGED <<networkVars, taken, received_total, prefix_length, message_id, delivered>>

\* A message that was not freed is refused.
Call ==
  /\ phase = "call"
  /\ phase' = IF message = EmptyMessage THEN "prefix" ELSE "failed"
  /\ received_total' = 0
  /\ UNCHANGED <<networkVars, taken, message, prefix_length, message_id, heap, delivered>>

-----------------------------------------------------------------------------
(* recv.                                                                   *)

PayloadLength == prefix_length - 1

\* The size of the part that is being read.
PartSize ==
  CASE phase = "prefix"  -> PrefixSize
    [] phase = "id"      -> 1
    [] phase = "payload" -> PayloadLength
    [] OTHER             -> 0

Reading == phase \in {"prefix", "id", "payload"}

\* recv asks for what is missing of the part, and may return less.  (Asking
\* for the size of the part every time is a plausible mistake.)
AskForWholePart(n) == n \in 1 .. PartSize

AskForMissing(n) == n \in 1 .. PartSize - received_total

Recv(n) ==
  /\ Reading
  /\ AskForMissing(n)
  /\ taken + n <= limit
  /\ taken' = taken + n
  /\ received_total' = received_total + n

\* The end of the loop around recv.  (One byte too many is a plausible
\* mistake.)
NeverComplete(n) == received_total + n > PartSize

Complete(n) == received_total + n >= PartSize

\* The loop around recv.
RecvPart(n) ==
  /\ Recv(n)
  /\ ~Complete(n)
  /\ UNCHANGED <<networkVars, phase, message, prefix_length, message_id, heap, delivered>>

ReturnMessage(id, keepAlive, hasPayload, length) ==
  /\ message' = [message_id |-> id, is_keep_alive |-> keepAlive,
                 payload |-> hasPayload, payload_length |-> length]
  /\ delivered' = Append(delivered, [prefix |-> IF keepAlive THEN 0 ELSE length + 1,
                                     id |-> id])
  /\ phase' = "idle"

RecvPrefix(n) ==
  /\ phase = "prefix"
  /\ Recv(n)
  /\ Complete(n)
  /\ prefix_length' = PrefixAt(taken' - PrefixSize)
  /\ IF prefix_length' = 0
     THEN ReturnMessage(PEER_MESSAGE_INVALID, TRUE, FALSE, 0)
     ELSE phase' = "id" /\ UNCHANGED <<message, delivered>>
  /\ UNCHANGED <<networkVars, message_id, heap>>

\* is_valid_payload_length_for_message
ValidPayloadLength(length, id) ==
  \/ id \in {PEER_MESSAGE_CHOKE, PEER_MESSAGE_UNCHOKE, PEER_MESSAGE_INTERESTED, PEER_MESSAGE_NOT_INTERESTED} /\ length = 0
  \/ id = PEER_MESSAGE_HAVE /\ length = 4
  \/ id \in {PEER_MESSAGE_REQUEST, PEER_MESSAGE_CANCEL} /\ length = 12
  \/ id = PEER_MESSAGE_PIECE /\ length \in 8 .. MaxPiecePayload
  \/ id = PEER_MESSAGE_BITFIELD

\* The tests before the payload.  (Leaving the length table or the limit out is
\* a plausible mistake.)
IdOnlyAccepted(length, id) == id < PEER_MESSAGE_INVALID /\ length <= MaxPayload

NoLimitAccepted(length, id) == id < PEER_MESSAGE_INVALID /\ ValidPayloadLength(length, id)

Accepted(length, id) ==
  id < PEER_MESSAGE_INVALID /\ length <= MaxPayload /\ ValidPayloadLength(length, id)

\* One byte, so it comes whole; received_total starts again from 0.
RecvId ==
  /\ phase = "id"
  /\ taken < limit
  /\ taken' = taken + 1
  /\ received_total' = 0
  /\ message_id' = IdAt(taken)
  /\ \/ /\ ~Accepted(PayloadLength, message_id')
        /\ phase' = "failed"
        /\ UNCHANGED <<message, delivered, heap>>
     \/ /\ Accepted(PayloadLength, message_id')
        /\ PayloadLength = 0
        /\ ReturnMessage(message_id', FALSE, FALSE, 0)
        /\ UNCHANGED heap
     \/ /\ Accepted(PayloadLength, message_id')
        /\ PayloadLength > 0
        /\ phase' = "payload" /\ heap' = heap + 1
        /\ UNCHANGED <<message, delivered>>
     \/ /\ Accepted(PayloadLength, message_id')   \* malloc fails
        /\ PayloadLength > 0
        /\ phase' = "failed"
        /\ UNCHANGED <<message, delivered, heap>>
  /\ UNCHANGED <<networkVars, prefix_length>>

RecvPayload(n) ==
  /\ phase = "payload"
  /\ Recv(n)
  /\ Complete(n)
  /\ ReturnMessage(message_id, FALSE, TRUE, PayloadLength)
  /\ UNCHANGED <<networkVars, prefix_length, message_id, heap>>

\* The buffer is the callee's until the message is complete.  (Not freeing it
\* is a plausible mistake.)
FailLeaksPayload == UNCHANGED heap

FailFreesPayload == heap' = IF phase = "payload" THEN heap - 1 ELSE heap

Fail ==
  /\ Reading
  /\ FailFreesPayload
  /\ phase' = "failed"
  /\ UNCHANGED <<networkVars, taken, received_total, message, prefix_length, message_id,
                 delivered>>

\* recv returns 0.
RecvEnd == closed /\ taken >= limit /\ Fail

\* recv returns -1, and errno is not EINTR.
RecvError == Fail

-----------------------------------------------------------------------------
Peer ==
  \/ \E m \in Message : PeerSends(m)
  \/ \E where \in taken .. limit : StreamEnds(where)

Progress ==
  \/ LoopHead
  \/ Call
  \/ \E n \in 1 .. PartSize : RecvPart(n) \/ RecvPrefix(n) \/ RecvPayload(n)
  \/ RecvId
  \/ RecvEnd

Next == Peer \/ Progress \/ RecvError

\* The loop keeps reading; peers and failures are not bound to happen.
Spec == Init /\ [][Next]_vars /\ WF_vars(Progress)

-----------------------------------------------------------------------------
(* What must hold.                                                         *)

TypeOK ==
  /\ sent \in Seq(Message) /\ starts \in Seq(Nat) /\ Len(starts) = Len(sent)
  /\ limit \in Nat /\ taken \in 0 .. limit
  /\ closed \in BOOLEAN
  /\ phase \in {"idle", "call", "prefix", "id", "payload", "failed"}
  /\ received_total \in 0 .. PartSize \/ phase \notin {"prefix", "payload"}
  /\ prefix_length \in Nat /\ message_id \in Nat /\ heap \in Nat
  /\ delivered \in Seq(Message)
  /\ message \in [message_id : PEER_MESSAGE_CHOKE .. PEER_MESSAGE_INVALID, is_keep_alive : BOOLEAN,
                  payload : BOOLEAN, payload_length : 0 .. MaxPayload]

(***************************************************************************)
(* InSync: between two messages the reader stands exactly at the first     *)
(* byte of the next one, however the stream was cut into reads; a message  *)
(* is never read with bytes of its neighbour (peer_connection.c:455-572).  *)
(***************************************************************************)
InSync ==
  phase \in {"idle", "call"} =>
    taken = IF Len(delivered) < Len(sent) THEN starts[Len(delivered) + 1] ELSE limit

(***************************************************************************)
(* OwnedOnce: a payload buffer is owned by the message or by the call that *)
(* is filling it, and freed when a read fails half way; none is lost and   *)
(* none is freed twice (peer_connection.c:545-577 and 765-771).            *)
(***************************************************************************)
OwnedOnce ==
  heap = (IF message.payload THEN 1 ELSE 0) + (IF phase = "payload" THEN 1 ELSE 0)

(***************************************************************************)
(* ImplementsChannel: the loop is given the peer's messages, in order and  *)
(* well formed, nothing else, and nothing after a failure.                 *)
(***************************************************************************)
WellFormedMessage(m) ==
  \/ m.prefix = 0
  \/ m.id < PEER_MESSAGE_INVALID /\ m.prefix - 1 <= MaxPayload /\ ValidPayloadLength(m.prefix - 1, m.id)

Channel == INSTANCE MessageChannel WITH
  WellFormed <- WellFormedMessage,
  given_up   <- phase = "failed"

ImplementsChannel == Channel!Spec

(* The inductive invariant.                                                *)

End(k) == starts[k] + PrefixSize + sent[k].prefix

\* The messages lie one behind the other, and the stream ends with the last
\* of them or before.
Laid ==
  /\ \A k \in 1 .. Len(sent) : \A j \in 1 .. k - 1 : End(j) <= starts[k]
  /\ \A k \in 1 .. Len(sent) : k > 1 => starts[k] = End(k - 1)
  /\ Len(sent) > 0 => limit <= End(Len(sent))
  /\ ~closed => \A k \in 1 .. Len(sent) : End(k) <= limit

\* What was delivered is what was sent.
DeliveredSent ==
  /\ Len(delivered) \in 0 .. Len(sent)
  /\ \A k \in 1 .. Len(delivered) : delivered[k] = sent[k]

\* Where the message begins that is read now.
Current == Len(delivered) + 1
Begin == IF Current <= Len(sent) THEN starts[Current] ELSE limit

\* How far into the message the reader is, and what it has learnt of it.
InMessage ==
  /\ phase = "prefix" => taken = Begin + received_total /\ received_total < PrefixSize
  /\ phase \in {"id", "payload"} =>
       /\ Current <= Len(sent)
       /\ prefix_length = sent[Current].prefix /\ prefix_length > 0
  /\ phase = "id" => taken = Begin + PrefixSize /\ received_total = PrefixSize
  /\ phase = "payload" =>
       /\ taken = Begin + PrefixSize + 1 + received_total
       /\ received_total < PayloadLength
       /\ message_id = sent[Current].id
       /\ Accepted(PayloadLength, message_id)

\* The reader starts with nothing in its message.
Freed == phase \in {"call", "prefix", "id", "payload"} => message = EmptyMessage

(***************************************************************************)
(* WireInv: what holds between any two reads, and makes the properties     *)
(* above hold (peer_connection.c:438-580).                                 *)
(***************************************************************************)
WireInv == TypeOK /\ InSync /\ OwnedOnce /\ Laid /\ DeliveredSent /\ InMessage /\ Freed

(***************************************************************************)
(* EveryMessageAnswered: a message that was sent is handed to the loop, or *)
(* the reader has failed, on itself or on one before it; the loop around   *)
(* recv neither spins nor stops while bytes are there (main.c:349).        *)
(***************************************************************************)
EveryMessageAnswered ==
  \A k \in 1 .. MaxSent :
    (Len(sent) >= k) ~> (Len(delivered) >= k \/ phase = "failed")
=============================================================================
