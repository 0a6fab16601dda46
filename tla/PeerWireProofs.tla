--------------------------- MODULE PeerWireProofs ---------------------------
(***************************************************************************)
(* PeerWire's safety properties for every set of messages, every limit and *)
(* every way the stream is cut: WireInv is inductive, the properties       *)
(* follow, and PeerWire implements MessageChannel.                         *)
(***************************************************************************)
EXTENDS PeerWire, TLAPS

USE WireAssumption DEF PEER_MESSAGE_CHOKE, PEER_MESSAGE_INVALID

-----------------------------------------------------------------------------
(* The stream.                                                             *)

LEMMA Typed ==
  ASSUME TypeOK
  PROVE  /\ Len(sent) \in Nat /\ DOMAIN starts = 1 .. Len(sent)
         /\ \A k \in 1 .. Len(sent) :
              /\ sent[k] \in Message
              /\ sent[k].prefix \in Nat /\ sent[k].id \in Nat
              /\ starts[k] \in Nat /\ End(k) \in Nat
              /\ End(k) >= starts[k] + PrefixSize
<1>1. Len(sent) \in Nat /\ DOMAIN starts = 1 .. Len(sent)
  BY DEF TypeOK
<1>2. ASSUME NEW k \in 1 .. Len(sent)
      PROVE  sent[k] \in Message /\ starts[k] \in Nat
  BY <1>2 DEF TypeOK
<1>3. ASSUME NEW m \in Message
      PROVE  m.prefix \in Nat /\ m.id \in Nat
  OBVIOUS
<1> QED
  BY <1>1, <1>2, <1>3 DEF End

\* The bytes at the place where a message begins are its prefix, those behind
\* the prefix its id, and no other message's (peer_connection.c:481 and 507).
LEMMA Told ==
  ASSUME TypeOK, Laid, NEW k \in 1 .. Len(sent)
  PROVE  /\ PrefixAt(starts[k]) = sent[k].prefix
         /\ IdAt(starts[k] + PrefixSize) = sent[k].id
<1>1. /\ Len(sent) \in Nat /\ DOMAIN starts = 1 .. Len(sent)
      /\ \A j \in 1 .. Len(sent) : starts[j] \in Nat /\ End(j) >= starts[j] + PrefixSize /\ End(j) \in Nat
  BY Typed
<1>2. ASSUME NEW j \in 1 .. Len(sent), starts[j] = starts[k]
      PROVE  j = k
  <2>1. CASE j < k
    <3>1. End(j) <= starts[k]
      BY <2>1, <1>1 DEF Laid
    <3> QED
      BY <3>1, <1>1, <1>2
  <2>2. CASE k < j
    <3>1. End(k) <= starts[j]
      BY <2>2, <1>1 DEF Laid
    <3> QED
      BY <3>1, <1>1, <1>2
  <2> QED
    BY <2>1, <2>2, <1>1
<1>3. (CHOOSE j \in DOMAIN starts : starts[j] = starts[k]) = k
  BY <1>1, <1>2
<1>4. (CHOOSE j \in DOMAIN starts : starts[j] + PrefixSize = starts[k] + PrefixSize) = k
  <2>1. \A j \in DOMAIN starts : starts[j] + PrefixSize = starts[k] + PrefixSize => j = k
    BY <1>1, <1>2
  <2> QED
    BY <2>1, <1>1
<1> QED
  BY <1>1, <1>3, <1>4 DEF PrefixAt, IdAt

\* When the message in hand has been read to its end, the reader stands where
\* the next one begins.
LEMMA NextBegins ==
  ASSUME TypeOK, Laid, Current \in 1 .. Len(sent),
         NEW t \in Nat, t = End(Current), t <= limit
  PROVE  t = IF Current < Len(sent) THEN starts[Current + 1] ELSE limit
<1>1. Len(sent) \in Nat /\ limit \in Nat
  BY Typed DEF TypeOK
<1>2. CASE Current < Len(sent)
  <2>1. starts[Current + 1] = End(Current)
    BY <1>1, <1>2 DEF Laid
  <2> QED
    BY <1>2, <2>1
<1>3. CASE Current = Len(sent)
  <2>1. limit <= End(Current)
    BY <1>1, <1>3 DEF Laid
  <2> QED
    BY <1>1, <1>3, <2>1
<1> QED
  BY <1>1, <1>2, <1>3

-----------------------------------------------------------------------------
(* The invariant holds at first, and the peer and the network keep it.     *)

LEMMA EmptyMessageType ==
  EmptyMessage \in [message_id : PEER_MESSAGE_CHOKE .. PEER_MESSAGE_INVALID, is_keep_alive : BOOLEAN,
                    payload : BOOLEAN, payload_length : 0 .. MaxPayload]
BY DEF EmptyMessage

LEMMA WireInit == Init => WireInv
<1> SUFFICES ASSUME Init PROVE WireInv
  OBVIOUS
<1>1. Len(sent) = 0 /\ Len(delivered) = 0
  BY DEF Init
<1>2. TypeOK
  <2>1. sent \in Seq(Message) /\ starts \in Seq(Nat) /\ Len(starts) = Len(sent)
    BY DEF Init
  <2>2. message \in [message_id : PEER_MESSAGE_CHOKE .. PEER_MESSAGE_INVALID, is_keep_alive : BOOLEAN,
                    payload : BOOLEAN, payload_length : 0 .. MaxPayload]
    BY EmptyMessageType, Zenon DEF Init
  <2>3. closed \in BOOLEAN
    BY Zenon DEF Init
  <2> QED
    BY <2>1, <2>2, <2>3 DEF Init, TypeOK
<1>3. InSync /\ Laid /\ DeliveredSent /\ InMessage /\ Freed
  BY <1>1 DEF Init, InSync, Laid, DeliveredSent, InMessage, Freed
<1>4. OwnedOnce
  BY DEF Init, OwnedOnce, EmptyMessage
<1> QED
  BY <1>2, <1>3, <1>4 DEF WireInv

LEMMA WireSends ==
  ASSUME WireInv, NEW m \in Message, PeerSends(m)
  PROVE  WireInv'
<1> USE DEF WireInv
<1>1. /\ UNCHANGED <<closed, taken, phase, received_total, message, prefix_length, message_id, heap, delivered>>
      /\ ~closed
      /\ m.prefix \in Nat
      /\ limit \in Nat
  BY DEF PeerSends, readerVars, TypeOK
<1>2. PICK n \in Nat : n = Len(sent)
  BY Typed
<1>3. /\ sent' \in Seq(Message) /\ starts' \in Seq(Nat)
      /\ Len(sent') = n + 1 /\ Len(starts') = n + 1
      /\ \A k \in 1 .. n : sent'[k] = sent[k] /\ starts'[k] = starts[k]
      /\ sent'[n + 1] = m /\ starts'[n + 1] = limit
      /\ limit' = limit + PrefixSize + m.prefix
  BY <1>1, <1>2 DEF PeerSends, TypeOK
<1>4. /\ limit' \in Nat /\ taken' \in 0 .. limit'
  <2>1. PrefixSize \in Nat /\ m.prefix \in Nat /\ limit \in Nat
    BY <1>1
  <2>2. limit' = limit + PrefixSize + m.prefix /\ taken' = taken /\ taken \in 0 .. limit
    BY <1>1, <1>3 DEF TypeOK
  <2> HIDE DEF WireInv
  <2> QED
    BY <2>1, <2>2
<1>5. TypeOK'
  BY <1>1, <1>3, <1>4 DEF TypeOK, PartSize, PayloadLength
<1>6. /\ \A k \in 1 .. n : starts'[k] + PrefixSize + sent'[k].prefix = End(k)
      /\ \A k \in 1 .. n : starts[k] \in Nat /\ End(k) \in Nat
      /\ starts'[n + 1] + PrefixSize + sent'[n + 1].prefix = limit'
  BY <1>2, <1>3, Typed DEF End
<1>7. Laid'
  <2> DEFINE NewEnd(k) == starts'[k] + PrefixSize + sent'[k].prefix
  <2>1. \A k \in 1 .. n : End(k) <= limit
    BY <1>1, <1>2 DEF Laid
  <2>2. ASSUME NEW k \in 1 .. n + 1, NEW j \in 1 .. k - 1
        PROVE  NewEnd(j) <= starts'[k]
    <3>1. j \in 1 .. n /\ NewEnd(j) = End(j)
      BY <1>6
    <3>2. CASE k \in 1 .. n
      BY <3>1, <3>2, <1>2, <1>3 DEF Laid
    <3>3. CASE k = n + 1
      BY <3>1, <3>3, <1>3, <2>1
    <3> QED
      BY <3>2, <3>3
  <2>3. ASSUME NEW k \in 1 .. n + 1, k > 1
        PROVE  starts'[k] = NewEnd(k - 1)
    <3>1. k - 1 \in 1 .. n /\ NewEnd(k - 1) = End(k - 1)
      BY <1>6, <2>3
    <3>2. CASE k \in 1 .. n
      BY <3>1, <3>2, <2>3, <1>2, <1>3 DEF Laid
    <3>3. CASE k = n + 1
      <4>1. n > 0 => limit <= End(n)
        BY <1>2 DEF Laid
      <4> QED
        BY <4>1, <2>1, <3>1, <3>3, <1>1, <1>3, <1>6
    <3> QED
      BY <3>2, <3>3
  <2>4. limit' <= NewEnd(n + 1)
    BY <1>4, <1>6
  <2>5. ASSUME NEW k \in 1 .. n + 1
        PROVE  NewEnd(k) <= limit'
    <3>1. CASE k \in 1 .. n
      BY <3>1, <2>1, <1>1, <1>3, <1>6
    <3>2. CASE k = n + 1
      BY <3>2, <1>4, <1>6
    <3> QED
      BY <3>1, <3>2
  <2> QED
    BY <2>2, <2>3, <2>4, <2>5, <1>3 DEF Laid, End
<1>8. Len(delivered) \in 0 .. n /\ DeliveredSent'
  <2>1. Len(delivered) \in 0 .. n /\ \A k \in 1 .. Len(delivered) : delivered[k] = sent[k]
    BY <1>2 DEF DeliveredSent
  <2>2. \A k \in 1 .. Len(delivered) : k \in 1 .. n
    BY <2>1
  <2> QED
    BY <2>1, <2>2, <1>1, <1>3, SMTT(30) DEF DeliveredSent
<1>9. /\ Current \in 1 .. n + 1 /\ Current' = Current
      /\ Begin' = Begin
      /\ Current <= n => sent'[Current] = sent[Current]
  <2>1. Current \in 1 .. n + 1 /\ Current' = Current
    BY <1>1, <1>8 DEF Current
  <2>2. CASE Current \in 1 .. n
    <3>1. Current \in Nat /\ Current <= n /\ Current <= n + 1
      BY <2>2
    <3>2. starts'[Current] = starts[Current] /\ sent'[Current] = sent[Current]
      BY <2>2, <1>3
    <3>3. Begin = starts[Current]
      BY <3>1, <1>2 DEF Begin
    <3>4. Begin' = starts'[Current]
      BY <3>1, <2>1, <1>3 DEF Begin
    <3> QED
      BY <2>1, <3>2, <3>3, <3>4
  <2>4. Current \in 1 .. n \/ Current = n + 1
    BY <2>1
  <2>3. CASE Current = n + 1
    BY <2>1, <2>3, <1>2, <1>3 DEF Begin
  <2> QED
    BY <2>2, <2>3, <2>4
<1>10. InMessage'
  <2>1. PayloadLength' = PayloadLength /\ Accepted(PayloadLength, message_id)' = Accepted(PayloadLength, message_id)
    BY <1>1 DEF PayloadLength, Accepted, ValidPayloadLength
  <2> QED
    BY <1>1, <1>2, <1>3, <1>9, <2>1, SMTT(30) DEF InMessage
<1>11. InSync'
  <2>1. phase \in {"idle", "call"} => taken = Begin
    BY <1>2, <1>8 DEF InSync, Begin, Current
  <2>2. phase' \in {"idle", "call"} => taken' = Begin'
    BY <1>1, <1>9, <2>1
  <2> QED
    BY <1>1, <1>3, <1>8, <2>2 DEF InSync, Begin, Current
<1>12. OwnedOnce' /\ Freed'
  BY <1>1 DEF OwnedOnce, Freed
<1> QED
  BY <1>5, <1>7, <1>8, <1>10, <1>11, <1>12

LEMMA WireEnds ==
  ASSUME WireInv, NEW where \in taken .. limit, StreamEnds(where)
  PROVE  WireInv'
<1> USE DEF WireInv
<1>1. /\ UNCHANGED <<sent, starts, taken, phase, received_total, message, prefix_length, message_id,
                     heap, delivered>>
      /\ closed' = TRUE /\ limit' = where
      /\ limit \in Nat /\ taken \in Nat /\ Len(sent) \in Nat /\ Len(delivered) \in 0 .. Len(sent)
  BY Typed DEF StreamEnds, readerVars, TypeOK, DeliveredSent
<1>2. TypeOK'
  BY <1>1 DEF TypeOK, PartSize, PayloadLength
<1>3. Laid'
  <2>1. \A k : End(k)' = End(k)
    BY <1>1 DEF End
  <2>2. Len(sent) > 0 => limit' <= End(Len(sent))
    <3>1. Len(sent) > 0 => End(Len(sent)) \in Nat
      BY <1>1, Typed
    <3> QED
      BY <1>1, <3>1 DEF Laid
  <2> QED
    BY <1>1, <2>1, <2>2 DEF Laid
<1>4. DeliveredSent' /\ OwnedOnce' /\ Freed'
  BY <1>1 DEF DeliveredSent, OwnedOnce, Freed
<1>5. InSync'
  BY <1>1 DEF InSync
<1>6. Begin' = Begin \/ (Current > Len(sent) /\ Begin = limit /\ Begin' = where)
  BY <1>1 DEF Begin, Current
<1>7. InMessage'
  <2>1. PayloadLength' = PayloadLength /\ Accepted(PayloadLength, message_id)' = Accepted(PayloadLength, message_id)
    BY <1>1 DEF PayloadLength, Accepted, ValidPayloadLength
  <2>2. Current' = Current /\ (Current <= Len(sent) => Begin' = Begin)
    BY <1>1 DEF Current, Begin
  <2>3. phase = "prefix" => taken = Begin'
                            + received_total
    BY <1>1, <1>6 DEF InMessage, TypeOK, PartSize
  <2> QED
    BY <1>1, <2>1, <2>2, <2>3 DEF InMessage
<1> QED
  BY <1>2, <1>3, <1>4, <1>5, <1>7

-----------------------------------------------------------------------------
(* The reader's steps.                                                     *)

LEMMA SameNetwork ==
  ASSUME WireInv, UNCHANGED networkVars
  PROVE  /\ Laid'
         /\ UNCHANGED delivered =>
              DeliveredSent' /\ Current' = Current /\ Begin' = Begin
<1>1. UNCHANGED <<sent, starts, limit, closed>>
  BY DEF networkVars
<1>2. Laid'
  BY <1>1 DEF WireInv, Laid, End
<1>3. UNCHANGED delivered => DeliveredSent' /\ Current' = Current /\ Begin' = Begin
  BY <1>1 DEF WireInv, DeliveredSent, Current, Begin
<1> QED
  BY <1>2, <1>3

\* Between two messages the reader stands where the current one begins.
LEMMA AtBegin ==
  ASSUME TypeOK, DeliveredSent
  PROVE  /\ InSync <=> (phase \in {"idle", "call"} => taken = Begin)
         /\ Current \in Nat \ {0} /\ Len(delivered) \in Nat
BY Typed DEF InSync, Begin, Current, DeliveredSent

\* A read that completes a message hands that message to the loop and leaves
\* the reader at the end of it.
DeliversCurrent ==
  /\ phase \in {"prefix", "id", "payload"} /\ phase' = "idle"
  /\ Current \in 1 .. Len(sent)
  /\ WellFormedMessage(sent[Current])
  /\ delivered' = Append(delivered, sent[Current])
  /\ taken' = End(Current) /\ taken' <= limit
  /\ UNCHANGED networkVars

LEMMA WireDelivers ==
  ASSUME WireInv, DeliversCurrent
  PROVE  Laid' /\ DeliveredSent' /\ InSync' /\ InMessage' /\ Freed'
<1>1. /\ UNCHANGED <<sent, starts, limit, closed>> /\ phase' = "idle"
      /\ Current \in 1 .. Len(sent)
      /\ Len(sent) \in Nat /\ Len(delivered) \in Nat /\ Current = Len(delivered) + 1
  BY Typed, AtBegin DEF DeliversCurrent, networkVars, WireInv, Current
<1>2. /\ sent[Current] \in Message
      /\ End(Current) \in Nat
      /\ \A k \in 1 .. Len(delivered) : delivered[k] = sent[k]
  BY <1>1, Typed DEF WireInv, DeliveredSent
<1>3. /\ Len(delivered') = Current /\ delivered'[Current] = sent[Current]
      /\ \A k \in 1 .. Len(delivered) : delivered'[k] = delivered[k]
  BY <1>1, <1>2 DEF DeliversCurrent, WireInv, TypeOK
<1>4. DeliveredSent'
  <2>1. \A k \in 1 .. Current : k = Current \/ k \in 1 .. Len(delivered)
    BY <1>1
  <2> QED
    BY <1>1, <1>2, <1>3, <2>1 DEF DeliveredSent
<1>5. taken' = IF Current < Len(sent) THEN starts[Current + 1] ELSE limit
  BY <1>1, <1>2, NextBegins DEF DeliversCurrent, WireInv
<1>6. InSync'
  BY <1>1, <1>3, <1>5 DEF InSync
<1>7. InMessage' /\ Freed'
  BY <1>1 DEF InMessage, Freed
<1> QED
  BY <1>1, <1>4, <1>6, <1>7, SameNetwork DEF networkVars

\* The head of the loop and the call.
LEMMA WireCalls ==
  ASSUME WireInv, LoopHead \/ Call
  PROVE  WireInv'
<1> USE DEF WireInv
<1>1. /\ UNCHANGED networkVars /\ UNCHANGED <<taken, prefix_length, message_id, delivered>>
      /\ phase \in {"idle", "call"} /\ message' = EmptyMessage
      /\ \/ phase = "idle" /\ phase' = "call" /\ received_total' = received_total
         \/ phase = "call" /\ phase' = "prefix" /\ received_total' = 0
  BY DEF LoopHead, FreeMessage, Call, Freed
<1>2. Laid' /\ DeliveredSent' /\ Current' = Current /\ Begin' = Begin
  BY <1>1, SameNetwork
<1>3. heap' = 0
  BY DEF LoopHead, FreeMessage, Call, Freed, OwnedOnce, EmptyMessage, TypeOK
<1>4. TypeOK'
  <2>1. UNCHANGED <<sent, starts, limit, closed>>
    BY <1>1 DEF networkVars
  <2>2. received_total' \in 0 .. PartSize' \/ phase' \notin {"prefix", "payload"}
    BY <1>1 DEF PartSize
  <2> QED
    BY <1>1, <1>3, <2>1, <2>2, EmptyMessageType DEF TypeOK
<1>5. OwnedOnce'
  BY <1>1, <1>3 DEF OwnedOnce, EmptyMessage
<1>6. InMessage' /\ Freed'
  BY <1>1, <1>2, AtBegin DEF InMessage, Freed, TypeOK
<1>7. InSync'
  <2>1. phase' \in {"idle", "call"} => taken' = Begin'
    BY <1>1, <1>2, AtBegin
  <2> QED
    BY <2>1, <1>1, <1>2, AtBegin DEF InSync, Begin, Current, networkVars
<1> QED
  BY <1>2, <1>4, <1>5, <1>6, <1>7

\* A recv that does not finish the part it fills.
LEMMA WireReads ==
  ASSUME WireInv, NEW n \in Nat, RecvPart(n)
  PROVE  WireInv'
<1> USE DEF WireInv
<1>1. /\ UNCHANGED networkVars
      /\ UNCHANGED <<phase, message, prefix_length, message_id, heap, delivered>>
      /\ n \in 1 .. PartSize - received_total
      /\ taken' = taken + n /\ taken' <= limit
      /\ received_total' = received_total + n
      /\ ~(received_total + n >= PartSize)
      /\ phase \in {"prefix", "id", "payload"}
  BY DEF RecvPart, Recv, AskForMissing, Complete, Reading
<1>2. Laid' /\ DeliveredSent' /\ Current' = Current /\ Begin' = Begin
  BY <1>1, SameNetwork
<1>3. /\ limit \in Nat /\ taken \in Nat /\ prefix_length \in Nat
      /\ phase \in {"prefix", "payload"} => received_total \in Nat
      /\ PartSize' = PartSize /\ PayloadLength' = PayloadLength
  BY <1>1 DEF TypeOK, PartSize, PayloadLength
<1>4. phase # "id"
  <2>1. phase = "id" => PartSize = 1 /\ received_total = PrefixSize
    BY DEF PartSize, InMessage
  <2> QED
    BY <1>1, <2>1
<1>5. TypeOK'
  <2>1. received_total' \in 0 .. PartSize'
    BY <1>1, <1>3, <1>4 DEF PartSize, PayloadLength
  <2>2. UNCHANGED <<sent, starts, limit, closed>>
    BY <1>1 DEF networkVars
  <2> QED
    BY <1>1, <1>3, <2>1, <2>2 DEF TypeOK
<1>6. InMessage'
  <2>1. sent' = sent /\ Accepted(PayloadLength, message_id)' = Accepted(PayloadLength, message_id)
    BY <1>1 DEF networkVars, PayloadLength, Accepted, ValidPayloadLength
  <2>2. Begin \in Nat
    <3>1. Current \in 1 .. Len(sent) => starts[Current] \in Nat
      BY Typed
    <3> QED
      BY <3>1, <1>3, AtBegin, Typed DEF Begin
  <2> QED
    <3>1. CASE phase = "prefix"
      BY <3>1, <1>1, <1>2, <1>3, <2>2 DEF InMessage, PartSize
    <3>2. CASE phase = "payload"
      <4>1. received_total' < PayloadLength
        BY <3>2, <1>1, <1>3 DEF PartSize, PayloadLength
      <4> QED
        BY <3>2, <4>1, <1>1, <1>2, <1>3, <2>1, <2>2 DEF InMessage
    <3> QED
      BY <3>1, <3>2, <1>1, <1>4
<1>7. OwnedOnce' /\ InSync' /\ Freed'
  BY <1>1 DEF OwnedOnce, InSync, Freed
<1> QED
  BY <1>2, <1>5, <1>6, <1>7

\* Everything the three steps that end a part start from: what they read lies
\* in the message in hand.
LEMMA WirePart ==
  ASSUME WireInv, phase \in {"prefix", "id", "payload"}, taken < limit
  PROVE  /\ Current \in 1 .. Len(sent) /\ Begin = starts[Current]
         /\ sent[Current] \in Message /\ starts[Current] \in Nat
         /\ sent[Current].prefix \in Nat /\ sent[Current].id \in Nat
         /\ limit \in Nat /\ taken \in Nat
         /\ End(Current) = starts[Current] + PrefixSize + sent[Current].prefix
<1>1. limit \in Nat /\ taken \in Nat /\ Current \in Nat \ {0} /\ Len(sent) \in Nat
  BY AtBegin, Typed DEF WireInv, TypeOK
<1>2. Current <= Len(sent)
  <2>1. CASE phase = "prefix"
    <3>1. received_total \in Nat /\ taken = Begin + received_total
      BY <2>1 DEF WireInv, TypeOK, InMessage, PartSize
    <3> QED
      BY <1>1, <3>1 DEF Begin
  <2>2. CASE phase \in {"id", "payload"}
    BY <2>2 DEF WireInv, InMessage
  <2> QED
    BY <2>1, <2>2
<1>3. Current \in 1 .. Len(sent)
  BY <1>1, <1>2
<1> QED
  BY <1>1, <1>2, <1>3, Typed DEF Begin, End, WireInv

LEMMA RecordOf ==
  ASSUME NEW m \in Message
  PROVE  m = [prefix |-> m.prefix, id |-> m.id]
OBVIOUS

\* The prefix is complete: the message is a keep-alive, or its id comes next.
LEMMA WirePrefix ==
  ASSUME WireInv, NEW n \in Nat, RecvPrefix(n)
  PROVE  /\ WireInv'
         /\ DeliversCurrent \/ delivered' = delivered
<1>1. /\ UNCHANGED networkVars /\ UNCHANGED <<message_id, heap>>
      /\ phase = "prefix"
      /\ n \in 1 .. PrefixSize - received_total
      /\ received_total + n >= PrefixSize
      /\ taken' = taken + n /\ taken' <= limit
      /\ received_total' = received_total + n
      /\ prefix_length' = PrefixAt(taken' - PrefixSize)
  BY DEF RecvPrefix, Recv, AskForMissing, Complete, PartSize
<1>2. received_total \in Nat /\ taken \in Nat /\ limit \in Nat /\ taken = Begin + received_total
  BY <1>1 DEF WireInv, TypeOK, PartSize, InMessage
<1>3. taken < limit
  BY <1>1, <1>2
<1>4. /\ Current \in 1 .. Len(sent) /\ Begin = starts[Current]
      /\ sent[Current] \in Message /\ starts[Current] \in Nat
      /\ sent[Current].prefix \in Nat
      /\ End(Current) = starts[Current] + PrefixSize + sent[Current].prefix
  BY <1>1, <1>3, WirePart
<1>5. taken' = Begin + PrefixSize /\ received_total' = PrefixSize
  <2>1. received_total + n = PrefixSize
    BY <1>1, <1>2
  <2>2. Begin \in Nat
    BY <1>4
  <2> QED
    BY <1>1, <1>2, <2>1, <2>2
<1>6. prefix_length' = sent[Current].prefix
  BY <1>1, <1>4, <1>5, Told DEF WireInv
<1>7. UNCHANGED <<sent, starts, limit, closed>>
  BY <1>1 DEF networkVars
<1>8. CASE prefix_length' = 0
  <2>1. /\ message' = [message_id |-> PEER_MESSAGE_INVALID, is_keep_alive |-> TRUE, payload |-> FALSE, payload_length |-> 0]
        /\ delivered' = Append(delivered, [prefix |-> 0, id |-> PEER_MESSAGE_INVALID])
        /\ phase' = "idle"
    BY <1>8 DEF RecvPrefix, ReturnMessage
  <2>2. sent[Current] = [prefix |-> 0, id |-> PEER_MESSAGE_INVALID]
    BY <1>4, <1>6, <1>8, RecordOf
  <2>3. DeliversCurrent
    BY <1>1, <1>4, <1>5, <1>6, <1>8, <2>1, <2>2 DEF DeliversCurrent, WellFormedMessage
  <2>4. Laid' /\ DeliveredSent' /\ InSync' /\ InMessage' /\ Freed'
    BY <2>3, WireDelivers
  <2>5. TypeOK'
    <3>1. delivered' \in Seq(Message)
      BY <2>1, <2>2, <1>4 DEF WireInv, TypeOK
    <3>2. message' \in [message_id : PEER_MESSAGE_CHOKE .. PEER_MESSAGE_INVALID, is_keep_alive : BOOLEAN,
                        payload : BOOLEAN, payload_length : 0 .. MaxPayload]
      BY <2>1
    <3>3. /\ sent' \in Seq(Message) /\ starts' \in Seq(Nat) /\ Len(starts') = Len(sent')
          /\ closed' \in BOOLEAN /\ message_id' \in Nat /\ heap' \in Nat
      BY <1>1, <1>7 DEF WireInv, TypeOK
    <3>4. limit' \in Nat /\ taken' \in 0 .. limit' /\ prefix_length' \in Nat
      BY <1>1, <1>2, <1>7, <1>8
    <3> QED
      BY <2>1, <3>1, <3>2, <3>3, <3>4 DEF TypeOK
  <2>6. OwnedOnce'
    BY <1>1, <2>1 DEF WireInv, OwnedOnce, Freed, EmptyMessage
  <2> QED
    BY <2>3, <2>4, <2>5, <2>6 DEF WireInv
<1>9. CASE prefix_length' # 0
  <2>1. phase' = "id" /\ UNCHANGED <<message, delivered>>
    BY <1>9 DEF RecvPrefix
  <2>2. Laid' /\ DeliveredSent' /\ Current' = Current /\ Begin' = Begin
    BY <1>1, <2>1, SameNetwork
  <2>3. TypeOK'
    <3>1. taken' \in 0 .. limit'
      BY <1>1, <1>2, <1>7
    <3>2. prefix_length' \in Nat
      BY <1>4, <1>6
    <3> QED
      BY <1>1, <1>7, <2>1, <3>1, <3>2 DEF WireInv, TypeOK
  <2>4. InMessage'
    BY <1>4, <1>5, <1>6, <1>7, <1>9, <2>1, <2>2 DEF InMessage
  <2>5. InSync' /\ OwnedOnce' /\ Freed'
    BY <1>1, <2>1 DEF WireInv, InSync, OwnedOnce, Freed
  <2> QED
    BY <2>1, <2>2, <2>3, <2>4, <2>5 DEF WireInv
<1> QED
  BY <1>8, <1>9

\* The payload is complete.
LEMMA WirePayload ==
  ASSUME WireInv, NEW n \in Nat, RecvPayload(n)
  PROVE  WireInv' /\ DeliversCurrent
<1>1. /\ UNCHANGED networkVars /\ UNCHANGED <<prefix_length, message_id, heap>>
      /\ phase = "payload" /\ phase' = "idle"
      /\ message' = [message_id |-> message_id, is_keep_alive |-> FALSE, payload |-> TRUE,
                     payload_length |-> PayloadLength]
      /\ delivered' = Append(delivered, [prefix |-> PayloadLength + 1, id |-> message_id])
  BY DEF RecvPayload, ReturnMessage
<1>12. /\ n \in 1 .. PayloadLength - received_total
      /\ received_total + n >= PayloadLength
      /\ taken' = taken + n /\ taken' <= limit
      /\ received_total' = received_total + n
  BY DEF RecvPayload, Recv, AskForMissing, Complete, PartSize
<1>2. /\ received_total \in Nat /\ taken \in Nat /\ limit \in Nat
      /\ taken = Begin + PrefixSize + 1 + received_total
      /\ prefix_length = sent[Current].prefix /\ prefix_length > 0 /\ prefix_length \in Nat
      /\ message_id = sent[Current].id /\ message_id \in Nat
      /\ Accepted(PayloadLength, message_id)
  BY <1>1 DEF WireInv, TypeOK, PartSize, InMessage
<1>3. PayloadLength \in Nat /\ PayloadLength = prefix_length - 1
  BY <1>2 DEF PayloadLength
<1>4. taken < limit
  BY <1>12, <1>2
<1>5. /\ Current \in 1 .. Len(sent) /\ Begin = starts[Current]
      /\ sent[Current] \in Message /\ starts[Current] \in Nat
      /\ End(Current) = starts[Current] + PrefixSize + sent[Current].prefix
  BY <1>1, <1>4, WirePart
<1>6. taken' = End(Current)
  <2>1. received_total + n = PayloadLength
    BY <1>12, <1>3, <1>2
  <2>2. taken' = Begin + PrefixSize + 1 + PayloadLength
    <3>1. Begin \in Nat
      BY <1>5
    <3> QED
      BY <1>12, <1>2, <1>3, <2>1, <3>1
  <2>3. End(Current) = Begin + PrefixSize + prefix_length
    BY <1>2, <1>5
  <2>4. Begin \in Nat
    BY <1>5
  <2> QED
    BY <1>2, <1>3, <2>2, <2>3, <2>4
<1>7. sent[Current] = [prefix |-> PayloadLength + 1, id |-> message_id]
  BY <1>2, <1>3, <1>5, RecordOf
<1>8. DeliversCurrent
  BY <1>1, <1>12, <1>2, <1>3, <1>5, <1>6, <1>7 DEF DeliversCurrent, WellFormedMessage, Accepted
<1>9. Laid' /\ DeliveredSent' /\ InSync' /\ InMessage' /\ Freed'
  BY <1>8, WireDelivers
<1>10. TypeOK'
  <2>1. delivered' \in Seq(Message)
    BY <1>1, <1>5, <1>7 DEF WireInv, TypeOK
  <2>2. message' \in [message_id : PEER_MESSAGE_CHOKE .. PEER_MESSAGE_INVALID, is_keep_alive : BOOLEAN,
                      payload : BOOLEAN, payload_length : 0 .. MaxPayload]
    <3>1. message_id \in 0 .. 9 /\ PayloadLength \in 0 .. MaxPayload
      BY <1>2, <1>3 DEF Accepted
    <3> QED
      BY <1>1, <3>1
  <2>3. /\ sent' \in Seq(Message) /\ starts' \in Seq(Nat) /\ Len(starts') = Len(sent')
        /\ limit' = limit
        /\ closed' \in BOOLEAN /\ message_id' \in Nat /\ heap' \in Nat /\ prefix_length' \in Nat
    BY <1>1 DEF WireInv, TypeOK, networkVars
  <2>4. taken' \in 0 .. limit'
    BY <1>12, <1>2, <2>3
  <2> QED
    BY <1>1, <1>2, <2>1, <2>2, <2>3, <2>4 DEF TypeOK
<1>11. OwnedOnce'
  BY <1>1 DEF WireInv, OwnedOnce, Freed, EmptyMessage
<1> QED
  BY <1>8, <1>9, <1>10, <1>11 DEF WireInv

\* A read fails.
LEMMA WireFails ==
  ASSUME WireInv, Fail
  PROVE  WireInv' /\ phase' = "failed" /\ delivered' = delivered
<1>1. /\ UNCHANGED networkVars
      /\ UNCHANGED <<taken, received_total, message, prefix_length, message_id, delivered>>
      /\ phase' = "failed" /\ phase \in {"prefix", "id", "payload"}
      /\ heap' = IF phase = "payload" THEN heap - 1 ELSE heap
  BY DEF Fail, FailFreesPayload, Reading
<1>2. Laid' /\ DeliveredSent'
  BY <1>1, SameNetwork
<1>3. heap' = 0
  BY <1>1 DEF WireInv, OwnedOnce, Freed, EmptyMessage
<1>4. TypeOK' /\ OwnedOnce'
  BY <1>1, <1>3 DEF WireInv, TypeOK, OwnedOnce, Freed, EmptyMessage, networkVars
<1>5. InSync' /\ InMessage' /\ Freed'
  BY <1>1 DEF InSync, InMessage, Freed
<1> QED
  BY <1>1, <1>2, <1>4, <1>5 DEF WireInv

\* The id is there: the message is refused, complete, or its payload comes
\* next.
LEMMA WireId ==
  ASSUME WireInv, RecvId
  PROVE  /\ WireInv'
         /\ DeliversCurrent \/ delivered' = delivered
<1>1. /\ UNCHANGED networkVars /\ prefix_length' = prefix_length
      /\ phase = "id" /\ taken < limit /\ taken' = taken + 1
      /\ received_total' = 0
      /\ message_id' = IdAt(taken)
      /\ PayloadLength' = PayloadLength
  BY DEF RecvId, PayloadLength
<1>2. /\ taken = Begin + PrefixSize
      /\ prefix_length = sent[Current].prefix /\ prefix_length > 0 /\ prefix_length \in Nat
      /\ PayloadLength \in Nat /\ PayloadLength = prefix_length - 1
  BY <1>1 DEF WireInv, TypeOK, InMessage, PayloadLength
<1>3. /\ Current \in 1 .. Len(sent) /\ Begin = starts[Current]
      /\ sent[Current] \in Message /\ starts[Current] \in Nat /\ sent[Current].id \in Nat
      /\ limit \in Nat /\ taken \in Nat
      /\ End(Current) = starts[Current] + PrefixSize + sent[Current].prefix
  BY <1>1, WirePart
<1>4. message_id' = sent[Current].id
  BY <1>1, <1>2, <1>3, Told DEF WireInv
<1>5. UNCHANGED <<sent, starts, limit, closed>>
  BY <1>1 DEF networkVars
<1>6. taken' \in 0 .. limit'
  BY <1>1, <1>3, <1>5
<1>7. message = EmptyMessage /\ heap = 0
  BY <1>1 DEF WireInv, Freed, OwnedOnce, EmptyMessage
<1>8. /\ sent' \in Seq(Message) /\ starts' \in Seq(Nat) /\ Len(starts') = Len(sent')
      /\ limit' \in Nat /\ closed' \in BOOLEAN /\ message_id' \in Nat /\ prefix_length' \in Nat
      /\ delivered \in Seq(Message)
  BY <1>1, <1>2, <1>3, <1>4, <1>5 DEF WireInv, TypeOK
<1>9. CASE phase' = "failed" /\ UNCHANGED <<message, delivered, heap>>
  <2>1. TypeOK'
    BY <1>6, <1>7, <1>8, <1>9, EmptyMessageType DEF TypeOK
  <2>2. InSync' /\ InMessage' /\ Freed' /\ OwnedOnce'
    BY <1>7, <1>9 DEF InSync, InMessage, Freed, OwnedOnce, EmptyMessage
  <2> QED
    BY <1>1, <1>9, <2>1, <2>2, SameNetwork DEF WireInv
<1>10. CASE /\ Accepted(PayloadLength, message_id')
            /\ PayloadLength = 0
            /\ ReturnMessage(message_id', FALSE, FALSE, 0)
            /\ UNCHANGED heap
  <2>1. /\ message' = [message_id |-> message_id', is_keep_alive |-> FALSE, payload |-> FALSE, payload_length |-> 0]
        /\ delivered' = Append(delivered, [prefix |-> 0 + 1, id |-> message_id'])
        /\ phase' = "idle"
    BY <1>10 DEF ReturnMessage
  <2>2. sent[Current] = [prefix |-> 0 + 1, id |-> message_id']
    BY <1>2, <1>3, <1>4, <1>10, RecordOf
  <2>3. taken' = End(Current)
    <3>1. Begin \in Nat /\ End(Current) = Begin + PrefixSize + prefix_length
      BY <1>2, <1>3
    <3> QED
      BY <1>1, <1>2, <1>10, <3>1
  <2>4. WellFormedMessage(sent[Current])
    BY <1>2, <1>4, <1>10 DEF WellFormedMessage, Accepted
  <2>5. DeliversCurrent
    BY <1>1, <1>3, <1>5, <1>6, <2>1, <2>2, <2>3, <2>4 DEF DeliversCurrent
  <2>6. TypeOK'
    <3>1. delivered' \in Seq(Message)
      BY <2>1, <2>2, <1>3, <1>8
    <3>2. message_id' \in 0 .. 9
      BY <1>8, <1>10 DEF Accepted
    <3>3. message' \in [message_id : PEER_MESSAGE_CHOKE .. PEER_MESSAGE_INVALID, is_keep_alive : BOOLEAN,
                        payload : BOOLEAN, payload_length : 0 .. MaxPayload]
      BY <2>1, <3>2
    <3> QED
      BY <1>6, <1>7, <1>8, <1>10, <2>1, <3>1, <3>3 DEF TypeOK
  <2>7. OwnedOnce'
    BY <1>7, <1>10, <2>1 DEF OwnedOnce
  <2> QED
    BY <2>5, <2>6, <2>7, WireDelivers DEF WireInv
<1>11. CASE /\ Accepted(PayloadLength, message_id')
            /\ PayloadLength > 0
            /\ phase' = "payload" /\ heap' = heap + 1
            /\ UNCHANGED <<message, delivered>>
  <2>1. Laid' /\ DeliveredSent' /\ Current' = Current /\ Begin' = Begin
    BY <1>1, <1>11, SameNetwork
  <2>2. TypeOK'
    <3>1. received_total' \in 0 .. PartSize'
      BY <1>1, <1>2, <1>11 DEF PartSize
    <3> QED
      BY <1>6, <1>7, <1>8, <1>11, <3>1, EmptyMessageType DEF TypeOK
  <2>3. InMessage'
    <3>1. taken' = Begin' + PrefixSize + 1 + received_total'
      <4>1. Begin \in Nat
        BY <1>3
      <4> QED
        BY <1>1, <1>2, <2>1, <4>1
    <3>2. Accepted(PayloadLength, message_id)'
      BY <1>1, <1>11 DEF Accepted, ValidPayloadLength
    <3>3. Current <= Len(sent)
      BY <1>3
    <3> QED
      BY <1>1, <1>2, <1>4, <1>5, <1>11, <2>1, <3>1, <3>2, <3>3 DEF InMessage
  <2>4. InSync' /\ OwnedOnce' /\ Freed'
    BY <1>7, <1>11 DEF InSync, OwnedOnce, Freed, EmptyMessage
  <2> QED
    BY <1>11, <2>1, <2>2, <2>3, <2>4 DEF WireInv
<1> QED
  BY <1>9, <1>10, <1>11 DEF RecvId

-----------------------------------------------------------------------------
(* The theorems.                                                           *)

LEMMA WireNext == WireInv /\ [Next]_vars => WireInv'
<1> SUFFICES ASSUME WireInv, [Next]_vars PROVE WireInv'
  OBVIOUS
<1>1. CASE \E m \in Message : PeerSends(m)
  BY <1>1, WireSends
<1>2. CASE \E where \in taken .. limit : StreamEnds(where)
  BY <1>2, WireEnds
<1>3. CASE LoopHead \/ Call
  BY <1>3, WireCalls
<1>4. ASSUME NEW n \in 1 .. PartSize, RecvPart(n) \/ RecvPrefix(n) \/ RecvPayload(n)
      PROVE  WireInv'
  <2>1. n \in Nat
    BY DEF PartSize, WireInv, TypeOK, PayloadLength
  <2> QED
    BY <1>4, <2>1, WireReads, WirePrefix, WirePayload
<1>5. CASE RecvId
  BY <1>5, WireId
<1>6. CASE RecvEnd \/ RecvError
  BY <1>6, WireFails DEF RecvEnd, RecvError
<1>7. CASE UNCHANGED vars
  <2>1. UNCHANGED networkVars /\ UNCHANGED readerVars /\ UNCHANGED delivered
    BY <1>7 DEF vars
  <2>2. Laid' /\ DeliveredSent' /\ Current' = Current /\ Begin' = Begin
    BY <2>1, SameNetwork
  <2>3. TypeOK' /\ InSync' /\ OwnedOnce' /\ Freed'
    BY <2>1 DEF WireInv, TypeOK, InSync, OwnedOnce, Freed, PartSize, PayloadLength, networkVars, readerVars
  <2>4. InMessage'
    <3>1. Accepted(PayloadLength, message_id)' = Accepted(PayloadLength, message_id)
      BY <2>1 DEF readerVars, PayloadLength, Accepted, ValidPayloadLength
    <3> QED
      BY <2>1, <2>2, <3>1 DEF WireInv, InMessage, PayloadLength, networkVars, readerVars
  <2> QED
    BY <2>2, <2>3, <2>4 DEF WireInv
<1> QED
  BY <1>1, <1>2, <1>3, <1>4, <1>5, <1>6, <1>7 DEF Next, Peer, Progress

(***************************************************************************)
(* Where the reader stands in the stream, what it knows of the message in  *)
(* hand and what it owns are right between any two reads, for every set of *)
(* messages and every way the stream is cut (peer_connection.c:438-580).   *)
(***************************************************************************)
THEOREM WireInvariant == Spec => []WireInv
BY WireInit, WireNext, PTL DEF Spec

(***************************************************************************)
(* Between two messages the reader stands exactly at the first byte of the *)
(* next one (peer_connection.c:455-572).                                   *)
(***************************************************************************)
THEOREM WireInSync == Spec => []InSync
<1>1. WireInv => InSync
  BY DEF WireInv
<1> QED
  BY <1>1, WireInvariant, PTL

(***************************************************************************)
(* A payload buffer has one owner at a time and is freed once, also when a *)
(* read fails half way (peer_connection.c:545-577 and 765-771).            *)
(***************************************************************************)
THEOREM WireOwnedOnce == Spec => []OwnedOnce
<1>1. WireInv => OwnedOnce
  BY DEF WireInv
<1> QED
  BY <1>1, WireInvariant, PTL

-----------------------------------------------------------------------------
(* PeerWire implements MessageChannel.                                     *)

LEMMA ChannelInit == Init => Channel!Init
BY DEF Init, Channel!Init

LEMMA ChannelNext ==
  ASSUME WireInv, [Next]_vars
  PROVE  [Channel!Next]_<<sent, delivered, phase = "failed">>
<1> USE DEF Channel!Next, Channel!Send, Channel!Deliver, Channel!GiveUp
<1>1. CASE \E m \in Message : PeerSends(m)
  <2>1. /\ \E m \in Message : sent' = Append(sent, m)
        /\ UNCHANGED <<delivered, phase>>
    BY <1>1 DEF PeerSends, readerVars
  <2> QED
    BY <2>1
<1>2. ASSUME DeliversCurrent
      PROVE  Channel!Deliver
  <2>1. /\ Current \in 1 .. Len(sent) /\ Len(delivered) \in Nat /\ Len(sent) \in Nat
        /\ Current = Len(delivered) + 1
    BY <1>2, AtBegin, Typed DEF DeliversCurrent, WireInv, Current
  <2> QED
    BY <1>2, <2>1 DEF DeliversCurrent, networkVars
<1>3. ASSUME UNCHANGED <<sent, delivered>>, phase \notin {"failed"} \/ phase' = phase
      PROVE  [Channel!Next]_<<sent, delivered, phase = "failed">>
  <2>1. CASE phase' = "failed" /\ phase # "failed"
    BY <1>3, <2>1
  <2>2. CASE (phase' = "failed") = (phase = "failed")
    BY <1>3, <2>2
  <2> QED
    BY <1>3, <2>1, <2>2
<1>4. CASE \E where \in taken .. limit : StreamEnds(where)
  BY <1>4, <1>3 DEF StreamEnds, readerVars
<1>5. CASE LoopHead \/ Call
  BY <1>5, <1>3 DEF LoopHead, Call, networkVars
<1>6. ASSUME NEW n \in 1 .. PartSize, RecvPart(n) \/ RecvPrefix(n) \/ RecvPayload(n)
      PROVE  [Channel!Next]_<<sent, delivered, phase = "failed">>
  <2>1. n \in Nat
    BY DEF PartSize, WireInv, TypeOK, PayloadLength
  <2>2. CASE RecvPart(n)
    BY <2>2, <1>3 DEF RecvPart, networkVars
  <2>3. CASE RecvPrefix(n)
    <3>1. DeliversCurrent \/ delivered' = delivered
      BY <2>1, <2>3, WirePrefix
    <3>2. phase = "prefix" /\ UNCHANGED sent
      BY <2>3 DEF RecvPrefix, networkVars
    <3> QED
      BY <3>1, <3>2, <1>2, <1>3
  <2>4. CASE RecvPayload(n)
    BY <2>1, <2>4, <1>2, WirePayload
  <2> QED
    BY <1>6, <2>2, <2>3, <2>4
<1>7. CASE RecvId
  <2>1. DeliversCurrent \/ delivered' = delivered
    BY <1>7, WireId
  <2>2. phase = "id" /\ UNCHANGED sent
    BY <1>7 DEF RecvId, networkVars
  <2> QED
    BY <2>1, <2>2, <1>2, <1>3
<1>8. CASE RecvEnd \/ RecvError
  BY <1>8, <1>3 DEF RecvEnd, RecvError, Fail, Reading, networkVars
<1>9. CASE UNCHANGED vars
  BY <1>9, <1>3 DEF vars, networkVars, readerVars
<1> QED
  BY <1>1, <1>4, <1>5, <1>6, <1>7, <1>8, <1>9 DEF Next, Peer, Progress

(***************************************************************************)
(* The loop is given the peer's messages in order, well formed, and none   *)
(* after a failure, however the stream is cut (peer_connection.c:438-580,  *)
(* main.c:345-355).                                                        *)
(***************************************************************************)
THEOREM WireImplementsChannel == Spec => ImplementsChannel
BY ChannelInit, ChannelNext, WireInvariant, PTL
DEF Spec, ImplementsChannel, Channel!Spec, Channel!cvars
=============================================================================
