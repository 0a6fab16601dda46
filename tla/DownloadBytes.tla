--------------------------- MODULE DownloadBytes ---------------------------
(***************************************************************************)
(* The download loop with the bytes behind its numbers and sets: the peer  *)
(* bitfield as main and peer_connection.c keep it, and the big-endian      *)
(* words of have, piece and request messages.  Download's bitfield is      *)
(* what the bytes stand for, Represents says so.                           *)
(*                                                                         *)
(* A byte of the bitfield is the set of its bits that are 1, bit 0 being   *)
(* the high one: mask 0x80 >> b is {b}, |= is union, & is intersection.    *)
(* A word is a sequence of WordBytes digits below ByteValues.              *)
(***************************************************************************)
EXTENDS Download, Sequences

CONSTANTS
  BitsPerByte,  \* 8
  WordBytes,    \* 4
  ByteValues    \* 256

\* What 1 is worth in a byte with k bytes behind it: the shifts by 8, 16, 24.
Weight[k \in 0 .. WordBytes] == IF k = 0 THEN 1 ELSE Weight[k - 1] * ByteValues

ASSUME BytesAssumption ==
  /\ BitsPerByte \in Nat \ {0}
  /\ WordBytes \in Nat \ {0}
  /\ ByteValues \in Nat \ {0, 1}
  /\ UInt32Max = Weight[WordBytes] - 1
  /\ BlockSize <= UInt32Max

VARIABLES
  bytes,    \* peer_piece_bitfield.bytes, << >> for NULL; its length is .length
  request   \* the last request on the wire: index, begin and length

byteVars == <<bytes, request>>
allVars == <<vars, byteVars>>

BytesInit == Init /\ bytes = << >> /\ request = << >>

-----------------------------------------------------------------------------
Bits == 0 .. BitsPerByte - 1

\* The length of a bitfield.  (Forgetting to round up is a plausible mistake.)
WholeBytes == PieceCount \div BitsPerByte

BitfieldLength == (PieceCount + BitsPerByte - 1) \div BitsPerByte

\* The byte of piece k in a sequence that starts at 1, and its mask.
ByteIndex(k) == (k \div BitsPerByte) + 1

Mask(k) == {k % BitsPerByte}

\* The bits behind the last piece's.  (Taking them from the high end is a
\* plausible mistake.)
PaddingAtHighEnd ==
  LET remainder == PieceCount % BitsPerByte
  IN  {b \in Bits : remainder # 0 /\ b < BitsPerByte - remainder}

PaddingMask ==
  LET remainder == PieceCount % BitsPerByte
      padding_bits == BitsPerByte - remainder
  IN  {b \in Bits : remainder # 0 /\ b >= BitsPerByte - padding_bits}

\* The test main makes before it asks for a piece.  (Counting the bits from
\* the low one is a plausible mistake.)
AnnouncedFromLow(k) ==
  /\ ByteIndex(k) <= Len(bytes)
  /\ BitsPerByte - 1 - (k % BitsPerByte) \in bytes[ByteIndex(k)]

Announced(k) ==
  /\ ByteIndex(k) <= Len(bytes)
  /\ Mask(k) \cap bytes[ByteIndex(k)] # {}

-----------------------------------------------------------------------------
\* write_uint32_big_endian.  (The low byte first is a plausible mistake.)
WrittenLowFirst(value) ==
  [n \in 1 .. WordBytes |-> (value \div Weight[n - 1]) % ByteValues]

Written(value) ==
  [n \in 1 .. WordBytes |-> (value \div Weight[WordBytes - n]) % ByteValues]

\* The n-th word of a payload, the shifts of a have and of a piece message.
WordAt(payload, n) ==
  LET value[j \in 0 .. WordBytes] ==
        IF j = 0 THEN 0
        ELSE value[j - 1] * ByteValues + payload[(n - 1) * WordBytes + j]
  IN  value[WordBytes]

-----------------------------------------------------------------------------
\* A peer may send any payload, of the right length and of any other; one of
\* a wrong length is refused in ReceiveFails or RefuseBitfield.
Payloads(words) == [1 .. words * WordBytes -> 0 .. ByteValues - 1]

BitfieldPayloads ==
  UNION {[1 .. n -> SUBSET Bits] : n \in BitfieldLength - 1 .. BitfieldLength + 1}

\* update_bitfield: a have makes the bitfield if there is none.
TakeHave(payload) ==
  LET k == WordAt(payload, 1)
      known == IF bytes = << >> THEN [n \in 1 .. BitfieldLength |-> {}] ELSE bytes
  IN  /\ ReceiveHave(k)
      /\ bytes' = [known EXCEPT ![ByteIndex(k)] = @ \cup Mask(k)]
      /\ UNCHANGED request

RefuseHave(payload) ==
  /\ RejectHave(WordAt(payload, 1))
  /\ UNCHANGED byteVars

\* bitfield_applied: the length, and no bit behind the last piece's.
BitfieldFits(payload) ==
  /\ Len(payload) = BitfieldLength
  /\ PaddingMask \cap payload[BitfieldLength] = {}

\* The pieces of a peer that sends this payload: the bits are numbered from
\* the high one of the first byte on.
PiecesOf(payload) ==
  UNION {{(n - 1) * BitsPerByte + b : b \in payload[n]} : n \in DOMAIN payload}

TakeBitfield(payload) ==
  /\ bytes = << >>
  /\ BitfieldFits(payload)
  /\ ReceiveBitfield(PiecesOf(payload))
  /\ bytes' = payload
  /\ UNCHANGED request

RefuseBitfield(payload) ==
  /\ RejectBitfield(bytes = << >> /\ BitfieldFits(payload))
  /\ UNCHANGED byteVars

TakePiece(header, length, genuine) ==
  /\ AcceptPiece(WordAt(header, 1), WordAt(header, 2), length, genuine)
  /\ UNCHANGED byteVars

RefusePiece(header, length) ==
  /\ RejectPiece(WordAt(header, 1), WordAt(header, 2), length)
  /\ UNCHANGED byteVars

\* peer_send_request: three words behind a constant prefix.
PutRequest ==
  /\ SendRequest
  /\ request' = Written(piece_index) \o Written(bytes_received) \o Written(RequestLength)
  /\ UNCHANGED bytes

\* The connection's bitfield is freed with it.
FreeBitfield ==
  /\ DropPeer
  /\ bytes' = << >>
  /\ UNCHANGED request

-----------------------------------------------------------------------------
ReceiveBytes ==
  \/ \E payload \in Payloads(1) : TakeHave(payload) \/ RefuseHave(payload)
  \/ \E payload \in BitfieldPayloads : TakeBitfield(payload) \/ RefuseBitfield(payload)
  \/ \E header \in Payloads(2), length \in 0 .. BlockSize :
       \/ \E genuine \in BOOLEAN : TakePiece(header, length, genuine)
       \/ RefusePiece(header, length)

WithoutBytes ==
  /\ \/ LeaveLoop
     \/ Connect
     \/ ReceiveFails \/ ReceiveIgnored \/ ReceiveChoke \/ ReceiveUnchoke
     \/ Check
     \/ NothingAnnounced \/ PeerUnusable
     \/ SendInterested \/ SendInterestedFails
     \/ NothingToRequest \/ RequestNotSent
  /\ UNCHANGED byteVars

BytesNext == WithoutBytes \/ ReceiveBytes \/ PutRequest \/ FreeBitfield

BytesSpec == BytesInit /\ [][BytesNext]_allVars
-----------------------------------------------------------------------------
(***************************************************************************)
(* Represents: a bitfield, received whole (peer_connection.c:676-719) or   *)
(* made and extended by haves (peer_connection.c:619-674), has a byte for  *)
(* every piece and none too many, no bit behind the last piece, and main's *)
(* test (main.c:516-528) finds in it just the pieces the peer announced,   *)
(* also in a torrent whose number of pieces fills no byte.                 *)
(***************************************************************************)
Represents ==
  /\ have_bitfield <=> bytes # << >>
  /\ have_bitfield =>
       /\ PieceCount \in (Len(bytes) - 1) * BitsPerByte + 1 .. Len(bytes) * BitsPerByte
       /\ PiecesOf(bytes) = bitfield /\ bitfield \subseteq Pieces
       /\ \A k \in Pieces : Announced(k) <=> k \in bitfield

\* The number a peer reads at the n-th word: its first byte weighs most.
PeerReads(n) ==
  LET sum[j \in 0 .. WordBytes] ==
        IF j = 0 THEN 0
        ELSE sum[j - 1] + request[(n - 1) * WordBytes + j] * Weight[WordBytes - j]
  IN  sum[WordBytes]

(***************************************************************************)
(* RequestRead: while an answer is due, a peer reads in the request it was *)
(* sent (peer_connection.c:311-361) the block loco waits for, none of the  *)
(* three numbers truncated by its cast (main.c:564-566), and the answer    *)
(* that repeats its first two words is accepted (peer_connection.c:602).   *)
(***************************************************************************)
RequestRead ==
  request_pending =>
    /\ <<PeerReads(1), PeerReads(2), PeerReads(3)>> =
         <<piece_index, requested_begin, requested_length>>
    /\ IsRequested(WordAt(request, 1), WordAt(request, 2), PeerReads(3))
-----------------------------------------------------------------------------
(* Why it holds.                                                           *)

(***************************************************************************)
(* BytesInv: between any two steps the bytes, if there are any, are as     *)
(* many as the torrent asks for, have no bit behind the last piece's, and  *)
(* stand for Download's set (peer_connection.c:619-719); while an answer   *)
(* is due, the request on the wire is the one whose numbers are kept       *)
(* (main.c:564-574).                                                       *)
(***************************************************************************)
BytesInv ==
  /\ Inv
  /\ have_bitfield <=> bytes # << >>
  /\ bytes # << >> =>
       bytes \in [1 .. BitfieldLength -> SUBSET Bits] /\ BitfieldFits(bytes)
  /\ bitfield = PiecesOf(bytes)
  /\ request_pending =>
       /\ {piece_index, requested_begin, requested_length} \subseteq 0 .. UInt32Max
       /\ request =
            Written(piece_index) \o Written(requested_begin) \o Written(requested_length)
=============================================================================
