------------------------------ MODULE Download ------------------------------
(***************************************************************************)
(* loco's download loop: main.c, lines 258-601, with the functions of      *)
(* peer_connection.c it applies to what a peer sends.  The environment is  *)
(* arbitrary: a peer may send any message at any time, the network, the    *)
(* disk and the allocator may fail at every call.  Swarm restricts it.     *)
(*                                                                         *)
(* pc is the place in the loop at which the program stands:                *)
(*   next_peer  head of the for loop                       main.c:292      *)
(*   handshake  connected, handshake not made              main.c:312      *)
(*   receive    head of the while loop, waiting for input  main.c:345      *)
(*   check      message handled                            main.c:418      *)
(*   serve      deciding what to ask this peer for         main.c:510      *)
(*   drop       out of the while loop                      main.c:580      *)
(*   exit       main has returned                          main.c:595      *)
(*   overrun    a block was copied past the end of the buffer, after which *)
(*              C promises nothing: the model stops there  main.c:403      *)
(*                                                                         *)
(* Bytes.  The torrent's byte at position p is the number p.  A byte that  *)
(* is not the torrent's is Corrupt; Unset is a byte of the buffer nothing  *)
(* was copied to, Hole a byte of the file nothing was written to.          *)
(***************************************************************************)
EXTENDS TorrentLayout

CONSTANTS
  PeerCount,    \* peer_count, the peers the tracker returned
  BlockSize,    \* DEFAULT_REQUEST_BLOCK_SIZE, also the longest block received
  UInt32Max,    \* UINT32_MAX
  Corrupt, Unset, Hole

ASSUME DownloadAssumption ==
  /\ PeerCount \in Nat
  /\ BlockSize \in Nat \ {0}
  /\ UInt32Max \in Nat
  /\ {Corrupt, Unset, Hole} \cap Positions = {}
  /\ Corrupt # Unset /\ Corrupt # Hole /\ Unset # Hole

VARIABLES
  pc,
  i,                   \* the index of the current peer
  have_bitfield,       \* peer_piece_bitfield.bytes != NULL
  bitfield,            \* the pieces whose bit is set
  peer_choking_us,
  we_are_interested,
  piece_index,
  piece_size,
  piece_buffer,
  bytes_received,
  request_pending,
  requested_begin,
  requested_length,
  file,                \* the bytes handed to the output stream
  download_complete

connVars    == <<have_bitfield, bitfield, peer_choking_us, we_are_interested>>
requestVars == <<bytes_received, request_pending, requested_begin, requested_length>>
pieceVars   == <<piece_index, piece_size, piece_buffer>>
outVars     == <<file, download_complete>>
vars == <<pc, i, connVars, pieceVars, requestVars, outVars>>

-----------------------------------------------------------------------------
\* The buffer is allocated once, for the first piece (main.c:269).
BufferIndexes == 0 .. FirstPieceSize - 1

\* The sizes piece_size may take: a last piece may declare more than that.
PieceSizes == (0 .. FirstPieceSize) \cup (0 .. Length)

Bytes == Positions \cup {Corrupt, Unset, Hole}

\* TypeOK: every variable keeps the type main.c declares it with, the index
\* stays within the torrent, and the bytes counted stay within the buffer.
TypeOK ==
  /\ pc \in {"next_peer", "handshake", "receive", "check", "serve", "drop", "exit", "overrun"}
  /\ i \in 0 .. PeerCount
  /\ have_bitfield \in BOOLEAN
  /\ bitfield \in SUBSET Pieces
  /\ peer_choking_us \in BOOLEAN
  /\ we_are_interested \in BOOLEAN
  /\ piece_index \in 0 .. PieceCount
  /\ piece_size \in PieceSizes
  /\ piece_buffer \in [BufferIndexes -> Bytes]
  /\ bytes_received \in 0 .. FirstPieceSize
  /\ request_pending \in BOOLEAN
  /\ requested_begin \in 0 .. FirstPieceSize
  /\ requested_length \in 0 .. BlockSize
  /\ file \in [Positions -> Bytes]
  /\ download_complete \in BOOLEAN

-----------------------------------------------------------------------------
NoConnection ==
  /\ have_bitfield = FALSE
  /\ bitfield = {}
  /\ peer_choking_us = TRUE
  /\ we_are_interested = FALSE

NothingRequested ==
  /\ bytes_received = 0
  /\ request_pending = FALSE
  /\ requested_begin = 0
  /\ requested_length = 0

Init ==
  /\ pc = "next_peer"
  /\ i = 0
  /\ NoConnection
  /\ piece_index = 0
  /\ piece_size = FirstPieceSize
  /\ piece_buffer = [j \in BufferIndexes |-> Unset]
  /\ NothingRequested
  /\ file = [p \in Positions |-> Hole]
  /\ download_complete = FALSE

\* reset_piece_state.  The buffer keeps its bytes.  (Keeping the count, or the
\* pending request, too is a plausible mistake.)
ResetKeepsCount ==
  /\ request_pending' = FALSE
  /\ requested_length' = 0
  /\ requested_begin' = 0
  /\ UNCHANGED bytes_received

ResetKeepsRequest ==
  /\ bytes_received' = 0
  /\ UNCHANGED <<request_pending, requested_length, requested_begin>>

ResetPieceState ==
  /\ request_pending' = FALSE
  /\ requested_length' = 0
  /\ requested_begin' = 0
  /\ bytes_received' = 0

Goto(place) == pc' = place

-----------------------------------------------------------------------------
(* The for loop over the peers.                                            *)

LeaveLoop ==
  /\ pc = "next_peer"
  /\ i = PeerCount \/ download_complete
  /\ Goto("exit")
  /\ UNCHANGED <<i, connVars, pieceVars, requestVars, outVars>>

TryPeer ==
  /\ pc = "next_peer"
  /\ i < PeerCount
  /\ ~download_complete

ConnectFails ==
  /\ TryPeer
  /\ ResetPieceState
  /\ i' = i + 1
  /\ UNCHANGED <<pc, connVars, pieceVars, outVars>>

ConnectSucceeds ==
  /\ TryPeer
  /\ Goto("handshake")
  /\ UNCHANGED <<i, connVars, pieceVars, requestVars, outVars>>

HandshakeFails ==
  /\ pc = "handshake"
  /\ ResetPieceState
  /\ i' = i + 1
  /\ Goto("next_peer")
  /\ UNCHANGED <<connVars, pieceVars, outVars>>

HandshakeSucceeds ==
  /\ pc = "handshake"
  /\ Goto("receive")
  /\ UNCHANGED <<i, connVars, pieceVars, requestVars, outVars>>

\* Out of the while loop: the connection goes out of scope.
DropPeer ==
  /\ pc = "drop"
  /\ have_bitfield' = FALSE
  /\ bitfield' = {}
  /\ peer_choking_us' = TRUE
  /\ we_are_interested' = FALSE
  /\ ResetPieceState
  /\ i' = i + 1
  /\ Goto("next_peer")
  /\ UNCHANGED <<pieceVars, outVars>>

-----------------------------------------------------------------------------
(* One message.  A handler that accepts goes on to the check for a         *)
(* complete piece, one that refuses drops the peer.                        *)

Handled ==
  /\ pc = "receive"
  /\ Goto("check")
  /\ UNCHANGED <<i, piece_index, piece_size, outVars>>

Refused ==
  /\ pc = "receive"
  /\ Goto("drop")
  /\ UNCHANGED <<i, connVars, pieceVars, requestVars, outVars>>

\* Connection closed, read error, message refused by the framing, no memory.
ReceiveFails == Refused

\* Interested, not interested, request and cancel are read and ignored.
ReceiveIgnored ==
  /\ Handled
  /\ UNCHANGED <<connVars, piece_buffer, requestVars>>

\* A choke does not clear request_pending.
ReceiveChoke ==
  /\ Handled
  /\ peer_choking_us' = TRUE
  /\ UNCHANGED <<have_bitfield, bitfield, we_are_interested, piece_buffer, requestVars>>

ReceiveUnchoke ==
  /\ Handled
  /\ peer_choking_us' = FALSE
  /\ UNCHANGED <<have_bitfield, bitfield, we_are_interested, piece_buffer, requestVars>>

\* update_bitfield makes the bitfield if the peer sent none.
ReceiveHave(k) ==
  /\ Handled
  /\ k < PieceCount
  /\ have_bitfield' = TRUE
  /\ bitfield' = bitfield \cup {k}
  /\ UNCHANGED <<peer_choking_us, we_are_interested, piece_buffer, requestVars>>

\* An index past the last piece, or no memory for a first bitfield.
RejectHave(k) ==
  /\ k >= PieceCount \/ ~have_bitfield
  /\ Refused

ReceiveBitfield(bits) ==
  /\ Handled
  /\ ~have_bitfield
  /\ have_bitfield' = TRUE
  /\ bitfield' = bits
  /\ UNCHANGED <<peer_choking_us, we_are_interested, piece_buffer, requestVars>>

\* A second bitfield, a bitfield after a have, a wrong length, a padding bit.
RejectBitfield(wellFormed) ==
  /\ have_bitfield \/ ~wellFormed
  /\ Refused

\* process_incoming_piece_message takes only the block that was asked for.
\* (Leaving the test of request_pending out is a plausible mistake.)
IsRequestedUnguarded(index, begin, length) ==
  /\ index = piece_index
  /\ begin = requested_begin
  /\ length = requested_length
  /\ begin <= piece_size
  /\ length <= piece_size - begin

IsRequested(index, begin, length) ==
  /\ request_pending
  /\ index = piece_index
  /\ begin = requested_begin
  /\ length = requested_length
  /\ begin <= piece_size
  /\ length <= piece_size - begin

\* The bytes of a block: the torrent's, or bytes that are not.
BlockByte(index, j, genuine) ==
  IF genuine THEN PieceStart(index) + j ELSE Corrupt

\* What the copy needs, and no line of the function tests.
FitsBuffer(begin, length) == begin + length <= FirstPieceSize

ReceivePiece(index, begin, length, genuine) ==
  /\ Handled
  /\ IsRequested(index, begin, length)
  /\ FitsBuffer(begin, length)
  /\ piece_buffer' =
       [j \in BufferIndexes |->
          IF j \in begin .. begin + length - 1 THEN BlockByte(index, j, genuine)
                                               ELSE piece_buffer[j]]
  /\ bytes_received' = bytes_received + length
  /\ request_pending' = FALSE
  /\ UNCHANGED <<connVars, requested_begin, requested_length>>

\* The block is inside the piece, but the piece is larger than the buffer.
OverrunBuffer(index, begin, length) ==
  /\ pc = "receive"
  /\ IsRequested(index, begin, length)
  /\ ~FitsBuffer(begin, length)
  /\ Goto("overrun")
  /\ UNCHANGED <<i, connVars, pieceVars, requestVars, outVars>>

AcceptPiece(index, begin, length, genuine) ==
  \/ ReceivePiece(index, begin, length, genuine)
  \/ OverrunBuffer(index, begin, length)

RejectPiece(index, begin, length) ==
  /\ ~IsRequested(index, begin, length)
  /\ Refused

-----------------------------------------------------------------------------
(* A complete piece is hashed and stored.                                  *)

PieceReceived == bytes_received = piece_size

\* SHA-1 is collision free: the hash matches exactly when the bytes do.
\* (Storing a piece unverified is a plausible mistake.)
AnyHashMatches == TRUE

HashMatches ==
  \A j \in 0 .. piece_size - 1 : piece_buffer[j] = PieceStart(piece_index) + j

\* file_offset.  (The last piece is shorter: using its size is a plausible
\* mistake.)
OffsetBySize == SizeTimes(piece_index, piece_size)

FileOffset == SizeTimes(piece_index, PieceLength)

\* The two tests before the offset is used.  (The second alone is a plausible
\* mistake.)
OffsetTestMissing == FileOffset > LongMax

OffsetUnrepresentable == ProductOverflows(piece_index) \/ FileOffset > LongMax

\* fseek and fwrite, of which the first size bytes reach the stream.
WritePiece(size) ==
  file' = [p \in Positions |->
             IF p \in FileOffset .. FileOffset + size - 1
             THEN piece_buffer[p - FileOffset] ELSE file[p]]

PieceNotReceived ==
  /\ pc = "check"
  /\ ~PieceReceived
  /\ Goto("serve")
  /\ UNCHANGED <<i, connVars, pieceVars, requestVars, outVars>>

\* (Asking the same peer again is a plausible mistake.)
HashMismatchStays ==
  /\ pc = "check"
  /\ PieceReceived
  /\ ~HashMatches
  /\ ResetPieceState
  /\ Goto("serve")
  /\ UNCHANGED <<i, connVars, pieceVars, outVars>>

HashMismatch ==
  /\ pc = "check"
  /\ PieceReceived
  /\ ~HashMatches
  /\ ResetPieceState
  /\ Goto("drop")
  /\ UNCHANGED <<i, connVars, pieceVars, outVars>>

RefuseOffset ==
  /\ pc = "check"
  /\ PieceReceived
  /\ HashMatches
  /\ OffsetUnrepresentable
  /\ Goto("drop")
  /\ UNCHANGED <<i, connVars, pieceVars, requestVars, outVars>>

ReadyToStore ==
  /\ pc = "check"
  /\ PieceReceived
  /\ HashMatches
  /\ ~OffsetUnrepresentable

\* fseek fails, or fwrite writes only part of the piece.
WriteFails(written) ==
  /\ ReadyToStore
  /\ written = 0 \/ written < piece_size
  /\ WritePiece(written)
  /\ Goto("drop")
  /\ UNCHANGED <<i, connVars, pieceVars, requestVars, download_complete>>

\* (Being done when the last piece is next is a plausible mistake.)
FinishOneEarly ==
  /\ piece_index + 1 >= PieceCount - 1
  /\ download_complete' = TRUE
  /\ Goto("drop")
  /\ UNCHANGED piece_size

FinishDownload ==
  /\ piece_index + 1 >= PieceCount
  /\ download_complete' = TRUE
  /\ Goto("drop")
  /\ UNCHANGED piece_size

LastPieceNext == piece_index + 1 = PieceCount - 1

\* The index is on the last piece already, the size is still the old one.
RefuseLayout ==
  /\ LastPieceNext
  /\ LayoutRejected
  /\ Goto("drop")
  /\ UNCHANGED <<piece_size, download_complete>>

SizeLastPiece ==
  /\ LastPieceNext
  /\ ~LayoutRejected
  /\ piece_size' = LastPieceSize
  /\ Goto("serve")
  /\ UNCHANGED download_complete

KeepPieceSize ==
  /\ piece_index + 1 < PieceCount - 1
  /\ Goto("serve")
  /\ UNCHANGED <<piece_size, download_complete>>

StorePiece ==
  /\ ReadyToStore
  /\ WritePiece(piece_size)
  /\ piece_index' = piece_index + 1
  /\ ResetPieceState
  /\ FinishDownload \/ RefuseLayout \/ SizeLastPiece \/ KeepPieceSize
  /\ UNCHANGED <<i, connVars, piece_buffer>>

-----------------------------------------------------------------------------
(* What to ask the peer for.                                               *)

Serving(place) ==
  /\ pc = "serve"
  /\ Goto(place)
  /\ UNCHANGED <<i, have_bitfield, bitfield, peer_choking_us, pieceVars, outVars>>

\* A peer that has announced nothing is asked for nothing.
NothingAnnounced ==
  /\ Serving("receive")
  /\ ~have_bitfield
  /\ UNCHANGED <<we_are_interested, requestVars>>

\* The peer can serve the current piece.
CanServe ==
  /\ piece_index < PieceCount
  /\ piece_index \in bitfield
  /\ bytes_received <= piece_size

PeerUnusable ==
  /\ Serving("drop")
  /\ have_bitfield
  /\ ~CanServe
  /\ UNCHANGED <<we_are_interested, requestVars>>

\* The end of an iteration that has the peer's interest settled.
Interested ==
  /\ have_bitfield
  /\ CanServe
  /\ we_are_interested

SendInterested ==
  /\ Serving("serve")
  /\ have_bitfield
  /\ CanServe
  /\ ~we_are_interested
  /\ we_are_interested' = TRUE
  /\ UNCHANGED requestVars

SendInterestedFails ==
  /\ Serving("drop")
  /\ have_bitfield
  /\ CanServe
  /\ ~we_are_interested
  /\ UNCHANGED <<we_are_interested, requestVars>>

NothingToRequest ==
  /\ Serving("receive")
  /\ Interested
  /\ peer_choking_us \/ request_pending
  /\ UNCHANGED <<we_are_interested, requestVars>>

\* (Asking again while an answer is due is a plausible mistake.)
MayRequestAgain ==
  /\ Interested
  /\ ~peer_choking_us

MayRequest ==
  /\ Interested
  /\ ~peer_choking_us
  /\ ~request_pending

\* (Always asking for a whole block is a plausible mistake.)
FullBlock == BlockSize

RequestLength ==
  IF piece_size - bytes_received < BlockSize THEN piece_size - bytes_received
                                             ELSE BlockSize

\* The wire carries both numbers in 32 bits.
NotOnWire == piece_index > UInt32Max \/ bytes_received > UInt32Max

SendRequest ==
  /\ Serving("receive")
  /\ MayRequest
  /\ ~NotOnWire
  /\ request_pending' = TRUE
  /\ requested_length' = RequestLength
  /\ requested_begin' = bytes_received
  /\ UNCHANGED <<we_are_interested, bytes_received>>

\* The numbers do not fit the wire, when nothing else can happen, or send fails.
RequestNotSent ==
  /\ Serving("drop")
  /\ MayRequest
  /\ UNCHANGED <<we_are_interested, requestVars>>

-----------------------------------------------------------------------------
(* A keep-alive changes nothing: it is a stuttering step.                  *)

Connect == ConnectFails \/ ConnectSucceeds \/ HandshakeFails \/ HandshakeSucceeds

\* Any message a peer can put on the wire, an index of PieceCount standing
\* for every index past the last piece.
Receive ==
  \/ ReceiveFails
  \/ ReceiveIgnored
  \/ ReceiveChoke
  \/ ReceiveUnchoke
  \/ \E k \in 0 .. PieceCount : ReceiveHave(k) \/ RejectHave(k)
  \/ \E bits \in SUBSET Pieces : ReceiveBitfield(bits)
  \/ \E wellFormed \in BOOLEAN : RejectBitfield(wellFormed)
  \/ \E index \in 0 .. PieceCount, begin \in 0 .. FirstPieceSize,
        length \in 0 .. BlockSize :
       \/ \E genuine \in BOOLEAN : AcceptPiece(index, begin, length, genuine)
       \/ RejectPiece(index, begin, length)

Check ==
  \/ PieceNotReceived
  \/ HashMismatch
  \/ RefuseOffset
  \/ \E written \in 0 .. FirstPieceSize : WriteFails(written)
  \/ StorePiece

Serve ==
  \/ NothingAnnounced
  \/ PeerUnusable
  \/ SendInterested
  \/ SendInterestedFails
  \/ NothingToRequest
  \/ SendRequest
  \/ RequestNotSent

Next == LeaveLoop \/ Connect \/ DropPeer \/ Receive \/ Check \/ Serve

Spec == Init /\ [][Next]_vars
-----------------------------------------------------------------------------
(* What must hold.                                                         *)

(***************************************************************************)
(* FileGenuine: no byte reaches the output file before the hash of its     *)
(* piece was verified, and none at another piece's place, whatever peers   *)
(* send and wherever a write breaks off (main.c:434-468).                  *)
(***************************************************************************)
FileGenuine == \A p \in Positions : file[p] \in {p, Hole}

(***************************************************************************)
(* VerifiedPrefix: piece_index is a promise.  Everything before the piece  *)
(* it names is in the file, so that the next peer may go on from there     *)
(* (main.c:469) and the end of the loop may report success (main.c:595).   *)
(***************************************************************************)
VerifiedPrefix ==
  \A p \in BytesBefore(piece_index) : p < Length => file[p] = p

(***************************************************************************)
(* RequestWindow: while an answer is awaited, the request on the wire is   *)
(* for the next bytes of the current piece, not empty unless the piece is, *)
(* and ends inside the piece (main.c:549-574).  It ends inside the buffer, *)
(* too, except in the last piece of a torrent that declares more bytes     *)
(* than its pieces hold: main.c:503 gives that piece a size the buffer of  *)
(* main.c:269 does not have, and peer_connection.c:752 tests the block     *)
(* against the piece alone.                                                *)
(***************************************************************************)
RequestWindow ==
  request_pending =>
    /\ requested_begin = bytes_received
    /\ requested_length > 0 \/ piece_size = 0
    /\ requested_begin + requested_length <= piece_size
    /\ LengthFits \/ piece_index < PieceCount - 1 =>
         FitsBuffer(requested_begin, requested_length)

(***************************************************************************)
(* NoStaleBytes: the bytes counted as received were sent for the current   *)
(* piece.  The buffer is never cleared, so what an earlier piece or an     *)
(* earlier peer left in it must never be counted (peer_connection.c:24).   *)
(***************************************************************************)
NoStaleBytes ==
  \A j \in 0 .. bytes_received - 1 :
    piece_buffer[j] \in {PieceStart(piece_index) + j, Corrupt}

(***************************************************************************)
(* PieceSizeRight: the pieces cut the declared length without a gap and    *)
(* without an overlap.  In a torrent whose last piece starts inside the    *)
(* file, the current piece ends where the next one starts, the last one    *)
(* where the declared length does, whatever peer the loop is at when the   *)
(* index moves on (main.c:265-267, 469 and 485-506); a declared length     *)
(* above what the pieces hold goes to the last piece as it stands.         *)
(***************************************************************************)
PieceSizeRight ==
  WellFormed /\ piece_index < PieceCount =>
    PieceStart(piece_index) + piece_size =
      IF piece_index = PieceCount - 1 THEN Length ELSE PieceStart(piece_index + 1)

(***************************************************************************)
(* BlockCountedOnce: bytes are counted only against the one request that   *)
(* is pending, which the same step settles: a block sent twice, or sent    *)
(* for a request that was reset, is never counted                          *)
(* (peer_connection.c:729-761).                                            *)
(***************************************************************************)
BlockCountedOnce ==
  [][ bytes_received' > bytes_received =>
        /\ request_pending /\ ~request_pending'
        /\ bytes_received' = requested_begin + requested_length ]_vars

(***************************************************************************)
(* Implements: the loop fills the file as VerifiedDownload promises, and   *)
(* exits with success exactly when every piece was stored.                 *)
(***************************************************************************)
Abstract == INSTANCE VerifiedDownload WITH
  stored  <- piece_index,
  outcome <- IF pc # "exit" THEN "running"
             ELSE IF download_complete THEN "complete" ELSE "failed"

Implements == Abstract!Spec
-----------------------------------------------------------------------------
(* The inductive invariant behind the safety properties.                   *)

\* Between two connections nothing is requested and nothing counted.
Disconnected == pc \in {"next_peer", "handshake"} => NothingRequested

\* A connection belongs to one of the peers.
CurrentPeer == pc \notin {"next_peer", "exit"} => i < PeerCount

\* Success is decided once, and ends the use of the current peer.
Completion ==
  /\ download_complete <=> piece_index = PieceCount
  /\ download_complete => pc \in {"drop", "next_peer", "exit"}

\* The size always belongs to the index, also after RefuseLayout.
Sized ==
  /\ piece_index < PieceCount - 1 => piece_size = PieceLength
  /\ piece_index = PieceCount - 1 =>
       piece_size = IF WellFormed THEN Length - PieceStart(piece_index)
                                  ELSE PieceLength

\* The buffer is overrun only in the last piece, and only when that piece is
\* larger than the others.
Overrun == pc = "overrun" => ~LengthFits /\ piece_index = PieceCount - 1

\* The subtraction that sizes a request cannot wrap, nor give 0 in a piece
\* that has bytes.
Counted ==
  /\ bytes_received <= piece_size
  /\ pc = "serve" => bytes_received < piece_size \/ piece_size = 0

(***************************************************************************)
(* Inv: the safety properties with what makes them inductive, the          *)
(* agreement of piece_index, piece_size, bytes_received and                *)
(* download_complete at every place of the loop (main.c:292-584).          *)
(***************************************************************************)
Inv ==
  /\ TypeOK
  /\ Disconnected
  /\ CurrentPeer
  /\ Completion
  /\ Sized
  /\ Counted
  /\ Overrun
  /\ RequestWindow
  /\ NoStaleBytes
  /\ FileGenuine
  /\ VerifiedPrefix
=============================================================================
