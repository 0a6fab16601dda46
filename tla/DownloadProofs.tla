--------------------------- MODULE DownloadProofs ---------------------------
(***************************************************************************)
(* Download's safety properties for every torrent, number of peers, block  *)
(* size and machine word: Inv is inductive, and the properties follow.     *)
(***************************************************************************)
EXTENDS Download, TLAPS

USE TorrentAssumption, DownloadAssumption

-----------------------------------------------------------------------------
(* The layout arithmetic.                                                  *)

\* The code's test is exact: when it lets an index pass, the product does
\* not wrap (main.c:443-452 and 489-497).
LEMMA NoWrap ==
  ASSUME NEW k \in Nat, ~ProductOverflows(k)
  PROVE  SizeTimes(k, PieceLength) = k * PieceLength
<1>1. CASE k = 0
  BY <1>1 DEF SizeTimes
<1>2. CASE k # 0
  <2>1. PieceLength <= SizeMax \div k
    BY <1>2 DEF ProductOverflows
  <2>2. k * PieceLength <= SizeMax
    BY <2>1, <1>2
  <2> QED
    BY <2>2 DEF SizeTimes
<1> QED
  BY <1>1, <1>2

LEMMA PieceStartType ==
  ASSUME NEW k \in Int
  PROVE  PieceStart(k) \in Int /\ (k >= 0 => PieceStart(k) >= 0)
BY DEF PieceStart

LEMMA PieceStartStep ==
  ASSUME NEW k \in Int
  PROVE  PieceStart(k + 1) = PieceStart(k) + PieceLength
BY DEF PieceStart

LEMMA PieceStartMonotone ==
  ASSUME NEW k \in Int, NEW m \in Int, k <= m
  PROVE  PieceStart(k) <= PieceStart(m)
BY DEF PieceStart

LEMMA FirstPieceSizeBound ==
  /\ FirstPieceSize \in Nat
  /\ PieceCount > 1 => FirstPieceSize = PieceLength
  /\ PieceCount = 1 => FirstPieceSize = Length
BY DEF FirstPieceSize

\* A single piece always starts inside the file.
LEMMA LastPiece ==
  /\ PieceCount = 1 => WellFormed
  /\ WellFormed => Length - PieceStart(PieceCount - 1) \in 0 .. Length
  /\ ~LayoutRejected =>
       WellFormed /\ LastPieceSize = Length - PieceStart(PieceCount - 1)
  /\ LayoutRejected => ~WellFormed
<1>1. PieceCount = 1 => WellFormed
  BY DEF WellFormed, PieceStart
<1>2. PieceStart(PieceCount - 1) \in Int /\ PieceStart(PieceCount) = PieceStart(PieceCount - 1) + PieceLength
  BY PieceStartType, PieceStartStep
<1>3. WellFormed => Length - PieceStart(PieceCount - 1) \in 0 .. Length
  BY <1>2, PieceStartType DEF WellFormed
<1>4. ASSUME ~ProductOverflows(PieceCount - 1)
      PROVE  LastPieceOffset = PieceStart(PieceCount - 1)
  BY <1>4, NoWrap DEF LastPieceOffset, SizeTimes, PieceStart
<1>5. ASSUME ProductOverflows(PieceCount - 1)
      PROVE  ~WellFormed
  <2> DEFINE m == PieceCount - 1
  <2>1. m \in Nat \ {0} /\ PieceLength > SizeMax \div m
    BY <1>5 DEF ProductOverflows
  <2>2. m * PieceLength > SizeMax
    BY <2>1
  <2> QED
    BY <2>2 DEF WellFormed, PieceStart
<1>6. ~LayoutRejected => WellFormed /\ LastPieceSize = Length - PieceStart(PieceCount - 1)
  BY <1>2, <1>4 DEF LayoutRejected, WellFormed, LastPieceSize
<1>7. LayoutRejected => ~WellFormed
  BY <1>2, <1>4, <1>5 DEF LayoutRejected, WellFormed
<1> QED
  BY <1>1, <1>3, <1>6, <1>7

LEMMA PositionIsNat ==
  /\ Positions \subseteq Nat
  /\ \A p \in Positions : p \in Nat
BY DEF Positions

\* A size is a number, and a piece that is received fits what was allocated.
LEMMA SizeIsNat ==
  /\ PieceSizes \subseteq Nat
  /\ 0 .. FirstPieceSize \subseteq PieceSizes
  /\ PieceCount > 1 => PieceLength \in PieceSizes
BY FirstPieceSizeBound DEF PieceSizes

\* The buffer of the first piece is large enough for every piece but the last,
\* and for that one when the declared length fits the pieces (main.c:265-269).
LEMMA SizeFits ==
  ASSUME TypeOK, Sized, piece_index < PieceCount, LengthFits \/ piece_index < PieceCount - 1
  PROVE  piece_size <= FirstPieceSize
<1>1. piece_index \in 0 .. PieceCount - 1
  BY DEF TypeOK
<1>2. CASE piece_index < PieceCount - 1
  BY <1>1, <1>2, FirstPieceSizeBound DEF Sized
<1>3. CASE piece_index = PieceCount - 1 /\ PieceCount = 1
  BY <1>3, LastPiece, FirstPieceSizeBound DEF Sized, PieceStart
<1>4. CASE piece_index = PieceCount - 1 /\ PieceCount > 1
  <2>1. Length <= PieceStart(PieceCount - 1) + PieceLength
    BY <1>4, PieceStartStep DEF LengthFits, PieceStart
  <2> QED
    BY <2>1, <1>4, PieceStartType, FirstPieceSizeBound DEF Sized
<1> QED
  BY <1>1, <1>2, <1>3, <1>4

-----------------------------------------------------------------------------
(* The inductive invariant.                                                *)

\* The loop starts with Inv.
LEMMA InvInit == Init => Inv
<1> SUFFICES ASSUME Init PROVE Inv
  OBVIOUS
<1>1. TypeOK
  <2>1. piece_buffer \in [BufferIndexes -> Bytes] /\ file \in [Positions -> Bytes]
    BY DEF Init, Bytes
  <2>2. bitfield \in SUBSET Pieces
    BY DEF Init, NoConnection
  <2>3. /\ i \in 0 .. PeerCount
        /\ piece_index \in 0 .. PieceCount
        /\ piece_size \in PieceSizes
        /\ bytes_received \in 0 .. FirstPieceSize
        /\ requested_begin \in 0 .. FirstPieceSize
        /\ requested_length \in 0 .. BlockSize
    BY FirstPieceSizeBound, SizeIsNat DEF Init, NothingRequested
  <2>4. /\ have_bitfield \in BOOLEAN
        /\ peer_choking_us \in BOOLEAN
        /\ we_are_interested \in BOOLEAN
        /\ request_pending \in BOOLEAN
        /\ download_complete \in BOOLEAN
        /\ pc = "next_peer"
    BY Zenon DEF Init, NoConnection, NothingRequested
  <2> QED
    BY <2>1, <2>2, <2>3, <2>4 DEF TypeOK
<1>2. Disconnected /\ CurrentPeer /\ Completion /\ Overrun /\ Counted /\ RequestWindow
  BY FirstPieceSizeBound
  DEF Init, Disconnected, CurrentPeer, Completion, Overrun, Counted, RequestWindow,
      NothingRequested
<1>3. Sized
  BY FirstPieceSizeBound, LastPiece DEF Init, Sized, PieceStart
<1>4. NoStaleBytes /\ FileGenuine
  BY DEF Init, NothingRequested, NoStaleBytes, FileGenuine
<1>5. VerifiedPrefix
  BY DEF Init, VerifiedPrefix, BytesBefore, PieceStart, Positions
<1> QED
  BY <1>1, <1>2, <1>3, <1>4, <1>5 DEF Inv

\* Steps that leave the piece and the file alone, and settle or forget the
\* request.
LEMMA InvQuiet ==
  ASSUME Inv,
         UNCHANGED <<pieceVars, outVars>>,
         UNCHANGED requestVars \/ ResetPieceState,
         i' \in 0 .. PeerCount,
         have_bitfield' \in BOOLEAN,
         bitfield' \in SUBSET Pieces,
         peer_choking_us' \in BOOLEAN,
         we_are_interested' \in BOOLEAN,
         pc' \in {"next_peer", "handshake", "receive", "check", "serve", "drop", "exit",
                  "overrun"},
         pc' = "overrun" => ~LengthFits /\ piece_index = PieceCount - 1,
         Disconnected',
         CurrentPeer',
         download_complete => pc' \in {"drop", "next_peer", "exit"},
         pc' = "serve" => bytes_received' < piece_size \/ piece_size = 0
  PROVE  Inv'
<1> USE DEF Inv, pieceVars, outVars, requestVars, ResetPieceState
<1>1. TypeOK'
  <2>1. /\ bytes_received' \in 0 .. FirstPieceSize
        /\ requested_begin' \in 0 .. FirstPieceSize
        /\ requested_length' \in 0 .. BlockSize
    BY FirstPieceSizeBound DEF TypeOK
  <2>2. request_pending' \in BOOLEAN
    BY Zenon DEF TypeOK
  <2> QED
    BY <2>1, <2>2 DEF TypeOK
<1>2. (Completion /\ Sized /\ Overrun /\ FileGenuine /\ VerifiedPrefix)'
  BY DEF Completion, Sized, Overrun, FileGenuine, VerifiedPrefix
<1>3. (Counted /\ RequestWindow)'
  BY SizeIsNat DEF Counted, RequestWindow, TypeOK
<1>4. NoStaleBytes'
  BY DEF NoStaleBytes
<1> QED
  BY <1>1, <1>2, <1>3, <1>4

\* What storing a verified piece, or the first bytes of it, does to the file.
LEMMA WrittenPiece ==
  ASSUME Inv, ReadyToStore, NEW size \in 0 .. piece_size, WritePiece(size)
  PROVE  /\ piece_index \in Pieces
         /\ file' = [p \in Positions |->
                      IF p \in PieceStart(piece_index) .. PieceStart(piece_index) + size - 1
                      THEN p ELSE file[p]]
         /\ file' \in [Positions -> Bytes]
         /\ FileGenuine'
<1>1. piece_index \in Pieces
  BY DEF Inv, ReadyToStore, Completion, TypeOK, Pieces
<1>2. FileOffset = PieceStart(piece_index)
  BY <1>1, NoWrap DEF ReadyToStore, OffsetUnrepresentable, FileOffset, PieceStart, Pieces
<1>3. PieceStart(piece_index) \in Int
  BY <1>1, PieceStartType DEF Pieces
<1>4. ASSUME NEW p \in Positions,
             p \in FileOffset .. FileOffset + size - 1
      PROVE  piece_buffer[p - FileOffset] = p
  <2>1. p - FileOffset \in 0 .. piece_size - 1
    BY <1>2, <1>3, <1>4, SizeIsNat, PositionIsNat DEF Inv, TypeOK
  <2>2. piece_buffer[p - FileOffset] = PieceStart(piece_index) + (p - FileOffset)
    BY <2>1 DEF ReadyToStore, HashMatches
  <2> QED
    BY <2>2, <1>2, <1>3, PositionIsNat
<1>5. file' = [p \in Positions |->
                 IF p \in PieceStart(piece_index) .. PieceStart(piece_index) + size - 1
                 THEN p ELSE file[p]]
  BY <1>2, <1>4 DEF WritePiece
<1>6. file' \in [Positions -> Bytes]
  BY <1>5 DEF Inv, TypeOK, Bytes
<1>7. FileGenuine'
  BY <1>5 DEF Inv, FileGenuine
<1> QED
  BY <1>1, <1>5, <1>6, <1>7

\* The bytes a stored piece adds to those before it are the piece.
LEMMA BytesAdded ==
  ASSUME TypeOK, Sized, piece_index \in Pieces,
         NEW p \in BytesBefore(piece_index + 1), p < Length, p >= PieceStart(piece_index)
  PROVE  p < PieceStart(piece_index) + piece_size
<1>1. /\ PieceStart(piece_index) \in Nat /\ piece_size \in Nat /\ p \in Nat
      /\ PieceStart(piece_index + 1) = PieceStart(piece_index) + PieceLength
      /\ p < PieceStart(piece_index + 1) \/ piece_index + 1 = PieceCount
  BY PieceStartType, PieceStartStep, SizeIsNat, PositionIsNat DEF Pieces, TypeOK, BytesBefore
<1>2. CASE piece_index < PieceCount - 1
  <2>1. piece_index + 1 # PieceCount /\ piece_size = PieceLength
    BY <1>2 DEF Sized, Pieces
  <2> QED
    BY <2>1, <1>1
<1>3. CASE piece_index = PieceCount - 1
  <2>1. WellFormed
    BY <1>3, <1>1 DEF WellFormed
  <2>2. PieceStart(piece_index) + piece_size = Length
    BY <2>1, <1>3, <1>1 DEF Sized
  <2> QED
    BY <2>2
<1> QED
  BY <1>2, <1>3 DEF Pieces

\* A stored piece extends the verified prefix by exactly that piece.
LEMMA InvStore ==
  ASSUME Inv, StorePiece
  PROVE  Inv'
<1> USE DEF Inv
<1>1. piece_size \in 0 .. piece_size /\ piece_size \in Nat
  BY SizeIsNat DEF TypeOK
<1>2. ReadyToStore /\ WritePiece(piece_size)
  BY DEF StorePiece
<1>3. /\ piece_index \in Pieces
      /\ file' = [p \in Positions |->
                   IF p \in PieceStart(piece_index) .. PieceStart(piece_index) + piece_size - 1
                   THEN p ELSE file[p]]
      /\ file' \in [Positions -> Bytes]
      /\ FileGenuine'
  BY <1>1, <1>2, WrittenPiece
<1>4. /\ piece_index' = piece_index + 1
      /\ PieceStart(piece_index) \in Nat
      /\ PieceStart(piece_index') = PieceStart(piece_index) + PieceLength
  BY <1>3, PieceStartType, PieceStartStep DEF StorePiece, Pieces
<1>5. download_complete = FALSE
  BY <1>2 DEF ReadyToStore, Completion, TypeOK
<1>6. Sized' /\ piece_size' \in PieceSizes
  <2>1. CASE FinishDownload
    BY <2>1, <1>3, <1>4 DEF FinishDownload, Sized, Pieces, TypeOK
  <2>2. CASE RefuseLayout
    BY <2>2, <1>3, <1>4, LastPiece DEF RefuseLayout, LastPieceNext, Sized, Pieces, TypeOK
  <2>3. CASE SizeLastPiece
    BY <2>3, <1>3, <1>4, LastPiece
    DEF SizeLastPiece, LastPieceNext, Sized, Pieces, TypeOK, PieceSizes
  <2>4. CASE KeepPieceSize
    BY <2>4, <1>3, <1>4 DEF KeepPieceSize, Sized, Pieces, TypeOK
  <2> QED
    BY <2>1, <2>2, <2>3, <2>4 DEF StorePiece
<1>7. /\ pc' \in {"drop", "serve"}
      /\ piece_index' = PieceCount => pc' = "drop" /\ download_complete' = TRUE
      /\ piece_index' # PieceCount => download_complete' = FALSE
  <2>1. CASE FinishDownload
    BY <2>1, <1>3, <1>4 DEF FinishDownload, Goto, Pieces
  <2>2. CASE RefuseLayout
    BY <2>2, <1>3, <1>4, <1>5 DEF RefuseLayout, LastPieceNext, Goto, Pieces
  <2>3. CASE SizeLastPiece
    BY <2>3, <1>3, <1>4, <1>5 DEF SizeLastPiece, LastPieceNext, Goto, Pieces
  <2>4. CASE KeepPieceSize
    BY <2>4, <1>3, <1>4, <1>5 DEF KeepPieceSize, Goto, Pieces
  <2> QED
    BY <2>1, <2>2, <2>3, <2>4 DEF StorePiece
<1>11. Completion' /\ Disconnected' /\ Overrun' /\ download_complete' \in BOOLEAN
  BY <1>7, Zenon DEF Completion, Disconnected, Overrun
<1>12. CurrentPeer'
  BY <1>2 DEF StorePiece, ReadyToStore, CurrentPeer
<1>8. TypeOK'
  <2>1. /\ bytes_received' \in 0 .. FirstPieceSize
        /\ requested_begin' \in 0 .. FirstPieceSize
        /\ requested_length' \in 0 .. BlockSize
    BY FirstPieceSizeBound DEF StorePiece, ResetPieceState
  <2>2. piece_index' \in 0 .. PieceCount
    BY <1>3, <1>4 DEF Pieces
  <2>4. request_pending' \in BOOLEAN
    BY Zenon DEF StorePiece, ResetPieceState
  <2>3. UNCHANGED <<i, have_bitfield, bitfield, peer_choking_us, we_are_interested, piece_buffer>>
    BY DEF StorePiece, connVars
  <2> QED
    BY <2>1, <2>2, <2>3, <2>4, <1>3, <1>6, <1>7, <1>11 DEF TypeOK
<1>9. Counted' /\ RequestWindow' /\ NoStaleBytes'
  <2>1. piece_size' \in Nat
    BY <1>6, SizeIsNat
  <2> QED
    BY <2>1 DEF StorePiece, ResetPieceState, Counted, RequestWindow, NoStaleBytes
<1>10. VerifiedPrefix'
  <2> SUFFICES ASSUME NEW p \in BytesBefore(piece_index + 1), p < Length
               PROVE  file'[p] = p
    BY <1>4 DEF VerifiedPrefix
  <2>3. p \in Positions /\ p \in Nat
    BY PositionIsNat DEF BytesBefore
  <2>1. CASE p < PieceStart(piece_index)
    BY <2>1, <2>3, <1>3 DEF VerifiedPrefix, BytesBefore
  <2>2. CASE p >= PieceStart(piece_index)
    <3>1. p < PieceStart(piece_index) + piece_size
      BY <2>2, <1>3, BytesAdded
    <3> QED
      BY <3>1, <2>2, <2>3, <1>1, <1>3, <1>4
  <2> QED
    BY <2>1, <2>2, <2>3, <1>4
<1> QED
  BY <1>3, <1>6, <1>8, <1>9, <1>10, <1>11, <1>12

\* A write that fails leaves verified bytes of the next piece, or nothing.
LEMMA InvWriteFails ==
  ASSUME Inv, NEW written \in 0 .. FirstPieceSize, WriteFails(written)
  PROVE  Inv'
<1> USE DEF Inv
<1>1. written \in 0 .. piece_size
  BY FirstPieceSizeBound, SizeIsNat DEF WriteFails, TypeOK
<1>2. ReadyToStore /\ WritePiece(written)
  BY DEF WriteFails
<1>3. /\ piece_index \in Pieces
      /\ file' = [p \in Positions |->
                   IF p \in PieceStart(piece_index) .. PieceStart(piece_index) + written - 1
                   THEN p ELSE file[p]]
      /\ file' \in [Positions -> Bytes]
      /\ FileGenuine'
  BY <1>1, <1>2, WrittenPiece
<1>4. /\ UNCHANGED <<i, have_bitfield, bitfield, peer_choking_us, we_are_interested>>
      /\ UNCHANGED <<piece_index, piece_size, piece_buffer>>
      /\ UNCHANGED <<bytes_received, request_pending, requested_begin, requested_length>>
      /\ UNCHANGED download_complete
      /\ pc' = "drop"
  BY DEF WriteFails, connVars, pieceVars, requestVars, Goto
<1>5. TypeOK'
  BY <1>3, <1>4 DEF TypeOK
<1>6. Disconnected' /\ CurrentPeer' /\ Completion' /\ Sized' /\ Overrun' /\ NoStaleBytes'
  BY <1>2, <1>4
  DEF ReadyToStore, Disconnected, CurrentPeer, Completion, Sized, Overrun, NoStaleBytes
<1>7. Counted' /\ RequestWindow'
  BY <1>4 DEF Counted, RequestWindow
<1>8. VerifiedPrefix'
  BY <1>3, <1>4 DEF VerifiedPrefix, BytesBefore
<1> QED
  BY <1>3, <1>5, <1>6, <1>7, <1>8

\* An accepted block extends the counted bytes of the current piece.
LEMMA InvReceivePiece ==
  ASSUME Inv,
         NEW index \in 0 .. PieceCount, NEW begin \in 0 .. FirstPieceSize,
         NEW length \in 0 .. BlockSize, NEW genuine \in BOOLEAN,
         ReceivePiece(index, begin, length, genuine)
  PROVE  Inv'
<1> USE DEF Inv
<1>1. /\ UNCHANGED <<i, have_bitfield, bitfield, peer_choking_us, we_are_interested>>
      /\ UNCHANGED <<piece_index, piece_size, file, download_complete>>
      /\ UNCHANGED <<requested_begin, requested_length>>
      /\ pc = "receive" /\ pc' = "check"
      /\ request_pending' = FALSE
  BY DEF ReceivePiece, Handled, connVars, outVars, Goto
<1>2. /\ index = piece_index
      /\ begin = bytes_received
      /\ begin + length <= piece_size
      /\ begin + length <= FirstPieceSize
      /\ bytes_received' = begin + length
  BY SizeIsNat DEF ReceivePiece, IsRequested, FitsBuffer, RequestWindow, TypeOK
<1>3. piece_index \in Pieces /\ download_complete = FALSE
  <2>1. download_complete = FALSE
    BY <1>1 DEF Completion, TypeOK
  <2>2. piece_index # PieceCount
    BY <2>1, Zenon DEF Completion
  <2> QED
    BY <2>1, <2>2 DEF TypeOK, Pieces
<1>4. piece_size \in Nat /\ bytes_received' \in 0 .. FirstPieceSize
  BY <1>2, SizeIsNat DEF TypeOK
<1>5. \A j \in 0 .. begin + length - 1 :
        piece_buffer'[j] = IF j >= begin THEN BlockByte(index, j, genuine)
                                         ELSE piece_buffer[j]
  BY <1>2, <1>4, FirstPieceSizeBound DEF ReceivePiece, BufferIndexes
<1>6. ASSUME NEW j \in BufferIndexes
      PROVE  BlockByte(index, j, genuine) \in Bytes
  <2>1. ASSUME PieceCount = 1
        PROVE  PieceStart(piece_index) + j \in Positions
    BY <2>1, <1>3, FirstPieceSizeBound DEF BufferIndexes, Positions, Pieces, PieceStart
  <2>2. ASSUME PieceCount > 1
        PROVE  PieceStart(piece_index) + j \in Positions
    <3>1. PieceStart(piece_index) \in Nat
          /\ PieceStart(piece_index) + PieceLength <= PieceCount * PieceLength
      <4>1. PieceStart(piece_index + 1) <= PieceStart(PieceCount)
        BY <1>3, PieceStartMonotone DEF Pieces
      <4> QED
        BY <4>1, <1>3, PieceStartStep, PieceStartType DEF PieceStart, Pieces
    <3> QED
      BY <3>1, <2>2, FirstPieceSizeBound DEF BufferIndexes, Positions
  <2> QED
    BY <2>1, <2>2, <1>2 DEF BlockByte, Bytes
<1>7. piece_buffer' \in [BufferIndexes -> Bytes]
  <2> SUFFICES ASSUME NEW j \in BufferIndexes,
                      j \in begin .. begin + length - 1
               PROVE  BlockByte(index, j, genuine) \in Bytes
    BY DEF ReceivePiece, TypeOK
  <2> QED
    BY <1>6
<1>8. TypeOK'
  BY <1>1, <1>4, <1>7 DEF TypeOK
<1>9. /\ Disconnected' /\ CurrentPeer' /\ Completion'
      /\ Sized' /\ Overrun' /\ FileGenuine' /\ VerifiedPrefix'
  BY <1>1, <1>3
  DEF Disconnected, CurrentPeer, Completion, Sized, Overrun, FileGenuine, VerifiedPrefix
<1>10. Counted' /\ RequestWindow'
  BY <1>1, <1>2 DEF Counted, RequestWindow
<1>11. NoStaleBytes'
  <2> SUFFICES ASSUME NEW j \in 0 .. begin + length - 1
               PROVE  piece_buffer'[j] \in {PieceStart(piece_index) + j, Corrupt}
    BY <1>1, <1>2 DEF NoStaleBytes
  <2>1. CASE j >= begin
    BY <2>1, <1>2, <1>5 DEF BlockByte
  <2>2. CASE j < begin
    BY <2>2, <1>2, <1>5 DEF NoStaleBytes, TypeOK
  <2> QED
    BY <2>1, <2>2, <1>4 DEF TypeOK
<1> QED
  BY <1>8, <1>9, <1>10, <1>11

\* The buffer is overrun by an answer to a request, so in the last piece only.
LEMMA InvOverrunBuffer ==
  ASSUME Inv,
         NEW index \in 0 .. PieceCount, NEW begin \in 0 .. FirstPieceSize,
         NEW length \in 0 .. BlockSize, OverrunBuffer(index, begin, length)
  PROVE  Inv'
<1> USE DEF Inv
<1>1. /\ UNCHANGED <<i, connVars, pieceVars, requestVars, outVars>>
      /\ pc = "receive" /\ pc' = "overrun"
  BY DEF OverrunBuffer, Goto
<1>2. ~LengthFits /\ piece_index >= PieceCount - 1
  BY DEF OverrunBuffer, IsRequested, RequestWindow, TypeOK
<1>3. piece_index # PieceCount /\ download_complete = FALSE
  <2>1. download_complete = FALSE
    BY <1>1 DEF Completion, TypeOK
  <2> QED
    BY <2>1, Zenon DEF Completion
<1>4. piece_index = PieceCount - 1
  BY <1>2, <1>3 DEF TypeOK
<1>5. Disconnected' /\ CurrentPeer'
  BY <1>1 DEF Disconnected, CurrentPeer
<1> QED
  BY <1>1, <1>2, <1>3, <1>4, <1>5, InvQuiet DEF TypeOK, connVars

\* A request is made for the bytes that come next, of which there are some.
LEMMA InvSendRequest ==
  ASSUME Inv, SendRequest
  PROVE  Inv'
<1> USE DEF Inv
<1>1. /\ UNCHANGED <<i, have_bitfield, bitfield, peer_choking_us, we_are_interested>>
      /\ UNCHANGED <<piece_index, piece_size, piece_buffer>>
      /\ UNCHANGED <<file, download_complete, bytes_received>>
      /\ pc = "serve" /\ pc' = "receive"
  BY DEF SendRequest, Serving, pieceVars, outVars, Goto
<1>2. request_pending' = TRUE /\ requested_begin' = bytes_received
      /\ requested_length' = RequestLength
  BY DEF SendRequest
<1>3. /\ bytes_received \in Nat /\ piece_size \in Nat
      /\ bytes_received <= piece_size
      /\ bytes_received < piece_size \/ piece_size = 0
  BY <1>1, SizeIsNat DEF Counted, TypeOK
<1>4. /\ RequestLength \in 0 .. BlockSize
      /\ RequestLength > 0 \/ piece_size = 0
      /\ bytes_received + RequestLength <= piece_size
  BY <1>3 DEF RequestLength
<1>5. TypeOK'
  BY <1>1, <1>2, <1>4 DEF TypeOK
<1>6. Disconnected' /\ Sized' /\ Overrun' /\ NoStaleBytes' /\ FileGenuine' /\ VerifiedPrefix'
  BY <1>1 DEF Disconnected, Sized, Overrun, NoStaleBytes, FileGenuine, VerifiedPrefix
<1>7. Completion' /\ CurrentPeer'
  BY <1>1 DEF Completion, CurrentPeer
<1>8. Counted' /\ RequestWindow'
  <2>1. piece_index < PieceCount
    BY DEF SendRequest, MayRequest, Interested, CanServe
  <2>2. LengthFits \/ piece_index < PieceCount - 1 =>
          bytes_received + RequestLength <= FirstPieceSize
    BY <2>1, <1>3, <1>4, SizeFits, FirstPieceSizeBound
  <2> QED
    BY <2>2, <1>1, <1>2, <1>3, <1>4 DEF Counted, RequestWindow, FitsBuffer
<1> QED
  BY <1>5, <1>6, <1>7, <1>8

\* Every step keeps Inv.
LEMMA InvNext == Inv /\ [Next]_vars => Inv'
<1> SUFFICES ASSUME Inv, [Next]_vars PROVE Inv'
  OBVIOUS
<1> USE DEF connVars, pieceVars, requestVars, outVars, Goto
<1>1. TypeOK /\ Disconnected /\ CurrentPeer /\ Completion /\ Overrun /\ Counted
  BY DEF Inv
<1>2. CASE UNCHANGED vars
  <2>1. Disconnected' /\ CurrentPeer'
    BY <1>1, <1>2 DEF vars, Disconnected, CurrentPeer, NothingRequested
  <2> QED
    BY <2>1, <1>1, <1>2, InvQuiet DEF vars, TypeOK, Completion, Overrun, Counted
<1>3. CASE LeaveLoop
  <2>1. Disconnected' /\ CurrentPeer'
    BY <1>3 DEF LeaveLoop, Disconnected, CurrentPeer
  <2> QED
    BY <2>1, <1>1, <1>3, InvQuiet DEF LeaveLoop, TypeOK
<1>4. CASE ConnectFails
  <2>1. Disconnected' /\ CurrentPeer' /\ i' \in 0 .. PeerCount
    BY <1>1, <1>4 DEF ConnectFails, TryPeer, ResetPieceState, Disconnected,
                      CurrentPeer, NothingRequested, TypeOK
  <2> QED
    BY <2>1, <1>1, <1>4, InvQuiet DEF ConnectFails, TryPeer, TypeOK
<1>5. CASE ConnectSucceeds
  <2>1. Disconnected' /\ CurrentPeer'
    BY <1>1, <1>5 DEF ConnectSucceeds, TryPeer, Disconnected, CurrentPeer,
                      NothingRequested, TypeOK
  <2> QED
    BY <2>1, <1>1, <1>5, InvQuiet DEF ConnectSucceeds, TryPeer, TypeOK
<1>6. CASE HandshakeFails
  <2>1. Disconnected' /\ CurrentPeer' /\ i' \in 0 .. PeerCount
    BY <1>1, <1>6 DEF HandshakeFails, ResetPieceState, Disconnected, CurrentPeer,
                      NothingRequested, TypeOK
  <2> QED
    BY <2>1, <1>1, <1>6, InvQuiet DEF HandshakeFails, TypeOK
<1>7. CASE HandshakeSucceeds
  <2>1. Disconnected' /\ CurrentPeer'
    BY <1>1, <1>7 DEF HandshakeSucceeds, Disconnected, CurrentPeer
  <2> QED
    BY <2>1, <1>1, <1>7, InvQuiet DEF HandshakeSucceeds, Completion, TypeOK
<1>8. CASE DropPeer
  <2>1. Disconnected' /\ CurrentPeer' /\ i' \in 0 .. PeerCount
    BY <1>1, <1>8 DEF DropPeer, ResetPieceState, Disconnected, CurrentPeer,
                      NothingRequested, TypeOK
  <2> QED
    BY <2>1, <1>1, <1>8, InvQuiet DEF DropPeer, TypeOK
<1>9. CASE Receive
  <2>1. ASSUME Refused PROVE Inv'
    <3>1. Disconnected' /\ CurrentPeer'
      BY <2>1, <1>1 DEF Refused, Disconnected, CurrentPeer
    <3> QED
      BY <3>1, <2>1, <1>1, InvQuiet DEF Refused, TypeOK
  <2>2. ASSUME Handled, UNCHANGED piece_buffer, UNCHANGED requestVars,
               have_bitfield' \in BOOLEAN, bitfield' \in SUBSET Pieces,
               peer_choking_us' \in BOOLEAN, we_are_interested' \in BOOLEAN
        PROVE  Inv'
    <3>1. Disconnected' /\ CurrentPeer' /\ i' \in 0 .. PeerCount
      BY <2>2, <1>1 DEF Handled, Disconnected, CurrentPeer, TypeOK
    <3>2. download_complete = FALSE
      BY <2>2, <1>1 DEF Handled, Completion, TypeOK
    <3> QED
      BY <3>1, <3>2, <2>2, InvQuiet DEF Handled
  <2>3. CASE ReceiveFails \/ ReceiveIgnored \/ ReceiveChoke \/ ReceiveUnchoke
    BY <2>1, <2>2, <2>3, <1>1
    DEF ReceiveFails, ReceiveIgnored, ReceiveChoke, ReceiveUnchoke, TypeOK
  <2>4. CASE \E k \in 0 .. PieceCount : ReceiveHave(k) \/ RejectHave(k)
    <3> PICK k \in 0 .. PieceCount : ReceiveHave(k) \/ RejectHave(k)
      BY <2>4
    <3>1. CASE ReceiveHave(k)
      <4>1. bitfield' \in SUBSET Pieces
        BY <3>1, <1>1 DEF ReceiveHave, TypeOK, Pieces
      <4> QED
        BY <4>1, <3>1, <2>2, <1>1 DEF ReceiveHave, TypeOK
    <3>2. CASE RejectHave(k)
      BY <3>2, <2>1 DEF RejectHave
    <3> QED
      BY <3>1, <3>2
  <2>5. CASE \E bits \in SUBSET Pieces : ReceiveBitfield(bits)
    BY <2>5, <2>2, <1>1 DEF ReceiveBitfield, TypeOK
  <2>6. CASE \E wellFormed \in BOOLEAN : RejectBitfield(wellFormed)
    BY <2>6, <2>1 DEF RejectBitfield
  <2>7. CASE \E index \in 0 .. PieceCount, begin \in 0 .. FirstPieceSize,
                length \in 0 .. BlockSize :
               \/ \E genuine \in BOOLEAN : AcceptPiece(index, begin, length, genuine)
               \/ RejectPiece(index, begin, length)
    <3> PICK index \in 0 .. PieceCount, begin \in 0 .. FirstPieceSize,
             length \in 0 .. BlockSize :
               \/ \E genuine \in BOOLEAN : AcceptPiece(index, begin, length, genuine)
               \/ RejectPiece(index, begin, length)
      BY <2>7
    <3>1. CASE \E genuine \in BOOLEAN : AcceptPiece(index, begin, length, genuine)
      BY <3>1, InvReceivePiece, InvOverrunBuffer DEF AcceptPiece
    <3>2. CASE RejectPiece(index, begin, length)
      BY <3>2, <2>1 DEF RejectPiece
    <3> QED
      BY <3>1, <3>2
  <2> QED
    BY <1>9, <2>3, <2>4, <2>5, <2>6, <2>7 DEF Receive
<1>10. CASE Check
  <2>1. CASE PieceNotReceived
    <3>1. Disconnected' /\ CurrentPeer'
      BY <2>1, <1>1 DEF PieceNotReceived, Disconnected, CurrentPeer
    <3>2. download_complete = FALSE
      BY <2>1, <1>1 DEF PieceNotReceived, Completion, TypeOK
    <3>3. bytes_received' < piece_size
      BY <2>1, <1>1, SizeIsNat DEF PieceNotReceived, PieceReceived, Counted, TypeOK
    <3> QED
      BY <3>1, <3>2, <3>3, <2>1, <1>1, InvQuiet DEF PieceNotReceived, TypeOK
  <2>2. CASE HashMismatch \/ RefuseOffset
    <3>1. Disconnected' /\ CurrentPeer'
      BY <2>2, <1>1 DEF HashMismatch, RefuseOffset, Disconnected, CurrentPeer
    <3> QED
      BY <3>1, <2>2, <1>1, InvQuiet DEF HashMismatch, RefuseOffset, TypeOK
  <2>3. CASE \E written \in 0 .. FirstPieceSize : WriteFails(written)
    BY <2>3, InvWriteFails
  <2>4. CASE StorePiece
    BY <2>4, InvStore
  <2> QED
    BY <1>10, <2>1, <2>2, <2>3, <2>4 DEF Check
<1>11. CASE Serve
  <2>1. ASSUME Serving("receive") \/ Serving("serve") \/ Serving("drop"),
               UNCHANGED requestVars, we_are_interested' \in BOOLEAN
        PROVE  Inv'
    <3>1. pc = "serve" /\ Disconnected' /\ CurrentPeer'
      BY <2>1, <1>1 DEF Serving, Disconnected, CurrentPeer
    <3>2. download_complete = FALSE
      BY <3>1, <1>1 DEF Completion, TypeOK
    <3>3. bytes_received' < piece_size \/ piece_size = 0
      BY <3>1, <2>1, <1>1 DEF Counted
    <3> QED
      BY <3>1, <3>2, <3>3, <2>1, <1>1, InvQuiet DEF Serving, TypeOK
  <2>2. CASE NothingAnnounced \/ PeerUnusable \/ SendInterestedFails \/ NothingToRequest
    BY <2>1, <2>2, <1>1
    DEF NothingAnnounced, PeerUnusable, SendInterestedFails, NothingToRequest, TypeOK
  <2>3. CASE RequestNotSent
    BY <2>1, <2>3, <1>1 DEF RequestNotSent, TypeOK
  <2>4. CASE SendInterested
    BY <2>1, <2>4 DEF SendInterested
  <2>5. CASE SendRequest
    BY <2>5, InvSendRequest
  <2> QED
    BY <1>11, <2>2, <2>3, <2>4, <2>5 DEF Serve
<1> QED
  BY <1>2, <1>3, <1>4, <1>5, <1>6, <1>7, <1>8, <1>9, <1>10, <1>11 DEF Next, Connect

(***************************************************************************)
(* Invariance: at every place of the loop, for every torrent and every     *)
(* behaviour of peers, network and disk, the piece, its size, the bytes    *)
(* counted, the request and the file agree as Inv says.                    *)
(***************************************************************************)
THEOREM Invariance == Spec => []Inv
BY InvInit, InvNext, PTL DEF Spec

(***************************************************************************)
(* TypeCorrect: the types of the program's variables, the index always     *)
(* inside the torrent and the bytes counted inside the buffer, whatever    *)
(* length the torrent declares.                                            *)
(***************************************************************************)
THEOREM TypeCorrect == Spec => []TypeOK
BY Invariance, PTL DEF Inv

(***************************************************************************)
(* OnlyVerifiedBytes: the output file only ever holds the torrent's bytes, *)
(* each at its own place, and everything before piece_index is in it.      *)
(***************************************************************************)
THEOREM OnlyVerifiedBytes == Spec => [](FileGenuine /\ VerifiedPrefix)
BY Invariance, PTL DEF Inv

(***************************************************************************)
(* RequestsInWindow: requests are made inside the piece, inside the buffer *)
(* too unless it is the last piece of a torrent that declares more bytes   *)
(* than its pieces hold, and only bytes sent for the current piece are     *)
(* counted.                                                                *)
(***************************************************************************)
THEOREM RequestsInWindow == Spec => [](RequestWindow /\ NoStaleBytes)
BY Invariance, PTL DEF Inv

(***************************************************************************)
(* CopiesFit: in every torrent whose declared length fits its pieces, no   *)
(* copy of an answer leaves the buffer (main.c:269,                        *)
(* peer_connection.c:752-758).  The hypothesis is about the torrent: no    *)
(* line of the program establishes it.                                     *)
(***************************************************************************)
THEOREM CopiesFit == LengthFits => (Spec => [](pc # "overrun"))
<1> SUFFICES ASSUME LengthFits PROVE Spec => [](pc # "overrun")
  OBVIOUS
<1>1. Inv => pc # "overrun"
  BY DEF Inv, Overrun
<1> QED
  BY <1>1, Invariance, PTL

(***************************************************************************)
(* SizesRight: the pieces cut the declared length without gap or overlap,  *)
(* in every torrent whose last piece starts inside it, also when the last  *)
(* piece is larger than the others.                                        *)
(***************************************************************************)
THEOREM SizesRight == Spec => []PieceSizeRight
<1>1. Inv => PieceSizeRight
  <2> SUFFICES ASSUME Inv, WellFormed, piece_index < PieceCount
               PROVE  PieceStart(piece_index) + piece_size =
                        IF piece_index = PieceCount - 1 THEN Length
                                                        ELSE PieceStart(piece_index + 1)
    BY DEF PieceSizeRight
  <2>1. /\ piece_index \in Pieces
        /\ PieceStart(piece_index) \in Int
        /\ PieceStart(piece_index + 1) = PieceStart(piece_index) + PieceLength
    BY PieceStartType, PieceStartStep DEF Inv, TypeOK, Pieces
  <2>2. CASE piece_index = PieceCount - 1
    BY <2>1, <2>2, LastPiece DEF Inv, Sized
  <2>3. CASE piece_index < PieceCount - 1
    BY <2>1, <2>3 DEF Inv, Sized
  <2> QED
    BY <2>1, <2>2, <2>3 DEF Pieces
<1> QED
  BY <1>1, Invariance, PTL

(***************************************************************************)
(* CountedOnce: bytes are counted only by the step that settles the one    *)
(* pending request, and by as many as it asked for.                        *)
(***************************************************************************)
THEOREM CountedOnce == Spec => BlockCountedOnce
<1> DEFINE Once == bytes_received' > bytes_received =>
                     /\ request_pending /\ ~request_pending'
                     /\ bytes_received' = requested_begin + requested_length
<1>1. Inv /\ [Next]_vars => [Once]_vars
  <2> SUFFICES ASSUME Inv, Next, bytes_received' > bytes_received
               PROVE  /\ request_pending /\ ~request_pending'
                      /\ bytes_received' = requested_begin + requested_length
    OBVIOUS
  <2>1. bytes_received \in Nat /\ bytes_received' # bytes_received
        /\ bytes_received' # 0
    BY FirstPieceSizeBound DEF Inv, TypeOK
  <2>2. PICK index \in 0 .. PieceCount, begin \in 0 .. FirstPieceSize,
             length \in 0 .. BlockSize, genuine \in BOOLEAN :
               ReceivePiece(index, begin, length, genuine)
    <3>1. ~(LeaveLoop \/ Connect \/ DropPeer \/ Check \/ Serve)
      BY <2>1 DEF LeaveLoop, Connect, ConnectFails, ConnectSucceeds, HandshakeFails,
           HandshakeSucceeds, DropPeer, ResetPieceState, requestVars, Check,
           PieceNotReceived, HashMismatch, RefuseOffset, WriteFails, StorePiece,
           Serve, NothingAnnounced, PeerUnusable, SendInterested, SendInterestedFails,
           NothingToRequest, SendRequest, RequestNotSent
    <3> QED
      BY <3>1, <2>1 DEF Next, Receive, Refused, requestVars, ReceiveFails, ReceiveIgnored,
           ReceiveChoke, ReceiveUnchoke, ReceiveHave, RejectHave, ReceiveBitfield,
           RejectBitfield, RejectPiece, AcceptPiece, OverrunBuffer
  <2>3. /\ request_pending = TRUE /\ request_pending' = FALSE
        /\ length = requested_length
        /\ bytes_received' = bytes_received + length
    BY <2>2 DEF ReceivePiece, IsRequested, Inv, TypeOK
  <2>4. requested_begin = bytes_received
    BY <2>3 DEF Inv, RequestWindow
  <2> QED
    BY <2>3, <2>4
<1> QED
  BY <1>1, Invariance, PTL DEF Spec, BlockCountedOnce

-----------------------------------------------------------------------------
(* The loop implements VerifiedDownload.                                   *)

Outcome == IF pc # "exit" THEN "running"
           ELSE IF download_complete THEN "complete" ELSE "failed"

\* Both specifications lay the file out in the same way.
LEMMA SameLayout ==
  /\ Abstract!Positions = Positions
  /\ Abstract!FirstPieceSize = FirstPieceSize
  /\ \A k \in Int : Abstract!PieceStart(k) = PieceStart(k)
BY DEF Abstract!Positions, Positions, Abstract!FirstPieceSize, FirstPieceSize,
       Abstract!PieceStart, PieceStart

\* The loop starts as the abstract download does.
LEMMA ImplementsInit == Init => Abstract!Init
BY SameLayout DEF Init, Abstract!Init

\* Every step of the loop stores the next piece or part of it, ends the
\* download, or is not seen by the user at all.
LEMMA ImplementsNext == Inv /\ [Next]_vars => [Abstract!Next]_(Abstract!avars)
<1> SUFFICES ASSUME Inv, [Next]_vars
             PROVE  Abstract!Next \/ UNCHANGED <<file, piece_index, Outcome>>
  BY DEF Abstract!avars, Outcome
<1>1. ASSUME UNCHANGED <<file, piece_index>>, pc # "exit", pc' # "exit"
      PROVE  UNCHANGED <<file, piece_index, Outcome>>
  BY <1>1 DEF Outcome
<1>2. CASE UNCHANGED vars
  BY <1>2 DEF vars, pieceVars, outVars, Outcome
<1>3. CASE LeaveLoop
  <2>1. /\ Outcome = "running"
        /\ UNCHANGED <<file, piece_index, download_complete>>
        /\ pc' = "exit"
    BY <1>3 DEF LeaveLoop, Outcome, pieceVars, outVars, Goto
  <2>2. Outcome' = IF piece_index = PieceCount THEN "complete" ELSE "failed"
    <3>1. Outcome' = IF download_complete THEN "complete" ELSE "failed"
      BY <2>1 DEF Outcome
    <3> QED
      BY <3>1, Zenon DEF Inv, Completion
  <2>3. Abstract!Finish
    BY <2>1, <2>2 DEF Abstract!Finish, Outcome
  <2> QED
    BY <2>3 DEF Abstract!Next
<1>4. CASE Connect \/ DropPeer
  BY <1>1, <1>4
  DEF Connect, ConnectFails, ConnectSucceeds, HandshakeFails, HandshakeSucceeds,
      TryPeer, DropPeer, pieceVars, outVars, Goto
<1>5. CASE Receive
  BY <1>1, <1>5
  DEF Receive, Handled, Refused, ReceiveFails, ReceiveIgnored, ReceiveChoke,
      ReceiveUnchoke, ReceiveHave, RejectHave, ReceiveBitfield, RejectBitfield,
      AcceptPiece, ReceivePiece, OverrunBuffer, RejectPiece, pieceVars, outVars, Goto
<1>6. CASE Serve
  BY <1>1, <1>6
  DEF Serve, Serving, NothingAnnounced, PeerUnusable, SendInterested,
      SendInterestedFails, NothingToRequest, SendRequest,
      RequestNotSent, pieceVars, outVars, Goto
<1>7. CASE PieceNotReceived \/ HashMismatch \/ RefuseOffset
  BY <1>1, <1>7 DEF PieceNotReceived, HashMismatch, RefuseOffset, pieceVars, outVars, Goto
<1>8. CASE \E written \in 0 .. FirstPieceSize : WriteFails(written)
  <2> PICK written \in 0 .. FirstPieceSize : WriteFails(written)
    BY <1>8
  <2>1. written \in 0 .. piece_size
    BY SizeIsNat DEF WriteFails, Inv, TypeOK
  <2>2. ReadyToStore /\ WritePiece(written) /\ pc' = "drop"
        /\ UNCHANGED <<piece_index, download_complete>>
    BY DEF WriteFails, pieceVars, Goto
  <2>3. Abstract!FillNext(written) /\ piece_index \in Pieces
    BY <2>1, <2>2, WrittenPiece, SameLayout DEF Abstract!FillNext, Abstract!Span, Pieces
  <2>4. Outcome = "running" /\ Outcome' = "running"
    BY <2>2 DEF ReadyToStore, Outcome
  <2>5. Abstract!StorePart
    BY <2>2, <2>3, <2>4, SameLayout DEF Abstract!StorePart, Outcome, Pieces
  <2> QED
    BY <2>5 DEF Abstract!Next
<1>9. CASE StorePiece
  <2>1. piece_size \in 0 .. piece_size /\ piece_size \in 0 .. FirstPieceSize
    <3>1. piece_size = bytes_received
      BY <1>9 DEF StorePiece, ReadyToStore, PieceReceived
    <3> QED
      BY <3>1, FirstPieceSizeBound DEF Inv, TypeOK
  <2>2. ReadyToStore /\ WritePiece(piece_size) /\ piece_index' = piece_index + 1
        /\ pc' \in {"drop", "serve"}
    BY <1>9 DEF StorePiece, FinishDownload, RefuseLayout, SizeLastPiece, KeepPieceSize, Goto
  <2>3. Abstract!FillNext(piece_size) /\ piece_index \in Pieces
    BY <2>1, <2>2, WrittenPiece, SameLayout DEF Abstract!FillNext, Abstract!Span, Pieces
  <2>4. Outcome = "running" /\ Outcome' = "running"
    BY <2>2 DEF ReadyToStore, Outcome
  <2>5. /\ piece_index < PieceCount - 1 => piece_size = PieceLength
        /\ piece_index = PieceCount - 1 => PieceStart(piece_index) + piece_size >= Length
    BY <2>3, LastPiece, PieceStartType DEF Inv, Sized, Pieces, WellFormed
  <2>6. Abstract!StoreNext
    BY <2>1, <2>2, <2>3, <2>4, <2>5, SameLayout DEF Abstract!StoreNext, Outcome, Pieces
  <2> QED
    BY <2>6 DEF Abstract!Next
<1> QED
  BY <1>2, <1>3, <1>4, <1>5, <1>6, <1>7, <1>8, <1>9 DEF Next, Check

(***************************************************************************)
(* Refinement: what the loop does to the output file, and the success or   *)
(* failure it exits with, is what VerifiedDownload promises.               *)
(***************************************************************************)
THEOREM Refinement == Spec => Implements
BY ImplementsInit, ImplementsNext, Invariance, PTL DEF Spec, Implements, Abstract!Spec
=============================================================================
