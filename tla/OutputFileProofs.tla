-------------------------- MODULE OutputFileProofs --------------------------
(***************************************************************************)
(* OutputFile's properties for every torrent and every way a stream may    *)
(* flush: the loop with its stream is still the loop of Download, and what *)
(* was counted is on the disk, in the buffer or lost by a flush.           *)
(***************************************************************************)
EXTENDS OutputFile, DownloadProofs

USE TorrentAssumption, DownloadAssumption

-----------------------------------------------------------------------------
(* The loop with the stream is the loop.                                   *)

LEMMA OutputStep == [OutputNext]_outputVars => [Next]_vars
<1>1. CASE Store
  BY <1>1 DEF Store, Next, Check
<1>2. CASE SeekFails
  <2>1. 0 \in 0 .. FirstPieceSize
    BY FirstPieceSizeBound
  <2> QED
    BY <1>2, <2>1 DEF SeekFails, Next, Check
<1>3. CASE \E written \in 0 .. FirstPieceSize : WriteIsShort(written)
  BY <1>3 DEF WriteIsShort, Next, Check
<1>4. CASE CloseStream
  BY <1>4 DEF CloseStream, Next
<1>5. CASE /\ Connect \/ DropPeer \/ Receive \/ PieceNotReceived \/ HashMismatch
              \/ RefuseOffset \/ Serve
           /\ UNCHANGED streamVars
  BY <1>5 DEF Next, Check
<1>6. CASE UNCHANGED outputVars
  BY <1>6 DEF outputVars
<1> QED
  BY <1>1, <1>2, <1>3, <1>4, <1>5, <1>6 DEF OutputNext

(***************************************************************************)
(* However the stream buffers and fails, the loop does what Download says  *)
(* (main.c:248-587): all that is proved of Download holds with the stream. *)
(***************************************************************************)
THEOREM OutputIsDownload == OutputSpec => Spec
<1>1. OutputInit => Init
  BY DEF OutputInit
<1> QED
  BY <1>1, OutputStep, PTL DEF OutputSpec, Spec

(***************************************************************************)
(* So the loop and its stream fill the file as VerifiedDownload promises,  *)
(* piece by piece, and succeed exactly when all are stored                 *)
(* (main.c:434-507 and 595-599).                                           *)
(***************************************************************************)
THEOREM OutputImplements == OutputSpec => Implements
BY OutputIsDownload, Refinement, PTL

-----------------------------------------------------------------------------
(* What a flush does.                                                      *)

LEMMA FlushedPart ==
  ASSUME NEW bytes, NEW out \in Flushable(bytes)
  PROVE  out \subseteq bytes
BY DEF Flushable

LEMMA KeptPart ==
  ASSUME NEW rest, NEW kept \in Kept(rest)
  PROVE  kept \subseteq rest
BY DEF Kept

\* Bytes of counted pieces are the torrent's, in the file before and after any
\* step, so a flush of them is right and any other leaves them alone.
LEMMA CountedGenuine ==
  ASSUME Inv, NEW p \in CountedBytes, p < Length
  PROVE  p \in Positions /\ file[p] = p
BY DEF CountedBytes, BytesBefore, Inv, VerifiedPrefix

LEMMA StreamInit == OutputInit => StreamInv
<1> SUFFICES ASSUME OutputInit PROVE StreamInv
  OBVIOUS
<1>1. Inv
  BY InvInit DEF OutputInit
<1>2. CountedBytes = {}
  <2>1. piece_index = 0
    BY DEF OutputInit, Init
  <2>2. PieceStart(0) = 0
    BY DEF PieceStart
  <2> QED
    BY <2>1, <2>2 DEF CountedBytes, BytesBefore, Positions
<1>3. CountedBytesKept /\ DiskGenuine /\ StreamClosed
  BY <1>2 DEF CountedBytesKept, DiskGenuine, StreamClosed, OutputInit, Init
<1> QED
  BY <1>1, <1>3 DEF StreamInv

\* The piece index and the stream stay, or the stream loses only what it says.
LEMMA KeepsCounted ==
  ASSUME StreamInv, Inv', UNCHANGED piece_index,
         \A p \in CountedBytes : p \notin lost' /\ p < Length =>
           /\ p \notin lost
           /\ \/ disk'[p] = disk[p] /\ (p \in pending => p \in pending')
              \/ disk'[p] = file[p]
  PROVE  CountedBytesKept'
<1> SUFFICES ASSUME NEW p \in CountedBytes', p \notin lost', p < Length
             PROVE  disk'[p] = p \/ (p \in pending' /\ file'[p] = p)
  BY DEF CountedBytesKept
<1>1. p \in CountedBytes
  BY DEF CountedBytes, BytesBefore
<1>2. file[p] = p /\ (disk[p] = p \/ p \in pending)
  BY <1>1, CountedGenuine DEF StreamInv, CountedBytesKept
<1>3. file'[p] = p
  BY DEF CountedBytes, BytesBefore, Inv, VerifiedPrefix
<1> QED
  BY <1>1, <1>2, <1>3

\* A flush that breaks off, with the file and the index as they were.
LEMMA KeptByFlush ==
  ASSUME StreamInv, Inv', UNCHANGED piece_index,
         NEW out \in Flushable(pending), NEW kept \in SUBSET (pending \ out),
         ToDisk(out, file), pending' = kept,
         lost' = lost \cup ((pending \ (out \cup kept)) \cap CountedBytes)
  PROVE  CountedBytesKept'
<1>1. ASSUME NEW p \in CountedBytes, p \notin lost', p < Length
      PROVE  /\ p \notin lost
             /\ \/ disk'[p] = disk[p] /\ (p \in pending => p \in pending')
                \/ disk'[p] = file[p]
  <2>1. p \in Positions /\ p \notin lost /\ (p \in pending => p \in out \cup kept)
    BY <1>1 DEF CountedBytes, BytesBefore
  <2>2. disk'[p] = IF p \in out THEN file[p] ELSE disk[p]
    BY <2>1 DEF ToDisk
  <2> QED
    BY <2>1, <2>2
<1> QED
  BY <1>1, KeepsCounted

\* fseek flushed all that was pending, then a part of the current piece is
\* written: the file's bytes at counted positions are right before and after.
LEMMA KeptBySeek ==
  ASSUME StreamInv, Inv', UNCHANGED lost,
         NEW out, ToDisk(pending \cup out, file'),
         NEW p \in CountedBytes, p \in CountedBytes', p < Length, p \notin lost'
  PROVE  disk'[p] = p
<1>1. p \in Positions /\ file'[p] = p
  BY DEF CountedBytes, BytesBefore, Inv, VerifiedPrefix
<1>2. disk[p] = p \/ p \in pending
  BY DEF StreamInv, CountedBytesKept
<1>3. disk'[p] = IF p \in pending \cup out THEN file'[p] ELSE disk[p]
  BY <1>1 DEF ToDisk
<1> QED
  BY <1>1, <1>2, <1>3

-----------------------------------------------------------------------------
(* What is on the disk is the torrent's.                                   *)

\* A right byte of the file stays right.
LEMMA FileStays ==
  ASSUME Inv, [Next]_vars, NEW p \in Positions, file[p] = p
  PROVE  file'[p] = p
<1>1. CASE UNCHANGED file
  BY <1>1
<1>2. CASE \E written \in 0 .. FirstPieceSize : WriteFails(written)
  <2> PICK written \in 0 .. FirstPieceSize : WriteFails(written)
    BY <1>2
  <2>1. ReadyToStore /\ WritePiece(written) /\ written \in 0 .. piece_size
    BY SizeIsNat, FirstPieceSizeBound DEF WriteFails, Inv, TypeOK
  <2> QED
    BY <2>1, WrittenPiece
<1>3. CASE StorePiece
  <2>1. ReadyToStore /\ WritePiece(piece_size) /\ piece_size \in 0 .. piece_size
    BY <1>3, SizeIsNat DEF StorePiece, Inv, TypeOK
  <2> QED
    BY <2>1, WrittenPiece
<1>4. UNCHANGED file \/ Check
  BY DEF Next, LeaveLoop, Connect, ConnectFails, ConnectSucceeds, HandshakeFails,
         HandshakeSucceeds, TryPeer, DropPeer, Receive, Handled, Refused, ReceiveFails,
         ReceiveIgnored, ReceiveChoke, ReceiveUnchoke, ReceiveHave, RejectHave, ReceiveBitfield,
         RejectBitfield, AcceptPiece, ReceivePiece, OverrunBuffer, RejectPiece, Serve, Serving,
         NothingAnnounced, PeerUnusable, SendInterested, SendInterestedFails, NothingToRequest,
         SendRequest, RequestNotSent, outVars, vars
<1>5. UNCHANGED file \/ StorePiece \/ \E written \in 0 .. FirstPieceSize : WriteFails(written)
  BY <1>4 DEF Check, PieceNotReceived, HashMismatch, RefuseOffset, outVars
<1> QED
  BY <1>1, <1>2, <1>3, <1>5

\* What a write hands to the stream is the torrent's.
LEMMA SpanGenuine ==
  ASSUME Inv, ReadyToStore, NEW size \in 0 .. piece_size, WritePiece(size)
  PROVE  \A p \in Positions : p \in Span(size) => file'[p] = p
<1>1. piece_index \in Pieces
  BY WrittenPiece
<1>2. FileOffset = PieceStart(piece_index)
  BY <1>1, NoWrap DEF ReadyToStore, OffsetUnrepresentable, FileOffset, PieceStart, Pieces
<1> QED
  BY <1>2, WrittenPiece DEF Span

\* Bytes that are right come to the disk, and only right bytes wait.
LEMMA DiskStays ==
  ASSUME DiskGenuine, NEW bytes, NEW contents, ToDisk(bytes, contents),
         \A p \in Positions : p \in bytes => contents[p] = p,
         \A p \in Positions : p \in pending' => file'[p] = p
  PROVE  DiskGenuine'
<1> SUFFICES ASSUME NEW p \in Positions PROVE disk'[p] \in {p, Hole}
  BY DEF DiskGenuine
<1>1. disk'[p] = IF p \in bytes THEN contents[p] ELSE disk[p]
  BY DEF ToDisk
<1> QED
  BY <1>1 DEF DiskGenuine

-----------------------------------------------------------------------------
(* The steps.                                                              *)

LEMMA StreamSeekFails ==
  ASSUME StreamInv, Inv', SeekFails
  PROVE  CountedBytesKept' /\ DiskGenuine' /\ StreamClosed'
<1>1. pc' = "drop" /\ UNCHANGED piece_index
  BY DEF SeekFails, WriteFails, Goto, pieceVars
<1>2. PICK out \in Flushable(pending) :
        \E kept \in Kept(pending \ out) :
          /\ ToDisk(out, file)
          /\ pending' = kept
          /\ lost' = lost \cup ((pending \ (out \cup kept)) \cap CountedBytes)
  BY DEF SeekFails, FlushFails
<1>3. PICK kept \in Kept(pending \ out) :
        /\ ToDisk(out, file)
        /\ pending' = kept
        /\ lost' = lost \cup ((pending \ (out \cup kept)) \cap CountedBytes)
  BY <1>2
<1>4. CountedBytesKept'
  <2>1. kept \in SUBSET (pending \ out)
    BY KeptPart
  <2> QED
    BY <2>1, <1>1, <1>3, KeptByFlush
<1>5. DiskGenuine'
  <2>1. out \subseteq pending /\ kept \subseteq pending
    BY FlushedPart, KeptPart
  <2>2. \A p \in Positions : p \in pending => file[p] = p /\ file'[p] = p
    BY FileStays, OutputStep DEF StreamInv, DiskGenuine, OutputNext
  <2> QED
    BY <2>1, <2>2, <1>3, DiskStays DEF StreamInv
<1> QED
  BY <1>1, <1>4, <1>5 DEF StreamClosed

LEMMA StreamCloses ==
  ASSUME StreamInv, Inv', CloseStream
  PROVE  CountedBytesKept' /\ DiskGenuine' /\ StreamClosed'
<1>1. pending' = {} /\ UNCHANGED piece_index
  BY DEF CloseStream, LeaveLoop, pieceVars
<1>2. PICK out \in Flushable(pending) :
        /\ ToDisk(out, file)
        /\ lost' = lost \cup ((pending \ out) \cap CountedBytes)
  BY DEF CloseStream
<1>3. CountedBytesKept'
  <2>1. {} \in SUBSET (pending \ out) /\ out \cup {} = out
    OBVIOUS
  <2> QED
    BY <2>1, <1>1, <1>2, KeptByFlush
<1>4. DiskGenuine'
  <2>1. out \subseteq pending
    BY FlushedPart
  <2> QED
    BY <2>1, <1>1, <1>2, DiskStays DEF StreamInv, DiskGenuine
<1> QED
  BY <1>1, <1>3, <1>4 DEF StreamClosed

LEMMA StreamShort ==
  ASSUME StreamInv, Inv', NEW written \in 0 .. FirstPieceSize, WriteIsShort(written)
  PROVE  CountedBytesKept' /\ DiskGenuine' /\ StreamClosed'
<1>1. pc' = "drop" /\ UNCHANGED <<piece_index, lost>> /\ CountedBytes' = CountedBytes
  BY DEF WriteIsShort, WriteFails, Goto, pieceVars, CountedBytes
<1>2. PICK out \in Flushable(Span(written)) :
        /\ ToDisk(pending \cup out, file')
        /\ pending' \in Kept(Span(written) \ out)
  BY DEF WriteIsShort
<1>3. CountedBytesKept'
  BY <1>1, <1>2, KeptBySeek DEF CountedBytesKept
<1>4. DiskGenuine'
  <2>1. out \subseteq Span(written) /\ pending' \subseteq Span(written)
    BY <1>2, FlushedPart, KeptPart
  <2>2. \A p \in Positions : p \in pending => file'[p] = p
    BY FileStays, OutputStep DEF StreamInv, DiskGenuine, OutputNext
  <2>3. ReadyToStore /\ WritePiece(written) /\ written \in 0 .. piece_size
    BY SizeIsNat, FirstPieceSizeBound DEF WriteIsShort, WriteFails, StreamInv, Inv, TypeOK
  <2>4. \A p \in Positions : p \in Span(written) => file'[p] = p
    BY <2>3, SpanGenuine DEF StreamInv
  <2>5. \A p \in Positions : (p \in pending \cup out => file'[p] = p) /\ (p \in pending' => file'[p] = p)
    BY <2>1, <2>2, <2>4
  <2> QED
    BY <2>5, <1>2, DiskStays DEF StreamInv
<1> QED
  BY <1>1, <1>3, <1>4 DEF StreamClosed

\* What becomes counted is the piece just written.
LEMMA StreamStores ==
  ASSUME StreamInv, Inv', Store
  PROVE  CountedBytesKept' /\ DiskGenuine' /\ StreamClosed'
<1>1. /\ StorePiece /\ ReadyToStore /\ pc' \in {"drop", "serve"}
      /\ piece_index' = piece_index + 1 /\ lost' = lost
  BY DEF Store, StorePiece, FinishDownload, RefuseLayout, SizeLastPiece, KeepPieceSize, Goto
<1>2. PICK out \in Flushable(Span(piece_size)) :
        /\ ToDisk(pending \cup out, file')
        /\ pending' = Span(piece_size) \ out
  BY DEF Store
<1>3. /\ piece_index \in Pieces
      /\ FileOffset = PieceStart(piece_index) /\ PieceStart(piece_index) \in Nat
      /\ PieceStart(piece_index') = PieceStart(piece_index) + PieceLength
  <2>1. piece_index \in Pieces
    <3>1. Completion /\ piece_index \in 0 .. PieceCount
      BY DEF StreamInv, Inv, TypeOK
    <3> QED
      BY <3>1, <1>1 DEF ReadyToStore, Completion, Pieces
  <2>2. FileOffset = PieceStart(piece_index)
    BY <2>1, <1>1, NoWrap DEF ReadyToStore, OffsetUnrepresentable, FileOffset, PieceStart, Pieces
  <2> QED
    BY <2>1, <2>2, <1>1, PieceStartType, PieceStartStep DEF Pieces
<1>4. ASSUME NEW p \in CountedBytes', p \notin lost', p < Length
      PROVE  disk'[p] = p \/ (p \in pending' /\ file'[p] = p)
  <2>1. p \in Positions /\ p \in BytesBefore(piece_index + 1) /\ file'[p] = p
    BY <1>1, <1>4 DEF CountedBytes, BytesBefore, Inv, VerifiedPrefix
  <2>2. CASE p \in CountedBytes
    BY <2>2, <1>1, <1>2, <1>4, KeptBySeek
  <2>3. CASE p \notin CountedBytes
    <3>1. p >= PieceStart(piece_index) /\ p \in Nat
      BY <2>1, <2>3, <1>3, PositionIsNat DEF CountedBytes, BytesBefore
    <3>2. p < PieceStart(piece_index) + piece_size
      BY <3>1, <2>1, <1>3, <1>4, BytesAdded DEF StreamInv, Inv
    <3>3. p \in Span(piece_size)
      BY <3>1, <3>2, <1>3, SizeIsNat DEF Span, StreamInv, Inv, TypeOK
    <3>4. disk'[p] = IF p \in pending \cup out THEN file'[p] ELSE disk[p]
      BY <2>1, <1>2 DEF ToDisk
    <3> QED
      BY <3>3, <3>4, <2>1, <1>2
  <2> QED
    BY <2>2, <2>3
<1>5. DiskGenuine'
  <2>1. out \subseteq Span(piece_size) /\ pending' \subseteq Span(piece_size)
    BY <1>2, FlushedPart
  <2>2. \A p \in Positions : p \in pending => file'[p] = p
    BY FileStays, OutputStep DEF StreamInv, DiskGenuine, OutputNext
  <2>3. WritePiece(piece_size) /\ piece_size \in 0 .. piece_size
    BY <1>1, SizeIsNat DEF StorePiece, StreamInv, Inv, TypeOK
  <2>4. \A p \in Positions : p \in Span(piece_size) => file'[p] = p
    BY <1>1, <2>3, SpanGenuine DEF StreamInv
  <2>5. \A p \in Positions : (p \in pending \cup out => file'[p] = p) /\ (p \in pending' => file'[p] = p)
    BY <2>1, <2>2, <2>4
  <2> QED
    BY <2>5, <1>2, DiskStays DEF StreamInv
<1> QED
  BY <1>1, <1>4, <1>5 DEF CountedBytesKept, StreamClosed

LEMMA StreamNext == StreamInv /\ [OutputNext]_outputVars => StreamInv'
<1> SUFFICES ASSUME StreamInv, [OutputNext]_outputVars PROVE StreamInv'
  OBVIOUS
<1>1. Inv'
  BY OutputStep, InvNext DEF StreamInv
<1>2. ASSUME UNCHANGED <<piece_index, streamVars>>, pc' = "exit" => pc = "exit"
      PROVE  CountedBytesKept' /\ DiskGenuine' /\ StreamClosed'
  <2>1. UNCHANGED <<disk, pending, lost>>
    BY <1>2 DEF streamVars
  <2>2. \A p \in CountedBytes : p \notin lost' /\ p < Length =>
          p \notin lost /\ disk'[p] = disk[p] /\ (p \in pending => p \in pending')
    BY <2>1
  <2>3. DiskGenuine'
    BY <2>1, OutputStep, FileStays DEF StreamInv, DiskGenuine
  <2> QED
    BY <1>1, <1>2, <2>1, <2>2, <2>3, KeepsCounted DEF StreamInv, StreamClosed
<1>3. CASE Store
  BY <1>1, <1>3, StreamStores DEF StreamInv
<1>4. CASE SeekFails
  BY <1>1, <1>4, StreamSeekFails DEF StreamInv
<1>5. CASE \E written \in 0 .. FirstPieceSize : WriteIsShort(written)
  BY <1>1, <1>5, StreamShort DEF StreamInv
<1>6. CASE CloseStream
  BY <1>1, <1>6, StreamCloses DEF StreamInv
<1>7. CASE /\ Connect \/ DropPeer \/ Receive \/ PieceNotReceived \/ HashMismatch
              \/ RefuseOffset \/ Serve
           /\ UNCHANGED streamVars
  <2>1. UNCHANGED piece_index /\ (pc' = "exit" => pc = "exit")
    BY <1>7
    DEF Connect, ConnectFails, ConnectSucceeds, HandshakeFails, HandshakeSucceeds, TryPeer,
        DropPeer, Receive, Handled, Refused, ReceiveFails, ReceiveIgnored, ReceiveChoke,
        ReceiveUnchoke, ReceiveHave, RejectHave, ReceiveBitfield, RejectBitfield,
        AcceptPiece, ReceivePiece, OverrunBuffer, RejectPiece, PieceNotReceived, HashMismatch,
        RefuseOffset, Serve, Serving, NothingAnnounced, PeerUnusable, SendInterested,
        SendInterestedFails, NothingToRequest, SendRequest, RequestNotSent, pieceVars, Goto
  <2> QED
    BY <2>1, <1>1, <1>2, <1>7 DEF StreamInv
<1>8. CASE UNCHANGED outputVars
  BY <1>1, <1>2, <1>8 DEF StreamInv, outputVars, vars, pieceVars
<1> QED
  BY <1>3, <1>4, <1>5, <1>6, <1>7, <1>8 DEF OutputNext

-----------------------------------------------------------------------------
(* The theorems.                                                           *)

(***************************************************************************)
(* The loop's invariant holds with the stream, and what waits in the       *)
(* stream or is on the disk is the torrent's, each byte in its place       *)
(* (main.c:434-587).                                                       *)
(***************************************************************************)
THEOREM StreamInvariant == OutputSpec => []StreamInv
BY StreamInit, StreamNext, PTL DEF OutputSpec

(***************************************************************************)
(* A byte of a counted piece is on the disk, or in the stream's buffer and *)
(* right, or was dropped by a flush that failed after it was counted       *)
(* (main.c:461-469).                                                       *)
(***************************************************************************)
THEOREM BytesKept == OutputSpec => []CountedBytesKept
<1>1. StreamInv => CountedBytesKept
  BY DEF StreamInv
<1> QED
  BY <1>1, StreamInvariant, PTL

(***************************************************************************)
(* When main reports success, every byte of the torrent is on the disk but *)
(* those that failing flushes dropped (main.c:587-599).                    *)
(***************************************************************************)
THEOREM SuccessOnDisk == OutputSpec => []CompleteOnDisk
<1>1. StreamInv => CompleteOnDisk
  <2> SUFFICES ASSUME StreamInv, pc = "exit", download_complete,
                      NEW p \in 0 .. Length - 1, p \notin lost
               PROVE  disk[p] = p
    BY DEF CompleteOnDisk
  <2>1. piece_index = PieceCount /\ pending = {}
    BY DEF StreamInv, Inv, Completion, StreamClosed
  <2>2. p \in CountedBytes /\ p < Length
    BY <2>1 DEF CountedBytes, BytesBefore, Positions
  <2> QED
    BY <2>1, <2>2 DEF StreamInv, CountedBytesKept
<1> QED
  BY <1>1, StreamInvariant, PTL
=============================================================================
