--------------------------- MODULE TorrentLayout ---------------------------
(***************************************************************************)
(* The arithmetic that maps a single-file torrent's pieces to byte offsets *)
(* of the output file: main.c, lines 208-267 and 443-505.                  *)
(*                                                                         *)
(* Machine integers.  size_t arithmetic wraps, so every product the code   *)
(* forms is reduced modulo SizeMax + 1; the code's own guards are what     *)
(* keeps the reduction from ever showing.                                  *)
(***************************************************************************)
EXTENDS Integers

CONSTANTS
  PieceLength,  \* torrent_info->piece_length, the size of every piece but the last
  Length,       \* torrent_info->length, the size of the file
  PieceCount,   \* torrent_info->pieces.length / 20
  SizeMax,      \* SIZE_MAX
  LongMax       \* LONG_MAX, the largest offset fseek takes

(***************************************************************************)
(* What main establishes before the download loop starts (main.c:208-237,  *)
(* torrent_metadata.c:148 and :166), and nothing else: the declared length *)
(* may be smaller or larger than what the pieces hold.                     *)
(***************************************************************************)
ASSUME TorrentAssumption ==
  /\ PieceLength \in Nat \ {0}
  /\ PieceCount \in Nat \ {0}
  /\ Length \in Nat
  /\ SizeMax \in Nat
  /\ LongMax \in Nat
  /\ LongMax <= SizeMax
  /\ PieceLength <= SizeMax
  /\ Length <= SizeMax

-----------------------------------------------------------------------------
Pieces == 0 .. PieceCount - 1

\* The position in the file of the first byte of piece k.
PieceStart(k) == k * PieceLength

\* Every position of the file, and every position a piece reaches behind it.
Positions == (0 .. PieceCount * PieceLength - 1) \cup (0 .. Length - 1)

\* The bytes of the pieces before piece k; the last piece ends the file.
BytesBefore(k) == {p \in Positions : p < PieceStart(k) \/ k = PieceCount}

(***************************************************************************)
(* A torrent whose last piece starts inside the file.  The code checks it  *)
(* when it sizes the last piece (main.c:499).                              *)
(***************************************************************************)
WellFormed == PieceStart(PieceCount - 1) <= Length

(***************************************************************************)
(* A torrent that declares no more bytes than its pieces hold.  No code    *)
(* checks it.  It does not matter when there is one piece: the buffer is   *)
(* then as large as the declared length (main.c:265-269).                  *)
(***************************************************************************)
LengthFits == PieceCount = 1 \/ Length <= PieceCount * PieceLength

\* The size of the first piece and of the buffer allocated for all of them.
FirstPieceSize == IF PieceCount = 1 THEN Length ELSE PieceLength

\* size_t multiplication.
SizeTimes(a, b) == (a * b) % (SizeMax + 1)

\* The test the code makes before it multiplies an index by the piece length.
ProductOverflows(k) == k # 0 /\ PieceLength > SizeMax \div k

\* The size given to the last piece, and the two tests that can refuse it.
LastPieceOffset == SizeTimes(PieceLength, PieceCount - 1)

LayoutRejected ==
  ProductOverflows(PieceCount - 1) \/ LastPieceOffset > Length

\* (The remainder of the division is a plausible mistake.)
LastPieceModulo == Length % PieceLength

LastPieceSize == Length - LastPieceOffset
=============================================================================
