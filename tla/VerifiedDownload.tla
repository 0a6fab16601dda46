------------------------- MODULE VerifiedDownload -------------------------
(***************************************************************************)
(* What a user of loco is promised, without peers, messages or buffers:    *)
(* the output file is filled piece after piece, in order, with the         *)
(* torrent's own bytes and nothing else; success is reported only when     *)
(* every piece is in it.  Download implements this specification.          *)
(*                                                                         *)
(* A byte of the torrent is named by its position, so the file is right at *)
(* position p exactly when it holds p there.                               *)
(***************************************************************************)
EXTENDS TorrentLayout

CONSTANT Hole     \* a position nothing was written to

VARIABLES
  file,       \* file[p]: the byte at position p of the output file
  stored,     \* how many pieces have been stored
  outcome     \* "running", "complete" or "failed"

avars == <<file, stored, outcome>>

-----------------------------------------------------------------------------
Init ==
  /\ file = [p \in Positions |-> Hole]
  /\ stored = 0
  /\ outcome = "running"

\* The positions below limit that piece k occupies.
Span(k, size) == PieceStart(k) .. PieceStart(k) + size - 1

\* Genuine bytes are added to the next piece, and none is lost.
FillNext(size) ==
  file' = [p \in Positions |-> IF p \in Span(stored, size) THEN p ELSE file[p]]

\* A write that fails half way leaves a prefix of the next piece.
StorePart ==
  /\ outcome = "running"
  /\ stored < PieceCount
  /\ \E size \in 0 .. FirstPieceSize : FillNext(size)
  /\ UNCHANGED <<stored, outcome>>

\* The next piece is stored, all of it that lies inside the file.  No piece
\* is larger than the first: a torrent that declares more is never complete.
StoreNext ==
  /\ outcome = "running"
  /\ stored < PieceCount
  /\ \E size \in 0 .. FirstPieceSize :
       /\ stored < PieceCount - 1 => size = PieceLength
       /\ stored = PieceCount - 1 => PieceStart(stored) + size >= Length
       /\ FillNext(size)
  /\ stored' = stored + 1
  /\ UNCHANGED outcome

Finish ==
  /\ outcome = "running"
  /\ outcome' = IF stored = PieceCount THEN "complete" ELSE "failed"
  /\ UNCHANGED <<file, stored>>

Next == StorePart \/ StoreNext \/ Finish

Spec == Init /\ [][Next]_avars
=============================================================================
