----------------------------- MODULE OutputFile -----------------------------
(***************************************************************************)
(* The download loop with the stdio stream it writes to: fopen, fseek,     *)
(* fwrite and fclose of main.c:248-587, between Download's file, the bytes *)
(* the loop handed over, and the bytes on the disk.  fwrite keeps bytes in *)
(* a buffer and reports them as written; they reach the disk when the      *)
(* buffer is full, at the next fseek, or at fclose, whose result the code  *)
(* does not look at.  The disk may refuse bytes at each of the three.      *)
(***************************************************************************)
EXTENDS Download

VARIABLES
  disk,     \* the bytes on the disk
  pending,  \* the positions whose bytes are in the stream's buffer
  lost      \* the positions of counted pieces whose bytes a flush dropped

streamVars == <<disk, pending, lost>>
outputVars == <<vars, streamVars>>

OutputInit ==
  /\ Init
  /\ disk = [p \in Positions |-> Hole]
  /\ pending = {}
  /\ lost = {}

-----------------------------------------------------------------------------
\* A flush puts bytes on the disk in their order and may break off anywhere.
Flushable(bytes) == {bytes} \cup {{q \in bytes : q < p} : p \in bytes}

\* What a failing flush leaves in the buffer: nothing (glibc), or the rest.
Kept(rest) == {{}, rest}

ToDisk(bytes, contents) ==
  disk' = [p \in Positions |-> IF p \in bytes THEN contents[p] ELSE disk[p]]

\* The positions of the first size bytes of the current piece.
Span(size) == FileOffset .. FileOffset + size - 1

\* The positions of the pieces before piece_index.
CountedBytes == BytesBefore(piece_index)

FlushFails ==
  \E out \in Flushable(pending) :
    \E kept \in Kept(pending \ out) :
      /\ ToDisk(out, file)
      /\ pending' = kept
      /\ lost' = lost \cup ((pending \ (out \cup kept)) \cap CountedBytes)

-----------------------------------------------------------------------------
\* fseek flushes, fwrite takes the whole piece and keeps any end of it back.
Store ==
  /\ StorePiece
  /\ \E out \in Flushable(Span(piece_size)) :
       /\ ToDisk(pending \cup out, file')
       /\ pending' = Span(piece_size) \ out
  /\ UNCHANGED lost

SeekFails ==
  /\ WriteFails(0)
  /\ FlushFails

\* fseek flushed what was pending: a short write drops bytes of this piece only.
WriteIsShort(written) ==
  /\ written < piece_size
  /\ WriteFails(written)
  /\ \E out \in Flushable(Span(written)) :
       /\ ToDisk(pending \cup out, file')
       /\ pending' \in Kept(Span(written) \ out)
  /\ UNCHANGED lost

\* fclose gives the buffer up whether or not it can write it.
CloseStream ==
  /\ LeaveLoop
  /\ \E out \in Flushable(pending) :
       /\ ToDisk(out, file)
       /\ lost' = lost \cup ((pending \ out) \cap CountedBytes)
  /\ pending' = {}

OutputNext ==
  \/ /\ Connect \/ DropPeer \/ Receive \/ PieceNotReceived \/ HashMismatch
        \/ RefuseOffset \/ Serve
     /\ UNCHANGED streamVars
  \/ Store
  \/ SeekFails
  \/ \E written \in 0 .. FirstPieceSize : WriteIsShort(written)
  \/ CloseStream

OutputSpec == OutputInit /\ [][OutputNext]_outputVars
-----------------------------------------------------------------------------
(***************************************************************************)
(* CountedBytesKept: a piece is counted as soon as fwrite returned         *)
(* (main.c:461-469), often before the disk has it.  Its bytes are then in  *)
(* the buffer or on the disk, and only a flush that fails later, unseen by *)
(* that count, can drop them; a short write never costs a counted piece,   *)
(* and a piece written again over a part of itself becomes whole.          *)
(***************************************************************************)
CountedBytesKept ==
  \A p \in CountedBytes \ lost :
    p < Length => disk[p] = p \/ (p \in pending /\ file[p] = p)

(***************************************************************************)
(* CompleteOnDisk: when main reports success (main.c:587-599) the disk     *)
(* holds the whole torrent, except for what the flushes in fseek and       *)
(* fclose dropped: no other order of partial writes, failures and changes  *)
(* of peer loses a byte.                                                   *)
(***************************************************************************)
CompleteOnDisk ==
  pc = "exit" /\ download_complete =>
    \A p \in 0 .. Length - 1 : disk[p] = p \/ p \in lost
-----------------------------------------------------------------------------
(* The inductive invariant behind both.                                    *)

\* A byte that waits in the buffer is the torrent's and in its place, and so
\* is every byte on the disk.
DiskGenuine ==
  \A p \in Positions :
    /\ disk[p] \in {p, Hole}
    /\ p \in pending => file[p] = p

\* Whatever comes after main has closed the stream, nothing is left in it.
StreamClosed == pc = "exit" => pending = {}

(***************************************************************************)
(* StreamInv: the loop's invariant, and what the stream adds to it: no     *)
(* byte reaches the disk before its piece's hash was verified, nor at      *)
(* another place, however writes and flushes break off (main.c:434-587).   *)
(***************************************************************************)
StreamInv == Inv /\ CountedBytesKept /\ DiskGenuine /\ StreamClosed
=============================================================================
