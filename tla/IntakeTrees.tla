----------------------------- MODULE IntakeTrees -----------------------------
(***************************************************************************)
(* What must hold of the trees that Intake's parser builds and frees, when *)
(* it is the one of Bencode.                                               *)
(***************************************************************************)
EXTENDS Intake, BencodeGrammar

(***************************************************************************)
(* ReadsBencode: the parser takes a torrent exactly when it begins with a  *)
(* bencoded value, by a definition that is not a parser, and takes the     *)
(* whole of that value (bencode_parser.c:683-765); only a refused          *)
(* allocation makes it fail on one.                                        *)
(***************************************************************************)
ReadsBencode ==
  /\ After("parse_bencode_buffer") => IsBencode(SubSeq(torrent, 1, obj.encoded_length))
  /\ FailedAt("parse_bencode_buffer") /\ ~starved =>
       \A k \in DOMAIN torrent : ~IsBencode(SubSeq(torrent, 1, k))

(***************************************************************************)
(* SpansExact: the bytes an object says it came from mean that object, for *)
(* every object of the tree: what is hashed is what is read                *)
(* (bencode_parser.c:758-759, main.c:94-97).                               *)
(***************************************************************************)
SpansExact ==
  After("parse_bencode_buffer") =>
    \A object \in Objects(obj) :
      LET bytes == Encoded(torrent, object)
          again == ParseBuffer(bytes, 0, EmptyHeap)
      IN /\ Len(bytes) = object.encoded_length
         /\ again.ok /\ again.position = Len(bytes)
         /\ Meaning(bytes, again.object) = Meaning(torrent, object)

(***************************************************************************)
(* BlocksOwned: the arrays on the heap are those of the trees main holds,  *)
(* one each, wherever a parser stopped and whichever exit main took; none  *)
(* is freed twice (bencode_parser.c:390-451 and 473-515).                  *)
(***************************************************************************)
Owned(name, object) == IF name \in held THEN Blocks(object) ELSE {}

BlocksOwned ==
  /\ ~heap.faulty
  /\ heap.live = Owned("obj", obj) \cup Owned("response_obj", response_obj)
  /\ Owned("obj", obj) \cap Owned("response_obj", response_obj) = {}

(***************************************************************************)
(* ArraysHold: no array is smaller than what was put in it, and none has a *)
(* size that is no size_t (bencode_parser.c:398-437 and 612-651).          *)
(***************************************************************************)
ArraysHold ==
  After("parse_bencode_buffer") =>
    \A object \in { o \in Objects(obj) : o.type \in Containers } :
      /\ Len(object.value.elements) <= object.value.capacity
      /\ object.value.capacity * ElementSize(object.type) <= SizeMax

(***************************************************************************)
(* HashedInfo: the bytes whose hash names the torrent are a dictionary     *)
(* that by itself gives the name, the lengths and the hashes that are used *)
(* (torrent_metadata.c:70-106, main.c:78-97).                              *)
(***************************************************************************)
HashedInfo ==
  After("info_span_inside_buffer") =>
    LET bytes  == Text(torrent, Info.info_span)
        parsed == ParseBuffer(bytes, 0, EmptyHeap)
        inner  == parsed.object
    IN /\ parsed.ok /\ parsed.position = Len(bytes)
       /\ inner.type = "DICTIONARY"
       /\ FindLength(bytes, inner).value = Info.length
       /\ FindPieceLength(bytes, inner).value = Info.piece_length
       /\ Text(bytes, FindName(bytes, inner).value) = Text(torrent, Info.name)
       /\ Text(bytes, FindPieces(bytes, inner).value) = Text(torrent, Info.pieces)

(***************************************************************************)
(* WholeAnswer: an answer is used exactly if all that was received is one  *)
(* bencoded dictionary: none is used before its end has arrived, and none  *)
(* with more behind it (tracker.c:682-716).                                *)
(***************************************************************************)
IsAnswer(bytes) == bytes # <<>> /\ bytes[1] = TagDictionary /\ IsBencode(bytes)

WholeAnswer ==
  /\ After("tracker_response_parse") => IsAnswer(response)
  /\ FailedAt("tracker_response_parse") /\ ~starved => ~IsAnswer(response)
=============================================================================
