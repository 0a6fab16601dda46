------------------------------- MODULE Intake -------------------------------
(***************************************************************************)
(* Startup with the values its steps compute: the torrent's bytes are      *)
(* parsed, its metadata is extracted, the tracker's URL is built, the body *)
(* arrives in chunks and is parsed, the peers are extracted (main.c:47-228 *)
(* with bencode_parser.c, torrent_metadata.c and tracker.c).  A step whose *)
(* outcome the values decide succeeds or fails as they say; the others may *)
(* do either, as in Startup.                                               *)
(***************************************************************************)
EXTENDS Startup, TrackerResponse, TrackerUrl

CONSTANTS
  Torrents,         \* bound: the files that are read
  Bodies(_),        \* bound: the tracker's answers tried with each of them
  EscapedTexts,     \* curl_easy_escape: texts it may return
  MaxAllocations    \* bound: an allocation after this one never fails

ASSUME IntakeAssumption ==
  /\ MaxAllocations \in Nat
  /\ Torrents \subseteq Seq(0 .. 255)
  /\ \A t \in Torrents : Bodies(t) \subseteq Seq(0 .. 255)
  /\ \A text \in EscapedTexts : strlen(text) \in Nat

-----------------------------------------------------------------------------
(* What the parser promises of the trees it returns.  Bencode keeps it.    *)

\* The heap for a parser, with the request that will be refused.
HeapFor(h, refused) == [h EXCEPT !.fails = IF refused = 0 THEN 0 ELSE h.calls + refused]

Parses(data, h) ==
  { parse_bencode_buffer(data, 0, HeapFor(h, refused)) : refused \in 0 .. MaxAllocations }

\* The objects in objects, and those that main reads of a tree: none is deeper
\* than the address of a peer, in an item of a list in the answer.
Children(objects) ==
  UNION { { o.value.elements[k].value : k \in DOMAIN o.value.elements } :
            o \in { c \in objects : c.type \in Containers } }

InReach(object) ==
  LET entries == Children({object})
      items   == Children(entries)
  IN {object} \cup entries \cup items \cup Children(items)

\* An object of the bytes data: its string lies inside them.
Sound(data, object) ==
  /\ object.type = "INTEGER" => object.value \in Int
  /\ object.type = "BYTE_STRING" =>
       /\ object.value.data \in Nat /\ object.value.length \in Nat
       /\ object.value.data + object.value.length <= Len(data)
  /\ object.type \in Containers =>
       /\ Len(object.value.elements) \in Nat
       /\ DOMAIN object.value.elements = 1 .. Len(object.value.elements)

SoundTree(data, object) == \A o \in InReach(object) : Sound(data, o)

ParsesSoundly(data, h) == \A parsed \in Parses(data, h) : parsed.ok => SoundTree(data, parsed.object)

\* The heaps that a torrent's tree may leave to the parser of the answer.
HeapsAfter(t) == { [p.heap EXCEPT !.fails = 0] : p \in { q \in Parses(t, EmptyHeap) : q.ok } }

ASSUME ParserAssumption ==
  /\ \A t \in Torrents : ParsesSoundly(t, EmptyHeap)
  /\ \A answered \in UNION { HeapsAfter(t) \X Bodies(t) : t \in Torrents } :
       \A n \in 0 .. Len(answered[2]) :
         ParsesSoundly(SubSeq(answered[2], 1, n), answered[1])

-----------------------------------------------------------------------------
VARIABLES
  torrent,          \* the bytes of buffer
  obj,
  metadata,
  request,          \* tracker_request, and the escaped texts
  body,             \* what the tracker sends; response holds a prefix of it
  response_obj,
  current_peers,
  heap,             \* the arrays of the two trees
  starved           \* an allocation of a parser failed

dataVars == <<torrent, obj, metadata, request, body, response_obj, current_peers>>
ivars == <<vars, dataVars, heap, starved>>

-----------------------------------------------------------------------------
INVALID == [type |-> "INVALID"]

IntakeInit ==
  /\ Init
  /\ torrent = <<>>
  /\ obj = INVALID
  /\ metadata = [ok |-> FALSE]
  /\ request = [announce |-> <<>>]
  /\ body = <<>>
  /\ response_obj = INVALID
  /\ current_peers = <<>>
  /\ heap = EmptyHeap
  /\ starved = FALSE

At(call) == step <= Len(Steps) /\ This.call = call

Info == metadata.info
response == SubSeq(body, 1, response_length)
peers_object == FindPeers(response, response_obj)

\* main.c:227
piece_count == Info.pieces.length \div HashLength

\* (Not looking for pieces at all is a plausible mistake.)
AnyPieceCount == TRUE
SomePieces == piece_count # 0

-----------------------------------------------------------------------------
(* Steps that the values decide.                                           *)

Decisions ==
  { "torrent_metadata_extract", "info_span_inside_buffer", "announce_given",
    "url_capacity", "fill_url", "find_interval", "find_peers", "peer_count",
    "length_signs", "lengths_in_size_t", "piece_count" }

Verdict ==
  CASE At("torrent_metadata_extract") -> ExtractMetadata(torrent, obj).ok
    [] At("info_span_inside_buffer") ->
         /\ Info.info_span.data <= Len(torrent)
         /\ Info.info_span.length <= Len(torrent) - Info.info_span.data
    [] At("announce_given")    -> request.announce # <<>>
    [] At("url_capacity")      -> Capacity(request) # TooLong
    [] At("fill_url")          -> FitsExactly(request)
    [] At("find_interval")     -> Found(FindInterval(response, response_obj))
    [] At("find_peers")        -> Found(peers_object)
    [] At("peer_count")        -> current_peers # <<>>
    [] At("length_signs")      -> Info.piece_length > 0 /\ Info.length >= 0
    [] At("lengths_in_size_t") -> Info.piece_length <= SizeMax /\ Info.length <= SizeMax
    [] At("piece_count")       -> SomePieces

Decided == step <= Len(Steps) /\ This.call \in Decisions

\* Steps with values to store have an action of their own.
Storing ==
  { "fread", "parse_bencode_buffer", "torrent_metadata_extract", "generate_peer_id",
    "escape_info_hash", "escape_peer_id", "fill_url", "set_CURLOPT_URL", "tracker_response_parse",
    "peers_extract" }

-----------------------------------------------------------------------------
\* A failing step frees the trees that are in its list.
FreeTree(name, object, h) == IF name \in Freed \cap held THEN free_bencode_object(h, object) ELSE h

IntakeFails ==
  /\ Fail
  /\ ~At("parse_bencode_buffer") /\ ~At("tracker_response_parse")
  /\ Decided => ~Verdict
  /\ heap' = FreeTree("response_obj", response_obj, FreeTree("obj", obj, heap))
  /\ UNCHANGED <<dataVars, starved>>

IntakeSucceeds ==
  /\ Succeed
  /\ This.call \notin Storing
  /\ Decided => Verdict
  /\ UNCHANGED <<dataVars, heap, starved>>

ReadFile ==
  /\ Succeed
  /\ At("fread")
  /\ torrent' \in Torrents
  /\ UNCHANGED <<obj, metadata, request, body, response_obj, current_peers, heap, starved>>

ParseTorrent ==
  /\ At("parse_bencode_buffer")
  /\ \E refused \in 0 .. MaxAllocations :
       LET parsed == parse_bencode_buffer(torrent, 0, HeapFor(heap, refused))
       IN /\ heap' = [parsed.heap EXCEPT !.fails = 0]
          /\ starved' = (refused # 0 /\ parsed.heap.calls >= heap.calls + refused)
          /\ IF parsed.ok THEN Succeed /\ obj' = parsed.object
                          ELSE Fail /\ UNCHANGED obj
  /\ UNCHANGED <<torrent, metadata, request, body, response_obj, current_peers>>

Extract ==
  /\ Succeed
  /\ At("torrent_metadata_extract")
  /\ Verdict
  /\ metadata' = ExtractMetadata(torrent, obj)
  /\ UNCHANGED <<torrent, obj, request, body, response_obj, current_peers, heap, starved>>

\* main.c:117-124
MakeRequest ==
  /\ Succeed
  /\ At("generate_peer_id")
  /\ request' = [announce |-> Text(torrent, metadata.announce), port |-> 0,
                 uploaded |-> 0, downloaded |-> 0, left |-> Info.length,
                 compact |-> TRUE, event |-> "TRACKER_EVENT_STARTED",
                 info_hash_encoded |-> "", peer_id_encoded |-> ""]
  /\ UNCHANGED <<torrent, obj, metadata, body, response_obj, current_peers, heap, starved>>

Escape ==
  /\ Succeed
  /\ \E text \in EscapedTexts :
       \/ /\ At("escape_info_hash")
          /\ request' = [request EXCEPT !.info_hash_encoded = text]
       \/ /\ At("escape_peer_id")
          /\ request' = [request EXCEPT !.peer_id_encoded = text]
  /\ UNCHANGED <<torrent, obj, metadata, body, response_obj, current_peers, heap, starved>>

\* The escaped texts are freed with the second handle.
FillUrl ==
  /\ Succeed
  /\ At("fill_url")
  /\ Verdict
  /\ request' = [request EXCEPT !.info_hash_encoded = "", !.peer_id_encoded = ""]
  /\ UNCHANGED <<torrent, obj, metadata, body, response_obj, current_peers, heap, starved>>

\* The tracker's answer is not known before it is asked.
SetUrl ==
  /\ Succeed
  /\ At("set_CURLOPT_URL")
  /\ body' \in Bodies(torrent)
  /\ UNCHANGED <<torrent, obj, metadata, request, response_obj, current_peers, heap, starved>>

ReceiveChunk(size) ==
  /\ size = 0 => body = <<>>
  /\ response_length + size <= Len(body)
  /\ WriteChunk(size)
  /\ UNCHANGED <<dataVars, heap, starved>>

ParseBody ==
  /\ At("tracker_response_parse")
  /\ \E refused \in 0 .. MaxAllocations :
       LET parsed == ParseResponse(response, HeapFor(heap, refused))
       IN /\ starved' = (refused # 0 /\ parsed.heap.calls >= heap.calls + refused)
          /\ IF parsed.ok
             THEN /\ Succeed
                  /\ response_obj' = parsed.object
                  /\ heap' = [parsed.heap EXCEPT !.fails = 0]
             ELSE /\ Fail
                  /\ UNCHANGED response_obj
                  /\ heap' = FreeTree("obj", obj, [parsed.heap EXCEPT !.fails = 0])
  /\ UNCHANGED <<torrent, obj, metadata, request, body, current_peers>>

TakePeers ==
  /\ Succeed
  /\ At("peers_extract")
  /\ LET extracted == ExtractPeers(response, peers_object)
     IN extracted.ok /\ current_peers' = extracted.peers
  /\ UNCHANGED <<torrent, obj, metadata, request, body, response_obj, heap, starved>>

EndAndFree ==
  /\ EndDownload
  /\ heap' = free_bencode_object(free_bencode_object(heap, response_obj), obj)
  /\ UNCHANGED <<dataVars, starved>>

IntakeNext ==
  \/ IntakeSucceeds
  \/ IntakeFails
  \/ ReadFile \/ ParseTorrent \/ Extract
  \/ MakeRequest \/ Escape \/ FillUrl \/ SetUrl
  \/ \E size \in 0 .. MaxChunk : ReceiveChunk(size)
  \/ ParseBody \/ TakePeers
  \/ EndAndFree

IntakeSpec == IntakeInit /\ [][IntakeNext]_ivars
-----------------------------------------------------------------------------
(* What must hold.                                                         *)

\* The step that has just succeeded, or has failed.
After(call) == step > 1 /\ Running /\ Steps[step - 1].call = call
FailedAt(call) == status = "failed" /\ At(call)

(***************************************************************************)
(* LoopPreconditions: whatever bytes the torrent has, the download loop    *)
(* starts with all that TorrentAssumption asks of it, pieces to load, with *)
(* a length that is not 0, and lengths that are size_t; and with a hash    *)
(* for each piece, inside the torrent's bytes, and a peer (main.c:195-237, *)
(* torrent_metadata.c:140-190).  That the declared length fits the pieces  *)
(* is not among them: main never compares the two, and OddTorrents has     *)
(* such torrents.  What the loop does with one is DownloadLongLast's part. *)
(***************************************************************************)
LoopPreconditions ==
  status = "downloading" =>
    /\ Info.piece_length \in 1 .. SizeMax
    /\ Info.length \in 0 .. SizeMax
    /\ piece_count > 0
    /\ Info.pieces.length = piece_count * HashLength
    /\ Info.pieces.data + Info.pieces.length <= Len(torrent)
    /\ current_peers # <<>>

(***************************************************************************)
(* PeersFaithful: every peer comes from one place of the answer, in order  *)
(* and none twice: its address and its port stand together in one item of  *)
(* the list, or in its own bytes of the compact form (tracker.c:72-163 and *)
(* 186-236).                                                               *)
(***************************************************************************)
\* The peer an item of a list describes, if it describes one.
Says(item) ==
  IF item.type # "DICTIONARY" THEN {}
  ELSE LET Values(key, type) ==
             { e.value : e \in { f \in { item.value.elements[n] : n \in DOMAIN item.value.elements } :
                 Text(response, f.key) = key /\ f.value.type = type } }
           Ips   == { a \in { Text(response, v.value) : v \in Values(IpKey, "BYTE_STRING") } :
                        a \in DOMAIN Addresses }
           Ports == { v.value : v \in Values(PortKey, "INTEGER") } \cap (0 .. UINT16_MAX)
       IN { [address |-> Addresses[a], port |-> n] : a \in Ips, n \in Ports }

PeersFaithful ==
  After("peers_extract") =>
    IF peers_object.type = "LIST"
    THEN LET items == [k \in DOMAIN peers_object.value.elements |->
                         peers_object.value.elements[k].value]
             useful == { k \in DOMAIN items : Says(items[k]) # {} }
         IN \E at \in [DOMAIN current_peers -> useful] :
              /\ useful = { at[k] : k \in DOMAIN at }
              /\ \A j, k \in DOMAIN at : j < k => at[j] < at[k]
              /\ \A k \in DOMAIN at : current_peers[k] \in Says(items[at[k]])
    ELSE LET text == Text(response, peers_object.value)
         IN /\ Len(text) = Len(current_peers) * PeerSegmentLength
            /\ \A k \in DOMAIN current_peers :
                 LET bytes == SubSeq(text, (k - 1) * PeerSegmentLength + 1,
                                           k * PeerSegmentLength)
                 IN /\ SubSeq(bytes, 1, IpLength) = current_peers[k].address
                    /\ current_peers[k].port =
                         256 * bytes[IpLength + 1] + bytes[IpLength + 2]

(***************************************************************************)
(* UrlFits: once the capacity is known the URL always fits it to the byte, *)
(* for every event main could report and every announce URL: the tests     *)
(* while it is filled never fail (tracker.c:511-664).                      *)
(***************************************************************************)
UrlFits ==
  At("malloc_url") =>
    \A event \in TrackerEvents :
      LET asked == [request EXCEPT !.event = event]
      IN Capacity(asked) # TooLong => FitsExactly(asked)

-----------------------------------------------------------------------------
(* Why they hold: what each step has found out, kept to the loop.          *)

\* Before a text is escaped there is none.
Texts == EscapedTexts \cup {""}

Requests ==
  [announce : Seq(0 .. 255), port : Nat, uploaded : Nat, downloaded : Nat, left : Nat,
   compact : BOOLEAN, event : TrackerEvents, info_hash_encoded : Texts, peer_id_encoded : Texts]

TorrentParsed ==
  /\ step <= 7  => heap = EmptyHeap
  /\ step > 5   => torrent \in Torrents
  /\ step > 7   => SoundTree(torrent, obj)
  /\ step \in 8 .. 25 => heap \in HeapsAfter(torrent)
  /\ step > 8   => metadata.ok /\ metadata = ExtractMetadata(torrent, obj)

AnswerParsed ==
  /\ response_length <= Len(body)
  /\ step <= 22 => response_length = 0 /\ body = <<>>
  /\ step > 22  => body \in Bodies(torrent)
  /\ step > 25  => SoundTree(response, response_obj)
  /\ step > 27  => Found(peers_object)
  /\ step > 28  => /\ ExtractPeers(response, peers_object).ok
                   /\ current_peers = ExtractPeers(response, peers_object).peers

RequestMade == step > 11 => request \in Requests

Checked ==
  /\ step > 29 => current_peers # <<>>
  /\ step > 31 => Info.piece_length <= SizeMax /\ Info.length <= SizeMax
  /\ step > 32 => SomePieces

IntakeInv ==
  /\ StartupInv
  /\ RequestMade
  /\ status = "downloading" => step = Len(Steps) + 1
  /\ status \in {"running", "downloading"} => TorrentParsed /\ AnswerParsed /\ Checked
=============================================================================
