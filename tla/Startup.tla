------------------------------- MODULE Startup -------------------------------
(***************************************************************************)
(* From the command line to the download loop: main.c, lines 33-283 and    *)
(* 586-601, with the calls it makes (file_reader.c, info_hash.c,           *)
(* peer_id.c, tracker.c).  Every step may fail, and every failure has its  *)
(* own hand-written list of what to free.  What is held is kept in held;   *)
(* the bencode trees and the metadata only borrow the bytes they were      *)
(* parsed from.                                                            *)
(***************************************************************************)
EXTENDS SizeT, Sequences

CONSTANT MaxChunk      \* bound: the longest chunk libcurl delivers at once

ASSUME StartupAssumption == MaxChunk \in Nat \ {0}

Resources ==
  { "stream", "buffer", "obj", "curl", "url_curl", "info_hash_encoded",
    "peer_id_encoded", "tracker_url", "response", "response_obj", "current_peers",
    "fp", "piece_buffer" }

VARIABLES
  step,             \* the number of the step that comes next
  status,           \* running, failed, downloading, done
  held,             \* the resources that are allocated or open
  acquired,         \* the resources that ever were
  response_length   \* of temp_response, the body received so far

vars == <<step, status, held, acquired, response_length>>

-----------------------------------------------------------------------------
(* The steps in program order: what a step borrows, what it must find      *)
(* (a pointer tested against NULL), what it gets, what is freed if it      *)
(* fails, and what is released once it succeeded.  Up to three functions   *)
(* free something when a step fails, each by a list of its own: a function *)
(* called by a callee of main, the callee of main, and main.               *)

Step(call, borrows, finds, gets, lists, releases) ==
  [call |-> call, borrows |-> borrows, finds |-> finds, gets |-> gets,
   lists |-> lists, frees |-> lists[1] \cup lists[2] \cup lists[3],
   releases |-> releases]

Torrent == {"buffer", "obj"}
Tracker == Torrent \cup {"response", "response_obj"}

ByMain(list) == <<{}, {}, list>>

\* main frees its buffer when the file was not read (main.c:41-45): a NULL, for
\* it is given the bytes last of all (file_reader.c:91).  (Giving them earlier
\* is a plausible mistake.)
BufferGiven == {"buffer"}

NothingGiven == {}

ByReader(list) == <<{}, list, NothingGiven>>

\* read_byte_buffer_from_file and the parser (file_reader.c:40, main.c:33-63).
ReadTorrent == <<
  Step("cli_arguments_valid",   {}, {}, {}, ByMain({}), {}),
  Step("fopen",                 {}, {}, {"stream"}, ByReader({}), {}),
  Step("get_file_size",         {"stream"}, {}, {}, ByReader({"stream"}), {}),
  Step("malloc",                {}, {}, {"buffer"}, ByReader({"stream"}), {}),
  Step("fread",                 {"stream", "buffer"}, {}, {}, ByReader({"buffer", "stream"}),
                                {"stream"}),
  Step("bencode_parser_init",   {"buffer"}, {}, {}, ByMain({"buffer"}), {}),
  Step("parse_bencode_buffer",  {"buffer"}, {}, {"obj"}, ByMain({"buffer"}), {}) >>

\* main.c:65-115.
UseTorrent == <<
  Step("torrent_metadata_extract", Torrent, {}, {}, ByMain(Torrent), {}),
  Step("info_span_inside_buffer",  Torrent, {}, {}, ByMain(Torrent), {}),
  Step("compute_info_hash",        Torrent, {}, {}, ByMain(Torrent), {}),
  Step("generate_peer_id",         {}, {}, {}, ByMain(Torrent), {}) >>

\* tracker_announce fails, and main with it.
ByAnnounce(list) == <<{}, list, Torrent>>

\* What a failed transfer frees: the URL was freed when curl had taken its copy.
\* (Freeing it here as well is a plausible mistake.)
TransferAndUrl == ByAnnounce({"curl", "response", "tracker_url"})

Transfer == ByAnnounce({"curl", "response"})

\* build_tracker_url has a second handle, for the escaping (tracker.c:467-679).
ByBuildUrl(list) == <<list, {"curl"}, Torrent>>
Escaped == {"info_hash_encoded", "peer_id_encoded"}
Escaping == Escaped \cup {"url_curl"}

BuildUrl == <<
  Step("announce_given",      Torrent, {}, {}, ByBuildUrl({}), {}),
  Step("url_curl_easy_init",  {}, {}, {"url_curl"}, ByBuildUrl({}), {}),
  Step("escape_info_hash",    {"url_curl"}, {}, {"info_hash_encoded"},
                              ByBuildUrl({"url_curl"}), {}),
  Step("escape_peer_id",      {"url_curl"}, {}, {"peer_id_encoded"},
                              ByBuildUrl({"url_curl", "info_hash_encoded"}), {}),
  Step("numbers_as_text",     {}, {}, {}, ByBuildUrl(Escaping), {}),
  Step("url_capacity",        Torrent \cup Escaped, {}, {}, ByBuildUrl(Escaping), {}),
  Step("malloc_url",          {}, {}, {"tracker_url"}, ByBuildUrl(Escaping), {}),
  Step("fill_url",            Torrent \cup Escaped \cup {"tracker_url"}, {}, {},
                              ByBuildUrl(Escaping \cup {"tracker_url"}), Escaping) >>

\* tracker_announce (tracker.c:315-383) and main.c:126-134.
Announce == <<
  Step("curl_easy_init",    {}, {}, {"curl"}, ByAnnounce({}), {}),
  Step("curl_easy_setopt",  {"curl"}, {}, {}, ByAnnounce({"curl"}), {}) >>
  \o BuildUrl \o <<
  Step("set_CURLOPT_URL",   {"curl", "tracker_url"}, {}, {},
                            ByAnnounce({"curl", "tracker_url"}), {"tracker_url"}),
  Step("curl_easy_perform", {"curl"}, {}, {}, Transfer, {}),
  Step("response_code_200", {"curl"}, {}, {}, Transfer, {"curl"}) >>

\* What is released once the response is parsed: nothing, its tree points into
\* it.  (Releasing the bytes is a plausible mistake.)
ResponseBytes == {"response"}

ReleasedOnceParsed == {}

WithPeers == ByMain(Tracker \cup {"current_peers"})

\* main.c:136-237.
UseResponse == <<
  Step("tracker_response_parse", {}, {"response"}, {"response_obj"},
                                 ByMain(Torrent \cup {"response"}), ReleasedOnceParsed),
  Step("find_interval",          Tracker, {}, {}, ByMain(Tracker), {}),
  Step("find_peers",             Tracker, {}, {}, ByMain(Tracker), {}),
  Step("peers_extract",          Tracker, {}, {"current_peers"}, ByMain(Tracker), {}),
  Step("peer_count",             {}, {}, {}, WithPeers, {}),
  Step("length_signs",           Torrent, {}, {}, WithPeers, {}),
  Step("lengths_in_size_t",      Torrent, {}, {}, WithPeers, {}),
  Step("piece_count",            Torrent, {}, {}, WithPeers, {}) >>

\* main.c:239-280.
OpenOutput == <<
  Step("fopen_wb",            Torrent, {}, {"fp"}, WithPeers, {}),
  Step("malloc_piece_buffer", {}, {}, {"piece_buffer"},
                              ByMain(Tracker \cup {"current_peers", "fp"}), {}) >>

Steps == ReadTorrent \o UseTorrent \o Announce \o UseResponse \o OpenOutput

\* main.c:586-593.
CleanupAtEnd == Tracker \cup {"current_peers", "fp", "piece_buffer"}

-----------------------------------------------------------------------------
Init ==
  /\ step = 1
  /\ status = "running"
  /\ held = {}
  /\ acquired = {}
  /\ response_length = 0

Running == status = "running"
This == Steps[step]

\* What a failure frees; forgetting the response is a plausible mistake.
FreedWithoutResponse == This.frees \ {"response"}

Freed == This.frees

Succeed ==
  /\ Running
  /\ This.finds \subseteq held
  /\ held' = (held \cup This.gets) \ This.releases
  /\ acquired' = acquired \cup This.gets
  /\ step' = step + 1
  /\ status' = IF step = Len(Steps) THEN "downloading" ELSE "running"
  /\ UNCHANGED response_length

Fail ==
  /\ Running
  /\ held' = held \ Freed
  /\ status' = "failed"
  /\ UNCHANGED <<step, acquired, response_length>>

\* write_chunk_to_tracker_response_buffer, called during curl_easy_perform.
\* When it refuses a chunk, curl_easy_perform fails.  libcurl calls it with no
\* bytes at all only when the body has none; realloc then gives a block of no
\* bytes.  (The test without the subtraction is a plausible mistake.)
ChunkFitsUnchecked(size) == response_length <= SizeMax

ChunkFits(size) == response_length <= SizeMax - size

WriteChunk(size) ==
  /\ Running
  /\ This.call = "curl_easy_perform"
  /\ size = 0 => "response" \notin held
  /\ ChunkFits(size)
  /\ held' = held \cup {"response"}
  /\ acquired' = acquired \cup {"response"}
  /\ response_length' = (response_length + size) % (SizeMax + 1)
  /\ UNCHANGED <<step, status>>

\* The download loop, and what is freed after it.
EndDownload ==
  /\ status = "downloading"
  /\ held' = held \ CleanupAtEnd
  /\ status' = "done"
  /\ UNCHANGED <<step, acquired, response_length>>

Next ==
  \/ Succeed
  \/ Fail
  \/ \E size \in 0 .. MaxChunk : WriteChunk(size)
  \/ EndDownload

Spec == Init /\ [][Next]_vars

-----------------------------------------------------------------------------
(* What must hold.                                                         *)

TypeOK ==
  /\ step \in 1 .. Len(Steps) + 1
  /\ status \in {"running", "failed", "downloading", "done"}
  /\ held \subseteq Resources
  /\ acquired \subseteq Resources
  /\ response_length \in 0 .. SizeMax

(***************************************************************************)
(* NothingLeaks: by whichever of its exits main returns, all it has        *)
(* allocated and opened is freed (the lists at main.c:40-280 and 586-593   *)
(* and at tracker.c:333-381).                                              *)
(***************************************************************************)
NothingLeaks == status \in {"failed", "done"} => held = {}

(***************************************************************************)
(* FreedOnce: nothing is freed a second time: not by a list that names     *)
(* what an earlier step released, and not by main, or a callee of main,    *)
(* after a function it called has freed it in the same failure (main.c:43  *)
(* and 126-134, file_reader.c:86, tracker.c:349-381).  Freeing a pointer   *)
(* that is still NULL is allowed.                                          *)
(***************************************************************************)
FreedOnce ==
  /\ Running =>
       /\ This.frees \cap (acquired \ held) = {}
       /\ \A m, n \in 1 .. 3 : m # n => This.lists[m] \cap This.lists[n] = {}
  /\ status = "downloading" => CleanupAtEnd \subseteq held

(***************************************************************************)
(* BorrowedAlive: a step never works on what was released: the torrent's   *)
(* bytes outlive its tree, the tracker's bytes the list of peers           *)
(* (main.c:94-204).                                                        *)
(***************************************************************************)
BorrowedAlive == Running => This.borrows \subseteq held

(***************************************************************************)
(* ResponseGrows: the body is only ever appended to; its length does not   *)
(* wrap round, however many chunks come (tracker.c:395-411).               *)
(***************************************************************************)
ResponseGrows == [][response_length' >= response_length]_vars

-----------------------------------------------------------------------------
(* Why it holds: what a failure frees is what is held, at every step.      *)

\* The body comes while curl_easy_perform is the step, or never comes: it is
\* held only where a failure frees it, from its first chunk on and under its tree.
ResponseHeld ==
  /\ "response" \in held => "response" \in This.frees
  /\ "response" \in acquired => "response" \in held
  /\ "response_obj" \in held => "response" \in held

HeldIsFreed == held \cup {"response"} = This.frees \cup {"response"}

StartupInv ==
  /\ TypeOK
  /\ Running => step <= Len(Steps) /\ HeldIsFreed /\ ResponseHeld
  /\ status = "downloading" => held = CleanupAtEnd
  /\ NothingLeaks
=============================================================================
