--------------------------- MODULE TrackerResponse ---------------------------
(***************************************************************************)
(* What loco reads from the tracker's answer: tracker.c, lines 42-313 and  *)
(* 682-716, and main.c, lines 149-193.                                     *)
(***************************************************************************)
EXTENDS TorrentMetadata

CONSTANTS
  IntervalKey, PeersKey, IpKey, PortKey,
  IpLength,     \* PEER_IP_LENGTH, 4
  Addresses,    \* inet_pton: the texts that are addresses, with their bytes
  parse_bencode_buffer(_, _, _),  \* of data, a position and the heap, as Bencode has it
  free_bencode_object(_, _)       \* of the heap and an object

ASSUME TrackerAssumption ==
  /\ IpLength \in Nat \ {0}
  /\ \A text \in DOMAIN Addresses : Len(Addresses[text]) = IpLength

UINT16_MAX == 65535

-----------------------------------------------------------------------------
\* tracker_response_parse.  A body with something behind the value is
\* refused, and so is a value that is no dictionary.  (Looking at the type
\* only is a plausible mistake.)
IsDictionary(parsed, body) == parsed.object.type = "DICTIONARY"

IsWholeDictionary(parsed, body) ==
  /\ parsed.position = Len(body)
  /\ parsed.object.type = "DICTIONARY"

ParseResponse(body, heap) ==
  LET parsed == parse_bencode_buffer(body, 0, heap)
  IN IF ~parsed.ok \/ IsWholeDictionary(parsed, body) THEN parsed
     ELSE Failed(free_bencode_object(parsed.heap, parsed.object))

\* tracker.c has its own copy of find_entry_in_dictionary.
FindInResponse(body, response, name, type) == FindEntry(body, response, name, type)

FindInterval(body, response) == FindInResponse(body, response, IntervalKey, "INTEGER")

\* The compact form is looked for first.
FindPeers(body, response) ==
  LET compact == FindInResponse(body, response, PeersKey, "BYTE_STRING")
  IN IF Found(compact) THEN compact
     ELSE FindInResponse(body, response, PeersKey, "LIST")

-----------------------------------------------------------------------------
(* The compact form.                                                       *)

PeerSegmentLength == IpLength + 2

\* (The other order is a plausible mistake.)
PortLowFirst(high, low) == low * 256 + high

Port(high, low) == high * 256 + low

\* parse_peer_from_segment, of the peer whose bytes start behind offset.
ParsePeer(text, offset) ==
  [address |-> SubSeq(text, offset + 1, offset + IpLength),
   port |-> Port(text[offset + IpLength + 1], text[offset + IpLength + 2])]

Extracted(peers) == [ok |-> TRUE, peers |-> peers]

\* peers_extract_compact
ExtractCompact(text) ==
  IF Len(text) % PeerSegmentLength # 0 THEN [ok |-> FALSE]
  ELSE Extracted([k \in 1 .. Len(text) \div PeerSegmentLength |->
                    ParsePeer(text, (k - 1) * PeerSegmentLength)])

-----------------------------------------------------------------------------
(* The list.                                                               *)

\* The loop's variables: what was found for the current peer, and the peers
\* added so far.
ListLoop == [ip_found |-> FALSE, port_found |-> FALSE, address |-> <<>>, port |-> 0,
             peers |-> <<>>]

\* The flags are new for every item.  (Keeping them is a plausible mistake.)
FlagsKept(loop) == loop

FlagsCleared(loop) == [loop EXCEPT !.ip_found = FALSE, !.port_found = FALSE]

\* One entry of an item; one that is of no use is passed over.  A text that is
\* as long as INET_ADDRSTRLEN is passed over before inet_pton sees it: no such
\* text is in the domain of Addresses.
ReadEntry(body, loop, entry) ==
  LET name  == Text(body, entry.key)
      value == entry.value
  IN IF /\ name = IpKey
        /\ value.type = "BYTE_STRING"
        /\ Text(body, value.value) \in DOMAIN Addresses
     THEN [loop EXCEPT !.ip_found = TRUE, !.address = Addresses[Text(body, value.value)]]
     ELSE IF /\ name = PortKey
             /\ value.type = "INTEGER"
             /\ value.value \in 0 .. UINT16_MAX
     THEN [loop EXCEPT !.port_found = TRUE, !.port = value.value]
     ELSE loop

AddPeer(loop) ==
  IF loop.ip_found /\ loop.port_found
  THEN [loop EXCEPT !.peers = Append(@, [address |-> loop.address, port |-> loop.port])]
  ELSE loop

\* The entries of an item, in their order.
ReadEntries(body, loop, entries) ==
  LET read[k \in 0 .. Len(entries)] ==
        IF k = 0 THEN loop ELSE ReadEntry(body, read[k - 1], entries[k])
  IN read[Len(entries)]

ReadItem(body, loop, item) ==
  IF item.type # "DICTIONARY" THEN loop
  ELSE AddPeer(ReadEntries(body, FlagsCleared(loop), item.value.elements))

\* peers_extract_list
ExtractList(body, list) ==
  LET read[k \in 0 .. Len(list.elements)] ==
        IF k = 0 THEN ListLoop ELSE ReadItem(body, read[k - 1], list.elements[k].value)
  IN Extracted(read[Len(list.elements)].peers)

-----------------------------------------------------------------------------
\* main.c:181-193.  malloc is called when there is an element.
ExtractPeers(body, entry) ==
  IF entry.type = "BYTE_STRING" THEN ExtractCompact(Text(body, entry.value))
                                ELSE ExtractList(body, entry.value)
=============================================================================
