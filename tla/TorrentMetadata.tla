--------------------------- MODULE TorrentMetadata ---------------------------
(***************************************************************************)
(* What loco reads from a torrent: torrent_metadata.c.  The names of the   *)
(* entries are constants, any distinct keys in their order.                *)
(***************************************************************************)
EXTENDS BencodeBasics

CONSTANTS
  AnnounceKey, InfoKey, NameKey, LengthKey, PieceLengthKey, PiecesKey,
  HashLength    \* of a piece's SHA-1, 20

ASSUME MetadataAssumption == HashLength \in Nat \ {0}

-----------------------------------------------------------------------------
NotFound == [type |-> "NOT_FOUND"]
Found(object) == object.type # "NOT_FOUND"

\* find_entry_in_dictionary: the first entry of that name and that type.
MatchingEntries(data, root, name, type) ==
  { k \in DOMAIN root.value.elements :
      /\ Text(data, root.value.elements[k].key) = name
      /\ root.value.elements[k].value.type = type }

FindEntry(data, root, name, type) ==
  IF root.type # "DICTIONARY" \/ MatchingEntries(data, root, name, type) = {}
  THEN NotFound
  ELSE root.value.elements[Min(MatchingEntries(data, root, name, type))].value

\* An entry that was found counts only when its value passes a test.
FoundAnd(entry, passes) == IF Found(entry) /\ ~passes THEN NotFound ELSE entry

FindAnnounce(data, root) == FindEntry(data, root, AnnounceKey, "BYTE_STRING")
FindInfo(data, root) == FindEntry(data, root, InfoKey, "DICTIONARY")
FindName(data, info) == FindEntry(data, info, NameKey, "BYTE_STRING")

FindLength(data, info) ==
  LET entry == FindEntry(data, info, LengthKey, "INTEGER")
  IN FoundAnd(entry, entry.value >= 0)

FindPieceLength(data, info) ==
  LET entry == FindEntry(data, info, PieceLengthKey, "INTEGER")
  IN FoundAnd(entry, entry.value > 0)

\* (Not looking at what is left over is a plausible mistake.)
AnyPieces(data, info) == FindEntry(data, info, PiecesKey, "BYTE_STRING")

FindPieces(data, info) ==
  LET entry == FindEntry(data, info, PiecesKey, "BYTE_STRING")
  IN FoundAnd(entry, entry.value.length % HashLength = 0)

-----------------------------------------------------------------------------
\* The bytes that are hashed.  (Those behind the dictionary's tag are a
\* plausible mistake.)
SpanBehindTag(info) == Segment(info.start_offset + 1, info.encoded_length - 1)

InfoSpan(info) == Segment(info.start_offset, info.encoded_length)

\* torrent_metadata_extract_info
ExtractInfo(data, root) ==
  LET info         == FindInfo(data, root)
      name         == FindName(data, info)
      length       == FindLength(data, info)
      piece_length == FindPieceLength(data, info)
      pieces       == FindPieces(data, info)
  IN IF Found(info) /\ Found(name) /\ Found(length) /\ Found(piece_length) /\ Found(pieces)
     THEN [ok |-> TRUE, name |-> name.value, length |-> length.value,
           piece_length |-> piece_length.value, pieces |-> pieces.value,
           info_span |-> InfoSpan(info)]
     ELSE [ok |-> FALSE]

\* torrent_metadata_extract
ExtractMetadata(data, root) ==
  LET announce == FindAnnounce(data, root)
      info     == ExtractInfo(data, root)
  IN IF Found(announce) /\ info.ok
     THEN [ok |-> TRUE, announce |-> announce.value, info |-> info]
     ELSE [ok |-> FALSE]
=============================================================================
