----------------------------- MODULE MCPeerWire -----------------------------
(* The messages TLC sends through PeerWire.  Payloads are cut down to a few *)
(* bytes: MaxPayload and MaxPiecePayload are small in the .cfg.             *)
EXTENDS PeerWire

M(prefix, id) == [prefix |-> prefix, id |-> id]

\* Every accepted shape, and one of each kind that is refused: an unknown
\* id, a choke with a payload, a short piece, and payloads over both limits.
MCMessage ==
  { M(0, PEER_MESSAGE_INVALID), M(1, PEER_MESSAGE_CHOKE), M(5, PEER_MESSAGE_HAVE),
    M(1, PEER_MESSAGE_BITFIELD), M(3, PEER_MESSAGE_BITFIELD),
    M(9, PEER_MESSAGE_PIECE), M(10, PEER_MESSAGE_PIECE),
    M(1, PEER_MESSAGE_INVALID), M(2, PEER_MESSAGE_UNCHOKE),
    M(4, PEER_MESSAGE_PIECE), M(12, PEER_MESSAGE_PIECE),
    M(16, PEER_MESSAGE_BITFIELD) }
=============================================================================
