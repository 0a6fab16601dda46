------------------------------ MODULE MCSwarm ------------------------------
(* The kinds of peers TLC puts into Swarm: every peer of a run is one of   *)
(* the profiles its .cfg names.                                            *)
EXTENDS Swarm

Peer(has, traits) == [has |-> has, traits |-> traits]

\* Peers of which none can leave loco waiting for ever.
Responsive ==
  { Peer(Pieces, {}), Peer({0}, {}), Peer({PieceCount - 1}, {}),
    Peer(Pieces, {"corrupt"}), Peer(Pieces, {"closes"}), Peer(Pieces, {"haves"}),
    Peer({0}, {"corrupt", "closes"}), Peer(Pieces, {"unreachable"}),
    Peer(Pieces, {"stranger"}) }

\* With peers that choke while a request is on the way.
Choking == { Peer(Pieces, {"chokes"}) }
ChokingToo ==
  { Peer(Pieces, {"chokes", "closes"}), Peer(Pieces, {"corrupt", "chokes", "closes"}),
    Peer(Pieces, {}), Peer({0}, {"haves", "chokes", "closes"}) }

\* With a peer that has nothing, and so sends no bitfield.
WithEmpty == { Peer(Pieces, {}), Peer({}, {}) }

\* Peers of which each has one piece.
OnePieceEach == { Peer({0}, {}), Peer({PieceCount - 1}, {}) }
=============================================================================
