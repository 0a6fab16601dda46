------------------------------- MODULE Swarm -------------------------------
(***************************************************************************)
(* loco's download loop against remote peers that follow the protocol,     *)
(* each with its own faults: Download composed with one FIFO channel in    *)
(* each direction of the current TCP connection.  Download alone lets      *)
(* anything arrive; here an answer needs a request, and so it can be asked *)
(* whether loco ever finishes.                                             *)
(*                                                                         *)
(* A remote peer is modelled from what main.c sends it and waits for.  It  *)
(* announces what it has, unchokes a client that is interested, and        *)
(* answers the requests it reads while it is not choking, one answer for   *)
(* each.  Its traits:                                                      *)
(*   unreachable   it cannot be connected to                               *)
(*   stranger      its handshake is for another torrent                    *)
(*   corrupt       its blocks are not the torrent's                        *)
(*   closes        it may close the connection at any time                 *)
(*   chokes        it may choke again, and forgets unread requests then    *)
(*   haves         it announces with have messages, not with a bitfield    *)
(* A peer that has nothing announces nothing.                              *)
(*                                                                         *)
(* The disk and the allocator do not fail here; Download covers that.      *)
(***************************************************************************)
EXTENDS Download, Sequences, FiniteSets, SequencesExt

CONSTANTS
  Profiles,   \* the kinds of peers: records of the pieces one has and its traits
  MaxChokes   \* bound: how often one peer chokes again

Traits == {"unreachable", "stranger", "corrupt", "closes", "chokes", "haves"}

ASSUME SwarmAssumption ==
  /\ Profiles \subseteq [has : SUBSET Pieces, traits : SUBSET Traits]
  /\ MaxChokes \in Nat

VARIABLES
  profile,    \* what kind of peer each one is; never changes
  inbox,      \* sent by the current peer, not yet received by loco
  outbox,     \* sent by loco, not yet read by the current peer
  remote      \* the state of the current peer

swarmVars == <<profile, inbox, outbox, remote>>
allVars == <<vars, swarmVars>>

-----------------------------------------------------------------------------
Peers == 0 .. PeerCount - 1

NewRemote == [announced |-> FALSE, interested |-> FALSE, choking |-> TRUE,
              chokes |-> 0, closed |-> FALSE]

SwarmInit ==
  /\ Init
  /\ profile \in [Peers -> Profiles]
  /\ inbox = <<>>
  /\ outbox = <<>>
  /\ remote = NewRemote

Trait(t) == i \in Peers /\ t \in profile[i].traits
Connected == pc \in {"receive", "check", "serve"}

\* The messages on the wire that the two sides tell apart.
Plain(type) == [type |-> type]
Have(k) == [type |-> "have", index |-> k]
Bitfield(bits) == [type |-> "bitfield", bits |-> bits]
Request(index, begin, length) ==
  [type |-> "request", index |-> index, begin |-> begin, length |-> length]
Piece(index, begin, length, genuine) ==
  [type |-> "piece", index |-> index, begin |-> begin, length |-> length,
   genuine |-> genuine]

-----------------------------------------------------------------------------
(* loco.                                                                   *)

LocoConnects ==
  /\ IF Trait("unreachable") THEN ConnectFails ELSE ConnectSucceeds
  /\ UNCHANGED swarmVars

LocoShakesHands ==
  /\ IF Trait("stranger") THEN HandshakeFails ELSE HandshakeSucceeds
  /\ UNCHANGED swarmVars

\* The switch over the message id (main.c:361).
Handle(m) ==
  \/ m.type = "choke" /\ ReceiveChoke
  \/ m.type = "unchoke" /\ ReceiveUnchoke
  \/ m.type = "have" /\ ReceiveHave(m.index)
  \/ m.type = "bitfield" /\ (ReceiveBitfield(m.bits) \/ RejectBitfield(TRUE))
  \/ m.type = "piece" /\ \/ AcceptPiece(m.index, m.begin, m.length, m.genuine)
                         \/ RejectPiece(m.index, m.begin, m.length)

LocoReceives ==
  /\ inbox # <<>>
  /\ Handle(Head(inbox))
  /\ inbox' = Tail(inbox)
  /\ UNCHANGED <<profile, outbox, remote>>

LocoSeesClose ==
  /\ inbox = <<>>
  /\ remote.closed
  /\ ReceiveFails
  /\ UNCHANGED swarmVars

LocoChecks ==
  /\ PieceNotReceived \/ HashMismatch \/ StorePiece
  /\ UNCHANGED swarmVars

\* What is sent to a peer that has closed is lost, or the send fails.
LocoSends(m) ==
  /\ outbox' = IF remote.closed THEN outbox ELSE Append(outbox, m)
  /\ UNCHANGED <<profile, inbox, remote>>

LocoServes ==
  \/ SendInterested /\ LocoSends(Plain("interested"))
  \/ SendRequest /\ LocoSends(Request(piece_index, bytes_received, RequestLength))
  \/ /\ NothingAnnounced \/ PeerUnusable \/ NothingToRequest
     /\ UNCHANGED swarmVars
  \/ /\ remote.closed
     /\ SendInterestedFails \/ RequestNotSent
     /\ UNCHANGED swarmVars

\* Closing the socket discards what is in flight.
LocoDrops ==
  /\ DropPeer
  /\ inbox' = <<>>
  /\ outbox' = <<>>
  /\ remote' = NewRemote
  /\ UNCHANGED profile

LocoLeaves == LeaveLoop /\ UNCHANGED swarmVars

Loco ==
  \/ LocoConnects \/ LocoShakesHands \/ LocoReceives \/ LocoSeesClose
  \/ LocoChecks \/ LocoServes \/ LocoDrops \/ LocoLeaves

-----------------------------------------------------------------------------
(* The remote peer.                                                        *)

RemoteActive == Connected /\ ~remote.closed

RemoteAnnounces ==
  /\ RemoteActive
  /\ ~remote.announced
  /\ profile[i].has # {}
  /\ remote' = [remote EXCEPT !.announced = TRUE]
  /\ LET has == profile[i].has
     IN inbox' = IF Trait("haves")
                 THEN inbox \o [n \in 1 .. Cardinality(has) |-> Have(SetToSeq(has)[n])]
                 ELSE Append(inbox, Bitfield(has))
  /\ UNCHANGED <<vars, profile, outbox>>

RemoteUnchokes ==
  /\ RemoteActive
  /\ remote.announced /\ remote.interested /\ remote.choking
  /\ remote' = [remote EXCEPT !.choking = FALSE]
  /\ inbox' = Append(inbox, Plain("unchoke"))
  /\ UNCHANGED <<vars, profile, outbox>>

\* Requests that were not read yet will be read by a peer that is choking.
RemoteChokes ==
  /\ RemoteActive
  /\ Trait("chokes")
  /\ ~remote.choking
  /\ remote.chokes < MaxChokes
  /\ remote' = [remote EXCEPT !.choking = TRUE, !.chokes = @ + 1]
  /\ inbox' = Append(inbox, Plain("choke"))
  /\ UNCHANGED <<vars, profile, outbox>>

CanAnswer(m) ==
  /\ m.type = "request"
  /\ ~remote.choking
  /\ m.index \in profile[i].has

RemoteReads ==
  /\ RemoteActive
  /\ outbox # <<>>
  /\ outbox' = Tail(outbox)
  /\ LET m == Head(outbox)
     IN /\ remote' = IF m.type = "interested"
                     THEN [remote EXCEPT !.interested = TRUE] ELSE remote
        /\ inbox' = IF CanAnswer(m)
                    THEN Append(inbox, Piece(m.index, m.begin, m.length, ~Trait("corrupt")))
                    ELSE inbox
  /\ UNCHANGED <<vars, profile>>

RemoteCloses ==
  /\ RemoteActive
  /\ Trait("closes")
  /\ remote' = [remote EXCEPT !.closed = TRUE]
  /\ UNCHANGED <<vars, profile, inbox, outbox>>

Remote ==
  RemoteAnnounces \/ RemoteUnchokes \/ RemoteChokes \/ RemoteReads \/ RemoteCloses

-----------------------------------------------------------------------------
SwarmNext == Loco \/ Remote

\* loco runs whenever it can, and so does a remote peer that has something
\* to announce, to read or to unchoke; no peer has to choke or to close.
SwarmFairness ==
  /\ WF_allVars(Loco)
  /\ WF_allVars(RemoteAnnounces)
  /\ WF_allVars(RemoteUnchokes)
  /\ WF_allVars(RemoteReads)

SwarmSpec == SwarmInit /\ [][SwarmNext]_allVars /\ SwarmFairness

-----------------------------------------------------------------------------
(* What must hold.                                                         *)

MessagesOf(type, channel) == {n \in DOMAIN channel : channel[n].type = type}

\* The requests and the answers of the current connection that are on the way.
InFlight ==
  Cardinality(MessagesOf("request", outbox)) + Cardinality(MessagesOf("piece", inbox))

(***************************************************************************)
(* OneInFlight: loco never has two requests under way, and the request or  *)
(* the answer that is under way is the one it has noted as pending, so the *)
(* answer of a peer that follows the protocol is never refused             *)
(* (main.c:545-575 against peer_connection.c:729-750).  A peer that is     *)
(* being dropped is not read from any more: an empty last piece is         *)
(* complete while the request for it is still under way.                   *)
(***************************************************************************)
OneInFlight ==
  /\ InFlight <= 1
  /\ pc # "drop" =>
       /\ \A n \in MessagesOf("piece", inbox) :
            IsRequested(inbox[n].index, inbox[n].begin, inbox[n].length)
       /\ \A n \in MessagesOf("request", outbox) :
            IsRequested(outbox[n].index, outbox[n].begin, outbox[n].length)

(***************************************************************************)
(* HonestNeverBlamed: a piece whose blocks came from a peer that sends the *)
(* torrent's bytes always passes the hash check; no byte of an earlier,    *)
(* corrupt peer is ever mixed into it (main.c:437-441 and 582).            *)
(***************************************************************************)
HonestNeverBlamed ==
  pc = "check" /\ PieceReceived /\ ~Trait("corrupt") => HashMatches

\* A peer that can give the whole torrent, in the way loco asks for it.
IsSeed(p) == profile[p].has = Pieces /\ profile[p].traits = {}

(***************************************************************************)
(* SeedKept: loco leaves a peer that has everything and misbehaves in      *)
(* nothing only when the download is complete (main.c:345-577).            *)
(***************************************************************************)
SeedKept == [][ i' # i /\ IsSeed(i) => download_complete ]_allVars

(***************************************************************************)
(* SeedSuffices: if one of the peers is such a seed, and no peer can leave *)
(* loco waiting, the download completes, whatever the peers before it do.  *)
(***************************************************************************)
SeedSuffices == (\E p \in Peers : IsSeed(p)) => <>(pc = "exit" /\ download_complete)

(***************************************************************************)
(* Returns: loco gets to the end of its list of peers or of the download.  *)
(* README.md:68 promises it for a peer that cannot provide the piece and   *)
(* for a connection that fails.                                            *)
(***************************************************************************)
Returns == <>(pc = "exit")

(***************************************************************************)
(* PeerLeft: README.md:68, "If the current peer cannot provide the         *)
(* required piece or the connection fails, `loco` tries another peer       *)
(* returned by the tracker".  A peer without the required piece is left    *)
(* when a seed follows it in the list.                                     *)
(***************************************************************************)
PeerLeft ==
  \A p \in Peers :
    /\ i = p /\ Connected /\ piece_index \notin profile[p].has
    /\ \E q \in Peers : q > p /\ IsSeed(q)
    ~> i # p

(***************************************************************************)
(* FailureMeansNobodyHas: README.md:68 again.  loco gives up only when no  *)
(* peer the tracker returned can provide the piece it needs.               *)
(***************************************************************************)
FailureMeansNobodyHas ==
  pc = "exit" /\ ~download_complete =>
    \A p \in Peers : piece_index \notin profile[p].has

(***************************************************************************)
(* ChokingSeedSuffices: README.md:39 lists "choking and unchoking".  A     *)
(* seed that chokes for a while and unchokes again still gives the         *)
(* torrent.                                                                *)
(***************************************************************************)
ChokingSeedSuffices ==
  (\A p \in Peers : profile[p].has = Pieces /\ profile[p].traits = {"chokes"})
    => <>download_complete

-----------------------------------------------------------------------------
(* Why the safety properties hold.                                         *)

PeerMessages ==
  {Plain("choke"), Plain("unchoke")}
  \cup {Have(k) : k \in Pieces}
  \cup {Bitfield(bits) : bits \in SUBSET Pieces}
  \cup {Piece(index, begin, length, genuine) :
           index \in Pieces, begin \in 0 .. FirstPieceSize, length \in 0 .. BlockSize,
           genuine \in BOOLEAN}

LocoMessages ==
  {Plain("interested")}
  \cup {Request(index, begin, length) :
           index \in Pieces, begin \in 0 .. FirstPieceSize, length \in 0 .. BlockSize}

SwarmTypeOK ==
  /\ profile \in [Peers -> Profiles]
  /\ inbox \in Seq(PeerMessages)
  /\ outbox \in Seq(LocoMessages)
  /\ remote \in [announced : BOOLEAN, interested : BOOLEAN, choking : BOOLEAN,
                  chokes : 0 .. MaxChokes, closed : BOOLEAN]

\* Nothing is left of the connection to an earlier peer.
FreshChannel == pc \in {"next_peer", "handshake", "exit"} => inbox = <<>> /\ outbox = <<>>

\* Of all requests and answers, at most one is under way.
OneUnderWay ==
  LET asked    == MessagesOf("request", outbox)
      answered == MessagesOf("piece", inbox)
  IN /\ asked = {} \/ answered = {}
     /\ \A m, n \in asked : m = n
     /\ \A m, n \in answered : m = n

\* Only a corrupt peer sends, and only a corrupt peer has sent, other bytes.
HonestBytes ==
  ~Trait("corrupt") =>
    /\ \A n \in MessagesOf("piece", inbox) : inbox[n].genuine
    /\ \A j \in 0 .. bytes_received - 1 : piece_buffer[j] = PieceStart(piece_index) + j

(***************************************************************************)
(* SwarmInv: the loop's invariant with what is on the way to and from the  *)
(* current peer (main.c:292-584).                                          *)
(***************************************************************************)
SwarmInv ==
  /\ Inv
  /\ SwarmTypeOK
  /\ FreshChannel
  /\ OneUnderWay
  /\ OneInFlight
  /\ HonestBytes

-----------------------------------------------------------------------------
(* Why a seed is kept.                                                     *)

\* Nothing is known of a peer before it is connected to.
FreshPeer ==
  pc \in {"next_peer", "handshake", "exit"} => remote = NewRemote /\ ~have_bitfield

\* A seed stays, and announces itself once: loco has no bitfield of it, or the
\* bitfield of all pieces is under way, or that is the one loco has.
SeedHeard ==
  i \in Peers /\ IsSeed(i) =>
    LET bitfields == MessagesOf("bitfield", inbox)
    IN /\ ~remote.closed
       /\ MessagesOf("have", inbox) = {}
       /\ \A n \in bitfields : inbox[n].bits = Pieces
       /\ \A m, n \in bitfields : m = n
       /\ have_bitfield \/ bitfields # {} => remote.announced
       /\ have_bitfield => bitfield = Pieces /\ bitfields = {}

\* loco is through with a seed only when it is done, unless the layout of the
\* last piece is refused.
SeedDropped ==
  i \in Peers /\ IsSeed(i) /\ WellFormed /\ pc = "drop" => download_complete

(***************************************************************************)
(* SeedInv: SwarmInv with what loco knows of a seed and what it has still  *)
(* to hear of it (main.c:345-577, peer_connection.c:656-705).              *)
(***************************************************************************)
SeedInv ==
  /\ SwarmInv
  /\ FreshPeer
  /\ SeedHeard
  /\ SeedDropped
=============================================================================
