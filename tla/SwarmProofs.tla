----------------------------- MODULE SwarmProofs -----------------------------
(***************************************************************************)
(* Proofs about Swarm: among peers that follow the protocol the loop still *)
(* behaves as Download says, never has two requests under way, and never   *)
(* blames a peer that sent the torrent's bytes.                            *)
(***************************************************************************)
EXTENDS Swarm, DownloadProofs, FiniteSetTheorems

USE TorrentAssumption, DownloadAssumption, SwarmAssumption

-----------------------------------------------------------------------------
(* Channels.                                                               *)

LEMMA TailChannel ==
  ASSUME NEW S, NEW c \in Seq(S), c # <<>>
  PROVE  /\ Tail(c) \in Seq(S) /\ Head(c) = c[1] /\ 1 \in DOMAIN c /\ c[1] \in S
         /\ \A n \in DOMAIN Tail(c) : n \in Nat /\ n + 1 \in DOMAIN c /\ Tail(c)[n] = c[n + 1]
OBVIOUS

LEMMA AppendChannel ==
  ASSUME NEW S, NEW c \in Seq(S), NEW m \in S
  PROVE  /\ Append(c, m) \in Seq(S) /\ Len(c) \in Nat
         /\ DOMAIN Append(c, m) = DOMAIN c \cup {Len(c) + 1}
         /\ \A n \in DOMAIN c : Append(c, m)[n] = c[n]
         /\ Append(c, m)[Len(c) + 1] = m
OBVIOUS

LEMMA JoinChannel ==
  ASSUME NEW S, NEW c \in Seq(S), NEW d \in Seq(S)
  PROVE  /\ c \o d \in Seq(S)
         /\ \A n \in DOMAIN c : n \in DOMAIN (c \o d) /\ (c \o d)[n] = c[n]
         /\ \A n \in DOMAIN (c \o d) :
              n \in DOMAIN c \/ \E k \in DOMAIN d : (c \o d)[n] = d[k]
<1>1. c \o d \in Seq(S) /\ Len(c \o d) = Len(c) + Len(d) /\ Len(c) \in Nat /\ Len(d) \in Nat
  OBVIOUS
<1>2. ASSUME NEW n \in DOMAIN c PROVE n \in DOMAIN (c \o d) /\ (c \o d)[n] = c[n]
  OBVIOUS
<1>3. ASSUME NEW n \in DOMAIN (c \o d), n \notin DOMAIN c
      PROVE  \E k \in DOMAIN d : (c \o d)[n] = d[k]
  <2>1. n - Len(c) \in DOMAIN d /\ (c \o d)[n] = d[n - Len(c)]
    BY <1>1, <1>3
  <2> QED
    BY <2>1
<1> QED
  BY <1>1, <1>2, <1>3

\* What a message of a type that is not counted leaves as it was.
LEMMA AppendOther ==
  ASSUME NEW S, NEW c \in Seq(S), NEW m \in S, NEW type, m.type # type
  PROVE  /\ MessagesOf(type, Append(c, m)) = MessagesOf(type, c)
         /\ \A n \in MessagesOf(type, c) : Append(c, m)[n] = c[n]
<1>1. /\ DOMAIN Append(c, m) = DOMAIN c \cup {Len(c) + 1}
      /\ \A n \in DOMAIN c : Append(c, m)[n] = c[n]
      /\ Append(c, m)[Len(c) + 1] = m
  BY AppendChannel
<1> QED
  BY <1>1 DEF MessagesOf

LEMMA AppendFirst ==
  ASSUME NEW S, NEW c \in Seq(S), NEW m \in S, NEW type, MessagesOf(type, c) = {}
  PROVE  \A n \in MessagesOf(type, Append(c, m)) : n = Len(c) + 1 /\ Append(c, m)[n] = m
<1>1. /\ DOMAIN Append(c, m) = DOMAIN c \cup {Len(c) + 1}
      /\ \A n \in DOMAIN c : Append(c, m)[n] = c[n]
      /\ Append(c, m)[Len(c) + 1] = m
  BY AppendChannel
<1> QED
  BY <1>1 DEF MessagesOf

LEMMA JoinOther ==
  ASSUME NEW S, NEW c \in Seq(S), NEW d \in Seq(S), NEW type,
         \A k \in DOMAIN d : d[k].type # type
  PROVE  /\ MessagesOf(type, c \o d) = MessagesOf(type, c)
         /\ \A n \in MessagesOf(type, c) : (c \o d)[n] = c[n]
<1>1. /\ \A n \in DOMAIN c : n \in DOMAIN (c \o d) /\ (c \o d)[n] = c[n]
      /\ \A n \in DOMAIN (c \o d) :
           n \in DOMAIN c \/ \E k \in DOMAIN d : (c \o d)[n] = d[k]
  BY JoinChannel
<1> QED
  BY <1>1 DEF MessagesOf

LEMMA TailMessages ==
  ASSUME NEW S, NEW c \in Seq(S), c # <<>>, NEW type
  PROVE  \A n \in MessagesOf(type, Tail(c)) :
           n \in Nat /\ n + 1 \in MessagesOf(type, c) /\ Tail(c)[n] = c[n + 1]
<1>1. \A n \in DOMAIN Tail(c) : n \in Nat /\ n + 1 \in DOMAIN c /\ Tail(c)[n] = c[n + 1]
  BY TailChannel
<1> QED
  BY <1>1 DEF MessagesOf

LEMMA AtMostOne ==
  ASSUME NEW A, NEW B, A = {} \/ B = {},
         \A m, n \in A : m = n, \A m, n \in B : m = n
  PROVE  Cardinality(A) + Cardinality(B) <= 1
<1>1. ASSUME NEW C, \A m, n \in C : m = n
      PROVE  Cardinality(C) \in {0, 1} /\ (C = {} => Cardinality(C) = 0)
  <2>1. CASE C = {}
    BY <2>1, FS_EmptySet
  <2>2. CASE C # {}
    <3> PICK x : x \in C
      BY <2>2
    <3>1. C = {x}
      BY <1>1
    <3> QED
      BY <3>1, FS_Singleton
  <2> QED
    BY <2>1, <2>2
<1>2. Cardinality(A) \in {0, 1} /\ (A = {} => Cardinality(A) = 0)
  BY <1>1
<1>3. Cardinality(B) \in {0, 1} /\ (B = {} => Cardinality(B) = 0)
  BY <1>1
<1> QED
  BY <1>2, <1>3

-----------------------------------------------------------------------------
(* The messages.                                                           *)

LEMMA PeerMessageKinds ==
  ASSUME NEW m \in PeerMessages
  PROVE  /\ m.type \in {"choke", "unchoke", "have", "bitfield", "piece"}
         /\ m.type = "have" => m.index \in Pieces
         /\ m.type = "bitfield" => m.bits \in SUBSET Pieces
         /\ m.type = "piece" =>
              /\ m.index \in Pieces /\ m.begin \in 0 .. FirstPieceSize
              /\ m.length \in 0 .. BlockSize /\ m.genuine \in BOOLEAN
<1>1. CASE m \in {Plain("choke"), Plain("unchoke")}
  BY <1>1 DEF Plain
<1>2. CASE m \in {Have(k) : k \in Pieces}
  BY <1>2 DEF Have
<1>3. CASE m \in {Bitfield(bits) : bits \in SUBSET Pieces}
  BY <1>3 DEF Bitfield
<1>4. CASE m \in {Piece(index, begin, length, genuine) :
                    index \in Pieces, begin \in 0 .. FirstPieceSize,
                    length \in 0 .. BlockSize, genuine \in BOOLEAN}
  <2> PICK index \in Pieces, begin \in 0 .. FirstPieceSize, length \in 0 .. BlockSize,
           genuine \in BOOLEAN : m = Piece(index, begin, length, genuine)
    BY <1>4
  <2> QED
    BY DEF Piece
<1> QED
  BY <1>1, <1>2, <1>3, <1>4 DEF PeerMessages

LEMMA LocoMessageKinds ==
  ASSUME NEW m \in LocoMessages
  PROVE  m.type = "request" =>
           /\ m.index \in Pieces /\ m.begin \in 0 .. FirstPieceSize
           /\ m.length \in 0 .. BlockSize
<1>1. CASE m = Plain("interested")
  BY <1>1 DEF Plain
<1>2. CASE m \in {Request(index, begin, length) :
                    index \in Pieces, begin \in 0 .. FirstPieceSize, length \in 0 .. BlockSize}
  <2> PICK index \in Pieces, begin \in 0 .. FirstPieceSize, length \in 0 .. BlockSize :
             m = Request(index, begin, length)
    BY <1>2
  <2> QED
    BY DEF Request
<1> QED
  BY <1>1, <1>2 DEF LocoMessages

LEMMA PieceIsMessage ==
  ASSUME NEW index \in Pieces, NEW begin \in 0 .. FirstPieceSize,
         NEW length \in 0 .. BlockSize, NEW genuine \in BOOLEAN
  PROVE  Piece(index, begin, length, genuine) \in PeerMessages
BY DEF PeerMessages

\* The have messages of a peer are for pieces of the torrent.
LEMMA Haves ==
  ASSUME NEW has \in SUBSET Pieces
  PROVE  /\ [n \in 1 .. Cardinality(has) |-> Have(SetToSeq(has)[n])] \in Seq(PeerMessages)
         /\ \A n \in DOMAIN [n \in 1 .. Cardinality(has) |-> Have(SetToSeq(has)[n])] :
              [k \in 1 .. Cardinality(has) |-> Have(SetToSeq(has)[k])][n].type = "have"
<1>1. IsFiniteSet(has) /\ Cardinality(has) \in Nat
  <2>1. IsFiniteSet(Pieces)
    BY FS_Interval DEF Pieces
  <2> QED
    BY <2>1, FS_Subset, FS_CardinalityType
<1>2. \E f \in [1 .. Cardinality(has) -> has] : IsInjective(f)
  <2>1. PICK n \in Nat : ExistsBijection(1 .. n, has)
    BY <1>1, FS_NatBijection
  <2>2. n = Cardinality(has)
    BY <2>1, FS_CountingElements
  <2>3. PICK f : f \in Bijection(1 .. n, has)
    BY <2>1 DEF ExistsBijection
  <2>4. f \in [1 .. n -> has] /\ IsInjective(f)
    BY <2>3 DEF Bijection, Injection, IsInjective
  <2> QED
    BY <2>2, <2>4
<1>3. SetToSeq(has) \in [1 .. Cardinality(has) -> has]
  BY <1>2 DEF SetToSeq
<1>4. \A n \in 1 .. Cardinality(has) : Have(SetToSeq(has)[n]) \in PeerMessages
  BY <1>3 DEF PeerMessages
<1> QED
  BY <1>1, <1>4 DEF Have

-----------------------------------------------------------------------------
(* Swarm's steps are Download's.                                           *)

LEMMA HandledIsReceived ==
  ASSUME NEW m \in PeerMessages, Handle(m)
  PROVE  Receive
<1>1. CASE m.type \in {"choke", "unchoke"}
  BY <1>1 DEF Handle, Receive
<1>2. CASE m.type = "have"
  <2>1. ReceiveHave(m.index) /\ m.index \in 0 .. PieceCount
    BY <1>2, PeerMessageKinds DEF Handle, Pieces
  <2> QED
    BY <2>1 DEF Receive
<1>3. CASE m.type = "bitfield"
  <2>1. ReceiveBitfield(m.bits) \/ RejectBitfield(TRUE)
    BY <1>3 DEF Handle
  <2>2. m.bits \in SUBSET Pieces
    BY <1>3, PeerMessageKinds
  <2> QED
    BY <2>1, <2>2 DEF Receive
<1>4. CASE m.type = "piece"
  <2>1. \/ AcceptPiece(m.index, m.begin, m.length, m.genuine)
        \/ RejectPiece(m.index, m.begin, m.length)
    BY <1>4 DEF Handle
  <2>2. /\ m.index \in 0 .. PieceCount /\ m.begin \in 0 .. FirstPieceSize
        /\ m.length \in 0 .. BlockSize /\ m.genuine \in BOOLEAN
    BY <1>4, PeerMessageKinds DEF Pieces
  <2> QED
    BY <2>1, <2>2 DEF Receive
<1> QED
  BY <1>1, <1>2, <1>3, <1>4, PeerMessageKinds

LEMMA SwarmStep == SwarmTypeOK /\ [SwarmNext]_allVars => [Next]_vars
<1> SUFFICES ASSUME SwarmTypeOK, [SwarmNext]_allVars PROVE Next \/ UNCHANGED vars
  OBVIOUS
<1>1. CASE LocoReceives
  <2>1. Head(inbox) \in PeerMessages
    BY <1>1, TailChannel DEF LocoReceives, SwarmTypeOK
  <2>2. Receive
    BY <1>1, <2>1, HandledIsReceived DEF LocoReceives
  <2> QED
    BY <2>2 DEF Next
<1>2. CASE LocoConnects \/ LocoShakesHands
  BY <1>2 DEF LocoConnects, LocoShakesHands, Next, Connect
<1>3. CASE LocoSeesClose
  BY <1>3 DEF LocoSeesClose, Next, Receive
<1>4. CASE LocoChecks
  BY <1>4 DEF LocoChecks, Next, Check
<1>5. CASE LocoServes
  BY <1>5 DEF LocoServes, Next, Serve
<1>6. CASE LocoDrops \/ LocoLeaves
  BY <1>6 DEF LocoDrops, LocoLeaves, Next
<1>7. CASE Remote
  BY <1>7
  DEF Remote, RemoteAnnounces, RemoteUnchokes, RemoteChokes, RemoteReads, RemoteCloses
<1>8. CASE UNCHANGED allVars
  BY <1>8 DEF allVars
<1> QED
  BY <1>1, <1>2, <1>3, <1>4, <1>5, <1>6, <1>7, <1>8 DEF SwarmNext, Loco

-----------------------------------------------------------------------------
(* The invariant.                                                          *)

Requests == MessagesOf("request", outbox)
Answers  == MessagesOf("piece", inbox)

\* OneInFlight without the count, which OneUnderWay bounds.
Noted ==
  pc # "drop" =>
    /\ \A n \in Answers : IsRequested(inbox[n].index, inbox[n].begin, inbox[n].length)
    /\ \A n \in Requests : IsRequested(outbox[n].index, outbox[n].begin, outbox[n].length)

LEMMA OneUnderWayMeans ==
  OneUnderWay <=> /\ Requests = {} \/ Answers = {}
                  /\ \A m, n \in Requests : m = n
                  /\ \A m, n \in Answers : m = n
BY DEF OneUnderWay, Requests, Answers

LEMMA CountFollows == OneUnderWay => (OneInFlight <=> Noted)
<1> SUFFICES ASSUME OneUnderWay PROVE OneInFlight <=> Noted
  OBVIOUS
<1>1. InFlight <= 1
  BY OneUnderWayMeans, AtMostOne DEF InFlight, Requests, Answers
<1> QED
  BY <1>1 DEF OneInFlight, Noted, Requests, Answers

\* The parts of the invariant, with the count of messages left out.
LEMMA SwarmInvMeans ==
  SwarmInv <=> Inv /\ SwarmTypeOK /\ FreshChannel /\ OneUnderWay /\ Noted /\ HonestBytes
BY CountFollows DEF SwarmInv

LEMMA SwarmInvNext ==
  (Inv /\ SwarmTypeOK /\ FreshChannel /\ OneUnderWay /\ Noted /\ HonestBytes)' => SwarmInv'
BY SwarmInvMeans, PTL

\* A new connection, or none.
LEMMA EmptyChannels ==
  ASSUME Inv', SwarmTypeOK', inbox' = <<>>, outbox' = <<>>, bytes_received' = 0
  PROVE  SwarmInv'
<1>1. MessagesOf("request", outbox') = {} /\ MessagesOf("piece", inbox') = {}
  BY DEF MessagesOf
<1>2. FreshChannel' /\ OneUnderWay' /\ Noted' /\ HonestBytes'
  BY <1>1 DEF FreshChannel, OneUnderWay, Noted, Requests, Answers, HonestBytes
<1> QED
  BY <1>2, SwarmInvNext

\* Steps that settle no request: what is on the way may become less.
Fewer(now, before, channel, earlier) ==
  /\ \A n \in now : channel[n] \in {earlier[k] : k \in before}
  /\ before = {} => now = {}
  /\ (\A m, n \in before : m = n) => \A m, n \in now : m = n

LEMMA Steady ==
  ASSUME SwarmInv, Inv', SwarmTypeOK',
         UNCHANGED <<i, profile, piece_index, piece_size, piece_buffer, requestVars>>,
         Fewer(Requests', Requests, outbox', outbox),
         Fewer(Answers', Answers, inbox', inbox),
         pc # "drop", pc' \in {"receive", "check", "serve", "drop", "overrun"}
  PROVE  SwarmInv'
<1>1. FreshChannel'
  BY DEF FreshChannel
<1>2. OneUnderWay'
  BY OneUnderWayMeans DEF SwarmInv, Fewer, Requests, Answers, OneUnderWay
<1>3. Noted'
  <2>1. /\ \A n \in Answers : IsRequested(inbox[n].index, inbox[n].begin, inbox[n].length)
        /\ \A n \in Requests : IsRequested(outbox[n].index, outbox[n].begin, outbox[n].length)
    BY SwarmInvMeans DEF Noted
  <2>2. \A index, begin, length :
          IsRequested(index, begin, length) => IsRequested(index, begin, length)'
    BY DEF IsRequested, requestVars
  <2> QED
    BY <2>1, <2>2 DEF Fewer, Noted
<1>4. HonestBytes'
  <2>1. Trait("corrupt")' <=> Trait("corrupt")
    BY DEF Trait
  <2>2. ASSUME ~Trait("corrupt"), NEW n \in Answers' PROVE inbox'[n].genuine
    BY <2>2 DEF SwarmInv, HonestBytes, Fewer, Answers
  <2>3. ASSUME ~Trait("corrupt"), NEW j \in 0 .. bytes_received' - 1
        PROVE  piece_buffer'[j] = PieceStart(piece_index') + j
    BY <2>3 DEF SwarmInv, HonestBytes, requestVars
  <2> QED
    BY <2>1, <2>2, <2>3 DEF HonestBytes, Answers
<1> QED
  BY <1>1, <1>2, <1>3, <1>4, SwarmInvNext

\* How a channel changes.
LEMMA SameFewer == ASSUME NEW type, NEW c PROVE Fewer(MessagesOf(type, c), MessagesOf(type, c), c, c)
BY DEF Fewer

LEMMA TailFewer ==
  ASSUME NEW S, NEW c \in Seq(S), c # <<>>, NEW type
  PROVE  Fewer(MessagesOf(type, Tail(c)), MessagesOf(type, c), Tail(c), c)
<1>1. \A n \in MessagesOf(type, Tail(c)) :
        n \in Nat /\ n + 1 \in MessagesOf(type, c) /\ Tail(c)[n] = c[n + 1]
  BY TailMessages
<1>2. ASSUME \A m, n \in MessagesOf(type, c) : m = n,
             NEW m \in MessagesOf(type, Tail(c)), NEW n \in MessagesOf(type, Tail(c))
      PROVE  m = n
  <2>1. m + 1 = n + 1 /\ m \in Nat /\ n \in Nat
    BY <1>1, <1>2
  <2> QED
    BY <2>1
<1> QED
  BY <1>1, <1>2 DEF Fewer

LEMMA AppendFewer ==
  ASSUME NEW S, NEW c \in Seq(S), NEW m \in S, NEW type, m.type # type
  PROVE  Fewer(MessagesOf(type, Append(c, m)), MessagesOf(type, c), Append(c, m), c)
<1>1. /\ MessagesOf(type, Append(c, m)) = MessagesOf(type, c)
      /\ \A n \in MessagesOf(type, c) : Append(c, m)[n] = c[n]
  BY AppendOther
<1> QED
  BY <1>1 DEF Fewer

LEMMA JoinFewer ==
  ASSUME NEW S, NEW c \in Seq(S), NEW d \in Seq(S), NEW type,
         \A k \in DOMAIN d : d[k].type # type
  PROVE  Fewer(MessagesOf(type, c \o d), MessagesOf(type, c), c \o d, c)
<1>1. /\ MessagesOf(type, c \o d) = MessagesOf(type, c)
      /\ \A n \in MessagesOf(type, c) : (c \o d)[n] = c[n]
  BY JoinOther
<1> QED
  BY <1>1 DEF Fewer

\* The only message of a kind was the first one.
LEMMA TailNone ==
  ASSUME NEW S, NEW c \in Seq(S), c # <<>>, NEW type, Head(c).type = type,
         \A m, n \in MessagesOf(type, c) : m = n
  PROVE  1 \in MessagesOf(type, c) /\ MessagesOf(type, Tail(c)) = {}
<1>1. 1 \in MessagesOf(type, c)
  BY TailChannel DEF MessagesOf
<1>2. \A n \in MessagesOf(type, Tail(c)) : n \in Nat /\ n + 1 = 1 /\ n \in DOMAIN Tail(c)
  BY <1>1, TailMessages DEF MessagesOf
<1>3. \A n \in DOMAIN Tail(c) : n # 0
  <2>1. Tail(c) \in Seq(S)
    BY TailChannel
  <2> QED
    BY <2>1
<1> QED
  BY <1>1, <1>2, <1>3

-----------------------------------------------------------------------------
(* loco's steps.                                                           *)

LEMMA SwarmInvInit == SwarmInit => SwarmInv
<1> SUFFICES ASSUME SwarmInit PROVE SwarmInv
  OBVIOUS
<1>1. Inv /\ bytes_received = 0
  BY InvInit DEF SwarmInit, Init, NothingRequested
<1>2. inbox = <<>> /\ outbox = <<>> /\ remote = NewRemote
  BY DEF SwarmInit
<1>3. SwarmTypeOK
  BY <1>2 DEF SwarmInit, SwarmTypeOK, NewRemote
<1>4. Requests = {} /\ Answers = {}
  BY <1>2 DEF Requests, Answers, MessagesOf
<1>5. FreshChannel /\ OneUnderWay /\ Noted /\ HonestBytes
  BY <1>1, <1>2, <1>4, OneUnderWayMeans DEF FreshChannel, Noted, HonestBytes, Answers
<1> QED
  BY <1>1, <1>3, <1>5, SwarmInvMeans

\* Between two connections, and when the loop is left.
LEMMA Unconnected ==
  ASSUME SwarmInv, Inv', LocoConnects \/ LocoShakesHands \/ LocoLeaves \/ LocoDrops
  PROVE  SwarmInv'
<1>1. CASE LocoDrops
  <2>1. bytes_received' = 0 /\ inbox' = <<>> /\ outbox' = <<>>
    BY <1>1 DEF LocoDrops, DropPeer, ResetPieceState
  <2>2. SwarmTypeOK'
    BY <1>1 DEF LocoDrops, SwarmInv, SwarmTypeOK, NewRemote
  <2> QED
    BY <2>1, <2>2, EmptyChannels
<1>2. CASE LocoConnects \/ LocoShakesHands
  <2>1. pc \in {"next_peer", "handshake"} /\ UNCHANGED swarmVars
        /\ (UNCHANGED bytes_received \/ bytes_received' = 0)
    BY <1>2
    DEF LocoConnects, LocoShakesHands, ConnectFails, ConnectSucceeds, TryPeer,
        HandshakeFails, HandshakeSucceeds, ResetPieceState, requestVars
  <2>2. bytes_received = 0 /\ inbox = <<>> /\ outbox = <<>>
    BY <2>1 DEF SwarmInv, Inv, Disconnected, NothingRequested, FreshChannel
  <2>3. SwarmTypeOK'
    BY <2>1 DEF swarmVars, SwarmInv, SwarmTypeOK
  <2> QED
    BY <2>1, <2>2, <2>3, EmptyChannels DEF swarmVars
<1>3. CASE LocoLeaves
  <2>1. pc = "next_peer" /\ UNCHANGED swarmVars /\ UNCHANGED bytes_received
    BY <1>3 DEF LocoLeaves, LeaveLoop, requestVars
  <2>2. bytes_received = 0 /\ inbox = <<>> /\ outbox = <<>>
    BY <2>1 DEF SwarmInv, Inv, Disconnected, NothingRequested, FreshChannel
  <2>3. SwarmTypeOK'
    BY <2>1 DEF swarmVars, SwarmInv, SwarmTypeOK
  <2> QED
    BY <2>1, <2>2, <2>3, EmptyChannels DEF swarmVars
<1> QED
  BY <1>1, <1>2, <1>3

\* Steps that leave the channels and the request alone.
LEMMA Alone ==
  ASSUME SwarmInv, Inv', UNCHANGED swarmVars,
         UNCHANGED <<i, pieceVars, requestVars>>,
         pc \in {"receive", "check", "serve"},
         pc' \in {"receive", "check", "serve", "drop"}
  PROVE  SwarmInv'
<1>1. SwarmTypeOK'
  BY DEF swarmVars, SwarmInv, SwarmTypeOK
<1>2. UNCHANGED <<profile, inbox, outbox, piece_index, piece_size, piece_buffer>>
  BY DEF swarmVars, pieceVars
<1>3. /\ Fewer(Requests', Requests, outbox', outbox)
      /\ Fewer(Answers', Answers, inbox', inbox)
  BY <1>2, SameFewer DEF Requests, Answers
<1> QED
  BY <1>1, <1>2, <1>3, Steady

\* Steps that forget the request: nothing is on the way, or the peer is dropped.
LEMMA Forgotten ==
  ASSUME SwarmInv, Inv', UNCHANGED <<i, swarmVars>>, bytes_received' = 0,
         pc = "check", pc' \in {"serve", "drop"}, pc' = "serve" => ~request_pending
  PROVE  SwarmInv'
<1>1. SwarmTypeOK' /\ UNCHANGED <<profile, inbox, outbox>>
  BY DEF swarmVars, SwarmInv, SwarmTypeOK
<1>2. FreshChannel'
  BY DEF FreshChannel
<1>3. Requests' = Requests /\ Answers' = Answers
  BY <1>1 DEF Requests, Answers
<1>4. OneUnderWay'
  BY <1>1 DEF SwarmInv, OneUnderWay
<1>5. Noted'
  <2>1. CASE pc' = "serve"
    <3>1. Requests = {} /\ Answers = {}
      BY <2>1, SwarmInvMeans DEF Noted, IsRequested
    <3> QED
      BY <3>1, <1>3 DEF Noted
  <2>2. CASE pc' = "drop"
    BY <2>2 DEF Noted
  <2> QED
    BY <2>1, <2>2
<1>6. HonestBytes'
  <2>1. Trait("corrupt")' <=> Trait("corrupt")
    BY <1>1 DEF Trait
  <2> QED
    BY <2>1, <1>1 DEF SwarmInv, HonestBytes
<1> QED
  BY <1>1, <1>2, <1>4, <1>5, <1>6, SwarmInvNext

LEMMA Checks ==
  ASSUME SwarmInv, Inv', LocoChecks
  PROVE  SwarmInv'
<1>1. UNCHANGED swarmVars
  BY DEF LocoChecks
<1>2. CASE PieceNotReceived
  <2>1. UNCHANGED <<i, pieceVars, requestVars>> /\ pc = "check" /\ pc' = "serve"
    BY <1>2 DEF PieceNotReceived, Goto
  <2> QED
    BY <2>1, <1>1, Alone
<1>3. CASE HashMismatch
  BY <1>1, <1>3, Forgotten DEF HashMismatch, ResetPieceState, Goto
<1>4. CASE StorePiece
  <2>1. /\ pc = "check" /\ bytes_received = piece_size
        /\ UNCHANGED i /\ bytes_received' = 0
    BY <1>4 DEF StorePiece, ReadyToStore, PieceReceived, ResetPieceState
  <2>2. pc' \in {"serve", "drop"} /\ (pc' = "serve" => piece_index + 1 <= PieceCount - 1)
    BY <1>4
    DEF StorePiece, FinishDownload, RefuseLayout, SizeLastPiece, KeepPieceSize,
        LastPieceNext, Goto, SwarmInv, Inv, TypeOK
  <2>3. ASSUME pc' = "serve" PROVE ~request_pending
    <3>1. piece_size > 0 /\ piece_size \in Int
      BY <2>2, <2>3, FirstPieceSizeBound DEF SwarmInv, Inv, Sized, TypeOK
    <3>2. requested_length \in Int
      BY DEF SwarmInv, Inv, TypeOK
    <3> QED
      BY <2>1, <3>1, <3>2 DEF SwarmInv, Inv, RequestWindow
  <2> QED
    BY <1>1, <2>1, <2>2, <2>3, Forgotten
<1> QED
  BY <1>2, <1>3, <1>4 DEF LocoChecks

\* A message that is no answer to the request, or is refused.
LEMMA ReceivesOther ==
  ASSUME SwarmInv, Inv', LocoReceives, UNCHANGED <<i, pieceVars, requestVars>>,
         pc' \in {"check", "drop", "overrun"}, pc = "receive"
  PROVE  SwarmInv'
<1>1. /\ inbox \in Seq(PeerMessages) /\ inbox # <<>> /\ inbox' = Tail(inbox)
      /\ UNCHANGED <<profile, outbox, remote>>
  BY DEF SwarmInv, SwarmTypeOK, LocoReceives
<1>2. SwarmTypeOK'
  BY <1>1, TailChannel DEF SwarmInv, SwarmTypeOK
<1>3. Fewer(Answers', Answers, inbox', inbox)
  BY <1>1, TailFewer DEF Answers
<1>4. Fewer(Requests', Requests, outbox', outbox)
  BY <1>1, SameFewer DEF Requests
<1> QED
  BY <1>1, <1>2, <1>3, <1>4, Steady DEF pieceVars

\* The answer: it was the only one, and it extends the right bytes.
LEMMA ReceivesAnswer ==
  ASSUME SwarmInv, Inv', LocoReceives, NEW m, m = Head(inbox), m.type = "piece",
         ReceivePiece(m.index, m.begin, m.length, m.genuine)
  PROVE  SwarmInv'
<1>1. /\ inbox \in Seq(PeerMessages) /\ inbox # <<>> /\ inbox' = Tail(inbox)
      /\ UNCHANGED <<profile, outbox, remote>>
  BY DEF SwarmInv, SwarmTypeOK, LocoReceives
<1>2. SwarmTypeOK' /\ m = inbox[1] /\ m \in PeerMessages
  BY <1>1, TailChannel DEF SwarmInv, SwarmTypeOK
<1>3. 1 \in Answers /\ Answers' = {}
  BY <1>1, TailNone, OneUnderWayMeans DEF SwarmInv, Answers
<1>4. Requests' = {}
  BY <1>1, <1>3, OneUnderWayMeans DEF SwarmInv, Requests
<1>5. pc' = "check" /\ UNCHANGED <<i, piece_index, piece_size>>
  BY DEF ReceivePiece, Handled, Goto
<1>6. FreshChannel' /\ Noted'
  BY <1>3, <1>4, <1>5 DEF FreshChannel, Noted
<1>7. OneUnderWay'
  BY <1>3, <1>4 DEF OneUnderWay, Requests, Answers
<1>8. HonestBytes'
  <2>1. Trait("corrupt")' <=> Trait("corrupt")
    BY <1>1, <1>5 DEF Trait
  <2> SUFFICES ASSUME ~Trait("corrupt"), NEW j \in 0 .. bytes_received' - 1
               PROVE  piece_buffer'[j] = PieceStart(piece_index) + j
    BY <2>1, <1>3, <1>5 DEF HonestBytes, Answers
  <2>2. m.genuine = TRUE
    BY <1>2, <1>3, PeerMessageKinds DEF SwarmInv, HonestBytes, Answers
  <2>3. /\ m.index = piece_index /\ m.begin = bytes_received
        /\ bytes_received' = bytes_received + m.length
        /\ m.length \in Nat /\ bytes_received \in Nat
        /\ bytes_received + m.length <= FirstPieceSize
    BY <1>2, PeerMessageKinds, FirstPieceSizeBound
    DEF ReceivePiece, IsRequested, SwarmInv, Inv, RequestWindow, TypeOK
  <2>4. j \in BufferIndexes /\ j \in Int
    BY <2>3, FirstPieceSizeBound DEF BufferIndexes
  <2>5. piece_buffer'[j] = IF j \in m.begin .. m.begin + m.length - 1
                           THEN PieceStart(piece_index) + j ELSE piece_buffer[j]
    BY <2>2, <2>3, <2>4 DEF ReceivePiece, BlockByte
  <2>6. CASE j < bytes_received
    BY <2>3, <2>4, <2>5, <2>6 DEF SwarmInv, HonestBytes
  <2>7. CASE j >= bytes_received
    BY <2>3, <2>4, <2>5, <2>7
  <2> QED
    BY <2>6, <2>7, <2>3, <2>4
<1> QED
  BY <1>2, <1>6, <1>7, <1>8, SwarmInvNext

LEMMA Receives ==
  ASSUME SwarmInv, Inv', LocoReceives
  PROVE  SwarmInv'
<1> DEFINE m == Head(inbox)
<1>1. m \in PeerMessages /\ Handle(m)
  BY TailChannel DEF LocoReceives, SwarmInv, SwarmTypeOK
<1>2. CASE m.type = "piece" /\ ReceivePiece(m.index, m.begin, m.length, m.genuine)
  BY <1>2, ReceivesAnswer
<1>3. CASE /\ m.type = "piece"
           /\ \/ RejectPiece(m.index, m.begin, m.length)
              \/ OverrunBuffer(m.index, m.begin, m.length)
  BY <1>3, ReceivesOther DEF RejectPiece, OverrunBuffer, Refused, Goto
<1>4. CASE m.type # "piece"
  <2>1. /\ UNCHANGED <<i, pieceVars, requestVars>>
        /\ pc' \in {"check", "drop"} /\ pc = "receive"
    BY <1>1, <1>4
    DEF Handle, ReceiveChoke, ReceiveUnchoke, ReceiveHave, ReceiveBitfield,
        RejectBitfield, Handled, Refused, Goto, pieceVars
  <2> QED
    BY <2>1, ReceivesOther
<1> QED
  BY <1>1, <1>2, <1>3, <1>4 DEF Handle, AcceptPiece

\* A message that is not a request is put on the way, or lost.
LEMMA SendsInterested ==
  ASSUME SwarmInv, Inv', SendInterested, LocoSends(Plain("interested"))
  PROVE  SwarmInv'
<1> DEFINE m == Plain("interested")
<1>1. /\ outbox \in Seq(LocoMessages) /\ UNCHANGED <<profile, inbox, remote>>
      /\ outbox' = outbox \/ outbox' = Append(outbox, m)
  BY DEF SwarmInv, SwarmTypeOK, LocoSends
<1>2. m \in LocoMessages /\ m.type # "request"
  BY DEF Plain, LocoMessages
<1> HIDE DEF m
<1>3. SwarmTypeOK'
  <2>1. outbox' \in Seq(LocoMessages)
    BY <1>1, <1>2
  <2> QED
    BY <2>1, <1>1 DEF SwarmInv, SwarmTypeOK
<1>4. Fewer(Requests', Requests, outbox', outbox)
  BY <1>1, <1>2, SameFewer, AppendFewer DEF Requests
<1>5. Fewer(Answers', Answers, inbox', inbox)
  BY <1>1, SameFewer DEF Answers
<1>6. /\ UNCHANGED <<i, piece_index, piece_size, piece_buffer, requestVars>>
      /\ pc = "serve" /\ pc' = "serve"
  BY DEF SendInterested, Serving, Goto, pieceVars
<1> QED
  BY <1>1, <1>3, <1>4, <1>5, <1>6, Steady

\* The request, made when nothing is on the way.
LEMMA SendsRequest ==
  ASSUME SwarmInv, Inv', SendRequest,
         LocoSends(Request(piece_index, bytes_received, RequestLength))
  PROVE  SwarmInv'
<1> PICK m : m = Request(piece_index, bytes_received, RequestLength)
  OBVIOUS
<1>1. /\ outbox \in Seq(LocoMessages) /\ UNCHANGED <<profile, inbox, remote>>
      /\ outbox' = outbox \/ outbox' = Append(outbox, m)
  BY DEF SwarmInv, SwarmTypeOK, LocoSends
<1>2. /\ UNCHANGED <<i, piece_index, piece_size, piece_buffer, bytes_received>>
      /\ request_pending' = TRUE /\ requested_begin' = bytes_received
      /\ requested_length' = RequestLength
      /\ pc = "serve" /\ pc' = "receive" /\ ~request_pending
  BY DEF SendRequest, Serving, Goto, pieceVars, MayRequest
<1>3. m \in LocoMessages
  <2>1. piece_index \in Pieces /\ bytes_received \in 0 .. FirstPieceSize
    BY DEF SwarmInv, Inv, TypeOK, SendRequest, MayRequest, Interested, CanServe, Pieces
  <2>2. RequestLength \in 0 .. BlockSize
    BY <1>2 DEF Inv, TypeOK
  <2> QED
    BY <2>1, <2>2 DEF LocoMessages
<1>4. /\ m.index = piece_index /\ m.begin = bytes_received /\ m.length = RequestLength
  BY DEF Request
<1>5. IsRequested(m.index, m.begin, m.length)'
  <2>1. RequestWindow' /\ TypeOK'
    BY DEF Inv
  <2>2. /\ bytes_received <= piece_size
        /\ RequestLength <= piece_size - bytes_received
    BY <2>1, <1>2, FirstPieceSizeBound, SizeIsNat DEF RequestWindow, TypeOK
  <2> QED
    BY <2>2, <1>2, <1>4 DEF IsRequested
<1>6. SwarmTypeOK'
  BY <1>1, <1>3, AppendChannel DEF SwarmInv, SwarmTypeOK
<1>7. Requests = {} /\ Answers = {}
  BY <1>2, SwarmInvMeans DEF Noted, IsRequested
<1>8. /\ \A n \in Requests' : outbox'[n] = m
      /\ \A k, n \in Requests' : k = n
  <2>1. CASE outbox' = outbox
    BY <2>1, <1>7 DEF Requests
  <2>2. CASE outbox' = Append(outbox, m)
    <3>1. ASSUME NEW n \in MessagesOf("request", Append(outbox, m))
          PROVE  n = Len(outbox) + 1 /\ Append(outbox, m)[n] = m
      BY <1>1, <1>3, <1>7, AppendFirst DEF Requests
    <3> QED
      BY <2>2, <3>1 DEF Requests
  <2> QED
    BY <2>1, <2>2, <1>1
<1>9. Answers' = {}
  BY <1>1, <1>7 DEF Answers
<1>10. FreshChannel' /\ OneUnderWay'
  BY <1>2, <1>8, <1>9 DEF FreshChannel, OneUnderWay, Requests, Answers
<1>11. Noted'
  BY <1>5, <1>8, <1>9 DEF Noted
<1>12. HonestBytes'
  <2>1. Trait("corrupt")' <=> Trait("corrupt")
    BY <1>1, <1>2 DEF Trait
  <2> QED
    BY <2>1, <1>2, <1>9 DEF SwarmInv, HonestBytes, Answers
<1> QED
  BY <1>6, <1>10, <1>11, <1>12, SwarmInvNext

LEMMA Serves ==
  ASSUME SwarmInv, Inv', LocoServes
  PROVE  SwarmInv'
<1>1. CASE SendInterested /\ LocoSends(Plain("interested"))
  BY <1>1, SendsInterested
<1>2. CASE SendRequest /\ LocoSends(Request(piece_index, bytes_received, RequestLength))
  BY <1>2, SendsRequest
<1>3. CASE /\ \/ NothingAnnounced \/ PeerUnusable \/ NothingToRequest
              \/ SendInterestedFails \/ RequestNotSent
           /\ UNCHANGED swarmVars
  <2>1. /\ UNCHANGED <<i, pieceVars, requestVars>> /\ pc = "serve"
        /\ pc' \in {"receive", "drop"}
    BY <1>3
    DEF NothingAnnounced, PeerUnusable, NothingToRequest, SendInterestedFails,
        RequestNotSent, Serving, Goto
  <2> QED
    BY <1>3, <2>1, Alone
<1> QED
  BY <1>1, <1>2, <1>3 DEF LocoServes

-----------------------------------------------------------------------------
(* The remote peer's steps leave the loop alone.                           *)

LEMMA RemoteInv == SwarmInv /\ UNCHANGED vars => Inv'
BY InvNext DEF SwarmInv

\* A connection is to one of the peers, of one of the profiles.
LEMMA CurrentProfile ==
  ASSUME SwarmInv, RemoteActive
  PROVE  /\ i \in Peers /\ profile[i].has \in SUBSET Pieces
         /\ pc \in {"receive", "check", "serve"}
<1>1. pc \in {"receive", "check", "serve"}
  BY DEF RemoteActive, Connected
<1>2. i \in Peers
  BY <1>1 DEF SwarmInv, Inv, CurrentPeer, TypeOK, Peers
<1>3. profile[i] \in Profiles
  BY <1>2 DEF SwarmInv, SwarmTypeOK
<1> QED
  BY <1>1, <1>2, <1>3

\* Steps that send nothing that answers a request.
LEMMA RemoteSteady ==
  ASSUME SwarmInv, RemoteActive, UNCHANGED vars, UNCHANGED profile, SwarmTypeOK',
         Fewer(Requests', Requests, outbox', outbox),
         Fewer(Answers', Answers, inbox', inbox)
  PROVE  SwarmInv'
<1>1. /\ UNCHANGED <<pc, i, piece_index, piece_size, piece_buffer, requestVars>>
      /\ pc \in {"receive", "check", "serve"}
  BY CurrentProfile DEF vars, pieceVars
<1> QED
  BY <1>1, RemoteInv, Steady

LEMMA Announces ==
  ASSUME SwarmInv, RemoteAnnounces
  PROVE  SwarmInv'
<1> PICK has : has = profile[i].has
  OBVIOUS
<1> PICK haves : haves = [n \in 1 .. Cardinality(has) |-> Have(SetToSeq(has)[n])]
  OBVIOUS
<1>1. has \in SUBSET Pieces /\ inbox \in Seq(PeerMessages)
  BY CurrentProfile DEF RemoteAnnounces, SwarmInv, SwarmTypeOK
<1>2. /\ inbox' = inbox \o haves \/ inbox' = Append(inbox, Bitfield(has))
      /\ UNCHANGED <<vars, profile, outbox>> /\ RemoteActive
      /\ remote' = [remote EXCEPT !.announced = TRUE]
  BY DEF RemoteAnnounces
<1>3. haves \in Seq(PeerMessages) /\ \A n \in DOMAIN haves : haves[n].type = "have"
  BY <1>1, Haves
<1>4. Bitfield(has) \in PeerMessages /\ Bitfield(has).type = "bitfield"
  <2>1. Bitfield(has) \in PeerMessages
    BY <1>1 DEF PeerMessages
  <2>2. Bitfield(has).type = "bitfield"
    BY DEF Bitfield
  <2> QED
    BY <2>1, <2>2
<1>5. inbox' \in Seq(PeerMessages) /\ Fewer(Answers', Answers, inbox', inbox)
  <2>1. CASE inbox' = inbox \o haves
    <3>1. \A n \in DOMAIN haves : haves[n].type # "piece"
      BY <1>3
    <3> QED
      BY <2>1, <3>1, <1>1, <1>3, JoinChannel, JoinFewer DEF Answers
  <2>2. CASE inbox' = Append(inbox, Bitfield(has))
    BY <2>2, <1>1, <1>4, AppendChannel, AppendFewer DEF Answers
  <2> QED
    BY <2>1, <2>2, <1>2
<1>6. Fewer(Requests', Requests, outbox', outbox)
  BY <1>2, SameFewer DEF Requests
<1>7. SwarmTypeOK'
  BY <1>2, <1>5 DEF SwarmInv, SwarmTypeOK
<1> QED
  BY <1>2, <1>5, <1>6, <1>7, RemoteSteady

\* Unchoking and choking.
LEMMA SaysPlainly ==
  ASSUME SwarmInv, RemoteActive, UNCHANGED <<vars, profile, outbox>>,
         NEW m \in {Plain("choke"), Plain("unchoke")}, inbox' = Append(inbox, m),
         remote' \in [announced : BOOLEAN, interested : BOOLEAN, choking : BOOLEAN,
                      chokes : 0 .. MaxChokes, closed : BOOLEAN]
  PROVE  SwarmInv'
<1>1. m \in PeerMessages /\ m.type # "piece" /\ inbox \in Seq(PeerMessages)
  BY DEF PeerMessages, Plain, SwarmInv, SwarmTypeOK
<1>2. inbox' \in Seq(PeerMessages)
  BY <1>1, AppendChannel
<1>3. Fewer(Answers', Answers, inbox', inbox)
  BY <1>1, AppendFewer DEF Answers
<1>4. Fewer(Requests', Requests, outbox', outbox)
  BY SameFewer DEF Requests
<1>5. SwarmTypeOK'
  BY <1>2 DEF SwarmInv, SwarmTypeOK
<1> QED
  BY <1>3, <1>4, <1>5, RemoteSteady

\* A request that is answered was the only one, and so is its answer.
LEMMA Answering ==
  ASSUME SwarmInv, RemoteReads, CanAnswer(Head(outbox))
  PROVE  SwarmInv'
<1> PICK m : m = Head(outbox)
  OBVIOUS
<1> PICK honest \in BOOLEAN : honest = ~Trait("corrupt")
  BY Zenon DEF Trait
<1> PICK answer : answer = Piece(m.index, m.begin, m.length, honest)
  OBVIOUS
<1>1. /\ outbox \in Seq(LocoMessages) /\ outbox # <<>> /\ outbox' = Tail(outbox)
      /\ UNCHANGED <<vars, profile>> /\ RemoteActive
      /\ m.type = "request" /\ inbox' = Append(inbox, answer) /\ remote' = remote
      /\ inbox \in Seq(PeerMessages)
  BY DEF SwarmInv, SwarmTypeOK, RemoteReads, CanAnswer
<1>2. /\ outbox' \in Seq(LocoMessages) /\ m = outbox[1] /\ m \in LocoMessages
  BY <1>1, TailChannel
<1>4. /\ answer.index = m.index /\ answer.begin = m.begin /\ answer.length = m.length
      /\ answer.genuine = honest /\ answer.type = "piece"
  BY DEF Piece
<1>5. answer \in PeerMessages
  <2>1. m.index \in Pieces /\ m.begin \in 0 .. FirstPieceSize /\ m.length \in 0 .. BlockSize
    BY <1>1, <1>2, LocoMessageKinds
  <2> QED
    BY <2>1, PieceIsMessage
<1>6. SwarmTypeOK'
  <2>1. inbox' \in Seq(PeerMessages)
    BY <1>1, <1>5
  <2> QED
    BY <2>1, <1>1, <1>2 DEF SwarmInv, SwarmTypeOK
<1>7. 1 \in Requests /\ Requests' = {} /\ Answers = {}
  <2>1. 1 \in Requests /\ Requests' = {}
    BY <1>1, TailNone, OneUnderWayMeans DEF SwarmInv, Requests
  <2> QED
    BY <2>1, OneUnderWayMeans DEF SwarmInv
<1>8. /\ \A n \in Answers' : inbox'[n] = answer
      /\ \A k, n \in Answers' : k = n
  <2>1. /\ inbox \in Seq(PeerMessages) /\ inbox' = Append(inbox, answer)
        /\ MessagesOf("piece", inbox) = {}
    BY <1>1, <1>7 DEF Answers
  <2>2. /\ \A n \in MessagesOf("piece", Append(inbox, answer)) : Append(inbox, answer)[n] = answer
        /\ \A k, n \in MessagesOf("piece", Append(inbox, answer)) : k = n
    <3>1. ASSUME NEW n \in MessagesOf("piece", Append(inbox, answer))
          PROVE  n = Len(inbox) + 1 /\ Append(inbox, answer)[n] = answer
      BY <2>1, <1>5, AppendFirst
    <3> QED
      BY <3>1
  <2> QED
    BY <2>1, <2>2 DEF Answers
<1>9. pc' = pc /\ i' = i /\ pc \in {"receive", "check", "serve"}
      /\ UNCHANGED <<piece_index, piece_size, piece_buffer, bytes_received,
                     request_pending, requested_begin, requested_length>>
  BY <1>1, CurrentProfile DEF vars, pieceVars, requestVars
<1>10. FreshChannel' /\ OneUnderWay'
  BY <1>7, <1>8, <1>9 DEF FreshChannel, OneUnderWay, Requests, Answers
<1>11. IsRequested(answer.index, answer.begin, answer.length)'
  <2>1. IsRequested(m.index, m.begin, m.length)
    BY <1>2, <1>7, <1>9, SwarmInvMeans DEF Noted
  <2> QED
    BY <2>1, <1>4, <1>9 DEF IsRequested
<1>12. Noted'
  BY <1>7, <1>8, <1>11 DEF Noted
<1>13. HonestBytes'
  <2>1. Trait("corrupt")' <=> Trait("corrupt")
    BY <1>1, <1>9 DEF Trait
  <2>2. ASSUME ~Trait("corrupt"), NEW n \in Answers' PROVE inbox'[n].genuine
    BY <2>2, <1>4, <1>8
  <2> QED
    BY <2>1, <2>2, <1>9 DEF SwarmInv, HonestBytes, Answers
<1> QED
  BY <1>1, <1>6, <1>10, <1>12, <1>13, RemoteInv, SwarmInvNext

LEMMA Reads ==
  ASSUME SwarmInv, RemoteReads
  PROVE  SwarmInv'
<1>1. CASE CanAnswer(Head(outbox))
  BY <1>1, Answering
<1>2. CASE ~CanAnswer(Head(outbox))
  <2>1. /\ outbox \in Seq(LocoMessages) /\ outbox # <<>> /\ outbox' = Tail(outbox)
        /\ UNCHANGED <<vars, profile, inbox>> /\ RemoteActive
        /\ remote' = remote \/ remote' = [remote EXCEPT !.interested = TRUE]
    BY <1>2 DEF SwarmInv, SwarmTypeOK, RemoteReads
  <2>2. outbox' \in Seq(LocoMessages)
    BY <2>1, TailChannel
  <2>3. SwarmTypeOK'
    BY <2>1, <2>2 DEF SwarmInv, SwarmTypeOK
  <2>4. Fewer(Requests', Requests, outbox', outbox)
    BY <2>1, TailFewer DEF Requests
  <2>5. Fewer(Answers', Answers, inbox', inbox)
    BY <2>1, SameFewer DEF Answers
  <2> QED
    BY <2>1, <2>3, <2>4, <2>5, RemoteSteady
<1> QED
  BY <1>1, <1>2

LEMMA RemoteSteps ==
  ASSUME SwarmInv, Remote
  PROVE  SwarmInv'
<1>1. CASE RemoteAnnounces
  BY <1>1, Announces
<1>2. CASE RemoteUnchokes
  <2>1. remote' \in [announced : BOOLEAN, interested : BOOLEAN, choking : BOOLEAN,
                     chokes : 0 .. MaxChokes, closed : BOOLEAN]
    BY <1>2 DEF RemoteUnchokes, SwarmInv, SwarmTypeOK
  <2> QED
    BY <1>2, <2>1, SaysPlainly DEF RemoteUnchokes
<1>3. CASE RemoteChokes
  <2>1. remote' \in [announced : BOOLEAN, interested : BOOLEAN, choking : BOOLEAN,
                     chokes : 0 .. MaxChokes, closed : BOOLEAN]
    <3>1. /\ remote.chokes \in 0 .. MaxChokes /\ remote.chokes < MaxChokes
          /\ remote' = [remote EXCEPT !.choking = TRUE, !.chokes = remote.chokes + 1]
      BY <1>3 DEF RemoteChokes, SwarmInv, SwarmTypeOK
    <3>2. remote.chokes + 1 \in 0 .. MaxChokes
      BY <3>1
    <3> QED
      BY <3>1, <3>2 DEF SwarmInv, SwarmTypeOK
  <2> QED
    BY <1>3, <2>1, SaysPlainly DEF RemoteChokes
<1>4. CASE RemoteReads
  BY <1>4, Reads
<1>5. CASE RemoteCloses
  <2>1. /\ UNCHANGED <<vars, profile, inbox, outbox>> /\ RemoteActive
        /\ remote' = [remote EXCEPT !.closed = TRUE]
    BY <1>5 DEF RemoteCloses
  <2>2. SwarmTypeOK'
    BY <2>1 DEF SwarmInv, SwarmTypeOK
  <2>3. /\ Fewer(Requests', Requests, outbox', outbox)
        /\ Fewer(Answers', Answers, inbox', inbox)
    BY <2>1, SameFewer DEF Requests, Answers
  <2> QED
    BY <2>1, <2>2, <2>3, RemoteSteady
<1> QED
  BY <1>1, <1>2, <1>3, <1>4, <1>5 DEF Remote

LEMMA SwarmInvStep == SwarmInv /\ [SwarmNext]_allVars => SwarmInv'
<1> SUFFICES ASSUME SwarmInv, [SwarmNext]_allVars PROVE SwarmInv'
  OBVIOUS
<1>1. Inv'
  BY SwarmStep, InvNext DEF SwarmInv
<1>2. CASE LocoConnects \/ LocoShakesHands \/ LocoLeaves \/ LocoDrops
  BY <1>1, <1>2, Unconnected
<1>3. CASE LocoReceives
  BY <1>1, <1>3, Receives
<1>4. CASE LocoSeesClose
  <2>1. /\ UNCHANGED <<i, pieceVars, requestVars>> /\ UNCHANGED swarmVars
        /\ pc = "receive" /\ pc' = "drop"
    BY <1>4 DEF LocoSeesClose, ReceiveFails, Refused, Goto
  <2> QED
    BY <2>1, <1>1, Alone
<1>5. CASE LocoChecks
  BY <1>1, <1>5, Checks
<1>6. CASE LocoServes
  BY <1>1, <1>6, Serves
<1>7. CASE Remote
  BY <1>7, RemoteSteps
<1>8. CASE UNCHANGED allVars
  BY <1>8
  DEF allVars, vars, swarmVars, connVars, pieceVars, requestVars, outVars, SwarmInv, Inv,
      TypeOK, Disconnected, CurrentPeer, Completion, Sized, Counted, Overrun, RequestWindow,
      NoStaleBytes, FileGenuine, VerifiedPrefix, NothingRequested, SwarmTypeOK,
      FreshChannel, OneUnderWay, OneInFlight, HonestBytes, InFlight, IsRequested, Trait,
      MessagesOf
<1> QED
  BY <1>2, <1>3, <1>4, <1>5, <1>6, <1>7, <1>8 DEF SwarmNext, Loco

-----------------------------------------------------------------------------
(* A seed is kept.                                                         *)

Bitfields == MessagesOf("bitfield", inbox)
HaveMessages == MessagesOf("have", inbox)

LEMMA SeedHeardMeans ==
  ASSUME SeedHeard, i \in Peers, IsSeed(i)
  PROVE  /\ ~remote.closed
         /\ HaveMessages = {}
         /\ \A n \in Bitfields : inbox[n].bits = Pieces
         /\ \A m, n \in Bitfields : m = n
         /\ have_bitfield \/ Bitfields # {} => remote.announced
         /\ have_bitfield => bitfield = Pieces /\ Bitfields = {}
BY DEF SeedHeard, Bitfields, HaveMessages

\* While there is no connection nothing was heard.
LEMMA SeedFresh ==
  ASSUME SwarmInv', inbox' = <<>>, remote' = NewRemote, ~have_bitfield', pc' # "drop"
  PROVE  SeedInv'
<1>1. MessagesOf("bitfield", inbox') = {} /\ MessagesOf("have", inbox') = {}
  BY DEF MessagesOf
<1>2. ~remote'.closed
  BY DEF NewRemote
<1>3. SeedHeard'
  BY <1>1, <1>2 DEF SeedHeard
<1> QED
  BY <1>3 DEF SeedInv, FreshPeer, SeedDropped

\* Steps of a connection to a peer that is not a seed.
LEMMA SeedNone ==
  ASSUME SwarmInv', pc' \in {"receive", "check", "serve", "drop", "overrun"},
         UNCHANGED <<i, profile>>,
         ~(i \in Peers /\ IsSeed(i))
  PROVE  SeedInv'
<1>1. ~(i \in Peers /\ IsSeed(i))'
  BY DEF IsSeed
<1> QED
  BY <1>1 DEF SeedInv, FreshPeer, SeedHeard, SeedDropped

\* Steps in which loco learns nothing of what the peer has, and none that was
\* under way was added.
LEMMA SeedSteady ==
  ASSUME SeedInv, SwarmInv',
         pc' \in {"receive", "check", "serve", "drop", "overrun"},
         UNCHANGED <<i, profile, have_bitfield, bitfield>>,
         remote'.closed = remote.closed, remote'.announced = remote.announced,
         Fewer(Bitfields', Bitfields, inbox', inbox),
         Fewer(HaveMessages', HaveMessages, inbox', inbox),
         i \in Peers /\ IsSeed(i) /\ WellFormed /\ pc' = "drop" => download_complete'
  PROVE  SeedInv'
<1>1. CASE ~(i \in Peers /\ IsSeed(i))
  BY <1>1, SeedNone
<1>2. CASE i \in Peers /\ IsSeed(i)
  <2>1. SeedDropped'
    BY <1>2 DEF SeedDropped
  <2>2. FreshPeer'
    BY DEF FreshPeer
  <2>3. /\ ~remote'.closed
        /\ HaveMessages' = {}
        /\ \A n \in Bitfields' : inbox'[n].bits = Pieces
        /\ \A m, n \in Bitfields' : m = n
        /\ have_bitfield' \/ Bitfields' # {} => remote'.announced
        /\ have_bitfield' => bitfield' = Pieces /\ Bitfields' = {}
    BY <1>2, SeedHeardMeans DEF SeedInv, Fewer
  <2>4. SeedHeard'
    BY <2>3 DEF SeedHeard, Bitfields, HaveMessages
  <2> QED
    BY <2>1, <2>2, <2>4 DEF SeedInv
<1> QED
  BY <1>1, <1>2

\* Steps that leave the channel and the remote peer alone.
LEMMA SeedAlone ==
  ASSUME SeedInv, SwarmInv',
         pc' \in {"receive", "check", "serve", "drop"},
         UNCHANGED <<i, profile, inbox, remote, have_bitfield, bitfield>>,
         i \in Peers /\ IsSeed(i) /\ WellFormed /\ pc' = "drop" => download_complete'
  PROVE  SeedInv'
<1>1. /\ Fewer(Bitfields', Bitfields, inbox', inbox)
      /\ Fewer(HaveMessages', HaveMessages, inbox', inbox)
  BY SameFewer DEF Bitfields, HaveMessages
<1> QED
  BY <1>1, SeedSteady

\* A seed is not left before the handshake.
LEMMA SeedTraits ==
  ASSUME i \in Peers, IsSeed(i), NEW t
  PROVE  ~Trait(t)
BY DEF Trait, IsSeed

LEMMA SeedUnconnected ==
  ASSUME SeedInv, SwarmInv', LocoConnects \/ LocoShakesHands \/ LocoLeaves \/ LocoDrops
  PROVE  SeedInv'
<1>1. CASE LocoDrops
  BY <1>1, SeedFresh DEF LocoDrops, DropPeer, Goto
<1>2. CASE LocoConnects \/ LocoShakesHands \/ LocoLeaves
  <2>1. /\ pc \in {"next_peer", "handshake"} /\ pc' # "drop"
        /\ UNCHANGED <<inbox, remote, have_bitfield>>
    BY <1>2
    DEF LocoConnects, LocoShakesHands, LocoLeaves, ConnectFails, ConnectSucceeds, TryPeer,
        HandshakeFails, HandshakeSucceeds, LeaveLoop, swarmVars, connVars, Goto
  <2>2. inbox = <<>> /\ remote = NewRemote /\ ~have_bitfield
    BY <2>1 DEF SeedInv, SwarmInv, FreshChannel, FreshPeer
  <2> QED
    BY <2>1, <2>2, SeedFresh
<1> QED
  BY <1>1, <1>2

\* The check drops a seed only at the end: its blocks have the torrent's bytes
\* and the size of the last piece is right.
LEMMA SeedChecks ==
  ASSUME SeedInv, SwarmInv', LocoChecks
  PROVE  SeedInv'
<1>1. UNCHANGED <<i, profile, inbox, remote, have_bitfield, bitfield>>
  BY DEF LocoChecks, PieceNotReceived, HashMismatch, StorePiece, swarmVars, connVars
<1>2. pc = "check" /\ pc' \in {"serve", "drop"}
  BY DEF LocoChecks, PieceNotReceived, HashMismatch, StorePiece, ReadyToStore,
         FinishDownload, RefuseLayout, SizeLastPiece, KeepPieceSize, Goto
<1>3. ASSUME i \in Peers, IsSeed(i), WellFormed, pc' = "drop"
      PROVE  download_complete'
  <2>1. ~HashMismatch
    <3>1. ~Trait("corrupt")
      BY <1>3, SeedTraits
    <3> QED
      BY <3>1
      DEF SeedInv, SwarmInv, HonestBytes, HashMismatch, PieceReceived, HashMatches
  <2>2. ~PieceNotReceived
    BY <1>3 DEF PieceNotReceived, Goto
  <2>3. ~LayoutRejected
    BY <1>3, LastPiece
  <2> QED
    BY <1>3, <2>1, <2>2, <2>3
    DEF LocoChecks, StorePiece, FinishDownload, RefuseLayout, SizeLastPiece,
        KeepPieceSize, Goto
<1> QED
  BY <1>1, <1>2, <1>3, SeedAlone

\* A seed whose bitfield was taken has every piece that is asked for.
LEMMA SeedServes ==
  ASSUME SeedInv, SwarmInv', LocoServes
  PROVE  SeedInv'
<1>1. /\ pc = "serve" /\ pc' \in {"receive", "serve", "drop"}
      /\ UNCHANGED <<i, profile, inbox, remote, have_bitfield, bitfield>>
  BY DEF LocoServes, LocoSends, NothingAnnounced, PeerUnusable, SendInterested,
         SendInterestedFails, NothingToRequest, SendRequest, RequestNotSent, Serving,
         Goto, swarmVars
<1>2. ASSUME i \in Peers, IsSeed(i), pc' = "drop" PROVE FALSE
  <2>1. PeerUnusable \/ remote.closed
    BY <1>2 DEF LocoServes, LocoSends, NothingAnnounced, SendInterested,
                NothingToRequest, SendRequest, Serving, Goto
  <2>2. ~remote.closed /\ (have_bitfield => bitfield = Pieces)
    BY <1>2, SeedHeardMeans DEF SeedInv
  <2>3. have_bitfield /\ ~CanServe
    BY <2>1, <2>2 DEF PeerUnusable
  <2>4. piece_index \in 0 .. PieceCount /\ piece_index # PieceCount
    BY <1>1 DEF SeedInv, SwarmInv, Inv, TypeOK, Completion
  <2>5. bytes_received <= piece_size
    BY DEF SeedInv, SwarmInv, Inv, Counted
  <2> QED
    BY <2>2, <2>3, <2>4, <2>5 DEF CanServe, Pieces
<1> QED
  BY <1>1, <1>2, SeedAlone

\* Nothing a seed sends is refused.
LEMMA SeedReceives ==
  ASSUME SeedInv, SwarmInv', LocoReceives
  PROVE  SeedInv'
<1> PICK m : m = Head(inbox)
  OBVIOUS
<1>1. /\ inbox \in Seq(PeerMessages) /\ inbox # <<>> /\ inbox' = Tail(inbox)
      /\ UNCHANGED <<profile, remote>> /\ Handle(m)
  BY DEF SeedInv, SwarmInv, SwarmTypeOK, LocoReceives
<1>2. m \in PeerMessages /\ m = inbox[1] /\ 1 \in DOMAIN inbox
  BY <1>1, TailChannel
<1>3. UNCHANGED i /\ pc = "receive" /\ pc' \in {"check", "drop", "overrun"}
  BY <1>1 DEF Handle, ReceiveChoke, ReceiveUnchoke, ReceiveHave, ReceiveBitfield,
              RejectBitfield, AcceptPiece, ReceivePiece, OverrunBuffer, RejectPiece, Handled,
              Refused, Goto
<1>4. CASE ~(i \in Peers /\ IsSeed(i))
  BY <1>1, <1>3, <1>4, SeedNone
<1>5. CASE i \in Peers /\ IsSeed(i)
  <2>1. /\ Fewer(Bitfields', Bitfields, inbox', inbox)
        /\ Fewer(HaveMessages', HaveMessages, inbox', inbox)
    BY <1>1, TailFewer DEF Bitfields, HaveMessages
  <2>2. m.type # "have"
    BY <1>1, <1>2, <1>5, SeedHeardMeans DEF SeedInv, HaveMessages, MessagesOf
  <2>3. CASE m.type = "bitfield"
    <3>1. 1 \in Bitfields /\ Bitfields' = {}
      BY <1>1, <1>2, <1>5, <2>3, TailNone, SeedHeardMeans DEF SeedInv, Bitfields
    <3>2. /\ ~have_bitfield /\ m.bits = Pieces /\ ~remote.closed /\ remote.announced
          /\ HaveMessages = {}
      BY <1>2, <1>5, <3>1, SeedHeardMeans DEF SeedInv
    <3>3. ReceiveBitfield(m.bits)
      BY <1>1, <2>3, <3>2 DEF Handle, RejectBitfield
    <3>4. bitfield' = Pieces /\ pc' = "check"
      BY <3>2, <3>3 DEF ReceiveBitfield, Handled, Goto
    <3>5. SeedHeard'
      BY <1>1, <2>1, <3>1, <3>2, <3>4 DEF SeedHeard, Fewer, Bitfields, HaveMessages
    <3> QED
      BY <3>4, <3>5 DEF SeedInv, FreshPeer, SeedDropped
  <2>4. CASE m.type = "piece"
    <3>1. IsRequested(m.index, m.begin, m.length)
      <4>1. 1 \in Answers
        BY <1>1, <1>2, <2>4 DEF Answers, MessagesOf
      <4> QED
        BY <4>1, <1>2, <1>3, SwarmInvMeans DEF SeedInv, Noted
    <3>2. AcceptPiece(m.index, m.begin, m.length, m.genuine)
      BY <1>1, <2>4, <3>1 DEF Handle, RejectPiece
    <3>3. UNCHANGED <<have_bitfield, bitfield>> /\ pc' \in {"check", "overrun"}
      BY <3>2 DEF AcceptPiece, ReceivePiece, OverrunBuffer, Handled, Goto, connVars
    <3> QED
      BY <1>1, <1>3, <2>1, <3>3, SeedSteady
  <2>5. CASE m.type \in {"choke", "unchoke"}
    <3>1. UNCHANGED <<have_bitfield, bitfield>> /\ pc' = "check"
      BY <1>1, <2>5 DEF Handle, ReceiveChoke, ReceiveUnchoke, Handled, Goto
    <3> QED
      BY <1>1, <1>3, <2>1, <3>1, SeedSteady
  <2> QED
    BY <1>2, <2>2, <2>3, <2>4, <2>5, PeerMessageKinds
<1> QED
  BY <1>4, <1>5

\* A seed announces itself once, with a bitfield.
LEMMA SeedAnnounces ==
  ASSUME SeedInv, SwarmInv', RemoteAnnounces
  PROVE  SeedInv'
<1>1. /\ UNCHANGED <<i, profile, have_bitfield, bitfield, pc>>
      /\ remote' = [remote EXCEPT !.announced = TRUE] /\ ~remote.announced
      /\ RemoteActive
  BY DEF RemoteAnnounces, vars, connVars
<1>2. i \in Peers /\ pc \in {"receive", "check", "serve"}
  BY <1>1, CurrentProfile DEF SeedInv
<1>3. CASE ~IsSeed(i)
  BY <1>1, <1>2, <1>3, SeedNone
<1>4. CASE IsSeed(i)
  <2> PICK m : m = Bitfield(Pieces)
    OBVIOUS
  <2>1. m \in PeerMessages /\ m.type = "bitfield" /\ m.bits = Pieces
    <3>1. m \in PeerMessages
      BY DEF PeerMessages
    <3> QED
      BY <3>1 DEF Bitfield
  <2>2. inbox' = Append(inbox, m) /\ inbox \in Seq(PeerMessages)
    <3>1. ~Trait("haves")
      BY <1>2, <1>4, SeedTraits
    <3> QED
      BY <3>1, <1>4 DEF RemoteAnnounces, IsSeed, SeedInv, SwarmInv, SwarmTypeOK
  <2>3. ~remote.closed /\ ~have_bitfield /\ Bitfields = {} /\ HaveMessages = {}
    BY <1>1, <1>2, <1>4, SeedHeardMeans DEF SeedInv
  <2>4. /\ \A n \in Bitfields' : inbox'[n] = m
        /\ \A k, n \in Bitfields' : k = n
    <3>1. ASSUME NEW n \in MessagesOf("bitfield", Append(inbox, m))
          PROVE  n = Len(inbox) + 1 /\ Append(inbox, m)[n] = m
      BY <2>1, <2>2, <2>3, AppendFirst DEF Bitfields
    <3> QED
      BY <2>2, <3>1 DEF Bitfields
  <2>5. HaveMessages' = {}
    BY <2>1, <2>2, <2>3, AppendOther DEF HaveMessages
  <2>6. ~remote'.closed /\ remote'.announced
    BY <1>1, <2>3 DEF SeedInv, SwarmInv, SwarmTypeOK
  <2>7. SeedHeard'
    BY <1>1, <2>1, <2>3, <2>4, <2>5, <2>6 DEF SeedHeard, Bitfields, HaveMessages
  <2> QED
    BY <1>1, <1>2, <2>7 DEF SeedInv, FreshPeer, SeedDropped
<1> QED
  BY <1>3, <1>4

LEMMA SeedRemote ==
  ASSUME SeedInv, SwarmInv', Remote
  PROVE  SeedInv'
<1>1. CASE RemoteAnnounces
  BY <1>1, SeedAnnounces
<1>2. CASE RemoteCloses
  <2>1. /\ UNCHANGED <<i, profile, pc>> /\ RemoteActive /\ Trait("closes")
    BY <1>2 DEF RemoteCloses, vars
  <2>2. pc \in {"receive", "check", "serve"} /\ ~(i \in Peers /\ IsSeed(i))
    BY <2>1, CurrentProfile, SeedTraits DEF SeedInv
  <2> QED
    BY <2>1, <2>2, SeedNone
<1>3. CASE RemoteUnchokes \/ RemoteChokes \/ RemoteReads
  <2>1. /\ UNCHANGED <<i, profile, have_bitfield, bitfield, pc>> /\ RemoteActive
    BY <1>3 DEF RemoteUnchokes, RemoteChokes, RemoteReads, vars, connVars
  <2>2. remote'.closed = remote.closed /\ remote'.announced = remote.announced
    BY <1>3
    DEF RemoteUnchokes, RemoteChokes, RemoteReads, SeedInv, SwarmInv, SwarmTypeOK
  <2>3. \/ inbox' = inbox
        \/ \E m : m.type \notin {"bitfield", "have"} /\ inbox' = Append(inbox, m)
    BY <1>3 DEF RemoteUnchokes, RemoteChokes, RemoteReads, Plain, Piece
  <2>4. /\ Fewer(Bitfields', Bitfields, inbox', inbox)
        /\ Fewer(HaveMessages', HaveMessages, inbox', inbox)
    <3>1. CASE inbox' = inbox
      BY <3>1, SameFewer DEF Bitfields, HaveMessages
    <3>2. ASSUME NEW m, m.type \notin {"bitfield", "have"}, inbox' = Append(inbox, m)
          PROVE  /\ Fewer(Bitfields', Bitfields, inbox', inbox)
                 /\ Fewer(HaveMessages', HaveMessages, inbox', inbox)
      <4> PICK S : S = PeerMessages \cup {m}
        OBVIOUS
      <4>1. inbox \in Seq(S) /\ m \in S
        BY DEF SeedInv, SwarmInv, SwarmTypeOK
      <4> QED
        BY <3>2, <4>1, AppendFewer DEF Bitfields, HaveMessages
    <3> QED
      BY <2>3, <3>1, <3>2
  <2>5. pc \in {"receive", "check", "serve"}
    BY <2>1, CurrentProfile DEF SeedInv
  <2> QED
    BY <2>1, <2>2, <2>4, <2>5, SeedSteady
<1> QED
  BY <1>1, <1>2, <1>3 DEF Remote

LEMMA SeedInvInit == SwarmInit => SeedInv
<1> SUFFICES ASSUME SwarmInit PROVE SeedInv
  OBVIOUS
<1>1. /\ inbox = <<>> /\ remote = NewRemote /\ ~have_bitfield /\ pc # "drop"
  BY DEF SwarmInit, Init, NoConnection
<1>2. MessagesOf("bitfield", inbox) = {} /\ MessagesOf("have", inbox) = {}
  BY <1>1 DEF MessagesOf
<1>3. ~remote.closed
  BY <1>1 DEF NewRemote
<1>4. SeedHeard
  BY <1>1, <1>2, <1>3 DEF SeedHeard
<1> QED
  BY <1>1, <1>4, SwarmInvInit DEF SeedInv, FreshPeer, SeedDropped

LEMMA SeedInvStep == SeedInv /\ [SwarmNext]_allVars => SeedInv'
<1> SUFFICES ASSUME SeedInv, [SwarmNext]_allVars PROVE SeedInv'
  OBVIOUS
<1>1. SwarmInv'
  BY SwarmInvStep DEF SeedInv
<1>2. CASE LocoConnects \/ LocoShakesHands \/ LocoLeaves \/ LocoDrops
  BY <1>1, <1>2, SeedUnconnected
<1>3. CASE LocoReceives
  BY <1>1, <1>3, SeedReceives
<1>4. CASE LocoSeesClose
  <2>1. /\ UNCHANGED <<i, profile, inbox, remote, have_bitfield, bitfield>>
        /\ pc' = "drop" /\ remote.closed
    BY <1>4 DEF LocoSeesClose, ReceiveFails, Refused, Goto, swarmVars, connVars
  <2>2. ~(i \in Peers /\ IsSeed(i))
    BY <2>1, SeedHeardMeans DEF SeedInv
  <2> QED
    BY <2>1, <2>2, <1>1, SeedAlone
<1>5. CASE LocoChecks
  BY <1>1, <1>5, SeedChecks
<1>6. CASE LocoServes
  BY <1>1, <1>6, SeedServes
<1>7. CASE Remote
  BY <1>1, <1>7, SeedRemote
<1>8. CASE UNCHANGED allVars
  <2>1. UNCHANGED <<pc, i, profile, inbox, remote, have_bitfield, bitfield, download_complete>>
    BY <1>8 DEF allVars, vars, connVars, outVars, swarmVars
  <2>2. MessagesOf("bitfield", inbox)' = MessagesOf("bitfield", inbox)
        /\ MessagesOf("have", inbox)' = MessagesOf("have", inbox)
    BY <2>1
  <2> QED
    BY <2>1, <2>2, <1>1 DEF SeedInv, FreshPeer, SeedHeard, SeedDropped, IsSeed
<1> QED
  BY <1>2, <1>3, <1>4, <1>5, <1>6, <1>7, <1>8 DEF SwarmNext, Loco

-----------------------------------------------------------------------------
(* The theorems.                                                           *)

(***************************************************************************)
(* The loop's state and what is on the way to and from the current peer    *)
(* agree at every moment (main.c:292-584).                                 *)
(***************************************************************************)
THEOREM SwarmInvariant == SwarmSpec => []SwarmInv
BY SwarmInvInit, SwarmInvStep, PTL DEF SwarmSpec

(***************************************************************************)
(* Among peers that follow the protocol, whatever their faults, the loop   *)
(* behaves as Download says it does against arbitrary ones, so everything  *)
(* proved of Download holds here too (main.c:292-584).                     *)
(***************************************************************************)
THEOREM SwarmIsDownload == SwarmSpec => Spec
<1>1. SwarmInit => Init
  BY DEF SwarmInit
<1>2. SwarmInv /\ [SwarmNext]_allVars => [Next]_vars
  BY SwarmStep DEF SwarmInv
<1> QED
  BY <1>1, <1>2, SwarmInvariant, PTL DEF SwarmSpec, Spec

(***************************************************************************)
(* loco never has two requests under way, and what is under way is what it *)
(* has noted (main.c:545-575, peer_connection.c:729-750).                  *)
(***************************************************************************)
THEOREM SwarmOneInFlight == SwarmSpec => []OneInFlight
BY SwarmInvariant, PTL DEF SwarmInv

(***************************************************************************)
(* The blocks of a peer that sends the torrent's bytes always pass the     *)
(* hash check, whatever corrupt peers came before it (main.c:437-441).     *)
(***************************************************************************)
THEOREM SwarmHonestNeverBlamed == SwarmSpec => []HonestNeverBlamed
<1>1. SwarmInv => HonestNeverBlamed
  BY DEF SwarmInv, HonestBytes, HonestNeverBlamed, PieceReceived, HashMatches
<1> QED
  BY <1>1, SwarmInvariant, PTL

(***************************************************************************)
(* What loco knows of a seed is what the seed announced, and in a torrent  *)
(* whose last piece begins inside the file it drops a seed only when it is *)
(* done (main.c:345-577).                                                  *)
(***************************************************************************)
THEOREM SeedInvariant == SwarmSpec => []SeedInv
BY SeedInvInit, SeedInvStep, PTL DEF SwarmSpec

(***************************************************************************)
(* In a torrent whose last piece begins inside the file, loco leaves a     *)
(* peer that has everything and misbehaves in nothing only when the        *)
(* download is complete (main.c:345-577).                                  *)
(***************************************************************************)
THEOREM SwarmSeedKept == ASSUME WellFormed PROVE SwarmSpec => SeedKept
<1>1. SeedInv /\ [SwarmNext]_allVars => [i' # i /\ IsSeed(i) => download_complete]_allVars
  <2> SUFFICES ASSUME SeedInv, SwarmNext, i' # i, IsSeed(i) PROVE download_complete
    OBVIOUS
  <2>1. LocoConnects \/ LocoShakesHands \/ LocoDrops
    BY DEF SwarmNext, Loco, LocoReceives, Handle, ReceiveChoke, ReceiveUnchoke, ReceiveHave,
           ReceiveBitfield, RejectBitfield, AcceptPiece, ReceivePiece, OverrunBuffer,
           RejectPiece, Handled, Refused,
           LocoSeesClose, ReceiveFails, LocoChecks, PieceNotReceived, HashMismatch,
           StorePiece, LocoServes, NothingAnnounced, PeerUnusable, SendInterested,
           SendInterestedFails, NothingToRequest, SendRequest, RequestNotSent, Serving,
           LocoLeaves, LeaveLoop, Remote, RemoteAnnounces, RemoteUnchokes, RemoteChokes,
           RemoteReads, RemoteCloses, vars
  <2>2. i \in Peers
    BY <2>1
    DEF LocoConnects, LocoShakesHands, LocoDrops, ConnectFails, ConnectSucceeds, TryPeer,
        HandshakeFails, HandshakeSucceeds, DropPeer, SeedInv, SwarmInv, Inv, CurrentPeer,
        TypeOK, Peers
  <2>3. LocoDrops
    BY <2>1, <2>2, SeedTraits
    DEF LocoConnects, LocoShakesHands, ConnectSucceeds, HandshakeSucceeds
  <2> QED
    BY <2>2, <2>3 DEF LocoDrops, DropPeer, SeedInv, SeedDropped
<1> QED
  BY <1>1, SeedInvariant, PTL DEF SwarmSpec, SeedKept
=============================================================================
