--------------------------- MODULE PeerLinkProofs ---------------------------
(***************************************************************************)
(* PeerLink's safety properties for every size of the messages and any     *)
(* number of them: LinkInv is inductive, and the properties follow.        *)
(***************************************************************************)
EXTENDS PeerLink, TLAPS

USE LinkAssumption

MessageKind == {"handshake", "interested", "request"}
Entry == [kind : MessageKind, bytes : Nat]

LEMMA SizeType ==
  \A kind \in MessageKind : Size(kind) \in Nat \ {0}
BY DEF Size, MessageKind

-----------------------------------------------------------------------------
(* The invariant holds at first.                                           *)

LEMMA LinkInit == Init => LinkInv
<1> SUFFICES ASSUME Init PROVE LinkInv
  OBVIOUS
<1>1. TypeOK /\ wire = <<>> /\ Len(wire) = 0
  BY DEF Init, TypeOK, Connecting
<1>2. SocketOwned /\ ReadyToTalk /\ Descriptor /\ AllRead
  BY DEF Init, SocketOwned, ReadyToTalk, Descriptor, AllRead, Connecting
<1>3. Unsent /\ WireSoFar /\ HandshakeFirst
  BY <1>1 DEF Init, Unsent, WireSoFar, HandshakeFirst, Sending
<1>4. WholeMessages /\ Whole
  BY <1>1 DEF WholeMessages, Whole
<1> QED
  BY <1>1, <1>2, <1>3, <1>4 DEF LinkInv

-----------------------------------------------------------------------------
(* Steps that send nothing.                                                *)

\* Nothing has been sent as long as connecting goes on: what the invariant
\* says of the wire holds whatever connect_to_peer does.
LEMMA LinkUnsent ==
  ASSUME LinkInv, UNCHANGED streamVars, pc \in Connecting,
         pc' \in Connecting \cup {"send_handshake", "failed"}
  PROVE  Unsent' /\ WireSoFar' /\ Whole' /\ WholeMessages' /\ HandshakeFirst' /\ AllRead'
<1>1. send_total = 0 /\ Len(wire) = 0 /\ wire' = wire /\ send_total' = send_total
  BY DEF LinkInv, Unsent, WireSoFar, Connecting, Sending, streamVars
<1>2. Unsent' /\ WireSoFar' /\ HandshakeFirst' /\ AllRead'
  <2>1. Size(Kind)' > 0 \/ pc' # "send_handshake"
    BY SizeType DEF Kind, Size, MessageKind
  <2> QED
    BY <1>1, <2>1 DEF Unsent, WireSoFar, HandshakeFirst, AllRead, Connecting, Sending
<1>3. Whole' /\ WholeMessages'
  BY <1>1 DEF Whole, WholeMessages
<1> QED
  BY <1>2, <1>3

LEMMA LinkConnect ==
  ASSUME LinkInv, ConnectToPeer
  PROVE  LinkInv'
<1>1. /\ UNCHANGED streamVars
      /\ pc \in Connecting
      /\ pc' \in Connecting \cup {"send_handshake", "failed"}
  BY DEF ConnectToPeer, Socket, Unblock, ConnectAtOnce, ConnectInProgress, PollReady,
         PollTimesOut, SocketErrorClear, SocketErrorSet, Restore, ReturnFailed, CloseAndFail,
         Step, Connecting
<1>2. Unsent' /\ WireSoFar' /\ Whole' /\ WholeMessages' /\ HandshakeFirst' /\ AllRead'
  BY <1>1, LinkUnsent
<1>3. TypeOK'
  <2>1. /\ fd' \in {"none", "open", "closed"}
        /\ flags' \in {"blocking", "nonblocking"}
        /\ connection' \in {"none", "pending", "made", "refused"}
    BY DEF LinkInv, TypeOK, ConnectToPeer, Socket, Unblock, ConnectAtOnce, ConnectInProgress,
           PollReady, PollTimesOut, SocketErrorClear, SocketErrorSet, Restore, ReturnFailed,
           CloseAndFail, Step, connectVars
  <2> QED
    BY <1>1, <2>1 DEF LinkInv, TypeOK, streamVars, Connecting, Sending
<1>4. Descriptor' /\ SocketOwned' /\ ReadyToTalk'
  BY DEF LinkInv, TypeOK, ConnectToPeer, Socket, Unblock, ConnectAtOnce, ConnectInProgress,
         PollReady, PollTimesOut, SocketErrorClear, SocketErrorSet, Restore, ReturnFailed,
         CloseAndFail, Step, connectVars, Descriptor, SocketOwned, ReadyToTalk, Connecting
<1> QED
  BY <1>2, <1>3, <1>4 DEF LinkInv

\* The kernel's answer, and the remote end's bytes.
LEMMA LinkOutside ==
  ASSUME LinkInv, Network \/ RemoteSends
  PROVE  LinkInv'
<1>1. UNCHANGED <<pc, fd, flags, send_total, wire, received_total, response>>
  BY DEF Network, RemoteSends, connectVars, streamVars
<1>2. TypeOK'
  BY DEF LinkInv, TypeOK, Network, RemoteSends, connectVars, streamVars
<1>3. connection' = connection \/ connection = "pending"
  BY DEF Network, RemoteSends, connectVars
<1>4. SocketOwned' /\ ReadyToTalk' /\ Descriptor'
  BY <1>1, <1>3 DEF LinkInv, SocketOwned, ReadyToTalk, Descriptor, Connecting
<1>5. Unsent' /\ WireSoFar' /\ Whole' /\ WholeMessages' /\ HandshakeFirst' /\ AllRead'
  BY <1>1 DEF LinkInv, Unsent, WireSoFar, Whole, WholeMessages, HandshakeFirst, AllRead, Kind
<1> QED
  BY <1>2, <1>4, <1>5 DEF LinkInv

\* From one place of the conversation to another, with nothing sent on the way.
Quiet ==
  \/ RecvHandshake \/ RecvHandshakeFails \/ Validate
  \/ StartSend("send_interested") \/ StartSend("send_request") \/ LeaveLoop
  \/ SendFails("send_handshake") \/ SendFails("send_interested") \/ SendFails("send_request")

LEMMA LinkQuiet ==
  ASSUME LinkInv, Quiet
  PROVE  LinkInv'
<1>1. /\ UNCHANGED <<connectVars, send_total, wire, arrived, response>>
      /\ pc \in Sending \cup {"recv_handshake", "validate", "talk"}
      /\ pc' \in {"recv_handshake", "validate", "talk", "close", "send_interested", "send_request"}
  BY DEF Quiet, RecvHandshake, RecvHandshakeFails, Validate, StartSend, LeaveLoop, SendFails,
         Step, streamVars, Sending
<1>2. /\ pc = "recv_handshake" => received_total' \in 0 .. HandshakeSize
      /\ pc # "recv_handshake" => received_total' = received_total
  BY DEF LinkInv, TypeOK, Quiet, RecvHandshake, RecvHandshakeFails, Validate, StartSend,
         LeaveLoop, SendFails, Step, streamVars, MissingOnly, Sending
<1>3. TypeOK'
  BY <1>1, <1>2 DEF LinkInv, TypeOK, connectVars, Sending, Connecting
<1>4. SocketOwned' /\ ReadyToTalk' /\ Descriptor'
  BY <1>1 DEF LinkInv, SocketOwned, ReadyToTalk, Descriptor, connectVars, Connecting, Sending
<1>5. /\ pc = "recv_handshake" => pc' \in {"recv_handshake", "validate", "close"}
      /\ pc = "validate" => pc' \in {"talk", "close"}
      /\ pc = "talk" => pc' \in {"send_interested", "send_request", "close"}
      /\ pc \in Sending => pc' = "close"
  BY DEF Quiet, RecvHandshake, RecvHandshakeFails, Validate, StartSend, LeaveLoop, SendFails,
         Step, Sending
<1>6. Unsent' /\ WireSoFar'
  <2>1. pc' \in Sending => Size(Kind)' > 0
    BY SizeType DEF Kind, Size, MessageKind, Sending
  <2> QED
    BY <1>1, <1>5, <2>1 DEF LinkInv, Unsent, WireSoFar, Sending, Connecting
<1>7. Whole' /\ WholeMessages'
  BY <1>1, <1>5 DEF LinkInv, Whole, WholeMessages, Sending
<1>8. AllRead'
  <2>1. CASE pc = "recv_handshake" /\ RecvHandshake
    BY <2>1, <1>2 DEF LinkInv, TypeOK, AllRead, RecvHandshake, MissingOnly
  <2>2. CASE ~(pc = "recv_handshake" /\ RecvHandshake)
    BY <2>2, <1>5 DEF AllRead, Quiet, RecvHandshake, RecvHandshakeFails, Validate, StartSend,
                      LeaveLoop, SendFails, Step
  <2> QED
    BY <2>1, <2>2
<1>9. HandshakeFirst'
  <2>1. CASE pc = "recv_handshake"
    BY <2>1, <1>1, <1>5 DEF LinkInv, WireSoFar, HandshakeFirst
  <2>2. CASE pc = "validate"
    BY <2>2, <1>1, <1>2, <1>5
    DEF LinkInv, AllRead, WireSoFar, HandshakeFirst, Quiet, RecvHandshake, RecvHandshakeFails,
        Validate, StartSend, LeaveLoop, SendFails, Step
  <2>3. CASE pc = "talk" \/ pc \in Sending
    BY <2>3, <1>1, <1>2, <1>5 DEF LinkInv, HandshakeFirst, Sending
  <2> QED
    BY <1>1, <2>1, <2>2, <2>3
<1> QED
  BY <1>3, <1>4, <1>6, <1>7, <1>8, <1>9 DEF LinkInv

LEMMA LinkClose ==
  ASSUME LinkInv, Close
  PROVE  LinkInv'
<1>1. pc = "close" /\ pc' = "done" /\ fd' = "closed" /\ UNCHANGED <<flags, connection, streamVars>>
  BY DEF Close, Step
<1> QED
  BY <1>1 DEF LinkInv, TypeOK, SocketOwned, ReadyToTalk, WholeMessages, HandshakeFirst,
              Descriptor, Unsent, WireSoFar, Whole, AllRead, streamVars, Connecting, Sending

-----------------------------------------------------------------------------
(* Steps that send.                                                        *)

SendAction(from, kind, to) ==
  /\ \/ from = "send_handshake" /\ kind = "handshake" /\ to = "recv_handshake"
     \/ from = "send_interested" /\ kind = "interested" /\ to = "talk"
     \/ from = "send_request" /\ kind = "request" /\ to = "talk"
  /\ SendSome(from, kind, to)

\* What one send does to the wire: the last entry is the buffer in hand, with
\* what has been sent of it so far, and the entries before it stay as they were.
LEMMA SentSoFar ==
  ASSUME LinkInv, NEW from, NEW kind, NEW to, SendAction(from, kind, to)
  PROVE  LET m == Len(wire') IN
         /\ kind \in MessageKind /\ Kind = kind /\ pc = from /\ from \in Sending
         /\ wire' \in Seq(Entry)
         /\ m = IF send_total = 0 THEN Len(wire) + 1 ELSE Len(wire)
         /\ m \in Nat \ {0}
         /\ wire'[m].kind = kind
         /\ \/ wire'[m].bytes = Size(kind) /\ pc' = to /\ send_total' = 0
            \/ /\ wire'[m] = [kind |-> kind, bytes |-> send_total']
               /\ send_total' \in 1 .. Size(kind) - 1
               /\ pc' = from
         /\ \A k \in 1 .. m - 1 : k \in 1 .. Len(wire) /\ wire'[k] = wire[k]
<1>1. /\ kind \in MessageKind /\ Kind = kind /\ pc = from /\ from \in Sending
      /\ Size(kind) \in Nat
  BY SizeType DEF SendAction, SendSome, Kind, MessageKind, Sending
<1>2. wire \in Seq(Entry) /\ send_total \in Nat
  BY DEF LinkInv, TypeOK, Entry, MessageKind
<1>3. PICK n \in 1 .. Size(kind) - send_total :
        /\ PutOnWire(kind, n)
        /\ IF send_total + n = Size(kind) THEN pc' = to /\ send_total' = 0
                                          ELSE pc' = from /\ send_total' = send_total + n
  BY DEF SendAction, SendSome, SentAll
<1>4. CASE send_total = 0
  <2>1. wire' = Append(wire, [kind |-> kind, bytes |-> n])
    BY <1>3, <1>4 DEF PutOnWire
  <2>2. [kind |-> kind, bytes |-> n] \in Entry
    BY <1>1 DEF Entry
  <2> QED
    BY <1>1, <1>2, <1>3, <1>4, <2>1, <2>2
<1>5. CASE send_total > 0
  <2>1. Len(wire) \in Nat \ {0} /\ wire[Len(wire)] = [kind |-> kind, bytes |-> send_total]
    BY <1>1, <1>2, <1>5 DEF LinkInv, Unsent
  <2>2. wire' = [wire EXCEPT ![Len(wire)] = [kind |-> kind, bytes |-> send_total + n]]
    BY <1>3, <1>5, <2>1 DEF PutOnWire
  <2>3. [kind |-> kind, bytes |-> send_total + n] \in Entry
    BY <1>1, <1>2 DEF Entry
  <2> QED
    BY <1>1, <1>2, <1>3, <1>5, <2>1, <2>2, <2>3
<1> QED
  BY <1>2, <1>4, <1>5

LEMMA LinkSend ==
  ASSUME LinkInv, NEW from, NEW kind, NEW to, SendAction(from, kind, to)
  PROVE  LinkInv'
<1> DEFINE m == Len(wire')
<1>1. /\ kind \in MessageKind /\ Kind = kind /\ pc = from /\ from \in Sending
      /\ wire' \in Seq(Entry)
      /\ m = IF send_total = 0 THEN Len(wire) + 1 ELSE Len(wire)
      /\ m \in Nat \ {0}
      /\ wire'[m].kind = kind
      /\ \/ wire'[m].bytes = Size(kind) /\ pc' = to /\ send_total' = 0
         \/ /\ wire'[m] = [kind |-> kind, bytes |-> send_total']
            /\ send_total' \in 1 .. Size(kind) - 1
            /\ pc' = from
      /\ \A k \in 1 .. m - 1 : k \in 1 .. Len(wire) /\ wire'[k] = wire[k]
  BY SentSoFar
<1>2. UNCHANGED <<connectVars, arrived, received_total, response>>
  BY DEF SendAction, SendSome
<1>3. /\ from = "send_handshake" <=> kind = "handshake"
      /\ from = "send_interested" <=> kind = "interested"
      /\ from = "send_request" <=> kind = "request"
      /\ to = IF from = "send_handshake" THEN "recv_handshake" ELSE "talk"
  BY DEF SendAction
<1>4. Size(kind) \in Nat \ {0} /\ send_total \in Nat /\ Len(wire) \in Nat
  BY <1>1, SizeType DEF LinkInv, TypeOK
<1>5. TypeOK'
  <2>1. pc' \in Sending \cup {"recv_handshake", "talk"} /\ send_total' \in Nat
    BY <1>1, <1>3, <1>4
  <2>2. wire' \in Seq([kind : {"handshake", "interested", "request"}, bytes : Nat])
    BY <1>1 DEF Entry, MessageKind
  <2> QED
    BY <1>2, <2>1, <2>2 DEF LinkInv, TypeOK, connectVars
<1>6. SocketOwned' /\ ReadyToTalk' /\ Descriptor' /\ AllRead'
  BY <1>1, <1>2, <1>3
  DEF LinkInv, SocketOwned, ReadyToTalk, Descriptor, AllRead, connectVars, Connecting, Sending
<1>7. /\ pc = "send_handshake" => m = 1
      /\ pc # "send_handshake" => m > 0 /\ Len(wire) > 0
  BY <1>1, <1>4 DEF LinkInv, WireSoFar, Sending
<1>8. Unsent'
  <2>1. pc' = from => Kind' = kind
    BY <1>1 DEF Kind
  <2> QED
    BY <1>1, <1>3, <1>4, <2>1 DEF Unsent, Sending
<1>9. WireSoFar'
  BY <1>1, <1>3, <1>4, <1>7 DEF WireSoFar, Connecting, Sending
<1>10. \A k \in 1 .. m - 1 : wire'[k].bytes = Size(wire'[k].kind)
  BY <1>1, <1>4 DEF LinkInv, Whole, Sending
<1>11. Whole'
  BY <1>1, <1>4, <1>10 DEF Whole, Sending
<1>12. WholeMessages'
  <2>1. \A k \in 1 .. m : (wire'[k].kind = "handshake") <=> (k = 1)
    <3>1. \A k \in 1 .. m - 1 : (wire'[k].kind = "handshake") <=> (k = 1)
      BY <1>1 DEF LinkInv, WholeMessages
    <3>2. (wire'[m].kind = "handshake") <=> (m = 1)
      BY <1>1, <1>3, <1>4, <1>7 DEF LinkInv, Unsent, WholeMessages
    <3>3. \A k \in 1 .. m : k = m \/ k \in 1 .. m - 1
      BY <1>1
    <3> HIDE DEF m
    <3> QED
      BY <3>1, <3>2, <3>3
  <2>2. \A k \in 1 .. m : \/ wire'[k].bytes = Size(wire'[k].kind)
                          \/ k = m /\ pc' \in Sending \cup {"close", "done"}
    BY <1>1, <1>10 DEF Sending
  <2> QED
    BY <2>1, <2>2 DEF WholeMessages
<1>13. HandshakeFirst'
  BY <1>1, <1>2, <1>3, <1>7 DEF LinkInv, HandshakeFirst, Sending
<1> QED
  BY <1>5, <1>6, <1>8, <1>9, <1>11, <1>12, <1>13 DEF LinkInv

-----------------------------------------------------------------------------
(* The theorems.                                                           *)

LEMMA LinkNext == LinkInv /\ [Next]_vars => LinkInv'
<1> SUFFICES ASSUME LinkInv, [Next]_vars PROVE LinkInv'
  OBVIOUS
<1>1. CASE ConnectToPeer
  BY <1>1, LinkConnect
<1>2. CASE Network \/ RemoteSends
  BY <1>2, LinkOutside
<1>3. CASE Quiet
  BY <1>3, LinkQuiet
<1>4. CASE Close
  BY <1>4, LinkClose
<1>5. CASE SendSome("send_handshake", "handshake", "recv_handshake")
  BY <1>5, LinkSend DEF SendAction
<1>6. CASE SendSome("send_interested", "interested", "talk")
  BY <1>6, LinkSend DEF SendAction
<1>7. CASE SendSome("send_request", "request", "talk")
  BY <1>7, LinkSend DEF SendAction
<1>8. CASE UNCHANGED vars
  BY <1>8 DEF LinkInv, TypeOK, SocketOwned, ReadyToTalk, WholeMessages, HandshakeFirst,
              Descriptor, Unsent, WireSoFar, Whole, AllRead, Kind, vars, connectVars, streamVars
<1> QED
  BY <1>1, <1>2, <1>3, <1>4, <1>5, <1>6, <1>7, <1>8 DEF Next, Handshake, Talk, Quiet

(***************************************************************************)
(* The invariant of a socket's life holds at every step, whatever the      *)
(* sizes of the messages and however the kernel cuts send and recv         *)
(* (peer_connection.c:55-255 and 311-436, main.c:298-319 and 579-583).     *)
(***************************************************************************)
THEOREM LinkInvariant == Spec => []LinkInv
BY LinkInit, LinkNext, PTL DEF Spec

(***************************************************************************)
(* No way out of connecting, shaking hands or talking leaves the socket    *)
(* open (peer_connection.c:69-121, main.c:317 and 583).                    *)
(***************************************************************************)
THEOREM LinkSocketOwned == Spec => []SocketOwned
<1>1. LinkInv => SocketOwned
  BY DEF LinkInv
<1> QED
  BY <1>1, LinkInvariant, PTL

(***************************************************************************)
(* A descriptor that connect_to_peer returned is open, connected and       *)
(* blocking until it is closed (peer_connection.c:84-124).                 *)
(***************************************************************************)
THEOREM LinkReadyToTalk == Spec => []ReadyToTalk
<1>1. LinkInv => ReadyToTalk
  BY DEF LinkInv
<1> QED
  BY <1>1, LinkInvariant, PTL

(***************************************************************************)
(* The remote end reads a handshake and then whole messages, whatever      *)
(* send returns; only the last may be torn (peer_connection.c:201-223,     *)
(* 363-386 and 411-435).                                                   *)
(***************************************************************************)
THEOREM LinkWholeMessages == Spec => []WholeMessages
<1>1. LinkInv => WholeMessages
  BY DEF LinkInv
<1> QED
  BY <1>1, LinkInvariant, PTL

(***************************************************************************)
(* loco talks only to a peer whose handshake it has read, in full and no   *)
(* further, and accepted (peer_connection.c:225-254).                      *)
(***************************************************************************)
THEOREM LinkHandshakeFirst == Spec => []HandshakeFirst
<1>1. LinkInv => HandshakeFirst
  BY DEF LinkInv
<1> QED
  BY <1>1, LinkInvariant, PTL
=============================================================================
