------------------------------ MODULE PeerLink ------------------------------
(***************************************************************************)
(* The life of one socket on loco's side: connect_to_peer,                 *)
(* handshake_with_peer, peer_send_interested and peer_send_request         *)
(* (peer_connection.c:55-255 and 311-436), and the places in main.c that   *)
(* call them and close the socket (main.c:298-319 and 579-583).  Every     *)
(* call may fail, send takes any number of bytes, recv returns any number; *)
(* an interrupted call is tried again: a stuttering step.                  *)
(*                                                                         *)
(* The remote end answers with its handshake, the right one or another,    *)
(* and sends messages straight after it.                                   *)
(***************************************************************************)
EXTENDS Sequences, Naturals

CONSTANTS
  HandshakeSize,    \* HANDSHAKE_BYTES_LENGTH, 68
  InterestedSize,   \* PEER_MESSAGE_INTERESTED_LENGTH, 5
  RequestSize,      \* PEER_MESSAGE_REQUEST_LENGTH, 17
  MaxMessages       \* bound: messages sent on one connection

ASSUME LinkAssumption ==
  /\ HandshakeSize \in Nat \ {0}
  /\ InterestedSize \in Nat \ {0}
  /\ RequestSize \in Nat \ {0}
  /\ MaxMessages \in Nat

VARIABLES
  pc,
  fd,            \* none, open or closed
  flags,         \* the file status flags: blocking or nonblocking
  connection,    \* what the kernel knows: none, pending, made, refused
  send_total,    \* of the buffer that is being sent
  wire,          \* what was sent: for each buffer its kind and its bytes
  arrived,       \* bytes the remote end has sent
  received_total,
  response       \* the handshake that comes: right or wrong

connectVars == <<fd, flags, connection>>
streamVars == <<send_total, wire, arrived, received_total, response>>
vars == <<pc, connectVars, streamVars>>

-----------------------------------------------------------------------------
Init ==
  /\ pc = "socket"
  /\ fd = "none"
  /\ flags = "blocking"
  /\ connection = "none"
  /\ send_total = 0
  /\ wire = <<>>
  /\ arrived = 0
  /\ received_total = 0
  /\ response \in {"right", "wrong"}

Step(from, to) == pc = from /\ pc' = to /\ UNCHANGED streamVars

\* A return of -1 from connect_to_peer: main goes on to the next peer.
ReturnFailed(from) == Step(from, "failed")

\* Every failure after socket closes it.  (Returning without is a plausible
\* mistake.)
FailWithoutClose(from) == ReturnFailed(from) /\ UNCHANGED connectVars

CloseAndFail(from) ==
  /\ ReturnFailed(from)
  /\ fd' = "closed"
  /\ UNCHANGED <<flags, connection>>

-----------------------------------------------------------------------------
(* connect_to_peer                                                         *)

Socket ==
  \/ Step("socket", "unblock") /\ fd' = "open" /\ UNCHANGED <<flags, connection>>
  \/ ReturnFailed("socket") /\ UNCHANGED connectVars

\* Both fcntl calls.
Unblock ==
  \/ Step("unblock", "connect") /\ flags' = "nonblocking" /\ UNCHANGED <<fd, connection>>
  \/ CloseAndFail("unblock")

ConnectAtOnce ==
  Step("connect", "restore") /\ connection' = "made" /\ UNCHANGED <<fd, flags>>

ConnectInProgress ==
  Step("connect", "poll") /\ connection' = "pending" /\ UNCHANGED <<fd, flags>>

\* The answer of the other end, or of the network, to a pending connection.
Network ==
  /\ connection = "pending"
  /\ connection' \in {"made", "refused"}
  /\ UNCHANGED <<pc, fd, flags, streamVars>>

\* poll reports a socket that is writable, which a refused one is too.
PollReady ==
  /\ connection # "pending"
  /\ Step("poll", "sockopt")
  /\ UNCHANGED connectVars

\* The timeout may come before or after the answer.  (A poll without one is a
\* plausible mistake.)
PollWaits == FALSE

PollTimesOut == CloseAndFail("poll")

\* SO_ERROR is clear.  (Taking poll's word for it is a plausible mistake.)
SocketErrorIgnored ==
  Step("sockopt", "restore") /\ UNCHANGED connectVars

SocketErrorClear ==
  connection = "made" /\ Step("sockopt", "restore") /\ UNCHANGED connectVars

\* getsockopt fails, or reports the connection's error.
SocketErrorSet == CloseAndFail("sockopt")

Restore ==
  \/ Step("restore", "send_handshake") /\ flags' = "blocking" /\ UNCHANGED <<fd, connection>>
  \/ CloseAndFail("restore")

ConnectToPeer ==
  \/ Socket \/ Unblock
  \/ ConnectAtOnce \/ ConnectInProgress \/ CloseAndFail("connect")
  \/ PollReady \/ PollTimesOut
  \/ SocketErrorClear \/ SocketErrorSet
  \/ Restore

-----------------------------------------------------------------------------
(* The loops around send.                                                  *)

Size(kind) ==
  CASE kind = "handshake"  -> HandshakeSize
    [] kind = "interested" -> InterestedSize
    [] kind = "request"    -> RequestSize

\* The first n bytes of what is left of the buffer reach the wire.
PutOnWire(kind, n) ==
  IF send_total = 0
  THEN wire' = Append(wire, [kind |-> kind, bytes |-> n])
  ELSE wire' = [wire EXCEPT ![Len(wire)].bytes = @ + n]

\* (Taking the first send for all of it is a plausible mistake.)
SentOnce(kind, n) == TRUE

SentAll(kind, n) == send_total + n = Size(kind)

SendSome(from, kind, to) ==
  /\ pc = from
  /\ \E n \in 1 .. Size(kind) - send_total :
       /\ PutOnWire(kind, n)
       /\ IF SentAll(kind, n) THEN pc' = to /\ send_total' = 0
                              ELSE pc' = from /\ send_total' = send_total + n
  /\ UNCHANGED <<connectVars, arrived, received_total, response>>

\* send returns 0 or an error other than EINTR; main closes the socket.
SendFails(from) ==
  /\ pc = from
  /\ pc' = "close"
  /\ UNCHANGED <<connectVars, streamVars>>

-----------------------------------------------------------------------------
(* handshake_with_peer                                                     *)

\* The remote end sends its handshake, and one message after it.
RemoteSends ==
  /\ connection = "made" /\ fd = "open"
  /\ arrived < HandshakeSize + RequestSize
  /\ arrived' = arrived + 1
  /\ UNCHANGED <<pc, connectVars, send_total, wire, received_total, response>>

\* recv is asked for the bytes still missing.  (Asking for all there is is a
\* plausible mistake.)
AnythingThere(n) == n <= arrived - received_total

MissingOnly(n) == n <= HandshakeSize - received_total

RecvHandshake ==
  /\ pc = "recv_handshake"
  /\ \E n \in 1 .. arrived - received_total :
       /\ MissingOnly(n)
       /\ received_total' = received_total + n
       /\ pc' = IF received_total + n < HandshakeSize THEN "recv_handshake" ELSE "validate"
  /\ UNCHANGED <<connectVars, send_total, wire, arrived, response>>

\* The end of the stream or an error.
RecvHandshakeFails == Step("recv_handshake", "close") /\ UNCHANGED connectVars

\* validate_handshake_response: protocol name and info hash.
Validate ==
  /\ IF response = "right" THEN Step("validate", "talk") ELSE Step("validate", "close")
  /\ UNCHANGED connectVars

Handshake ==
  \/ SendSome("send_handshake", "handshake", "recv_handshake")
  \/ SendFails("send_handshake")
  \/ RecvHandshake \/ RecvHandshakeFails
  \/ Validate

-----------------------------------------------------------------------------
(* The download loop sends, and leaves.                                    *)

StartSend(place) ==
  /\ Len(wire) <= MaxMessages
  /\ Step("talk", place)
  /\ UNCHANGED connectVars

\* The loop has ended, for whatever reason.
LeaveLoop == Step("talk", "close") /\ UNCHANGED connectVars

Close ==
  /\ Step("close", "done")
  /\ fd' = "closed"
  /\ UNCHANGED <<flags, connection>>

Talk ==
  \/ StartSend("send_interested") \/ StartSend("send_request")
  \/ SendSome("send_interested", "interested", "talk") \/ SendFails("send_interested")
  \/ SendSome("send_request", "request", "talk") \/ SendFails("send_request")
  \/ LeaveLoop
  \/ Close

-----------------------------------------------------------------------------
Next == ConnectToPeer \/ Network \/ Handshake \/ RemoteSends \/ Talk

\* poll returns after POLL_TIMEOUT_MILLISECONDS, the calls before it at once.
Spec == Init /\ [][Next]_vars /\ WF_vars(ConnectToPeer)

-----------------------------------------------------------------------------
(* What must hold.                                                         *)

Connecting == {"socket", "unblock", "connect", "poll", "sockopt", "restore"}
Sending == {"send_handshake", "send_interested", "send_request"}

TypeOK ==
  /\ pc \in Connecting \cup Sending
            \cup {"recv_handshake", "validate", "talk", "close", "failed", "done"}
  /\ fd \in {"none", "open", "closed"}
  /\ flags \in {"blocking", "nonblocking"}
  /\ connection \in {"none", "pending", "made", "refused"}
  /\ send_total \in Nat /\ arrived \in Nat
  /\ received_total \in 0 .. HandshakeSize
  /\ wire \in Seq([kind : {"handshake", "interested", "request"}, bytes : Nat])
  /\ response \in {"right", "wrong"}

(***************************************************************************)
(* SocketOwned: no way out of connecting, shaking hands or talking leaves  *)
(* the socket open (peer_connection.c:69-121, main.c:317 and 583).         *)
(***************************************************************************)
SocketOwned == pc \in {"failed", "done"} => fd # "open"

(***************************************************************************)
(* ReadyToTalk: a descriptor that connect_to_peer returns is open, really  *)
(* connected and blocking again; everything after it counts on recv and    *)
(* send to wait (peer_connection.c:84-124).                                *)
(***************************************************************************)
ReadyToTalk ==
  pc \notin Connecting \cup {"failed", "done"} =>
    fd = "open" /\ connection = "made" /\ flags = "blocking"

(***************************************************************************)
(* WholeMessages: however send cuts them, the remote end reads a handshake *)
(* and then whole messages; only the last may be torn, when loco has given *)
(* the socket up or is still sending it (peer_connection.c:201-223,        *)
(* 363-386 and 411-435).                                                   *)
(***************************************************************************)
WholeMessages ==
  /\ \A k \in 1 .. Len(wire) : (wire[k].kind = "handshake") <=> (k = 1)
  /\ \A k \in 1 .. Len(wire) :
       \/ wire[k].bytes = Size(wire[k].kind)
       \/ k = Len(wire) /\ pc \in Sending \cup {"close", "done"}

(***************************************************************************)
(* HandshakeFirst: loco talks only to a peer whose handshake it has read   *)
(* in full and accepted, and leaves the bytes that follow it for the first *)
(* message (peer_connection.c:225-254).                                    *)
(***************************************************************************)
HandshakeFirst ==
  pc \in {"talk", "send_interested", "send_request"} \/ Len(wire) > 1 =>
    received_total = HandshakeSize /\ response = "right"

(* The inductive invariant.                                                *)

\* The message that a place of the program sends.
Kind ==
  CASE pc = "send_handshake"  -> "handshake"
    [] pc = "send_interested" -> "interested"
    [] pc = "send_request"    -> "request"
    [] OTHER                  -> "none"

\* The descriptor is open from socket to close, and nothing is taken to be
\* connected before the kernel says so.
Descriptor ==
  /\ fd = "none" => pc \in {"socket", "failed"}
  /\ fd = "closed" => pc \in {"failed", "done"}
  /\ pc = "socket" => fd = "none"
  /\ pc = "restore" => connection = "made"

\* What was sent of the buffer in hand is the last entry of the wire.
Unsent ==
  /\ pc \in Sending => send_total < Size(Kind)
  /\ pc \in Sending /\ send_total > 0 =>
       Len(wire) > 0 /\ wire[Len(wire)] = [kind |-> Kind, bytes |-> send_total]
  /\ pc \notin Sending \cup {"close", "done"} => send_total = 0

\* When the first entry of the wire is made, and when the second may be.
WireSoFar ==
  /\ pc \in Connecting \cup {"failed"} => Len(wire) = 0
  /\ pc = "send_handshake" => Len(wire) = IF send_total = 0 THEN 0 ELSE 1
  /\ pc \in {"recv_handshake", "validate"} => Len(wire) = 1
  /\ pc \in {"talk", "send_interested", "send_request"} => Len(wire) > 0

\* Everything but a buffer that is being sent, or was given up, is whole.
Whole ==
  \A k \in 1 .. Len(wire) :
    \/ wire[k].bytes = Size(wire[k].kind)
    \/ k = Len(wire) /\ pc \in {"close", "done"}
    \/ k = Len(wire) /\ pc \in Sending /\ send_total > 0

\* The handshake is validated when all of it has been read.
AllRead == pc = "validate" => received_total = HandshakeSize

(***************************************************************************)
(* LinkInv: what holds between any two calls of the socket's life, and     *)
(* makes the properties above hold (peer_connection.c:55-255 and 311-436). *)
(***************************************************************************)
LinkInv ==
  /\ TypeOK
  /\ SocketOwned /\ ReadyToTalk /\ WholeMessages /\ HandshakeFirst
  /\ Descriptor /\ Unsent /\ WireSoFar /\ Whole /\ AllRead

(***************************************************************************)
(* ConnectReturns: connecting never takes for ever, whether or not the     *)
(* other end answers (the poll timeout, peer_connection.c:96).             *)
(***************************************************************************)
ConnectReturns == <>(pc \notin Connecting)
=============================================================================
