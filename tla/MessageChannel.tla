--------------------------- MODULE MessageChannel ---------------------------
(***************************************************************************)
(* What the download loop relies on when it calls                          *)
(* receive_peer_wire_message: the messages of a peer come one by one, in   *)
(* order, each of them well formed, until the connection is given up.      *)
(* PeerWire implements this over a stream of bytes.                        *)
(***************************************************************************)
EXTENDS Sequences, Naturals

CONSTANTS
  Message,          \* everything a peer can put on the wire
  WellFormed(_)     \* the messages loco takes

VARIABLES sent, delivered, given_up

cvars == <<sent, delivered, given_up>>

Init == sent = <<>> /\ delivered = <<>> /\ given_up = FALSE

Send ==
  /\ \E m \in Message : sent' = Append(sent, m)
  /\ UNCHANGED <<delivered, given_up>>

Deliver ==
  /\ ~given_up
  /\ Len(delivered) < Len(sent)
  /\ LET m == sent[Len(delivered) + 1]
     IN WellFormed(m) /\ delivered' = Append(delivered, m)
  /\ UNCHANGED <<sent, given_up>>

GiveUp == given_up' = TRUE /\ UNCHANGED <<sent, delivered>>

Next == Send \/ Deliver \/ GiveUp

Spec == Init /\ [][Next]_cvars
=============================================================================
