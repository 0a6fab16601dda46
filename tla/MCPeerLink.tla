----------------------------- MODULE MCPeerLink -----------------------------
(* TLC's instance of PeerLink: buffers of two to four bytes.               *)
EXTENDS PeerLink
=============================================================================
