---------------------------- MODULE MCTCPEgress ----------------------------
(* TCPEgress for TLC: four frames of two parts, at most three connections.  *)
EXTENDS TCPEgress
=============================================================================
