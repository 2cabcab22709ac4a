---------------------------- MODULE MCTCPServer -----------------------------
(* TCPServer for TLC. *)
EXTENDS TCPServer
=============================================================================
