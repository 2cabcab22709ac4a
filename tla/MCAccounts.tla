----------------------------- MODULE MCAccounts -----------------------------
(* Accounts for TLC. *)
EXTENDS Accounts

CONSTANTS ip1
MCPeerIP == [c \in Connections |-> ip1]
=============================================================================
