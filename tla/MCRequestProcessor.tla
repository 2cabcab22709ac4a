------------------------- MODULE MCRequestProcessor -------------------------
(* RequestProcessor for TLC. *)
EXTENDS RequestProcessor
=============================================================================
