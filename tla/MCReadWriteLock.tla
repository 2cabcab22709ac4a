--------------------------- MODULE MCReadWriteLock ---------------------------
(* ReadWriteLock for TLC. *)
EXTENDS ReadWriteLock
=============================================================================
