---------------------------- MODULE MCGuardClient ----------------------------
(* GuardClient for TLC. *)
EXTENDS GuardClient

Scope(a, f, n) == [ability |-> a, faults |-> f, terminals |-> n]
MCScopes == {Scope("none", 2, 0), Scope("screen", 1, 0), Scope("terminal", 1, 1), Scope("terminal", 0, 2)}
=============================================================================
