---------------------------- MODULE MCServerRooms ----------------------------
(* ServerRooms for TLC: who logs in as what. *)
EXTENDS ServerRooms, TLC

CONSTANTS a1, a2, g1, g2, v1, v2

\* Two guards of one account, two visitors of another.
Owners == (g1 :> a1) @@ (g2 :> a1) @@ (v1 :> a2) @@ (v2 :> a2)

ScreenAndTerminal == (g1 :> {"screen", "terminal"}) @@ (g2 :> {"screen", "terminal"})
OneScreenOneTerminal == (v1 :> "screen") @@ (v2 :> "terminal")

ScreenAndFile == (g1 :> {"screen", "file"}) @@ (g2 :> {"file"})
BothFile == (v1 :> "file") @@ (v2 :> "file")
OneScreenOneFile == (v1 :> "screen") @@ (v2 :> "file")
=============================================================================
