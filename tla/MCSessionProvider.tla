------------------------- MODULE MCSessionProvider -------------------------
(* Three tool calls and one credential check, for TLC. Two of the callers  *)
(* have credentials with one identifier.                                   *)
EXTENDS SessionProvider, TLC

CONSTANTS r1, r2, r3, p, alice, bob, carol, a, c

ThreeCallers == r1 :> alice @@ r2 :> bob @@ r3 :> carol @@ p :> alice
OneCaller == r1 :> alice @@ r2 :> alice

Colliding == alice :> a @@ bob :> a @@ carol :> c
=============================================================================
