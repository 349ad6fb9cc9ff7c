----------------------------- MODULE MCPairing -----------------------------
(* Instances of Pairing for TLC. *)
EXTENDS Pairing

CONSTANTS p1, p2

TwoPairings == {p1, p2}
AllEvents   == Enders
=============================================================================
