----------------------------- MODULE MCPairing ------------------------------
(***************************************************************************)
(* Instance of Pairing: two daemons and two runs of pair, one of which may *)
(* die.                                                                    *)
(***************************************************************************)
EXTENDS Pairing

CONSTANTS d1, d2, p1, p2

TwoDaemons == {d1, d2}
TwoPairers == {p1, p2}

=============================================================================
