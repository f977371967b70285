--------------------------- MODULE MCHookAdapter ----------------------------
(***************************************************************************)
(* Instance of HookAdapter: two daemons, so that one takes the other's     *)
(* socket, and one client.                                                 *)
(***************************************************************************)
EXTENDS HookAdapter

CONSTANTS d1, d2, r1

TwoDaemons == {d1, d2}
OneRequest == {r1}

=============================================================================
