--------------------------- MODULE MCCreditGrants ---------------------------
(***************************************************************************)
(* An instance of CustomerAccounts: one conglomerate's plans and payments  *)
(* over a calendar whose second month is the short one, and an owner at    *)
(* the door with two requests open.                                        *)
(***************************************************************************)
EXTENDS CustomerAccounts

CONSTANTS g1, p1, p2, o1, d1, e1, ann, acme, brew

ShortSecondMonth == <<2, 1, 1>>
TwoAndOne == [create_company |-> 2, heartbeat |-> 1]
=============================================================================
