---------------------------- MODULE MCToolGateway ----------------------------
(* Instances of ToolGateway: a budgeted money tool, one or two owners' clicks. *)
EXTENDS ToolGateway

CONSTANTS c1, c2, k1, k2, setBudget
=============================================================================
