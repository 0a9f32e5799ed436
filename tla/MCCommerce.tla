----------------------------- MODULE MCCommerce -----------------------------
(***************************************************************************)
(* An instance of Commerce. Advertising: two campaigns, one tool call, one *)
(* heartbeat. Selling: one product, two customers, keys of two Stripe      *)
(* accounts.                                                               *)
(***************************************************************************)
EXTENDS Commerce

CONSTANTS a1, a2, w1, s1, product1, ann, bob

OneProduct == [o \in Orders |-> product1]
=============================================================================
