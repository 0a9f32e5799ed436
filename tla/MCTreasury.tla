----------------------------- MODULE MCTreasury -----------------------------
(* Instances of Treasury: values for the constants that are functions.     *)
EXTENDS Treasury

CONSTANTS c1, c2, p1, p2, w1, w2

\* One sale each. After a withdrawal c1 has 1 left, so that a refill of 2
\* drains both companies.
SellerOf == [p \in Payments |-> IF p = p2 THEN c2 ELSE c1]
NetOf == [p \in Payments |-> IF p = p2 THEN 1 ELSE 3]
FromC1 == [w \in Withdrawals |-> c1]
AmountOf == [w \in Withdrawals |-> 2]
FeeOf == [w \in Withdrawals |-> 1]
=============================================================================
