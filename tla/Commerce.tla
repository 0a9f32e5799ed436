------------------------------ MODULE Commerce ------------------------------
(***************************************************************************)
(* What a company spends to sell (AdBudgets) and what it sells (Shop),     *)
(* which share no state: a behaviour is one of the first or one of the     *)
(* second, beside the initial state of the other.                          *)
(***************************************************************************)
EXTENDS AdBudgets

CONSTANTS
  Products, Orders, ProductOf, Price, Fee, Platform, MaxKeys, MaxMishaps   \* the shop's

VARIABLES half, key, platform, setter, product, advertised, order, handler, sale, balance, mishaps
Selling == INSTANCE Shop WITH MaxFaults <- MaxMishaps, faults <- mishaps
ASSUME CommerceAssumption == Selling!ShopAssumption

shopVars == <<key, platform, setter, product, advertised, order, handler, sale, balance, mishaps>>
All == <<half, vars, shopVars>>
Advertise(A) == half = "ads" /\ A /\ UNCHANGED <<half, shopVars>>
Sell(A) == half = "shop" /\ A /\ UNCHANGED <<half, vars>>

InitHalf ==
  /\ half \in {"ads", "shop"} /\ Init /\ Selling!Init
  /\ IF half = "ads" THEN platform = 0 ELSE cap = 0 /\ autonomy = "bounded"   \* one of them
NextHalf == Advertise(Next) \/ Sell(Selling!Next)
Halves == InitHalf /\ [][NextHalf]_All
FairHalves ==
  /\ Halves
  /\ \A s \in Syncs : WF_All(Advertise(SyncStep(s)))
  /\ \A o \in Orders : WF_All(Sell(Selling!DeliverEvent(o))) /\ WF_All(Sell(Selling!recordPayment(o)))

\* AdBudgets' properties, of the first half.
AdSpendKept == BackstopHolds /\ SpendAudited
AdSpendStops == half = "ads" => SpendStops

\* Shop's properties, of the second half.
ShopKept == Selling!ShopKept
SalesArrive == Selling!SalesArrive
=============================================================================
