----------------------------- MODULE MCFounding -----------------------------
(***************************************************************************)
(* Two prompts of two conglomerates that ask for the same slug.            *)
(***************************************************************************)
EXTENDS Founding, TLC

CONSTANTS bakery, cafe
Congs == bakery :> "c1" @@ cafe :> "c2"
SameSlug == [p \in Prompts |-> {"bread"}]
=============================================================================
