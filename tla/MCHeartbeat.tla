---------------------------- MODULE MCHeartbeat ----------------------------
(***************************************************************************)
(* An instance of Heartbeats. Planning: titles page and its rewording      *)
(* page2. Learning: two companies of one conglomerate, one insight; a good *)
(* day brings a sale, a bad one nothing.                                   *)
(***************************************************************************)
EXTENDS Heartbeats

CONSTANTS page, page2, chat, acme, zeta, price

Reworded == {<<t, t>> : t \in Titles} \cup {<<page, page2>>, <<page2, page>>}
GoodAndBadDays == {<<0, 0>>, <<2, 1>>}
=============================================================================
