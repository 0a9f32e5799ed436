--------------------------- MODULE MCLedgerCalls ---------------------------
(***************************************************************************)
(* An instance of LedgerCalls. Wide: two departments beside each other     *)
(* whose calls are tried once, with a failure outside them; deep: one      *)
(* whose calls are tried twice, without one.                               *)
(*                                                                         *)
(* Two processes append, a terminal follows. A heartbeat finds             *)
(* nothing to do, a launch playbook not yet run, or a sale beside a        *)
(* failure and mail; a wallet is below a task, standard, or ample.         *)
(***************************************************************************)
EXTENDS LedgerCalls

CONSTANTS w1, w2, acme, zeta, live

Found(queued, reports, failed, unread, revenue) ==
  [queued |-> queued, reports |-> reports, failed |-> failed, unread |-> unread,
   approvals |-> 0, revenue |-> revenue, balance |-> 0]
Days == {Found(0, 1, 0, 0, 0), Found(4, 0, 0, 0, 0), Found(0, 2, 1, 1, 100)}

WideOrDeep ==
  [wide |-> [departments |-> {"cmo", "cto"}, contexts |-> Days, wallets |-> {60, 600},
             proposals |-> {{"idea"}}, dailyTaskCap |-> 1, classifier |-> TRUE,
             tries |-> 1, faults |-> 1, chats |-> 1],
   deep |-> [departments |-> {"cmo"}, contexts |-> Days, wallets |-> {60, 300, 600},
             proposals |-> {{}, {"idea"}}, dailyTaskCap |-> 2, classifier |-> FALSE,
             tries |-> 2, faults |-> 0, chats |-> 1]]
=============================================================================
