----------------------------- MODULE AppendLog -----------------------------
(***************************************************************************)
(* What ledgerd promises its writers and its public: a log that only ever  *)
(* grows, by one entry at a time.                                          *)
(***************************************************************************)
EXTENDS Sequences

CONSTANT Entry          \* what may be appended
VARIABLE log

Init == log = <<>>
Append1(e) == log' = Append(log, e)
Next == \E e \in Entry : Append1(e)
Spec == Init /\ [][Next]_log
=============================================================================
