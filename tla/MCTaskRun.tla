---------------------------- MODULE MCTaskRun ----------------------------
(* Instances of TaskRun: values for the constants that are functions.      *)
EXTENDS TaskRun

CONSTANTS t1, t2, t3, c1, c2, h1, h2

\* t1 and t2 are c1's, t3 is c2's; h1 is c1's heartbeat.
CompanyOfTask == [t \in Tasks |-> IF t = t3 THEN c2 ELSE c1]

\* One scheduled heartbeat per company.
CompanyOfBeat == [h \in Heartbeats |-> IF h = h2 THEN c2 ELSE c1]

\* The scheduled heartbeat and the owner's manual one, of the same company.
BothOfC1 == [h \in Heartbeats |-> c1]
=============================================================================
