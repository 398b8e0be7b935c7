---------------------------- MODULE MCWorkerServices ----------------------------
(* The services of `worker` and of the operations helpers on small instances. *)
EXTENDS WorkerServices

CONSTANTS acct, k1, c1

\* candidate c1 has a kind with a budget of its own, beside that of the account
CountsInDef == [c \in Candidates |-> IF c = c1 THEN {acct, k1} ELSE {acct}]
DailyLimitDef == [b \in Budgets |-> 1]
=============================================================================
