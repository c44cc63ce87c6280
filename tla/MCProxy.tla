------------------------------ MODULE MCProxy ------------------------------
(* Instances of Proxy for TLC.                                             *)
EXTENDS Proxy

CONSTANTS a1, a2, j1, c1, f1, o1, s1

MCPrefix == [j \in OversizedIds |-> j1]

MCInitialBalance == [w \in Wallets |-> IF w \in Clients THEN 6 ELSE 0]

(* The job is created in the database, and its deliverable submitted.      *)
MCInbox ==
         [op : {"create"}, job : {j1}, terms : Terms]
    \cup [op : {"submit"}, job : {j1}]
=============================================================================
