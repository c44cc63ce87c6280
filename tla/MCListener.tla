----------------------------- MODULE MCListener -----------------------------
(* Instances of Listener for TLC.                                          *)
EXTENDS Listener

CONSTANTS c1, c2, f1, f2, o1, j1

MCPrefix == [j \in OversizedIds |-> j1]

(* Enough for each client to have one job open at a time.                  *)
MCInitialBalance == [w \in Wallets |-> IF w \in Clients THEN 4 ELSE 0]
=============================================================================
