------------------------------ MODULE MCOracle ------------------------------
(* Instances of Oracle for TLC.                                            *)
EXTENDS Oracle

CONSTANTS c1, f1, f2, o1, j1, r1, r2

MCPrefix == [j \in OversizedIds |-> j1]

(* Enough for the client to have its job open once at a time, and to open  *)
(* it again after a release.                                               *)
MCInitialBalance == [w \in Wallets |-> IF w \in Clients THEN 6 ELSE 0]
=============================================================================
