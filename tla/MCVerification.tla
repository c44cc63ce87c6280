--------------------------- MODULE MCVerification ---------------------------
(* Instances of Verification for TLC.                                      *)
EXTENDS Verification, TLC

CONSTANTS c1, f1, o1, j1, r1, r2

MCPrefix == [j \in OversizedIds |-> j1]

(* Enough for the client to have its job open once.                        *)
MCInitialBalance == [w \in Wallets |-> IF w \in Clients THEN 4 ELSE 0]

(* The two submissions differ in nothing but their names.                  *)
MCSymmetry == Permutations(Requests)
=============================================================================
