------------------------------ MODULE MCEscrow ------------------------------
(* Instances of Escrow for TLC.                                            *)
EXTENDS Escrow

CONSTANTS c1, f1, o1, keeper, j1, long1

MCPrefix == [j \in OversizedIds |-> j1]

(* One rich client, a freelancer whose account does not exist yet, an      *)
(* oracle without funds of its own and a bystander.                        *)
MCInitialBalance ==
    [w \in Wallets |-> CASE w = c1 -> 9 [] w = keeper -> 3 [] OTHER -> 0]
=============================================================================
