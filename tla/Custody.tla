------------------------------ MODULE Custody ------------------------------
(***************************************************************************)
(* What the escrow program promises about money, and nothing else: who may *)
(* sign, deadlines, rent exemption and addresses are hidden.               *)
(*                                                                         *)
(* A deal is opened by its payer, who puts a price in the account's pot    *)
(* and a deposit aside.  It is closed once, by giving the whole pot to     *)
(* either party and the deposit back to the payer.  Nothing else takes     *)
(* money out of a pot.                                                     *)
(***************************************************************************)
EXTENDS Integers

CONSTANTS Wallets, Accounts, Deposit, InitialPurse

VARIABLES
    deals,   \* deals[k]: the open deal of account k, as a set of at most one
    pot,     \* pot[k]: money held for account k
    purse    \* purse[w]: money of wallet w

vars == <<deals, pot, purse>>

Init ==
    /\ deals = [k \in Accounts |-> {}]
    /\ pot = [k \in Accounts |-> 0]
    /\ purse = InitialPurse

Open(k, payer, payee, price) ==
    /\ deals[k] = {}
    /\ price > 0
    /\ price + Deposit <= purse[payer]
    /\ deals' = [deals EXCEPT ![k] = {[payer |-> payer, payee |-> payee]}]
    /\ pot' = [pot EXCEPT ![k] = @ + price]
    /\ purse' = [purse EXCEPT ![payer] = @ - price - Deposit]

Close(k, winner) ==
    \E d \in deals[k] :
        /\ winner \in {d.payer, d.payee}
        /\ deals' = [deals EXCEPT ![k] = {}]
        /\ pot' = [pot EXCEPT ![k] = 0]
        /\ LET won == [purse EXCEPT ![winner] = @ + pot[k]]
           IN  purse' = [won EXCEPT ![d.payer] = @ + Deposit]

Give(w, k, gift) ==
    /\ gift \in 1 .. purse[w]
    /\ pot' = [pot EXCEPT ![k] = @ + gift]
    /\ purse' = [purse EXCEPT ![w] = @ - gift]
    /\ UNCHANGED deals

Next ==
    \E k \in Accounts :
        \/ \E payer, payee \in Wallets :
              \E price \in 1 .. purse[payer] : Open(k, payer, payee, price)
        \/ \E winner \in Wallets : Close(k, winner)
        \/ \E w \in Wallets : \E gift \in 1 .. purse[w] : Give(w, k, gift)

Spec == Init /\ [][Next]_vars
=============================================================================
