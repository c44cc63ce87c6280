---------------------------- MODULE EscrowProofs ----------------------------
(***************************************************************************)
(* Proofs about Escrow, for every value of its constants: its invariants,  *)
(* that it implements Custody, and that it pays nobody but the parties of  *)
(* the job it settles.                                                     *)
(***************************************************************************)
EXTENDS Escrow, SumTheorems

(* A key with a record is a client with one of the ids that fit a seed.    *)
LEMMA KeyOfNewJob ==
    ASSUME NEW c \in Clients, NEW j \in JobIds \ OversizedIds
    PROVE  Seed(j) = j /\ <<c, Seed(j)>> \in Keys
BY DEF Seed, Keys

LEMMA InitEstablishesIInv == Init => IInv
<1> SUFFICES ASSUME Init PROVE IInv
  OBVIOUS
<1> USE LamportsAssumption, ClockAssumption DEF Init
<1>1. TypeOK
  BY DEF TypeOK
<1>2. WellPlaced /\ DeadlineInWindow /\ VaultCoversAmount
  BY DEF WellPlaced, DeadlineInWindow, VaultCoversAmount, Live
<1>3. NoEarlyRefund
  BY DEF NoEarlyRefund
<1>4. QED
  BY <1>1, <1>2, <1>3 DEF IInv

(* The creation of a job preserves the invariant.                          *)
LEMMA InitializeJobPreservesIInv ==
    ASSUME IInv, NEW c \in Clients, NEW j \in JobIds, NEW f \in Freelancers,
           NEW o \in Oracles, NEW amount \in Amounts, NEW d \in Durations,
           InitializeJob(c, j, f, o, amount, d)
    PROVE  IInv'
<1> DEFINE k == <<c, Seed(j)>>
           left == balance[c] - RentEscrow - amount
<1>1. PICK deadline \in CheckedAdd(now, d) :
         escrow' = [escrow EXCEPT ![k] =
            [client |-> c, freelancer |-> f, oracle |-> o,
             amount |-> amount, job_id |-> j, status |-> "Pending",
             deadline |-> deadline]]
  BY DEF InitializeJob
<1> DEFINE e == [client |-> c, freelancer |-> f, oracle |-> o,
                 amount |-> amount, job_id |-> j, status |-> "Pending",
                 deadline |-> deadline]
<1>2. /\ k \in Keys /\ k = <<c, j>> /\ j \in JobIds \ OversizedIds
      /\ c \in Wallets
  BY KeyOfNewJob, WalletsAssumption DEF InitializeJob, FitsSeed
<1>3. /\ deadline = now + d /\ deadline <= I64Max
      /\ MinDuration <= d /\ d <= MaxDuration
      /\ now \in Nat /\ d \in Nat /\ deadline \in Nat
      /\ amount \in Nat /\ amount >= RentMin
  BY <1>1, LamportsAssumption, ClockAssumption
     DEF InitializeJob, CheckedAdd, ValidAmount, ValidDuration, IInv, TypeOK
<1>4. e \in GigEscrow
  BY <1>3 DEF GigEscrow, JobStatus
<1>5. /\ escrow' = [escrow EXCEPT ![k] = e]
      /\ vault' = [vault EXCEPT ![k] = @ + amount]
      /\ balance' = [balance EXCEPT ![c] = left]
      /\ left >= 0
      /\ openedAt' = [openedAt EXCEPT ![k] = now]
      /\ now' = now /\ settled' = settled
  BY <1>1 DEF InitializeJob
<1>6. left \in Nat
  BY <1>2, <1>3, <1>5, LamportsAssumption DEF IInv, TypeOK
<1>7. TypeOK'
  <2>1. escrow' \in [Keys -> GigEscrow \cup {NoEscrow}]
    BY <1>4, <1>5 DEF IInv, TypeOK
  <2>2. vault' \in [Keys -> Nat]
    BY <1>2, <1>3, <1>5 DEF IInv, TypeOK
  <2>3. balance' \in [Wallets -> Nat]
    BY <1>5, <1>6 DEF IInv, TypeOK
  <2>4. openedAt' \in [Keys -> Nat]
    BY <1>3, <1>5 DEF IInv, TypeOK
  <2>5. QED
    BY <2>1, <2>2, <2>3, <2>4, <1>5 DEF IInv, TypeOK
<1>8. /\ escrow'[k] = e /\ openedAt'[k] = now
      /\ vault'[k] = vault[k] + amount /\ vault[k] \in Nat
      /\ \A q \in Keys \ {k} : /\ escrow'[q] = escrow[q]
                               /\ vault'[q] = vault[q]
                               /\ openedAt'[q] = openedAt[q]
  BY <1>2, <1>5 DEF IInv, TypeOK
<1>9. WellPlaced'
  BY <1>2, <1>3, <1>8 DEF IInv, WellPlaced, AddressesMatch, Live
<1>10. DeadlineInWindow'
  BY <1>3, <1>5, <1>8, ClockAssumption DEF IInv, DeadlineInWindow, Live
<1>11. VaultCoversAmount'
  BY <1>3, <1>8 DEF IInv, VaultCoversAmount, Live
<1>12. NoEarlyRefund'
  BY <1>5 DEF IInv, NoEarlyRefund
<1>13. QED
  BY <1>7, <1>9, <1>10, <1>11, <1>12 DEF IInv


(* The rent rule cannot fail for an account that ends with more than the   *)
(* vault or the rent deposit of a live job brings.                         *)
LEMMA PayoutIsRentExempt ==
    ASSUME IInv, NEW k \in Keys, Live(k), NEW w \in Wallets,
           NEW paid, paid = Paid(k, w)
    PROVE  /\ paid \in [Wallets -> Nat]
           /\ RentOK(paid[w]) /\ RentOK(paid[escrow[k].client])
           /\ RentOK(vault[k] - Payout(k))
<1>1. /\ escrow[k] \in GigEscrow
      /\ escrow[k].amount >= RentMin /\ vault[k] >= escrow[k].amount
      /\ vault[k] \in Nat
      /\ balance \in [Wallets -> Nat]
  BY DEF IInv, TypeOK, Live, WellPlaced, VaultCoversAmount
<1>2. /\ escrow[k].client \in Wallets
      /\ escrow[k].amount \in Nat
      /\ vault[k] >= RentMin
  BY <1>1, WalletsAssumption, LamportsAssumption DEF GigEscrow
<1> DEFINE once == [balance EXCEPT ![w] = @ + vault[k]]
<1>3. /\ once \in [Wallets -> Nat]
      /\ once[w] >= RentMin
  BY <1>1, <1>2, LamportsAssumption
<1> DEFINE c == escrow[k].client
<1>4. paid = [once EXCEPT ![c] = @ + RentEscrow]
  BY DEF Paid, Credit, Payout
<1>5. /\ paid \in [Wallets -> Nat]
      /\ paid[w] >= RentMin
      /\ paid[c] >= RentMin
  <2> HIDE DEF once
  <2>1. /\ once[c] \in Nat /\ once[w] \in Nat
    BY <1>2, <1>3
  <2>2. QED
    BY <1>2, <1>3, <1>4, <2>1, LamportsAssumption
<1>6. vault[k] - Payout(k) = 0
  BY <1>1 DEF Payout
<1>7. QED
  BY <1>5, <1>6 DEF RentOK

(* A settlement preserves the invariant, if it is a release, or signed by  *)
(* the stored oracle, or sent after the deadline.                          *)
LEMMA SettlePreservesIInv ==
    ASSUME IInv, NEW k \in Keys, Live(k), NEW payee \in Wallets,
           NEW kind \in {"Released", "Cancelled", "TimedOut"},
           NEW signer \in Wallets,
           \/ kind = "Released"
           \/ signer = escrow[k].oracle
           \/ now >= escrow[k].deadline,
           Settle(k, payee, kind, signer)
    PROVE  IInv'
<1> DEFINE paid == Paid(k, payee)
           s == [kind |-> kind, signer |-> signer, oracle |-> escrow[k].oracle,
                 openedAt |-> openedAt[k], at |-> now]
<1>1. /\ escrow' = [escrow EXCEPT ![k] = NoEscrow]
      /\ vault' = [vault EXCEPT ![k] = @ - Payout(k)]
      /\ balance' = paid
      /\ settled' = [settled EXCEPT ![k] = s]
      /\ now' = now /\ openedAt' = openedAt
  BY DEF Settle, RecordAfter
<1>2. /\ escrow[k] \in GigEscrow /\ vault[k] \in Nat
      /\ openedAt[k] \in Nat /\ now \in Nat /\ now \in 0 .. I64Max
  BY ClockAssumption DEF IInv, TypeOK, Live
<1>3. paid \in [Wallets -> Nat]
  BY PayoutIsRentExempt
<1>4. TypeOK'
  <2>1. escrow' \in [Keys -> GigEscrow \cup {NoEscrow}]
    BY <1>1 DEF IInv, TypeOK
  <2>2. vault' \in [Keys -> Nat]
    BY <1>1, <1>2 DEF IInv, TypeOK, Payout
  <2>3. s \in Settlements
    BY <1>2 DEF Settlements, GigEscrow
  <2>4. settled' \in [Keys -> Settlements \cup {NeverSettled}]
    <3> HIDE DEF s
    <3> QED BY <1>1, <2>3 DEF IInv, TypeOK
  <2>5. balance' \in [Wallets -> Nat]
    BY <1>1, <1>3
  <2>6. QED
    BY <1>1, <2>1, <2>2, <2>4, <2>5 DEF IInv, TypeOK
<1>5. /\ escrow'[k] = NoEscrow
      /\ settled'[k] = s
      /\ \A q \in Keys \ {k} : /\ escrow'[q] = escrow[q]
                               /\ vault'[q] = vault[q]
                               /\ settled'[q] = settled[q]
  BY <1>1 DEF IInv, TypeOK
<1>6. WellPlaced'
  BY <1>5 DEF IInv, WellPlaced, AddressesMatch, Live
<1>7. DeadlineInWindow'
  BY <1>1, <1>5 DEF IInv, DeadlineInWindow, Live
<1>8. VaultCoversAmount'
  BY <1>5 DEF IInv, VaultCoversAmount, Live
<1>9. s.kind = "Released" \/ s.signer = s.oracle \/ s.at - s.openedAt >= MinDuration
  <2>1. /\ openedAt[k] + MinDuration <= escrow[k].deadline
        /\ escrow[k].deadline \in Nat
    BY <1>2 DEF IInv, DeadlineInWindow, Live, GigEscrow
  <2>2. CASE now >= escrow[k].deadline
    BY <2>1, <2>2, <1>2, ClockAssumption
  <2>3. CASE kind = "Released" \/ signer = escrow[k].oracle
    BY <2>3
  <2>4. QED
    BY <2>2, <2>3
<1>10. NoEarlyRefund'
  <2> HIDE DEF s
  <2> QED BY <1>5, <1>9 DEF IInv, NoEarlyRefund
<1>11. QED
  BY <1>4, <1>6, <1>7, <1>8, <1>10 DEF IInv

LEMMA TransferPreservesIInv ==
    ASSUME IInv, NEW w \in Wallets, NEW k \in Keys, NEW x \in Dust,
           TransferToVault(w, k, x)
    PROVE  IInv'
<1>1. /\ balance' = [balance EXCEPT ![w] = @ - x]
      /\ vault' = [vault EXCEPT ![k] = @ + x]
      /\ balance[w] >= x
      /\ UNCHANGED <<escrow, now, openedAt, settled>>
  BY DEF TransferToVault
<1>2. x \in Nat
  BY LamportsAssumption
<1>3. TypeOK'
  <2>1. balance' \in [Wallets -> Nat]
    <3>1. balance[w] \in Nat /\ balance[w] - x \in Nat
      BY <1>1, <1>2 DEF IInv, TypeOK
    <3>2. QED
      BY <1>1, <3>1 DEF IInv, TypeOK
  <2>2. vault' \in [Keys -> Nat]
    BY <1>1, <1>2 DEF IInv, TypeOK
  <2>3. QED
    BY <1>1, <2>1, <2>2 DEF IInv, TypeOK
<1>4. \A q \in Keys : vault[q] \in Nat /\ vault'[q] >= vault[q]
  BY <1>1, <1>2 DEF IInv, TypeOK
<1>5. VaultCoversAmount'
  <2> SUFFICES ASSUME NEW q \in Keys, Live(q)' PROVE (vault[q] >= escrow[q].amount)'
    BY DEF VaultCoversAmount
  <2>1. escrow[q] \in GigEscrow /\ Live(q) /\ escrow'[q] = escrow[q]
    BY <1>1 DEF Live, IInv, TypeOK
  <2>2. escrow[q].amount \in Nat /\ vault[q] >= escrow[q].amount
    BY <2>1 DEF GigEscrow, IInv, VaultCoversAmount
  <2>3. vault'[q] \in Nat
    BY <1>3 DEF TypeOK
  <2>4. QED
    BY <1>4, <2>1, <2>2, <2>3
<1>6. WellPlaced' /\ DeadlineInWindow' /\ NoEarlyRefund'
  BY <1>1 DEF IInv, WellPlaced, DeadlineInWindow, NoEarlyRefund, Live, AddressesMatch
<1>7. QED
  BY <1>3, <1>5, <1>6 DEF IInv

LEMMA TickPreservesIInv == IInv /\ Tick => IInv'
<1> SUFFICES ASSUME IInv, Tick PROVE IInv'
  OBVIOUS
<1>1. /\ now' = now + 1 /\ now < I64Max /\ now \in Nat
      /\ UNCHANGED <<escrow, vault, balance, openedAt, settled>>
  BY ClockAssumption DEF IInv, TypeOK, Tick
<1>2. TypeOK'
  BY <1>1, ClockAssumption DEF IInv, TypeOK
<1>3. DeadlineInWindow'
  BY <1>1 DEF IInv, TypeOK, DeadlineInWindow, Live
<1>4. WellPlaced' /\ VaultCoversAmount' /\ NoEarlyRefund'
  BY <1>1 DEF IInv, WellPlaced, VaultCoversAmount, NoEarlyRefund, Live, AddressesMatch
<1>5. QED
  BY <1>2, <1>3, <1>4 DEF IInv

LEMMA StutterPreservesIInv == IInv /\ UNCHANGED vars => IInv'
BY DEF IInv, vars, TypeOK, WellPlaced, DeadlineInWindow, VaultCoversAmount,
       NoEarlyRefund, Live, AddressesMatch

LEMMA NextPreservesIInv == IInv /\ [Next]_vars => IInv'
<1> SUFFICES ASSUME IInv, [Next]_vars PROVE IInv'
  OBVIOUS
<1>1. CASE Initialize
  BY <1>1, InitializeJobPreservesIInv DEF Initialize
<1>2. CASE Release
  <2>1. PICK k \in Keys, w \in Wallets, f \in Wallets, c \in Wallets :
           ReleasePayment(k, w, f, c)
    BY <1>2 DEF Release
  <2>2. Live(k) /\ Settle(k, f, "Released", w)
    BY <2>1 DEF ReleasePayment, AddressesMatch, Live
  <2>3. QED
    BY <2>2, SettlePreservesIInv
<1>3. CASE Cancel
  <2>1. PICK k \in Keys, o \in Wallets, c \in Wallets : CancelJob(k, o, c)
    BY <1>3 DEF Cancel
  <2>2. Live(k) /\ Settle(k, c, "Cancelled", o) /\ o = escrow[k].oracle
    BY <2>1 DEF CancelJob, HasOne, AddressesMatch, Live
  <2>3. QED
    BY <2>2, SettlePreservesIInv
<1>4. ASSUME NEW k \in Keys, Refund(k) PROVE IInv'
  <2>1. PICK w \in Wallets, c \in Wallets : RefundAfterTimeout(k, w, c)
    BY <1>4 DEF Refund
  <2>2. Live(k) /\ Settle(k, c, "TimedOut", w) /\ now >= escrow[k].deadline
    BY <2>1 DEF RefundAfterTimeout, AddressesMatch, Live
  <2>3. QED
    BY <2>2, SettlePreservesIInv
<1>5. CASE Donate
  BY <1>5, TransferPreservesIInv DEF Donate
<1>6. CASE Tick
  BY <1>6, TickPreservesIInv
<1>7. CASE UNCHANGED vars
  BY <1>7, StutterPreservesIInv
<1>8. QED
  BY <1>1, <1>2, <1>3, <1>4, <1>5, <1>6, <1>7 DEF Next

(* The inductive invariant holds in every reachable state.                 *)
THEOREM Invariance == Spec => []IInv
<1>1. Init => IInv
  BY InitEstablishesIInv
<1>2. IInv /\ [Next]_vars => IInv'
  BY NextPreservesIInv
<1>3. QED
  BY <1>1, <1>2, PTL DEF Spec

(* Every variable keeps its type, for every set of wallets and jobs.       *)
THEOREM TypeCorrect == Spec => []TypeOK
<1>1. IInv => TypeOK
  BY DEF IInv
<1>2. QED
  BY <1>1, Invariance, PTL

(* A live vault always covers the amount its record promises, through any  *)
(* sequence of settlements, re-creations and stray transfers.              *)
THEOREM VaultAlwaysCovers == Spec => []VaultCoversAmount
<1>1. IInv => VaultCoversAmount
  BY DEF IInv
<1>2. QED
  BY <1>1, Invariance, PTL

(* The freelancer keeps MinDuration unless the oracle signs a refund.      *)
THEOREM FreelancerHasMinDuration == Spec => []NoEarlyRefund
<1>1. IInv => NoEarlyRefund
  BY DEF IInv
<1>2. QED
  BY <1>1, Invariance, PTL

(* A timeout refund becomes due MaxDuration after the creation at latest,  *)
(* within the range of the clock.                                          *)
THEOREM DeadlineBounded == Spec => []DeadlineInWindow
<1>1. IInv => DeadlineInWindow
  BY DEF IInv
<1>2. QED
  BY <1>1, Invariance, PTL

(* The runtime's rent rule, the derived addresses and the status guard     *)
(* never stand in the way of settling a live job.                          *)
THEOREM NeverBlocked == Spec => []SettlementUnblocked
<1>1. IInv => SettlementUnblocked
  <2> SUFFICES ASSUME IInv, NEW k \in Keys, Live(k)
               PROVE  /\ AddressesMatch(k)
                      /\ escrow[k].status = "Pending"
                      /\ RentOK(vault[k] - Payout(k))
                      /\ \A w \in {escrow[k].freelancer, escrow[k].client} :
                           RentOK(Paid(k, w)[w]) /\ RentOK(Paid(k, w)[escrow[k].client])
    BY DEF SettlementUnblocked
  <2>1. escrow[k].freelancer \in Wallets /\ escrow[k].client \in Wallets
    BY WalletsAssumption DEF IInv, TypeOK, Live, GigEscrow
  <2>2. AddressesMatch(k) /\ escrow[k].status = "Pending"
    BY DEF IInv, WellPlaced
  <2>3. RentOK(vault[k] - Payout(k))
    BY <2>1, PayoutIsRentExempt
  <2>4. ASSUME NEW w \in {escrow[k].freelancer, escrow[k].client}
        PROVE  RentOK(Paid(k, w)[w]) /\ RentOK(Paid(k, w)[escrow[k].client])
    BY <2>1, PayoutIsRentExempt
  <2>5. QED
    BY <2>2, <2>3, <2>4
<1>2. QED
  BY <1>1, Invariance, PTL

-----------------------------------------------------------------------------
(* The refinement.  Its step proofs use the inductive invariant.           *)

(* What a settlement does to the accounts.                                 *)
LEMMA SettleEffect ==
    ASSUME IInv, NEW k \in Keys, Live(k), NEW payee \in Wallets,
           NEW kind, NEW signer, Settle(k, payee, kind, signer)
    PROVE  /\ escrow' = [escrow EXCEPT ![k] = NoEscrow]
           /\ vault' = [vault EXCEPT ![k] = 0]
           /\ balance' = [[balance EXCEPT ![payee] = @ + vault[k]]
                             EXCEPT ![escrow[k].client] = @ + RentEscrow]
<1>1. vault[k] \in Nat
  BY DEF IInv, TypeOK
<1>2. vault[k] - Payout(k) = 0
  BY <1>1 DEF Payout
<1>3. vault' = [vault EXCEPT ![k] = vault[k] - Payout(k)]
  BY DEF Settle
<1>4. vault' = [vault EXCEPT ![k] = 0]
  BY <1>2, <1>3
<1>5. QED
  BY <1>4 DEF Settle, RecordAfter, Paid, Credit, Payout

(* A settling instruction closes the record of its key in favour of one of *)
(* its parties.                                                            *)
SettlesFor(k, payee) ==
    /\ Live(k)
    /\ payee \in Wallets
    /\ payee \in {escrow[k].client, escrow[k].freelancer}
    /\ \E kind, signer : Settle(k, payee, kind, signer)

LEMMA SettlingSteps ==
    ASSUME IInv, \/ Release
                 \/ Cancel
                 \/ \E k \in Keys : Refund(k)
    PROVE  \E k \in Keys : \E payee \in Wallets : SettlesFor(k, payee)
<1>1. CASE Release
  <2>1. PICK k \in Keys, w \in Wallets, f \in Wallets, c \in Wallets :
           ReleasePayment(k, w, f, c)
    BY <1>1 DEF Release
  <2>2. SettlesFor(k, f)
    BY <2>1 DEF SettlesFor, ReleasePayment, HasOne, AddressesMatch, Live
  <2>3. QED
    BY <2>2
<1>2. CASE Cancel
  <2>1. PICK k \in Keys, o \in Wallets, c \in Wallets : CancelJob(k, o, c)
    BY <1>2 DEF Cancel
  <2>2. SettlesFor(k, c)
    BY <2>1 DEF SettlesFor, CancelJob, HasOne, AddressesMatch, Live
  <2>3. QED
    BY <2>2
<1>3. CASE \E k \in Keys : Refund(k)
  <2>1. PICK k \in Keys, w \in Wallets, c \in Wallets : RefundAfterTimeout(k, w, c)
    BY <1>3 DEF Refund
  <2>2. SettlesFor(k, c)
    BY <2>1 DEF SettlesFor, RefundAfterTimeout, HasOne, AddressesMatch, Live
  <2>3. QED
    BY <2>2
<1>4. QED
  BY <1>1, <1>2, <1>3

LEMMA InitRefines == Init => Custodian!Init
BY DEF Init, Custodian!Init, Deal, Live

LEMMA InitializeRefines ==
    ASSUME IInv, NEW c \in Clients, NEW j \in JobIds, NEW f \in Freelancers,
           NEW o \in Oracles, NEW amount \in Amounts, NEW d \in Durations,
           InitializeJob(c, j, f, o, amount, d)
    PROVE  Custodian!Next
<1> DEFINE k == <<c, Seed(j)>>
<1>1. /\ k \in Keys /\ c \in Wallets /\ f \in Wallets
      /\ amount \in Nat /\ amount > 0 /\ balance[c] \in Nat /\ RentEscrow \in Nat
      /\ balance[c] - RentEscrow - amount >= 0
      /\ ~Live(k)
  BY KeyOfNewJob, WalletsAssumption, LamportsAssumption
     DEF InitializeJob, FitsSeed, AddressFree, ValidAmount, IInv, TypeOK, Live
<1>2. amount \in 1 .. balance[c]
  BY <1>1
<1>3. PICK deadline \in CheckedAdd(now, d) :
         escrow' = [escrow EXCEPT ![k] =
            [client |-> c, freelancer |-> f, oracle |-> o,
             amount |-> amount, job_id |-> j, status |-> "Pending",
             deadline |-> deadline]]
  BY DEF InitializeJob
<1> DEFINE e == [client |-> c, freelancer |-> f, oracle |-> o,
                 amount |-> amount, job_id |-> j, status |-> "Pending",
                 deadline |-> deadline]
<1>4. e \in GigEscrow
  <2>1. deadline \in Nat
    BY ClockAssumption DEF CheckedAdd, InitializeJob, ValidDuration, IInv, TypeOK
  <2>2. QED
    BY <2>1, <1>1 DEF GigEscrow, JobStatus
<1>5. /\ [q \in Keys |-> Deal(q)]' =
            [[q \in Keys |-> Deal(q)] EXCEPT ![k] = {[payer |-> c, payee |-> f]}]
      /\ [q \in Keys |-> Deal(q)][k] = {}
  <2>1. e # NoEscrow /\ e.client = c /\ e.freelancer = f
    BY <1>4, NoEscrowAssumption
  <2>2. escrow' = [escrow EXCEPT ![k] = e]
    BY <1>3
  <2> HIDE DEF e
  <2>3. QED
    BY <1>1, <2>1, <2>2 DEF Deal, Live, IInv, TypeOK
<1>6. /\ vault' = [vault EXCEPT ![k] = @ + amount]
      /\ balance' = [balance EXCEPT ![c] = @ - amount - RentEscrow]
  <2>1. balance[c] - RentEscrow - amount = balance[c] - amount - RentEscrow
    BY <1>1
  <2>2. /\ vault' = [vault EXCEPT ![k] = @ + amount]
        /\ balance' = [balance EXCEPT ![c] = balance[c] - RentEscrow - amount]
    BY DEF InitializeJob
  <2>3. QED
    BY <2>1, <2>2
<1>7. Custodian!Open(k, c, f, amount)
  BY <1>1, <1>5, <1>6 DEF Custodian!Open
<1>8. QED
  BY <1>1, <1>2, <1>7 DEF Custodian!Next

LEMMA SettleRefines ==
    ASSUME IInv, NEW k \in Keys, NEW payee \in Wallets, SettlesFor(k, payee)
    PROVE  Custodian!Close(k, payee)
<1>1. /\ escrow' = [escrow EXCEPT ![k] = NoEscrow]
      /\ vault' = [vault EXCEPT ![k] = 0]
      /\ balance' = [[balance EXCEPT ![payee] = @ + vault[k]]
                        EXCEPT ![escrow[k].client] = @ + RentEscrow]
  BY SettleEffect DEF SettlesFor
<1> DEFINE d == [payer |-> escrow[k].client, payee |-> escrow[k].freelancer]
<1>2. /\ [q \in Keys |-> Deal(q)]' = [[q \in Keys |-> Deal(q)] EXCEPT ![k] = {}]
      /\ [q \in Keys |-> Deal(q)][k] = {d}
      /\ payee \in {d.payer, d.payee}
  BY <1>1 DEF Deal, Live, IInv, TypeOK, SettlesFor
<1>3. d \in [q \in Keys |-> Deal(q)][k]
  BY <1>2
<1>4. LET won == [balance EXCEPT ![payee] = @ + vault[k]]
      IN  balance' = [won EXCEPT ![d.payer] = @ + RentEscrow]
  BY <1>1
<1> HIDE DEF d
<1>5. QED
  BY <1>1, <1>2, <1>3, <1>4 DEF Custodian!Close

LEMMA StepRefines == IInv /\ [Next]_vars => [Custodian!Next]_(Custodian!vars)
<1> SUFFICES ASSUME IInv, [Next]_vars PROVE [Custodian!Next]_(Custodian!vars)
  OBVIOUS
<1>1. CASE Initialize
  BY <1>1, InitializeRefines DEF Initialize
<1>2. CASE Release \/ Cancel \/ \E k \in Keys : Refund(k)
  <2>1. PICK k \in Keys, payee \in Wallets : SettlesFor(k, payee)
    BY <1>2, SettlingSteps
  <2>2. Custodian!Close(k, payee)
    BY <2>1, SettleRefines
  <2>3. QED
    BY <2>2 DEF Custodian!Next
<1>3. CASE Donate
  <2>1. PICK w \in Wallets, k \in Keys, x \in Dust : TransferToVault(w, k, x)
    BY <1>3 DEF Donate
  <2>2. x \in 1 .. balance[w]
    BY <2>1, LamportsAssumption DEF TransferToVault, IInv, TypeOK
  <2>3. [q \in Keys |-> Deal(q)]' = [q \in Keys |-> Deal(q)]
    BY <2>1 DEF TransferToVault, Deal, Live
  <2>4. Custodian!Give(w, k, x)
    BY <2>1, <2>2, <2>3 DEF TransferToVault, Custodian!Give
  <2>5. QED
    BY <2>2, <2>4 DEF Custodian!Next
<1>4. CASE Tick
  BY <1>4 DEF Tick, Custodian!vars, Deal, Live
<1>5. CASE UNCHANGED vars
  BY <1>5 DEF vars, Custodian!vars, Deal, Live
<1>6. QED
  BY <1>1, <1>2, <1>3, <1>4, <1>5 DEF Next

(* The program is a faithful custodian, for every number of clients, jobs  *)
(* and lamports: every step opens a deal, closes one in favour of one of   *)
(* its parties, adds to a pot, or is invisible.                            *)
THEOREM Implementation == Spec => ImplementsCustody
<1>1. Init => Custodian!Init
  BY InitRefines
<1>2. IInv /\ [Next]_vars => [Custodian!Next]_(Custodian!vars)
  BY StepRefines
<1>3. QED
  BY <1>1, <1>2, Invariance, PTL DEF Spec, ImplementsCustody, Custodian!Spec

-----------------------------------------------------------------------------
LEMMA SettlePaysOnlyParties ==
    ASSUME IInv, NEW k \in Keys, NEW payee \in Wallets, SettlesFor(k, payee)
    PROVE  PaysOnlyParties
<1>1. /\ escrow' = [escrow EXCEPT ![k] = NoEscrow]
      /\ vault' = [vault EXCEPT ![k] = 0]
      /\ balance' = [[balance EXCEPT ![payee] = @ + vault[k]]
                        EXCEPT ![escrow[k].client] = @ + RentEscrow]
  BY SettleEffect DEF SettlesFor
<1>2. Closes(k)
  BY <1>1 DEF Closes, SettlesFor, Live, IInv, TypeOK
<1>3. \A q \in Keys : vault[q] \in Nat /\ (q # k => vault'[q] = vault[q])
  BY <1>1 DEF IInv, TypeOK
<1>4. vault'[k] = 0
  BY <1>1 DEF IInv, TypeOK
<1>5. ASSUME NEW w \in Wallets, w \notin {escrow[k].client, escrow[k].freelancer}
      PROVE  balance'[w] = balance[w]
  BY <1>1, <1>5 DEF SettlesFor, IInv, TypeOK
<1>6. \A w \in Wallets : balance[w] \in Nat
  BY DEF IInv, TypeOK
<1>7. ASSUME NEW q \in Keys, vault'[q] < vault[q]
      PROVE  Closes(q) /\ vault'[q] = 0
  <2>1. q = k
    BY <1>3, <1>7
  <2>2. QED
    BY <2>1, <1>2, <1>4
<1>8. ASSUME NEW w \in Wallets, balance'[w] > balance[w]
      PROVE  w \in {escrow[k].client, escrow[k].freelancer}
  BY <1>5, <1>6, <1>8
<1>9. QED
  BY <1>2, <1>7, <1>8 DEF PaysOnlyParties

(* No instruction redirects money: a vault is only emptied by closing its  *)
(* job, and only that job's client and freelancer gain.                    *)
THEOREM NobodyElseIsPaid == Spec => OnlyPartiesPaid
<1>1. IInv /\ [Next]_vars => [PaysOnlyParties]_vars
  <2> SUFFICES ASSUME IInv, Next PROVE PaysOnlyParties
    OBVIOUS
  <2> USE DEF PaysOnlyParties
  <2>1. /\ vault \in [Keys -> Nat] /\ balance \in [Wallets -> Nat]
    BY DEF IInv, TypeOK
  <2>2. CASE Initialize
    <3>1. PICK c \in Clients, j \in JobIds, f \in Freelancers, o \in Oracles,
               a \in Amounts, d \in Durations : InitializeJob(c, j, f, o, a, d)
      BY <2>2 DEF Initialize
    <3> DEFINE left == balance[c] - RentEscrow - a
    <3>2. /\ vault' = [vault EXCEPT ![<<c, Seed(j)>>] = @ + a]
          /\ balance' = [balance EXCEPT ![c] = left]
      BY <3>1 DEF InitializeJob
    <3>3. a \in Nat /\ RentEscrow \in Nat /\ c \in Wallets
      BY LamportsAssumption, WalletsAssumption
    <3>4. \A q \in Keys : ~ (vault'[q] < vault[q])
      BY <3>2, <3>3, <2>1
    <3>5. \A w \in Wallets : ~ (balance'[w] > balance[w])
      BY <3>2, <3>3, <2>1
    <3>6. QED
      BY <3>4, <3>5
  <2>3. CASE Release \/ Cancel \/ \E k \in Keys : Refund(k)
    BY <2>3, SettlingSteps, SettlePaysOnlyParties
  <2>4. CASE Donate
    <3>1. PICK w \in Wallets, k \in Keys, x \in Dust : TransferToVault(w, k, x)
      BY <2>4 DEF Donate
    <3>2. /\ vault' = [vault EXCEPT ![k] = @ + x]
          /\ balance' = [balance EXCEPT ![w] = @ - x]
          /\ x \in Nat
      BY <3>1, LamportsAssumption DEF TransferToVault
    <3>3. \A q \in Keys : ~ (vault'[q] < vault[q])
      BY <3>2, <2>1
    <3>4. \A v \in Wallets : ~ (balance'[v] > balance[v])
      BY <3>2, <2>1
    <3>5. QED
      BY <3>3, <3>4
  <2>5. CASE Tick
    BY <2>1, <2>5 DEF Tick
  <2>6. QED
    BY <2>2, <2>3, <2>4, <2>5 DEF Next
<1>2. QED
  BY <1>1, Invariance, PTL DEF Spec, OnlyPartiesPaid

-----------------------------------------------------------------------------
(* Conservation.  Its parts are sums over all wallets and all vaults, of   *)
(* which a transaction changes a summand or two.                           *)
Deposits == RentEscrow * Cardinality({k \in Keys : Live(k)})

Held == SumFunctionOnSet(balance, Wallets) + SumFunctionOnSet(vault, Keys) + Deposits

LEMMA ConservationIsOfHeld ==
    Conservation <=> Held = SumFunctionOnSet(InitialBalance, Wallets)
BY DEF Conservation, Held, Deposits

LEMMA LedgerIsFinite == IsFiniteSet(Wallets) /\ IsFiniteSet(Keys)
<1>1. IsFiniteSet(Clients) /\ IsFiniteSet(JobIds \ OversizedIds)
  BY WalletsAssumption, JobIdsAssumption, FS_Subset
<1>2. QED
  BY <1>1, WalletsAssumption, FS_Product DEF Keys

(* The sums are integers, and so are all their summands.                   *)
LEMMA HeldAdds ==
    ASSUME IInv
    PROVE  /\ balance \in [Wallets -> Int] /\ vault \in [Keys -> Int]
           /\ SumFunctionOnSet(balance, Wallets) \in Int
           /\ SumFunctionOnSet(vault, Keys) \in Int
           /\ Cardinality({k \in Keys : Live(k)}) \in Nat
           /\ RentEscrow \in Nat
           /\ Deposits \in Int
<1>1. balance \in [Wallets -> Int] /\ vault \in [Keys -> Int]
  BY DEF IInv, TypeOK
<1>2. SumFunctionOnSet(balance, Wallets) \in Int /\ SumFunctionOnSet(vault, Keys) \in Int
  BY <1>1, LedgerIsFinite, SumType
<1>3. Cardinality({k \in Keys : Live(k)}) \in Nat
  BY LedgerIsFinite, FS_Subset, FS_CardinalityType
<1>4. QED
  BY <1>1, <1>2, <1>3, LamportsAssumption DEF Deposits

(* A record more is a deposit more, a record less a deposit less.          *)
LEMMA DepositPerRecord ==
    ASSUME IInv, NEW k \in Keys, NEW e,
           escrow' = [escrow EXCEPT ![k] = e]
    PROVE  /\ ~Live(k) /\ e # NoEscrow => Deposits' = Deposits + RentEscrow
           /\ Live(k) /\ e = NoEscrow => Deposits' = Deposits - RentEscrow
<1> DEFINE L == {q \in Keys : Live(q)}
           n == Cardinality(L)
<1>1. IsFiniteSet(L) /\ n \in Nat /\ RentEscrow \in Nat
  BY LedgerIsFinite, FS_Subset, FS_CardinalityType, HeldAdds
<1>2. \A q \in Keys : escrow'[q] = IF q = k THEN e ELSE escrow[q]
  BY DEF IInv, TypeOK
<1>3. CASE ~Live(k) /\ e # NoEscrow
  <2>1. L' = L \cup {k} /\ k \notin L
    BY <1>2, <1>3 DEF Live
  <2>2. n' = n + 1
    BY <1>1, <2>1, FS_AddElement
  <2>3. RentEscrow * (n + 1) = RentEscrow * n + RentEscrow
    BY <1>1
  <2>4. QED
    BY <1>3, <2>2, <2>3 DEF Deposits
<1>4. CASE Live(k) /\ e = NoEscrow
  <2>1. L' = L \ {k} /\ k \in L
    BY <1>2, <1>4 DEF Live
  <2>2. n' = n - 1
    BY <1>1, <2>1, FS_RemoveElement
  <2>3. RentEscrow * (n - 1) = RentEscrow * n - RentEscrow
    BY <1>1
  <2>4. QED
    BY <1>4, <2>2, <2>3 DEF Deposits
<1>5. QED
  BY <1>3, <1>4

(* Creating a job moves its amount into the vault and its deposit into the *)
(* record.                                                                 *)
LEMMA InitializeConserves ==
    ASSUME IInv, Initialize
    PROVE  Held' = Held
<1>1. PICK c \in Clients, j \in JobIds, f \in Freelancers, o \in Oracles,
           a \in Amounts, d \in Durations : InitializeJob(c, j, f, o, a, d)
  BY DEF Initialize
<1> DEFINE k == <<c, Seed(j)>>
           left == balance[c] - RentEscrow - a
<1>2. k \in Keys /\ c \in Wallets /\ a \in Nat
  BY <1>1, KeyOfNewJob, WalletsAssumption, LamportsAssumption DEF InitializeJob, FitsSeed
<1>3. /\ vault' = [vault EXCEPT ![k] = vault[k] + a]
      /\ balance' = [balance EXCEPT ![c] = left]
      /\ ~Live(k)
  BY <1>1 DEF InitializeJob, AddressFree, Live
<1>4. /\ vault' \in [Keys -> Int] /\ vault[k] \in Int /\ vault'[k] = vault[k] + a
      /\ \A q \in Keys \ {k} : vault'[q] = vault[q]
      /\ balance' \in [Wallets -> Int] /\ balance[c] \in Int /\ balance'[c] = left
      /\ \A w \in Wallets \ {c} : balance'[w] = balance[w]
  BY <1>2, <1>3, HeldAdds
<1>5. SumFunctionOnSet(vault', Keys) =
        SumFunctionOnSet(vault, Keys) - vault[k] + vault'[k]
  BY <1>2, <1>4, LedgerIsFinite, HeldAdds, SumChanges
<1>6. SumFunctionOnSet(balance', Wallets) =
        SumFunctionOnSet(balance, Wallets) - balance[c] + balance'[c]
  BY <1>2, <1>4, LedgerIsFinite, HeldAdds, SumChanges
<1>7. Deposits' = Deposits + RentEscrow
  <2>1. PICK deadline \in CheckedAdd(now, d) :
           escrow' = [escrow EXCEPT ![k] =
              [client |-> c, freelancer |-> f, oracle |-> o,
               amount |-> a, job_id |-> j, status |-> "Pending",
               deadline |-> deadline]]
    BY <1>1 DEF InitializeJob
  <2> DEFINE e == [client |-> c, freelancer |-> f, oracle |-> o,
                   amount |-> a, job_id |-> j, status |-> "Pending",
                   deadline |-> deadline]
  <2>2. deadline \in Nat
    BY <2>1, <1>1, ClockAssumption
       DEF InitializeJob, CheckedAdd, ValidDuration, IInv, TypeOK
  <2>3. e \in GigEscrow
    BY <1>2, <2>2 DEF GigEscrow, JobStatus
  <2>4. e # NoEscrow
    BY <2>3, NoEscrowAssumption
  <2> HIDE DEF e
  <2>5. QED
    BY <1>2, <1>3, <2>1, <2>4, DepositPerRecord DEF e
<1> HIDE DEF k
<1>8. QED
  BY <1>2, <1>4, <1>5, <1>6, <1>7, HeldAdds DEF Held

(* A settlement moves the vault and the deposit to the wallets, be they    *)
(* one or two.                                                             *)
LEMMA SettleConserves ==
    ASSUME IInv, NEW k \in Keys, NEW payee \in Wallets, SettlesFor(k, payee)
    PROVE  Held' = Held
<1> DEFINE c == escrow[k].client
           once == [balance EXCEPT ![payee] = balance[payee] + vault[k]]
<1>1. /\ escrow' = [escrow EXCEPT ![k] = NoEscrow]
      /\ vault' = [vault EXCEPT ![k] = 0]
      /\ balance' = [once EXCEPT ![c] = once[c] + RentEscrow]
      /\ Live(k)
  BY SettleEffect DEF SettlesFor
<1>2. c \in Wallets
  BY <1>1, WalletsAssumption DEF IInv, TypeOK, Live, GigEscrow
<1>3. /\ once \in [Wallets -> Int] /\ once[payee] = balance[payee] + vault[k]
      /\ vault[k] \in Int /\ balance[payee] \in Int
      /\ \A w \in Wallets \ {payee} : once[w] = balance[w]
  BY HeldAdds
<1> HIDE DEF once
<1>4. /\ balance' \in [Wallets -> Int] /\ balance'[c] = once[c] + RentEscrow
      /\ \A w \in Wallets \ {c} : balance'[w] = once[w]
      /\ once[c] \in Int
      /\ vault' \in [Keys -> Int] /\ vault'[k] = 0
      /\ \A q \in Keys \ {k} : vault'[q] = vault[q]
  BY <1>1, <1>2, <1>3, HeldAdds
<1>5. SumFunctionOnSet(once, Wallets) =
        SumFunctionOnSet(balance, Wallets) - balance[payee] + once[payee]
  BY <1>3, LedgerIsFinite, HeldAdds, SumChanges
<1>6. SumFunctionOnSet(balance', Wallets) =
        SumFunctionOnSet(once, Wallets) - once[c] + balance'[c]
  BY <1>2, <1>3, <1>4, LedgerIsFinite, SumChanges
<1>7. SumFunctionOnSet(vault', Keys) =
        SumFunctionOnSet(vault, Keys) - vault[k] + vault'[k]
  BY <1>4, LedgerIsFinite, HeldAdds, SumChanges
<1>8. Deposits' = Deposits - RentEscrow
  BY <1>1, DepositPerRecord
<1>9. QED
  BY <1>3, <1>4, <1>5, <1>6, <1>7, <1>8, HeldAdds DEF Held

LEMMA DonateConserves ==
    ASSUME IInv, Donate
    PROVE  Held' = Held
<1>1. PICK w \in Wallets, k \in Keys, x \in Dust : TransferToVault(w, k, x)
  BY DEF Donate
<1>2. /\ balance' = [balance EXCEPT ![w] = balance[w] - x]
      /\ vault' = [vault EXCEPT ![k] = vault[k] + x]
      /\ escrow' = escrow
  BY <1>1 DEF TransferToVault
<1>3. /\ vault' \in [Keys -> Int] /\ vault[k] \in Int /\ vault'[k] = vault[k] + x
      /\ \A q \in Keys \ {k} : vault'[q] = vault[q]
      /\ balance' \in [Wallets -> Int] /\ balance[w] \in Int /\ balance'[w] = balance[w] - x
      /\ \A v \in Wallets \ {w} : balance'[v] = balance[v]
      /\ x \in Int
  BY <1>2, HeldAdds, LamportsAssumption
<1>4. SumFunctionOnSet(vault', Keys) =
        SumFunctionOnSet(vault, Keys) - vault[k] + vault'[k]
  BY <1>3, LedgerIsFinite, HeldAdds, SumChanges
<1>5. SumFunctionOnSet(balance', Wallets) =
        SumFunctionOnSet(balance, Wallets) - balance[w] + balance'[w]
  BY <1>3, LedgerIsFinite, HeldAdds, SumChanges
<1>6. Deposits' = Deposits
  BY <1>2 DEF Deposits, Live
<1>7. QED
  BY <1>3, <1>4, <1>5, <1>6, HeldAdds DEF Held

LEMMA NextConserves == IInv /\ [Next]_vars => Held' = Held
<1> SUFFICES ASSUME IInv, [Next]_vars PROVE Held' = Held
  OBVIOUS
<1>1. CASE Release \/ Cancel \/ \E k \in Keys : Refund(k)
  BY <1>1, SettlingSteps, SettleConserves
<1>2. CASE Tick \/ UNCHANGED vars
  BY <1>2 DEF Tick, vars, Held, Deposits, Live
<1>3. QED
  BY <1>1, <1>2, InitializeConserves, DonateConserves DEF Next

(* Whatever is opened, settled and sent, in any order and by anyone, the   *)
(* wallets, the vaults and the deposits always add up to what the wallets  *)
(* had at the start.                                                       *)
THEOREM MoneyIsConserved == Spec => []Conservation
<1>1. Init => Held = SumFunctionOnSet(InitialBalance, Wallets)
  <2> SUFFICES ASSUME Init PROVE Held = SumFunctionOnSet(InitialBalance, Wallets)
    OBVIOUS
  <2>1. SumFunctionOnSet(vault, Keys) = 0
    <3>1. \A k \in Keys : vault[k] = 0
      BY DEF Init
    <3>2. SumFunctionOnSet(vault, Keys) = SumFunctionOnSet(vault, {})
      BY <3>1, LedgerIsFinite, SumOfThose
    <3>3. QED
      BY <3>2, SumOfNothing
  <2>2. Deposits = 0
    <3>1. {k \in Keys : Live(k)} = {}
      BY DEF Init, Live
    <3>2. Cardinality({k \in Keys : Live(k)}) = 0
      BY <3>1, FS_EmptySet
    <3>3. QED
      BY <3>2, LamportsAssumption DEF Deposits
  <2>3. IInv /\ balance = InitialBalance
    BY InitEstablishesIInv DEF Init
  <2>4. QED
    BY <2>1, <2>2, <2>3, HeldAdds DEF Held
<1>2. IInv /\ [Next]_vars /\ Held = SumFunctionOnSet(InitialBalance, Wallets)
        => (Held = SumFunctionOnSet(InitialBalance, Wallets))'
  BY NextConserves
<1>3. Held = SumFunctionOnSet(InitialBalance, Wallets) => Conservation
  BY ConservationIsOfHeld
<1>4. QED
  BY <1>1, <1>2, <1>3, Invariance, PTL DEF Spec
=============================================================================
