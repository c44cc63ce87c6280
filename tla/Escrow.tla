------------------------------- MODULE Escrow -------------------------------
(***************************************************************************)
(* The escrow program (programs/project_mappers/src/lib.rs).               *)
(*                                                                         *)
(* A job lives in two accounts whose addresses are derived from the client *)
(* and the job id: a GigEscrow record and a vault that holds nothing but   *)
(* lamports.  An instruction is one atomic transaction: it either fails    *)
(* and changes nothing (its action is disabled) or makes all its changes.  *)
(*                                                                         *)
(* Left out: transaction fees, and lamports sent straight to an escrow     *)
(* record (they leave with its rent, to the client).                       *)
(***************************************************************************)
EXTENDS Integers, FiniteSetsExt

CONSTANTS
    Wallets,          \* keypair accounts: clients, freelancers, oracles, others
    Clients,          \* the wallets that open jobs
    Freelancers,      \* the wallets a client may name as freelancer
    Oracles,          \* the wallets a client may name as oracle
    JobIds,           \* job ids, as passed by callers
    OversizedIds,     \* those of JobIds longer than 32 bytes
    Prefix,           \* the id made of an oversized id's first 32 bytes
    Amounts,          \* amounts callers ask for, valid or not
    Durations,        \* durations callers ask for, valid or not
    Dust,             \* amounts a wallet may send to a vault unasked
    InitialBalance,   \* lamports of each wallet at the start
    RentMin,          \* Rent::minimum_balance(0): least balance of an account
    RentEscrow,       \* rent deposit of a GigEscrow account
    MinDuration, MaxDuration,   \* MIN/MAX_DURATION_SECONDS, scaled
    I64Max,           \* largest unix timestamp, and the end of the clock
    NoEscrow,         \* the escrow account does not exist
    NeverSettled      \* history: the job was never settled

JobStatus == {"Pending", "Completed", "Cancelled"}

(* What a job id contributes to an address when an account is created: its *)
(* bytes cut to 32.                                                        *)
Seed(j) == IF j \in OversizedIds THEN Prefix[j] ELSE j

(* One escrow record and one vault per key.                                *)
Keys == Clients \X (JobIds \ OversizedIds)

GigEscrow == [client: Clients, freelancer: Freelancers, oracle: Oracles,
              amount: Nat, job_id: JobIds, status: JobStatus, deadline: Nat]

(* How a job was settled, by whom and when.                                *)
Settlements == [kind: {"Released", "Cancelled", "TimedOut"},
                signer: Wallets, oracle: Oracles, openedAt: Nat, at: Nat]

ASSUME WalletsAssumption ==
    /\ IsFiniteSet(Wallets)
    /\ Clients \subseteq Wallets
    /\ Freelancers \subseteq Wallets
    /\ Oracles \subseteq Wallets

ASSUME JobIdsAssumption ==
    /\ IsFiniteSet(JobIds)
    /\ OversizedIds \subseteq JobIds
    /\ Prefix \in [OversizedIds -> JobIds \ OversizedIds]

ASSUME LamportsAssumption ==
    /\ RentMin \in Nat \ {0}
    /\ RentEscrow \in Nat
    /\ RentEscrow >= RentMin
    /\ Amounts \subseteq Nat
    /\ Dust \subseteq Nat \ {0}
    /\ InitialBalance \in [Wallets -> Nat]
    /\ \A w \in Wallets : InitialBalance[w] = 0 \/ InitialBalance[w] >= RentMin

ASSUME ClockAssumption ==
    /\ MinDuration \in Nat
    /\ MaxDuration \in Nat
    /\ Durations \subseteq Int
    /\ I64Max \in Nat

ASSUME NoEscrowAssumption == NoEscrow \notin GigEscrow

VARIABLES
    escrow,     \* escrow[k]: the GigEscrow record, or NoEscrow
    vault,      \* vault[k]: lamports of the vault
    balance,    \* balance[w]: lamports of each wallet
    now,        \* Clock::unix_timestamp
    openedAt,   \* history: when the record of k was created last
    settled     \* history: how the record of k was settled last

ledger == <<escrow, vault, balance>>
history == <<openedAt, settled>>
vars == <<escrow, vault, balance, now, openedAt, settled>>

Init ==
    /\ escrow = [k \in Keys |-> NoEscrow]
    /\ vault = [k \in Keys |-> 0]
    /\ balance = InitialBalance
    /\ now = 0
    /\ openedAt = [k \in Keys |-> 0]
    /\ settled = [k \in Keys |-> NeverSettled]

-----------------------------------------------------------------------------
(* Operators named after the one they precede (ValidDurationNoMin before   *)
(* ValidDuration) are faults, never used here: each stands for a mistake   *)
(* that some property of a run would expose.                               *)

(* The runtime's rent rule: an account a transaction touched must end it   *)
(* empty or rent exempt, or the whole transaction fails.                   *)
RentOK(lamports) == lamports = 0 \/ lamports >= RentMin

Credit(w, x, b) == [b EXCEPT ![w] = @ + x]

(* checked_add: an addition that leaves the i64 range has no result.       *)
CheckedAdd(a, b) == IF a + b <= I64Max THEN {a + b} ELSE {}

ValidAmount(amount) == amount > 0 /\ amount >= RentMin

ValidDurationNoMin(d) == 0 <= d /\ d <= MaxDuration
ValidDuration(d) == MinDuration <= d /\ d <= MaxDuration

(* anchor's init refuses an address that is taken.                         *)
AddressFreeIfNeeded(k) == TRUE
AddressFree(k) == escrow[k] = NoEscrow

FitsSeedUnchecked(j) == TRUE
FitsSeed(j) == j \notin OversizedIds

InitializeJob(c, j, f, o, amount, duration) ==
    LET k == <<c, Seed(j)>>
        left == balance[c] - RentEscrow - amount
    IN  /\ AddressFree(k)
        /\ FitsSeed(j)
        /\ ValidAmount(amount)
        /\ ValidDuration(duration)
        /\ left >= 0 /\ RentOK(left)
        /\ RentOK(vault[k] + amount)
        /\ \E deadline \in CheckedAdd(now, duration) :
              escrow' = [escrow EXCEPT ![k] =
                 [client |-> c, freelancer |-> f, oracle |-> o,
                  amount |-> amount, job_id |-> j, status |-> "Pending",
                  deadline |-> deadline]]
        /\ vault' = [vault EXCEPT ![k] = @ + amount]
        /\ balance' = [balance EXCEPT ![c] = left]
        /\ openedAt' = [openedAt EXCEPT ![k] = now]
        /\ UNCHANGED <<now, settled>>

(* The addresses of a live job are derived again from the whole job id: a  *)
(* seed of more than 32 bytes has no address.                              *)
AddressesMatch(k) ==
    /\ escrow[k] # NoEscrow
    /\ escrow[k].job_id \notin OversizedIds
    /\ k = <<escrow[k].client, escrow[k].job_id>>

(* What a settlement transfers: the vault's live balance.                  *)
PayoutOfRecord(k) == escrow[k].amount
Payout(k) == vault[k]

(* The wallets after a settlement: the payee has the vault's lamports, the *)
(* client the rent of the closed record.                                   *)
PaidFromCopies(k, payee) ==
    [Credit(payee, Payout(k), balance) EXCEPT
        ![escrow[k].client] = balance[escrow[k].client] + RentEscrow]
Paid(k, payee) == Credit(escrow[k].client, RentEscrow, Credit(payee, Payout(k), balance))

(* What becomes of the record: whatever status was written, close removes  *)
(* it in the same transaction.                                             *)
RecordLeftOpen(k) == [escrow[k] EXCEPT !.status = "Completed"]
RecordUntouched(k) == escrow[k]
RecordAfter(k) == NoEscrow

(* The tail the three settling instructions share, in one transaction.     *)
Settle(k, payee, kind, signer) ==
    LET paid == Paid(k, payee)
    IN  /\ escrow[k].status = "Pending"
        /\ RentOK(paid[payee]) /\ RentOK(paid[escrow[k].client])
        /\ RentOK(vault[k] - Payout(k))
        /\ escrow' = [escrow EXCEPT ![k] = RecordAfter(k)]
        /\ vault' = [vault EXCEPT ![k] = @ - Payout(k)]
        /\ balance' = paid
        /\ settled' = [settled EXCEPT ![k] =
              [kind |-> kind, signer |-> signer, oracle |-> escrow[k].oracle,
               openedAt |-> openedAt[k], at |-> now]]
        /\ UNCHANGED <<now, openedAt>>

(* A caller passes the accounts it likes; has_one compares them with the   *)
(* stored ones.                                                            *)
HasOneUnchecked(stored, passed) == TRUE
HasOne(stored, passed) == stored = passed

ReleasePayment(k, authority, freelancer, client) ==
    /\ AddressesMatch(k)
    /\ HasOne(escrow[k].freelancer, freelancer)
    /\ HasOne(escrow[k].client, client)
    /\ authority \in {escrow[k].client, escrow[k].oracle}
    /\ Settle(k, freelancer, "Released", authority)

CancelJob(k, oracle, client) ==
    /\ AddressesMatch(k)
    /\ HasOne(escrow[k].oracle, oracle)
    /\ HasOne(escrow[k].client, client)
    /\ Settle(k, client, "Cancelled", oracle)

RefundAfterTimeoutExact(k, payer, client) ==
    /\ AddressesMatch(k)
    /\ HasOne(escrow[k].client, client)
    /\ now >= escrow[k].deadline
    /\ vault[k] = escrow[k].amount
    /\ Settle(k, client, "TimedOut", payer)
RefundAfterTimeout(k, payer, client) ==
    /\ AddressesMatch(k)
    /\ HasOne(escrow[k].client, client)
    /\ now >= escrow[k].deadline
    /\ Settle(k, client, "TimedOut", payer)

(* Anyone may send lamports to a vault address, at any time.               *)
TransferToVault(w, k, x) ==
    /\ balance[w] >= x /\ RentOK(balance[w] - x)
    /\ RentOK(vault[k] + x)
    /\ balance' = [balance EXCEPT ![w] = @ - x]
    /\ vault' = [vault EXCEPT ![k] = @ + x]
    /\ UNCHANGED <<escrow, now, openedAt, settled>>

Tick ==
    /\ now < I64Max
    /\ now' = now + 1
    /\ UNCHANGED <<escrow, vault, balance, openedAt, settled>>

-----------------------------------------------------------------------------
Initialize == \E c \in Clients, j \in JobIds, f \in Freelancers, o \in Oracles,
                 a \in Amounts, d \in Durations : InitializeJob(c, j, f, o, a, d)
Release == \E k \in Keys, w, f, c \in Wallets : ReleasePayment(k, w, f, c)
Cancel == \E k \in Keys, o, c \in Wallets : CancelJob(k, o, c)
Refund(k) == \E w, c \in Wallets : RefundAfterTimeout(k, w, c)
Donate == \E w \in Wallets, k \in Keys, x \in Dust : TransferToVault(w, k, x)

Next ==
    \/ Initialize
    \/ Release
    \/ Cancel
    \/ \E k \in Keys : Refund(k)
    \/ Donate
    \/ Tick

Spec == Init /\ [][Next]_vars

(* Time passes, and somebody sends the timeout refund of every job that    *)
(* stays refundable (the instruction is permissionless for that purpose).  *)
Fairness == WF_vars(Tick) /\ \A k \in Keys : WF_vars(Refund(k))

FairSpec == Spec /\ Fairness

-----------------------------------------------------------------------------
Live(k) == escrow[k] # NoEscrow

(* Every variable has its type.                                            *)
TypeOK ==
    /\ escrow \in [Keys -> GigEscrow \cup {NoEscrow}]
    /\ vault \in [Keys -> Nat]
    /\ balance \in [Wallets -> Nat]
    /\ now \in 0 .. I64Max
    /\ openedAt \in [Keys -> Nat]
    /\ settled \in [Keys -> Settlements \cup {NeverSettled}]

(* A live record is pending, and sits at the addresses derived from its    *)
(* own client and its whole job id.                                        *)
WellPlaced ==
    \A k \in Keys : Live(k) => /\ AddressesMatch(k)
                               /\ escrow[k].status = "Pending"
                               /\ escrow[k].amount >= RentMin

(* The deadline of a live job lies between MinDuration and MaxDuration     *)
(* after its creation, and within the clock's range.                       *)
DeadlineInWindow ==
    \A k \in Keys : Live(k) =>
        /\ openedAt[k] <= now
        /\ openedAt[k] + MinDuration <= escrow[k].deadline
        /\ escrow[k].deadline <= openedAt[k] + MaxDuration
        /\ escrow[k].deadline <= I64Max

(* A live vault holds at least what its record promises, whatever arrived  *)
(* in it and whatever happened to earlier jobs at the same address.        *)
VaultCoversAmount == \A k \in Keys : Live(k) => vault[k] >= escrow[k].amount

(* Nothing the accounts can look like stops a live job from being settled: *)
(* its addresses derive, and neither payout breaks the rent rule.          *)
SettlementUnblocked ==
    \A k \in Keys : Live(k) =>
        /\ AddressesMatch(k)
        /\ escrow[k].status = "Pending"
        /\ RentOK(vault[k] - Payout(k))
        /\ \A w \in {escrow[k].freelancer, escrow[k].client} :
              RentOK(Paid(k, w)[w]) /\ RentOK(Paid(k, w)[escrow[k].client])

(* A freelancer has MinDuration to deliver: no job is refunded sooner      *)
(* after its creation unless the oracle it names signed (lib.rs:6-8).      *)
NoEarlyRefund ==
    \A k \in Keys : settled[k] # NeverSettled =>
        LET s == settled[k]
        IN  s.kind = "Released" \/ s.signer = s.oracle
            \/ s.at - s.openedAt >= MinDuration

(* The inductive invariant.                                                *)
IInv == TypeOK /\ WellPlaced /\ DeadlineInWindow /\ VaultCoversAmount /\ NoEarlyRefund

(* Lamports are neither created nor lost: the wallets, the vaults and the  *)
(* rent deposits always add up to the initial balances.                    *)
Conservation ==
    SumFunctionOnSet(balance, Wallets) + SumFunctionOnSet(vault, Keys)
      + RentEscrow * Cardinality({k \in Keys : Live(k)})
    = SumFunctionOnSet(InitialBalance, Wallets)

(* Money leaves a vault only when its job closes, all of it at once, and   *)
(* only the client and the freelancer of the closing job are credited,     *)
(* whoever sent the instruction and whatever accounts it was passed        *)
(* (Architecture.md:217).                                                  *)
Closes(k) == Live(k) /\ ~Live(k)'

PaysOnlyParties ==
    /\ \A k \in Keys : vault'[k] < vault[k] => Closes(k) /\ vault'[k] = 0
    /\ \A w \in Wallets : balance'[w] > balance[w] =>
          \E k \in Keys : Closes(k) /\ w \in {escrow[k].client, escrow[k].freelancer}

OnlyPartiesPaid == [][PaysOnlyParties]_vars

(* Every job is settled eventually, even if neither its client nor its     *)
(* oracle ever acts (refund_after_timeout, lib.rs:137-143).                *)
EveryJobSettles == \A k \in Keys : Live(k) ~> ~Live(k)

-----------------------------------------------------------------------------
(* The program is a custodian: see Custody for what that promises.         *)
Deal(k) == IF Live(k) THEN {[payer |-> escrow[k].client,
                             payee |-> escrow[k].freelancer]}
           ELSE {}

Custodian == INSTANCE Custody WITH
    Accounts <- Keys,
    deals <- [k \in Keys |-> Deal(k)],
    pot <- vault,
    purse <- balance,
    Deposit <- RentEscrow,
    InitialPurse <- InitialBalance

ImplementsCustody == Custodian!Spec
=============================================================================
