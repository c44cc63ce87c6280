------------------------------- MODULE Oracle -------------------------------
(***************************************************************************)
(* The oracle service: concurrent POST /submit handlers of                 *)
(* oracle/src/index.ts over the job store, sending transactions            *)
(* (oracle/src/chain.ts) to the escrow program while clients and keepers   *)
(* use it too.                                                             *)
(*                                                                         *)
(* A handler is cut where the code awaits.  It holds the job it read from  *)
(* the store across both awaits, whatever happens to the store and to the  *)
(* chain meanwhile.  A transaction that was sent lives its own life: it    *)
(* may land after its handler gave up, or after the process died.          *)
(*                                                                         *)
(* The verdict of the two models is a free choice here (Consensus models   *)
(* how it is reached); the text of requests and answers is left out.       *)
(***************************************************************************)
EXTENDS Listener

CONSTANTS
    Requests,      \* one handler run each
    ThisOracle,    \* the key the service signs with
    NoJob          \* a request that has not read a job

ASSUME OracleAssumption == ThisOracle \in Oracles

VARIABLES
    req,     \* req[r]: where the handler of r is, and what it holds
    tx       \* tx[r]: the transaction the handler sent

ovars == <<escrow, vault, balance, now, openedAt, settled,
           store, link, stream, gen, missed, req, tx>>

Verdicts == {"RELEASE", "REFUND"}

(* "Answered" is a response the caller got; "Lost" a connection that died  *)
(* with the process.  The answer is a status code, and the outcome of a    *)
(* 200.                                                                    *)
RequestStates == {"Idle", "Verifying", "Sending", "Answered", "Lost"}
Answers == {"None", "400", "404", "409", "500", "RELEASE", "REFUND", "ESCALATE"}

(* onto is history: the gen of the job the transaction settled.            *)
TxStates == [state : {"None", "InFlight", "Expired"}] \cup [state : {"Landed"}, onto : Nat]

NoTx == [state |-> "None"]

OracleInit ==
    /\ ListenerInit
    /\ req = [r \in Requests |->
                [at |-> "Idle", job |-> NoJob, verdict |-> "None", answer |-> "None"]]
    /\ tx = [r \in Requests |-> NoTx]

Up == link # "Down"

-----------------------------------------------------------------------------
Answer(r, a) == req' = [req EXCEPT ![r].at = "Answered", ![r].answer = a]

(* The checks before the first await, in their order: no body at all,      *)
(* missing fields, an unknown job, a job that is not pending, oversized    *)
(* fields, and a criterion that has no length, at which the handler throws.*)
Submit(r, j, input) ==
    /\ Up
    /\ req[r].at = "Idle"
    /\ CASE input = "NoBody" -> Answer(r, "500")
         [] input = "Incomplete" -> Answer(r, "400")
         [] input \notin {"NoBody", "Incomplete"} /\ store[j] = Absent -> Answer(r, "404")
         [] OTHER ->
              IF ~HasPending(j) THEN Answer(r, "409")
              ELSE IF input = "Oversized" THEN Answer(r, "400")
              ELSE IF input = "Mistyped" THEN Answer(r, "500")
              ELSE req' = [req EXCEPT ![r].at = "Verifying", ![r].job = store[j]]
    /\ UNCHANGED <<lvars, tx>>

(* runConsensus resolves with an agreement: the handler sends the          *)
(* transaction at once and awaits it.                                      *)
Agree(r, v) ==
    /\ req[r].at = "Verifying"
    /\ req' = [req EXCEPT ![r].at = "Sending", ![r].verdict = v]
    /\ tx' = [tx EXCEPT ![r] = [state |-> "InFlight"]]
    /\ UNCHANGED lvars

(* ESCALATE: nothing is done about the job.                                *)
Escalate(r) ==
    /\ req[r].at = "Verifying"
    /\ Answer(r, "ESCALATE")
    /\ UNCHANGED <<lvars, tx>>

(* A model call or a parse failed.                                         *)
ConsensusFails(r) ==
    /\ req[r].at = "Verifying"
    /\ Answer(r, "500")
    /\ UNCHANGED <<lvars, tx>>

(* The accounts a transaction names come from the job the handler holds.   *)
OracleTx(r) ==
    LET job == req[r].job
    IN  IF req[r].verdict = "RELEASE"
        THEN ReleasePayment(job.key, ThisOracle, job.escrow.freelancer, job.escrow.client)
        ELSE CancelJob(job.key, ThisOracle, job.escrow.client)

(* The network executes a transaction it was sent.                         *)
Land(r) ==
    /\ tx[r].state = "InFlight"
    /\ OracleTx(r)
    /\ Publish
    /\ tx' = [tx EXCEPT ![r] = [state |-> "Landed", onto |-> gen[req[r].job.key]]]
    /\ UNCHANGED req

(* It fails, or its blockhash expires.                                     *)
Expire(r) ==
    /\ tx[r].state = "InFlight"
    /\ tx' = [tx EXCEPT ![r] = [state |-> "Expired"]]
    /\ UNCHANGED <<lvars, req>>

(* rpc() reports the confirmation: the job leaves the store, whatever the  *)
(* store holds under its id by now.                                        *)
ConfirmUnawaited(r) ==
    /\ req[r].at = "Sending"
    /\ store' = Remove(req[r].job.escrow.job_id)
    /\ Answer(r, req[r].verdict)
    /\ UNCHANGED <<vars, link, stream, gen, missed, tx>>
Confirm(r) ==
    /\ req[r].at = "Sending"
    /\ tx[r].state = "Landed"
    /\ store' = Remove(req[r].job.escrow.job_id)
    /\ Answer(r, req[r].verdict)
    /\ UNCHANGED <<vars, link, stream, gen, missed, tx>>

(* rpc() throws, be it that the transaction failed, that it was never      *)
(* sent, or that its confirmation did not come in time.                    *)
SendRetries(r) ==
    /\ req[r].at = "Sending"
    /\ tx' = [tx EXCEPT ![r] = [state |-> "InFlight"]]
    /\ UNCHANGED <<lvars, req>>
SendFailsForgets(r) ==
    /\ req[r].at = "Sending"
    /\ store' = Remove(req[r].job.escrow.job_id)
    /\ Answer(r, "500")
    /\ UNCHANGED <<vars, link, stream, gen, missed, tx>>
SendFails(r) ==
    /\ req[r].at = "Sending"
    /\ Answer(r, "500")
    /\ UNCHANGED <<lvars, tx>>

(* The process dies: its memory and its connections are gone, the          *)
(* transactions it sent are not.                                           *)
Crash ==
    /\ StopListener
    /\ req' = [r \in Requests |->
                 IF req[r].at \in {"Verifying", "Sending"}
                 THEN [req[r] EXCEPT !.at = "Lost"] ELSE req[r]]
    /\ UNCHANGED tx

(* What the other users of the program do.                                 *)
OtherSettles ==
    \/ \E k \in Keys, w \in Wallets \ {ThisOracle}, f, c \in Wallets :
          ReleasePayment(k, w, f, c)
    \/ \E k \in Keys, o \in Wallets \ {ThisOracle}, c \in Wallets : CancelJob(k, o, c)
    \/ \E k \in Keys : Refund(k)

ChainStep ==
    /\ Initialize \/ OtherSettles \/ Tick
    /\ Publish
    /\ UNCHANGED <<req, tx>>

ListenerStep ==
    /\ HandleUpdate \/ Subscribe \/ LoseStream \/ Retry \/ Start
    /\ UNCHANGED <<req, tx>>

Inputs == {"Complete", "NoBody", "Incomplete", "Oversized", "Mistyped"}

Handler(r) ==
    \/ \E v \in Verdicts : Agree(r, v)
    \/ Escalate(r)
    \/ ConsensusFails(r)
    \/ Confirm(r)
    \/ SendFails(r)

OracleNext ==
    \/ ChainStep
    \/ ListenerStep
    \/ Crash
    \/ \E r \in Requests :
          \/ \E j \in JobIds, i \in Inputs : Submit(r, j, i)
          \/ Handler(r)
          \/ Land(r)
          \/ Expire(r)

OracleSpec == OracleInit /\ [][OracleNext]_ovars

(* The model APIs and rpc() answer or time out: no await is forever.       *)
FairOracleSpec == OracleSpec /\ \A r \in Requests : WF_ovars(Handler(r))

-----------------------------------------------------------------------------
(* Every variable has its type.                                            *)
OracleTypeOK ==
    /\ ListenerTypeOK
    /\ req \in [Requests -> [at : RequestStates, job : StoredJobs \cup {NoJob},
                             verdict : Verdicts \cup {"None"}, answer : Answers]]
    /\ tx \in [Requests -> TxStates]

Landed(r) == tx[r].state = "Landed"

(* A caller who is told RELEASE or REFUND is told the truth: the           *)
(* transaction of that verdict was executed.                               *)
SuccessMeansSettled ==
    \A r \in Requests : req[r].answer \in Verdicts =>
        Landed(r) /\ req[r].verdict = req[r].answer

(* However many handlers work on a job at the same time, and however their *)
(* verdicts differ, at most one of them settles it.                        *)
SettledOnce ==
    \A r, s \in Requests :
        r # s /\ Landed(r) /\ Landed(s) /\ req[r].job.key = req[s].job.key
            => tx[r].onto # tx[s].onto

(* The oracle's key settles a job only where two models agreed: every      *)
(* settlement by its authority is that of a handler with the same verdict. *)
(* A timeout refund takes no authority, so it says nothing of its signer.  *)
ByThisOracle(s) == s.kind # "TimedOut" /\ s.signer = ThisOracle

NoSettlementWithoutConsensus ==
    \A k \in Keys : settled[k] # NeverSettled /\ ByThisOracle(settled[k]) =>
        \E r \in Requests : /\ Landed(r) /\ req[r].job.key = k
                            /\ req[r].verdict = IF settled[k].kind = "Released"
                                                THEN "RELEASE" ELSE "REFUND"

(* A release pays the freelancer whose work was verified: a job settled by *)
(* RELEASE names the freelancer the handler had read, even if it is        *)
(* another job at the same address.                                        *)
ReleasePaysVerifiedFreelancer ==
    [][ \A r \in Requests :
            ~Landed(r) /\ Landed(r)' /\ req[r].verdict = "RELEASE" =>
                escrow[req[r].job.key].freelancer = req[r].job.escrow.freelancer ]_ovars

(* A running service forgets a job only because a submission settled a job *)
(* with its id: neither a failed transaction nor a verification that led   *)
(* to nothing takes it out of the store.                                   *)
OnlySettledForgotten ==
    [][ \A j \in JobIds :
          store[j] # Absent /\ store'[j] = Absent /\ link' # "Down" =>
            \E r \in Requests : Landed(r) /\ req[r].job.escrow.job_id = j ]_ovars

(* Every submission is answered, or its connection dies with the process.  *)
EverySubmissionAnswered ==
    \A r \in Requests : req[r].at = "Verifying" ~> req[r].at \in {"Answered", "Lost"}

-----------------------------------------------------------------------------
(* A claim of the documentation, stated to be tested.                      *)

(* "JobNotPending guard + Solana's atomic transactions eliminate race      *)
(* conditions" (docs/wiki/Architecture.md:204): a verdict settles the job  *)
(* it was reached for.                                                     *)
VerdictSettlesItsJob ==
    \A r \in Requests : Landed(r) => tx[r].onto = req[r].job.gen
=============================================================================
