-------------------------------- MODULE E2e --------------------------------
(***************************************************************************)
(* The end-to-end script (scripts/e2e-devnet.ts) against all it tests: the *)
(* program, the listener, the oracle's handler and the two models.  It     *)
(* opens a job, waits for the listener, submits, and reports.              *)
(*                                                                         *)
(* One job, one submission: how jobs, submissions and settlements of       *)
(* others interleave is in Oracle.  The program is one that was built with *)
(* or without a duration: the script knows of none.                        *)
(***************************************************************************)
EXTENDS Consensus

CONSTANT DetectPolls        \* how often the script asks for its job

ASSUME E2eAssumption == DetectPolls \in Nat \ {0}

VARIABLES
    deployed,   \* the arguments of the deployed initialize_job
    apiKey,     \* the oracle wants a key
    script,     \* where main() is, and its polls
    oracle,     \* the process, its store's entry for the job, its handler
    feed,       \* an update of the account that the listener has yet to get
    job,        \* the job on the chain
    opening,    \* the script's transaction
    tx          \* the oracle's

wvars == <<deployed, apiKey>>
evars == <<cvars, wvars, script, oracle, feed, job, opening, tx>>

S == INSTANCE Sdk WITH LongIds <- {}, WideIds <- {}, ProgramArgs <- deployed

Verdicts == {"RELEASE", "REFUND"}
TxStates == {"None", "InFlight", "Landed", "Expired"}

Ends == {"Passed", "Escalated", "Exit1"}
Running == {"Health", "Balance", "Opening", "Confirming", "Detecting",
            "Submitting", "Waiting", "Looking"}

(* An answer is a status code, and the outcome of a 200.                   *)
Failures == {"401", "404", "500", "Lost"}
HandlerStates == {"None", "Verifying", "Sending"} \cup Failures \cup Outcomes

E2eInit ==
    /\ ConsensusInit
    /\ deployed \in {S!IdlArgs, S!SourceArgs}
    /\ apiKey \in BOOLEAN
    /\ script = [at |-> "Health", polls |-> 0]
    /\ oracle \in [up : BOOLEAN, known : {FALSE}, handler : {"None"}]
    /\ feed = FALSE
    /\ job = "None"
    /\ opening = "None" /\ tx = "None"

-----------------------------------------------------------------------------
(* The service, as the script sees it.                                     *)
HealthOk == oracle.up
GetJobOk == oracle.known

(* POST /submit of a well-formed body; the script has no key to send.      *)
Received ==
    IF apiKey THEN "401" ELSE IF oracle.known THEN "Verifying" ELSE "404"

-----------------------------------------------------------------------------
(* A service that is not there has not found the job either.               *)
CheckJobInOracle == oracle.up /\ GetJobOk

Goto(at) == script' = [script EXCEPT !.at = at]

CheckOracleHealth ==
    /\ script.at = "Health"
    /\ Goto(IF HealthOk THEN "Balance" ELSE "Exit1")
    /\ UNCHANGED <<cvars, wvars, oracle, feed, job, opening, tx>>

CheckBalance ==
    /\ script.at = "Balance"
    /\ \E sufficient \in BOOLEAN : Goto(IF sufficient THEN "Opening" ELSE "Exit1")
    /\ UNCHANGED <<cvars, wvars, oracle, feed, job, opening, tx>>

(* initializeJob(JOB_ID, JOB_AMOUNT) is simulated before it is sent.       *)
InitializeJob ==
    /\ script.at = "Opening"
    /\ IF S!ProgramDecodes
       THEN Goto("Confirming") /\ opening' = "InFlight"
       ELSE Goto("Exit1") /\ UNCHANGED opening
    /\ UNCHANGED <<cvars, wvars, oracle, feed, job, tx>>

InitConfirmed ==
    /\ script.at = "Confirming" /\ opening = "Landed"
    /\ Goto("Detecting")
    /\ UNCHANGED <<cvars, wvars, oracle, feed, job, opening, tx>>

(* rpc() throws: the transaction may still land.                           *)
InitThrows ==
    /\ script.at = "Confirming"
    /\ Goto("Exit1")
    /\ UNCHANGED <<cvars, wvars, oracle, feed, job, opening, tx>>

(* A poll that fails counts; after the last one the script submits anyway. *)
WaitForOracle ==
    /\ script.at = "Detecting"
    /\ script' = [script EXCEPT !.polls = @ + 1,
                                !.at = IF CheckJobInOracle \/ script.polls + 1 = DetectPolls
                                       THEN "Submitting" ELSE @]
    /\ UNCHANGED <<cvars, wvars, oracle, feed, job, opening, tx>>

SubmitToOracle ==
    /\ script.at = "Submitting"
    /\ IF oracle.up
       THEN Goto("Waiting") /\ oracle' = [oracle EXCEPT !.handler = Received]
       ELSE Goto("Exit1") /\ UNCHANGED oracle
    /\ UNCHANGED <<cvars, wvars, feed, job, opening, tx>>

(* The response: a status that is not 2xx throws, and so does a connection *)
(* that breaks.                                                            *)
ReadResult ==
    /\ script.at = "Waiting"
    /\ \/ oracle.handler \in Failures /\ Goto("Exit1")
       \/ oracle.handler \in Verdicts /\ Goto("Looking")
       \/ oracle.handler = "ESCALATE" /\ Goto("Escalated")
    /\ UNCHANGED <<cvars, wvars, oracle, feed, job, opening, tx>>

(* The final look at the account, which only warns, also if it fails, and  *)
(* the report.                                                             *)
Report ==
    /\ script.at = "Looking"
    /\ Goto("Passed")
    /\ UNCHANGED <<cvars, wvars, oracle, feed, job, opening, tx>>

Script ==
    \/ CheckOracleHealth \/ CheckBalance
    \/ InitializeJob \/ InitConfirmed \/ InitThrows
    \/ WaitForOracle \/ SubmitToOracle \/ ReadResult \/ Report

-----------------------------------------------------------------------------
(* The oracle: the models are asked, and their verdict is executed.        *)
ModelReplies(m) ==
    /\ oracle.up /\ oracle.handler \in {"Verifying", "500"}
    /\ \E reply \in Replies : Reply(m, reply)
    /\ UNCHANGED <<wvars, script, oracle, feed, job, opening, tx>>

Decide ==
    /\ oracle.handler = "Verifying" /\ result # "Waiting"
    /\ oracle' = [oracle EXCEPT !.handler = IF result \in Verdicts THEN "Sending"
                                            ELSE IF result = "Failed" THEN "500"
                                            ELSE result]
    /\ tx' = IF result \in Verdicts THEN "InFlight" ELSE tx
    /\ UNCHANGED <<cvars, wvars, script, feed, job, opening>>

ConfirmUnawaited ==
    /\ oracle.handler = "Sending"
    /\ oracle' = [oracle EXCEPT !.handler = result, !.known = FALSE]
    /\ UNCHANGED <<cvars, wvars, script, feed, job, opening, tx>>
Confirm ==
    /\ oracle.handler = "Sending" /\ tx = "Landed"
    /\ oracle' = [oracle EXCEPT !.handler = result, !.known = FALSE]
    /\ UNCHANGED <<cvars, wvars, script, feed, job, opening, tx>>

SendFails ==
    /\ oracle.handler = "Sending"
    /\ oracle' = [oracle EXCEPT !.handler = "500"]
    /\ UNCHANGED <<cvars, wvars, script, feed, job, opening, tx>>

Detect ==
    /\ oracle.up /\ feed
    /\ feed' = FALSE
    /\ oracle' = [oracle EXCEPT !.known = TRUE]
    /\ UNCHANGED <<cvars, wvars, script, job, opening, tx>>

(* The stream breaks: what it carried is not sent again.                   *)
LoseUpdate ==
    /\ feed /\ feed' = FALSE
    /\ UNCHANGED <<cvars, wvars, script, oracle, job, opening, tx>>

Crash ==
    /\ oracle.up
    /\ oracle' = [up |-> FALSE, known |-> FALSE,
                  handler |-> IF oracle.handler \in {"Verifying", "Sending"}
                              THEN "Lost" ELSE oracle.handler]
    /\ feed' = FALSE
    /\ UNCHANGED <<cvars, wvars, script, job, opening, tx>>

Start ==
    /\ ~oracle.up
    /\ oracle' = [oracle EXCEPT !.up = TRUE]
    /\ UNCHANGED <<cvars, wvars, script, feed, job, opening, tx>>

-----------------------------------------------------------------------------
(* The network executes what it was sent, or drops it.                     *)
OpeningLands ==
    /\ opening = "InFlight"
    /\ opening' = "Landed" /\ job' = "Pending"
    /\ feed' = oracle.up
    /\ UNCHANGED <<cvars, wvars, script, oracle, tx>>

TxLands ==
    /\ tx = "InFlight"
    /\ tx' = "Landed"
    /\ job' = IF result = "RELEASE" THEN "Released" ELSE "Cancelled"
    /\ UNCHANGED <<cvars, wvars, script, oracle, feed, opening>>

Expire ==
    /\ \/ opening = "InFlight" /\ opening' = "Expired" /\ UNCHANGED tx
       \/ tx = "InFlight" /\ tx' = "Expired" /\ UNCHANGED opening
    /\ UNCHANGED <<cvars, wvars, script, oracle, feed, job>>

Handler == Decide \/ Confirm \/ SendFails

E2eNext ==
    \/ Script
    \/ \E m \in Models : ModelReplies(m)
    \/ Handler
    \/ Detect \/ LoseUpdate \/ Crash \/ Start
    \/ OpeningLands \/ TxLands \/ Expire

E2eSpec == E2eInit /\ [][E2eNext]_evars

(* Awaits are over at last: the polls have a limit, rpc() and the client   *)
(* libraries of the models return or throw.                                *)
FairE2eSpec ==
    /\ E2eSpec
    /\ WF_evars(Script) /\ WF_evars(Handler)
    /\ \A m \in Models : WF_evars(ModelReplies(m))

-----------------------------------------------------------------------------
(* Every variable has its type; above all, the script's polls are limited. *)
E2eTypeOK ==
    /\ deployed \in {S!IdlArgs, S!SourceArgs} /\ apiKey \in BOOLEAN
    /\ script \in [at : Running \cup Ends, polls : 0 .. DetectPolls]
    /\ oracle \in [up : BOOLEAN, known : BOOLEAN, handler : HandlerStates]
    /\ feed \in BOOLEAN
    /\ job \in {"None", "Pending", "Released", "Cancelled"}
    /\ opening \in TxStates /\ tx \in TxStates

(* Money moves as the models voted, from the parser through the promises,  *)
(* the thresholds and the handler to the chain, whatever is lost, dies or  *)
(* fails on the way and whatever the script was told.                      *)
SettledAsVoted ==
    /\ job = "Released" => Unanimous("APPROVED", config.approval)
    /\ job = "Cancelled" => Unanimous("REJECTED", config.rejection)

(* The script reports what is so, though its last look at the account      *)
(* cannot make it fail: it passes only over a job that is settled, and     *)
(* completes with an escalation only over one that is still open.          *)
ReportedTruth ==
    /\ script.at = "Passed" => job \in {"Released", "Cancelled"}
    /\ script.at = "Escalated" => job = "Pending"

(* The script ends, although its submission has no timeout: whatever the   *)
(* models say and whoever dies, its one request is answered or lost.       *)
ScriptEnds == <>(script.at \in Ends)
=============================================================================
