---------------------------- MODULE Verification ----------------------------
(***************************************************************************)
(* The oracle service with its verdicts: every POST /submit handler of     *)
(* Oracle runs a verification of its own (runConsensus), so that several   *)
(* pairs of models are asked at the same time, about one job or about      *)
(* several, while the chain, the store and the process change underneath.  *)
(*                                                                         *)
(* Oracle leaves the verdict of a handler open; here it is the one that    *)
(* Consensus reaches, one instance of it per request.                      *)
(*                                                                         *)
(* Left out: a reply that comes after its handler has answered, which      *)
(* nobody awaits any more, and thresholds that change with a restart.      *)
(***************************************************************************)
EXTENDS Oracle

CONSTANTS
    MaxConfidence,     \* confidence 1.0, in the units of the model
    Numbers            \* numbers a model may give, and a threshold may be

ASSUME VotesAssumption == MaxConfidence \in Nat /\ Numbers \subseteq Int

VARIABLES
    config,     \* the thresholds of the service
    votes       \* votes[r]: the two calls of r's verification, and its result

vvars == <<escrow, vault, balance, now, openedAt, settled,
           store, link, stream, gen, missed, req, tx, config, votes>>

V(r) == INSTANCE Consensus WITH call <- votes[r].call, result <- votes[r].result

Unasked == [call |-> [m \in {"gemini", "claude"} |-> [at |-> "Pending"]],
            result |-> "Waiting"]

VerificationInit ==
    /\ OracleInit
    /\ config \in [approval : Numbers, rejection : Numbers]
    /\ votes = [r \in Requests |-> Unasked]
    /\ \A r \in Requests : V(r)!ConsensusInit

-----------------------------------------------------------------------------
(* A model answers the handler of r, or its call throws: m's call moves,   *)
(* and the result with it, as Consensus says.                              *)
ModelRepliesSharedResult(r, m) ==
    /\ req[r].at = "Verifying" /\ votes[r].call[m].at = "Pending"
    /\ \E c \in V(r)!Calls, result \in V(r)!Outcomes \cup {"Waiting", "Failed"} :
          votes' = [s \in Requests |->
                       [call |-> IF s = r THEN [votes[s].call EXCEPT ![m] = c]
                                 ELSE votes[s].call,
                        result |-> result]]
    /\ config' = config
    /\ \E reply \in V(r)!Replies : V(r)!Reply(m, reply)
    /\ UNCHANGED ovars

ModelReplies(r, m) ==
    /\ req[r].at = "Verifying" /\ votes[r].call[m].at = "Pending"
    /\ \E c \in V(r)!Calls, result \in V(r)!Outcomes \cup {"Waiting", "Failed"} :
          votes' = [votes EXCEPT ![r] = [call |-> [@.call EXCEPT ![m] = c],
                                         result |-> result]]
    /\ config' = config
    /\ \E reply \in V(r)!Replies : V(r)!Reply(m, reply)
    /\ UNCHANGED ovars

(* What the handler does with the result, at once.                         *)
Decide(r) ==
    /\ \/ \E v \in Verdicts : votes[r].result = v /\ Agree(r, v)
       \/ votes[r].result = "ESCALATE" /\ Escalate(r)
       \/ votes[r].result = "Failed" /\ ConsensusFails(r)
    /\ UNCHANGED <<config, votes>>

(* And with what becomes of the transaction.                               *)
Finish(r) ==
    /\ Confirm(r) \/ SendFails(r)
    /\ UNCHANGED <<config, votes>>

Around ==
    /\ \/ ChainStep
       \/ ListenerStep
       \/ Crash
       \/ \E r \in Requests :
             \/ \E j \in JobIds, i \in Inputs : Submit(r, j, i)
             \/ Land(r)
             \/ Expire(r)
    /\ UNCHANGED <<config, votes>>

VerificationNext ==
    \/ Around
    \/ \E r \in Requests :
          \/ \E m \in V(r)!Models : ModelReplies(r, m)
          \/ Decide(r)
          \/ Finish(r)

VerificationSpec == VerificationInit /\ [][VerificationNext]_vvars

-----------------------------------------------------------------------------
(* Every variable has its type.                                            *)
VerificationTypeOK ==
    /\ OracleTypeOK
    /\ config \in [approval : Numbers, rejection : Numbers]
    /\ \A r \in Requests : V(r)!ConsensusTypeOK

(* The oracle's key moves money only as two models voted in one and the    *)
(* same verification, each validly and above the threshold, whatever the   *)
(* verifications beside it came to, and however late it lands.             *)
SettledOnVotes ==
    \A k \in Keys : settled[k] # NeverSettled /\ ByThisOracle(settled[k]) =>
        \E r \in Requests :
            /\ Landed(r) /\ req[r].job.key = k
            /\ IF settled[k].kind = "Released"
               THEN V(r)!Unanimous("APPROVED", config.approval)
               ELSE V(r)!Unanimous("REJECTED", config.rejection)
=============================================================================
