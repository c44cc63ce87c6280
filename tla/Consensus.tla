----------------------------- MODULE Consensus -----------------------------
(***************************************************************************)
(* How the oracle reaches a verdict (oracle/src/verification.ts): two      *)
(* models are asked at the same time, and a result exists once both have   *)
(* answered, or as soon as one of them failed.                             *)
(*                                                                         *)
(* A reply is what the code tells apart: a call that throws, an answer     *)
(* without text, text that is not JSON, or JSON with a verdict and a       *)
(* confidence that may be any value.  What a prompt says is left out.      *)
(***************************************************************************)
EXTENDS Integers

CONSTANTS
    MaxConfidence,     \* confidence 1.0, in the units of the model
    Numbers            \* numbers a model may give, and a threshold may be

ASSUME NumbersAssumption == MaxConfidence \in Nat /\ Numbers \subseteq Int

VARIABLES
    config,     \* the thresholds; any numbers, read once from the environment
    call,       \* call[m]: the promise of verifyWithGemini or verifyWithClaude
    result      \* what runConsensus returned

cvars == <<config, call, result>>

Models == {"gemini", "claude"}
ModelVerdictValues == {"APPROVED", "REJECTED"}

Thresholds == [approval : Numbers, rejection : Numbers]

Outcomes == {"RELEASE", "REFUND", "ESCALATE"}

(* An answer's verdict may be another word, its confidence no number.      *)
Replies == [kind : {"Throws", "NoText", "NotJson"}]
           \cup [kind : {"Json"}, verdict : ModelVerdictValues \cup {"Other"},
                 isNumber : BOOLEAN, confidence : Numbers]

ModelVerdict == [verdict : ModelVerdictValues, confidence : 0 .. MaxConfidence]

Calls == [at : {"Pending", "Rejected"}]
         \cup [at : {"Fulfilled"}, value : ModelVerdict]

ConsensusInit ==
    /\ config \in Thresholds
    /\ call = [m \in Models |-> [at |-> "Pending"]]
    /\ result = "Waiting"

-----------------------------------------------------------------------------
(* parseModelResponse: the verdict in a reply, none if it throws.          *)
ParseUnchecked(reply) ==
    IF reply.kind = "Json"
    THEN {[verdict |-> reply.verdict, confidence |-> reply.confidence]}
    ELSE {}
ParseModelResponse(reply) ==
    IF /\ reply.kind = "Json"
       /\ reply.verdict \in ModelVerdictValues
       /\ reply.isNumber /\ reply.confidence \in 0 .. MaxConfidence
    THEN {[verdict |-> reply.verdict, confidence |-> reply.confidence]}
    ELSE {}

Approved(v) == v.verdict = "APPROVED" /\ v.confidence >= config.approval
Rejected(v) == v.verdict = "REJECTED" /\ v.confidence >= config.rejection

DetermineOutcomeOrRefund(gemini, claude) ==
    IF Approved(gemini) /\ Approved(claude) THEN "RELEASE" ELSE "REFUND"
DetermineOutcome(gemini, claude) ==
    IF Approved(gemini) /\ Approved(claude) THEN "RELEASE"
    ELSE IF Rejected(gemini) /\ Rejected(claude) THEN "REFUND"
    ELSE "ESCALATE"

(* Promise.all: the first rejection rejects it, the last fulfilment        *)
(* fulfils it, and nothing changes it afterwards.                          *)
AllFulfilled(calls) == \A m \in Models : calls[m].at = "Fulfilled"

Fulfil(m, v) ==
    /\ call' = [call EXCEPT ![m] = [at |-> "Fulfilled", value |-> v]]
    /\ result' = IF AllFulfilled(call')
                 THEN DetermineOutcome(call'["gemini"].value, call'["claude"].value)
                 ELSE result

RejectSwallowed(m) ==
    /\ call' = [call EXCEPT ![m] = [at |-> "Rejected"]]
    /\ UNCHANGED result
Reject(m) ==
    /\ call' = [call EXCEPT ![m] = [at |-> "Rejected"]]
    /\ result' = IF result = "Waiting" THEN "Failed" ELSE result

(* The model m answers, or its call throws.  The other call goes on even   *)
(* when runConsensus has failed already.                                   *)
Reply(m, reply) ==
    /\ call[m].at = "Pending"
    /\ \/ \E v \in ParseModelResponse(reply) : Fulfil(m, v)
       \/ ParseModelResponse(reply) = {} /\ Reject(m)
    /\ UNCHANGED config

ConsensusNext == \E m \in Models, reply \in Replies : Reply(m, reply)

ConsensusSpec == ConsensusInit /\ [][ConsensusNext]_cvars

-----------------------------------------------------------------------------
(* Every variable has its type; what a model says reaches nothing          *)
(* unvalidated.                                                            *)
ConsensusTypeOK ==
    /\ config \in Thresholds
    /\ call \in [Models -> Calls]
    /\ result \in Outcomes \cup {"Waiting", "Failed"}

(* Every model gave this verdict, in a valid vote, with at least this      *)
(* confidence.                                                             *)
Unanimous(verdict, threshold) ==
    \A m \in Models : /\ call[m].at = "Fulfilled"
                      /\ call[m].value \in ModelVerdict
                      /\ call[m].value.verdict = verdict
                      /\ call[m].value.confidence >= threshold

(* The result is a matter of the votes alone, whichever came first: money  *)
(* moves only by unanimity above the threshold of its direction, one       *)
(* failure fails it all, and whatever else two valid votes say escalates.  *)
ResultFollowsVotes ==
    /\ result = "RELEASE" <=> Unanimous("APPROVED", config.approval)
    /\ result = "REFUND" <=> Unanimous("REJECTED", config.rejection)
    /\ result = "Failed" <=> \E m \in Models : call[m].at = "Rejected"
    /\ result = "Waiting" => \E m \in Models : call[m].at = "Pending"
    /\ result = "ESCALATE" => \A m \in Models : call[m].at = "Fulfilled"

(* A result is final: the answer that comes after a failure changes        *)
(* nothing.                                                                *)
ResultFinal == [][result # "Waiting" => result' = result]_cvars
=============================================================================
