----------------------------- MODULE E2eProofs -----------------------------
(***************************************************************************)
(* Theorems about E2e: every behaviour of the whole system is one of       *)
(* Consensus, so that what is proved there holds here, and what the chain  *)
(* and the script make of a verdict is what the models voted.              *)
(***************************************************************************)
EXTENDS E2e, TLAPS

-----------------------------------------------------------------------------
(* Consensus, for every scale of confidences and every configuration of    *)
(* the thresholds.                                                         *)

(* The two conjuncts carry each other: what a result says of the votes     *)
(* rules out that a vote is still to come.                                 *)
CInv == ConsensusTypeOK /\ ResultFollowsVotes

(* A parsed verdict is a valid one.                                        *)
LEMMA ParsedIsValid ==
  ASSUME NEW reply \in Replies, NEW v \in ParseModelResponse(reply)
  PROVE  v \in ModelVerdict
  BY NumbersAssumption DEF ParseModelResponse, ModelVerdict

(* What an outcome says of two valid votes.                                *)
LEMMA OutcomeOfVotes ==
  ASSUME ConsensusTypeOK, NEW g \in ModelVerdict, NEW c \in ModelVerdict
  PROVE  LET o == DetermineOutcome(g, c) IN
         /\ o \in Outcomes
         /\ o = "RELEASE" <=> \A v \in {g, c} : v.verdict = "APPROVED" /\ v.confidence >= config.approval
         /\ o = "REFUND" <=> \A v \in {g, c} : v.verdict = "REJECTED" /\ v.confidence >= config.rejection
  BY DEF DetermineOutcome, Approved, Rejected, Outcomes, ModelVerdict

(* Nobody has voted at the start.                                          *)
LEMMA InitCInv == ConsensusInit => CInv
  BY DEF ConsensusInit, CInv, ConsensusTypeOK, ResultFollowsVotes, Unanimous, Calls, Models, Outcomes

(* A vote that counts.                                                     *)
LEMMA FulfilCInv ==
  ASSUME CInv, NEW m \in Models, NEW v \in ModelVerdict,
         call[m].at = "Pending", Fulfil(m, v), UNCHANGED config
  PROVE  CInv'
<1>1. call' \in [Models -> Calls]
  BY DEF CInv, ConsensusTypeOK, Fulfil, Calls
<1>2. call'[m].at = "Fulfilled" /\ call'[m].value = v
  BY DEF CInv, ConsensusTypeOK, Fulfil
<1>3. \A n \in Models : n # m => call'[n] = call[n]
  BY DEF CInv, ConsensusTypeOK, Fulfil
<1>4. result \in {"Waiting", "Failed"}
  BY DEF CInv, ConsensusTypeOK, ResultFollowsVotes, Unanimous, Outcomes
<1>5. CASE AllFulfilled(call')
  <2> DEFINE g == call'["gemini"].value
             c == call'["claude"].value
  <2>1. g \in ModelVerdict /\ c \in ModelVerdict
    BY <1>1, <1>5 DEF AllFulfilled, Models, Calls
  <2>2. result' = DetermineOutcome(g, c)
    BY <1>5 DEF Fulfil
  <2>3. ConsensusTypeOK
    BY DEF CInv
  <2>4. /\ result' \in Outcomes
        /\ result' = "RELEASE" <=> \A w \in {g, c} : w.verdict = "APPROVED" /\ w.confidence >= config.approval
        /\ result' = "REFUND" <=> \A w \in {g, c} : w.verdict = "REJECTED" /\ w.confidence >= config.rejection
    <3> HIDE DEF g, c
    <3> QED BY <2>1, <2>2, <2>3, OutcomeOfVotes
  <2>5. /\ result' = "RELEASE" <=> Unanimous("APPROVED", config.approval)'
        /\ result' = "REFUND" <=> Unanimous("REJECTED", config.rejection)'
    <3>1. /\ Unanimous("APPROVED", config.approval)' <=>
               \A w \in {g, c} : w.verdict = "APPROVED" /\ w.confidence >= config'.approval
          /\ Unanimous("REJECTED", config.rejection)' <=>
               \A w \in {g, c} : w.verdict = "REJECTED" /\ w.confidence >= config'.rejection
      BY <1>5, <2>1 DEF Unanimous, AllFulfilled, Models, ModelVerdict
    <3> HIDE DEF g, c
    <3> QED BY <2>4, <3>1
  <2>6. \A n \in Models : call'[n].at = "Fulfilled"
    BY <1>5 DEF AllFulfilled
  <2> QED BY <1>1, <2>3, <2>4, <2>5, <2>6 DEF CInv, ConsensusTypeOK, ResultFollowsVotes, Outcomes
<1>6. CASE ~AllFulfilled(call')
  <2>1. result' = result
    BY <1>6 DEF Fulfil
  <2>2. \E n \in Models : call'[n].at # "Fulfilled"
    BY <1>6 DEF AllFulfilled
  <2>3. ~Unanimous("APPROVED", config.approval)' /\ ~Unanimous("REJECTED", config.rejection)'
    BY <2>2 DEF Unanimous
  <2>4. (\E n \in Models : call'[n].at = "Rejected") <=> (\E n \in Models : call[n].at = "Rejected")
    BY <1>2, <1>3
  <2>5. result' = "Waiting" => \E n \in Models : call'[n].at = "Pending"
    BY <1>1, <2>1, <2>2, <2>4 DEF CInv, ResultFollowsVotes, Calls
  <2> QED BY <1>1, <1>4, <2>1, <2>3, <2>4, <2>5 DEF CInv, ConsensusTypeOK, ResultFollowsVotes
<1> QED BY <1>5, <1>6

(* A call that fails.                                                      *)
LEMMA RejectCInv ==
  ASSUME CInv, NEW m \in Models, call[m].at = "Pending", Reject(m), UNCHANGED config
  PROVE  CInv'
<1>1. call' \in [Models -> Calls] /\ call'[m].at = "Rejected"
  BY DEF CInv, ConsensusTypeOK, Reject, Calls
<1>2. result \in {"Waiting", "Failed"}
  BY DEF CInv, ConsensusTypeOK, ResultFollowsVotes, Unanimous, Outcomes
<1>3. result' = "Failed"
  BY <1>2 DEF Reject
<1>4. ~Unanimous("APPROVED", config.approval)' /\ ~Unanimous("REJECTED", config.rejection)'
  BY <1>1 DEF Unanimous
<1> QED BY <1>1, <1>3, <1>4 DEF CInv, ConsensusTypeOK, ResultFollowsVotes

(* Every step keeps the invariant.                                         *)
LEMMA NextCInv == CInv /\ [ConsensusNext]_cvars => CInv'
<1> SUFFICES ASSUME CInv, [ConsensusNext]_cvars PROVE CInv'
  OBVIOUS
<1>1. CASE ConsensusNext
  <2>1. PICK m \in Models, reply \in Replies : Reply(m, reply)
    BY <1>1 DEF ConsensusNext
  <2>2. CASE \E v \in ParseModelResponse(reply) : Fulfil(m, v)
    BY <2>1, <2>2, ParsedIsValid, FulfilCInv DEF Reply
  <2>3. CASE Reject(m)
    BY <2>1, <2>3, RejectCInv DEF Reply
  <2> QED BY <2>1, <2>2, <2>3 DEF Reply
<1>2. CASE UNCHANGED cvars
  BY <1>2 DEF cvars, CInv, ConsensusTypeOK, ResultFollowsVotes, Unanimous
<1> QED BY <1>1, <1>2

(* Types: no reply a model can give gets past the parser unvalidated       *)
(* (parseModelResponse).                                                   *)
THEOREM VerdictsValidated == ConsensusSpec => []ConsensusTypeOK
<1>1. CInv => ConsensusTypeOK
  BY DEF CInv
<1> QED BY <1>1, InitCInv, NextCInv, PTL DEF ConsensusSpec

(* The result of runConsensus is the function of the two votes the         *)
(* documentation describes, in whatever order they come.                   *)
THEOREM VotesDecide == ConsensusSpec => []ResultFollowsVotes
<1>1. CInv => ResultFollowsVotes
  BY DEF CInv
<1> QED BY <1>1, InitCInv, NextCInv, PTL DEF ConsensusSpec

(* A result is final, even if the other model answers later.               *)
THEOREM ResultStays == ConsensusSpec => ResultFinal
<1>1. CInv /\ [ConsensusNext]_cvars => [result # "Waiting" => result' = result]_cvars
  <2> SUFFICES ASSUME CInv, ConsensusNext, result # "Waiting" PROVE result' = result
    BY DEF cvars
  <2>1. PICK m \in Models, reply \in Replies : Reply(m, reply)
    BY DEF ConsensusNext
  <2>2. result = "Failed" /\ \E n \in Models : call[n].at = "Rejected"
    BY <2>1 DEF Reply, CInv, ConsensusTypeOK, ResultFollowsVotes, Unanimous, Outcomes
  <2>3. PICK n \in Models : call[n].at = "Rejected"
    BY <2>2
  <2>4. CASE \E v \in ParseModelResponse(reply) : Fulfil(m, v)
    <3>1. PICK v : Fulfil(m, v)
      BY <2>4
    <3>2. call'[n].at = "Rejected"
      BY <2>1, <2>3, <3>1 DEF Reply, Fulfil, CInv, ConsensusTypeOK
    <3>3. ~AllFulfilled(call')
      BY <3>2 DEF AllFulfilled
    <3> QED BY <3>1, <3>3 DEF Fulfil
  <2>5. CASE Reject(m)
    BY <2>2, <2>5 DEF Reject
  <2> QED BY <2>1, <2>4, <2>5 DEF Reply
<1> QED BY <1>1, InitCInv, NextCInv, PTL DEF ConsensusSpec, ResultFinal

-----------------------------------------------------------------------------
(* The refinement: Consensus sees the replies, and stutters otherwise.     *)
LEMMA StepRefines == [E2eNext]_evars => [ConsensusNext]_cvars
<1> SUFFICES ASSUME [E2eNext]_evars PROVE [ConsensusNext]_cvars
  OBVIOUS
<1>1. ASSUME NEW m \in Models, ModelReplies(m)
      PROVE  ConsensusNext
  BY <1>1 DEF ModelReplies, ConsensusNext
<1>2. ASSUME \/ Script \/ Handler
             \/ Detect \/ LoseUpdate \/ Crash \/ Start
             \/ OpeningLands \/ TxLands \/ Expire
             \/ UNCHANGED evars
      PROVE  UNCHANGED cvars
  BY <1>2 DEF Script, CheckOracleHealth, CheckBalance, InitializeJob, InitConfirmed,
              InitThrows, WaitForOracle, SubmitToOracle, ReadResult, Report,
              Handler, Decide, Confirm, SendFails, Detect, LoseUpdate, Crash, Start,
              OpeningLands, TxLands, Expire, evars
<1> QED BY <1>1, <1>2 DEF E2eNext

(* The steps of E2e contain those of Consensus word for word, so what is   *)
(* proved of Consensus holds here.                                         *)
LEMMA ConsensusRefined == E2eSpec => ConsensusSpec
<1>1. E2eInit => ConsensusInit
  BY DEF E2eInit
<1> QED BY <1>1, StepRefines, PTL DEF E2eSpec, ConsensusSpec

-----------------------------------------------------------------------------
BeforeOpening == {"Health", "Balance", "Opening"}
AfterOpening == {"Detecting", "Submitting", "Waiting", "Looking", "Passed", "Escalated"}
BeforeSubmission == BeforeOpening \cup {"Confirming", "Detecting", "Submitting"}

(* The types, and that a script that goes on polling has polls left.       *)
Typed ==
    /\ script \in [at : Running \cup Ends, polls : 0 .. DetectPolls]
    /\ oracle \in [up : BOOLEAN, known : BOOLEAN, handler : HandlerStates]
    /\ tx \in TxStates
    /\ script.at \in BeforeOpening \cup {"Confirming", "Detecting"} => script.polls < DetectPolls

(* The script opens the job before it submits, and reports what it read.   *)
ScriptInOrder ==
    /\ script.at \in BeforeOpening => opening = "None"
    /\ script.at \in AfterOpening => opening = "Landed"
    /\ script.at \in BeforeSubmission => oracle.handler = "None"
    /\ script.at \in {"Looking", "Passed"} => oracle.handler \in Verdicts
    /\ script.at = "Escalated" => oracle.handler = "ESCALATE"

(* The handler sends what was agreed, and answers what was confirmed.      *)
HandlerInOrder ==
    /\ oracle.handler # "None" => opening = "Landed"
    /\ oracle.handler \in {"None", "Verifying", "ESCALATE"} => tx = "None"
    /\ oracle.handler \in Verdicts => tx = "Landed"
    /\ tx # "None" => result \in Verdicts /\ opening = "Landed"

(* The job is what the two transactions have made of it.                   *)
JobFollowsTxs ==
    job = IF opening # "Landed" THEN "None"
          ELSE IF tx # "Landed" THEN "Pending"
          ELSE IF result = "RELEASE" THEN "Released" ELSE "Cancelled"

EInv == CInv /\ Typed /\ ScriptInOrder /\ HandlerInOrder /\ JobFollowsTxs

LEMMA InitEInv == E2eInit => EInv
<1> SUFFICES ASSUME E2eInit PROVE EInv
  OBVIOUS
<1>1. /\ script = [at |-> "Health", polls |-> 0]
      /\ oracle.handler = "None" /\ tx = "None" /\ opening = "None" /\ job = "None"
  BY DEF E2eInit
<1>2. script \in [at : Running \cup Ends, polls : 0 .. DetectPolls]
  BY <1>1, E2eAssumption DEF Running
<1>3. oracle \in [up : BOOLEAN, known : BOOLEAN, handler : HandlerStates]
  BY DEF E2eInit, HandlerStates
<1>4. Typed
  BY <1>1, <1>2, <1>3, E2eAssumption DEF E2eInit, Typed, TxStates, BeforeOpening
<1>5. ScriptInOrder /\ HandlerInOrder /\ JobFollowsTxs
  BY <1>1 DEF ScriptInOrder, HandlerInOrder, JobFollowsTxs, BeforeOpening,
              AfterOpening, BeforeSubmission, Verdicts
<1> QED BY <1>4, <1>5, InitCInv DEF E2eInit, EInv

(* A verdict is there to stay.                                             *)
LEMMA VerdictStays ==
    ASSUME CInv, [ConsensusNext]_cvars, result \in Verdicts
    PROVE  result' = result
<1>1. CASE UNCHANGED cvars
  BY <1>1 DEF cvars
<1>2. ASSUME NEW m \in Models, NEW reply \in Replies, Reply(m, reply)
      PROVE  FALSE
  <2>1. call[m].at = "Pending"
    BY <1>2 DEF Reply
  <2> QED BY <2>1 DEF CInv, ResultFollowsVotes, Unanimous, Verdicts
<1> QED BY <1>1, <1>2 DEF ConsensusNext

-----------------------------------------------------------------------------
LEMMA ScriptKeepsEInv ==
    ASSUME EInv, Script
    PROVE  (Typed /\ ScriptInOrder /\ HandlerInOrder /\ JobFollowsTxs)'
<1> USE E2eAssumption DEF EInv, Typed, ScriptInOrder, HandlerInOrder, JobFollowsTxs, Running, Ends,
            HandlerStates, Failures, Verdicts, Outcomes, TxStates, BeforeOpening,
            AfterOpening, BeforeSubmission, Goto, cvars, wvars
<1>1. CASE CheckOracleHealth
  BY <1>1 DEF CheckOracleHealth
<1>2. CASE CheckBalance
  BY <1>2 DEF CheckBalance
<1>3. CASE InitializeJob
  BY <1>3 DEF InitializeJob
<1>4. CASE InitConfirmed
  BY <1>4 DEF InitConfirmed
<1>5. CASE InitThrows
  BY <1>5 DEF InitThrows
<1>6. CASE WaitForOracle
  <2> DEFINE at == IF CheckJobInOracle \/ script.polls + 1 = DetectPolls
                   THEN "Submitting" ELSE "Detecting"
  <2>1. /\ script.at = "Detecting"
        /\ script' = [script EXCEPT !.polls = script.polls + 1, !.at = at]
    BY <1>6 DEF WaitForOracle
  <2>2. at \in {"Detecting", "Submitting"} /\ (at = "Detecting" => script.polls + 1 # DetectPolls)
    OBVIOUS
  <2> HIDE DEF at
  <2>3. script.polls \in 0 .. DetectPolls - 1 /\ script.polls + 1 \in 0 .. DetectPolls
    BY <2>1
  <2>4. /\ script'.at = at /\ script'.polls = script.polls + 1
        /\ script' \in [at : Running \cup Ends, polls : 0 .. DetectPolls]
    BY <2>1, <2>2, <2>3
  <2> QED BY <1>6, <2>1, <2>2, <2>3, <2>4 DEF WaitForOracle
<1>7. CASE SubmitToOracle
  BY <1>7 DEF SubmitToOracle, Received
<1>8. CASE ReadResult
  BY <1>8 DEF ReadResult
<1>9. CASE Report
  BY <1>9 DEF Report
<1> QED BY <1>1, <1>2, <1>3, <1>4, <1>5, <1>6, <1>7, <1>8, <1>9 DEF Script

LEMMA OthersKeepEInv ==
    ASSUME EInv,
           \/ Handler \/ Detect \/ LoseUpdate \/ Crash \/ Start
           \/ OpeningLands \/ TxLands \/ Expire
    PROVE  (Typed /\ ScriptInOrder /\ HandlerInOrder /\ JobFollowsTxs)'
<1> USE E2eAssumption DEF EInv, Typed, ScriptInOrder, HandlerInOrder, JobFollowsTxs, Running, Ends,
            HandlerStates, Failures, Verdicts, Outcomes, TxStates, BeforeOpening,
            AfterOpening, BeforeSubmission, cvars, wvars
<1>1. CASE Decide
  <2>1. result \in Outcomes \cup {"Failed"}
    BY <1>1 DEF Decide, CInv, ConsensusTypeOK
  <2> QED BY <1>1, <2>1 DEF Decide
<1>2. CASE Confirm
  BY <1>2 DEF Confirm
<1>3. CASE SendFails
  BY <1>3 DEF SendFails
<1>4. CASE Detect
  BY <1>4 DEF Detect
<1>5. CASE LoseUpdate
  BY <1>5 DEF LoseUpdate
<1>6. CASE Crash
  BY <1>6 DEF Crash
<1>7. CASE Start
  BY <1>7 DEF Start
<1>8. CASE OpeningLands
  BY <1>8 DEF OpeningLands
<1>9. CASE TxLands
  BY <1>9 DEF TxLands
<1>10. CASE Expire
  BY <1>10 DEF Expire
<1> QED BY <1>1, <1>2, <1>3, <1>4, <1>5, <1>6, <1>7, <1>8, <1>9, <1>10 DEF Handler

(* A model's reply moves nothing but the votes and a result that waits.    *)
LEMMA RepliesKeepEInv ==
    ASSUME EInv, NEW m \in Models, ModelReplies(m)
    PROVE  (Typed /\ ScriptInOrder /\ HandlerInOrder /\ JobFollowsTxs)'
<1>1. [ConsensusNext]_cvars
  BY DEF ModelReplies, ConsensusNext
<1>2. tx # "None" => result' = result
  BY <1>1, VerdictStays DEF EInv, HandlerInOrder
<1> QED BY <1>2 DEF ModelReplies, wvars, EInv, Typed, ScriptInOrder, HandlerInOrder, JobFollowsTxs

LEMMA NextEInv == EInv /\ [E2eNext]_evars => EInv'
<1> SUFFICES ASSUME EInv, [E2eNext]_evars PROVE EInv'
  OBVIOUS
<1>1. CInv'
  BY StepRefines, NextCInv DEF EInv
<1>2. CASE UNCHANGED evars
  BY <1>1, <1>2 DEF evars, wvars, cvars, EInv, Typed, ScriptInOrder, HandlerInOrder, JobFollowsTxs
<1>3. CASE E2eNext
  <2>1. (Typed /\ ScriptInOrder /\ HandlerInOrder /\ JobFollowsTxs)'
    BY <1>3, ScriptKeepsEInv, OthersKeepEInv, RepliesKeepEInv DEF E2eNext
  <2> QED BY <1>1, <2>1 DEF EInv
<1> QED BY <1>2, <1>3

-----------------------------------------------------------------------------
(* What nothing but the types depends on.                                  *)
RestTyped ==
    /\ deployed \in {S!IdlArgs, S!SourceArgs} /\ apiKey \in BOOLEAN
    /\ feed \in BOOLEAN /\ opening \in TxStates

LEMMA NextRestTyped == EInv /\ RestTyped /\ [E2eNext]_evars => RestTyped'
<1> SUFFICES ASSUME EInv, RestTyped, [E2eNext]_evars PROVE RestTyped'
  OBVIOUS
<1>1. UNCHANGED wvars
  BY DEF E2eNext, Script, CheckOracleHealth, CheckBalance, InitializeJob, InitConfirmed,
         InitThrows, WaitForOracle, SubmitToOracle, ReadResult, Report, ModelReplies,
         Handler, Decide, Confirm, SendFails, Detect, LoseUpdate, Crash, Start,
         OpeningLands, TxLands, Expire, evars
<1>2. opening' = opening \/ opening' \in TxStates
  BY DEF E2eNext, Script, CheckOracleHealth, CheckBalance, InitializeJob, InitConfirmed,
         InitThrows, WaitForOracle, SubmitToOracle, ReadResult, Report, ModelReplies,
         Handler, Decide, Confirm, SendFails, Detect, LoseUpdate, Crash, Start,
         OpeningLands, TxLands, Expire, evars, TxStates
<1>3. feed' = feed \/ feed' = FALSE \/ feed' = oracle.up
  BY Zenon
     DEF E2eNext, Script, CheckOracleHealth, CheckBalance, InitializeJob, InitConfirmed,
         InitThrows, WaitForOracle, SubmitToOracle, ReadResult, Report, ModelReplies,
         Handler, Decide, Confirm, SendFails, Detect, LoseUpdate, Crash, Start,
         OpeningLands, TxLands, Expire, evars
<1>4. feed' \in BOOLEAN
  BY <1>3 DEF EInv, Typed, RestTyped
<1>5. deployed' \in {S!IdlArgs, S!SourceArgs} /\ apiKey' \in BOOLEAN
  BY <1>1 DEF wvars, RestTyped
<1> QED BY <1>2, <1>4, <1>5 DEF RestTyped

(* Types; the script asks for its job only as often as it should.          *)
THEOREM E2eTypes == E2eSpec => []E2eTypeOK
<1>1. E2eInit => RestTyped
  BY DEF E2eInit, RestTyped, TxStates
<1>2. EInv /\ RestTyped => E2eTypeOK
  <2> SUFFICES ASSUME EInv, RestTyped PROVE E2eTypeOK
    OBVIOUS
  <2>1. job \in {"None", "Pending", "Released", "Cancelled"}
    BY DEF EInv, JobFollowsTxs
  <2> QED BY <2>1 DEF EInv, Typed, RestTyped, E2eTypeOK
<1> QED BY <1>1, <1>2, InitEInv, NextEInv, NextRestTyped, PTL DEF E2eSpec

(* Money moves as the models voted, for every scale of confidences and all *)
(* thresholds, whatever is lost or dies on the way (SettledAsVoted).       *)
THEOREM MoneyFollowsVotes == E2eSpec => []SettledAsVoted
<1>1. EInv => SettledAsVoted
  <2> SUFFICES ASSUME EInv PROVE SettledAsVoted
    OBVIOUS
  <2>1. job = "Released" => result = "RELEASE"
    BY DEF EInv, JobFollowsTxs
  <2>2. job = "Cancelled" => result = "REFUND"
    BY DEF EInv, JobFollowsTxs, HandlerInOrder, Verdicts
  <2> QED BY <2>1, <2>2 DEF EInv, CInv, ResultFollowsVotes, SettledAsVoted
<1> QED BY <1>1, InitEInv, NextEInv, PTL DEF E2eSpec

(* The script's report is true, for any number of polls (ReportedTruth).   *)
THEOREM ReportIsTrue == E2eSpec => []ReportedTruth
<1>1. EInv => ReportedTruth
  BY DEF EInv, ScriptInOrder, HandlerInOrder, JobFollowsTxs, ReportedTruth, Verdicts,
         AfterOpening
<1> QED BY <1>1, InitEInv, NextEInv, PTL DEF E2eSpec
=============================================================================
