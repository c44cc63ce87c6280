------------------------------- MODULE Proxy -------------------------------
(***************************************************************************)
(* A submission on its whole way: a page's POST /jobs/:jobId/submit at the *)
(* API server (ApiServer) becomes one of the oracle service (Oracle),      *)
(* which verifies it, settles the job on the chain and replies; what the   *)
(* proxy does with that reply is all the database learns of it.            *)
(*                                                                         *)
(* A call of the API server and the handler run it causes at the oracle    *)
(* have one name.  Either process may die while the other waits for it.    *)
(***************************************************************************)
EXTENDS ApiServer

CONSTANTS
    Wallets, Freelancers, Oracles, OversizedIds, Prefix, Durations, Dust,
    InitialBalance, RentMin, RentEscrow, MinDuration, MaxDuration, I64Max,
    NoEscrow, NeverSettled, MaxStream, MaxGen, Absent, ThisOracle, NoJob

VARIABLES
    escrow, vault, balance, now, openedAt, settled, store, link, stream,
    gen, missed, req, tx

O == INSTANCE Oracle WITH Requests <- Calls

oraclevars == <<escrow, vault, balance, now, openedAt, settled, store, link,
                stream, gen, missed, req, tx>>

proxyvars == <<apivars, oraclevars>>

ProxyInit == ApiInit /\ O!OracleInit

-----------------------------------------------------------------------------
(* The pages submit for a job they have the row of.                        *)
CallArrives(c) ==
    /\ \E q \in Inbox : Arrive(c, q) /\ (q.op = "submit" => Exists(q.job))
    /\ UNCHANGED oraclevars

(* The proxy's fetch reaches the oracle.  The schema of the proxy lets no  *)
(* other body through; an empty field is a missing one for the oracle.     *)
ProxyAsks(c) ==
    /\ call[c].at = "Asking"
    /\ \E input \in {"Complete", "Incomplete", "Oversized"} :
          O!Submit(c, call[c].req.job, input)
    /\ UNCHANGED apivars

(* The reply of the oracle's handler, in the form ServiceReplies gives it. *)
SubmitResponse(c) ==
    LET a == req[c].answer
        j == call[c].req.job
    IN  {reply \in ServiceReplies(j) :
           IF a \in {"RELEASE", "REFUND", "ESCALATE"}
           THEN "outcome" \in DOMAIN reply /\ reply.outcome = a
           ELSE DOMAIN reply = {"success", "jobId", "error"}}

OracleAnswers(c) ==
    /\ call[c].at = "Asking" /\ req[c].at = "Answered"
    /\ \E reply \in SubmitResponse(c) : OracleReplies(c, reply)
    /\ UNCHANGED oraclevars

OracleUnreachable(c) ==
    /\ call[c].at = "Asking"
    /\ req[c].at = "Lost" \/ (req[c].at = "Idle" /\ ~O!Up)
    /\ OracleReplies(c, Unreachable)
    /\ UNCHANGED oraclevars

ApiGoesOn ==
    /\ ApiCrash \/ \E c \in Calls : Execute(c) \/ DbBreaks(c)
    /\ UNCHANGED oraclevars

OracleGoesOn ==
    /\ \/ O!ChainStep \/ O!ListenerStep \/ O!Crash
       \/ \E c \in Calls : O!Handler(c) \/ O!Land(c) \/ O!Expire(c)
    /\ UNCHANGED apivars

ProxyNext ==
    \/ \E c \in Calls : \/ CallArrives(c) \/ ProxyAsks(c)
                        \/ OracleAnswers(c) \/ OracleUnreachable(c)
    \/ ApiGoesOn
    \/ OracleGoesOn

ProxySpec == ProxyInit /\ [][ProxyNext]_proxyvars

-----------------------------------------------------------------------------
(* A claim of the documentation, stated to be tested.                      *)

(* "The API server mirrors on-chain job state in PostgreSQL"               *)
(* (docs/wiki/Architecture.md:150): when the oracle has settled a job and  *)
(* says so, the proxy does not end the submission with the job's row still *)
(* pending.                                                                *)
VerdictMirrored ==
    [][ \A c \in Calls :
          /\ call[c].at = "Asking" /\ call'[c].at = "Answered"
          /\ req[c].answer \in O!Verdicts /\ O!Landed(c)
          /\ Exists(call[c].req.job)
          => rows'[call[c].req.job].status # "pending" ]_proxyvars
=============================================================================
