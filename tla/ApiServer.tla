----------------------------- MODULE ApiServer -----------------------------
(***************************************************************************)
(* The API server: the handlers of apps/api-server/src/routes/jobs.ts over *)
(* the jobs table of lib/db, with the request and response schemas of      *)
(* lib/api-zod.  Anybody may call any of them.                             *)
(*                                                                         *)
(* A handler is cut where the code awaits: the call arrives and is         *)
(* validated, its statement runs in the database and the handler answers.  *)
(* A submission first waits for the oracle service, which is any peer here *)
(* that sends what index.ts sends, or what the response schema asks for.   *)
(*                                                                         *)
(* Left out: description and criteria (stored and returned as they are),   *)
(* the time of the last update, and the filter of GET /jobs by client.     *)
(***************************************************************************)
EXTENDS Integers, FiniteSets, FiniteSetsExt

CONSTANTS
    Calls,          \* one HTTP request each
    JobIds,         \* job ids
    LongIds,        \* those of more than 32 UTF-16 units
    Clients,        \* clientPubkey; the other keys go with it
    Amounts,        \* amountLamports
    BigIntMax,      \* the greatest amount PostgreSQL casts to bigint; an
                    \* amount above it stands for any text that does not cast
    Sigs,           \* transaction signatures
    NoRow, Unset,   \* no row has this job id; a column or field without value
    Inbox,          \* the requests callers make
    Unreachable     \* the oracle gave no answer, or none that is JSON

(* There is an end to the ids, as there is to the length of a body.        *)
ASSUME ApiAssumption ==
    /\ IsFiniteSet(JobIds) /\ LongIds \subseteq JobIds
    /\ Amounts \subseteq Nat /\ BigIntMax \in Nat

VARIABLES
    rows,    \* rows[j]: the row of job id j, or NoRow
    call     \* call[c]: where the handler of c is, its request, its answer;
             \* an answered call is one whose answer is on its way

apivars == <<rows, call>>

Statuses == {"pending", "completed", "cancelled"}

Terms == [client : Clients, amount : Amounts]

(* by is history: the call that inserted the row.  createdAt, by which     *)
(* GET /jobs orders, is how many rows there were before this one.          *)
Rows == [terms : Terms, status : Statuses, txSig : Sigs \cup {Unset}, by : Calls,
         createdAt : Nat]

ASSUME NoValueAssumption ==
    NoRow \notin Rows /\ Unset \notin Statuses \cup Sigs \cup {"RELEASE", "REFUND", "ESCALATE"}

ListJobsQueryParams == [op : {"list"}, status : Statuses \cup {Unset}]

CallRequests ==
         [op : {"create"}, job : JobIds, terms : Terms]
    \cup [op : {"patch"}, job : JobIds, status : Statuses \cup {Unset},
          txSig : Sigs \cup {Unset}]
    \cup [op : {"get", "submit"}, job : JobIds]
    \cup ListJobsQueryParams
    \cup [op : {"stats", "health", "healthz", "malformed"}]

ASSUME InboxAssumption == Inbox \subseteq CallRequests

NoRequest == [op |-> "none"]
NoAnswer == [code |-> 0]
IdleCall == [at |-> "Idle", req |-> NoRequest, answer |-> NoAnswer]

ApiInit ==
    /\ rows = [j \in JobIds |-> NoRow]
    /\ call = [c \in Calls |-> IdleCall]

-----------------------------------------------------------------------------
(* The schemas of the requests: a creation may have an id that is too      *)
(* long; a malformed request breaks the schema of whatever it asks for.    *)
Valid(q) == q.op # "malformed" /\ (q.op = "create" => q.job \notin LongIds)

(* What oracle/src/index.ts sends: undefined fields are not serialized, so *)
(* an outcome comes without error, an error without outcome.               *)
ServiceReplies(j) ==
         [success : {TRUE}, jobId : {j}, outcome : {"RELEASE", "REFUND"}, txSig : Sigs]
    \cup [success : {TRUE}, jobId : {j}, outcome : {"ESCALATE"}]
    \cup [success : {FALSE}, jobId : {j}, error : {"message"}]
    \cup [error : {"message"}]

(* What the response schema admits: all five fields, of which outcome and  *)
(* txSig may be null whatever the other one is.  At the rest nobody looks. *)
SchemaReplies(j) ==
    [success : {"any"}, jobId : {j}, error : {"any"},
     outcome : {"RELEASE", "REFUND", "ESCALATE", Unset}, txSig : Sigs \cup {Unset}]

SubmitDeliverableResponse == {"success", "jobId", "outcome", "txSig", "error"}

MatchesSchemaLoosely(reply) == reply # Unreachable /\ "outcome" \in DOMAIN reply
MatchesSchema(reply) == SubmitDeliverableResponse \subseteq DOMAIN reply

-----------------------------------------------------------------------------
(* The statements: the rows after request q of call c.                     *)
Exists(j) == rows[j] # NoRow
Existing == {j \in JobIds : Exists(j)}

NewRow(c, q) ==
    [terms |-> q.terms, status |-> "pending", txSig |-> Unset, by |-> c,
     createdAt |-> Cardinality(Existing)]

InsertOrReplace(c, q) == [rows EXCEPT ![q.job] = NewRow(c, q)]
Insert(c, q) ==
    IF Exists(q.job) THEN rows ELSE [rows EXCEPT ![q.job] = NewRow(c, q)]

Or(value, old) == IF value = Unset THEN old ELSE value

UpdateForgets(q) ==
    IF ~Exists(q.job) THEN rows
    ELSE [rows EXCEPT ![q.job].status = Or(q.status, @), ![q.job].txSig = q.txSig]
Update(q) ==
    IF ~Exists(q.job) THEN rows
    ELSE [rows EXCEPT ![q.job].status = Or(q.status, @),
                      ![q.job].txSig = Or(q.txSig, @)]

(* The settled status the proxy writes, with the signature of the reply or *)
(* none, whatever the row has.                                             *)
MirroredStatus(outcome) == IF outcome = "RELEASE" THEN "completed" ELSE "cancelled"

Mirror(q) ==
    IF ~Exists(q.job) THEN rows
    ELSE [rows EXCEPT ![q.job].status = MirroredStatus(q.reply.outcome),
                      ![q.job].txSig = q.reply.txSig]

RowsAfter(c, q) ==
    CASE q.op = "create" -> Insert(c, q)
      [] q.op = "patch"  -> Update(q)
      [] q.op = "mirror" -> Mirror(q)
      [] OTHER           -> rows

-----------------------------------------------------------------------------
(* GET /stats: one group per status, each with its count and its sum.  The *)
(* cast of one amount that is no bigint fails the whole statement.         *)
Group(status) == {j \in Existing : rows[j].status = status}

Total(jobs) == SumFunction([j \in jobs |-> rows[j].terms.amount])

Casts == \A j \in Existing : rows[j].terms.amount <= BigIntMax

EscrowedOfAll == Total(UNION {Group(s) : s \in Statuses})
Escrowed == Total(Group("pending"))

Stats ==
    [total |-> Cardinality(Group("pending")) + Cardinality(Group("completed"))
                 + Cardinality(Group("cancelled")),
     pending |-> Cardinality(Group("pending")),
     completed |-> Cardinality(Group("completed")),
     cancelled |-> Cardinality(Group("cancelled")),
     totalEscrowedLamports |-> Escrowed]

(* GET /jobs: the rows of the status that was asked for, if one was, each  *)
(* with what it is ordered by.                                             *)
Listed(status) ==
    {[job |-> j, row |-> rows[j]] :
        j \in IF status = Unset THEN Existing ELSE Group(status)}

(* The handler's answer, from what its statement returned.                 *)
Result(c) ==
    LET q == call[c].req
    IN  CASE q.op = "create" ->
                IF Exists(q.job) THEN [code |-> 500]
                ELSE [code |-> 201, job |-> q.job, row |-> Insert(c, q)[q.job]]
          [] q.op = "patch" ->
                IF ~Exists(q.job) THEN [code |-> 404]
                ELSE [code |-> 200, row |-> Update(q)[q.job]]
          [] q.op = "get" ->
                IF ~Exists(q.job) THEN [code |-> 404]
                ELSE [code |-> 200, row |-> rows[q.job]]
          [] q.op = "stats" ->
                IF Casts THEN [code |-> 200, stats |-> Stats] ELSE [code |-> 500]
          [] q.op = "list" -> [code |-> 200, jobs |-> Listed(q.status)]
          [] q.op = "mirror" -> [code |-> 200, reply |-> q.reply]

-----------------------------------------------------------------------------
Goto(c, at, q) ==
    call' = [call EXCEPT ![c] = [at |-> at, req |-> q, answer |-> NoAnswer]]

Answer(c, a) ==
    call' = [call EXCEPT ![c] = [at |-> "Answered", req |-> NoRequest, answer |-> a]]

(* A call arrives; one that breaks the schema is answered at once, and so  *)
(* is GET /healthz, which says that the process is there.                  *)
Arrive(c, q) ==
    /\ call[c].at = "Idle"
    /\ CASE ~Valid(q)        -> Answer(c, [code |-> 400])
         [] q.op = "healthz" -> Answer(c, [code |-> 200])
         [] q.op = "submit"  -> Goto(c, "Asking", q)
         [] q.op = "health"  -> Goto(c, "Probing", q)
         [] OTHER            -> Goto(c, "Querying", q)
    /\ UNCHANGED rows

(* The await of fetch and of its JSON ends.  Only a reply of the schema's  *)
(* shape is looked at.                                                     *)
OracleRepliesLoosely(c, reply) ==
    /\ call[c].at = "Asking"
    /\ LET q == call[c].req
       IN  IF MatchesSchemaLoosely(reply) /\ reply.outcome \in {"RELEASE", "REFUND"}
           THEN /\ rows' = Mirror([op |-> "mirror", job |-> q.job, reply |-> reply])
                /\ Answer(c, IF MatchesSchema(reply) THEN [code |-> 200, reply |-> reply]
                             ELSE [code |-> 500])
           ELSE Answer(c, [code |-> 503]) /\ UNCHANGED rows
OracleReplies(c, reply) ==
    /\ call[c].at = "Asking"
    /\ CASE reply = Unreachable -> Answer(c, [code |-> 503])
         [] reply # Unreachable /\ ~MatchesSchema(reply) -> Answer(c, [code |-> 500])
         [] OTHER ->
              IF reply.outcome \in {"RELEASE", "REFUND"}
              THEN Goto(c, "Querying",
                        [op |-> "mirror", job |-> call[c].req.job, reply |-> reply])
              ELSE Answer(c, [code |-> 200, reply |-> reply])
    /\ UNCHANGED rows

(* GET /oracle/health passes on whatever JSON the oracle sends, also that  *)
(* of an error.                                                            *)
Healths == {"Ok", "OtherBody", Unreachable}

HealthReplies(c, health) ==
    /\ call[c].at = "Probing"
    /\ Answer(c, IF health = Unreachable THEN [code |-> 503]
                 ELSE [code |-> 200, health |-> health])
    /\ UNCHANGED rows

(* The statement runs, and the handler goes on to its answer.              *)
Execute(c) ==
    /\ call[c].at = "Querying"
    /\ rows' = RowsAfter(c, call[c].req)
    /\ Answer(c, Result(c))

(* The connection breaks; whether the statement ran before that is         *)
(* anybody's guess.  The rejected handler ends in the error middleware.    *)
DbBreaksUnanswered(c) ==
    /\ call[c].at = "Querying"
    /\ rows' = rows
    /\ Goto(c, "Hanging", call[c].req)
DbBreaks(c) ==
    /\ call[c].at = "Querying"
    /\ rows' \in {rows, RowsAfter(c, call[c].req)}
    /\ Answer(c, [code |-> 500])

(* The process dies, and starts again with nothing to remember.  What it   *)
(* answered last may be lost with it.                                      *)
ApiCrash ==
    /\ \E lost \in SUBSET {c \in Calls : call[c].at = "Answered"} :
          call' = [c \in Calls |-> IF c \in lost \/ call[c].at \in {"Asking", "Probing", "Querying"}
                                  THEN [IdleCall EXCEPT !.at = "Lost"] ELSE call[c]]
    /\ UNCHANGED rows

Replies(j) == ServiceReplies(j) \cup SchemaReplies(j) \cup {Unreachable}

ApiStep(c) ==
    \/ call[c].at = "Asking" /\ \E reply \in Replies(call[c].req.job) : OracleReplies(c, reply)
    \/ \E health \in Healths : HealthReplies(c, health)
    \/ Execute(c)
    \/ DbBreaks(c)

ApiNext ==
    \/ \E c \in Calls : ApiStep(c) \/ \E q \in Inbox : Arrive(c, q)
    \/ ApiCrash

ApiSpec == ApiInit /\ [][ApiNext]_apivars

(* fetch gives up in the end, and a statement ends or its connection does. *)
FairApiSpec == ApiSpec /\ \A c \in Calls : WF_apivars(ApiStep(c))

-----------------------------------------------------------------------------
(* Every variable has its type: above all, only the statuses of the        *)
(* database's enumeration are ever written.                                *)
ApiTypeOK ==
    /\ rows \in [JobIds -> Rows \cup {NoRow}]
    /\ \A c \in Calls :
          /\ call[c].at \in {"Idle", "Asking", "Probing", "Querying", "Answered", "Lost"}
          /\ call[c].req \in CallRequests \cup {NoRequest} \/ call[c].req.op = "mirror"
          /\ call[c].answer.code \in {0, 200, 201, 400, 404, 500, 503}

(* However many callers create the same job at the same time, one of them  *)
(* is told it did, and the row is the one that caller made whatever is     *)
(* patched or mirrored into it afterwards (POST /jobs, the unique index).  *)
CreatedIsRow ==
    \A c \in Calls : call[c].answer.code = 201 =>
        LET a == call[c].answer
        IN  Exists(a.job) /\ rows[a.job].terms = a.row.terms /\ rows[a.job].by = a.row.by

(* A row changes its status or signature only by a statement of a PATCH    *)
(* for it, or by the verdict of a well-formed reply to a submission for    *)
(* it; a caller who is refused (bad request, unknown job, unreachable      *)
(* oracle, a reply that breaks the schema) has changed nothing.            *)
RefusedChangesNothing ==
    [][ rows' # rows =>
          \E c \in Calls : /\ call[c].at = "Querying" /\ call'[c].at # "Querying"
                           /\ call'[c].answer.code \notin {400, 404, 503}
                           /\ \A j \in JobIds : rows'[j] # rows[j] => j = call[c].req.job
      ]_apivars

(* An answer of GET /stats counts every row once, in one of the three      *)
(* statuses, and adds up the amounts of exactly the pending ones; there is *)
(* none while the amount of any row, settled ones too, does not cast.      *)
StatsTrue(s) ==
    /\ \A j \in Existing : rows[j].terms.amount <= BigIntMax
    /\ s.total = Cardinality(Existing)
    /\ s.total = s.pending + s.completed + s.cancelled
    /\ s.totalEscrowedLamports =
         SumFunction([j \in Existing |->
            IF rows[j].status = "pending" THEN rows[j].terms.amount ELSE 0])

StatsTruthful ==
    [][ \A c \in Calls :
          call[c].req.op = "stats" /\ call[c].at = "Querying" /\ call'[c].at = "Answered" =>
             (call'[c].answer.code = 200 => StatsTrue(call'[c].answer.stats))
      ]_apivars

(* The abstract view of the rows: a signature is the proof.  The handlers, *)
(* run side by side and broken anywhere, keep what JobsTable promises: the *)
(* unique index, the fields a PATCH may set and those it leaves alone.     *)
Entry(row) ==
    [terms |-> row.terms, by |-> row.by, status |-> row.status,
     proof |-> {row.txSig} \ {Unset}]

Entries == [j \in JobIds |-> IF Exists(j) THEN {Entry(rows[j])} ELSE {}]

Table == INSTANCE JobsTable WITH
    Ids <- JobIds, Unfit <- LongIds, Authors <- Calls, Proofs <- Sigs, table <- Entries

ImplementsJobsTable == Table!Spec

(* Every call is answered, or its connection dies with the process.        *)
EveryCallAnswered ==
    \A c \in Calls : call[c].at # "Idle" ~> call[c].at \in {"Answered", "Lost"}

=============================================================================
