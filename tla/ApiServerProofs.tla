-------------------------- MODULE ApiServerProofs --------------------------
(***************************************************************************)
(* Proofs about ApiServer: for any number of concurrent calls, broken      *)
(* statements and restarts, a creation that was confirmed is the row, a    *)
(* caller that was refused changed nothing, and the rows are a JobsTable;  *)
(* and what every page may rely on at its end of a call (ApiClient).       *)
(***************************************************************************)
EXTENDS ApiClient, SumTheorems

CallStates == {"Idle", "Asking", "Probing", "Querying", "Answered", "Lost"}
Codes == {0, 200, 201, 400, 404, 500, 503}

(* A request that a statement can be made of.                              *)
Executable(q) ==
    \/ q.op = "create" /\ q.job \in JobIds \ LongIds /\ q.terms \in Terms
    \/ /\ q.op = "patch" /\ q.job \in JobIds
       /\ q.status \in Statuses \cup {Unset} /\ q.txSig \in Sigs \cup {Unset}
    \/ /\ q.op = "mirror" /\ q.job \in JobIds
       /\ q.reply.outcome \in {"RELEASE", "REFUND"} /\ q.reply.txSig \in Sigs \cup {Unset}
    \/ q.op = "get" /\ q.job \in JobIds
    \/ q.op \in {"list", "stats"}

RowsTyped == rows \in [JobIds -> Rows \cup {NoRow}]

CallOK(c) ==
    /\ call[c].at \in CallStates
    /\ call[c].answer.code \in Codes
    /\ call[c].req \in CallRequests \cup {NoRequest} \/ call[c].req.op = "mirror"
    /\ call[c].at = "Asking" => call[c].req.op = "submit" /\ call[c].req.job \in JobIds
    /\ call[c].at = "Querying" => Executable(call[c].req)

(* The row a caller was told it made.                                      *)
Stands(a) ==
    /\ a.job \in JobIds /\ Exists(a.job)
    /\ rows[a.job].terms = a.row.terms /\ rows[a.job].by = a.row.by

(* The inductive invariant.                                                *)
ApiInv ==
    /\ RowsTyped
    /\ call = [c \in Calls |-> call[c]]
    /\ \A c \in Calls : CallOK(c)
    /\ \A c \in Calls : call[c].answer.code = 201 => Stands(call[c].answer)

-----------------------------------------------------------------------------
LEMMA RequestFields ==
    ASSUME NEW q \in CallRequests
    PROVE  /\ q.op \in {"create", "patch", "get", "list", "stats", "submit", "health", "healthz", "malformed"}
           /\ q.op \notin {"submit", "health", "healthz"} /\ Valid(q) => Executable(q)
           /\ q.op = "submit" => q.job \in JobIds
<1>1. CASE q \in [op : {"create"}, job : JobIds, terms : Terms]
  BY <1>1 DEF Executable, Valid
<1>2. CASE q \in [op : {"patch"}, job : JobIds, status : Statuses \cup {Unset},
                  txSig : Sigs \cup {Unset}]
  BY <1>2 DEF Executable
<1>3. CASE q \in [op : {"get", "submit"}, job : JobIds]
  BY <1>3 DEF Executable
<1>4. CASE q \in ListJobsQueryParams
  BY <1>4 DEF ListJobsQueryParams, Executable
<1>5. CASE q \in [op : {"stats", "health", "healthz", "malformed"}]
  BY <1>5 DEF Executable, Valid
<1> QED BY <1>1, <1>2, <1>3, <1>4, <1>5 DEF CallRequests

(* A reply of the schema's shape that names a settlement has a signature   *)
(* or says that there is none.                                             *)
LEMMA SettlementsAreTyped ==
    ASSUME NEW j, NEW reply \in Replies(j), reply # Unreachable, MatchesSchema(reply)
    PROVE  reply.txSig \in Sigs \cup {Unset}
<1>1. "txSig" \in DOMAIN reply
  BY DEF MatchesSchema, SubmitDeliverableResponse
<1>2. CASE reply \in [success : {TRUE}, jobId : {j}, outcome : {"RELEASE", "REFUND"}, txSig : Sigs]
  BY <1>2
<1>3. CASE reply \in [success : {TRUE}, jobId : {j}, outcome : {"ESCALATE"}]
  BY <1>1, <1>3
<1>4. CASE reply \in [success : {FALSE}, jobId : {j}, error : {"message"}]
  BY <1>1, <1>4
<1>5. CASE reply \in [error : {"message"}]
  BY <1>1, <1>5
<1>6. CASE reply \in SchemaReplies(j)
  BY <1>6 DEF SchemaReplies
<1> QED BY <1>2, <1>3, <1>4, <1>5, <1>6 DEF Replies, ServiceReplies

-----------------------------------------------------------------------------
LEMMA InitEstablishesApiInv == ApiInit => ApiInv
BY DEF ApiInit, ApiInv, RowsTyped, IdleCall, NoRequest, NoAnswer, CallOK, CallStates, Codes

(* A row that exists keeps its terms, its author and its place; only the   *)
(* row of the statement's job changes.                                     *)
RowsKept(q) ==
    \A j \in JobIds :
        /\ Exists(j) => /\ Exists(j)' /\ rows'[j].terms = rows[j].terms
                        /\ rows'[j].by = rows[j].by
                        /\ rows'[j].createdAt = rows[j].createdAt
        /\ rows'[j] # rows[j] => j = q.job

(* What a statement may make of a row.                                     *)
Inserted(c, q, new) ==
    /\ ~Exists(q.job) /\ q.job \notin LongIds
    /\ new = NewRow(c, q)

Reopens(q) == q.op = "patch" /\ q.status = "pending"

Updated(q, new) ==
    /\ Exists(q.job)
    /\ new.terms = rows[q.job].terms /\ new.by = rows[q.job].by
    /\ new.createdAt = rows[q.job].createdAt
    /\ rows[q.job].txSig \in Sigs /\ new.status = "pending" => new.txSig \in Sigs
    /\ rows[q.job].status # "pending" /\ ~Reopens(q) => new.status # "pending"

(* A new row is one.                                                       *)
LEMMA NewRowTyped ==
    ASSUME NEW c \in Calls, NEW q, q.terms \in Terms
    PROVE  NewRow(c, q) \in Rows
<1>1. IsFiniteSet(Existing)
  BY ApiAssumption, FS_Subset DEF Existing
<1>2. Cardinality(Existing) \in Nat
  BY <1>1, FS_CardinalityType
<1> QED BY <1>2 DEF NewRow, Rows, Statuses

LEMMA StatementEffect ==
    ASSUME RowsTyped, NEW c \in Calls, NEW q, Executable(q), rows' = RowsAfter(c, q)
    PROVE  \/ rows' = rows
           \/ \E new \in Rows :
                 /\ q.job \in JobIds
                 /\ rows' = [rows EXCEPT ![q.job] = new]
                 /\ Inserted(c, q, new) \/ Updated(q, new)
<1>1. rows \in [JobIds -> Rows \cup {NoRow}]
  BY DEF RowsTyped
<1>4. CASE q.op = "create" /\ ~Exists(q.job)
  <2>1. PICK new : new = NewRow(c, q)
    OBVIOUS
  <2>2. new \in Rows /\ q.job \in JobIds \ LongIds
    BY <1>4, <2>1, NewRowTyped DEF Executable
  <2>3. rows' = [rows EXCEPT ![q.job] = new]
    BY <1>4, <2>1 DEF RowsAfter, Insert
  <2> QED BY <1>4, <2>1, <2>2, <2>3 DEF Inserted
<1>5. CASE q.op = "patch" /\ Exists(q.job)
  <2>1. PICK old \in Rows : old = rows[q.job]
    BY <1>1, <1>5 DEF Exists, Executable
  <2>2. PICK new : new = [old EXCEPT !.status = Or(q.status, @), !.txSig = Or(q.txSig, @)]
    OBVIOUS
  <2>3. /\ Or(q.status, old.status) \in Statuses
        /\ Or(q.txSig, old.txSig) \in Sigs \cup {Unset}
        /\ old.txSig \in Sigs => Or(q.txSig, old.txSig) \in Sigs
        /\ old.status # "pending" /\ ~Reopens(q) => Or(q.status, old.status) # "pending"
        /\ q.job \in JobIds
    BY <1>5, <2>1 DEF Or, Rows, Executable, Reopens
  <2>4. /\ new \in Rows /\ new.terms = old.terms /\ new.by = old.by
        /\ new.createdAt = old.createdAt
        /\ old.txSig \in Sigs => new.txSig \in Sigs
        /\ old.status # "pending" /\ ~Reopens(q) => new.status # "pending"
    BY <2>1, <2>2, <2>3 DEF Rows
  <2>5. rows' = [rows EXCEPT ![q.job] = new]
    BY <1>1, <1>5, <2>1, <2>2, <2>3 DEF RowsAfter, Update
  <2> QED BY <1>5, <2>1, <2>3, <2>4, <2>5 DEF Updated
<1>6. CASE q.op = "mirror" /\ Exists(q.job)
  <2>1. PICK old \in Rows : old = rows[q.job]
    BY <1>1, <1>6 DEF Exists, Executable
  <2>2. PICK new : new = [old EXCEPT !.status = MirroredStatus(q.reply.outcome),
                                     !.txSig = q.reply.txSig]
    OBVIOUS
  <2>3. q.job \in JobIds /\ q.reply.txSig \in Sigs \cup {Unset}
        /\ MirroredStatus(q.reply.outcome) \in Statuses \ {"pending"}
    BY <1>6 DEF Executable, MirroredStatus, Statuses
  <2>4. /\ new \in Rows /\ new.terms = old.terms /\ new.by = old.by
        /\ new.createdAt = old.createdAt /\ new.status # "pending"
    BY <2>1, <2>2, <2>3 DEF Rows
  <2>5. rows' = [rows EXCEPT ![q.job] = new]
    BY <1>1, <1>6, <2>1, <2>2, <2>3 DEF RowsAfter, Mirror
  <2> QED BY <1>6, <2>1, <2>3, <2>4, <2>5 DEF Updated
<1>7. q.op \in {"create", "patch", "mirror", "get", "list", "stats"}
  BY DEF Executable
<1>8. CASE /\ ~(q.op = "create" /\ ~Exists(q.job))
           /\ ~(q.op \in {"patch", "mirror"} /\ Exists(q.job))
  BY <1>7, <1>8 DEF RowsAfter, Insert, Update, Mirror
<1> QED BY <1>4, <1>5, <1>6, <1>7, <1>8

LEMMA StatementKeepsRows ==
    ASSUME RowsTyped, NEW c \in Calls, NEW q, Executable(q), rows' = RowsAfter(c, q)
    PROVE  RowsTyped' /\ RowsKept(q)
<1>1. CASE rows' = rows
  BY <1>1 DEF RowsTyped, RowsKept, Exists
<1>2. ASSUME NEW new \in Rows, q.job \in JobIds, rows' = [rows EXCEPT ![q.job] = new],
             Inserted(c, q, new) \/ Updated(q, new)
      PROVE  RowsTyped' /\ RowsKept(q)
  BY <1>2, NoValueAssumption DEF RowsTyped, RowsKept, Exists, Inserted, Updated
<1> QED BY <1>1, <1>2, StatementEffect

(* A confirmed creation survives whatever a statement does to the rows.    *)
LEMMA StandsOn ==
    ASSUME NEW q, RowsKept(q), NEW a, Stands(a)
    PROVE  Stands(a)'
BY DEF RowsKept, Stands, Exists

(* One call moves on, to where it is asked or executed or answered.        *)
LEMMA OneCallMoves ==
    ASSUME ApiInv, NEW c \in Calls, NEW at \in CallStates, NEW q, NEW a,
           call' = [call EXCEPT ![c] = [at |-> at, req |-> q, answer |-> a]],
           RowsTyped', \A b : Stands(b) => Stands(b)',
           q \in CallRequests \cup {NoRequest} \/ q.op = "mirror",
           at = "Asking" => q.op = "submit" /\ q.job \in JobIds,
           at = "Querying" => Executable(q),
           a.code \in Codes, a.code = 201 => Stands(a)'
    PROVE  ApiInv'
<1>1. call' = [b \in Calls |-> IF b = c THEN [at |-> at, req |-> q, answer |-> a]
                               ELSE call[b]]
  BY DEF ApiInv
<1>2. ASSUME NEW b \in Calls PROVE CallOK(b)'
  <2>1. CASE b = c
    BY <1>1, <2>1 DEF CallOK
  <2>2. CASE b # c
    BY <1>1, <2>2 DEF CallOK, ApiInv
  <2> QED BY <2>1, <2>2
<1>3. ASSUME NEW b \in Calls, call'[b].answer.code = 201 PROVE Stands(call[b].answer)'
  <2>1. CASE b = c
    BY <1>1, <1>3, <2>1
  <2>2. CASE b # c
    <3>1. call'[b] = call[b]
      BY <1>1, <2>2
    <3>2. Stands(call[b].answer)
      BY <1>3, <3>1 DEF ApiInv
    <3>3. PICK x : x = call[b].answer
      OBVIOUS
    <3>4. Stands(x)'
      BY <3>2, <3>3
    <3> QED BY <3>1, <3>3, <3>4 DEF Stands
  <2> QED BY <2>1, <2>2
<1>4. call' = [b \in Calls |-> call'[b]]
  BY <1>1
<1> QED BY <1>2, <1>3, <1>4 DEF ApiInv

(* The same for a call that is answered, and for rows left alone.          *)
LEMMA Answering ==
    ASSUME ApiInv, NEW c \in Calls, NEW a, Answer(c, a), RowsTyped',
           \A b : Stands(b) => Stands(b)',
           a.code \in Codes, a.code = 201 => Stands(a)'
    PROVE  ApiInv'
<1>1. call' = [call EXCEPT ![c] = [at |-> "Answered", req |-> NoRequest, answer |-> a]]
  BY DEF Answer
<1>2. "Answered" \in CallStates /\ NoRequest \in CallRequests \cup {NoRequest}
  BY DEF CallStates
<1> QED BY <1>1, <1>2, OneCallMoves

LEMMA Waiting ==
    ASSUME ApiInv, NEW c \in Calls, NEW at \in CallStates, NEW q, Goto(c, at, q),
           RowsTyped', \A b : Stands(b) => Stands(b)',
           q \in CallRequests \/ q.op = "mirror",
           at = "Asking" => q.op = "submit" /\ q.job \in JobIds,
           at = "Querying" => Executable(q)
    PROVE  ApiInv'
<1>1. call' = [call EXCEPT ![c] = [at |-> at, req |-> q, answer |-> NoAnswer]]
  BY DEF Goto
<1>2. NoAnswer.code \in Codes /\ NoAnswer.code # 201
  BY DEF NoAnswer, Codes
<1> QED BY <1>1, <1>2, OneCallMoves

LEMMA RowsAlone ==
    ASSUME ApiInv, UNCHANGED rows
    PROVE  RowsTyped' /\ \A b : Stands(b) => Stands(b)'
BY DEF ApiInv, RowsTyped, Stands, Exists

LEMMA ArrivePreservesApiInv ==
    ASSUME ApiInv, NEW c \in Calls, NEW q \in CallRequests, Arrive(c, q)
    PROVE  ApiInv'
<1>2. RowsTyped' /\ \A b : Stands(b) => Stands(b)'
  BY RowsAlone DEF Arrive
<1>3. CASE Answer(c, [code |-> 400]) \/ Answer(c, [code |-> 200])
  <2>1. PICK a : Answer(c, a) /\ (a = [code |-> 400] \/ a = [code |-> 200])
    BY <1>3
  <2>2. a.code \in {200, 400}
    BY <2>1
  <2> QED BY <1>2, <2>1, <2>2, Answering DEF Codes
<1>4. CASE q.op = "submit" /\ Goto(c, "Asking", q)
  BY <1>2, <1>4, RequestFields, Waiting DEF CallStates
<1>5. CASE q.op = "health" /\ Goto(c, "Probing", q)
  BY <1>2, <1>5, Waiting DEF CallStates
<1>6. CASE /\ q.op \notin {"submit", "health", "healthz"} /\ Valid(q)
           /\ Goto(c, "Querying", q)
  BY <1>2, <1>6, RequestFields, Waiting DEF CallStates
<1> QED BY <1>3, <1>4, <1>5, <1>6 DEF Arrive

LEMMA HealthRepliesPreservesApiInv ==
    ASSUME ApiInv, NEW c \in Calls, NEW health \in Healths, HealthReplies(c, health)
    PROVE  ApiInv'
<1>1. RowsTyped' /\ \A b : Stands(b) => Stands(b)'
  BY RowsAlone DEF HealthReplies
<1>2. PICK a : /\ a = [code |-> 503] \/ a = [code |-> 200, health |-> health]
               /\ Answer(c, a)
  BY DEF HealthReplies
<1>3. a.code \in {200, 503}
  BY <1>2
<1> QED BY <1>1, <1>2, <1>3, Answering DEF Codes

LEMMA OracleRepliesPreservesApiInv ==
    ASSUME ApiInv, NEW c \in Calls, NEW reply \in Replies(call[c].req.job),
           OracleReplies(c, reply)
    PROVE  ApiInv'
<1>1. call[c].req.job \in JobIds
  BY DEF OracleReplies, ApiInv, CallOK
<1>2. RowsTyped' /\ \A b : Stands(b) => Stands(b)'
  BY RowsAlone DEF OracleReplies
<1>3. ASSUME NEW a, Answer(c, a), a.code \in {200, 500, 503} PROVE ApiInv'
  BY <1>2, <1>3, Answering DEF Codes
<1>4. CASE reply = Unreachable
  BY <1>3, <1>4 DEF OracleReplies
<1>5. CASE reply # Unreachable /\ ~MatchesSchema(reply)
  BY <1>3, <1>5 DEF OracleReplies
<1>6. CASE reply # Unreachable /\ MatchesSchema(reply)
  <2>1. CASE reply.outcome \in {"RELEASE", "REFUND"}
    <3>1. PICK q : q = [op |-> "mirror", job |-> call[c].req.job, reply |-> reply]
      OBVIOUS
    <3>2. reply.txSig \in Sigs \cup {Unset}
      BY <1>6, SettlementsAreTyped
    <3>3. q.op = "mirror" /\ Executable(q)
      BY <1>1, <2>1, <3>1, <3>2 DEF Executable
    <3>4. Goto(c, "Querying", q)
      BY <1>6, <2>1, <3>1 DEF OracleReplies
    <3> QED BY <1>2, <3>3, <3>4, Waiting DEF CallStates
  <2>2. CASE reply.outcome \notin {"RELEASE", "REFUND"}
    BY <1>3, <1>6, <2>2 DEF OracleReplies
  <2> QED BY <2>1, <2>2
<1> QED BY <1>4, <1>5, <1>6

(* What the handler answers about its statement.                           *)
LEMMA ResultHolds ==
    ASSUME ApiInv, NEW c \in Calls, call[c].at = "Querying",
           rows' = RowsAfter(c, call[c].req),
           NEW a, a = Result(c)
    PROVE  /\ a.code \in {200, 201, 404, 500}
           /\ a.code = 404 => rows' = rows
           /\ a.code = 201 => Stands(a)'
<1> DEFINE q == call[c].req
<1>1. Executable(q) /\ rows \in [JobIds -> Rows \cup {NoRow}]
  BY DEF ApiInv, CallOK, RowsTyped
<1>2. CASE q.op = "create" /\ Exists(q.job)
  <2>1. a = [code |-> 500]
    BY <1>2 DEF Result
  <2> QED BY <2>1
<1>3. CASE q.op = "create" /\ ~Exists(q.job)
  <2>1. PICK new : new = NewRow(c, q)
    OBVIOUS
  <2>2. new \in Rows /\ q.job \in JobIds
    BY <1>1, <1>3, <2>1, NewRowTyped DEF Executable
  <2>3. Insert(c, q) = [rows EXCEPT ![q.job] = new]
    BY <1>3, <2>1 DEF Insert
  <2>4. rows'[q.job] = new /\ Insert(c, q)[q.job] = new
    BY <1>1, <1>3, <2>2, <2>3 DEF RowsAfter
  <2>5. a = [code |-> 201, job |-> q.job, row |-> new]
    BY <1>3, <2>4 DEF Result
  <2>6. Stands(a)'
    BY <2>2, <2>4, <2>5, NoValueAssumption DEF Stands, Exists
  <2> QED BY <2>5, <2>6
<1>4. CASE q.op = "patch"
  <2>1. CASE ~Exists(q.job)
    <3>1. a = [code |-> 404] /\ rows' = rows
      BY <1>4, <2>1 DEF Result, RowsAfter, Update
    <3> QED BY <3>1
  <2>2. CASE Exists(q.job)
    <3>1. a = [code |-> 200, row |-> Update(q)[q.job]]
      BY <1>4, <2>2 DEF Result
    <3> QED BY <3>1
  <2> QED BY <2>1, <2>2
<1>5. CASE q.op = "mirror"
  <2>1. a = [code |-> 200, reply |-> q.reply]
    BY <1>5 DEF Result
  <2> QED BY <2>1
<1>6. CASE q.op = "get"
  <2>1. rows' = rows
    BY <1>6 DEF RowsAfter
  <2>2. a = [code |-> 404] \/ a = [code |-> 200, row |-> rows[q.job]]
    BY <1>6 DEF Result
  <2> QED BY <2>1, <2>2
<1>7. CASE q.op = "stats"
  <2>1. rows' = rows
    BY <1>7 DEF RowsAfter
  <2>2. a = [code |-> 500] \/ a = [code |-> 200, stats |-> Stats]
    BY <1>7 DEF Result
  <2> QED BY <2>1, <2>2
<1>8. CASE q.op = "list"
  <2>1. rows' = rows
    BY <1>8 DEF RowsAfter
  <2>2. a = [code |-> 200, jobs |-> Listed(q.status)]
    BY <1>8 DEF Result
  <2> QED BY <2>1, <2>2
<1> QED BY <1>1, <1>2, <1>3, <1>4, <1>5, <1>6, <1>7, <1>8 DEF Executable

LEMMA ExecutePreservesApiInv ==
    ASSUME ApiInv, NEW c \in Calls, Execute(c)
    PROVE  ApiInv'
<1>1. RowsTyped' /\ RowsKept(call[c].req)
  BY StatementKeepsRows DEF Execute, ApiInv, CallOK
<1>2. \A b : Stands(b) => Stands(b)'
  BY <1>1, StandsOn
<1>3. PICK a : a = Result(c)
  OBVIOUS
<1>4. a.code \in {200, 201, 404, 500} /\ (a.code = 201 => Stands(a)')
  BY <1>3, ResultHolds DEF Execute
<1> QED BY <1>1, <1>2, <1>3, <1>4, Answering DEF Execute, Codes

LEMMA DbBreaksPreservesApiInv ==
    ASSUME ApiInv, NEW c \in Calls, DbBreaks(c)
    PROVE  ApiInv'
<1>1. RowsTyped' /\ \A b : Stands(b) => Stands(b)'
  <2>1. CASE rows' = rows
    BY <2>1, RowsAlone
  <2>2. CASE rows' = RowsAfter(c, call[c].req)
    BY <2>2, StatementKeepsRows, StandsOn DEF DbBreaks, ApiInv, CallOK
  <2> QED BY <2>1, <2>2 DEF DbBreaks
<1>2. PICK a : a = [code |-> 500]
  OBVIOUS
<1> QED BY <1>1, <1>2, Answering DEF DbBreaks, Codes

LEMMA CrashPreservesApiInv ==
    ASSUME ApiInv, ApiCrash
    PROVE  ApiInv'
<1>1. PICK lost \in SUBSET {c \in Calls : call[c].at = "Answered"} :
         call' = [c \in Calls |-> IF c \in lost \/ call[c].at \in {"Asking", "Probing", "Querying"}
                                 THEN [IdleCall EXCEPT !.at = "Lost"] ELSE call[c]]
  BY DEF ApiCrash
<1>2. RowsTyped' /\ \A b : Stands(b) => Stands(b)'
  BY RowsAlone DEF ApiCrash
<1>3. [IdleCall EXCEPT !.at = "Lost"]
        = [at |-> "Lost", req |-> NoRequest, answer |-> NoAnswer]
  BY DEF IdleCall
<1>4. ASSUME NEW c \in Calls
      PROVE  \/ call'[c] = call[c]
             \/ call'[c] = [at |-> "Lost", req |-> NoRequest, answer |-> NoAnswer]
  BY <1>1, <1>3
<1>5. ASSUME NEW c \in Calls PROVE CallOK(c)'
  <2>1. CASE call'[c] = call[c]
    BY <2>1 DEF ApiInv, CallOK
  <2>2. CASE call'[c] = [at |-> "Lost", req |-> NoRequest, answer |-> NoAnswer]
    BY <2>2 DEF CallOK, CallStates, Codes, NoAnswer
  <2> QED BY <1>4, <2>1, <2>2
<1>6. ASSUME NEW c \in Calls, call'[c].answer.code = 201 PROVE Stands(call[c].answer)'
  <2>1. call'[c] = call[c]
    BY <1>4, <1>6 DEF NoAnswer
  <2>2. Stands(call[c].answer)
    BY <1>6, <2>1 DEF ApiInv
  <2> QED BY <2>1, <2>2 DEF Stands, Exists, ApiCrash
<1>7. call' = [c \in Calls |-> call'[c]]
  BY <1>1
<1> QED BY <1>2, <1>5, <1>6, <1>7 DEF ApiInv

LEMMA NextPreservesApiInv == ApiInv /\ [ApiNext]_apivars => ApiInv'
<1> SUFFICES ASSUME ApiInv, [ApiNext]_apivars PROVE ApiInv'
  OBVIOUS
<1>1. ASSUME NEW c \in Calls, NEW q \in Inbox, Arrive(c, q) PROVE ApiInv'
  BY <1>1, InboxAssumption, ArrivePreservesApiInv
<1>2. ASSUME NEW c \in Calls, ApiStep(c) PROVE ApiInv'
  BY <1>2, OracleRepliesPreservesApiInv, HealthRepliesPreservesApiInv,
     ExecutePreservesApiInv, DbBreaksPreservesApiInv DEF ApiStep
<1>3. CASE ApiCrash
  BY <1>3, CrashPreservesApiInv
<1>4. CASE UNCHANGED apivars
  BY <1>4 DEF ApiInv, CallOK, RowsTyped, Stands, Exists, apivars
<1> QED BY <1>1, <1>2, <1>3, <1>4 DEF ApiNext

-----------------------------------------------------------------------------
(* The inductive invariant holds in every reachable state.                 *)
THEOREM ApiInvariance == ApiSpec => []ApiInv
<1> QED BY InitEstablishesApiInv, NextPreservesApiInv, PTL DEF ApiSpec

(* Every variable keeps its type: only statuses of the enumeration are     *)
(* written, whatever callers and the oracle send.                          *)
THEOREM ApiTypes == ApiSpec => []ApiTypeOK
<1>1. ApiInv => ApiTypeOK
  BY DEF ApiInv, RowsTyped, CallOK, CallStates, Codes, ApiTypeOK
<1> QED BY <1>1, ApiInvariance, PTL

(* Whoever was told 201 finds its job under the id, for good.              *)
THEOREM CreationStands == ApiSpec => []CreatedIsRow
<1>1. ApiInv => CreatedIsRow
  BY DEF ApiInv, Stands, CreatedIsRow
<1> QED BY <1>1, ApiInvariance, PTL

(* A row changes only by the statement of a call for it that is not told   *)
(* it was refused.                                                         *)
THEOREM RefusalIsHarmless == ApiSpec => RefusedChangesNothing
<1>1. ApiInv /\ [ApiNext]_apivars =>
        [ rows' # rows =>
            \E c \in Calls : /\ call[c].at = "Querying" /\ call'[c].at # "Querying"
                             /\ call'[c].answer.code \notin {400, 404, 503}
                             /\ \A j \in JobIds : rows'[j] # rows[j] => j = call[c].req.job
        ]_apivars
  <2> SUFFICES ASSUME ApiInv, ApiNext, rows' # rows
               PROVE  \E c \in Calls :
                         /\ call[c].at = "Querying" /\ call'[c].at # "Querying"
                         /\ call'[c].answer.code \notin {400, 404, 503}
                         /\ \A j \in JobIds : rows'[j] # rows[j] => j = call[c].req.job
    BY DEF apivars
  <2>1. PICK c \in Calls : Execute(c) \/ DbBreaks(c)
    BY DEF ApiNext, ApiStep, Arrive, OracleReplies, HealthReplies, ApiCrash
  <2>2. call[c].at = "Querying" /\ rows' = RowsAfter(c, call[c].req)
    BY <2>1 DEF Execute, DbBreaks
  <2>3. RowsKept(call[c].req)
    BY <2>2, StatementKeepsRows DEF ApiInv, CallOK
  <2>4. PICK a : Answer(c, a) /\ a.code \notin {400, 404, 503}
    <3>1. CASE Execute(c)
      <4>1. PICK a : a = Result(c)
        OBVIOUS
      <4>2. a.code \in {200, 201, 404, 500} /\ (a.code = 404 => rows' = rows)
        BY <2>2, <4>1, ResultHolds
      <4> QED BY <3>1, <4>1, <4>2 DEF Execute
    <3>2. CASE DbBreaks(c)
      <4>1. PICK a : a = [code |-> 500]
        OBVIOUS
      <4> QED BY <3>2, <4>1 DEF DbBreaks
    <3> QED BY <2>1, <3>1, <3>2
  <2>5. call'[c].at = "Answered" /\ call'[c].answer = a
    BY <2>4 DEF Answer, ApiInv
  <2> QED BY <2>2, <2>3, <2>4, <2>5 DEF RowsKept
<1> QED BY <1>1, ApiInvariance, PTL DEF ApiSpec, RefusedChangesNothing

-----------------------------------------------------------------------------
(* The refinement: a statement enters an id, amends an entry or is not     *)
(* seen, and nothing but a statement touches the rows.                     *)
LEMMA StatementRefines ==
    ASSUME RowsTyped, NEW c \in Calls, NEW q, Executable(q), rows' = RowsAfter(c, q)
    PROVE  Table!Next \/ UNCHANGED Entries
<1>1. CASE rows' = rows
  BY <1>1 DEF Entries, Exists
<1>2. ASSUME NEW new \in Rows, q.job \in JobIds, rows' = [rows EXCEPT ![q.job] = new],
             Inserted(c, q, new) \/ Updated(q, new)
      PROVE  Table!Next
  <2> DEFINE j == q.job
  <2>1. Entries' = [Entries EXCEPT ![j] = {Entry(new)}]
    <3>1. rows' = [i \in JobIds |-> IF i = j THEN new ELSE rows[i]]
      BY <1>2 DEF RowsTyped
    <3> QED BY <1>2, <3>1, NoValueAssumption DEF Entries, Exists
  <2>2. CASE Inserted(c, q, new)
    <3>1. j \in JobIds \ LongIds /\ Entries[j] = {} /\ q.terms \in Terms
      BY <1>2, <2>2 DEF Inserted, NewRow, Entries, Rows
    <3>2. Entry(new) = [terms |-> q.terms, by |-> c, status |-> "pending", proof |-> {}]
      BY <2>2 DEF Inserted, NewRow, Entry
    <3>3. Table!Enter(j, q.terms, c)
      BY <2>1, <3>1, <3>2 DEF Table!Enter
    <3> QED BY <3>1, <3>3 DEF Table!Next
  <2>3. CASE Updated(q, new)
    <3>1. PICK old \in Rows : old = rows[j]
      BY <1>2, <2>3 DEF RowsTyped, Updated, Exists
    <3>2. Entries[j] = {Entry(old)}
      BY <1>2, <2>3, <3>1 DEF Updated, Entries
    <3>3. /\ new.status \in Statuses
          /\ Entry(new).proof \in {{}} \cup {{p} : p \in Sigs}
      BY DEF Rows, Entry
    <3>4. Entry(new) = [terms |-> Entry(old).terms, by |-> Entry(old).by,
                        status |-> new.status, proof |-> Entry(new).proof]
      BY <2>3, <3>1 DEF Updated, Entry
    <3>5. Table!Becomes(j, Entry(old), new.status, Entry(new).proof)
      BY <2>1, <3>4 DEF Table!Becomes
    <3>6. CASE new.status = "pending"
      <4>1. Entry(old).proof # {} => Entry(new).proof # {}
        BY <2>3, <3>1, <3>6, NoValueAssumption DEF Updated, Entry, Rows
      <4>2. Table!Amend(j, new.status, Entry(new).proof)
        BY <3>2, <3>5, <4>1 DEF Table!Amend
      <4> QED BY <1>2, <3>3, <4>2 DEF Table!Next
    <3>7. CASE new.status # "pending"
      <4>1. Table!Settle(j, new.status, Entry(new).proof)
        BY <3>2, <3>5, <3>7 DEF Table!Settle
      <4> QED BY <1>2, <3>3, <4>1 DEF Table!Next
    <3> QED BY <3>6, <3>7
  <2> QED BY <1>2, <2>2, <2>3
<1> QED BY <1>1, <1>2, StatementEffect

(* The handlers, however many run at once and wherever they break, keep    *)
(* what JobsTable promises: an id that fits is entered once, with terms    *)
(* and author for good, and of a job that is pending a recorded signature  *)
(* is never taken away.                                                    *)
THEOREM RowsAreJobsTable == ApiSpec => ImplementsJobsTable
<1>1. ApiInit => Table!Init
  BY DEF ApiInit, Table!Init, Entries, Exists
<1>2. ApiInv /\ [ApiNext]_apivars => [Table!Next]_Entries
  <2> SUFFICES ASSUME ApiInv, [ApiNext]_apivars PROVE [Table!Next]_Entries
    OBVIOUS
  <2>1. ASSUME NEW c \in Calls, Execute(c) \/ DbBreaks(c) PROVE [Table!Next]_Entries
    <3>1. RowsTyped /\ Executable(call[c].req)
      BY <2>1 DEF Execute, DbBreaks, ApiInv, CallOK
    <3>2. rows' = RowsAfter(c, call[c].req) \/ rows' = rows
      BY <2>1 DEF Execute, DbBreaks
    <3>3. rows' = rows => UNCHANGED Entries
      BY DEF Entries, Exists
    <3> QED BY <3>1, <3>2, <3>3, StatementRefines
  <2>2. CASE UNCHANGED rows
    BY <2>2 DEF Entries, Exists
  <2> QED BY <2>1, <2>2
          DEF ApiNext, ApiStep, Arrive, OracleReplies, HealthReplies, ApiCrash, apivars
<1> QED BY <1>1, <1>2, ApiInvariance, PTL DEF ApiSpec, ImplementsJobsTable, Table!Spec

-----------------------------------------------------------------------------
(* What a page may rely on at its end of a call, whatever happens to the   *)
(* others.  First, a step of one call is no step of another.               *)
Functional == call = [c \in Calls |-> call[c]]

LEMMA OthersWait ==
    ASSUME Functional, NEW c \in Calls,
           ApiStep(c) \/ (\E q : Arrive(c, q)) \/ Release(c)
    PROVE  /\ Functional'
           /\ \A d \in Calls \ {c} : call'[d] = call[d]
<1>1. \E r : call' = [call EXCEPT ![c] = r]
  <2>1. ASSUME NEW a, Answer(c, a) PROVE <1>1
    BY <2>1 DEF Answer
  <2>2. ASSUME NEW at, NEW q, Goto(c, at, q) PROVE <1>1
    BY <2>2 DEF Goto
  <2>3. ASSUME NEW q, Arrive(c, q) PROVE <1>1
    BY <2>1, <2>2, <2>3, ZenonT(60) DEF Arrive
  <2>4. ASSUME NEW reply, OracleReplies(c, reply) PROVE <1>1
    <3>1. (\E a : Answer(c, a)) \/ (\E q : Goto(c, "Querying", q))
      BY <2>4, ZenonT(60) DEF OracleReplies
    <3> QED BY <2>1, <2>2, <3>1
  <2>5. CASE Release(c)
    BY <2>5 DEF Release
  <2>6. ASSUME NEW health, HealthReplies(c, health) PROVE <1>1
    BY <2>1, <2>6 DEF HealthReplies
  <2>7. CASE Execute(c)
    BY <2>1, <2>7 DEF Execute
  <2>8. CASE DbBreaks(c)
    BY <2>1, <2>8 DEF DbBreaks
  <2> QED BY <2>3, <2>4, <2>5, <2>6, <2>7, <2>8 DEF ApiStep
<1> QED BY <1>1 DEF Functional

(* The process takes a call with it, or leaves it as it is.                *)
LEMMA CrashLoses ==
    ASSUME Functional, ApiCrash
    PROVE  /\ Functional' /\ UNCHANGED rows
           /\ \A c \in Calls : call'[c] = call[c] \/ call'[c].at = "Lost"
<1>1. PICK lost : call' = [c \in Calls |-> IF c \in lost \/ call[c].at \in {"Asking", "Probing", "Querying"}
                                  THEN [IdleCall EXCEPT !.at = "Lost"] ELSE call[c]]
  BY DEF ApiCrash
<1>2. [IdleCall EXCEPT !.at = "Lost"].at = "Lost"
  BY DEF IdleCall
<1> QED BY <1>1, <1>2 DEF Functional, ApiCrash

(* What no statement changes: the terms, the author and the place of a row *)
(* that exists.                                                            *)
RowsLast ==
    \A j \in JobIds : Exists(j) =>
        /\ Exists(j)' /\ rows'[j].terms = rows[j].terms /\ rows'[j].by = rows[j].by
        /\ rows'[j].createdAt = rows[j].createdAt

LEMMA UnchangedRowsLast == UNCHANGED rows => RowsLast
BY DEF RowsLast, Exists

LEMMA StepsKeepRows ==
    ASSUME ApiInv, NEW c \in Calls,
           ApiStep(c) \/ (\E q : Arrive(c, q)) \/ Release(c)
    PROVE  RowsLast
<1>1. ASSUME Executable(call[c].req), rows' = RowsAfter(c, call[c].req) PROVE RowsLast
  BY <1>1, StatementKeepsRows DEF RowsKept, RowsLast, ApiInv
<1>2. CASE Execute(c) \/ DbBreaks(c)
  BY <1>1, <1>2, UnchangedRowsLast DEF Execute, DbBreaks, ApiInv, CallOK
<1>3. CASE UNCHANGED rows
  BY <1>3, UnchangedRowsLast
<1> QED BY <1>2, <1>3 DEF ApiStep, Arrive, Release, OracleReplies, HealthReplies

LEMMA ReleasePreservesApiInv ==
    ASSUME ApiInv, NEW c \in Calls, Release(c)
    PROVE  ApiInv' /\ call'[c] = IdleCall
<1>1. RowsTyped' /\ \A b : Stands(b) => Stands(b)'
  BY RowsAlone DEF Release
<1>2. call' = [call EXCEPT ![c] = [at |-> "Idle", req |-> NoRequest, answer |-> NoAnswer]]
  BY DEF Release, IdleCall
<1>3. NoAnswer.code \in Codes /\ NoAnswer.code # 201 /\ "Idle" \in CallStates
  BY DEF NoAnswer, Codes, CallStates
<1>4. ApiInv'
  BY <1>1, <1>2, <1>3, OneCallMoves
<1> QED BY <1>4 DEF Release, ApiInv

(* A request that reads, and is valid, waits for its statement.            *)
LEMMA ReadArrives ==
    ASSUME Functional, NEW c \in Calls, NEW q, q.op \in {"get", "list", "stats"}, Arrive(c, q)
    PROVE  UNCHANGED rows
           /\ call'[c] = [at |-> "Querying", req |-> q, answer |-> NoAnswer]
<1>1. Goto(c, "Querying", q) /\ UNCHANGED rows
  BY DEF Arrive, Valid
<1> QED BY <1>1 DEF Goto, Functional

(* A statement that is under way ends, with its result or a broken         *)
(* connection.                                                             *)
LEMMA StatementEnds ==
    ASSUME ApiInv, NEW c \in Calls, ApiStep(c), call[c].at = "Querying"
    PROVE  /\ call'[c].at = "Answered"
           /\ rows' = rows \/ rows' = RowsAfter(c, call[c].req)
           /\ \/ call'[c].answer.code = 500
              \/ call'[c].answer = Result(c) /\ rows' = RowsAfter(c, call[c].req)
<1>1. Execute(c) \/ DbBreaks(c)
  BY DEF ApiStep, OracleReplies, HealthReplies
<1>2. CASE Execute(c)
  <2>1. call'[c] = [at |-> "Answered", req |-> NoRequest, answer |-> Result(c)]
    BY <1>2 DEF Execute, Answer, ApiInv
  <2> QED BY <1>2, <2>1 DEF Execute
<1>3. CASE DbBreaks(c)
  <2>1. call'[c] = [at |-> "Answered", req |-> NoRequest, answer |-> [code |-> 500]]
    BY <1>3 DEF DbBreaks, Answer, ApiInv
  <2> QED BY <1>3, <2>1 DEF DbBreaks
<1> QED BY <1>1, <1>2, <1>3

(* Only an answer with a success status does not fail at the page.         *)
LEMMA SuccessStatus ==
    ASSUME ApiInv, NEW c \in Calls, Over(c), ~Fails(c)
    PROVE  call[c].at = "Answered" /\ call[c].answer.code \in {200, 201}
<1>1. call[c].at = "Answered" /\ call[c].answer.code \in Codes
  BY DEF Over, Fails, ApiInv, CallOK
<1>2. PICK code \in Codes : code = call[c].answer.code
  BY <1>1
<1>3. Wire(call[c].answer).status = code
  BY <1>2 DEF Wire
<1>4. CASE ~Ok(Wire(call[c].answer))
  <2>1. PICK d : d = ParseErrorBody(Wire(call[c].answer), "GET")
    OBVIOUS
  <2>2. customFetch(Wire(call[c].answer), "GET", "auto") = [throws |-> "ApiError", data |-> d]
    BY <1>4, <2>1 DEF customFetch, ApiError
  <2> QED BY <2>2 DEF Fails, Throws
<1>5. CASE Ok(Wire(call[c].answer))
  BY <1>1, <1>2, <1>3, <1>5 DEF Ok, Codes
<1> QED BY <1>4, <1>5

(* What customFetch makes of a response: an error status is thrown with    *)
(* what its body says, a success is given or thrown by what it holds.      *)
LEMMA BodyOfError ==
    ASSUME NEW r \in Responses, NEW m \in Methods
    PROVE  LET d == ParseErrorBody(r, m)
           IN  /\ ~Throws(d)
               /\ r.media = "json" /\ ~HasNoBody(r, m) /\ ~IsBlank(r.body) /\ IsJson(r.body)
                     => d = Value(r.body)
BY DEF ParseErrorBody, Throws, Null, Blob, Value, Raw

LEMMA BodyOfSuccess ==
    ASSUME NEW r \in Responses, NEW m \in Methods, NEW t \in ResponseTypes
    PROVE  LET d == ParseSuccessBody(r, m, t)
               asJson == t = "json" \/ (t = "auto" /\ r.media = "json")
               empty == HasNoBody(r, m) \/ IsBlank(r.body)
           IN  /\ Throws(d) <=> asJson /\ ~empty /\ ~IsJson(r.body)
               /\ asJson /\ ~empty /\ IsJson(r.body) => d = Value(r.body)
<1> DEFINE d == ParseSuccessBody(r, m, t)
<1>1. CASE HasNoBody(r, m)
  BY <1>1 DEF ParseSuccessBody, Null, Throws
<1>2. ASSUME ~HasNoBody(r, m), t = "json" \/ (t = "auto" /\ r.media = "json")
      PROVE  d = ParseJsonBody(r)
  BY <1>2 DEF ParseSuccessBody, InferResponseType
<1>3. ASSUME ~HasNoBody(r, m), ~(t = "json" \/ (t = "auto" /\ r.media = "json"))
      PROVE  d = Null \/ d = Raw(r.body) \/ d = Blob(r.body)
  <2>1. t = "auto" => InferResponseType(r) \in {"text", "blob"}
    BY <1>3 DEF InferResponseType, Responses, MediaTypes
  <2> QED BY <1>3, <2>1 DEF ParseSuccessBody, ResponseTypes
<1>4. Throws(ParseJsonBody(r)) <=> ~IsBlank(r.body) /\ ~IsJson(r.body)
  BY DEF ParseJsonBody, Throws, Null, Value, ResponseParseError
<1>5. ~IsBlank(r.body) /\ IsJson(r.body) => ParseJsonBody(r) = Value(r.body)
  BY DEF ParseJsonBody
<1>6. ~Throws(Null) /\ ~Throws(Raw(r.body)) /\ ~Throws(Blob(r.body))
  BY DEF Throws, Null, Raw, Blob
<1> HIDE DEF d
<1>7. CASE ~HasNoBody(r, m) /\ (t = "json" \/ (t = "auto" /\ r.media = "json"))
  BY <1>2, <1>4, <1>5, <1>7 DEF d
<1>8. CASE ~HasNoBody(r, m) /\ ~(t = "json" \/ (t = "auto" /\ r.media = "json"))
  BY <1>3, <1>6, <1>8 DEF d
<1> QED BY <1>1, <1>7, <1>8

(* Whatever a proxy on the way makes of an answer, and whatever a caller   *)
(* asks for, the clients understand the one and send the other             *)
(* (FetchContract): a finite matter, and of no behaviour.                  *)
THEOREM ClientsKeepContract == ApiSpec => []FetchContract
<1>1. Misunderstood = {}
  <2> SUFFICES ASSUME NEW r \in Responses, NEW m \in Methods, NEW t \in ResponseTypes
               PROVE  Understood(r, m, t)
    BY DEF Misunderstood
  <2>1. CASE Ok(r)
    BY <2>1, BodyOfSuccess DEF Understood, customFetch
  <2>2. CASE ~Ok(r)
    <3>1. PICK d : d = ParseErrorBody(r, m)
      OBVIOUS
    <3>2. customFetch(r, m, t) = [throws |-> "ApiError", data |-> d]
      BY <2>2, <3>1 DEF customFetch, ApiError
    <3> QED BY <2>2, <3>1, <3>2, BodyOfError DEF Understood, Throws
  <2> QED BY <2>1, <2>2
<1>2. Disobeyed = {}
  <2> SUFFICES ASSUME NEW q \in Asks PROVE Obeyed(q)
    BY DEF Disobeyed
  <2>1. CASE q.body # "NoBody" /\ ResolveMethod(q) \in {"GET", "HEAD"}
    <3>1. Throws(Sent(q))
      BY <2>1 DEF Sent, Throws
    <3>2. q.method \in {"GET", "HEAD", "none"}
      BY <2>1 DEF ResolveMethod, Asks, Methods
    <3> QED BY <2>1, <3>1, <3>2 DEF Obeyed
  <2>2. CASE ~(q.body # "NoBody" /\ ResolveMethod(q) \in {"GET", "HEAD"})
    <3> DEFINE own == IF q.input = "Request" THEN q.own ELSE {}
               given == MergeHeaders(q)
    <3>1. /\ DOMAIN given = q.headers \cup own
          /\ \A h \in q.headers : given[h] = "caller"
          /\ \A h \in own \ q.headers : given[h] = "Request"
      BY DEF MergeHeaders
    <3>2. /\ DOMAIN SentHeaders(q) = DOMAIN given \cup Defaults(q)
          /\ \A h \in DOMAIN given : SentHeaders(q)[h] = given[h]
      BY DEF SentHeaders
    <3>3. /\ q.token = "Token" => "authorization" \in Defaults(q)
          /\ q.body = "Object" => "content-type" \in Defaults(q)
      BY DEF Defaults, HeaderNames, LooksLikeJson
    <3>4. PICK s, h, u, m, b :
             /\ s = Sent(q) /\ s = [url |-> u, method |-> m, headers |-> h, body |-> b]
             /\ h = SentHeaders(q) /\ m = ResolveMethod(q) /\ b = q.body
      BY <2>2 DEF Sent
    <3>5. /\ ~Throws(s) /\ s.headers = SentHeaders(q)
          /\ s.method = ResolveMethod(q) /\ s.body = q.body
      BY <3>4 DEF Throws
    <3>6. ResolveMethod(q) \in Methods
      BY DEF ResolveMethod, Asks, Methods
    <3> HIDE DEF given
    <3> QED BY <2>2, <3>1, <3>2, <3>3, <3>4, <3>5, <3>6 DEF Obeyed, Methods
  <2> QED BY <2>1, <2>2
<1>3. OracleMisreported = {}
  <2> SUFFICES ASSUME NEW r \in Responses, ~Ok(r), r.body # "NullLiteral"
               PROVE  OracleRequest(r) = OracleError(r.status)
    BY DEF OracleMisreported
  <2> QED BY DEF OracleRequest
<1>4. FetchContract
  BY <1>1, <1>2, <1>3 DEF FetchContract
<1> QED BY <1>4, PTL

-----------------------------------------------------------------------------
(* The counts and the sum of GET /stats.                                   *)

(* Every row is in one group: the total counts them all.                   *)
LEMMA StatsCountRows ==
    ASSUME RowsTyped
    PROVE  Stats.total = Cardinality(Existing) /\ Stats.total \in Nat
<1> DEFINE P == Group("pending")  C == Group("completed")  X == Group("cancelled")
<1>1. IsFiniteSet(Existing)
  BY ApiAssumption, FS_Subset DEF Existing
<1>2. IsFiniteSet(P) /\ IsFiniteSet(C) /\ IsFiniteSet(X)
  BY <1>1, FS_Subset DEF Group
<1>3. Existing = (P \cup C) \cup X
  <2>1. \A j \in Existing : rows[j].status \in Statuses
    BY DEF RowsTyped, Existing, Exists, Rows
  <2> QED BY <2>1 DEF Group, Statuses
<1>4. P \cap C = {} /\ (P \cup C) \cap X = {}
  BY DEF Group
<1> HIDE DEF P, C, X
<1>5. /\ Cardinality(P) \in Nat /\ Cardinality(C) \in Nat /\ Cardinality(X) \in Nat
      /\ Cardinality({}) = 0
  BY <1>2, FS_CardinalityType, FS_EmptySet
<1>6. Cardinality(P \cup C) = Cardinality(P) + Cardinality(C) - Cardinality(P \cap C)
      /\ IsFiniteSet(P \cup C)
  BY <1>2, FS_Union
<1>7. Cardinality(Existing) = Cardinality(P \cup C) + Cardinality(X)
                              - Cardinality((P \cup C) \cap X)
  BY <1>2, <1>3, <1>6, FS_Union
<1>8. Stats.total = Cardinality(P) + Cardinality(C) + Cardinality(X)
  BY DEF Stats, P, C, X
<1>9. Cardinality(P \cap C) = 0 /\ Cardinality((P \cup C) \cap X) = 0
  BY <1>4, <1>5, Zenon
<1> QED BY <1>5, <1>6, <1>7, <1>8, <1>9

(* The amounts of the pending group add up to what all rows add, where a   *)
(* row that is not pending counts for nothing.                             *)
LEMMA StatsAddPending ==
    ASSUME RowsTyped
    PROVE  Escrowed = SumFunction([j \in Existing |->
              IF rows[j].status = "pending" THEN rows[j].terms.amount ELSE 0])
<1> DEFINE f == [j \in Existing |->
                   IF rows[j].status = "pending" THEN rows[j].terms.amount ELSE 0]
           P == Group("pending")
           g == [j \in P |-> rows[j].terms.amount]
<1>1. IsFiniteSet(Existing) /\ P \subseteq Existing /\ IsFiniteSet(P)
  BY ApiAssumption, FS_Subset DEF Existing, Group
<1>2. \A j \in Existing : f[j] \in Int
  <2>1. \A j \in Existing : rows[j].terms \in Terms
    BY DEF RowsTyped, Existing, Exists, Rows
  <2>2. Amounts \subseteq Int
    BY ApiAssumption
  <2>3. \A t \in Terms : t.amount \in Amounts
    BY DEF Terms
  <2>4. \A j \in Existing : rows[j].terms.amount \in Int
    BY <2>1, <2>2, <2>3
  <2> QED BY <2>4
<1>3. \A j \in Existing \ P : f[j] = 0
  BY DEF Group
<1>4. \A j \in P : f[j] = g[j]
  BY <1>1 DEF Group
<1>5. DOMAIN f = Existing /\ DOMAIN g = P
  OBVIOUS
<1> HIDE DEF f, g, P
<1>6. SumFunctionOnSet(f, Existing) = SumFunctionOnSet(f, P)
  BY <1>1, <1>2, <1>3, SumOfThose
<1>7. SumFunctionOnSet(f, P) = SumFunctionOnSet(g, P)
  BY <1>1, <1>4, SameSum
<1>8. Escrowed = SumFunction(g)
  <2>1. Escrowed = SumFunction([j \in Group("pending") |-> rows[j].terms.amount])
    BY DEF Escrowed, Total
  <2> QED BY <2>1 DEF g, P
<1>9. SumFunction(f) = SumFunctionOnSet(f, Existing)
      /\ SumFunction(g) = SumFunctionOnSet(g, P)
  BY <1>5 DEF SumFunction
<1>10. Escrowed = SumFunction(f)
  BY <1>6, <1>7, <1>8, <1>9
<1> QED BY <1>10 DEF f

(* Whoever asks for the statistics is told what the rows add up to, at the *)
(* moment of its statement, for any number of rows and amounts.            *)
THEOREM StatisticsAreTrue == ApiSpec => StatsTruthful
<1>1. ApiInv /\ [ApiNext]_apivars =>
        [ \A c \in Calls :
            call[c].req.op = "stats" /\ call[c].at = "Querying" /\ call'[c].at = "Answered" =>
               (call'[c].answer.code = 200 => StatsTrue(call'[c].answer.stats))
        ]_apivars
  <2> SUFFICES ASSUME ApiInv, ApiNext, NEW c \in Calls, call[c].req.op = "stats",
                      call[c].at = "Querying", call'[c].at = "Answered",
                      call'[c].answer.code = 200
               PROVE  StatsTrue(call'[c].answer.stats)
    BY DEF apivars
  <2>1. ApiStep(c)
    <3>1. Functional
      BY DEF ApiInv, Functional
    <3>2. ~ApiCrash
      BY <3>1, CrashLoses
    <3>3. PICK d \in Calls : ApiStep(d) \/ \E q \in Inbox : Arrive(d, q)
      BY <3>2 DEF ApiNext
    <3>4. d = c
      BY <3>1, <3>3, OthersWait
    <3> QED BY <3>3, <3>4 DEF Arrive
  <2>2. call'[c].answer = Result(c)
    BY <2>1, StatementEnds
  <2>3. Result(c) = IF Casts THEN [code |-> 200, stats |-> Stats] ELSE [code |-> 500]
    BY DEF Result
  <2>4. Casts /\ call'[c].answer.stats = Stats
    BY <2>2, <2>3
  <2>5. RowsTyped
    BY DEF ApiInv
  <2>6. Stats.total = Cardinality(Existing) /\ Stats.totalEscrowedLamports = Escrowed
        /\ Stats.total = Stats.pending + Stats.completed + Stats.cancelled
    BY <2>5, StatsCountRows DEF Stats
  <2> QED BY <2>4, <2>5, <2>6, StatsAddPending DEF StatsTrue, Casts
<1> QED BY <1>1, ApiInvariance, PTL DEF ApiSpec, StatsTruthful
=============================================================================
