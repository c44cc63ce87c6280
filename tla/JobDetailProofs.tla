--------------------------- MODULE JobDetailProofs --------------------------
(***************************************************************************)
(* Proofs about JobDetail: for any number of calls of other tabs, of       *)
(* restarts and of lost answers, what the page shows of the parties and    *)
(* the amount is the row's, and it never goes behind a settlement it saw.  *)
(*                                                                         *)
(* The page keeps an old copy, and its calls are under way while the row   *)
(* changes.  The inductive invariant follows the page's query from its     *)
(* request to its answer: what the answer says of the row is of what no    *)
(* statement changes, and is no older than the copy.                       *)
(***************************************************************************)
EXTENDS JobDetail, ApiServerProofs

(* The row of the page's job has the terms and the author of this copy,    *)
(* and is settled if the copy is.                                          *)
Kept(row) ==
    /\ row \in Rows /\ Exists(jobId)
    /\ rows[jobId].terms = row.terms /\ rows[jobId].by = row.by
    /\ Settled(row) => Settled(rows[jobId])

(* The page waits for three calls at most, none of them twice.             *)
Waits ==
    /\ fetching \in Calls \cup {NoCall}
    /\ page \in [updating : Calls \cup {NoCall}, submitting : Calls \cup {NoCall},
                 outcome : {page.outcome}, submitted : BOOLEAN]
    /\ fetching # NoCall => fetching \notin {page.updating, page.submitting}
    /\ page.updating # NoCall => page.updating # page.submitting

Fetches(k) ==
    /\ k.at \in {"Idle", "Querying", "Answered", "Lost"}
    /\ k.at = "Querying" => k.req.op = "get" /\ k.req.job = jobId
    /\ k.at = "Answered" => \/ k.answer.code \in {404, 500}
                            \/ /\ k.answer.code = 200 /\ Kept(k.answer.row)
                               /\ Settled(cache.data) => Settled(k.answer.row)

CacheKept ==
    /\ cache \in [data : Rows \cup {NoRow}, stale : BOOLEAN, error : BOOLEAN]
    /\ cache.data # NoRow => Kept(cache.data)

FetchFollowed == fetching # NoCall => Fetches(call[fetching])
(* No statement that is under way reopens a job.                           *)
NoneReopens == \A c \in Calls : call[c].at = "Querying" => ~Reopens(call[c].req)

(* The inductive invariant.                                                *)
DetailInv == ApiInv /\ NoneReopens /\ Waits /\ CacheKept /\ FetchFollowed

-----------------------------------------------------------------------------
LEMMA InitEstablishesDetailInv == DetailInit => DetailInv
<1> SUFFICES ASSUME DetailInit PROVE DetailInv
  OBVIOUS
<1>1. ApiInv
  BY InitEstablishesApiInv DEF DetailInit
<1>2. NoneReopens
  BY DEF DetailInit, ApiInit, IdleCall, NoneReopens
<1> QED BY <1>1, <1>2 DEF DetailInit, NewPage, DetailInv, Waits, CacheKept, FetchFollowed

-----------------------------------------------------------------------------
(* What the page relies on of the rows.                                    *)
JobLasts == RowsLast /\ (Settled(rows[jobId]) => Settled(rows'[jobId]))

LEMMA UnchangedJobLasts == UNCHANGED rows => JobLasts
BY UnchangedRowsLast DEF JobLasts, Settled

(* No step of a call takes a settlement back.                              *)
LEMMA StepsKeepJob ==
    ASSUME ApiInv, NoneReopens, NEW c \in Calls,
           ApiStep(c) \/ (\E q : Arrive(c, q)) \/ Release(c)
    PROVE  JobLasts
<1>1. RowsLast
  BY StepsKeepRows
<1>2. CASE UNCHANGED rows
  BY <1>2, UnchangedJobLasts
<1>3. ASSUME call[c].at = "Querying", rows' = RowsAfter(c, call[c].req),
             Settled(rows[jobId])
      PROVE  Settled(rows'[jobId])
  <2> DEFINE q == call[c].req
  <2>1. RowsTyped /\ Executable(q) /\ ~Reopens(q)
    BY <1>3 DEF ApiInv, CallOK, NoneReopens
  <2>2. CASE rows' = rows
    BY <1>3, <2>2
  <2>3. ASSUME NEW new \in Rows, rows' = [rows EXCEPT ![q.job] = new],
               Inserted(c, q, new) \/ Updated(q, new)
        PROVE  Settled(rows'[jobId])
    <3>1. CASE q.job # jobId
      BY <1>3, <2>3, <3>1
    <3>2. CASE q.job = jobId
      <4>1. Updated(q, new) /\ rows'[jobId] = new
        BY <1>3, <2>1, <2>3, <3>2, JobDetailAssumption
           DEF Inserted, Exists, Settled, RowsTyped
      <4> QED BY <1>3, <2>1, <2>3, <3>2, <4>1, NoValueAssumption DEF Updated, Settled
    <3> QED BY <3>1, <3>2
  <2>4. \/ rows' = rows
        \/ \E new \in Rows : /\ rows' = [rows EXCEPT ![q.job] = new]
                             /\ Inserted(c, q, new) \/ Updated(q, new)
    BY <1>3, <2>1, StatementEffect
  <2> QED BY <2>2, <2>3, <2>4
<1> QED BY <1>1, <1>2, <1>3
        DEF JobLasts, ApiStep, Execute, DbBreaks, OracleReplies, HealthReplies, Arrive, Release

(* Nothing of the row that the page relies on is ever taken back, and an   *)
(* answer to its query is as new as it was while the copy stays.           *)
LEMMA RecordLasts ==
    ASSUME JobLasts
    PROVE  /\ \A row : Kept(row) => Kept(row)'
           /\ cache'.data = cache.data => \A k : Fetches(k) => Fetches(k)'
<1>1. Exists(jobId) =>
        /\ Exists(jobId)' /\ rows'[jobId].terms = rows[jobId].terms
        /\ rows'[jobId].by = rows[jobId].by
        /\ Settled(rows[jobId]) => Settled(rows'[jobId])
  BY JobDetailAssumption DEF JobLasts, RowsLast
<1>2. ASSUME NEW row, Kept(row) PROVE Kept(row)'
  BY <1>1, <1>2 DEF Kept, Settled
<1>4. ASSUME NEW k, Fetches(k), cache'.data = cache.data PROVE Fetches(k)'
  BY <1>2, <1>4 DEF Fetches, Settled
<1> QED BY <1>2, <1>4

(* The answer to the query tells of the row as it is, after the copy.      *)
LEMMA FetchProceeds ==
    ASSUME ApiInv, CacheKept, UNCHANGED cache,
           NEW c \in Calls, Fetches(call[c]), ApiStep(c), NEW k, k = call'[c]
    PROVE  Fetches(k)'
<1>1. call[c].at = "Querying" /\ call[c].req.op = "get" /\ call[c].req.job = jobId
  BY DEF ApiStep, OracleReplies, HealthReplies, Execute, DbBreaks, Fetches
<1>2. rows' = rows
  BY <1>1, StatementEnds DEF RowsAfter
<1>3. k.at = "Answered" /\ (k.answer.code = 500 \/ k.answer = Result(c))
  BY <1>1, StatementEnds
<1>4. CASE k.answer.code = 500
  BY <1>3, <1>4 DEF Fetches
<1>5. CASE k.answer = Result(c)
  <2>1. CASE ~Exists(jobId)
    <3>1. k.answer = [code |-> 404]
      BY <1>1, <1>5, <2>1 DEF Result
    <3> QED BY <1>3, <3>1 DEF Fetches
  <2>2. CASE Exists(jobId)
    <3>1. PICK row : row = rows[jobId]
      OBVIOUS
    <3>2. k.answer = [code |-> 200, row |-> row]
      BY <1>1, <1>5, <2>2, <3>1 DEF Result
    <3>3. row \in Rows
      BY <2>2, <3>1, JobDetailAssumption DEF ApiInv, RowsTyped, Exists
    <3>4. Kept(row)'
      BY <1>2, <2>2, <3>1, <3>3 DEF Kept, Exists
    <3>5. Settled(cache.data)' => Settled(row)'
      BY <3>1 DEF CacheKept, Kept, Settled
    <3> QED BY <1>3, <3>2, <3>4, <3>5 DEF Fetches, Settled
  <2> QED BY <2>1, <2>2
<1> QED BY <1>3, <1>4, <1>5

-----------------------------------------------------------------------------
(* What a step leaves alone, or forgets, stays as it should be while the   *)
(* rows last.                                                              *)
LEMMA RestLasts ==
    ASSUME DetailInv, JobLasts,
           cache' \in [data : {cache.data}, stale : BOOLEAN, error : BOOLEAN]
    PROVE  /\ CacheKept'
           /\ fetching' = NoCall \/ (fetching' = fetching /\ call'[fetching] = call[fetching])
                 => FetchFollowed'
<1> USE DEF DetailInv
<1>1. CacheKept'
  <2>1. PICK data : data = cache.data
    OBVIOUS
  <2>2. data \in Rows \cup {NoRow} /\ (data # NoRow => Kept(data)')
    BY <2>1, RecordLasts DEF CacheKept
  <2>3. cache' \in [data : Rows \cup {NoRow}, stale : BOOLEAN, error : BOOLEAN]
        /\ cache'.data = data
    BY <2>1, <2>2
  <2> QED BY <2>2, <2>3 DEF CacheKept
<1>2. ASSUME fetching' = fetching, call'[fetching] = call[fetching], fetching # NoCall
      PROVE  Fetches(call[fetching])'
  <2>1. PICK k : k = call[fetching]
    OBVIOUS
  <2>2. Fetches(k)'
    BY <1>2, <2>1, RecordLasts DEF FetchFollowed
  <2> QED BY <1>2, <2>1, <2>2
<1> QED BY <1>1, <1>2 DEF FetchFollowed

(* A call that moves, and reopens nothing, leaves the rest as it is.       *)
LEMMA OtherCallsReopenNothing ==
    ASSUME NoneReopens, NEW c \in Calls, \A d \in Calls \ {c} : call'[d] = call[d],
           call'[c].at = "Querying" => ~Reopens(call'[c].req)
    PROVE  NoneReopens'
BY DEF NoneReopens, Reopens

LEMMA StepsReopenNothing ==
    ASSUME ApiInv, NoneReopens, NEW c \in Calls,
           ApiStep(c) \/ (\E q : ~Reopens(q) /\ Arrive(c, q)) \/ Release(c)
    PROVE  NoneReopens'
<1>1. Functional
  BY DEF ApiInv, Functional
<1>2. \A d \in Calls \ {c} : call'[d] = call[d]
  BY <1>1, OthersWait
<1>3. ASSUME NEW a, Answer(c, a) PROVE call'[c].at # "Querying"
  BY <1>1, <1>3 DEF Answer, Functional
<1>4. ASSUME NEW at, NEW q, Goto(c, at, q), ~Reopens(q) PROVE ~Reopens(call'[c].req)
  BY <1>1, <1>4 DEF Goto, Functional
<1>5. ASSUME NEW q, ~Reopens(q), Arrive(c, q)
      PROVE  call'[c].at = "Querying" => ~Reopens(call'[c].req)
  <2>1. (\E a : Answer(c, a)) \/ (\E at : Goto(c, at, q))
    BY <1>5, ZenonT(60) DEF Arrive
  <2> QED BY <1>3, <1>4, <1>5, <2>1
<1>6. ASSUME NEW reply, OracleReplies(c, reply)
      PROVE  call'[c].at = "Querying" => ~Reopens(call'[c].req)
  <2>1. PICK m : m = [op |-> "mirror", job |-> call[c].req.job, reply |-> reply]
    OBVIOUS
  <2>2. (\E a : Answer(c, a)) \/ Goto(c, "Querying", m)
    BY <1>6, <2>1, ZenonT(60) DEF OracleReplies
  <2>3. ~Reopens(m)
    BY <2>1 DEF Reopens
  <2> QED BY <1>3, <1>4, <2>2, <2>3
<1>7. CASE Execute(c) \/ DbBreaks(c) \/ \E health \in Healths : HealthReplies(c, health)
  <2>1. \E a : Answer(c, a)
    BY <1>7 DEF Execute, DbBreaks, HealthReplies
  <2> QED BY <1>2, <1>3, <2>1, OtherCallsReopenNothing
<1>8. CASE Release(c)
  <2>1. call'[c].at # "Querying"
    BY <1>1, <1>8 DEF Release, IdleCall, Functional
  <2> QED BY <1>2, <2>1, OtherCallsReopenNothing
<1> QED BY <1>2, <1>5, <1>6, <1>7, <1>8, OtherCallsReopenNothing DEF ApiStep

(* The server goes on with a call, another tab begins or ends one, or the  *)
(* process dies; the page does nothing.                                    *)
LEMMA CallsProceed ==
    ASSUME DetailInv, UNCHANGED clientvars, ApiInv', NoneReopens', JobLasts,
           \A d \in Calls \cap {fetching} :
              \/ call'[d] = call[d] \/ call'[d].at = "Lost"
              \/ ApiStep(d)
    PROVE  DetailInv'
<1> USE DEF DetailInv, clientvars
<1>0. cache' \in [data : {cache.data}, stale : BOOLEAN, error : BOOLEAN]
  BY DEF CacheKept
<1>1. CacheKept' /\ Waits'
  BY <1>0, RestLasts DEF Waits
<1>2. ASSUME fetching # NoCall PROVE Fetches(call[fetching])'
  <2>1. fetching \in Calls /\ Fetches(call[fetching])
    BY <1>2 DEF Waits, FetchFollowed
  <2>2. PICK k : k = call'[fetching]
    OBVIOUS
  <2>3. CASE k = call[fetching]
    BY <1>0, <1>2, <2>2, <2>3, RestLasts DEF FetchFollowed
  <2>4. CASE k.at = "Lost"
    BY <2>2, <2>4 DEF Fetches
  <2>5. CASE ApiStep(fetching)
    <3>1. Fetches(k)'
      BY <2>1, <2>2, <2>5, FetchProceeds
    <3> QED BY <2>2, <3>1
  <2> QED BY <2>1, <2>2, <2>3, <2>4, <2>5
<1> QED BY <1>1, <1>2 DEF FetchFollowed

LEMMA PageRequests ==
    /\ getJob(jobId) \in CallRequests
    /\ submitDeliverable(jobId) \in CallRequests
    /\ \A s \in Statuses : updateJob(jobId, s) \in CallRequests
    /\ ~Reopens(getJob(jobId)) /\ ~Reopens(submitDeliverable(jobId))
    /\ \A s \in {"completed", "cancelled"} : ~Reopens(updateJob(jobId, s))
BY JobDetailAssumption DEF getJob, submitDeliverable, updateJob, CallRequests, Reopens

(* The row that the page's query brings.                                   *)
LEMMA FetchedRow ==
    ASSUME DetailInv, NEW c \in Calls, FetchEnds(c), ~Fails(c)
    PROVE  /\ Kept(call[c].answer.row)
           /\ Settled(cache.data) => Settled(call[c].answer.row)
<1>1. call[c].at = "Answered" /\ call[c].answer.code \in {200, 201}
  BY SuccessStatus DEF FetchEnds, DetailInv
<1>2. Fetches(call[c])
  BY NoCallAssumption DEF FetchEnds, DetailInv, FetchFollowed
<1> QED BY <1>1, <1>2 DEF Fetches

LEMMA NextPreservesDetailInv == DetailInv /\ [DetailNext]_detailvars => DetailInv'
<1> SUFFICES ASSUME DetailInv, [DetailNext]_detailvars PROVE DetailInv'
  OBVIOUS
<1> USE DEF DetailInv
<1>f. Functional
  BY DEF ApiInv, Functional
<1>0. ASSUME UNCHANGED apivars PROVE ApiInv' /\ NoneReopens' /\ JobLasts
  BY <1>0, NextPreservesApiInv, UnchangedJobLasts DEF apivars, NoneReopens
<1>a. ASSUME cache' = [cache EXCEPT !.stale = TRUE] \/ cache' = [cache EXCEPT !.error = TRUE]
             \/ UNCHANGED cache \/ \E e \in BOOLEAN : cache' = [cache EXCEPT !.error = e]
      PROVE  cache' \in [data : {cache.data}, stale : BOOLEAN, error : BOOLEAN]
  BY <1>a DEF CacheKept
<1>1. CASE Mount \/ Ages
  BY <1>0, <1>1, <1>a, RestLasts DEF Mount, Ages, apivars, Waits
<1>2. CASE Unmount
  BY <1>0, <1>2, <1>a, RestLasts DEF Unmount, NewPage, apivars, Waits
<1>3. CASE SubmitAnother
  BY <1>0, <1>3, <1>a, RestLasts DEF SubmitAnother, apivars, Waits
<1>4. ASSUME NEW c \in Calls, NEW q \in CallRequests, ~Reopens(q), Send(c, q)
      PROVE  /\ ApiInv' /\ NoneReopens' /\ JobLasts
             /\ \A d \in Calls \cap Held : call'[d] = call[d]
  BY <1>4, <1>f, ArrivePreservesApiInv, StepsKeepJob, StepsReopenNothing, OthersWait DEF Send
<1>5. ASSUME NEW c \in Calls, Fetch(c) PROVE DetailInv'
  <2>1. ApiInv' /\ NoneReopens' /\ JobLasts
    BY <1>4, <1>5, PageRequests DEF Fetch
  <2>c. \E e \in BOOLEAN : cache' = [cache EXCEPT !.error = e]
    BY <1>5 DEF Fetch, CacheKept
  <2>2. Waits' /\ CacheKept'
    BY <1>5, <1>a, <2>1, <2>c, RestLasts, NoCallAssumption DEF Fetch, Send, Held, Waits
  <2>3. PICK k : k = call'[c]
    OBVIOUS
  <2>4. k = [at |-> "Querying", req |-> getJob(jobId), answer |-> NoAnswer]
    BY <1>5, <1>f, <2>3, ReadArrives DEF Fetch, Send, getJob
  <2>5. Fetches(k)'
    BY <2>4 DEF Fetches, getJob
  <2> QED BY <1>5, <2>1, <2>2, <2>3, <2>5 DEF Fetch, FetchFollowed
<1>6. ASSUME NEW c \in Calls, FetchAgain(c) PROVE DetailInv'
  <2>1. ApiInv' /\ NoneReopens' /\ JobLasts /\ c = fetching
    BY <1>6, <1>f, PageRequests, ArrivePreservesApiInv, StepsKeepJob, StepsReopenNothing
       DEF FetchAgain
  <2>2. Waits' /\ CacheKept'
    BY <1>6, <1>a, <2>1, RestLasts DEF FetchAgain, clientvars, Waits
  <2>3. PICK k : k = call'[c]
    OBVIOUS
  <2>4. k = [at |-> "Querying", req |-> getJob(jobId), answer |-> NoAnswer]
    BY <1>6, <1>f, <2>3, ReadArrives DEF FetchAgain, getJob
  <2>5. Fetches(k)'
    BY <2>4 DEF Fetches, getJob
  <2> QED BY <1>6, <2>1, <2>2, <2>3, <2>5 DEF FetchAgain, clientvars, FetchFollowed
<1>7. ASSUME NEW c \in Calls, Release(c)
      PROVE  /\ ApiInv' /\ NoneReopens' /\ JobLasts
             /\ call'[c] = IdleCall /\ UNCHANGED rows
             /\ \A d \in Calls \ {c} : call'[d] = call[d]
  BY <1>7, <1>f, ReleasePreservesApiInv, StepsKeepJob, StepsReopenNothing, OthersWait
     DEF Release
<1>8. ASSUME NEW c \in Calls, FetchEnds(c) PROVE DetailInv'
  <2>1. ApiInv' /\ NoneReopens' /\ JobLasts /\ call'[c] = IdleCall
    BY <1>7, <1>8 DEF FetchEnds
  <2>2. Waits'
    BY <1>8, NoCallAssumption DEF FetchEnds, Waits
  <2>3. FetchFollowed'
    <3>1. PICK k : k = IdleCall
      OBVIOUS
    <3>2. k.at = "Idle"
      BY <3>1 DEF IdleCall
    <3>3. Fetches(k)'
      BY <3>2 DEF Fetches
    <3> QED BY <1>8, <2>1, <3>1, <3>3 DEF FetchEnds, FetchFollowed
  <2>4. CacheKept'
    <3>1. CASE Fails(c)
      BY <1>8, <1>a, <2>1, <3>1, RestLasts DEF FetchEnds
    <3>2. CASE ~Fails(c)
      <4>1. PICK row : row = call[c].answer.row
        OBVIOUS
      <4>2. Kept(row)' /\ row \in Rows
        BY <1>8, <2>1, <3>2, <4>1, FetchedRow, RecordLasts DEF Kept
      <4>3. cache' = [data |-> row, stale |-> FALSE, error |-> FALSE]
        BY <1>8, <3>2, <4>1 DEF FetchEnds, Fetched
      <4> QED BY <4>2, <4>3 DEF CacheKept
    <3> QED BY <3>1, <3>2
  <2> QED BY <2>1, <2>2, <2>3, <2>4
<1>9. ASSUME NEW c \in Calls, NEW s \in {"completed", "cancelled"}, MarkJob(c, s)
      PROVE  DetailInv'
  <2>1. /\ ApiInv' /\ NoneReopens' /\ JobLasts
        /\ \A d \in Calls \cap Held : call'[d] = call[d]
    BY <1>4, <1>9, PageRequests DEF MarkJob, Statuses
  <2>2. Waits'
    BY <1>9, NoCallAssumption DEF MarkJob, Send, Held, Waits
  <2> QED BY <1>9, <1>a, <2>1, <2>2, RestLasts DEF MarkJob, Held, Waits
<1>10. ASSUME NEW c \in Calls, UpdateEnds(c) PROVE DetailInv'
  <2>1. /\ ApiInv' /\ NoneReopens' /\ JobLasts /\ c = page.updating
        /\ \A d \in Calls \ {c} : call'[d] = call[d]
    BY <1>7, <1>10 DEF UpdateEnds
  <2>2. Waits'
    BY <1>10, NoCallAssumption DEF UpdateEnds, Waits
  <2>3. UNCHANGED cache \/ cache' = [cache EXCEPT !.stale = TRUE]
    BY <1>10 DEF UpdateEnds, Invalidated
  <2> QED BY <1>10, <1>a, <2>1, <2>2, <2>3, RestLasts, NoCallAssumption DEF UpdateEnds, Waits
<1>11. ASSUME NEW c \in Calls, HandleSubmit(c) PROVE DetailInv'
  <2>1. /\ ApiInv' /\ NoneReopens' /\ JobLasts
        /\ \A d \in Calls \cap Held : call'[d] = call[d]
    BY <1>4, <1>11, PageRequests DEF HandleSubmit
  <2>2. Waits'
    BY <1>11, NoCallAssumption DEF HandleSubmit, Send, Held, Waits
  <2> QED BY <1>11, <1>a, <2>1, <2>2, RestLasts DEF HandleSubmit, Held, Waits
<1>12. ASSUME NEW c \in Calls, SubmitEnds(c) PROVE DetailInv'
  <2>1. /\ ApiInv' /\ NoneReopens' /\ JobLasts /\ c = page.submitting
        /\ \A d \in Calls \ {c} : call'[d] = call[d]
    BY <1>7, <1>12 DEF SubmitEnds
  <2>2. Waits'
    BY <1>12, NoCallAssumption DEF SubmitEnds, Waits
  <2>3. UNCHANGED cache \/ cache' = [cache EXCEPT !.stale = TRUE]
    BY <1>12 DEF SubmitEnds, Invalidated
  <2> QED BY <1>12, <1>a, <2>1, <2>2, <2>3, RestLasts, NoCallAssumption DEF SubmitEnds, Waits
<1>13. ASSUME NEW c \in Calls, Serve(c) PROVE DetailInv'
  <2>1. ApiInv' /\ NoneReopens' /\ JobLasts
    BY <1>13, NextPreservesApiInv, StepsKeepJob, StepsReopenNothing DEF Serve, ApiNext
  <2> QED BY <1>13, <1>f, <2>1, OthersWait, CallsProceed DEF Serve
<1>14. ASSUME NEW c \in Calls, OtherTabs(c, Held), UNCHANGED clientvars PROVE DetailInv'
  <2>1. CASE Release(c)
    BY <1>7, <1>14, <2>1, CallsProceed DEF OtherTabs, Held
  <2>2. ASSUME NEW q \in Inbox, Arrive(c, q) PROVE DetailInv'
    <3>1. q \in CallRequests /\ ~Reopens(q)
      BY InboxAssumption, UpdatesAssumption DEF Reopens
    <3>2. ApiInv' /\ NoneReopens' /\ JobLasts
      BY <2>2, <3>1, ArrivePreservesApiInv, StepsKeepJob, StepsReopenNothing
    <3>3. \A d \in Calls \ {c} : call'[d] = call[d]
      BY <1>f, <2>2, OthersWait
    <3> QED BY <1>14, <3>2, <3>3, CallsProceed DEF OtherTabs, Held
  <2> QED BY <1>14, <2>1, <2>2 DEF OtherTabs
<1>15. CASE ApiCrash /\ UNCHANGED clientvars
  <2>1. ApiInv' /\ JobLasts
    BY <1>15, <1>f, CrashPreservesApiInv, CrashLoses, UnchangedJobLasts
  <2>2. NoneReopens'
    BY <1>15, <1>f, CrashLoses DEF NoneReopens, Reopens
  <2> QED BY <1>15, <1>f, <2>1, <2>2, CrashLoses, CallsProceed
<1>16. CASE UNCHANGED detailvars
  <2>1. ApiInv' /\ NoneReopens' /\ JobLasts
    BY <1>0, <1>16 DEF detailvars, apivars
  <2> QED BY <1>16, <2>1, CallsProceed DEF detailvars, clientvars
<1> QED BY <1>1, <1>2, <1>3, <1>5, <1>6, <1>8, <1>9, <1>10, <1>11, <1>12, <1>13, <1>14,
           <1>15, <1>16 DEF DetailNext, User, Continue

-----------------------------------------------------------------------------
(* Whatever the page relies on holds always, for any number of calls.      *)
THEOREM DetailInvariance == DetailSpec => []DetailInv
<1> QED BY InitEstablishesDetailInv, NextPreservesDetailInv, PTL DEF DetailSpec

(* However old what the page shows is, the parties, the amount and the     *)
(* author are those of the row (ShownTermsHold).                           *)
THEOREM ShownTermsAreTheRows == DetailSpec => []ShownTermsHold
<1>1. DetailInv => ShownTermsHold
  <2> SUFFICES ASSUME DetailInv, "Details" \in Screen
               PROVE  /\ Exists(jobId) /\ EscrowDetails.terms = rows[jobId].terms
                      /\ cache.data.by = rows[jobId].by
    BY DEF ShownTermsHold
  <2>1. cache.data # NoRow
    BY DEF Screen, Shown
  <2> QED BY <2>1 DEF DetailInv, CacheKept, Kept, EscrowDetails
<1> QED BY <1>1, DetailInvariance, PTL

(* A page that has seen its job settled never takes it for pending again,  *)
(* whatever is aborted, retried, updated or lost (SettledStaysSettled).    *)
THEOREM SettledIsNotForgotten == DetailSpec => SettledStaysSettled
<1>1. DetailInv /\ [DetailNext]_detailvars =>
        [Settled(cache.data) => Settled(cache'.data)]_detailvars
  <2> SUFFICES ASSUME DetailInv, DetailNext, Settled(cache.data)
               PROVE  Settled(cache'.data)
    BY DEF detailvars
  <2>1. ASSUME cache'.data = cache.data PROVE Settled(cache'.data)
    BY <2>1
  <2>2. ASSUME NEW c \in Calls, FetchEnds(c) PROVE Settled(cache'.data)
    <3>1. CASE Fails(c)
      BY <2>1, <2>2, <3>1 DEF FetchEnds, DetailInv, CacheKept
    <3>2. CASE ~Fails(c)
      <4>1. cache'.data = call[c].answer.row
        BY <2>2, <3>2 DEF FetchEnds, Fetched
      <4> QED BY <2>2, <3>2, <4>1, FetchedRow
    <3> QED BY <3>1, <3>2
  <2>3. ASSUME NEW c \in Calls, UpdateEnds(c) \/ SubmitEnds(c) PROVE cache'.data = cache.data
    BY <2>3 DEF UpdateEnds, SubmitEnds, Invalidated, DetailInv, CacheKept
  <2>4. ASSUME NEW c \in Calls, Fetch(c) PROVE cache'.data = cache.data
    BY <2>4 DEF Fetch, DetailInv, CacheKept
  <2>5. CASE Ages
    BY <2>1, <2>5 DEF Ages, DetailInv, CacheKept
  <2>6. CASE UNCHANGED cache
    BY <2>1, <2>6
  <2> QED BY <2>1, <2>2, <2>3, <2>4, <2>5, <2>6
          DEF DetailNext, User, Continue, Serve, Mount, Unmount, MarkJob, HandleSubmit,
              SubmitAnother, FetchAgain, clientvars
<1> QED BY <1>1, DetailInvariance, PTL DEF DetailSpec, SettledStaysSettled
=============================================================================
