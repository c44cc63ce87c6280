----------------------------- MODULE PagesProofs ----------------------------
(***************************************************************************)
(* Proofs about Pages: for any jobs, tabs, statements of others, failed    *)
(* fetches and restarts, a tab shows its own jobs with their terms, and    *)
(* from a page that stays open nothing goes but a job for newer ones.      *)
(*                                                                         *)
(* What is cached is old, and an answer is older than the moment it is     *)
(* read.  The inductive invariant says what of both outlasts every         *)
(* statement, and that the answer to a query is no older than what is      *)
(* cached for it, since a query is fetched once at a time.                 *)
(***************************************************************************)
EXTENDS Pages, ApiServerProofs

(* What remains true of a listed job, and of a count.                      *)
Holds(entry) ==
    /\ entry.job \in JobIds /\ Exists(entry.job)
    /\ entry.row.terms = rows[entry.job].terms
    /\ entry.row.createdAt = rows[entry.job].createdAt

Good(q, d) ==
    /\ q.op = "list" => \A entry \in d : Holds(entry) /\ q.status \in {entry.row.status, Unset}
    /\ q.op = "stats" => d.total \in Nat /\ d.total <= Cardinality(Existing)

(* A later answer does not fall behind an earlier one.                     *)
Fresher(q, old, new) ==
    /\ q = listJobs(Unset) => {entry.job : entry \in old} \subseteq {entry.job : entry \in new}
    /\ q.op = "stats" => old.total <= new.total

CacheTyped ==
    /\ cache = [k \in Keys |-> cache[k]]
    /\ \A k \in Keys : /\ cache[k] = [data |-> cache[k].data, error |-> cache[k].error,
                                      attempt |-> cache[k].attempt]
                       /\ cache[k].data = {} \/ \E d : cache[k].data = {d}
                       /\ cache[k].error \in BOOLEAN
                       /\ cache[k].attempt \in {0, 1, 2}

CacheGood == \A q \in Queries : \A d \in Query(q).data : Good(q, d)

(* One query is under way, and the page that is shown observes it.         *)
OneAttempt ==
    \A q \in Queries : Query(q).attempt > 0 =>
        q \in Observed /\ \A r \in Queries : Query(r).attempt > 0 => r = q

(* The call k of a query, from its request to its answer.                  *)
Carries(k, q) ==
    /\ k.at \in {"Idle", "Probing", "Querying", "Answered", "Lost"}
    /\ k.at = "Probing" => q = getOracleHealth
    /\ k.at = "Querying" => k.req = q /\ q # getOracleHealth
    /\ k.at = "Answered" => \/ k.answer.code \in {500, 503}
                            \/ /\ k.answer.code = 200
                               /\ Good(q, Data(k.answer))
                               /\ \A old \in Query(q).data : Fresher(q, old, Data(k.answer))

AttemptCarried ==
    \A q \in Queries : Query(q).attempt > 0 => Carries(call[pageCall], q)

(* The inductive invariant.                                                *)
PagesInv ==
    /\ ApiInv
    /\ page \in PageNames /\ tab \in Tabs
    /\ CacheTyped
    /\ CacheGood
    /\ OneAttempt
    /\ AttemptCarried

-----------------------------------------------------------------------------
(* No two queries of the pages share what is cached.                       *)
LEMMA KeysDiffer ==
    ASSUME NEW q \in Queries, NEW r \in Queries, Key(q) = Key(r)
    PROVE  q = r
<1>1. ASSUME NEW p \in Queries
      PROVE  \/ \E s \in Tabs : p = listJobs(s) /\ Key(p) = getListJobsQueryKey(s)
             \/ p = getStats /\ Key(p) = <<"/api/stats">>
             \/ p = getOracleHealth /\ Key(p) = <<"oracle-health">>
  <2>1. ASSUME NEW s \in Tabs, p = listJobs(s) PROVE Key(p) = getListJobsQueryKey(s)
    BY <2>1 DEF Key, listJobs
  <2>2. p = getStats => Key(p) = <<"/api/stats">>
    BY DEF Key, getStats, getGetStatsQueryKey
  <2>3. p = getOracleHealth => Key(p) = <<"oracle-health">>
    BY DEF Key, getOracleHealth, OracleHealthKey
  <2> QED BY <1>1, <2>1, <2>2, <2>3 DEF Queries, Lists
<1>2. \A s \in Tabs : getListJobsQueryKey(s)[1] = "/api/jobs"
  BY DEF getListJobsQueryKey
<1>3. ASSUME NEW s \in Tabs, NEW t \in Tabs, getListJobsQueryKey(s) = getListJobsQueryKey(t)
      PROVE  s = t
  BY <1>3 DEF getListJobsQueryKey
<1>4. <<"/api/stats">>[1] = "/api/stats" /\ <<"oracle-health">>[1] = "oracle-health"
  OBVIOUS
<1> QED BY <1>1, <1>2, <1>3, <1>4

LEMMA QueryKinds ==
    ASSUME NEW q \in Queries
    PROVE  /\ Key(q) \in Keys
           /\ q \in CallRequests /\ q.op \in {"list", "stats", "health"}
           /\ q.op = "health" <=> q = getOracleHealth
           /\ q.op = "list" <=> q \in Lists
<1>1. CASE q \in Lists
  <2>1. PICK s \in Tabs : q = listJobs(s)
    BY <1>1 DEF Lists
  <2>2. q.op = "list" /\ q \in ListJobsQueryParams
    BY <2>1, PagesAssumption DEF listJobs, ListJobsQueryParams
  <2>3. q # getOracleHealth
    BY <2>2 DEF getOracleHealth
  <2> QED BY <1>1, <2>2, <2>3 DEF Keys, CallRequests
<1>2. CASE q = getStats \/ q = getOracleHealth
  <2>1. q \in CallRequests /\ q.op \in {"stats", "health"}
        /\ (q.op = "health" <=> q = getOracleHealth)
    BY <1>2 DEF getStats, getOracleHealth, CallRequests
  <2>2. \A r \in Lists : r.op = "list"
    BY DEF Lists, listJobs
  <2> QED BY <2>1, <2>2 DEF Keys
<1> QED BY <1>1, <1>2 DEF Queries

(* Rows are never deleted.                                                 *)
LEMMA GoodLasts ==
    ASSUME RowsLast, NEW q, NEW d, Good(q, d)
    PROVE  Good(q, d)'
<1>1. ASSUME NEW entry, Holds(entry) PROVE Holds(entry)'
  BY <1>1 DEF Holds, RowsLast
<1>2. Existing \subseteq Existing' /\ IsFiniteSet(Existing') /\ IsFiniteSet(Existing)
  BY ApiAssumption, FS_Subset DEF Existing, RowsLast
<1>3. /\ Cardinality(Existing) <= Cardinality(Existing')
      /\ Cardinality(Existing) \in Nat /\ Cardinality(Existing') \in Nat
  BY <1>2, FS_Subset, FS_CardinalityType
<1> QED BY <1>1, <1>3 DEF Good

-----------------------------------------------------------------------------
LEMMA InitEstablishesPagesInv == PagesInit => PagesInv
<1> SUFFICES ASSUME PagesInit PROVE PagesInv
  OBVIOUS
<1>1. ApiInv
  BY InitEstablishesApiInv DEF PagesInit
<1>2. page \in PageNames /\ tab \in Tabs
  BY PagesAssumption DEF PagesInit, PageNames, NAV
<1>3. CacheTyped
  BY DEF PagesInit, CacheTyped, IdleQuery
<1>4. \A q \in Queries : Query(q).data = {} /\ Query(q).attempt = 0
  BY DEF PagesInit, Query, IdleQuery, Keys
<1> QED BY <1>1, <1>2, <1>3, <1>4 DEF PagesInv, CacheGood, OneAttempt, AttemptCarried

(* What the server says of a list or of the counts holds, and is nothing   *)
(* less than what is cached of them.                                       *)
LEMMA QueryAnswered ==
    ASSUME PagesInv, NEW q \in Queries, q # getOracleHealth, call[pageCall].req = q,
           NEW a, a = Result(pageCall)
    PROVE  \/ a.code = 500
           \/ /\ a.code = 200 /\ Good(q, Data(a))
              /\ \A old \in Query(q).data : Fresher(q, old, Data(a))
<1>1. \A old \in Query(q).data : Good(q, old)
  BY DEF PagesInv, CacheGood
<1>2. CASE q.op = "list"
  <2>1. PICK listed : listed = Listed(q.status)
    OBVIOUS
  <2>2. a = [code |-> 200, jobs |-> listed]
    BY <1>2, <2>1 DEF Result
  <2>3. a.code = 200 /\ Data(a) = listed
    BY <2>2 DEF Data
  <2>4. ASSUME NEW entry \in listed
        PROVE  Holds(entry) /\ q.status \in {entry.row.status, Unset}
    BY <2>1, <2>4 DEF Listed, Group, Existing, Holds
  <2>5. Good(q, listed)
    BY <1>2, <2>4 DEF Good
  <2>6. ASSUME NEW old \in Query(q).data PROVE Fresher(q, old, listed)
    <3>1. ASSUME q = listJobs(Unset), NEW entry \in old
          PROVE  \E e \in listed : e.job = entry.job
      <4>1. q.status = Unset
        BY <3>1 DEF listJobs
      <4>2. entry.job \in Existing
        BY <1>1, <1>2, <2>6, <3>1 DEF Good, Holds, Existing
      <4>3. [job |-> entry.job, row |-> rows[entry.job]] \in listed
        BY <2>1, <4>1, <4>2 DEF Listed
      <4> QED BY <4>3
    <3> QED BY <1>2, <3>1 DEF Fresher
  <2> QED BY <2>3, <2>5, <2>6
<1>3. CASE q.op = "stats"
  <2>1. CASE ~Casts
    <3>1. a = [code |-> 500]
      BY <1>3, <2>1 DEF Result
    <3> QED BY <3>1
  <2>2. CASE Casts
    <3>1. PICK stats : stats = Stats
      OBVIOUS
    <3>2. a = [code |-> 200, stats |-> stats]
      BY <1>3, <2>2, <3>1 DEF Result
    <3>3. a.code = 200 /\ Data(a) = stats
      BY <3>2 DEF Data
    <3>4. stats.total \in Nat /\ stats.total = Cardinality(Existing)
      BY <3>1, StatsCountRows DEF PagesInv, ApiInv
    <3>5. Good(q, stats)
      BY <1>3, <3>4 DEF Good
    <3>6. ASSUME NEW old \in Query(q).data PROVE Fresher(q, old, stats)
      BY <1>1, <1>3, <3>4, <3>6 DEF Good, Fresher, listJobs
    <3> QED BY <3>3, <3>5, <3>6
  <2> QED BY <2>1, <2>2
<1> QED BY <1>2, <1>3, QueryKinds

(* The server's step for a query's call brings its answer.                 *)
LEMMA AttemptProceeds ==
    ASSUME PagesInv, NEW q \in Queries, Carries(call[pageCall], q), UNCHANGED cache,
           ApiStep(pageCall), NEW k, k = call'[pageCall]
    PROVE  Carries(k, q)'
<1>0. pageCall \in Calls /\ ApiInv
  BY PagesAssumption DEF PagesInv
<1>1. CASE call[pageCall].at = "Probing"
  <2>1. PICK health : HealthReplies(pageCall, health)
    BY <1>1 DEF ApiStep, OracleReplies, Execute, DbBreaks
  <2>2. PICK a : /\ Answer(pageCall, a)
                 /\ a = [code |-> 503] \/ a = [code |-> 200, health |-> health]
    BY <2>1 DEF HealthReplies
  <2>3. k.at = "Answered" /\ k.answer = a
    BY <1>0, <2>2 DEF Answer, ApiInv
  <2>4. q.op = "health" /\ a.code \in {200, 503}
    BY <1>1, <2>2, QueryKinds DEF Carries
  <2>5. \A d : Good(q, d)' /\ \A old : Fresher(q, old, d)
    BY <2>4 DEF Good, Fresher, listJobs
  <2> QED BY <2>3, <2>4, <2>5 DEF Carries
<1>2. CASE call[pageCall].at = "Querying"
  <2>1. call[pageCall].req = q /\ q # getOracleHealth
    BY <1>2 DEF Carries
  <2>2. q.op \in {"list", "stats"}
    BY <2>1, QueryKinds
  <2>3. UNCHANGED rows
    BY <1>0, <1>2, <2>1, <2>2, StatementEnds DEF RowsAfter
  <2>4. PICK a : a = k.answer
    OBVIOUS
  <2>5. k.at = "Answered" /\ (a.code = 500 \/ a = Result(pageCall))
    BY <1>0, <1>2, <2>4, StatementEnds
  <2>6. \/ a.code = 500
        \/ /\ a.code = 200 /\ Good(q, Data(a))
           /\ \A old \in Query(q).data : Fresher(q, old, Data(a))
    BY <2>1, <2>5, QueryAnswered
  <2>7. PICK d : d = Data(a)
    OBVIOUS
  <2>8. Good(q, d) => Good(q, d)'
    BY <2>3, GoodLasts, UnchangedRowsLast
  <2>9. Query(q)' = Query(q)
    BY DEF Query
  <2> QED BY <2>4, <2>5, <2>6, <2>7, <2>8, <2>9 DEF Carries
<1> QED BY <1>1, <1>2
        DEF ApiStep, OracleReplies, HealthReplies, Execute, DbBreaks, Carries

-----------------------------------------------------------------------------
(* What a step does to what is cached for one query it does to no other.   *)
LEMMA OneQueryChanges ==
    ASSUME CacheTyped, NEW q \in Queries, NEW r,
           NEW data, NEW error \in BOOLEAN, NEW attempt \in {0, 1, 2},
           r = [data |-> data, error |-> error, attempt |-> attempt],
           data = {} \/ \E d : data = {d},
           cache' = [cache EXCEPT ![Key(q)] = r]
    PROVE  /\ CacheTyped'
           /\ Query(q)' = r
           /\ \A p \in Queries \ {q} : Query(p)' = Query(p)
<1>1. Key(q) \in Keys
  BY QueryKinds
<1>2. cache' = [k \in Keys |-> IF k = Key(q) THEN r ELSE cache[k]]
  BY <1>1 DEF CacheTyped
<1>3. CacheTyped'
  <2>1. ASSUME NEW k \in Keys
        PROVE  /\ cache'[k] = [data |-> cache'[k].data, error |-> cache'[k].error,
                               attempt |-> cache'[k].attempt]
               /\ cache'[k].data = {} \/ \E d : cache'[k].data = {d}
               /\ cache'[k].error \in BOOLEAN
               /\ cache'[k].attempt \in {0, 1, 2}
    <3>1. CASE k = Key(q)
      <4>1. cache'[k] = r
        BY <1>2, <3>1
      <4>2. r.data = data /\ r.error = error /\ r.attempt = attempt
        OBVIOUS
      <4> QED BY <4>1, <4>2
    <3>2. CASE k # Key(q)
      BY <1>2, <3>2 DEF CacheTyped
    <3> QED BY <3>1, <3>2
  <2> QED BY <1>2, <2>1 DEF CacheTyped
<1>4. \A p \in Queries \ {q} : Key(p) # Key(q) /\ Key(p) \in Keys
  BY KeysDiffer, QueryKinds
<1> QED BY <1>1, <1>2, <1>3, <1>4 DEF Query

(* What is cached and the answer that is awaited stay good while the rows  *)
(* last and nothing replaces them.                                         *)
LEMMA QueriesLast ==
    ASSUME PagesInv, RowsLast, NEW q \in Queries, Query(q)'.data = Query(q).data
    PROVE  /\ \A d \in Query(q)'.data : Good(q, d)'
           /\ \A k : Carries(k, q) => Carries(k, q)'
<1>1. \A d : Good(q, d) => Good(q, d)'
  BY GoodLasts
<1>2. ASSUME NEW k, Carries(k, q) PROVE Carries(k, q)'
  BY <1>1, <1>2 DEF Carries
<1> QED BY <1>1, <1>2 DEF PagesInv, CacheGood

(* The calls go on by themselves: the server's, the process's end, other   *)
(* tabs' statements.                                                       *)
LEMMA CallsProceed ==
    ASSUME PagesInv, ApiInv', RowsLast, UNCHANGED <<page, tab, cache>>,
           \/ call'[pageCall] = call[pageCall] \/ call'[pageCall].at = "Lost"
           \/ ApiStep(pageCall)
    PROVE  PagesInv'
<1>1. \A q \in Queries : Query(q)' = Query(q)
  BY DEF Query
<1>2. CacheTyped' /\ OneAttempt'
  BY <1>1 DEF PagesInv, CacheTyped, OneAttempt, Observed
<1>3. CacheGood'
  BY <1>1, QueriesLast DEF CacheGood
<1>4. ASSUME NEW q \in Queries, Query(q)'.attempt > 0 PROVE Carries(call[pageCall], q)'
  <2>1. Carries(call[pageCall], q)
    BY <1>1, <1>4 DEF PagesInv, AttemptCarried
  <2>2. PICK k : k = call'[pageCall]
    OBVIOUS
  <2>3. CASE k = call[pageCall]
    BY <1>1, <2>1, <2>2, <2>3, QueriesLast
  <2>4. CASE k.at = "Lost"
    BY <2>2, <2>4 DEF Carries
  <2>5. CASE ApiStep(pageCall)
    <3>1. Carries(k, q)'
      BY <2>1, <2>2, <2>5, AttemptProceeds
    <3> QED BY <2>2, <3>1
  <2> QED BY <2>2, <2>3, <2>4, <2>5
<1> QED BY <1>2, <1>3, <1>4 DEF PagesInv, AttemptCarried

LEMMA StatementPreservesApiInv ==
    ASSUME ApiInv, NEW c \in Calls, NEW q, Executable(q), rows' = RowsAfter(c, q),
           UNCHANGED call
    PROVE  ApiInv' /\ RowsLast
<1>1. RowsTyped' /\ RowsKept(q)
  BY StatementKeepsRows DEF ApiInv
<1>2. \A a : Stands(a) => Stands(a)'
  BY <1>1, StandsOn
<1>3. ASSUME NEW b \in Calls, call[b].answer.code = 201 PROVE Stands(call[b].answer)'
  <2>1. PICK a : a = call[b].answer
    OBVIOUS
  <2>2. Stands(a)'
    BY <1>2, <1>3, <2>1 DEF ApiInv
  <2> QED BY <2>1, <2>2
<1> QED BY <1>1, <1>3 DEF ApiInv, CallOK, RowsKept, RowsLast

(* Leaving a page or a tab aborts what is under way and keeps the data.    *)
LEMMA AbortKeepsData ==
    ASSUME PagesInv, Abort, UNCHANGED rows, page' \in PageNames, tab' \in Tabs
    PROVE  PagesInv' /\ \A q \in Queries : Query(q)'.data = Query(q).data
<1>1. ApiInv' /\ RowsLast
  BY PagesAssumption, ReleasePreservesApiInv, UnchangedRowsLast DEF PagesInv, Abort, Release
<1>2. ASSUME NEW k \in Keys
      PROVE  /\ cache'[k] = [data |-> cache'[k].data, error |-> cache'[k].error,
                             attempt |-> cache'[k].attempt]
             /\ cache'[k].data = cache[k].data
             /\ cache'[k].error \in BOOLEAN
             /\ cache'[k].attempt \in {0, cache[k].attempt}
             /\ (\E q \in Observed : k = Key(q)) => cache'[k].attempt = 0
  <2>1. PICK old : old = cache[k]
    OBVIOUS
  <2>2. /\ old = [data |-> old.data, error |-> old.error, attempt |-> old.attempt]
        /\ old.error \in BOOLEAN
    BY <2>1 DEF PagesInv, CacheTyped
  <2>3. CASE \E q \in Observed : k = Key(q)
    <3>1. cache'[k] = WithAttempt(old, 0)
      BY <2>1, <2>3 DEF Abort
    <3> QED BY <2>1, <3>1 DEF WithAttempt
  <2>4. CASE ~\E q \in Observed : k = Key(q)
    <3>1. cache'[k] = cache[k]
      BY <2>4 DEF Abort
    <3> QED BY <2>1, <2>2, <2>4, <3>1
  <2> QED BY <2>3, <2>4
<1>3. CacheTyped'
  <2>1. cache' = [k \in Keys |-> cache'[k]]
    BY DEF Abort
  <2>2. ASSUME NEW k \in Keys
        PROVE  /\ cache'[k] = [data |-> cache'[k].data, error |-> cache'[k].error,
                               attempt |-> cache'[k].attempt]
               /\ cache'[k].data = {} \/ \E d : cache'[k].data = {d}
               /\ cache'[k].error \in BOOLEAN
               /\ cache'[k].attempt \in {0, 1, 2}
    <3>1. /\ cache[k].data = {} \/ \E d : cache[k].data = {d}
          /\ cache[k].attempt \in {0, 1, 2}
      BY DEF PagesInv, CacheTyped
    <3> QED BY <1>2, <3>1
  <2> QED BY <2>1, <2>2 DEF CacheTyped
<1>4. ASSUME NEW q \in Queries
      PROVE  Query(q)'.data = Query(q).data /\ Query(q)'.attempt = 0
  <2>1. Key(q) \in Keys
    BY QueryKinds
  <2>2. CASE q \in Observed
    BY <1>2, <2>1, <2>2 DEF Query
  <2>3. CASE q \notin Observed
    <3>1. cache[Key(q)].attempt = 0
      BY <2>1, <2>3 DEF Query, PagesInv, OneAttempt, CacheTyped
    <3> QED BY <1>2, <2>1, <3>1 DEF Query
  <2> QED BY <2>2, <2>3
<1>5. CacheGood'
  BY <1>1, <1>4, QueriesLast DEF CacheGood
<1> QED BY <1>1, <1>3, <1>4, <1>5 DEF PagesInv, OneAttempt, AttemptCarried

(* A step of one query: begun, answered, given up or forgotten.            *)
LEMMA QueryMoves ==
    ASSUME PagesInv, ApiInv', RowsLast, UNCHANGED <<page, tab>>,
           NEW q \in Queries, NEW r,
           NEW data, NEW error \in BOOLEAN, NEW attempt \in {0, 1, 2},
           r = [data |-> data, error |-> error, attempt |-> attempt],
           cache' = [cache EXCEPT ![Key(q)] = r],
           data \in {{}, Query(q).data} \/ \E d : data = {d} /\ Good(q, d)',
           attempt > 0 => q \in Observed /\ Carries(call[pageCall], q)',
           \A p \in Queries \ {q} : Query(p).attempt > 0 =>
               attempt = 0 /\ call'[pageCall] = call[pageCall]
    PROVE  PagesInv'
<1>1. data = {} \/ \E d : data = {d}
  <2>1. CASE data = Query(q).data
    BY <2>1, QueryKinds DEF PagesInv, CacheTyped, Query
  <2> QED BY <2>1
<1>2. /\ CacheTyped'
      /\ Query(q)' = r
      /\ \A p \in Queries \ {q} : Query(p)' = Query(p)
  BY <1>1, OneQueryChanges DEF PagesInv
<1>3. Query(q)'.data = data /\ Query(q)'.attempt = attempt
  BY <1>2
<1>4. CacheGood'
  <2>1. ASSUME NEW p \in Queries \ {q}, NEW d \in Query(p)'.data PROVE Good(p, d)'
    BY <1>2, <2>1, QueriesLast
  <2>2. ASSUME NEW d \in data PROVE Good(q, d)'
    <3>1. CASE data = Query(q).data
      BY <1>3, <2>2, <3>1, QueriesLast
    <3>2. CASE data # Query(q).data
      BY <2>2, <3>2
    <3> QED BY <3>1, <3>2
  <2> QED BY <1>3, <2>1, <2>2 DEF CacheGood
<1>5. OneAttempt'
  <2>1. ASSUME NEW p \in Queries, Query(p)'.attempt > 0
        PROVE  p \in Observed /\ \A o \in Queries : Query(o)'.attempt > 0 => o = p
    <3>1. CASE p = q
      BY <1>2, <1>3, <2>1, <3>1
    <3>2. CASE p # q
      BY <1>2, <1>3, <2>1, <3>2 DEF PagesInv, OneAttempt
    <3> QED BY <3>1, <3>2
  <2> QED BY <2>1 DEF OneAttempt, Observed
<1>6. ASSUME NEW p \in Queries, Query(p)'.attempt > 0 PROVE Carries(call[pageCall], p)'
  <2>1. CASE p = q
    BY <1>3, <1>6, <2>1
  <2>2. CASE p # q
    <3>1. call'[pageCall] = call[pageCall] /\ Query(p)' = Query(p)
      BY <1>2, <1>6, <2>2
    <3>2. PICK k : k = call[pageCall] /\ Carries(k, p)
      BY <1>6, <3>1 DEF PagesInv, AttemptCarried
    <3>3. Carries(k, p)'
      BY <3>1, <3>2, QueriesLast
    <3> QED BY <3>1, <3>2, <3>3
  <2> QED BY <2>1, <2>2
<1> QED BY <1>2, <1>4, <1>5, <1>6 DEF PagesInv, AttemptCarried

(* A fetch that is over leaves the data or replaces it by what is no less. *)
FetchOutcome(q, data, error, attempt) ==
    /\ cache' = [cache EXCEPT ![Key(q)] =
                    [data |-> data, error |-> error, attempt |-> attempt]]
    /\ \/ data = Query(q).data
       \/ \E d : /\ data = {d} /\ Good(q, d)
                /\ \A old \in Query(q).data : Fresher(q, old, d)

LEMMA FetchEndsEffect ==
    ASSUME PagesInv, NEW q \in Queries, FetchEnds(q)
    PROVE  \E data : \E error \in BOOLEAN, attempt \in {0, 2} :
              FetchOutcome(q, data, error, attempt)
<1>1. CASE Fails(pageCall)
  <2>1. PICK old : old = cache[Key(q)]
    OBVIOUS
  <2>2. /\ old = [data |-> old.data, error |-> old.error, attempt |-> old.attempt]
        /\ old.error \in BOOLEAN /\ Query(q) = old
    BY <2>1, QueryKinds DEF PagesInv, CacheTyped, Query
  <2>3. cache' = [cache EXCEPT ![Key(q)] = Failed(Key(q), old)]
    BY <1>1, <2>1 DEF FetchEnds
  <2>4. CASE old.attempt = 1
    <3>1. Failed(Key(q), old) = [data |-> old.data, error |-> old.error, attempt |-> 2]
      BY <2>2, <2>4 DEF Failed
    <3> QED BY <2>2, <2>3, <3>1 DEF FetchOutcome
  <2>5. CASE old.attempt # 1
    <3>1. PICK e \in BOOLEAN : e = (Key(q) = OracleHealthKey \/ old.data = {})
      OBVIOUS
    <3>2. Failed(Key(q), old) = [data |-> old.data, error |-> e, attempt |-> 0]
      BY <2>2, <2>5, <3>1 DEF Failed
    <3> QED BY <2>2, <2>3, <3>2 DEF FetchOutcome
  <2> QED BY <2>4, <2>5
<1>2. CASE ~Fails(pageCall)
  <2>1. Query(q).attempt > 0 /\ Over(pageCall)
    BY DEF FetchEnds
  <2>2. call[pageCall].at = "Answered" /\ call[pageCall].answer.code \in {200, 201}
    BY <1>2, <2>1, PagesAssumption, SuccessStatus DEF PagesInv
  <2>3. PICK d : d = Data(call[pageCall].answer)
    OBVIOUS
  <2>4. Good(q, d) /\ \A old \in Query(q).data : Fresher(q, old, d)
    BY <2>1, <2>2, <2>3 DEF PagesInv, AttemptCarried, Carries
  <2>5. cache' = [cache EXCEPT ![Key(q)] = [data |-> {d}, error |-> FALSE, attempt |-> 0]]
    BY <1>2, <2>3 DEF FetchEnds
  <2> QED BY <2>4, <2>5 DEF FetchOutcome
<1> QED BY <1>1, <1>2

LEMMA NextPreservesPagesInv == PagesInv /\ [PagesNext]_pagevars => PagesInv'
<1> SUFFICES ASSUME PagesInv, [PagesNext]_pagevars PROVE PagesInv'
  OBVIOUS
<1>0. ApiInv /\ pageCall \in Calls /\ Functional
  BY PagesAssumption DEF PagesInv, ApiInv, Functional
<1>1. ASSUME NEW q \in Queries, Arrive(pageCall, q)
      PROVE  /\ ApiInv' /\ RowsLast
             /\ \A k : k = call'[pageCall] => Carries(k, q)'
  <2>1. ApiInv' /\ RowsLast
    BY <1>0, <1>1, QueryKinds, ArrivePreservesApiInv, StepsKeepRows
  <2>2. CASE q = getOracleHealth
    <3>1. Goto(pageCall, "Probing", q)
      BY <1>1, <2>2 DEF Arrive, Valid, getOracleHealth
    <3>2. call'[pageCall] = [at |-> "Probing", req |-> q, answer |-> NoAnswer]
      BY <1>0, <3>1 DEF Goto, Functional
    <3> QED BY <2>1, <2>2, <3>2 DEF Carries
  <2>3. CASE q # getOracleHealth
    <3>1. call'[pageCall] = [at |-> "Querying", req |-> q, answer |-> NoAnswer]
      BY <1>0, <1>1, <2>3, QueryKinds, ReadArrives
    <3> QED BY <2>1, <2>3, <3>1 DEF Carries
  <2> QED BY <2>2, <2>3
<1>2. ASSUME NEW q \in Queries, Fetch(q) PROVE PagesInv'
  <2>1. /\ ApiInv' /\ RowsLast
        /\ \A k : k = call'[pageCall] => Carries(k, q)'
    BY <1>1, <1>2 DEF Fetch
  <2>2. \A p \in Queries : Query(p).attempt = 0
    BY <1>2, QueryKinds DEF Fetch, Query
  <2>3. PICK data, error : data = Query(q).data /\ error = (Query(q).error /\ data # {})
    OBVIOUS
  <2>4. error \in BOOLEAN
    BY <2>3
  <2>5. PICK r : r = [data |-> data, error |-> error, attempt |-> 1]
    OBVIOUS
  <2>6. cache' = [cache EXCEPT ![Key(q)] = r]
    BY <1>2, <2>3, <2>5 DEF Fetch, WithAttempt, Query
  <2>7. Carries(call[pageCall], q)'
    <3>1. PICK k : k = call'[pageCall] /\ Carries(k, q)'
      BY <2>1
    <3> QED BY <3>1
  <2>8. UNCHANGED <<page, tab>> /\ q \in Observed
    BY <1>2 DEF Fetch
  <2>9. /\ data \in {{}, Query(q).data} /\ 1 \in {0, 1, 2}
        /\ \A p \in Queries \ {q} : ~(Query(p).attempt > 0)
    BY <2>2, <2>3
  <2> QED BY <2>1, <2>4, <2>5, <2>6, <2>7, <2>8, <2>9, QueryMoves
<1>3. ASSUME NEW q \in Queries, FetchAgain(q) PROVE PagesInv'
  <2>1. /\ ApiInv' /\ RowsLast /\ UNCHANGED <<page, tab, cache>>
        /\ \A k : k = call'[pageCall] => Carries(k, q)'
    BY <1>1, <1>3 DEF FetchAgain
  <2>2. Carries(call[pageCall], q)'
    <3>1. PICK k : k = call'[pageCall] /\ Carries(k, q)'
      BY <2>1
    <3> QED BY <3>1
  <2>3. \A p \in Queries : Query(p)' = Query(p)
    BY <2>1 DEF Query
  <2>4. Query(q).attempt > 0
    BY <1>3, QueryKinds DEF FetchAgain, PagesInv, CacheTyped, Query
  <2>5. CacheTyped' /\ OneAttempt'
    BY <2>1, <2>3 DEF PagesInv, CacheTyped, OneAttempt, Observed
  <2>6. CacheGood'
    BY <2>1, <2>3, QueriesLast DEF CacheGood
  <2>7. AttemptCarried'
    BY <2>2, <2>3, <2>4 DEF PagesInv, OneAttempt, AttemptCarried
  <2> QED BY <2>1, <2>5, <2>6, <2>7 DEF PagesInv
<1>4. ASSUME NEW q \in Queries, FetchEnds(q) PROVE PagesInv'
  <2>1. /\ ApiInv' /\ RowsLast /\ call'[pageCall] = IdleCall
        /\ UNCHANGED <<page, tab>> /\ Query(q).attempt > 0
    BY <1>0, <1>4, ReleasePreservesApiInv, StepsKeepRows DEF FetchEnds
  <2>2. q \in Observed /\ \A p \in Queries \ {q} : ~(Query(p).attempt > 0)
    BY <2>1 DEF PagesInv, OneAttempt
  <2>3. PICK data : \E error \in BOOLEAN, attempt \in {0, 2} :
              FetchOutcome(q, data, error, attempt)
    BY <1>4, FetchEndsEffect
  <2>a. PICK error \in BOOLEAN, attempt \in {0, 2} : FetchOutcome(q, data, error, attempt)
    BY <2>3
  <2>r. PICK r : r = [data |-> data, error |-> error, attempt |-> attempt]
    OBVIOUS
  <2>4. /\ r = [data |-> data, error |-> error, attempt |-> attempt]
        /\ cache' = [cache EXCEPT ![Key(q)] = r]
        /\ data = Query(q).data \/ \E d : data = {d} /\ Good(q, d)
    BY <2>a, <2>r, Zenon DEF FetchOutcome
  <2>5. data = Query(q).data \/ \E d : data = {d} /\ Good(q, d)'
    BY <2>1, <2>4, GoodLasts
  <2>6. Carries(call[pageCall], q)'
    <3>1. PICK k : k = IdleCall
      OBVIOUS
    <3>2. k.at = "Idle"
      BY <3>1 DEF IdleCall
    <3>3. Carries(k, q)'
      BY <3>2 DEF Carries
    <3> QED BY <2>1, <3>1, <3>3
  <2> QED BY <2>1, <2>2, <2>4, <2>5, <2>6, QueryMoves
<1>5. ASSUME UNCHANGED <<rows, call>> PROVE ApiInv' /\ RowsLast
  BY <1>0, <1>5, NextPreservesApiInv, UnchangedRowsLast DEF apivars
<1>6. ASSUME NEW q \in Queries, Forget(q) PROVE PagesInv'
  <2>1. cache' = [cache EXCEPT ![Key(q)] = [data |-> {}, error |-> FALSE, attempt |-> 0]]
        /\ UNCHANGED <<page, tab, rows, call>>
    BY <1>6 DEF Forget, IdleQuery
  <2>2. PICK data, r : /\ data = {} /\ r = [data |-> data, error |-> FALSE, attempt |-> 0]
                       /\ cache' = [cache EXCEPT ![Key(q)] = r]
    BY <2>1
  <2>3. data \in {{}, Query(q).data} /\ 0 \in {0, 1, 2} /\ ~(0 > 0)
    BY <2>2
  <2> QED BY <1>5, <2>1, <2>2, <2>3, QueryMoves
<1>7. ASSUME NEW p \in PageNames, Navigate(p) PROVE PagesInv'
  BY <1>7, AbortKeepsData, PagesAssumption DEF Navigate
<1>8. ASSUME NEW job, OpenJob(job) PROVE PagesInv'
  BY <1>7, <1>8 DEF OpenJob, PageNames
<1>9. ASSUME NEW t \in Tabs, SetStatusFilter(t) PROVE PagesInv'
  BY <1>9, AbortKeepsData DEF SetStatusFilter, PagesInv
<1>10. CASE Serve
  <2>1. ApiStep(pageCall) /\ UNCHANGED <<page, tab, cache>>
    BY <1>10 DEF Serve, ApiStep, Healths
  <2>2. ApiInv' /\ RowsLast
    BY <1>0, <2>1, NextPreservesApiInv, StepsKeepRows DEF ApiNext
  <2> QED BY <2>1, <2>2, CallsProceed
<1>11. ASSUME NEW q \in Inbox, OtherTab(q) PROVE PagesInv'
  <2>1. Executable(q)
    BY <1>11, InboxAssumption, RequestFields DEF OtherTab
  <2>2. ApiInv' /\ RowsLast
    BY <1>0, <1>11, <2>1, StatementPreservesApiInv DEF OtherTab
  <2> QED BY <1>11, <2>2, CallsProceed DEF OtherTab
<1>12. CASE OracleDies \/ OracleStarts \/ UNCHANGED pagevars
  BY <1>5, <1>12, CallsProceed DEF OracleDies, OracleStarts, pagevars
<1>13. CASE ApiCrash /\ UNCHANGED <<page, tab, cache, alive>>
  <2>1. ApiInv' /\ RowsLast
    BY <1>0, <1>13, CrashPreservesApiInv, CrashLoses, UnchangedRowsLast
  <2> QED BY <1>0, <1>13, <2>1, CrashLoses, CallsProceed
<1> QED BY <1>2, <1>3, <1>4, <1>6, <1>7, <1>8, <1>9, <1>10, <1>11, <1>12, <1>13
        DEF PagesNext, PageNames

-----------------------------------------------------------------------------
(* What is cached holds of the rows, and an answer that is under way holds *)
(* and is no older, for any number of jobs and statements.                 *)
THEOREM PagesInvariance == PagesSpec => []PagesInv
<1> QED BY InitEstablishesPagesInv, NextPreservesPagesInv, PTL DEF PagesSpec

(* A tab shows only jobs that had its status when the server looked, with  *)
(* the parties and amounts of the rows (TabShowsItsJobs).                  *)
THEOREM TabsShowTheirJobs == PagesSpec => []TabShowsItsJobs
<1>1. PagesInv => TabShowsItsJobs
  <2> SUFFICES ASSUME PagesInv, NEW q \in Lists, NEW card \in JobTable(q).jobs
               PROVE  /\ q.status \in {card.status, Unset}
                      /\ Exists(card.href) /\ card.terms = rows[card.href].terms
    BY DEF TabShowsItsJobs
  <2>1. q \in Queries /\ q.op = "list"
    BY QueryKinds DEF Queries
  <2>2. PICK d \in Query(q).data : \E entry \in d : card = JobCard(entry)
    BY DEF JobTable, Shown
  <2>e. PICK entry \in d : card = JobCard(entry)
    BY <2>2
  <2>3. Holds(entry) /\ q.status \in {entry.row.status, Unset}
    BY <2>1, <2>2, <2>e DEF PagesInv, CacheGood, Good
  <2>4. card.href = entry.job /\ card.status = entry.row.status
        /\ card.terms = entry.row.terms
    BY <2>e DEF JobCard
  <2> QED BY <2>3, <2>4 DEF Holds
<1> QED BY <1>1, PagesInvariance, PTL

(* What is shown is replaced, as long as its page is open, only by what is *)
(* no less.                                                                *)
LEMMA ShownDataStays ==
    ASSUME PagesInv, [PagesNext]_pagevars, page' = page, page # "Jobs", NEW q \in Observed
    PROVE  \/ Query(q)'.data = Query(q).data
           \/ \E d : /\ Query(q)'.data = {d} /\ Good(q, d)
                    /\ \A old \in Query(q).data : Fresher(q, old, d)
<1>0. q \in Queries
  BY PagesAssumption DEF Observed, QueriesOf, Queries, Lists
<1>1. ASSUME NEW p \in Queries, FetchEnds(p)
      PROVE  \/ Query(q)'.data = Query(q).data
             \/ \E d : /\ Query(q)'.data = {d} /\ Good(q, d)
                      /\ \A old \in Query(q).data : Fresher(q, old, d)
  <2>1. PICK data : \E error \in BOOLEAN, attempt \in {0, 2} :
              FetchOutcome(p, data, error, attempt)
    BY <1>1, FetchEndsEffect
  <2>2. PICK error \in BOOLEAN, attempt \in {0, 2} : FetchOutcome(p, data, error, attempt)
    BY <2>1
  <2>3. PICK r : r = [data |-> data, error |-> error, attempt |-> attempt]
    OBVIOUS
  <2>4. cache' = [cache EXCEPT ![Key(p)] = r]
    BY <2>2, <2>3 DEF FetchOutcome
  <2>5. Key(p) \in Keys /\ Key(q) \in Keys /\ (Key(p) = Key(q) => p = q)
    BY <1>0, KeysDiffer, QueryKinds
  <2>6. CASE p = q
    <3>1. Query(q)'.data = data
      BY <2>3, <2>4, <2>5, <2>6 DEF Query, PagesInv, CacheTyped
    <3> QED BY <2>2, <2>6, <3>1 DEF FetchOutcome
  <2>7. CASE p # q
    BY <2>4, <2>5, <2>7 DEF Query
  <2> QED BY <2>6, <2>7
<1>2. ASSUME NEW p \in Queries, Fetch(p) PROVE Query(q)'.data = Query(q).data
  <2>1. cache' = [cache EXCEPT ![Key(p)] = WithAttempt(cache[Key(p)], 1)]
    BY <1>2 DEF Fetch
  <2>2. Key(p) \in Keys /\ Key(q) \in Keys
    BY <1>0, QueryKinds
  <2>3. WithAttempt(cache[Key(p)], 1).data = cache[Key(p)].data
    BY DEF WithAttempt
  <2> QED BY <2>1, <2>2, <2>3 DEF Query, PagesInv, CacheTyped
<1>3. ASSUME NEW p \in Queries, Forget(p) PROVE Query(q)'.data = Query(q).data
  <2>1. p # q
    BY <1>3 DEF Forget
  <2> QED BY <1>0, <1>3, <2>1, KeysDiffer, QueryKinds DEF Forget, Query
<1>4. CASE UNCHANGED cache
  BY <1>4 DEF Query
<1>5. ~\E p \in NAV \cup {"JobDetail"} : Navigate(p)
  BY DEF Navigate
<1>6. ~\E t \in Tabs : SetStatusFilter(t)
  BY DEF SetStatusFilter
<1> QED BY <1>1, <1>2, <1>3, <1>4, <1>5, <1>6
        DEF PagesNext, OpenJob, FetchAgain, Serve, OtherTab, OracleDies, OracleStarts, pagevars

(* A listed job that is not among the newest has newer ones before it.     *)
LEMMA PushedOutByNewer ==
    ASSUME NEW d, \A e \in d : Holds(e), NEW entry \in d, entry.job \notin NewestJobs(d)
    PROVE  Cardinality(NewerRows(entry.job)) >= Recent
<1> DEFINE N == NewerJobs(entry, d)
           R == NewerRows(entry.job)
<1>1. IsFiniteSet(R)
  BY ApiAssumption, FS_Subset DEF NewerRows, Existing
<1>2. N \subseteq R
  BY DEF NewerJobs, NewerRows, Existing, Holds
<1>3. IsFiniteSet(N) /\ Cardinality(N) <= Cardinality(R)
      /\ Cardinality(N) \in Nat /\ Cardinality(R) \in Nat
  BY <1>1, <1>2, FS_Subset, FS_CardinalityType
<1>4. ~(Cardinality(N) < Recent)
  BY DEF NewestJobs
<1> HIDE DEF N, R
<1>5. Cardinality(R) >= Recent
  BY <1>3, <1>4, PagesAssumption
<1> QED BY <1>5 DEF R

(* What a page showed of the rows it goes on showing while it is open:     *)
(* counts, no skeletons again, and a recent job until enough newer ones    *)
(* are there (ShownStaysShown).                                            *)
THEOREM ShownStays == PagesSpec => ShownStaysShown
<1>1. ASSUME PagesInv, [PagesNext]_pagevars, page = "Dashboard", page' = page
      PROVE  /\ \A job \in RecentJobs.jobs \ RecentJobs.jobs' :
                    Cardinality(NewerRows(job)) >= Recent
             /\ RecentJobs.jobs # {} => ~RecentJobs.skeletons'
             /\ StatCards.total <= StatCards.total'
             /\ StatCards.total > 0 => ~StatCards.skeletons'
  <2> DEFINE l == listJobs(Unset)
  <2>1. l \in Observed /\ getStats \in Observed /\ l \in Queries /\ getStats \in Queries
    BY <1>1, PagesAssumption DEF Observed, QueriesOf, Queries, Lists
  <2>2. /\ \A job \in RecentJobs.jobs \ RecentJobs.jobs' :
              Cardinality(NewerRows(job)) >= Recent
        /\ RecentJobs.jobs # {} => ~RecentJobs.skeletons'
    <3>1. /\ RecentJobs.jobs = NewestJobs(UNION Query(l).data)
          /\ RecentJobs'.jobs = NewestJobs(UNION Query(l)'.data)
          /\ RecentJobs'.skeletons => Query(l)'.data = {}
      BY DEF RecentJobs, Shown, Loading, NewestJobs, NewerJobs
    <3>2. NewestJobs(UNION Query(l).data) \subseteq {e.job : e \in UNION Query(l).data}
      BY DEF NewestJobs
    <3>3. ASSUME NEW d, Query(l)'.data = {d}, Good(l, d),
                 \A old \in Query(l).data : Fresher(l, old, d),
                 NEW job \in RecentJobs.jobs, job \notin RecentJobs'.jobs
          PROVE  Cardinality(NewerRows(job)) >= Recent
      <4>1. \A e \in d : Holds(e)
        BY <3>3 DEF Good, listJobs
      <4>2. PICK old \in Query(l).data : \E e \in old : e.job = job
        BY <3>1, <3>2, <3>3
      <4>3. PICK entry \in d : entry.job = job
        BY <3>3, <4>2 DEF Fresher
      <4>4. entry.job \notin NewestJobs(d)
        BY <3>1, <3>3, <4>3
      <4>5. Cardinality(NewerRows(entry.job)) >= Recent
        BY <4>1, <4>4, PushedOutByNewer
      <4> QED BY <4>3, <4>5
    <3>4. Query(l)'.data = {} => Query(l).data = {}
      BY <1>1, <2>1, ShownDataStays
    <3>5. NewestJobs({}) = {}
      BY DEF NewestJobs
    <3>6. \/ Query(l)'.data = Query(l).data
          \/ \E d : /\ Query(l)'.data = {d} /\ Good(l, d)
                   /\ \A old \in Query(l).data : Fresher(l, old, d)
      BY <1>1, <2>1, ShownDataStays
    <3> HIDE DEF l
    <3>7. RecentJobs.jobs # {} => ~RecentJobs'.skeletons
      BY <3>1, <3>4, <3>5
    <3>8. \A job \in RecentJobs.jobs \ RecentJobs'.jobs : Cardinality(NewerRows(job)) >= Recent
      BY <3>1, <3>3, <3>6
    <3> QED BY <3>7, <3>8
  <2>3. /\ StatCards.total <= StatCards.total'
        /\ StatCards.total > 0 => ~StatCards.skeletons'
    <3>1. /\ Query(getStats).data = {} => StatCards.total = 0
          /\ \A d : Query(getStats).data = {d} => StatCards.total = d.total
          /\ \A d : Query(getStats)'.data = {d} => StatCards'.total = d.total
          /\ Query(getStats)'.data = {} => StatCards'.total = 0
          /\ StatCards'.skeletons => Query(getStats)'.data = {}
      BY DEF StatCards, Loading
    <3>2. \/ Query(getStats).data = {}
          \/ \E d : Query(getStats).data = {d} /\ d.total \in Nat
      <4>1. Query(getStats).data = {} \/ \E d : Query(getStats).data = {d}
        BY <1>1, <2>1, QueryKinds DEF PagesInv, CacheTyped, Query
      <4>2. \A d \in Query(getStats).data : d.total \in Nat
        BY <1>1, <2>1 DEF PagesInv, CacheGood, Good, getStats
      <4> QED BY <4>1, <4>2
    <3>3. \/ Query(getStats)'.data = Query(getStats).data
          \/ \E d : /\ Query(getStats)'.data = {d} /\ d.total \in Nat
                   /\ \A old \in Query(getStats).data : old.total <= d.total
      BY <1>1, <2>1, ShownDataStays DEF Good, Fresher, getStats
    <3>4. CASE Query(getStats).data = {}
      BY <3>1, <3>3, <3>4
    <3>5. ASSUME NEW d, Query(getStats).data = {d}, d.total \in Nat
          PROVE  <2>3
      BY <3>1, <3>3, <3>5
    <3> QED BY <3>2, <3>4, <3>5
  <2> QED BY <2>2, <2>3
<1>2. ASSUME PagesInv, [PagesNext]_pagevars, page = "Oracle", page' = page, StatsPanel # {}
      PROVE  StatsPanel' # {}
  <2>1. getStats \in Observed
    BY <1>2 DEF Observed, QueriesOf
  <2> QED BY <1>2, <2>1, ShownDataStays DEF StatsPanel
<1>3. PagesInv /\ [PagesNext]_pagevars =>
      [ /\ (page = "Dashboard" /\ page' = page) =>
            /\ \A job \in RecentJobs.jobs \ RecentJobs.jobs' :
                  Cardinality(NewerRows(job)) >= Recent
            /\ RecentJobs.jobs # {} => ~RecentJobs.skeletons'
            /\ StatCards.total <= StatCards.total'
            /\ StatCards.total > 0 => ~StatCards.skeletons'
        /\ (page = "Oracle" /\ page' = page) =>
            (StatsPanel # {} => StatsPanel' # {}) ]_pagevars
  BY <1>1, <1>2
<1> QED BY <1>3, PagesInvariance, PTL DEF PagesSpec, ShownStaysShown
=============================================================================
