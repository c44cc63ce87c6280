------------------------------- MODULE Pages -------------------------------
(***************************************************************************)
(* The pages that display: the overview (dashboard.tsx), the list of jobs  *)
(* with its tabs (jobs.tsx) and the state of the oracle (oracle.tsx), over *)
(* one cache of queries, the API server and an oracle that may be dead.    *)
(*                                                                         *)
(* A query is fetched when it has no data, when a page asks for it again   *)
(* (any time: the stale time, the focus of the window and the Refresh      *)
(* button are not told apart) and, that of the oracle, every 15 s while    *)
(* the window is visible, which it is here.  Leaving aborts what is under  *)
(* way, and what no page has shown for minutes is forgotten.  The other    *)
(* tabs' statements run at once: ApiServer cuts them.                      *)
(*                                                                         *)
(* The two queries of a page share nothing: one is fetched at a time here. *)
(*                                                                         *)
(* Left out: the search field, and the order of what is shown.             *)
(***************************************************************************)
EXTENDS ApiClient

CONSTANTS
    pageCall,       \* carries the queries of the page that is shown
    Tabs,           \* the statuses of the tabs that are used, Unset for All
    Recent          \* jobs on the overview (10)

ASSUME PagesAssumption ==
    /\ pageCall \in Calls
    /\ Unset \in Tabs /\ Tabs \subseteq Statuses \cup {Unset}
    /\ Recent \in Nat \ {0}

VARIABLES
    page, tab,      \* the page that is shown, the tab that is selected
    cache,          \* by key: the data, as a set of at most one, whether the
                    \* last fetch failed, and the number of the attempt
                    \* under way, 0 for none
    alive           \* the oracle answers

pagevars == <<rows, call, page, tab, cache, alive>>

-----------------------------------------------------------------------------
(* The queries.  A request stands for its hook.                            *)
listJobs(status) == [op |-> "list", status |-> status]
getStats == [op |-> "stats"]
getOracleHealth == [op |-> "health"]

getListJobsQueryKeyPlain(status) == <<"/api/jobs">>
getListJobsQueryKey(status) ==
    IF status = Unset THEN <<"/api/jobs">> ELSE <<"/api/jobs", status>>
getGetStatsQueryKey == <<"/api/stats">>
OracleHealthKey == <<"oracle-health">>

Key(q) ==
    CASE q.op = "list"   -> getListJobsQueryKey(q.status)
      [] q.op = "stats"  -> getGetStatsQueryKey
      [] q.op = "health" -> OracleHealthKey

Lists == {listJobs(s) : s \in Tabs}
Queries == Lists \cup {getStats, getOracleHealth}
Keys == {Key(q) : q \in Queries}

(* The links of App.tsx, and the page that only the jobs link to.  What    *)
(* Create and JobDetail do is in modules of their own.                     *)
NAV == {"Dashboard", "Jobs", "Create", "Oracle"}
PageNames == NAV \cup {"JobDetail"}

(* The queries of the pages; of those of jobs.tsx, the selected tab's.     *)
QueriesOf(p) ==
    CASE p = "Dashboard" -> {getStats, listJobs(Unset)}
      [] p = "Jobs"      -> Lists
      [] p = "Oracle"    -> {getOracleHealth, getStats}
      [] OTHER           -> {}

Observed == QueriesOf(page) \ IF page = "Jobs" THEN Lists \ {listJobs(tab)} ELSE {}

IdleQuery == [data |-> {}, error |-> FALSE, attempt |-> 0]

PagesInit ==
    /\ ApiInit
    /\ page = "Dashboard" /\ tab = Unset
    /\ cache = [k \in Keys |-> IdleQuery]
    /\ alive = TRUE

-----------------------------------------------------------------------------
(* isLoading: there is nothing to show yet.                                *)
Query(q) == cache[Key(q)]
Loading(q) == Query(q).data = {} /\ ~Query(q).error

(* A query without data forgets that it failed, when it is tried again or  *)
(* given up.                                                               *)
WithAttempt(query, n) ==
    [data |-> query.data, error |-> query.error /\ query.data # {}, attempt |-> n]

Fetch(q) ==
    /\ q \in Observed
    /\ \A k \in Keys : cache[k].attempt = 0
    /\ Arrive(pageCall, q)
    /\ cache' = [cache EXCEPT ![Key(q)] = WithAttempt(@, 1)]
    /\ UNCHANGED <<page, tab, alive>>

FetchAgain(q) ==
    /\ Query(q).attempt > 1
    /\ Arrive(pageCall, q)
    /\ UNCHANGED <<page, tab, cache, alive>>

Data(answer) ==
    CASE "jobs" \in DOMAIN answer   -> answer.jobs
      [] "stats" \in DOMAIN answer  -> answer.stats
      [] "health" \in DOMAIN answer -> answer.health

(* A query after its attempt failed.  Of one that has data, only the page  *)
(* of the oracle looks at the error.                                       *)
FailedForgetting(k, query) ==
    IF query.attempt = 1 THEN [query EXCEPT !.attempt = 2]
    ELSE [data |-> {}, error |-> TRUE, attempt |-> 0]
Failed(k, query) ==
    IF query.attempt = 1 THEN [query EXCEPT !.attempt = 2]
    ELSE [query EXCEPT !.error = k = OracleHealthKey \/ query.data = {}, !.attempt = 0]

FetchEnds(q) ==
    /\ Query(q).attempt > 0 /\ Over(pageCall)
    /\ Release(pageCall)
    /\ cache' = [cache EXCEPT ![Key(q)] =
                    IF Fails(pageCall) THEN Failed(Key(q), @)
                    ELSE [data |-> {Data(call[pageCall].answer)},
                          error |-> FALSE, attempt |-> 0]]
    /\ UNCHANGED <<page, tab, alive>>

-----------------------------------------------------------------------------
(* What the pages make of their queries: no jobs and zeros without data,   *)
(* also when the fetch failed.                                             *)
Shown(q) == UNION Query(q).data

(* jobs.tsx: a tab's table, or its cards on a narrow screen.               *)
JobCard(entry) == [href |-> entry.job, status |-> entry.row.status, terms |-> entry.row.terms]
JobTable(q) == [skeletons |-> Loading(q), jobs |-> {JobCard(entry) : entry \in Shown(q)}]

(* dashboard.tsx: the cards above the recent jobs, and these.              *)
StatCards ==
    LET stats == Query(getStats).data
    IN  [skeletons |-> Loading(getStats),
         total     |-> IF stats = {} THEN 0 ELSE (CHOOSE s \in stats : TRUE).total]

NewerJobs(entry, entries) ==
    {e.job : e \in {x \in entries : x.row.createdAt > entry.row.createdAt}}

NewestJobs(entries) ==
    {entry.job : entry \in {e \in entries : Cardinality(NewerJobs(e, entries)) < Recent}}

RecentJobs ==
    [skeletons |-> Loading(listJobs(Unset)),
     jobs      |-> NewestJobs(Shown(listJobs(Unset)))]

(* oracle.tsx: its label, the card with it, and the panel of statistics,   *)
(* which is there only with them.                                          *)
IsUp == Query(getOracleHealth).data = {"Ok"}

IsUnreachableByBody == Query(getOracleHealth).data = {Unreachable}
IsUnreachable ==
    Query(getOracleHealth).error \/ Query(getOracleHealth).data = {Unreachable}

StatusLabel ==
    IF Loading(getOracleHealth) THEN "Checking"
    ELSE IF IsUnreachable THEN "Unreachable"
    ELSE IF IsUp THEN "Online" ELSE "Degraded"

StatusOrb ==
    IF Loading(getOracleHealth) THEN "white"
    ELSE IF IsUnreachable THEN "rose"
    ELSE IF IsUp THEN "emerald" ELSE "amber"

StatusCard ==
    [label |-> StatusLabel, orb |-> StatusOrb, offlineBanner |-> IsUnreachable]

StatsPanel == Query(getStats).data

(* Every job that is shown links to its page.                              *)
Links ==
    CASE page = "Dashboard" -> RecentJobs.jobs
      [] page = "Jobs"      -> {card.href : card \in JobTable(listJobs(tab)).jobs}
      [] OTHER              -> {}

-----------------------------------------------------------------------------
(* What is under way is aborted; a GET leaves no trace.  A query without   *)
(* data is mounted as one that loads, whatever failed before.              *)
Abort ==
    /\ cache' = [k \in Keys |->
                    IF k \in {Key(q) : q \in Observed}
                    THEN WithAttempt(cache[k], 0) ELSE cache[k]]
    /\ call' = [call EXCEPT ![pageCall] = IdleCall]

Navigate(p) ==
    /\ p # page
    /\ page' = p /\ tab' = Unset
    /\ Abort
    /\ UNCHANGED <<rows, alive>>

OpenJob(job) == job \in Links /\ Navigate("JobDetail")

(* What is observed is kept; the rest for some minutes.                    *)
Forget(q) ==
    /\ q \notin Observed
    /\ Query(q) # IdleQuery
    /\ cache' = [cache EXCEPT ![Key(q)] = IdleQuery]
    /\ UNCHANGED <<rows, call, page, tab, alive>>

SetStatusFilter(t) ==
    /\ page = "Jobs" /\ t # tab
    /\ tab' = t
    /\ Abort
    /\ UNCHANGED <<rows, page, alive>>

-----------------------------------------------------------------------------
(* The server's steps for a page's call.  A dead oracle sends nothing.     *)
Serve ==
    /\ \/ Execute(pageCall)
       \/ DbBreaks(pageCall)
       \/ \E health \in IF alive THEN Healths ELSE {Unreachable} :
             HealthReplies(pageCall, health)
    /\ UNCHANGED <<page, tab, cache, alive>>

OtherTab(q) ==
    /\ Valid(q) /\ q.op \in {"create", "patch"}
    /\ rows' = RowsAfter(pageCall, q)
    /\ UNCHANGED <<call, page, tab, cache, alive>>

OracleDies == alive /\ alive' = FALSE /\ UNCHANGED <<rows, call, page, tab, cache>>
OracleStarts == ~alive /\ alive' = TRUE /\ UNCHANGED <<rows, call, page, tab, cache>>

PagesNext ==
    \/ \E q \in Queries : Fetch(q) \/ FetchAgain(q) \/ FetchEnds(q) \/ Forget(q)
    \/ \E p \in NAV : Navigate(p)
    \/ \E job \in Links : OpenJob(job)
    \/ \E t \in Tabs : SetStatusFilter(t)
    \/ Serve
    \/ \E q \in Inbox : OtherTab(q)
    \/ OracleDies \/ OracleStarts
    \/ ApiCrash /\ UNCHANGED <<page, tab, cache, alive>>

PagesSpec == PagesInit /\ [][PagesNext]_pagevars

(* A query without data is fetched when its page is shown, the oracle's    *)
(* health by a timer, whatever the other query of the page does meanwhile; *)
(* the server ends every call, and the browser runs the continuation of a  *)
(* settled promise and the timer of a retry.                               *)
PagesFairness ==
    /\ \A q \in Queries : SF_pagevars((Loading(q) \/ q = getOracleHealth) /\ Fetch(q))
    /\ WF_pagevars(\E q \in Queries : FetchAgain(q) \/ FetchEnds(q))
    /\ WF_pagevars(Serve)

FairPagesSpec == PagesSpec /\ PagesFairness

-----------------------------------------------------------------------------
(* Whatever tabs are switched and answers come late, a tab shows only jobs *)
(* that had its status when the server looked, and the parties and amounts *)
(* of the rows (the cache's keys, jobs.tsx, GET /jobs).                    *)
TabShowsItsJobs ==
    \A q \in Lists :
        \A card \in JobTable(q).jobs :
            /\ q.status \in {card.status, Unset}
            /\ Exists(card.href) /\ card.terms = rows[card.href].terms

(* Rows are never deleted, and so what a page once showed of them it goes  *)
(* on showing while it is open: no failed fetch, retry or restart of the   *)
(* server makes it count fewer or go back to its skeletons, and a recent   *)
(* job leaves the overview only for jobs newer than itself, as many as     *)
(* there is room for (dashboard.tsx, oracle.tsx, React Query's cache).     *)
NewerRows(job) == {j \in Existing : rows[j].createdAt > rows[job].createdAt}

ShownStaysShown ==
    [][ /\ (page = "Dashboard" /\ page' = page) =>
            /\ \A job \in RecentJobs.jobs \ RecentJobs.jobs' :
                  Cardinality(NewerRows(job)) >= Recent
            /\ RecentJobs.jobs # {} => ~RecentJobs.skeletons'
            /\ StatCards.total <= StatCards.total'
            /\ StatCards.total > 0 => ~StatCards.skeletons'
        /\ (page = "Oracle" /\ page' = page) =>
            (StatsPanel # {} => StatsPanel' # {}) ]_pagevars

(* Whoever keeps the page of a dead oracle open is told in the end: the    *)
(* good news in the cache does not outlive the failing polls.              *)
DeadOracleNoticed ==
    <>[](page = "Oracle" /\ ~alive) =>
        <>[](StatusCard.orb # "emerald" /\ StatusCard.label # "Online")

(* A page that stays open does not show its skeletons for ever, whatever   *)
(* the other half of the page does.                                        *)
LoadingEnds ==
    \A p \in PageNames : \A q \in QueriesOf(p) :
        []<>~(page = p /\ q \in Observed /\ Loading(q))
=============================================================================
