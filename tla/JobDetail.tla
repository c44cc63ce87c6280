----------------------------- MODULE JobDetail -----------------------------
(***************************************************************************)
(* The page of one job (apps/dashboard/src/pages/job-detail.tsx): a cached *)
(* query, two buttons that update the job's row and a form that submits a  *)
(* deliverable, over the API server that other tabs call too.              *)
(*                                                                         *)
(* React Query is modelled from how the page and App.tsx use it: a query   *)
(* is stale after 10 s and is tried twice; what is stale is fetched when   *)
(* the page is mounted and when the window gets the focus back.  A page    *)
(* that is left forgets its state but not the cache; its query is aborted, *)
(* its mutations go on without it.                                         *)
(*                                                                         *)
(* Left out: what is typed into the form and its error text, how the page  *)
(* is laid out, the cache being dropped some minutes after the page was    *)
(* left, and a navigation from one job's page straight to another's.       *)
(***************************************************************************)
EXTENDS ApiClient

CONSTANT jobId      \* of the route

ASSUME JobDetailAssumption == jobId \in JobIds

(* The code's only updates are the two buttons': no tab reopens a job.     *)
ASSUME UpdatesAssumption == \A q \in Inbox : q.op = "patch" => q.status # "pending"

VARIABLES
    mounted,    \* the page is shown
    page,       \* its state
    cache,      \* the query of the job
    fetching,   \* the call of that query, or NoCall
    retried     \* that call is the second one

clientvars == <<mounted, page, cache, fetching, retried>>
detailvars == <<rows, call, mounted, page, cache, fetching, retried>>

NewPage == [updating |-> NoCall, submitting |-> NoCall,
            outcome |-> Unset, submitted |-> FALSE]

DetailInit ==
    /\ ApiInit
    /\ mounted = FALSE
    /\ page = NewPage
    /\ cache = [data |-> NoRow, stale |-> TRUE, error |-> FALSE]
    /\ fetching = NoCall
    /\ retried = FALSE

Held == {fetching, page.updating, page.submitting}

Send(c, q) == c \notin Held /\ Arrive(c, q)

-----------------------------------------------------------------------------
(* The query.                                                              *)
Mount ==
    /\ ~mounted /\ mounted' = TRUE
    /\ UNCHANGED <<apivars, page, cache, fetching, retried>>

Unmount ==
    /\ mounted /\ mounted' = FALSE
    /\ page' = NewPage
    /\ fetching' = NoCall
    /\ retried' = FALSE
    /\ UNCHANGED <<apivars, cache>>

Ages ==
    /\ ~cache.stale
    /\ cache' = [cache EXCEPT !.stale = TRUE]
    /\ UNCHANGED <<apivars, mounted, page, fetching, retried>>

(* A query without data forgets its error when it is tried again.          *)
Fetch(c) ==
    /\ mounted /\ cache.stale
    /\ fetching = NoCall
    /\ Send(c, getJob(jobId))
    /\ fetching' = c
    /\ cache' = [cache EXCEPT !.error = @ /\ cache.data # NoRow]
    /\ UNCHANGED <<mounted, page, retried>>

FetchAgain(c) ==
    /\ c = fetching /\ call[c].at = "Idle"
    /\ Arrive(c, getJob(jobId))
    /\ UNCHANGED clientvars

Fetched(c) == [data |-> call[c].answer.row, stale |-> FALSE, error |-> FALSE]

FetchEnds(c) ==
    /\ c = fetching /\ Over(c)
    /\ Release(c)
    /\ IF Fails(c) /\ ~retried
       THEN retried' = TRUE /\ UNCHANGED <<fetching, cache>>
       ELSE /\ retried' = FALSE
            /\ fetching' = NoCall
            /\ cache' = IF Fails(c) THEN [cache EXCEPT !.error = TRUE] ELSE Fetched(c)
    /\ UNCHANGED <<mounted, page>>

(* invalidate(), after a mutation: it makes stale what is cached under the *)
(* generated key; the page caches under a key of its own.                  *)
QueryKey == <<"job", jobId>>

Invalidated ==
    IF QueryKey = getGetJobQueryKey(jobId) THEN [cache EXCEPT !.stale = TRUE] ELSE cache

-----------------------------------------------------------------------------
(* What the page shows.  After an error that is nothing of the job, even   *)
(* if the page has it.                                                     *)
Loading == cache.data = NoRow /\ ~cache.error

Shown == mounted /\ ~cache.error /\ cache.data # NoRow

ShownPending == Shown /\ cache.data.status = "pending"

EscrowDetails == [terms |-> cache.data.terms, txSig |-> cache.data.txSig]

VerdictShown == Shown /\ page.outcome # Unset
FormShown == ShownPending /\ ~page.submitted
ClosedShown == Shown /\ ~ShownPending
AnotherShown == Shown /\ page.submitted /\ page.outcome # Unset

Screen ==
    IF ~mounted THEN {}
    ELSE IF Loading THEN {"Skeleton"}
    ELSE IF ~Shown THEN {"JobNotFound"}
    ELSE {"Details"} \cup {s \in {"Actions", "Verdict", "Form", "Another", "Closed"} :
            CASE s = "Actions" -> ShownPending
              [] s = "Verdict" -> VerdictShown
              [] s = "Form"    -> FormShown
              [] s = "Another" -> AnotherShown
              [] s = "Closed"  -> ClosedShown}

MarkJob(c, status) ==
    /\ "Actions" \in Screen /\ page.updating = NoCall
    /\ Send(c, updateJob(jobId, status))
    /\ page' = [page EXCEPT !.updating = c]
    /\ UNCHANGED <<mounted, cache, fetching, retried>>

UpdateEndsSetting(c) ==
    /\ c = page.updating /\ Over(c)
    /\ Release(c)
    /\ page' = [page EXCEPT !.updating = NoCall]
    /\ cache' = IF Fails(c) THEN cache ELSE Fetched(c)
    /\ UNCHANGED <<mounted, fetching, retried>>
UpdateEnds(c) ==
    /\ c = page.updating /\ Over(c)
    /\ Release(c)
    /\ page' = [page EXCEPT !.updating = NoCall]
    /\ cache' = IF Fails(c) THEN cache ELSE Invalidated
    /\ UNCHANGED <<mounted, fetching, retried>>

HandleSubmit(c) ==
    /\ "Form" \in Screen /\ page.submitting = NoCall
    /\ Send(c, submitDeliverable(jobId))
    /\ page' = [page EXCEPT !.submitting = c, !.outcome = Unset]
    /\ UNCHANGED <<mounted, cache, fetching, retried>>

SubmitEnds(c) ==
    /\ c = page.submitting /\ Over(c)
    /\ Release(c)
    /\ IF Fails(c)
       THEN /\ page' = [page EXCEPT !.submitting = NoCall]
            /\ UNCHANGED cache
       ELSE /\ page' = [page EXCEPT !.submitting = NoCall, !.submitted = TRUE,
                                    !.outcome = call[c].answer.reply.outcome]
            /\ cache' = Invalidated
    /\ UNCHANGED <<mounted, fetching, retried>>

SubmitAnother ==
    /\ "Another" \in Screen
    /\ page' = [page EXCEPT !.submitted = FALSE, !.outcome = Unset]
    /\ UNCHANGED <<apivars, mounted, cache, fetching, retried>>

-----------------------------------------------------------------------------
User ==
    \/ Mount
    \/ Unmount
    \/ \E c \in Calls : \/ \E s \in {"completed", "cancelled"} : MarkJob(c, s)
                        \/ HandleSubmit(c)
    \/ SubmitAnother

(* What the browser does once a call is over.                              *)
Continue(c) == FetchEnds(c) \/ FetchAgain(c) \/ UpdateEnds(c) \/ SubmitEnds(c)

Serve(c) == ApiStep(c) /\ UNCHANGED clientvars

DetailNext ==
    \/ User
    \/ Ages
    \/ \E c \in Calls : \/ Fetch(c) \/ Continue(c) \/ Serve(c)
                        \/ OtherTabs(c, Held) /\ UNCHANGED clientvars
    \/ ApiCrash /\ UNCHANGED clientvars

DetailSpec == DetailInit /\ [][DetailNext]_detailvars

(* The server ends every call (ApiServer), and the browser runs the        *)
(* continuation of a promise that is settled and a timer that fired.       *)
FairDetailSpec ==
    DetailSpec /\ \A c \in Calls : WF_detailvars(Serve(c)) /\ WF_detailvars(Continue(c))

-----------------------------------------------------------------------------
(* However old what the page shows is, the parties and the amount are      *)
(* those of the row: a cached job is never one that was replaced since.    *)
ShownTermsHold ==
    "Details" \in Screen =>
        /\ Exists(jobId) /\ EscrowDetails.terms = rows[jobId].terms
        /\ cache.data.by = rows[jobId].by

(* Once the page has seen the job settled it never takes it for pending    *)
(* again, and so never offers its form and buttons again: no answer that   *)
(* was read before a settlement is stored after one that was read behind   *)
(* it, whatever is left, aborted, tried again, updated or submitted        *)
(* meanwhile.                                                              *)
Settled(row) == row # NoRow /\ row.status # "pending"

SettledStaysSettled ==
    [][Settled(cache.data) => Settled(cache'.data)]_detailvars

(* No spinner turns for ever: a query with its retry, an update and a      *)
(* submission all end, through errors, broken connections and restarts of  *)
(* the server.                                                             *)
NothingPendsForever ==
    /\ fetching # NoCall ~> fetching = NoCall
    /\ page.updating # NoCall ~> page.updating = NoCall
    /\ page.submitting # NoCall ~> page.submitting = NoCall

=============================================================================
