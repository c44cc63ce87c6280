----------------------------- MODULE ApiClient -----------------------------
(***************************************************************************)
(* The generated client (lib/api-client-react/src/generated/api.ts) at its *)
(* two ends: how a page's query or mutation makes a call of the API        *)
(* server, and how the call is over for it.  A call that no page waits for *)
(* any more, and the calls of other tabs, go on beside.                    *)
(***************************************************************************)
EXTENDS ApiServer, CustomFetch

CONSTANT NoCall     \* a page waits for nothing

ASSUME NoCallAssumption == NoCall \notin Calls

(* The requests of the hooks: the pages use all but the first, which is    *)
(* for whoever watches the server.                                         *)
healthCheck == [op |-> "healthz"]
createJob(j, terms) == [op |-> "create", job |-> j, terms |-> terms]
getJob(j) == [op |-> "get", job |-> j]
updateJob(j, status) == [op |-> "patch", job |-> j, status |-> status, txSig |-> Unset]
submitDeliverable(j) == [op |-> "submit", job |-> j]

(* The key a query is cached under, unless its caller gives another.       *)
getGetJobQueryKey(j) == <<"/api/jobs/", j>>

(* The server's answers are JSON objects; a connection that dies makes     *)
(* fetch throw.                                                            *)
Wire(answer) == [status |-> answer.code, contentLength0 |-> FALSE,
                 media |-> "json", body |-> "Object"]

OverIfAnswered(c) == c # NoCall /\ call[c].at = "Answered"
Over(c) == c # NoCall /\ call[c].at \in {"Answered", "Lost"}

Fails(c) ==
    \/ call[c].at = "Lost"
    \/ Throws(customFetch(Wire(call[c].answer), "GET", "auto"))

Release(c) == call' = [call EXCEPT ![c] = IdleCall] /\ UNCHANGED rows

(* held: the calls the page waits for.                                     *)
OtherTabs(c, held) ==
    /\ c \notin held
    /\ \/ \E q \in Inbox : Arrive(c, q)
       \/ Over(c) /\ Release(c)

-----------------------------------------------------------------------------
(* Whatever a proxy on the way makes of an answer (another status, another *)
(* type, no body or a broken one), the caller is given what it says, or is *)
(* thrown an ApiError with it: never an error status as a parse error, and *)
(* never a JSON value as anything else; and whatever is configured, what   *)
(* the caller asks for is what is sent (custom-fetch.ts, and the same of   *)
(* the oracle's client in lib/sdk).                                        *)
FetchContract ==
    \A c \in Calls : call[c].at = "Answered" =>
        Misunderstood = {} /\ Disobeyed = {} /\ OracleMisreported = {}
=============================================================================
