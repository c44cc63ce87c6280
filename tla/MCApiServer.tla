---------------------------- MODULE MCApiServer ----------------------------
(* Instances of ApiServer for TLC.                                         *)
EXTENDS ApiServer

CONSTANTS a1, a2, a3, j1, j2, long, c1, s1

(* One job that two callers may want with different terms, and another.    *)
MCInbox ==
         [op : {"create"}, job : {j1}, terms : Terms]
    \cup [op : {"create"}, job : {j2, long}, terms : [client : {c1}, amount : {1}]]
    \cup [op : {"patch"}, job : {j1}, status : {"pending", "completed"}, txSig : {Unset}]
    \cup [op : {"patch"}, job : {j1}, status : {Unset}, txSig : {s1}]
    \cup [op : {"submit"}, job : {j1}]
    \cup [op : {"stats", "health", "healthz", "malformed"}]
    \cup [op : {"list"}, status : {"pending"}]
=============================================================================
