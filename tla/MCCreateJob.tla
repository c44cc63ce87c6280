---------------------------- MODULE MCCreateJob ----------------------------
(* Instances of CreateJob for TLC.                                         *)
EXTENDS CreateJob

CONSTANTS k1, k2, j1, wide, c1, s1

(* Another tab creates the job that this page opens, and somebody asks     *)
(* whether the server is there.                                            *)
MCInbox ==
    [op : {"create"}, job : {j1}, terms : [client : {c1}, amount : {1}]] \cup {healthCheck}
=============================================================================
