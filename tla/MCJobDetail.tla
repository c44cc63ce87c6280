---------------------------- MODULE MCJobDetail ----------------------------
(* Instances of JobDetail for TLC.                                         *)
EXTENDS JobDetail

CONSTANTS k1, k2, j1, c1

(* Other tabs create the job and update it.                                *)
MCInbox ==
         [op : {"create"}, job : {j1}, terms : Terms]
    \cup [op : {"patch"}, job : {j1}, status : {"completed"}, txSig : {Unset}]
=============================================================================
