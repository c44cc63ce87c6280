------------------------------ MODULE MCPages ------------------------------
(* Instances of Pages for TLC.                                             *)
EXTENDS Pages

CONSTANTS k1, j1, j2, c1, s1

(* Other tabs create the jobs and close the first one.                     *)
MCInbox ==
         [op : {"create"}, job : JobIds, terms : Terms]
    \cup [op : {"patch"}, job : {j1}, status : {"completed"}, txSig : {Unset}]

MCTabs == {Unset, "completed"}

(* The second job is created after the first one.                          *)
MCNext == PagesNext /\ (rows'[j2] # NoRow => rows'[j1] # NoRow)

MCSpec == PagesInit /\ [][MCNext]_pagevars /\ PagesFairness
=============================================================================
