----------------------------- MODULE JobsTable -----------------------------
(***************************************************************************)
(* What the table of jobs promises to whoever reads it, and nothing else:  *)
(* requests, answers, broken connections and restarts are hidden.          *)
(*                                                                         *)
(* An id that fits is entered once, by one author, without a proof.  Its   *)
(* terms and its author stand for good.  Its status may become any other,  *)
(* and a proof of what was done on the chain may be replaced by another;   *)
(* only what settles an entry may take the proof away that it had, never   *)
(* what leaves it pending or makes it so.  One entry changes at a time.    *)
(***************************************************************************)
CONSTANTS Ids, Unfit, Terms, Authors, Statuses, Proofs

VARIABLE table   \* table[i]: the entry of id i, as a set of at most one

Init == table = [i \in Ids |-> {}]

Enter(i, terms, author) ==
    /\ table[i] = {}
    /\ table' = [table EXCEPT ![i] =
           {[terms |-> terms, by |-> author, status |-> "pending", proof |-> {}]}]

Becomes(i, entry, status, proof) ==
    table' = [table EXCEPT ![i] =
        {[terms |-> entry.terms, by |-> entry.by, status |-> status, proof |-> proof]}]

Amend(i, status, proof) ==
    \E entry \in table[i] :
        /\ entry.proof # {} => proof # {}
        /\ Becomes(i, entry, status, proof)

Settle(i, status, proof) ==
    /\ status # "pending"
    /\ \E entry \in table[i] : Becomes(i, entry, status, proof)

Next ==
    \/ \E i \in Ids \ Unfit, terms \in Terms, author \in Authors : Enter(i, terms, author)
    \/ \E i \in Ids, status \in Statuses, proof \in {{}} \cup {{p} : p \in Proofs} :
          Amend(i, status, proof) \/ Settle(i, status, proof)

Spec == Init /\ [][Next]_table
=============================================================================
