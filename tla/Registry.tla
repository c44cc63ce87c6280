------------------------------ MODULE Registry ------------------------------
(***************************************************************************)
(* What the oracle's store of jobs promises to whoever reads it, and       *)
(* nothing else: streams, reconnects, queues, handlers and the chain's     *)
(* other state are hidden.                                                 *)
(*                                                                         *)
(* Each opening of an address is announced at most once, with its terms.   *)
(* An announcement is entered at most once, word for word, and never after *)
(* a later one of the same address.  Announcements get lost; an entry may  *)
(* be forgotten at any time, and once it is, only a new opening brings the *)
(* address back.                                                           *)
(***************************************************************************)
EXTENDS Naturals

CONSTANTS Keys, JobIds, Terms, Absent

VARIABLES
    opened,  \* opened[k]: how often the address k was opened
    news,    \* announcements that are still to be entered
    known    \* known[j]: the entry under job id j, or Absent

vars == <<opened, news, known>>

NothingKnown == [j \in JobIds |-> Absent]

Init ==
    /\ opened = [k \in Keys |-> 0]
    /\ news = {}
    /\ known = NothingKnown

Announcements(k) == [key : {k}, escrow : Terms, gen : {opened[k] + 1}]

Open(k) ==
    /\ opened' = [opened EXCEPT ![k] = @ + 1]
    /\ \/ news' = news
       \/ \E e \in news' : e \in Announcements(k) /\ news' = news \cup {e}
    /\ UNCHANGED known

Learn(e) ==
    /\ known' = [known EXCEPT ![e.key[2]] = e]
    /\ news' = {x \in news : x.key = e.key => x.gen > e.gen}
    /\ UNCHANGED opened

Forget(j) ==
    /\ known' = [known EXCEPT ![j] = Absent]
    /\ UNCHANGED <<opened, news>>

Lose ==
    /\ news' = {}
    /\ known' \in {known, NothingKnown}
    /\ UNCHANGED opened

Next ==
    \/ \E k \in Keys : Open(k)
    \/ \E e \in news : Learn(e)
    \/ \E j \in JobIds : Forget(j)
    \/ Lose

Spec == Init /\ [][Next]_vars
=============================================================================
