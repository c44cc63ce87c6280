------------------------------ MODULE Listener ------------------------------
(***************************************************************************)
(* The oracle's view of the chain: the gRPC subscription of                *)
(* oracle/src/listener.ts feeding the job store of oracle/src/store.ts,    *)
(* next to the escrow program whose accounts it watches.                   *)
(*                                                                         *)
(* The stream carries account contents in order while it is up.  Nothing   *)
(* is replayed: what changes while it is down is never seen.               *)
(*                                                                         *)
(* Left out: how long a reconnect waits (Reconnect models the attempt and  *)
(* its delay), and detectedAt, which is only reported.                     *)
(***************************************************************************)
EXTENDS Escrow, Sequences

CONSTANTS
    MaxStream,     \* bound: updates the listener may be behind
    MaxGen,        \* bound: times one address is opened
    Absent         \* the store has no entry for a job id

ASSUME ListenerAssumption == MaxStream \in Nat /\ MaxGen \in Nat

VARIABLES
    store,      \* store[j]: the job kept for job id j, or Absent
    link,       \* the subscription; Down: the process is not running
    stream,     \* account updates sent and not handled yet
    gen,        \* history: how often the address of k was opened
    missed      \* history: live jobs whose update never arrives

listenerVars == <<store, link, stream, gen, missed>>
lvars == <<escrow, vault, balance, now, openedAt, settled,
           store, link, stream, gen, missed>>

LinkStates == {"Down", "Connecting", "Streaming", "Backoff"}

(* StoredJob, with the address it was read from; gen is history.           *)
StoredJobs == [key : Keys, escrow : GigEscrow, gen : Nat]

Updates == [key : Keys, data : GigEscrow \cup {NoEscrow}, gen : Nat]

ASSUME AbsentAssumption == Absent \notin StoredJobs

EmptyStore == [j \in JobIds |-> Absent]

HasPending(j) == store[j] # Absent /\ store[j].escrow.status = "Pending"

ListenerInit ==
    /\ Init
    /\ store = EmptyStore
    /\ link = "Connecting"
    /\ stream = <<>>
    /\ gen = [k \in Keys |-> 0]
    /\ missed = {}

-----------------------------------------------------------------------------
(* What a chain step sends: the new contents of the record it changed.  A  *)
(* closed account is empty and no longer the program's.                    *)
Changed == {k \in Keys : escrow'[k] # escrow[k]}

Publish ==
    LET news == {[key |-> k, data |-> escrow'[k], gen |-> gen'[k]] : k \in Changed}
    IN  /\ gen' = [k \in Keys |-> IF ~Live(k) /\ Live(k)' THEN gen[k] + 1 ELSE gen[k]]
        /\ \A k \in Keys : gen'[k] <= MaxGen
        /\ IF link = "Streaming" /\ Changed # {}
           THEN /\ Len(stream) < MaxStream
                /\ \E u \in news : stream' = Append(stream, u)
                /\ missed' = missed \ Changed
           ELSE /\ stream' = stream
                /\ missed' = (missed \ Changed) \cup {k \in Changed : Live(k)'}
        /\ UNCHANGED <<store, link>>

(* The contents decode only if there is a record in them.                  *)
Decodes(u) == u.data # NoEscrow

(* handleAccountUpdate: the store after an update.  The map is keyed by    *)
(* the job id alone.                                                       *)
EntryOf(u) == [key |-> u.key, escrow |-> u.data, gen |-> u.gen]

UpsertFirstOnly(u) ==
    [store EXCEPT ![u.data.job_id] = IF @ = Absent THEN EntryOf(u) ELSE @]
UpsertKnownOnly(u) ==
    [store EXCEPT ![u.data.job_id] = IF @ = Absent THEN @ ELSE EntryOf(u)]
UpsertKeepsTerms(u) ==
    [store EXCEPT ![u.data.job_id] =
        IF @ = Absent THEN EntryOf(u) ELSE [@ EXCEPT !.key = u.key, !.gen = u.gen]]
Upsert(u) == [store EXCEPT ![u.data.job_id] = EntryOf(u)]

Remove(j) == [store EXCEPT ![j] = Absent]

StoreAfter(u) ==
    CASE ~Decodes(u) -> store
      [] Decodes(u) /\ u.data.status = "Pending" -> Upsert(u)
      [] OTHER -> Remove(u.data.job_id)

HandleUpdate ==
    /\ link = "Streaming" /\ stream # <<>>
    /\ store' = StoreAfter(Head(stream))
    /\ stream' = Tail(stream)
    /\ UNCHANGED <<vars, link, gen, missed>>

(* The live jobs whose update is lost with the queue.                      *)
InFlight == {k \in Keys : \E i \in 1 .. Len(stream) :
                stream[i].key = k /\ Decodes(stream[i])}

Subscribe ==
    /\ link = "Connecting"
    /\ link' = "Streaming"
    /\ UNCHANGED <<vars, store, stream, gen, missed>>

(* A subscription that fails, breaks or ends waits and starts over.        *)
LoseStream ==
    /\ link \in {"Connecting", "Streaming"}
    /\ link' = "Backoff"
    /\ stream' = <<>>
    /\ missed' = missed \cup InFlight
    /\ UNCHANGED <<vars, store, gen>>

Retry ==
    /\ link = "Backoff"
    /\ link' = "Connecting"
    /\ UNCHANGED <<vars, store, stream, gen, missed>>

(* The process exits (a signal, an uncaught exception) and starts again    *)
(* with an empty store.                                                    *)
StopListener ==
    /\ link # "Down"
    /\ link' = "Down"
    /\ store' = EmptyStore
    /\ stream' = <<>>
    /\ missed' = {k \in Keys : Live(k)}
    /\ UNCHANGED <<vars, gen>>

Start ==
    /\ link = "Down"
    /\ link' = "Connecting"
    /\ UNCHANGED <<vars, store, stream, gen, missed>>

-----------------------------------------------------------------------------
ListenerNext ==
    \/ Next /\ Publish
    \/ HandleUpdate
    \/ Subscribe
    \/ LoseStream
    \/ Retry
    \/ StopListener
    \/ Start

ListenerSpec == ListenerInit /\ [][ListenerNext]_lvars

(* Node's event loop runs what is ready: a received update is handled, a   *)
(* timer that fired reconnects.                                            *)
FairListenerSpec == ListenerSpec /\ WF_lvars(HandleUpdate)

-----------------------------------------------------------------------------
(* Every variable has its type.                                            *)
ListenerTypeOK ==
    /\ store \in [JobIds -> StoredJobs \cup {Absent}]
    /\ link \in LinkStates
    /\ stream \in Seq(Updates)
    /\ Len(stream) <= MaxStream
    /\ gen \in [Keys -> 0 .. MaxGen]
    /\ missed \subseteq Keys

Entry(k) == [key |-> k, escrow |-> escrow[k], gen |-> gen[k]]

Drained == link = "Streaming" /\ stream = <<>>

(* Once the queue is empty, a live job whose update was not lost is in the *)
(* store with its current terms, never with those of an earlier job at the *)
(* same address; only a job of another client with the same id can have    *)
(* taken its place.                                                        *)
FreshWhenDrained ==
    Drained => \A k \in Keys \ missed : Live(k) =>
        /\ store[k[2]] # Absent
        /\ store[k[2]].key = k => store[k[2]] = Entry(k)

(* A stored record is never ahead of the chain: it was opened, and if its  *)
(* job is the one that lives at its address, its terms are the chain's.    *)
NeverAhead ==
    \A j \in JobIds : store[j] # Absent =>
        LET s == store[j]
        IN  /\ s.key[2] = j /\ s.gen \in 1 .. gen[s.key]
            /\ s.gen = gen[s.key] /\ Live(s.key) => s = Entry(s.key)

(* The updates on their way, as the entries they will make.                *)
Announced == {EntryOf(stream[i]) : i \in {n \in 1 .. Len(stream) : Decodes(stream[n])}}

R == INSTANCE Registry WITH Terms <- GigEscrow,
                            opened <- gen, news <- Announced, known <- store

(* To its readers the store is a registry of announced jobs: an entry is   *)
(* one update word for word, taken over once, never after a later one of   *)
(* its address, and what was forgotten does not come back by itself.       *)
ImplementsRegistry == R!Spec

(* A job whose update was sent is detected, or closed, or its update lost  *)
(* with the stream: the listener never just sits on it.                    *)
EveryJobDetected ==
    \A k \in Keys : Live(k) /\ k \notin missed ~>
        store[k[2]] # Absent \/ ~Live(k) \/ k \in missed

=============================================================================
