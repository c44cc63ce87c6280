---------------------------- MODULE OracleProofs ----------------------------
(***************************************************************************)
(* Proofs about the oracle: its listener, how that one reconnects, and its *)
(* handlers.  However streams break and processes restart, the store is    *)
(* never ahead of the chain and is current once the queue is drained; the  *)
(* stream is back within the cap; and for any number of concurrent         *)
(* submissions, crashes and lost confirmations, what the service tells its *)
(* callers is true, and what its key settles was agreed and is settled     *)
(* once.  With the models beside it, what its key settles is what the two  *)
(* models of one verification voted for.                                   *)
(***************************************************************************)
EXTENDS Verification, EscrowProofs, Reconnect

(* What an update that carries a record says, seen from the present.       *)
Sound(u) ==
    /\ u.data.job_id = u.key[2] /\ u.data.status = "Pending"
    /\ u.gen \in 1 .. gen[u.key]
    /\ u.gen = gen[u.key] /\ Live(u.key) => u.data = escrow[u.key]

SentSound == \A i \in 1 .. Len(stream) : Decodes(stream[i]) => Sound(stream[i])

(* No update after the i-th brings back an earlier job of k.               *)
Current(u, k) == u.key = k /\ Decodes(u) => EntryOf(u) = Entry(k)

NoneOlderAfter(i, k) == \A n \in 1 .. Len(stream) : n > i => Current(stream[n], k)

OnItsWay(k) ==
    \E i \in 1 .. Len(stream) :
        /\ stream[i].key = k /\ Decodes(stream[i])
        /\ Current(stream[i], k)
        /\ NoneOlderAfter(i, k)

Known(k) ==
    /\ store[k[2]] # Absent
    /\ store[k[2]].key = k => store[k[2]] = Entry(k)

(* What was not lost is on its way or has arrived.                         *)
Arrives ==
    \A k \in Keys \ missed : Live(k) =>
        OnItsWay(k) \/ (Known(k) /\ NoneOlderAfter(0, k))

(* The inductive invariant of the listener and the chain it watches.       *)
LInv ==
    /\ IInv
    /\ ListenerTypeOK
    /\ SentSound
    /\ NeverAhead
    /\ Arrives

-----------------------------------------------------------------------------
LEMMA InitEstablishesLInv == ListenerInit => LInv
<1> SUFFICES ASSUME ListenerInit PROVE LInv
  OBVIOUS
<1>1. IInv
  BY InitEstablishesIInv DEF ListenerInit
<1>2. ListenerTypeOK
  BY ListenerAssumption DEF ListenerInit, ListenerTypeOK, EmptyStore, LinkStates
<1>3. SentSound
  BY DEF ListenerInit, SentSound
<1>4. NeverAhead
  BY DEF ListenerInit, NeverAhead, EmptyStore
<1>5. Arrives
  BY DEF ListenerInit, Init, Arrives, Live
<1> QED BY <1>1, <1>2, <1>3, <1>4, <1>5 DEF LInv

(* A step of the chain opens one job, closes one job, or leaves the        *)
(* records alone.                                                          *)
LEMMA OneRecordChanges ==
    ASSUME IInv, [Next]_vars, escrow' # escrow
    PROVE  \E k \in Keys :
              /\ \A q \in Keys \ {k} : escrow'[q] = escrow[q]
              /\ escrow'[k] # escrow[k]
              /\ escrow[k] = NoEscrow \/ escrow'[k] = NoEscrow
<1>0. escrow \in [Keys -> GigEscrow \cup {NoEscrow}]
      /\ escrow' \in [Keys -> GigEscrow \cup {NoEscrow}]
  BY NextPreservesIInv DEF IInv, TypeOK
<1>1. PICK k \in Keys : escrow'[k] # escrow[k]
  BY <1>0
<1>2. CASE Initialize
  <2>1. PICK c \in Clients, j \in JobIds, f \in Freelancers, o \in Oracles,
             a \in Amounts, d \in Durations : InitializeJob(c, j, f, o, a, d)
    BY <1>2 DEF Initialize
  <2>2. <<c, Seed(j)>> \in Keys /\ escrow[<<c, Seed(j)>>] = NoEscrow
    BY <2>1, KeyOfNewJob DEF InitializeJob, FitsSeed, AddressFree
  <2>3. \A q \in Keys : q # <<c, Seed(j)>> => escrow'[q] = escrow[q]
    BY <2>1, <1>0 DEF InitializeJob
  <2> QED BY <1>1, <2>2, <2>3
<1>3. ASSUME NEW q \in Keys, NEW payee, NEW kind, NEW signer,
             Settle(q, payee, kind, signer)
      PROVE  /\ escrow'[q] = NoEscrow
             /\ \A p \in Keys \ {q} : escrow'[p] = escrow[p]
  BY <1>0, <1>3 DEF Settle, RecordAfter
<1>4. CASE Release
  BY <1>1, <1>3, <1>4 DEF Release, ReleasePayment
<1>5. CASE Cancel
  BY <1>1, <1>3, <1>5 DEF Cancel, CancelJob
<1>6. CASE \E q \in Keys : Refund(q)
  BY <1>1, <1>3, <1>6 DEF Refund, RefundAfterTimeout
<1>7. CASE Donate \/ Tick \/ UNCHANGED vars
  BY <1>1, <1>7 DEF Donate, TransferToVault, Tick, vars
<1> QED BY <1>2, <1>4, <1>5, <1>6, <1>7 DEF Next

(* A live record is pending and names the job id of its address.           *)
LEMMA LiveIsPending ==
    ASSUME IInv, NEW k \in Keys, Live(k)
    PROVE  /\ escrow[k] \in GigEscrow
           /\ escrow[k].status = "Pending" /\ escrow[k].job_id = k[2]
BY DEF IInv, TypeOK, Live, WellPlaced, AddressesMatch

(* Publish, when the record of k changed.                                  *)
LEMMA PublishEffect ==
    ASSUME IInv, ListenerTypeOK, [Next]_vars, Publish, NEW k \in Keys,
           \A q \in Keys \ {k} : escrow'[q] = escrow[q],
           escrow'[k] # escrow[k],
           escrow[k] = NoEscrow \/ escrow'[k] = NoEscrow,
           NEW u, u = [key |-> k, data |-> escrow'[k], gen |-> gen'[k]]
    PROVE  /\ gen' \in [Keys -> 0 .. MaxGen]
           /\ \A q \in Keys \ {k} : gen'[q] = gen[q]
           /\ gen'[k] = IF escrow[k] = NoEscrow THEN gen[k] + 1 ELSE gen[k]
           /\ u \in Updates
           /\ \/ /\ stream' = Append(stream, u) /\ Len(stream) < MaxStream
                 /\ missed' = missed \ {k}
              \/ /\ stream' = stream
                 /\ missed' = (missed \ {k}) \cup {q \in {k} : Live(q)'}
           /\ store' = store /\ link' = link
<1>1. IInv'
  BY NextPreservesIInv
<1>2. Changed = {k}
  BY DEF Changed
<1>3. gen' = [q \in Keys |-> IF ~Live(q) /\ Live(q)' THEN gen[q] + 1 ELSE gen[q]]
      /\ \A q \in Keys : gen'[q] <= MaxGen
  BY DEF Publish
<1>4. gen \in [Keys -> Nat]
  BY ListenerAssumption DEF ListenerTypeOK
<1>5. \A q \in Keys : gen'[q] \in 0 .. MaxGen
  BY <1>3, <1>4, ListenerAssumption
<1>6. gen' \in [Keys -> 0 .. MaxGen]
  BY <1>3, <1>5
<1>7. \A q \in Keys \ {k} : gen'[q] = gen[q]
  BY <1>3 DEF Live
<1>8. gen'[k] = IF escrow[k] = NoEscrow THEN gen[k] + 1 ELSE gen[k]
  BY <1>3 DEF Live
<1>9. u \in Updates
  BY <1>1, <1>5, ListenerAssumption DEF Updates, IInv, TypeOK
<1>10. {[key |-> q, data |-> escrow'[q], gen |-> gen'[q]] : q \in Changed} = {u}
  BY <1>2
<1>11. CASE link = "Streaming"
  BY <1>2, <1>6, <1>7, <1>8, <1>9, <1>10, <1>11 DEF Publish
<1>12. CASE link # "Streaming"
  BY <1>2, <1>6, <1>7, <1>8, <1>9, <1>12 DEF Publish
<1> QED BY <1>11, <1>12

(* Publish, when no record changed.                                        *)
LEMMA PublishNothing ==
    ASSUME ListenerTypeOK, Publish, escrow' = escrow
    PROVE  gen' = gen /\ stream' = stream /\ missed' = missed
           /\ store' = store /\ link' = link
<1>1. Changed = {}
  BY DEF Changed
<1>2. gen' = [q \in Keys |-> gen[q]]
  BY DEF Publish, Live
<1>3. gen' = gen
  BY <1>2 DEF ListenerTypeOK
<1> QED BY <1>1, <1>3 DEF Publish

LEMMA PublishPreservesTypes ==
    ASSUME IInv, ListenerTypeOK, [Next]_vars, Publish
    PROVE  ListenerTypeOK'
<1>1. CASE escrow' = escrow
  BY <1>1, PublishNothing DEF ListenerTypeOK
<1>2. CASE escrow' # escrow
  <2>1. PICK k \in Keys : /\ \A q \in Keys \ {k} : escrow'[q] = escrow[q]
                          /\ escrow'[k] # escrow[k]
                          /\ escrow[k] = NoEscrow \/ escrow'[k] = NoEscrow
    BY <1>2, OneRecordChanges
  <2>2. PICK u : u = [key |-> k, data |-> escrow'[k], gen |-> gen'[k]]
    OBVIOUS
  <2>3. /\ gen' \in [Keys -> 0 .. MaxGen]
        /\ u \in Updates
        /\ \/ /\ stream' = Append(stream, u) /\ Len(stream) < MaxStream
              /\ missed' = missed \ {k}
           \/ /\ stream' = stream
              /\ missed' = (missed \ {k}) \cup {q \in {k} : Live(q)'}
        /\ store' = store /\ link' = link
    BY <2>1, <2>2, PublishEffect
  <2>4. /\ store \in [JobIds -> StoredJobs \cup {Absent}] /\ link \in LinkStates
        /\ stream \in Seq(Updates) /\ Len(stream) \in Nat
        /\ Len(stream) <= MaxStream /\ missed \subseteq Keys
    BY DEF ListenerTypeOK
  <2>5. missed' \subseteq Keys
    BY <2>3, <2>4
  <2>6. stream' \in Seq(Updates) /\ Len(stream') <= MaxStream
    <3>1. CASE stream' = stream
      BY <2>4, <3>1
    <3>2. CASE stream' = Append(stream, u) /\ Len(stream) < MaxStream
      <4>1. stream' \in Seq(Updates) /\ Len(stream') = Len(stream) + 1
        BY <2>3, <2>4, <3>2
      <4> QED BY <2>4, <3>2, <4>1, ListenerAssumption
    <3> QED BY <2>3, <3>1, <3>2
  <2> QED BY <2>3, <2>4, <2>5, <2>6 DEF ListenerTypeOK
<1> QED BY <1>1, <1>2

(* An address only gets older, and a record that is there without a new    *)
(* opening was there before.                                               *)
LEMMA PublishMonotone ==
    ASSUME ListenerTypeOK, Publish, NEW q \in Keys
    PROVE  /\ gen[q] \in Nat /\ gen'[q] \in Nat /\ gen[q] <= gen'[q]
           /\ Live(q)' /\ gen'[q] = gen[q] => Live(q)
           /\ Live(q) => gen'[q] = gen[q]
<1>1. gen[q] \in Nat
  BY ListenerAssumption DEF ListenerTypeOK
<1>2. gen'[q] = IF ~Live(q) /\ Live(q)' THEN gen[q] + 1 ELSE gen[q]
  BY DEF Publish
<1> QED BY <1>1, <1>2

LEMMA PublishPreservesLInv ==
    ASSUME LInv, [Next]_vars, Publish
    PROVE  LInv'
<1>1. IInv /\ IInv'
  BY NextPreservesIInv DEF LInv
<1>2. CASE escrow' = escrow
  <2>1. /\ gen' = gen /\ stream' = stream /\ missed' = missed
        /\ store' = store /\ link' = link
    BY <1>2, PublishNothing DEF LInv
  <2> QED
    BY <1>1, <1>2, <2>1
       DEF LInv, ListenerTypeOK, SentSound, Sound, NeverAhead, Entry, Live, Arrives,
           OnItsWay, NoneOlderAfter, Current, Known
<1>3. CASE escrow' # escrow
  <2>1. PICK k \in Keys : /\ \A q \in Keys \ {k} : escrow'[q] = escrow[q]
                          /\ escrow'[k] # escrow[k]
                          /\ escrow[k] = NoEscrow \/ escrow'[k] = NoEscrow
    BY <1>1, <1>3, OneRecordChanges
  <2>2. PICK u : u = [key |-> k, data |-> escrow'[k], gen |-> gen'[k]]
    OBVIOUS
  <2>3. /\ gen' \in [Keys -> 0 .. MaxGen]
        /\ \A q \in Keys \ {k} : gen'[q] = gen[q]
        /\ gen'[k] = IF escrow[k] = NoEscrow THEN gen[k] + 1 ELSE gen[k]
        /\ u \in Updates
        /\ \/ /\ stream' = Append(stream, u) /\ Len(stream) < MaxStream
              /\ missed' = missed \ {k}
           \/ /\ stream' = stream
              /\ missed' = (missed \ {k}) \cup {q \in {k} : Live(q)'}
        /\ store' = store /\ link' = link
    BY <2>1, <2>2, PublishEffect DEF LInv
  <2>4. /\ stream \in Seq(Updates) /\ Len(stream) \in Nat
        /\ gen \in [Keys -> 0 .. MaxGen] /\ gen[k] \in Nat
    BY ListenerAssumption DEF LInv, ListenerTypeOK
  <2>5. ListenerTypeOK'
    BY PublishPreservesTypes DEF LInv
  <2>6. ASSUME NEW n \in 1 .. Len(stream')
        PROVE  \/ n \in 1 .. Len(stream) /\ stream'[n] = stream[n]
               \/ n = Len(stream) + 1 /\ stream'[n] = u
    BY <2>3, <2>4, <2>6
  <2>7. ASSUME NEW g, NEW q \in Keys, g \in 1 .. gen[q]
        PROVE  /\ g \in 1 .. gen'[q]
               /\ g = gen'[q] /\ Live(q)' =>
                     g = gen[q] /\ Live(q) /\ escrow'[q] = escrow[q]
    <3>1. CASE q # k
      BY <3>1, <2>1, <2>3, <2>7 DEF Live
    <3>2. CASE q = k
      BY <3>2, <2>1, <2>3, <2>4, <2>7 DEF Live
    <3> QED BY <3>1, <3>2
  <2>8. SentSound'
    <3> SUFFICES ASSUME NEW n \in 1 .. Len(stream'), NEW v, v = stream'[n],
                        Decodes(v)
                 PROVE  Sound(v)'
      BY DEF SentSound, Decodes
    <3>1. CASE n \in 1 .. Len(stream) /\ v = stream[n]
      <4>1. Sound(v)
        BY <3>1 DEF LInv, SentSound
      <4>2. v \in Updates
        BY <3>1, <2>4
      <4>3. v.key \in Keys
        BY <4>2 DEF Updates
      <4> QED BY <4>1, <4>3, <2>7 DEF Sound
    <3>2. CASE v = u
      <4>1. escrow[k] = NoEscrow /\ Live(k)' /\ v.key = k /\ v.data = escrow'[k]
            /\ v.gen = gen'[k] /\ gen'[k] = gen[k] + 1
        BY <3>2, <2>1, <2>2, <2>3 DEF Decodes, Live
      <4>2. escrow'[k].status = "Pending" /\ escrow'[k].job_id = k[2]
        BY <1>1, <4>1 DEF IInv, WellPlaced, AddressesMatch
      <4> QED BY <2>4, <4>1, <4>2 DEF Sound
    <3> QED BY <2>6, <3>1, <3>2
  <2>9. NeverAhead'
    <3> SUFFICES ASSUME NEW j \in JobIds, NEW s, s = store[j], s # Absent
                 PROVE  /\ s.key[2] = j /\ s.gen \in 1 .. gen'[s.key]
                        /\ s.gen = gen'[s.key] /\ Live(s.key)' => s = Entry(s.key)'
      BY <2>3 DEF NeverAhead
    <3>1. s.key \in Keys
      BY DEF LInv, ListenerTypeOK, StoredJobs
    <3>2. /\ s.key[2] = j /\ s.gen \in 1 .. gen[s.key]
          /\ s.gen = gen[s.key] /\ Live(s.key) => s = Entry(s.key)
      BY DEF LInv, NeverAhead
    <3>3. /\ s.gen \in 1 .. gen'[s.key]
          /\ s.gen = gen'[s.key] /\ Live(s.key)' =>
                s.gen = gen[s.key] /\ Live(s.key) /\ escrow'[s.key] = escrow[s.key]
      BY <2>7, <3>1, <3>2
    <3> QED BY <3>2, <3>3 DEF Entry
  <2>10. Arrives'
    <3> SUFFICES ASSUME NEW q \in Keys, q \notin missed', Live(q)'
                 PROVE  (OnItsWay(q) \/ (Known(q) /\ NoneOlderAfter(0, q)))'
      BY DEF Arrives
    <3>1. CASE q = k
      <4>1. /\ stream' = Append(stream, u)
            /\ u.key = q /\ Decodes(u) /\ EntryOf(u) = Entry(q)'
        BY <3>1, <2>2, <2>3 DEF Decodes, EntryOf, Entry, Live
      <4>2. PICK i : i = Len(stream) + 1
        OBVIOUS
      <4>3. i \in 1 .. Len(stream') /\ Len(stream') = i /\ stream'[i] = u
        BY <4>1, <4>2, <2>3, <2>4
      <4>4. Current(stream[i], q)'
        BY <4>1, <4>3 DEF Current, EntryOf, Decodes
      <4>5. NoneOlderAfter(i, q)'
        BY <4>3, <2>4, <4>2 DEF NoneOlderAfter
      <4>6. OnItsWay(q)'
        BY <4>1, <4>3, <4>4, <4>5 DEF OnItsWay, Decodes
      <4> QED BY <4>6
    <3>2. CASE q # k
      <4>1. /\ q \notin missed /\ Live(q) /\ Entry(q)' = Entry(q)
            /\ escrow'[q] = escrow[q]
        BY <3>2, <2>1, <2>3 DEF Live, Entry
      <4>2. \A v : Current(v, q) => Current(v, q)'
        BY <4>1 DEF Current, EntryOf, Decodes
      <4>3. Current(u, q)'
        BY <3>2, <2>2 DEF Current
      <4>4. ASSUME NEW i \in Nat, NoneOlderAfter(i, q) PROVE NoneOlderAfter(i, q)'
        BY <2>6, <4>2, <4>3, <4>4 DEF NoneOlderAfter
      <4>5. CASE OnItsWay(q)
        <5>1. PICK i \in 1 .. Len(stream) :
                 /\ stream[i].key = q /\ Decodes(stream[i])
                 /\ Current(stream[i], q)
                 /\ NoneOlderAfter(i, q)
          BY <4>5 DEF OnItsWay
        <5>2. i \in 1 .. Len(stream') /\ stream'[i] = stream[i]
          BY <2>3, <2>4
        <5>3. NoneOlderAfter(i, q)'
          BY <4>4, <5>1, <2>4
        <5> QED BY <4>2, <5>1, <5>2, <5>3 DEF OnItsWay, Decodes
      <4>6. CASE Known(q) /\ NoneOlderAfter(0, q)
        BY <4>1, <4>4, <4>6, <2>3 DEF Known
      <4> QED BY <4>1, <4>5, <4>6 DEF LInv, Arrives
    <3> QED BY <3>1, <3>2
  <2> QED BY <1>1, <2>5, <2>8, <2>9, <2>10 DEF LInv
<1> QED BY <1>2, <1>3

LEMMA HandleUpdatePreservesTypes ==
    ASSUME ListenerTypeOK, HandleUpdate
    PROVE  ListenerTypeOK'
<1>1. /\ stream \in Seq(Updates) /\ stream # <<>> /\ Len(stream) \in Nat
      /\ store \in [JobIds -> StoredJobs \cup {Absent}]
  BY DEF ListenerTypeOK, HandleUpdate
<1>2. PICK h \in Updates : h = Head(stream)
  BY <1>1
<1>3. stream' = Tail(stream) /\ store' = StoreAfter(h) /\ UNCHANGED <<link, gen, missed>>
  BY <1>2 DEF HandleUpdate
<1>4. StoreAfter(h) \in [JobIds -> StoredJobs \cup {Absent}]
  <2>1. CASE Decodes(h)
    <3>1. h.data \in GigEscrow /\ EntryOf(h) \in StoredJobs
      BY <1>2, <2>1, ListenerAssumption DEF Decodes, Updates, EntryOf, StoredJobs
    <3> QED BY <1>1, <2>1, <3>1 DEF StoreAfter, Upsert, Remove
  <2> QED BY <1>1, <2>1 DEF StoreAfter
<1>5. stream' \in Seq(Updates) /\ Len(stream') = Len(stream) - 1
  BY <1>1, <1>3
<1>6. Len(stream') <= MaxStream
  BY <1>1, <1>5, ListenerAssumption DEF ListenerTypeOK
<1>7. link' \in LinkStates /\ gen' \in [Keys -> 0 .. MaxGen] /\ missed' \subseteq Keys
  BY <1>3 DEF ListenerTypeOK
<1> QED BY <1>3, <1>4, <1>5, <1>6, <1>7 DEF ListenerTypeOK

LEMMA HandleUpdatePreservesLInv ==
    ASSUME LInv, HandleUpdate
    PROVE  LInv'
<1>1. /\ stream \in Seq(Updates) /\ stream # <<>> /\ Len(stream) \in Nat
      /\ store \in [JobIds -> StoredJobs \cup {Absent}]
  BY DEF LInv, ListenerTypeOK, HandleUpdate
<1>2. PICK h \in Updates : h = stream[1] /\ h = Head(stream)
  BY <1>1
<1>3. /\ stream' = Tail(stream) /\ store' = StoreAfter(h)
      /\ UNCHANGED <<escrow, vault, balance, now, openedAt, settled, link, gen, missed>>
  BY <1>2 DEF HandleUpdate, vars
<1>4. /\ Len(stream') = Len(stream) - 1 /\ stream' \in Seq(Updates)
      /\ \A n \in 1 .. Len(stream') : stream'[n] = stream[n + 1]
      /\ 1 \in 1 .. Len(stream)
  BY <1>1, <1>3
<1>5. IInv'
  BY <1>3, StutterPreservesIInv DEF vars, LInv
<1>6. ListenerTypeOK'
  BY HandleUpdatePreservesTypes DEF LInv
<1>7. SentSound'
  BY <1>1, <1>3, <1>4 DEF LInv, SentSound, Sound, Live, Decodes
<1>8. ASSUME Decodes(h)
      PROVE  /\ Sound(h) /\ EntryOf(h) \in StoredJobs /\ EntryOf(h) # Absent
             /\ h.key \in Keys /\ h.data.job_id \in JobIds
             /\ store' = [store EXCEPT ![h.data.job_id] = EntryOf(h)]
  <2>1. Sound(h)
    BY <1>2, <1>4, <1>8 DEF LInv, SentSound
  <2>2. h.data \in GigEscrow /\ h.key \in Keys /\ EntryOf(h) \in StoredJobs
    BY <1>2, <1>8 DEF Decodes, Updates, EntryOf, StoredJobs
  <2>3. store' = [store EXCEPT ![h.data.job_id] = EntryOf(h)]
    BY <1>3, <1>8, <2>1 DEF StoreAfter, Upsert, Sound
  <2> QED BY <2>1, <2>2, <2>3, AbsentAssumption DEF GigEscrow
<1>9. NeverAhead'
  <2> SUFFICES ASSUME NEW j \in JobIds, store'[j] # Absent
               PROVE  /\ store'[j].key[2] = j /\ store'[j].gen \in 1 .. gen[store'[j].key]
                      /\ store'[j].gen = gen[store'[j].key] /\ Live(store'[j].key)
                            => store'[j] = Entry(store'[j].key)
    BY <1>3 DEF NeverAhead, Entry, Live
  <2>1. CASE store'[j] = store[j]
    BY <2>1 DEF LInv, NeverAhead
  <2>2. CASE store'[j] # store[j]
    <3>1. Decodes(h)
      BY <1>3, <2>2 DEF StoreAfter
    <3>2. j = h.data.job_id /\ store'[j] = EntryOf(h)
      BY <1>1, <1>8, <2>2, <3>1
    <3> QED BY <1>8, <3>1, <3>2 DEF Sound, EntryOf, Entry
  <2> QED BY <2>1, <2>2
<1>10. Arrives'
  <2> SUFFICES ASSUME NEW q \in Keys, q \notin missed, Live(q)
               PROVE  (OnItsWay(q) \/ (Known(q) /\ NoneOlderAfter(0, q)))'
    BY <1>3 DEF Arrives, Live
  <2>1. \A v : Current(v, q)' <=> Current(v, q)
    BY <1>3 DEF Current, Entry, EntryOf, Decodes
  <2>2. ASSUME NEW i \in Nat, NoneOlderAfter(i + 1, q) PROVE NoneOlderAfter(i, q)'
    <3> SUFFICES ASSUME NEW n \in 1 .. Len(stream'), n > i
                 PROVE  Current(stream[n], q)'
      BY DEF NoneOlderAfter
    <3>1. n + 1 \in 1 .. Len(stream) /\ stream'[n] = stream[n + 1] /\ n + 1 > i + 1
      BY <1>1, <1>4
    <3>2. Current(stream[n + 1], q)
      BY <2>2, <3>1 DEF NoneOlderAfter
    <3> QED BY <3>1, <3>2, <2>1 DEF Current
  <2>3. ASSUME Current(h, q), Known(q) \/ (h.key = q /\ Decodes(h)) PROVE Known(q)'
    <3>1. q[2] \in JobIds
      BY DEF Keys
    <3>2. CASE store'[q[2]] = store[q[2]] /\ Known(q)
      BY <1>3, <3>2 DEF Known, Entry
    <3>3. CASE Decodes(h) /\ h.data.job_id = q[2]
      <4>1. store'[q[2]] = EntryOf(h) /\ EntryOf(h) # Absent
        BY <1>1, <1>8, <3>1, <3>3
      <4>2. EntryOf(h).key = q => EntryOf(h) = Entry(q)
        BY <2>3, <3>3 DEF Current, EntryOf
      <4> QED BY <1>3, <4>1, <4>2 DEF Known, Entry
    <3>4. Decodes(h) /\ h.data.job_id # q[2] => store'[q[2]] = store[q[2]] /\ h.key # q
      BY <1>1, <1>8, <3>1 DEF Sound
    <3>5. ~Decodes(h) => store'[q[2]] = store[q[2]]
      BY <1>3 DEF StoreAfter
    <3> QED BY <2>3, <3>2, <3>3, <3>4, <3>5
  <2>4. CASE Known(q) /\ NoneOlderAfter(0, q)
    <3>1. Current(h, q)
      BY <1>1, <1>2, <1>4, <2>4 DEF NoneOlderAfter
    <3>2. NoneOlderAfter(0 + 1, q)
      BY <2>4 DEF NoneOlderAfter
    <3> QED BY <2>2, <2>3, <2>4, <3>1, <3>2
  <2>5. CASE OnItsWay(q)
    <3>1. PICK i \in 1 .. Len(stream) :
             /\ stream[i].key = q /\ Decodes(stream[i])
             /\ Current(stream[i], q)
             /\ NoneOlderAfter(i, q)
      BY <2>5 DEF OnItsWay
    <3>2. CASE i = 1
      <4>1. Known(q)'
        BY <1>2, <2>3, <3>1, <3>2
      <4>2. NoneOlderAfter(0, q)'
        BY <2>2, <3>1, <3>2
      <4> QED BY <4>1, <4>2
    <3>3. CASE i # 1
      <4>1. PICK p : p = i - 1
        OBVIOUS
      <4>2. p \in 1 .. Len(stream') /\ stream'[p] = stream[i] /\ p \in Nat /\ i = p + 1
        BY <1>1, <1>4, <3>1, <3>3, <4>1
      <4>3. Current(stream[p], q)' /\ NoneOlderAfter(p, q)'
        BY <2>1, <2>2, <3>1, <4>2 DEF Current
      <4> QED BY <3>1, <4>2, <4>3 DEF OnItsWay, Decodes
    <3> QED BY <3>2, <3>3
  <2> QED BY <2>4, <2>5 DEF LInv, Arrives
<1> QED BY <1>5, <1>6, <1>7, <1>9, <1>10 DEF LInv

(* The stream breaks, or is waited for.                                    *)
LEMMA LinkPreservesTypes ==
    ASSUME ListenerTypeOK, Subscribe \/ LoseStream \/ Retry \/ StopListener \/ Start
    PROVE  ListenerTypeOK'
<1>0. gen' = gen
  BY DEF Subscribe, LoseStream, Retry, StopListener, Start
<1>1. /\ store \in [JobIds -> StoredJobs \cup {Absent}]
      /\ stream \in Seq(Updates) /\ Len(stream) <= MaxStream
      /\ gen \in [Keys -> 0 .. MaxGen] /\ missed \subseteq Keys
  BY DEF ListenerTypeOK
<1>2. link' \in LinkStates
  BY DEF Subscribe, LoseStream, Retry, StopListener, Start, LinkStates
<1>3. store' \in [JobIds -> StoredJobs \cup {Absent}]
  BY <1>1 DEF Subscribe, LoseStream, Retry, StopListener, Start, EmptyStore
<1>4. stream' = stream \/ stream' = <<>>
  BY DEF Subscribe, LoseStream, Retry, StopListener, Start
<1>5. stream' \in Seq(Updates) /\ Len(stream') <= MaxStream
  <2>1. <<>> \in Seq(Updates) /\ Len(<<>>) <= MaxStream
    BY ListenerAssumption
  <2>2. CASE stream' = stream
    BY <1>1, <2>2
  <2>3. CASE stream' = <<>>
    BY <2>1, <2>3
  <2> QED BY <1>4, <2>2, <2>3
<1>6. missed' \subseteq Keys
  BY <1>1 DEF Subscribe, LoseStream, Retry, StopListener, Start, InFlight
<1> QED BY <1>0, <1>1, <1>2, <1>3, <1>5, <1>6 DEF ListenerTypeOK

LEMMA LinkPreservesLInv ==
    ASSUME LInv, Subscribe \/ LoseStream \/ Retry \/ StopListener \/ Start
    PROVE  LInv'
<1>1. UNCHANGED <<escrow, vault, balance, now, openedAt, settled, gen>>
  BY DEF Subscribe, LoseStream, Retry, StopListener, Start, vars
<1>2. IInv'
  BY <1>1, StutterPreservesIInv DEF vars, LInv
<1>3. ListenerTypeOK'
  BY LinkPreservesTypes DEF LInv
<1>4. CASE Subscribe \/ Retry \/ Start
  <2>1. UNCHANGED <<store, stream, missed>>
    BY <1>4 DEF Subscribe, Retry, Start
  <2> QED
    BY <1>1, <1>2, <1>3, <2>1
       DEF LInv, SentSound, Sound, NeverAhead, Entry, Live, Arrives, OnItsWay,
           NoneOlderAfter, Current, Known
<1>5. CASE LoseStream
  <2>1. store' = store /\ stream' = <<>> /\ missed' = missed \cup InFlight
    BY <1>5 DEF LoseStream
  <2>2. SentSound' /\ NeverAhead'
    BY <1>1, <2>1 DEF LInv, SentSound, NeverAhead, Entry, Live
  <2>3. Arrives'
    <3> SUFFICES ASSUME NEW q \in Keys, q \notin missed, q \notin InFlight, Live(q)
                 PROVE  (Known(q) /\ NoneOlderAfter(0, q))'
      BY <1>1, <2>1 DEF Arrives, Live
    <3>1. ~OnItsWay(q)
      BY DEF OnItsWay, InFlight
    <3>2. Known(q)
      BY <3>1 DEF LInv, Arrives
    <3> QED BY <1>1, <2>1, <3>2 DEF Known, Entry, NoneOlderAfter
  <2> QED BY <1>2, <1>3, <2>2, <2>3 DEF LInv
<1>6. CASE StopListener
  <2>1. store' = EmptyStore /\ stream' = <<>> /\ missed' = {k \in Keys : Live(k)}
    BY <1>6 DEF StopListener
  <2>2. SentSound' /\ NeverAhead'
    BY <2>1 DEF SentSound, NeverAhead, EmptyStore
  <2>3. Arrives'
    BY <1>1, <2>1 DEF Arrives, Live
  <2> QED BY <1>2, <1>3, <2>2, <2>3 DEF LInv
<1> QED BY <1>4, <1>5, <1>6

LEMMA NextPreservesLInv == LInv /\ [ListenerNext]_lvars => LInv'
<1> SUFFICES ASSUME LInv, [ListenerNext]_lvars PROVE LInv'
  OBVIOUS
<1>1. CASE Next /\ Publish
  BY <1>1, PublishPreservesLInv
<1>2. CASE HandleUpdate
  BY <1>2, HandleUpdatePreservesLInv
<1>3. CASE Subscribe \/ LoseStream \/ Retry \/ StopListener \/ Start
  BY <1>3, LinkPreservesLInv
<1>4. CASE UNCHANGED lvars
  <2>1. IInv'
    BY <1>4, StutterPreservesIInv DEF vars, lvars, LInv
  <2> QED
    BY <1>4, <2>1
       DEF lvars, LInv, ListenerTypeOK, SentSound, Sound, NeverAhead, Entry, Live,
           Arrives, OnItsWay, NoneOlderAfter, Current, Known
<1> QED BY <1>1, <1>2, <1>3, <1>4 DEF ListenerNext

THEOREM ListenerInvariance == ListenerSpec => []LInv
<1> QED BY InitEstablishesLInv, NextPreservesLInv, PTL DEF ListenerSpec

(* Every variable of the listener keeps its type: whatever updates it is   *)
(* sent, the store maps job ids to records read from the chain.            *)
THEOREM ListenerTypes == ListenerSpec => []ListenerTypeOK
<1>1. LInv => ListenerTypeOK
  BY DEF LInv
<1> QED BY <1>1, ListenerInvariance, PTL

(* A stored record was opened on the chain, and is the one that lives      *)
(* there if it is of the latest job at its address: through any breaks,    *)
(* restarts and re-openings, for any number of jobs and any lag.           *)
THEOREM StoreNeverAhead == ListenerSpec => []NeverAhead
<1>1. LInv => NeverAhead
  BY DEF LInv
<1> QED BY <1>1, ListenerInvariance, PTL

(* With the queue empty, every live job whose update was not lost is known *)
(* with its current terms.                                                 *)
THEOREM StoreFresh == ListenerSpec => []FreshWhenDrained
<1>1. LInv => FreshWhenDrained
  <2> SUFFICES ASSUME LInv, Drained, NEW k \in Keys \ missed, Live(k)
               PROVE  /\ store[k[2]] # Absent
                      /\ store[k[2]].key = k => store[k[2]] = Entry(k)
    BY DEF FreshWhenDrained
  <2>1. ~OnItsWay(k)
    BY DEF Drained, OnItsWay
  <2> QED BY <2>1 DEF LInv, Arrives, Known
<1> QED BY <1>1, ListenerInvariance, PTL

-----------------------------------------------------------------------------
(* Updates of one address are in the order of its openings.                *)
InOrder(u, v) == Decodes(u) /\ Decodes(v) /\ u.key = v.key => u.gen < v.gen

Ordered ==
    \A i \in 1 .. Len(stream), n \in 1 .. Len(stream) :
        i < n => InOrder(stream[i], stream[n])

(* What the queue holds, for the refinement of Registry.                   *)
QueueInv == IInv /\ ListenerTypeOK /\ SentSound /\ Ordered

LEMMA SameQueue ==
    ASSUME QueueInv, UNCHANGED <<vars, stream, gen>>, ListenerTypeOK'
    PROVE  QueueInv' /\ Announced' = Announced
<1>1. IInv'
  BY StutterPreservesIInv DEF QueueInv
<1>2. SentSound' /\ Ordered' /\ Announced' = Announced
  BY DEF QueueInv, SentSound, Sound, Ordered, InOrder, Announced, Decodes, EntryOf, Live, vars
<1> QED BY <1>1, <1>2 DEF QueueInv

(* A step of the chain opens an address, or is not seen.                   *)
LEMMA PublishOpens ==
    ASSUME QueueInv, [Next]_vars, Publish
    PROVE  QueueInv' /\ [R!Next]_(R!vars)
<1>1. IInv' /\ ListenerTypeOK'
  BY NextPreservesIInv, PublishPreservesTypes DEF QueueInv
<1>2. CASE escrow' = escrow
  <2>1. gen' = gen /\ stream' = stream /\ store' = store
    BY <1>2, PublishNothing DEF QueueInv
  <2>2. SentSound' /\ Ordered' /\ Announced' = Announced
    BY <1>2, <2>1 DEF QueueInv, SentSound, Sound, Ordered, InOrder, Announced, Decodes, EntryOf, Live
  <2> QED BY <1>1, <2>1, <2>2 DEF QueueInv, R!vars
<1>3. CASE escrow' # escrow
  <2>1. PICK k \in Keys : /\ \A q \in Keys \ {k} : escrow'[q] = escrow[q]
                          /\ escrow'[k] # escrow[k]
                          /\ escrow[k] = NoEscrow \/ escrow'[k] = NoEscrow
    BY <1>3, OneRecordChanges DEF QueueInv
  <2>2. PICK u : u = [key |-> k, data |-> escrow'[k], gen |-> gen'[k]]
    OBVIOUS
  <2>3. /\ gen' \in [Keys -> 0 .. MaxGen]
        /\ \A q \in Keys \ {k} : gen'[q] = gen[q]
        /\ gen'[k] = IF escrow[k] = NoEscrow THEN gen[k] + 1 ELSE gen[k]
        /\ u \in Updates
        /\ stream' = Append(stream, u) \/ stream' = stream
        /\ store' = store
    BY <2>1, <2>2, PublishEffect DEF QueueInv
  <2>4. /\ stream \in Seq(Updates) /\ Len(stream) \in Nat
        /\ gen \in [Keys -> 0 .. MaxGen] /\ gen[k] \in Nat
    BY ListenerAssumption DEF QueueInv, ListenerTypeOK
  <2>5. ASSUME NEW n \in 1 .. Len(stream')
        PROVE  \/ n \in 1 .. Len(stream) /\ stream'[n] = stream[n]
               \/ n = Len(stream) + 1 /\ stream'[n] = u
    BY <2>3, <2>4, <2>5
  <2>6. ASSUME NEW n \in 1 .. Len(stream), NEW v, v = stream[n], Decodes(v)
        PROVE  v.key \in Keys /\ v.gen \in 1 .. gen[v.key] /\ Sound(v)'
    <3>1. v \in Updates /\ Sound(v)
      BY <2>4, <2>6 DEF QueueInv, SentSound
    <3>2. v.key \in Keys /\ v.gen \in 1 .. gen[v.key]
      BY <3>1 DEF Updates, Sound
    <3>3. CASE v.key # k
      BY <2>1, <2>3, <3>1, <3>2, <3>3 DEF Sound, Live
    <3>4. CASE v.key = k
      <4>1. v.gen \in 1 .. gen'[k] /\ (v.gen = gen'[k] => ~Live(k)')
        BY <2>1, <2>3, <2>4, <3>2, <3>4 DEF Live
      <4> QED BY <3>1, <3>4, <4>1 DEF Sound
    <3> QED BY <3>2, <3>3, <3>4
  <2>7. ASSUME Decodes(u)
        PROVE  /\ u.key = k /\ u.gen = gen[k] + 1 /\ Sound(u)'
               /\ EntryOf(u) \in [key : {k}, escrow : GigEscrow, gen : {gen[k] + 1}]
    <3>1. escrow[k] = NoEscrow /\ Live(k)' /\ u.key = k /\ u.data = escrow'[k]
          /\ u.gen = gen'[k] /\ gen'[k] = gen[k] + 1
      BY <2>1, <2>2, <2>3, <2>7 DEF Decodes, Live
    <3>2. escrow'[k] \in GigEscrow /\ escrow'[k].status = "Pending" /\ escrow'[k].job_id = k[2]
      BY <1>1, <3>1 DEF IInv, TypeOK, WellPlaced, AddressesMatch, Live
    <3> QED BY <2>4, <3>1, <3>2 DEF Sound, EntryOf
  <2>8. SentSound'
    <3> SUFFICES ASSUME NEW n \in 1 .. Len(stream'), NEW v, v = stream'[n], Decodes(v)
                 PROVE  Sound(v)'
      BY DEF SentSound, Decodes
    <3>1. CASE n \in 1 .. Len(stream) /\ v = stream[n]
      BY <3>1, <2>6
    <3>2. CASE v = u
      BY <3>2, <2>7 DEF Sound
    <3> QED BY <2>5, <3>1, <3>2
  <2>9. Ordered'
    <3> SUFFICES ASSUME NEW i \in 1 .. Len(stream'), NEW n \in 1 .. Len(stream'), i < n,
                        NEW v, v = stream'[i], NEW w, w = stream'[n]
                 PROVE  InOrder(v, w)
      BY DEF Ordered, InOrder, Decodes
    <3>1. Len(stream') \in {Len(stream), Len(stream) + 1}
      BY <2>3, <2>4
    <3>2. i \in 1 .. Len(stream) /\ v = stream[i]
      BY <2>4, <2>5, <3>1
    <3>3. CASE n \in 1 .. Len(stream) /\ w = stream[n]
      BY <3>2, <3>3 DEF QueueInv, Ordered
    <3>4. CASE w = u
      <4> SUFFICES ASSUME Decodes(v), Decodes(u), v.key = u.key
                   PROVE  v.gen < u.gen
        BY <3>4 DEF InOrder
      <4>1. v.gen \in 1 .. gen[k]
        BY <3>2, <2>6, <2>7
      <4> QED BY <4>1, <2>4, <2>7
    <3> QED BY <2>5, <3>3, <3>4
  <2>10. R!Open(k) \/ UNCHANGED R!vars
    <3>1. CASE escrow[k] # NoEscrow
      <4>1. ~Decodes(u)
        BY <2>1, <2>2, <3>1 DEF Decodes
      <4>2. gen' = gen
        BY <2>3, <2>4, <3>1
      <4>3. \A n \in 1 .. Len(stream) : n \in 1 .. Len(stream') /\ stream'[n] = stream[n]
        BY <2>3, <2>4
      <4>4. Announced' = Announced
        <5>1. ASSUME NEW x \in Announced' PROVE x \in Announced
          <6>1. PICK n \in 1 .. Len(stream') : Decodes(stream'[n]) /\ x = EntryOf(stream'[n])
            BY <5>1 DEF Announced, Decodes, EntryOf
          <6>2. n \in 1 .. Len(stream) /\ stream'[n] = stream[n]
            BY <2>5, <4>1, <6>1
          <6> QED BY <6>1, <6>2 DEF Announced
        <5>2. ASSUME NEW x \in Announced PROVE x \in Announced'
          <6>1. PICK n \in 1 .. Len(stream) : Decodes(stream[n]) /\ x = EntryOf(stream[n])
            BY <5>2 DEF Announced
          <6> QED BY <4>3, <6>1 DEF Announced, Decodes, EntryOf
        <5> QED BY <5>1, <5>2
      <4> QED BY <2>3, <4>2, <4>4 DEF R!vars
    <3>2. CASE escrow[k] = NoEscrow
      <4>1. gen' = [gen EXCEPT ![k] = @ + 1] /\ Decodes(u)
        BY <2>1, <2>2, <2>3, <2>4, <3>2 DEF Decodes
      <4>2. CASE stream' = stream
        BY <2>3, <4>1, <4>2 DEF R!Open, Announced, Decodes, EntryOf
      <4>3. CASE stream' = Append(stream, u)
        <5>1. /\ \A n \in 1 .. Len(stream) : n \in 1 .. Len(stream') /\ stream'[n] = stream[n]
              /\ Len(stream) + 1 \in 1 .. Len(stream') /\ stream'[Len(stream) + 1] = u
          BY <2>3, <2>4, <4>3
        <5>2. Announced' = Announced \cup {EntryOf(u)}
          BY <2>5, <4>1, <5>1 DEF Announced, Decodes, EntryOf
        <5> QED BY <2>3, <2>7, <4>1, <5>2 DEF R!Open, R!Announcements
      <4> QED BY <2>3, <4>2, <4>3
    <3> QED BY <3>1, <3>2
  <2> QED BY <1>1, <2>8, <2>9, <2>10 DEF QueueInv, R!Next
<1> QED BY <1>2, <1>3

(* An update that carries a record is an announcement taken over.          *)
LEMMA HandleUpdateLearns ==
    ASSUME QueueInv, HandleUpdate
    PROVE  QueueInv' /\ [R!Next]_(R!vars)
<1>1. /\ stream \in Seq(Updates) /\ stream # <<>> /\ Len(stream) \in Nat
      /\ store \in [JobIds -> StoredJobs \cup {Absent}]
  BY DEF QueueInv, ListenerTypeOK, HandleUpdate
<1>2. PICK h \in Updates : h = stream[1] /\ h = Head(stream)
  BY <1>1
<1>3. /\ stream' = Tail(stream) /\ store' = StoreAfter(h)
      /\ UNCHANGED <<escrow, vault, balance, now, openedAt, settled, gen>>
  BY <1>2 DEF HandleUpdate, vars
<1>4. /\ Len(stream') = Len(stream) - 1 /\ 1 \in 1 .. Len(stream)
      /\ \A n \in 1 .. Len(stream') : n + 1 \in 1 .. Len(stream) /\ stream'[n] = stream[n + 1]
      /\ \A n \in 1 .. Len(stream) : n # 1 => n - 1 \in 1 .. Len(stream') /\ stream'[n - 1] = stream[n]
  BY <1>1, <1>3
<1>5. IInv' /\ ListenerTypeOK'
  BY <1>3, StutterPreservesIInv, HandleUpdatePreservesTypes DEF vars, QueueInv
<1>6. SentSound'
  BY <1>3, <1>4 DEF QueueInv, SentSound, Sound, Live, Decodes
<1>7. Ordered'
  <2> SUFFICES ASSUME NEW i \in 1 .. Len(stream'), NEW n \in 1 .. Len(stream'), i < n,
                      NEW v, v = stream'[i], NEW w, w = stream'[n]
               PROVE  InOrder(v, w)
    BY DEF Ordered, InOrder, Decodes
  <2>1. /\ i + 1 \in 1 .. Len(stream) /\ n + 1 \in 1 .. Len(stream) /\ i + 1 < n + 1
        /\ v = stream[i + 1] /\ w = stream[n + 1]
    BY <1>1, <1>4
  <2> QED BY <2>1 DEF QueueInv, Ordered
<1>8. CASE ~Decodes(h)
  <2>1. store' = store
    BY <1>3, <1>8 DEF StoreAfter
  <2>2. Announced' = Announced
    <3>1. ASSUME NEW x \in Announced' PROVE x \in Announced
      BY <1>4, <3>1 DEF Announced, Decodes, EntryOf
    <3>2. ASSUME NEW x \in Announced PROVE x \in Announced'
      <4>1. PICK n \in 1 .. Len(stream) : Decodes(stream[n]) /\ x = EntryOf(stream[n])
        BY <3>2 DEF Announced
      <4>2. n - 1 \in 1 .. Len(stream') /\ stream'[n - 1] = stream[n]
        BY <1>2, <1>4, <1>8, <4>1
      <4> QED BY <4>1, <4>2 DEF Announced, Decodes, EntryOf
    <3> QED BY <3>1, <3>2
  <2> QED BY <1>3, <1>5, <1>6, <1>7, <2>1, <2>2 DEF QueueInv, R!vars
<1>9. CASE Decodes(h)
  <2>1. Sound(h) /\ EntryOf(h) \in Announced
    BY <1>2, <1>4, <1>9 DEF QueueInv, SentSound, Announced
  <2>2. store' = [store EXCEPT ![EntryOf(h).key[2]] = EntryOf(h)]
    BY <1>3, <1>9, <2>1 DEF StoreAfter, Upsert, Sound, EntryOf
  <2>3. Announced' = {x \in Announced : x.key = EntryOf(h).key => x.gen > EntryOf(h).gen}
    <3>1. ASSUME NEW x \in Announced'
          PROVE  x \in Announced /\ (x.key = EntryOf(h).key => x.gen > EntryOf(h).gen)
      <4>1. PICK n \in 1 .. Len(stream') : Decodes(stream'[n]) /\ x = EntryOf(stream'[n])
        BY <3>1 DEF Announced, Decodes, EntryOf
      <4>2. n + 1 \in 1 .. Len(stream) /\ stream'[n] = stream[n + 1] /\ 1 < n + 1
        BY <1>4
      <4>3. x \in Announced
        BY <4>1, <4>2 DEF Announced
      <4>4. stream[n + 1].key = h.key => h.gen < stream[n + 1].gen
        BY <1>2, <1>4, <1>9, <4>1, <4>2 DEF QueueInv, Ordered, InOrder, Decodes
      <4>5. stream[n + 1] \in Updates
        BY <1>1, <4>2
      <4>6. stream[n + 1].gen \in Nat /\ h.gen \in Nat
        BY <1>2, <4>5 DEF Updates
      <4> QED BY <4>1, <4>2, <4>3, <4>4, <4>6 DEF EntryOf
    <3>2. ASSUME NEW x \in Announced, x.key = EntryOf(h).key => x.gen > EntryOf(h).gen
          PROVE  x \in Announced'
      <4>1. PICK n \in 1 .. Len(stream) : Decodes(stream[n]) /\ x = EntryOf(stream[n])
        BY <3>2 DEF Announced
      <4>2. h.gen \in Nat
        BY <1>2 DEF Updates
      <4>3. n # 1
        BY <1>2, <3>2, <4>1, <4>2 DEF EntryOf
      <4>4. n - 1 \in 1 .. Len(stream') /\ stream'[n - 1] = stream[n]
        BY <1>4, <4>3
      <4> QED BY <4>1, <4>4 DEF Announced, Decodes, EntryOf
    <3> QED BY <3>1, <3>2
  <2>4. R!Learn(EntryOf(h))
    BY <1>3, <2>2, <2>3 DEF R!Learn
  <2> QED BY <1>5, <1>6, <1>7, <2>1, <2>4 DEF QueueInv, R!Next
<1> QED BY <1>8, <1>9

(* What breaks loses announcements, or all.                                *)
LEMMA LinkLoses ==
    ASSUME QueueInv, Subscribe \/ LoseStream \/ Retry \/ StopListener \/ Start
    PROVE  QueueInv' /\ [R!Next]_(R!vars)
<1>1. UNCHANGED vars /\ gen' = gen
  BY DEF Subscribe, LoseStream, Retry, StopListener, Start
<1>2. ListenerTypeOK'
  BY LinkPreservesTypes DEF QueueInv
<1>3. CASE Subscribe \/ Retry \/ Start
  <2>1. stream' = stream /\ store' = store
    BY <1>3 DEF Subscribe, Retry, Start
  <2> QED BY <1>1, <1>2, <2>1, SameQueue DEF R!vars
<1>4. CASE LoseStream \/ StopListener
  <2>1. stream' = <<>> /\ store' \in {store, EmptyStore}
    BY <1>4 DEF LoseStream, StopListener
  <2>2. IInv'
    BY <1>1, StutterPreservesIInv DEF QueueInv
  <2>3. SentSound' /\ Ordered' /\ Announced' = {}
    BY <2>1 DEF SentSound, Ordered, Announced
  <2>4. R!Lose
    BY <1>1, <2>1, <2>3 DEF R!Lose, R!NothingKnown, EmptyStore
  <2> QED BY <1>2, <2>2, <2>3, <2>4 DEF QueueInv, R!Next
<1> QED BY <1>3, <1>4

LEMMA InitIsRegistrys == ListenerInit => QueueInv /\ R!Init
<1> SUFFICES ASSUME ListenerInit PROVE QueueInv /\ R!Init
  OBVIOUS
<1>1. IInv /\ ListenerTypeOK /\ SentSound
  BY InitEstablishesLInv DEF LInv
<1>2. Ordered
  BY DEF ListenerInit, Ordered
<1>3. R!Init
  BY DEF ListenerInit, Announced, EmptyStore, R!Init, R!NothingKnown
<1> QED BY <1>1, <1>2, <1>3 DEF QueueInv

(* The listener and its store implement the registry of jobs: whatever is  *)
(* in the store was announced in these words, was taken over once, and is  *)
(* never replaced by an older job of its address.                          *)
THEOREM ListenerImplementsRegistry == ListenerSpec => ImplementsRegistry
<1>1. QueueInv /\ [ListenerNext]_lvars => QueueInv' /\ [R!Next]_(R!vars)
  <2> SUFFICES ASSUME QueueInv, [ListenerNext]_lvars
               PROVE  QueueInv' /\ [R!Next]_(R!vars)
    OBVIOUS
  <2>1. CASE Next /\ Publish
    BY <2>1, PublishOpens
  <2>2. CASE UNCHANGED lvars
    <3>1. UNCHANGED <<vars, stream, gen>> /\ store' = store /\ ListenerTypeOK'
      BY <2>2 DEF lvars, vars, QueueInv, ListenerTypeOK
    <3> QED BY <3>1, SameQueue DEF R!vars
  <2> QED BY <2>1, <2>2, HandleUpdateLearns, LinkLoses DEF ListenerNext
<1> QED BY <1>1, InitIsRegistrys, PTL DEF ListenerSpec, ImplementsRegistry, R!Spec

-----------------------------------------------------------------------------
RequestRecords == [at : RequestStates, job : StoredJobs \cup {NoJob},
                   verdict : Verdicts \cup {"None"}, answer : Answers]

(* What a handler holds, by where it is.                                   *)
HoldsWhatItNeeds(r) ==
    /\ req[r].at # "Answered" => req[r].answer = "None"
    /\ req[r].at \in {"Idle", "Verifying"} => tx[r].state = "None"
    /\ req[r].at = "Verifying" => req[r].job \in StoredJobs
    /\ req[r].at = "Sending" \/ tx[r].state # "None" =>
          req[r].job \in StoredJobs /\ req[r].verdict \in Verdicts

(* The chain has moved past every job a transaction settled.               *)
SettledIsBehind ==
    \A r \in Requests : Landed(r) =>
        /\ tx[r].onto \in Nat /\ tx[r].onto <= gen[req[r].job.key]
        /\ tx[r].onto = gen[req[r].job.key] => ~Live(req[r].job.key)

RequestTypes == req \in [Requests -> RequestRecords] /\ tx \in [Requests -> TxStates]

ServiceInv ==
    /\ RequestTypes
    /\ \A r \in Requests : HoldsWhatItNeeds(r)
    /\ SuccessMeansSettled

ChainInv == SettledIsBehind /\ SettledOnce /\ NoSettlementWithoutConsensus

(* The inductive invariant of the oracle and the chain.                    *)
OInv == IInv /\ ListenerTypeOK /\ ServiceInv /\ ChainInv

-----------------------------------------------------------------------------
LEMMA InitEstablishesOInv == OracleInit => OInv
<1> SUFFICES ASSUME OracleInit PROVE OInv
  OBVIOUS
<1>1. IInv /\ ListenerTypeOK
  BY InitEstablishesLInv DEF OracleInit, LInv
<1>2. /\ \A r \in Requests : req[r] = [at |-> "Idle", job |-> NoJob,
                                       verdict |-> "None", answer |-> "None"]
      /\ \A r \in Requests : tx[r] = NoTx
  BY DEF OracleInit
<1>3. RequestTypes
  BY DEF OracleInit, RequestTypes, RequestRecords, RequestStates, Answers, TxStates, NoTx
<1>4. \A r \in Requests : HoldsWhatItNeeds(r)
  BY <1>2 DEF HoldsWhatItNeeds, NoTx
<1>5. SuccessMeansSettled
  BY <1>2 DEF SuccessMeansSettled, Verdicts
<1>6. SettledIsBehind /\ SettledOnce
  BY <1>2 DEF SettledIsBehind, SettledOnce, Landed, NoTx
<1>7. NoSettlementWithoutConsensus
  BY DEF OracleInit, ListenerInit, Init, NoSettlementWithoutConsensus
<1> QED BY <1>1, <1>3, <1>4, <1>5, <1>6, <1>7 DEF OInv, ServiceInv, ChainInv

(* A step that touches neither the chain nor a landed transaction.         *)
LandedKept ==
    \A r \in Requests : /\ Landed(r)' <=> Landed(r)
                        /\ Landed(r) => /\ tx'[r] = tx[r]
                                        /\ req'[r].job = req[r].job
                                        /\ req'[r].verdict = req[r].verdict

LEMMA QuietChain ==
    ASSUME ChainInv, UNCHANGED <<escrow, settled, gen>>, LandedKept
    PROVE  ChainInv'
<1>1. SettledIsBehind'
  BY DEF ChainInv, SettledIsBehind, LandedKept, Live
<1>2. SettledOnce'
  BY DEF ChainInv, SettledOnce, LandedKept
<1>3. NoSettlementWithoutConsensus'
  BY DEF ChainInv, NoSettlementWithoutConsensus, LandedKept, ByThisOracle
<1> QED BY <1>1, <1>2, <1>3 DEF ChainInv

(* One request moves on to the record q and the transaction t; the others  *)
(* stay as they are.                                                       *)
LEMMA OneRequestMoves ==
    ASSUME ServiceInv, NEW r \in Requests,
           NEW q \in RequestRecords, NEW t \in TxStates,
           req' = [req EXCEPT ![r] = q], tx' = [tx EXCEPT ![r] = t],
           q.at # "Answered" => q.answer = "None",
           q.at \in {"Idle", "Verifying"} => t.state = "None",
           q.at = "Verifying" => q.job \in StoredJobs,
           q.at = "Sending" \/ t.state # "None" =>
               q.job \in StoredJobs /\ q.verdict \in Verdicts,
           q.answer \in Verdicts => t.state = "Landed" /\ q.verdict = q.answer
    PROVE  ServiceInv'
<1>1. RequestTypes'
  BY DEF ServiceInv, RequestTypes
<1>2. /\ req'[r] = q /\ tx'[r] = t
      /\ \A s \in Requests \ {r} : req'[s] = req[s] /\ tx'[s] = tx[s]
  BY DEF ServiceInv, RequestTypes
<1>3. ASSUME NEW s \in Requests PROVE HoldsWhatItNeeds(s)'
  BY <1>2, <1>3 DEF ServiceInv, HoldsWhatItNeeds
<1>4. SuccessMeansSettled'
  BY <1>2 DEF ServiceInv, SuccessMeansSettled, Landed
<1> QED BY <1>1, <1>3, <1>4 DEF ServiceInv

LEMMA OthersKept ==
    ASSUME RequestTypes, NEW r \in Requests, NEW q, NEW t,
           req' = [req EXCEPT ![r] = q], tx' = [tx EXCEPT ![r] = t],
           t.state = "Landed" <=> Landed(r),
           Landed(r) => t = tx[r] /\ q.job = req[r].job /\ q.verdict = req[r].verdict
    PROVE  LandedKept
<1>1. /\ req'[r] = q /\ tx'[r] = t
      /\ \A s \in Requests \ {r} : req'[s] = req[s] /\ tx'[s] = tx[s]
  BY DEF RequestTypes
<1> QED BY <1>1 DEF LandedKept, Landed

LEMMA SubmitPreserves ==
    ASSUME ServiceInv, ListenerTypeOK, NEW r \in Requests, NEW j \in JobIds,
           NEW input \in Inputs, Submit(r, j, input)
    PROVE  ServiceInv' /\ LandedKept
<1>1. /\ req[r] \in RequestRecords /\ req[r].at = "Idle" /\ req[r].answer = "None"
      /\ tx[r] \in TxStates /\ tx[r].state = "None"
      /\ tx' = [tx EXCEPT ![r] = tx[r]]
  BY DEF ServiceInv, RequestTypes, HoldsWhatItNeeds, Submit
<1>2. ASSUME NEW a \in {"400", "404", "409", "500"}, Answer(r, a)
      PROVE  ServiceInv' /\ LandedKept
  <2>1. PICK q : q = [req[r] EXCEPT !.at = "Answered", !.answer = a]
    OBVIOUS
  <2>2. /\ q \in RequestRecords /\ req' = [req EXCEPT ![r] = q]
        /\ q.at = "Answered" /\ q.answer \notin Verdicts
    BY <1>1, <1>2, <2>1
       DEF RequestRecords, Answers, RequestStates, Answer, Verdicts, ServiceInv, RequestTypes
  <2>3. ServiceInv'
    BY <1>1, <2>2, OneRequestMoves
  <2>4. LandedKept
    BY <1>1, <2>2, OthersKept DEF Landed, ServiceInv
  <2> QED BY <2>3, <2>4
<1>3. CASE store[j] # Absent /\ req' = [req EXCEPT ![r].at = "Verifying", ![r].job = store[j]]
  <2>1. store[j] \in StoredJobs
    BY <1>3 DEF ListenerTypeOK
  <2>2. PICK q : q = [req[r] EXCEPT !.at = "Verifying", !.job = store[j]]
    OBVIOUS
  <2>3. /\ q \in RequestRecords /\ req' = [req EXCEPT ![r] = q]
        /\ q.at = "Verifying" /\ q.answer = "None" /\ q.job \in StoredJobs
    BY <1>1, <1>3, <2>1, <2>2 DEF RequestRecords, RequestStates, ServiceInv, RequestTypes
  <2>4. ServiceInv'
    BY <1>1, <2>3, OneRequestMoves DEF Verdicts
  <2>5. LandedKept
    BY <1>1, <2>3, OthersKept DEF Landed, ServiceInv
  <2> QED BY <2>4, <2>5
<1> QED BY <1>2, <1>3 DEF Submit

LEMMA AgreePreserves ==
    ASSUME ServiceInv, NEW r \in Requests, NEW v \in Verdicts, Agree(r, v)
    PROVE  ServiceInv' /\ LandedKept
<1>1. /\ req[r] \in RequestRecords /\ req[r].at = "Verifying" /\ req[r].answer = "None"
      /\ tx[r].state = "None" /\ req[r].job \in StoredJobs
  BY DEF ServiceInv, RequestTypes, HoldsWhatItNeeds, Agree
<1>2. PICK q : q = [req[r] EXCEPT !.at = "Sending", !.verdict = v]
  OBVIOUS
<1>3. PICK t : t = [state |-> "InFlight"]
  OBVIOUS
<1>4. /\ q \in RequestRecords /\ req' = [req EXCEPT ![r] = q]
      /\ q.at = "Sending" /\ q.answer = "None" /\ q.job \in StoredJobs /\ q.verdict \in Verdicts
  BY <1>1, <1>2 DEF RequestRecords, RequestStates, Agree, ServiceInv, RequestTypes
<1>5. t \in TxStates /\ tx' = [tx EXCEPT ![r] = t] /\ t.state = "InFlight"
  BY <1>3 DEF TxStates, Agree
<1>6. ServiceInv'
  BY <1>4, <1>5, OneRequestMoves DEF Verdicts
<1>7. LandedKept
  BY <1>1, <1>4, <1>5, OthersKept DEF Landed, ServiceInv
<1> QED BY <1>6, <1>7

(* A handler that answers, with its transaction as it is.                  *)
LEMMA AnswerPreserves ==
    ASSUME ServiceInv, NEW r \in Requests, NEW a \in Answers, Answer(r, a), tx' = tx,
           a \in Verdicts => tx[r].state = "Landed" /\ req[r].verdict = a,
           req[r].at \in {"Verifying", "Sending"}
    PROVE  ServiceInv' /\ LandedKept
<1>1. /\ req[r] \in RequestRecords /\ tx[r] \in TxStates
      /\ tx' = [tx EXCEPT ![r] = tx[r]]
      /\ tx[r].state # "None" => req[r].job \in StoredJobs /\ req[r].verdict \in Verdicts
  BY DEF ServiceInv, RequestTypes, HoldsWhatItNeeds
<1>2. PICK q : q = [req[r] EXCEPT !.at = "Answered", !.answer = a]
  OBVIOUS
<1>3. /\ q \in RequestRecords /\ req' = [req EXCEPT ![r] = q]
      /\ q.at = "Answered" /\ q.answer = a
      /\ q.job = req[r].job /\ q.verdict = req[r].verdict
  BY <1>1, <1>2 DEF RequestRecords, RequestStates, Answer, ServiceInv, RequestTypes
<1>4. ServiceInv'
  BY <1>1, <1>3, OneRequestMoves
<1>5. LandedKept
  BY <1>1, <1>3, OthersKept DEF Landed, ServiceInv
<1> QED BY <1>4, <1>5

LEMMA ExpirePreserves ==
    ASSUME ServiceInv, NEW r \in Requests, Expire(r)
    PROVE  ServiceInv' /\ LandedKept
<1>1. /\ req[r] \in RequestRecords /\ tx[r].state = "InFlight"
      /\ req' = [req EXCEPT ![r] = req[r]]
      /\ req[r].job \in StoredJobs /\ req[r].verdict \in Verdicts
      /\ req[r].at # "Answered" => req[r].answer = "None"
      /\ req[r].at \notin {"Idle", "Verifying"}
      /\ req[r].answer \notin Verdicts
  BY DEF ServiceInv, RequestTypes, HoldsWhatItNeeds, Expire, SuccessMeansSettled, Landed
<1>2. PICK t : t = [state |-> "Expired"]
  OBVIOUS
<1>3. t \in TxStates /\ tx' = [tx EXCEPT ![r] = t] /\ t.state = "Expired"
  BY <1>2 DEF TxStates, Expire
<1>4. ServiceInv'
  BY <1>1, <1>3, OneRequestMoves
<1>5. LandedKept
  BY <1>1, <1>3, OthersKept DEF Landed, ServiceInv
<1> QED BY <1>4, <1>5

LEMMA CrashPreserves ==
    ASSUME ServiceInv, Crash
    PROVE  ServiceInv' /\ LandedKept
<1>1. /\ req' = [r \in Requests |->
                   IF req[r].at \in {"Verifying", "Sending"}
                   THEN [req[r] EXCEPT !.at = "Lost"] ELSE req[r]]
      /\ tx' = tx
  BY DEF Crash
<1>2. ASSUME NEW r \in Requests
      PROVE  /\ req'[r] \in RequestRecords
             /\ req'[r].job = req[r].job /\ req'[r].verdict = req[r].verdict
             /\ req'[r].answer = req[r].answer
             /\ req'[r].at = IF req[r].at \in {"Verifying", "Sending"}
                             THEN "Lost" ELSE req[r].at
  <2>1. req[r] \in RequestRecords
    BY DEF ServiceInv, RequestTypes
  <2>2. CASE req[r].at \in {"Verifying", "Sending"}
    <3>1. req'[r] = [req[r] EXCEPT !.at = "Lost"]
      BY <1>1, <2>2
    <3> QED BY <2>1, <2>2, <3>1 DEF RequestRecords, RequestStates
  <2>3. CASE req[r].at \notin {"Verifying", "Sending"}
    BY <1>1, <2>1, <2>3
  <2> QED BY <2>2, <2>3
<1>3. RequestTypes'
  BY <1>1, <1>2 DEF ServiceInv, RequestTypes
<1>4. \A r \in Requests : HoldsWhatItNeeds(r)'
  BY <1>1, <1>2 DEF ServiceInv, HoldsWhatItNeeds
<1>5. SuccessMeansSettled'
  BY <1>1, <1>2 DEF ServiceInv, SuccessMeansSettled, Landed
<1>6. LandedKept
  BY <1>1, <1>2 DEF LandedKept, Landed
<1> QED BY <1>3, <1>4, <1>5, <1>6 DEF ServiceInv

-----------------------------------------------------------------------------
(* Whom a stored job names.                                                *)
LEMMA StoredJobNames ==
    ASSUME NEW job \in StoredJobs
    PROVE  /\ job.key \in Keys
           /\ job.escrow.freelancer \in Wallets /\ job.escrow.client \in Wallets
<1>1. job.key \in Keys /\ job.escrow \in GigEscrow
  BY DEF StoredJobs
<1>2. PICK e \in GigEscrow : e = job.escrow
  BY <1>1
<1>3. e.freelancer \in Freelancers /\ e.client \in Clients
  BY DEF GigEscrow
<1> QED BY <1>1, <1>2, <1>3, WalletsAssumption

(* What a transaction of the service does, when it lands.                  *)
LEMMA LandSettles ==
    ASSUME NEW r \in Requests, req[r].job \in StoredJobs, req[r].verdict \in Verdicts,
           OracleTx(r)
    PROVE  LET k == req[r].job.key
               kind == IF req[r].verdict = "RELEASE" THEN "Released" ELSE "Cancelled"
           IN  /\ k \in Keys /\ Live(k) /\ Next
               /\ escrow' = [escrow EXCEPT ![k] = NoEscrow]
               /\ settled' = [settled EXCEPT ![k] =
                     [kind |-> kind, signer |-> ThisOracle, oracle |-> escrow[k].oracle,
                      openedAt |-> openedAt[k], at |-> now]]
               /\ req[r].verdict = "RELEASE" =>
                     escrow[k].freelancer = req[r].job.escrow.freelancer
<1> DEFINE job == req[r].job
           k == job.key
<1>1. /\ k \in Keys /\ ThisOracle \in Wallets
      /\ job.escrow.freelancer \in Wallets /\ job.escrow.client \in Wallets
  BY StoredJobNames, WalletsAssumption, OracleAssumption
<1>2. CASE req[r].verdict = "RELEASE"
  <2>1. ReleasePayment(k, ThisOracle, job.escrow.freelancer, job.escrow.client)
    BY <1>2 DEF OracleTx
  <2>2. Next
    BY <1>1, <2>1 DEF Next, Release
  <2>3. /\ escrow[k].freelancer = job.escrow.freelancer /\ Live(k)
        /\ Settle(k, job.escrow.freelancer, "Released", ThisOracle)
    <3>1. /\ AddressesMatch(k) /\ HasOne(escrow[k].freelancer, job.escrow.freelancer)
          /\ Settle(k, job.escrow.freelancer, "Released", ThisOracle)
      BY <2>1, Zenon DEF ReleasePayment
    <3> QED BY <3>1 DEF HasOne, AddressesMatch, Live
  <2> QED BY <1>1, <1>2, <2>2, <2>3 DEF Settle, RecordAfter
<1>3. CASE req[r].verdict # "RELEASE"
  <2>1. CancelJob(k, ThisOracle, job.escrow.client)
    BY <1>3 DEF OracleTx
  <2>2. Next
    BY <1>1, <2>1 DEF Next, Cancel
  <2>3. Live(k) /\ Settle(k, job.escrow.client, "Cancelled", ThisOracle)
    BY <2>1 DEF CancelJob, AddressesMatch, Live
  <2> QED BY <1>1, <1>3, <2>2, <2>3 DEF Settle, RecordAfter
<1> QED BY <1>2, <1>3

LEMMA LandPreservesOInv ==
    ASSUME OInv, NEW r \in Requests, Land(r)
    PROVE  OInv'
<1> DEFINE k == req[r].job.key
           kind == IF req[r].verdict = "RELEASE" THEN "Released" ELSE "Cancelled"
<1>1. /\ req[r].job \in StoredJobs /\ req[r].verdict \in Verdicts
      /\ req[r] \in RequestRecords /\ tx[r] \in TxStates
      /\ req[r].at \notin {"Idle", "Verifying"}
      /\ req[r].at # "Answered" => req[r].answer = "None"
      /\ req[r].answer \notin Verdicts
      /\ ~Landed(r)
  BY DEF OInv, ServiceInv, RequestTypes, HoldsWhatItNeeds, SuccessMeansSettled, Landed, Land
<1>2. /\ k \in Keys /\ Live(k) /\ Next
      /\ escrow' = [escrow EXCEPT ![k] = NoEscrow]
      /\ settled' = [settled EXCEPT ![k] =
            [kind |-> kind, signer |-> ThisOracle, oracle |-> escrow[k].oracle,
             openedAt |-> openedAt[k], at |-> now]]
  BY <1>1, LandSettles DEF Land
<1>3. IInv' /\ ListenerTypeOK'
  BY <1>2, NextPreservesIInv, PublishPreservesTypes DEF OInv, Land
<1>4. /\ gen[k] \in Nat /\ gen'[k] = gen[k]
      /\ escrow'[k] = NoEscrow
      /\ \A q \in Keys \ {k} : escrow'[q] = escrow[q] /\ settled'[q] = settled[q]
      /\ settled'[k].kind = kind
  BY <1>2, PublishMonotone DEF OInv, IInv, TypeOK, Land
<1>5. PICK t : t = [state |-> "Landed", onto |-> gen[k]]
  OBVIOUS
<1>6. /\ t \in TxStates /\ t.state = "Landed" /\ t.onto = gen[k]
      /\ tx' = [tx EXCEPT ![r] = t] /\ req' = req
  BY <1>4, <1>5 DEF TxStates, Land
<1>7. /\ tx'[r] = t /\ Landed(r)'
      /\ \A s \in Requests \ {r} : tx'[s] = tx[s] /\ (Landed(s)' <=> Landed(s))
  BY <1>6 DEF OInv, ServiceInv, RequestTypes, Landed
<1>8. ServiceInv'
  <2>1. req' = [req EXCEPT ![r] = req[r]]
    BY <1>6 DEF OInv, ServiceInv, RequestTypes
  <2> QED BY <1>1, <1>6, <2>1, OneRequestMoves DEF OInv
<1>9. ASSUME NEW s \in Requests, Landed(s)
      PROVE  /\ s # r /\ req[s].job.key \in Keys
             /\ tx[s].onto \in Nat /\ tx[s].onto <= gen[req[s].job.key]
             /\ tx[s].onto = gen[req[s].job.key] => ~Live(req[s].job.key)
  <2>1. req[s].job \in StoredJobs
    BY <1>9 DEF OInv, ServiceInv, HoldsWhatItNeeds, Landed
  <2> QED BY <1>1, <1>9, <2>1 DEF StoredJobs, OInv, ChainInv, SettledIsBehind
<1>10. SettledIsBehind'
  <2> SUFFICES ASSUME NEW s \in Requests, Landed(s)'
               PROVE  (/\ tx[s].onto \in Nat /\ tx[s].onto <= gen[req[s].job.key]
                       /\ tx[s].onto = gen[req[s].job.key] => ~Live(req[s].job.key))'
    BY DEF SettledIsBehind
  <2>1. CASE s = r
    BY <1>4, <1>6, <1>7, <2>1 DEF Live
  <2>2. CASE s # r
    <3>1. PICK q \in Keys : q = req[s].job.key
      BY <1>7, <1>9, <2>2
    <3>2. tx'[s] = tx[s] /\ req'[s].job.key = q /\ tx[s].onto \in Nat /\ tx[s].onto <= gen[q]
          /\ (tx[s].onto = gen[q] => ~Live(q))
      BY <1>6, <1>7, <1>9, <2>2, <3>1
    <3>3. gen[q] \in Nat /\ gen'[q] \in Nat /\ gen[q] <= gen'[q]
          /\ (Live(q)' /\ gen'[q] = gen[q] => Live(q))
      BY PublishMonotone DEF OInv, Land
    <3> QED BY <3>2, <3>3 DEF Live
  <2> QED BY <2>1, <2>2
<1>11. SettledOnce'
  <2>1. ASSUME NEW s \in Requests, Landed(s), req[s].job.key = k
        PROVE  tx[s].onto # gen[k]
    BY <1>2, <1>9, <2>1
  <2> QED BY <1>6, <1>7, <2>1 DEF OInv, ChainInv, SettledOnce
<1>12. NoSettlementWithoutConsensus'
  <2> SUFFICES ASSUME NEW q \in Keys, settled'[q] # NeverSettled, ByThisOracle(settled'[q])
               PROVE  \E s \in Requests :
                        /\ Landed(s)' /\ req'[s].job.key = q
                        /\ req'[s].verdict = IF settled'[q].kind = "Released"
                                             THEN "RELEASE" ELSE "REFUND"
    BY DEF NoSettlementWithoutConsensus, ByThisOracle
  <2>1. CASE q = k
    BY <1>1, <1>4, <1>6, <1>7, <2>1 DEF Verdicts
  <2>2. CASE q # k
    <3>1. settled'[q] = settled[q]
      BY <1>4, <2>2
    <3>2. PICK s \in Requests :
             /\ Landed(s) /\ req[s].job.key = q
             /\ req[s].verdict = IF settled[q].kind = "Released" THEN "RELEASE" ELSE "REFUND"
      BY <3>1 DEF OInv, ChainInv, NoSettlementWithoutConsensus
    <3> QED BY <1>6, <1>7, <3>1, <3>2
  <2> QED BY <2>1, <2>2
<1> QED BY <1>3, <1>8, <1>10, <1>11, <1>12 DEF OInv, ChainInv

(* What the others do on the chain is not signed by the service.           *)
LEMMA OthersSign ==
    ASSUME IInv, Initialize \/ OtherSettles \/ Tick
    PROVE  /\ Next
           /\ \A q \in Keys : settled'[q] = settled[q] \/ ~ByThisOracle(settled'[q])
<1>0. settled \in [Keys -> Settlements \cup {NeverSettled}]
  BY DEF IInv, TypeOK
<1>1. ASSUME NEW k \in Keys, NEW payee, NEW kind, NEW w, Settle(k, payee, kind, w),
             kind = "TimedOut" \/ w # ThisOracle
      PROVE  \A q \in Keys : settled'[q] = settled[q] \/ ~ByThisOracle(settled'[q])
  BY <1>0, <1>1 DEF Settle, ByThisOracle
<1>2. CASE \E k \in Keys, w \in Wallets \ {ThisOracle}, f, c \in Wallets :
               ReleasePayment(k, w, f, c)
  <2>1. PICK k \in Keys, w \in Wallets \ {ThisOracle}, f \in Wallets, c \in Wallets :
           ReleasePayment(k, w, f, c)
    BY <1>2
  <2>2. Settle(k, f, "Released", w)
    BY <2>1 DEF ReleasePayment
  <2>3. Next
    BY <2>1 DEF Next, Release
  <2> QED BY <1>1, <2>2, <2>3
<1>3. CASE \E k \in Keys, o \in Wallets \ {ThisOracle}, c \in Wallets : CancelJob(k, o, c)
  <2>1. PICK k \in Keys, o \in Wallets \ {ThisOracle}, c \in Wallets : CancelJob(k, o, c)
    BY <1>3
  <2>2. Settle(k, c, "Cancelled", o)
    BY <2>1 DEF CancelJob
  <2>3. Next
    BY <2>1 DEF Next, Cancel
  <2> QED BY <1>1, <2>2, <2>3
<1>4. CASE \E k \in Keys : Refund(k)
  <2>1. PICK k \in Keys, w \in Wallets, c \in Wallets : RefundAfterTimeout(k, w, c)
    BY <1>4 DEF Refund
  <2>2. Settle(k, c, "TimedOut", w)
    BY <2>1 DEF RefundAfterTimeout
  <2>3. Next
    BY <1>4 DEF Next
  <2> QED BY <1>1, <2>2, <2>3
<1>5. CASE Initialize \/ Tick
  <2>1. Next
    BY <1>5 DEF Next
  <2>2. settled' = settled
    <3>1. ASSUME NEW c, NEW j, NEW f, NEW o, NEW a, NEW d, InitializeJob(c, j, f, o, a, d)
          PROVE  settled' = settled
      BY <3>1 DEF InitializeJob
    <3>2. CASE Tick
      BY <3>2 DEF Tick
    <3> QED BY <1>5, <3>1, <3>2 DEF Initialize
  <2> QED BY <2>1, <2>2
<1> QED BY <1>2, <1>3, <1>4, <1>5 DEF OtherSettles

LEMMA ChainStepPreservesOInv ==
    ASSUME OInv, ChainStep
    PROVE  OInv'
<1>1. /\ Next /\ Publish /\ req' = req /\ tx' = tx
      /\ \A q \in Keys : settled'[q] = settled[q] \/ ~ByThisOracle(settled'[q])
  BY OthersSign DEF ChainStep, OInv
<1>2. IInv' /\ ListenerTypeOK'
  BY <1>1, NextPreservesIInv, PublishPreservesTypes DEF OInv
<1>3. ServiceInv'
  BY <1>1 DEF OInv, ServiceInv, RequestTypes, HoldsWhatItNeeds, SuccessMeansSettled, Landed
<1>4. SettledIsBehind'
  <2> SUFFICES ASSUME NEW s \in Requests, Landed(s)
               PROVE  (/\ tx[s].onto \in Nat /\ tx[s].onto <= gen[req[s].job.key]
                       /\ tx[s].onto = gen[req[s].job.key] => ~Live(req[s].job.key))'
    BY <1>1 DEF SettledIsBehind, Landed
  <2>1. req[s].job \in StoredJobs
    BY DEF OInv, ServiceInv, HoldsWhatItNeeds, Landed
  <2>2. PICK q \in Keys : q = req[s].job.key
    BY <2>1 DEF StoredJobs
  <2>3. tx[s].onto \in Nat /\ tx[s].onto <= gen[q] /\ (tx[s].onto = gen[q] => ~Live(q))
    BY <2>2 DEF OInv, ChainInv, SettledIsBehind
  <2>4. gen[q] \in Nat /\ gen'[q] \in Nat /\ gen[q] <= gen'[q]
        /\ (Live(q)' /\ gen'[q] = gen[q] => Live(q))
    BY <1>1, PublishMonotone DEF OInv
  <2> QED BY <1>1, <2>2, <2>3, <2>4 DEF Live
<1>5. SettledOnce'
  BY <1>1 DEF OInv, ChainInv, SettledOnce, Landed
<1>6. NoSettlementWithoutConsensus'
  BY <1>1 DEF OInv, ChainInv, NoSettlementWithoutConsensus, ByThisOracle, Landed
<1> QED BY <1>2, <1>3, <1>4, <1>5, <1>6 DEF OInv, ChainInv

(* A step of the service or the listener that leaves the chain alone.      *)
LEMMA OffChain ==
    ASSUME OInv, UNCHANGED vars, gen' = gen, ListenerTypeOK', ServiceInv', LandedKept
    PROVE  OInv'
<1>1. IInv'
  BY StutterPreservesIInv DEF OInv
<1>2. ChainInv'
  BY QuietChain DEF OInv, vars
<1> QED BY <1>1, <1>2 DEF OInv

LEMMA ListenerStepPreservesOInv ==
    ASSUME OInv, ListenerStep
    PROVE  OInv'
<1>1. UNCHANGED vars /\ gen' = gen /\ req' = req /\ tx' = tx
  BY DEF ListenerStep, HandleUpdate, Subscribe, LoseStream, Retry, Start
<1>2. ListenerTypeOK'
  BY HandleUpdatePreservesTypes, LinkPreservesTypes DEF OInv, ListenerStep
<1>3. ServiceInv' /\ LandedKept
  BY <1>1 DEF OInv, ServiceInv, RequestTypes, HoldsWhatItNeeds, SuccessMeansSettled,
              Landed, LandedKept
<1> QED BY <1>1, <1>2, <1>3, OffChain

LEMMA HandlerPreservesOInv ==
    ASSUME OInv, NEW r \in Requests, Handler(r)
    PROVE  OInv'
<1>1. CASE \E v \in Verdicts : Agree(r, v)
  <2>1. ServiceInv' /\ LandedKept
    BY <1>1, AgreePreserves DEF OInv
  <2>2. UNCHANGED lvars
    BY <1>1 DEF Agree
  <2> QED BY <2>1, <2>2, OffChain DEF OInv, ListenerTypeOK, lvars, vars
<1>2. CASE Escalate(r) \/ ConsensusFails(r) \/ SendFails(r)
  <2>1. PICK a \in {"ESCALATE", "500"} : Answer(r, a)
    BY <1>2 DEF Escalate, ConsensusFails, SendFails
  <2>2. UNCHANGED lvars /\ tx' = tx /\ req[r].at \in {"Verifying", "Sending"}
    BY <1>2 DEF Escalate, ConsensusFails, SendFails
  <2>3. ServiceInv' /\ LandedKept
    BY <2>1, <2>2, AnswerPreserves DEF OInv, Answers, Verdicts
  <2> QED BY <2>2, <2>3, OffChain DEF OInv, ListenerTypeOK, lvars, vars
<1>3. CASE Confirm(r)
  <2>1. /\ Answer(r, req[r].verdict) /\ tx' = tx /\ req[r].at = "Sending"
        /\ tx[r].state = "Landed" /\ store' = Remove(req[r].job.escrow.job_id)
        /\ UNCHANGED vars /\ UNCHANGED <<link, stream, gen, missed>>
    BY <1>3 DEF Confirm
  <2>2. req[r].job \in StoredJobs /\ req[r].verdict \in Verdicts
    BY <2>1 DEF OInv, ServiceInv, HoldsWhatItNeeds
  <2>3. ServiceInv' /\ LandedKept
    BY <2>1, <2>2, AnswerPreserves DEF OInv, Answers, Verdicts
  <2>4. ListenerTypeOK'
    <3>1. store' \in [JobIds -> StoredJobs \cup {Absent}]
      BY <2>1 DEF Remove, OInv, ListenerTypeOK
    <3> QED BY <2>1, <3>1 DEF OInv, ListenerTypeOK
  <2> QED BY <2>1, <2>3, <2>4, OffChain
<1> QED BY <1>1, <1>2, <1>3 DEF Handler

LEMMA NextPreservesOInv == OInv /\ [OracleNext]_ovars => OInv'
<1> SUFFICES ASSUME OInv, [OracleNext]_ovars PROVE OInv'
  OBVIOUS
<1>1. CASE ChainStep
  BY <1>1, ChainStepPreservesOInv
<1>2. CASE ListenerStep
  BY <1>2, ListenerStepPreservesOInv
<1>3. CASE Crash
  <2>1. ServiceInv' /\ LandedKept
    BY <1>3, CrashPreserves DEF OInv
  <2>2. ListenerTypeOK' /\ UNCHANGED vars /\ gen' = gen
    BY <1>3, LinkPreservesTypes DEF OInv, Crash, StopListener
  <2> QED BY <2>1, <2>2, OffChain
<1>4. ASSUME NEW r \in Requests, NEW j \in JobIds, NEW i \in Inputs, Submit(r, j, i)
      PROVE  OInv'
  <2>1. ServiceInv' /\ LandedKept
    BY <1>4, SubmitPreserves DEF OInv
  <2>2. UNCHANGED lvars
    BY <1>4 DEF Submit
  <2> QED BY <2>1, <2>2, OffChain DEF OInv, ListenerTypeOK, lvars, vars
<1>5. ASSUME NEW r \in Requests, Handler(r) PROVE OInv'
  BY <1>5, HandlerPreservesOInv
<1>6. ASSUME NEW r \in Requests, Land(r) PROVE OInv'
  BY <1>6, LandPreservesOInv
<1>7. ASSUME NEW r \in Requests, Expire(r) PROVE OInv'
  <2>1. ServiceInv' /\ LandedKept
    BY <1>7, ExpirePreserves DEF OInv
  <2>2. UNCHANGED lvars
    BY <1>7 DEF Expire
  <2> QED BY <2>1, <2>2, OffChain DEF OInv, ListenerTypeOK, lvars, vars
<1>8. CASE UNCHANGED ovars
  <2>1. UNCHANGED lvars /\ req' = req /\ tx' = tx
    BY <1>8 DEF ovars, lvars
  <2>2. ServiceInv' /\ LandedKept
    BY <2>1 DEF OInv, ServiceInv, RequestTypes, HoldsWhatItNeeds, SuccessMeansSettled,
                Landed, LandedKept
  <2> QED BY <2>1, <2>2, OffChain DEF OInv, ListenerTypeOK, lvars, vars
<1> QED BY <1>1, <1>2, <1>3, <1>4, <1>5, <1>6, <1>7, <1>8 DEF OracleNext

-----------------------------------------------------------------------------
(* The inductive invariant holds in every reachable state.                 *)
THEOREM OracleInvariance == OracleSpec => []OInv
<1> QED BY InitEstablishesOInv, NextPreservesOInv, PTL DEF OracleSpec

(* Every variable of the service keeps its type.                           *)
THEOREM OracleTypes == OracleSpec => []OracleTypeOK
<1>1. OInv => OracleTypeOK
  BY DEF OInv, ServiceInv, RequestTypes, RequestRecords, OracleTypeOK
<1> QED BY <1>1, OracleInvariance, PTL

(* Whoever is answered RELEASE or REFUND has a transaction of that verdict *)
(* on the chain, whatever was lost or restarted meanwhile.                 *)
THEOREM AnswersAreTrue == OracleSpec => []SuccessMeansSettled
<1>1. OInv => SuccessMeansSettled
  BY DEF OInv, ServiceInv
<1> QED BY <1>1, OracleInvariance, PTL

(* No two submissions settle the same job, however many run at once.       *)
THEOREM OneSettlementPerJob == OracleSpec => []SettledOnce
<1>1. OInv => SettledOnce
  BY DEF OInv, ChainInv
<1> QED BY <1>1, OracleInvariance, PTL

(* The oracle's key signs only what a submission's verdict asked for.      *)
THEOREM KeyNeedsConsensus == OracleSpec => []NoSettlementWithoutConsensus
<1>1. OInv => NoSettlementWithoutConsensus
  BY DEF OInv, ChainInv
<1> QED BY <1>1, OracleInvariance, PTL

(* A release that lands pays the freelancer whose work was verified, even  *)
(* when it settles a later job at the address.                             *)
THEOREM VerifiedFreelancerPaid == OracleSpec => ReleasePaysVerifiedFreelancer
<1>1. OInv /\ [OracleNext]_ovars =>
        [ \A r \in Requests :
            ~Landed(r) /\ Landed(r)' /\ req[r].verdict = "RELEASE" =>
                escrow[req[r].job.key].freelancer = req[r].job.escrow.freelancer ]_ovars
  <2> SUFFICES ASSUME OInv, [OracleNext]_ovars, NEW r \in Requests,
                      ~Landed(r), Landed(r)', req[r].verdict = "RELEASE"
               PROVE  escrow[req[r].job.key].freelancer = req[r].job.escrow.freelancer
    OBVIOUS
  <2>1. CASE Land(r)
    <3>1. req[r].job \in StoredJobs /\ req[r].verdict \in Verdicts
      BY <2>1 DEF Land, OInv, ServiceInv, HoldsWhatItNeeds
    <3> QED BY <2>1, <3>1, LandSettles DEF Land
  <2>2. CASE ~Land(r)
    <3>1. ASSUME NEW s \in Requests, Land(s) PROVE FALSE
      BY <2>2, <3>1 DEF Land, Landed, OInv, ServiceInv, RequestTypes
    <3>2. LandedKept \/ tx' = tx
      <4>1. CASE ChainStep \/ ListenerStep \/ Crash \/ UNCHANGED ovars
        BY <4>1 DEF ChainStep, ListenerStep, Crash, ovars
      <4>2. ASSUME NEW s \in Requests, NEW j \in JobIds, NEW i \in Inputs, Submit(s, j, i)
            PROVE  tx' = tx
        BY <4>2 DEF Submit
      <4>3. ASSUME NEW s \in Requests, Handler(s) PROVE LandedKept \/ tx' = tx
        BY <4>3, AgreePreserves DEF OInv, Handler, Escalate, ConsensusFails, Confirm, SendFails
      <4>4. ASSUME NEW s \in Requests, Expire(s) PROVE LandedKept
        BY <4>4, ExpirePreserves DEF OInv
      <4> QED BY <3>1, <4>1, <4>2, <4>3, <4>4 DEF OracleNext
    <3> QED BY <3>2 DEF LandedKept, Landed
  <2> QED BY <2>1, <2>2
<1> QED BY <1>1, OracleInvariance, PTL DEF OracleSpec, ReleasePaysVerifiedFreelancer

-----------------------------------------------------------------------------
(* Every record the listener is sent is pending: a settled one is closed   *)
(* in the transaction that settles it.  So no update removes a job.        *)
SentPending ==
    \A i \in 1 .. Len(stream) : Decodes(stream[i]) => stream[i].data.status = "Pending"

LEMMA NextPreservesSentPending ==
    ASSUME OInv, SentPending, [OracleNext]_ovars
    PROVE  SentPending'
<1>1. stream \in Seq(Updates) /\ Len(stream) \in Nat
  BY DEF OInv, ListenerTypeOK
<1>2. CASE stream' = stream \/ stream' = <<>>
  BY <1>2 DEF SentPending, Decodes
<1>3. CASE IInv' /\ Publish /\ stream' # stream
  <2>1. IInv'
    BY <1>3
  <2>2. PICK k \in Keys : stream' = Append(stream, [key |-> k, data |-> escrow'[k], gen |-> gen'[k]])
    BY <1>3 DEF Publish, Changed
  <2>3. escrow'[k] # NoEscrow => escrow'[k].status = "Pending"
    BY <2>1 DEF IInv, WellPlaced, Live
  <2> QED BY <1>1, <2>2, <2>3 DEF SentPending, Decodes
<1>4. CASE HandleUpdate
  <2>1. stream # <<>> /\ stream' = Tail(stream)
    BY <1>4 DEF HandleUpdate
  <2>2. Len(stream') = Len(stream) - 1
        /\ \A n \in 1 .. Len(stream') : stream'[n] = stream[n + 1]
    BY <1>1, <2>1
  <2> QED BY <1>1, <2>2 DEF SentPending, Decodes
<1>5. IInv'
  BY NextPreservesOInv DEF OInv
<1>6. Publish \/ HandleUpdate \/ stream' = stream \/ stream' = <<>>
  BY DEF OracleNext, ChainStep, ListenerStep, Subscribe, LoseStream, Retry, Start, Crash,
         StopListener, Submit, Handler, Agree, Escalate, ConsensusFails, Confirm, SendFails,
         Land, Expire, ovars, lvars
<1> QED BY <1>2, <1>3, <1>4, <1>5, <1>6

(* An update never takes a job out of the store.                           *)
LEMMA UpdateKeepsJobs ==
    ASSUME OInv, SentPending, HandleUpdate, NEW j \in JobIds, store[j] # Absent
    PROVE  store'[j] # Absent
<1>1. stream \in Seq(Updates) /\ stream # <<>> /\ store \in [JobIds -> StoredJobs \cup {Absent}]
  BY DEF OInv, ListenerTypeOK, HandleUpdate
<1>2. PICK h \in Updates : h = stream[1] /\ h = Head(stream) /\ 1 \in 1 .. Len(stream)
  BY <1>1
<1>3. store' = StoreAfter(h)
  BY <1>2 DEF HandleUpdate
<1>4. CASE ~Decodes(h)
  BY <1>3, <1>4 DEF StoreAfter
<1>5. CASE Decodes(h)
  <2>1. h.data \in GigEscrow /\ h.key \in Keys /\ h.gen \in Nat
    BY <1>2, <1>5 DEF Decodes, Updates
  <2>2. EntryOf(h) \in StoredJobs
    BY <2>1 DEF EntryOf, StoredJobs
  <2>3. h.data.status = "Pending"
    BY <1>2, <1>5 DEF SentPending
  <2>4. store' = [store EXCEPT ![h.data.job_id] = EntryOf(h)]
    BY <1>3, <1>5, <2>3 DEF StoreAfter, Upsert
  <2> QED BY <1>1, <2>2, <2>4, AbsentAssumption
<1> QED BY <1>4, <1>5

(* While the service runs, only a submission that settled a job with that  *)
(* id takes an entry out of the store.                                     *)
THEOREM ForgottenWereSettled == OracleSpec => OnlySettledForgotten
<1>1. OracleInit => SentPending
  BY DEF OracleInit, ListenerInit, SentPending
<1>2. OracleSpec => []SentPending
  BY <1>1, NextPreservesSentPending, OracleInvariance, PTL DEF OracleSpec
<1>3. OInv /\ SentPending /\ [OracleNext]_ovars =>
        [ \A j \in JobIds :
            store[j] # Absent /\ store'[j] = Absent /\ link' # "Down" =>
              \E r \in Requests : Landed(r) /\ req[r].job.escrow.job_id = j ]_ovars
  <2> SUFFICES ASSUME OInv, SentPending, OracleNext, NEW j \in JobIds,
                      store[j] # Absent, store'[j] = Absent, link' # "Down"
               PROVE  \E r \in Requests : Landed(r) /\ req[r].job.escrow.job_id = j
    BY DEF ovars
  <2>1. ~HandleUpdate
    BY UpdateKeepsJobs
  <2>2. store' # store /\ ~Crash
    BY DEF Crash, StopListener
  <2>3. PICK r \in Requests : Confirm(r)
    BY <2>1, <2>2 DEF OracleNext, ChainStep, Publish, ListenerStep, Subscribe, LoseStream,
                      Retry, Start, Submit, Handler, Agree, Escalate, ConsensusFails,
                      SendFails, Land, Expire, lvars
  <2>4. store' = Remove(req[r].job.escrow.job_id) /\ Landed(r)
    BY <2>3 DEF Confirm, Landed
  <2>5. req[r].job.escrow.job_id = j
    BY <2>4 DEF Remove, OInv, ListenerTypeOK
  <2> QED BY <2>4, <2>5
<1> QED BY <1>2, <1>3, OracleInvariance, PTL DEF OracleSpec, OnlySettledForgotten

-----------------------------------------------------------------------------
(* Whoever lands a transaction of the oracle, and whenever: seen from the  *)
(* chain the listener, the handlers and their losses are not there.        *)
LEMMA OracleStepIsOnChain ==
    ASSUME OInv, [OracleNext]_ovars
    PROVE  [Next]_vars
<1>1. CASE ChainStep
  BY <1>1, OthersSign DEF ChainStep, OInv
<1>2. ASSUME NEW r \in Requests, Land(r)
      PROVE  Next
  <2>1. req[r].job \in StoredJobs /\ req[r].verdict \in Verdicts /\ OracleTx(r)
    BY <1>2 DEF OInv, ServiceInv, RequestTypes, HoldsWhatItNeeds, Land
  <2> QED BY <2>1, LandSettles
<1>3. ASSUME NEW r \in Requests, Handler(r)
      PROVE  UNCHANGED vars
  BY <1>3 DEF Handler, Agree, Escalate, ConsensusFails, Confirm, SendFails, lvars, vars
<1>4. ASSUME NEW r \in Requests, Expire(r) \/ \E j \in JobIds, i \in Inputs : Submit(r, j, i)
      PROVE  UNCHANGED vars
  BY <1>4 DEF Expire, Submit, lvars, vars
<1>5. CASE ListenerStep \/ Crash \/ UNCHANGED ovars
  BY <1>5 DEF ListenerStep, HandleUpdate, Subscribe, LoseStream, Retry, Start, Crash,
              StopListener, ovars, vars
<1> QED BY <1>1, <1>2, <1>3, <1>4, <1>5 DEF OracleNext

(* What the whole does to the chain is a behaviour of the program: it      *)
(* lands no transaction the program would not execute.                     *)
THEOREM ChainUnderOracle == OracleSpec => Spec
<1>1. OracleInit => Init
  BY DEF OracleInit, ListenerInit
<1>2. OInv /\ [OracleNext]_ovars => [Next]_vars
  BY OracleStepIsOnChain
<1> QED BY <1>1, <1>2, OracleInvariance, PTL DEF OracleSpec, Spec

(* With it everything proved of the program holds of the whole, for any    *)
(* submissions, verdicts, crashes and late transactions: no lamport is     *)
(* lost, and the money of a job goes to its parties, as a custodian's      *)
(* would.                                                                  *)
THEOREM MoneyUnderOracle ==
    OracleSpec => ImplementsCustody /\ OnlyPartiesPaid /\ []Conservation
<1> QED BY ChainUnderOracle, Implementation, NobodyElseIsPaid, MoneyIsConserved, PTL

-----------------------------------------------------------------------------
(* The handlers do not spoil the store: what they take out is forgotten,   *)
(* and does not come back unless its address is opened again.              *)
LEMMA HandlerForgets ==
    ASSUME OInv, QueueInv, NEW r \in Requests, Handler(r), ListenerTypeOK'
    PROVE  QueueInv' /\ [R!Next]_(R!vars)
<1>1. UNCHANGED <<vars, stream, gen>>
  BY DEF Handler, Agree, Escalate, ConsensusFails, Confirm, SendFails, lvars, vars
<1>2. QueueInv' /\ Announced' = Announced
  BY <1>1, SameQueue
<1>3. CASE Confirm(r)
  <2>1. req[r].job \in StoredJobs /\ store' = Remove(req[r].job.escrow.job_id)
    BY <1>3 DEF OInv, ServiceInv, HoldsWhatItNeeds, Confirm
  <2>2. req[r].job.escrow.job_id \in JobIds
    BY <2>1 DEF StoredJobs, GigEscrow
  <2>3. R!Forget(req[r].job.escrow.job_id)
    BY <1>1, <1>2, <2>1 DEF R!Forget, Remove
  <2> QED BY <1>2, <2>2, <2>3 DEF R!Next
<1>4. CASE ~Confirm(r)
  <2>1. store' = store
    BY <1>4 DEF Handler, Agree, Escalate, ConsensusFails, SendFails, lvars
  <2> QED BY <1>1, <1>2, <2>1 DEF R!vars
<1> QED BY <1>3, <1>4

(* With the service at work beside it, the store is still the registry.    *)
THEOREM RegistryUnderOracle == OracleSpec => ImplementsRegistry
<1>1. OInv /\ QueueInv /\ [OracleNext]_ovars => QueueInv' /\ [R!Next]_(R!vars)
  <2> SUFFICES ASSUME OInv, QueueInv, [OracleNext]_ovars
               PROVE  QueueInv' /\ [R!Next]_(R!vars)
    OBVIOUS
  <2>1. ListenerTypeOK'
    BY NextPreservesOInv DEF OInv
  <2>2. CASE ChainStep
    BY <2>2, OracleStepIsOnChain, PublishOpens DEF ChainStep
  <2>3. CASE ListenerStep \/ Crash
    BY <2>3, HandleUpdateLearns, LinkLoses DEF ListenerStep, Crash
  <2>4. ASSUME NEW r \in Requests, Handler(r) PROVE QueueInv' /\ [R!Next]_(R!vars)
    BY <2>1, <2>4, HandlerForgets
  <2>5. ASSUME NEW r \in Requests, Land(r) PROVE QueueInv' /\ [R!Next]_(R!vars)
    BY <2>5, OracleStepIsOnChain, PublishOpens DEF Land
  <2>6. CASE \/ UNCHANGED ovars
             \/ \E r \in Requests :
                   Expire(r) \/ \E j \in JobIds, i \in Inputs : Submit(r, j, i)
    <3>1. UNCHANGED <<vars, stream, gen>> /\ store' = store
      BY <2>6 DEF Expire, Submit, lvars, ovars, vars
    <3> QED BY <2>1, <3>1, SameQueue DEF R!vars
  <2> QED BY <2>2, <2>3, <2>4, <2>5, <2>6 DEF OracleNext
<1>2. OracleInit => QueueInv /\ R!Init
  BY InitIsRegistrys DEF OracleInit
<1> QED BY <1>1, <1>2, OracleInvariance, PTL DEF OracleSpec, ImplementsRegistry, R!Spec

-----------------------------------------------------------------------------
(* A step of the service with its models is one of the service, or none.   *)
LEMMA VerificationStepIsOracles == [VerificationNext]_vvars => [OracleNext]_ovars
<1> SUFFICES ASSUME [VerificationNext]_vvars PROVE [OracleNext]_ovars
  OBVIOUS
<1>1. CASE Around
  BY <1>1 DEF Around, OracleNext
<1>2. ASSUME NEW r \in Requests, NEW m, ModelReplies(r, m) PROVE UNCHANGED ovars
  BY <1>2 DEF ModelReplies
<1>3. ASSUME NEW r \in Requests, Decide(r) \/ Finish(r) PROVE OracleNext
  <2>1. Handler(r)
    BY <1>3 DEF Decide, Finish, Handler
  <2> QED BY <2>1 DEF OracleNext
<1>4. CASE UNCHANGED vvars
  BY <1>4 DEF vvars, ovars
<1> QED BY <1>1, <1>2, <1>3, <1>4 DEF VerificationNext

(* Verification is written as Oracle with a condition on the verdict, so   *)
(* what is proved of the one can be used of the other.                     *)
LEMMA VerificationIsOracle == VerificationSpec => OracleSpec
<1>1. VerificationInit => OracleInit
  BY DEF VerificationInit
<1> QED BY <1>1, VerificationStepIsOracles, PTL DEF VerificationSpec, OracleSpec

-----------------------------------------------------------------------------
(* Only a reply to r moves the verification of r, by a step of Consensus.  *)
VotesAreRecords ==
    votes = [r \in Requests |-> [call |-> votes[r].call, result |-> votes[r].result]]

LEMMA ReplyMovesOne ==
    ASSUME VotesAreRecords, NEW r \in Requests, NEW m \in V(r)!Models, ModelReplies(r, m)
    PROVE  /\ VotesAreRecords' /\ V(r)!ConsensusNext
           /\ \A s \in Requests \ {r} : votes'[s] = votes[s]
           /\ config' = config
<1>1. PICK calls, result :
         votes' = [votes EXCEPT ![r] = [call |-> calls, result |-> result]]
  BY DEF ModelReplies
<1>2. VotesAreRecords' /\ \A s \in Requests \ {r} : votes'[s] = votes[s]
  BY <1>1 DEF VotesAreRecords
<1>3. V(r)!ConsensusNext
  BY DEF ModelReplies, V!ConsensusNext
<1> QED BY <1>2, <1>3 DEF ModelReplies

LEMMA OnlyRepliesMove ==
    ASSUME [VerificationNext]_vvars
    PROVE  \/ UNCHANGED <<config, votes>>
           \/ \E r \in Requests : \E m \in V(r)!Models : ModelReplies(r, m)
BY DEF VerificationNext, Around, Decide, Finish, vvars

LEMMA VerificationStepIsConsensus ==
    ASSUME VotesAreRecords, [VerificationNext]_vvars, NEW r \in Requests
    PROVE  UNCHANGED V(r)!cvars \/ V(r)!ConsensusNext
<1>1. CASE UNCHANGED <<config, votes>>
  BY <1>1 DEF V!cvars
<1>2. ASSUME NEW s \in Requests, NEW m \in V(s)!Models, ModelReplies(s, m)
      PROVE  UNCHANGED V(r)!cvars \/ V(r)!ConsensusNext
  <2>1. CASE s = r
    BY <1>2, <2>1, ReplyMovesOne
  <2>2. CASE s # r
    <3>1. votes'[r] = votes[r] /\ config' = config
      BY <1>2, <2>2, ReplyMovesOne
    <3> QED BY <3>1 DEF V!cvars
  <2> QED BY <2>1, <2>2
<1> QED BY <1>1, <1>2, OnlyRepliesMove

-----------------------------------------------------------------------------
(* What a result says of the votes it was made of, in the verification of  *)
(* every request: the types rule out a vote nobody validated, the result   *)
(* that a vote is still to come.                                           *)
VoteInv(r) == V(r)!ConsensusTypeOK /\ V(r)!ResultFollowsVotes

(* What an outcome says of two valid votes.                                *)
LEMMA OutcomeOfVotes ==
    ASSUME NEW r \in Requests, NEW g \in V(r)!ModelVerdict, NEW c \in V(r)!ModelVerdict
    PROVE  LET o == V(r)!DetermineOutcome(g, c)
           IN  /\ o \in V(r)!Outcomes
               /\ o = "RELEASE" <=> \A v \in {g, c} : v.verdict = "APPROVED" /\ v.confidence >= config.approval
               /\ o = "REFUND" <=> \A v \in {g, c} : v.verdict = "REJECTED" /\ v.confidence >= config.rejection
BY DEF V!DetermineOutcome, V!Approved, V!Rejected, V!Outcomes, V!ModelVerdict

(* A vote that counts.                                                     *)
LEMMA FulfilKeepsVoteInv ==
    ASSUME NEW r \in Requests, VoteInv(r), NEW m \in V(r)!Models,
           NEW v \in V(r)!ModelVerdict, votes[r].call[m].at = "Pending",
           V(r)!Fulfil(m, v), config' = config
    PROVE  VoteInv(r)'
<1> DEFINE now1 == votes'[r].call
           res1 == votes'[r].result
<1>0. votes[r].call \in [V(r)!Models -> V(r)!Calls] /\ config \in V(r)!Thresholds
      /\ now1 = [votes[r].call EXCEPT ![m] = [at |-> "Fulfilled", value |-> v]]
  BY DEF VoteInv, V!ConsensusTypeOK, V!Fulfil
<1>1. now1 \in [V(r)!Models -> V(r)!Calls]
  BY <1>0 DEF V!Calls
<1>2. /\ now1[m].at = "Fulfilled"
      /\ \A n \in V(r)!Models : n # m => now1[n] = votes[r].call[n]
  BY <1>0
<1>3. votes[r].result \in {"Waiting", "Failed"}
  BY DEF VoteInv, V!ConsensusTypeOK, V!ResultFollowsVotes, V!Unanimous, V!Outcomes
<1>4. CASE V(r)!AllFulfilled(now1)
  <2> DEFINE g == now1["gemini"].value
             c == now1["claude"].value
  <2>1. g \in V(r)!ModelVerdict /\ c \in V(r)!ModelVerdict
    BY <1>1, <1>4 DEF V!AllFulfilled, V!Models, V!Calls
  <2>2. res1 = V(r)!DetermineOutcome(g, c)
    BY <1>4 DEF V!Fulfil
  <2>3. /\ res1 \in V(r)!Outcomes
        /\ res1 = "RELEASE" <=> \A w \in {g, c} : w.verdict = "APPROVED" /\ w.confidence >= config.approval
        /\ res1 = "REFUND" <=> \A w \in {g, c} : w.verdict = "REJECTED" /\ w.confidence >= config.rejection
    <3> HIDE DEF g, c
    <3> QED BY <2>1, <2>2, OutcomeOfVotes
  <2>4. /\ V(r)!Unanimous("APPROVED", config.approval)' <=>
             \A w \in {g, c} : w.verdict = "APPROVED" /\ w.confidence >= config.approval
        /\ V(r)!Unanimous("REJECTED", config.rejection)' <=>
             \A w \in {g, c} : w.verdict = "REJECTED" /\ w.confidence >= config.rejection
    BY <1>4, <2>1 DEF V!Unanimous, V!AllFulfilled, V!Models
  <2>5. \A n \in V(r)!Models : now1[n].at = "Fulfilled"
    BY <1>4 DEF V!AllFulfilled
  <2> HIDE DEF g, c
  <2> QED BY <1>0, <1>1, <2>3, <2>4, <2>5
          DEF VoteInv, V!ConsensusTypeOK, V!ResultFollowsVotes, V!Outcomes
<1>5. CASE ~V(r)!AllFulfilled(now1)
  <2>1. res1 = votes[r].result
    BY <1>5 DEF V!Fulfil
  <2>2. \E n \in V(r)!Models : now1[n].at # "Fulfilled"
    BY <1>5 DEF V!AllFulfilled
  <2>3. ~V(r)!Unanimous("APPROVED", config.approval)' /\ ~V(r)!Unanimous("REJECTED", config.rejection)'
    BY <2>2 DEF V!Unanimous
  <2>4. (\E n \in V(r)!Models : now1[n].at = "Rejected")
        <=> (\E n \in V(r)!Models : votes[r].call[n].at = "Rejected")
    BY <1>2
  <2>5. res1 = "Waiting" => \E n \in V(r)!Models : now1[n].at = "Pending"
    BY <1>1, <2>1, <2>2, <2>4 DEF VoteInv, V!ResultFollowsVotes, V!Calls
  <2> QED BY <1>0, <1>1, <1>3, <2>1, <2>3, <2>4, <2>5
          DEF VoteInv, V!ConsensusTypeOK, V!ResultFollowsVotes
<1> QED BY <1>4, <1>5

(* A call that fails.                                                      *)
LEMMA RejectKeepsVoteInv ==
    ASSUME NEW r \in Requests, VoteInv(r), NEW m \in V(r)!Models,
           votes[r].call[m].at = "Pending", V(r)!Reject(m), config' = config
    PROVE  VoteInv(r)'
<1>1. /\ votes'[r].call = [votes[r].call EXCEPT ![m] = [at |-> "Rejected"]]
      /\ votes[r].call \in [V(r)!Models -> V(r)!Calls] /\ config \in V(r)!Thresholds
  BY DEF VoteInv, V!ConsensusTypeOK, V!Reject
<1>2. votes'[r].call \in [V(r)!Models -> V(r)!Calls] /\ votes'[r].call[m].at = "Rejected"
  BY <1>1 DEF V!Calls
<1>3. votes[r].result \in {"Waiting", "Failed"}
  BY DEF VoteInv, V!ConsensusTypeOK, V!ResultFollowsVotes, V!Unanimous, V!Outcomes
<1>4. votes'[r].result = "Failed"
  BY <1>3 DEF V!Reject
<1>5. ~V(r)!Unanimous("APPROVED", config.approval)' /\ ~V(r)!Unanimous("REJECTED", config.rejection)'
  BY <1>2 DEF V!Unanimous
<1> QED BY <1>1, <1>2, <1>4, <1>5 DEF VoteInv, V!ConsensusTypeOK, V!ResultFollowsVotes

LEMMA ConsensusKeepsVoteInv ==
    ASSUME NEW r \in Requests, VoteInv(r), UNCHANGED V(r)!cvars \/ V(r)!ConsensusNext
    PROVE  VoteInv(r)'
<1>1. CASE UNCHANGED V(r)!cvars
  BY <1>1 DEF V!cvars, VoteInv, V!ConsensusTypeOK, V!ResultFollowsVotes, V!Unanimous
<1>2. CASE V(r)!ConsensusNext
  <2>1. PICK m \in V(r)!Models, reply \in V(r)!Replies : V(r)!Reply(m, reply)
    BY <1>2 DEF V!ConsensusNext
  <2>2. V(r)!ParseModelResponse(reply) \subseteq V(r)!ModelVerdict
    BY VotesAssumption DEF V!ParseModelResponse, V!ModelVerdict
  <2>3. CASE \E v \in V(r)!ParseModelResponse(reply) : V(r)!Fulfil(m, v)
    BY <2>1, <2>2, <2>3, FulfilKeepsVoteInv DEF V!Reply
  <2>4. CASE V(r)!Reject(m)
    BY <2>1, <2>4, RejectKeepsVoteInv DEF V!Reply
  <2> QED BY <2>1, <2>3, <2>4 DEF V!Reply
<1> QED BY <1>1, <1>2

(* A result of votes that decide is not changed by any later step.         *)
LEMMA DecidedStays ==
    ASSUME NEW r \in Requests, VoteInv(r), votes[r].result \in Verdicts,
           UNCHANGED V(r)!cvars \/ V(r)!ConsensusNext
    PROVE  votes'[r].result = votes[r].result
<1>1. \A m \in V(r)!Models : votes[r].call[m].at = "Fulfilled"
  BY DEF VoteInv, V!ResultFollowsVotes, V!Unanimous, Verdicts
<1>2. ~V(r)!ConsensusNext
  BY <1>1 DEF V!ConsensusNext, V!Reply
<1> QED BY <1>2 DEF V!cvars

-----------------------------------------------------------------------------
(* A handler that sent a transaction has the verdict of its own votes.     *)
VerdictsAreVoted ==
    \A r \in Requests : tx[r] # NoTx =>
        req[r].verdict \in Verdicts /\ req[r].verdict = votes[r].result

VInv ==
    /\ VotesAreRecords
    /\ \A r \in Requests : VoteInv(r)
    /\ VerdictsAreVoted

LEMMA InitEstablishesVInv == VerificationInit => VInv
<1> SUFFICES ASSUME VerificationInit PROVE VInv
  OBVIOUS
<1>1. VotesAreRecords
  BY DEF VerificationInit, VotesAreRecords, Unasked
<1>2. ASSUME NEW r \in Requests PROVE VoteInv(r)
  BY <1>2 DEF VerificationInit, VoteInv, V!ConsensusInit, V!ConsensusTypeOK,
              V!ResultFollowsVotes, V!Unanimous, V!Calls, V!Models, V!Outcomes
<1>3. VerdictsAreVoted
  BY DEF VerificationInit, OracleInit, VerdictsAreVoted
<1> QED BY <1>1, <1>2, <1>3 DEF VInv

(* Only Agree sends a transaction, and only with the verdict of the votes. *)
LEMMA VerdictKept ==
    ASSUME OInv, VInv, [VerificationNext]_vvars, NEW r \in Requests, tx'[r] # NoTx
    PROVE  \/ tx[r] # NoTx /\ req'[r].verdict = req[r].verdict
           \/ /\ req'[r].verdict \in Verdicts /\ req'[r].verdict = votes[r].result
<1>0. req \in [Requests -> RequestRecords] /\ tx \in [Requests -> TxStates]
  BY DEF OInv, ServiceInv, RequestTypes
<1>1. ASSUME NEW s \in Requests, NEW m, ModelReplies(s, m)
      PROVE  tx' = tx /\ req' = req
  BY <1>1 DEF ModelReplies, ovars
<1>2. ASSUME NEW s \in Requests, Decide(s)
      PROVE  \/ tx' = tx /\ req'[r].verdict = req[r].verdict
             \/ s = r /\ req'[r].verdict \in Verdicts /\ req'[r].verdict = votes[r].result
             \/ s # r /\ tx'[r] = tx[r] /\ req'[r] = req[r]
  BY <1>0, <1>2 DEF Decide, Agree, Escalate, ConsensusFails, Answer, RequestRecords
<1>3. ASSUME NEW s \in Requests, Finish(s)
      PROVE  tx' = tx /\ req'[r].verdict = req[r].verdict
  BY <1>0, <1>3 DEF Finish, Confirm, SendFails, Answer, RequestRecords
<1>4. CASE Around
  <2>1. ASSUME NEW s \in Requests, NEW j \in JobIds, NEW i \in Inputs, Submit(s, j, i)
        PROVE  tx' = tx /\ req'[r].verdict = req[r].verdict
    BY <1>0, <2>1 DEF Submit, Answer, RequestRecords
  <2>2. ASSUME NEW s \in Requests, Land(s) \/ Expire(s)
        PROVE  req' = req /\ (tx[r] # NoTx \/ tx'[r] = tx[r])
    BY <1>0, <2>2 DEF Land, Expire, NoTx
  <2>3. CASE Crash
    BY <1>0, <2>3 DEF Crash, RequestRecords
  <2>4. CASE ChainStep \/ ListenerStep
    BY <2>4 DEF ChainStep, ListenerStep
  <2> QED BY <1>4, <2>1, <2>2, <2>3, <2>4 DEF Around
<1>5. CASE UNCHANGED vvars
  BY <1>5 DEF vvars
<1> QED BY <1>1, <1>2, <1>3, <1>4, <1>5 DEF VerificationNext

LEMMA NextPreservesVInv == OInv /\ VInv /\ [VerificationNext]_vvars => VInv'
<1> SUFFICES ASSUME OInv, VInv, [VerificationNext]_vvars PROVE VInv'
  OBVIOUS
<1>1. VotesAreRecords'
  <2>1. CASE UNCHANGED <<config, votes>>
    BY <2>1 DEF VInv, VotesAreRecords
  <2> QED BY <2>1, OnlyRepliesMove, ReplyMovesOne DEF VInv
<1>2. \A r \in Requests : UNCHANGED V(r)!cvars \/ V(r)!ConsensusNext
  BY VerificationStepIsConsensus DEF VInv
<1>3. \A r \in Requests : VoteInv(r)'
  BY <1>2, ConsensusKeepsVoteInv DEF VInv
<1>4. VerdictsAreVoted'
  <2> SUFFICES ASSUME NEW r \in Requests, tx'[r] # NoTx
               PROVE  req'[r].verdict \in Verdicts /\ req'[r].verdict = votes'[r].result
    BY DEF VerdictsAreVoted, NoTx
  <2>1. req'[r].verdict \in Verdicts /\ req'[r].verdict = votes[r].result
    BY VerdictKept DEF VInv, VerdictsAreVoted
  <2> QED BY <1>2, <2>1, DecidedStays DEF VInv
<1> QED BY <1>1, <1>3, <1>4 DEF VInv

(* The inductive invariant of Verification holds beside that of Oracle.    *)
THEOREM VerificationInvariance == VerificationSpec => [](OInv /\ VInv)
<1>1. VerificationSpec => []OInv
  BY VerificationIsOracle, OracleInvariance, PTL
<1> QED BY <1>1, InitEstablishesVInv, NextPreservesVInv, PTL DEF VerificationSpec

(* Every variable of the service with its models keeps its type.           *)
THEOREM VerificationTypes == VerificationSpec => []VerificationTypeOK
<1>1. VerificationSpec => []OracleTypeOK
  BY VerificationIsOracle, OracleTypes, PTL
<1>2. VerificationSpec => [](config \in [approval : Numbers, rejection : Numbers])
  <2>1. config \in [approval : Numbers, rejection : Numbers] /\ [VerificationNext]_vvars
          => (config \in [approval : Numbers, rejection : Numbers])'
    BY DEF VerificationNext, Around, ModelReplies, Decide, Finish, vvars
  <2>2. VerificationInit => config \in [approval : Numbers, rejection : Numbers]
    BY DEF VerificationInit
  <2> QED BY <2>1, <2>2, PTL DEF VerificationSpec
<1>3. OracleTypeOK /\ config \in [approval : Numbers, rejection : Numbers] /\ VInv
        => VerificationTypeOK
  BY DEF VerificationTypeOK, VInv, VoteInv
<1> QED BY <1>1, <1>2, <1>3, VerificationInvariance, PTL

(* For any number of submissions, of verifications side by side, of jobs   *)
(* and of crashes: the oracle's key moves money only as the two models of  *)
(* one verification voted, validly and above the threshold.                *)
THEOREM KeyNeedsVotes == VerificationSpec => []SettledOnVotes
<1>1. OInv /\ VInv => SettledOnVotes
  <2> SUFFICES ASSUME OInv, VInv, NEW k \in Keys, settled[k] # NeverSettled,
                      ByThisOracle(settled[k])
               PROVE  \E r \in Requests :
                        /\ Landed(r) /\ req[r].job.key = k
                        /\ IF settled[k].kind = "Released"
                           THEN V(r)!Unanimous("APPROVED", config.approval)
                           ELSE V(r)!Unanimous("REJECTED", config.rejection)
    BY DEF SettledOnVotes
  <2>1. PICK r \in Requests :
           /\ Landed(r) /\ req[r].job.key = k
           /\ req[r].verdict = IF settled[k].kind = "Released" THEN "RELEASE" ELSE "REFUND"
    BY DEF OInv, ChainInv, NoSettlementWithoutConsensus
  <2>2. votes[r].result = req[r].verdict
    BY <2>1 DEF VInv, VerdictsAreVoted, Landed, NoTx
  <2> QED BY <2>1, <2>2 DEF VInv, VoteInv, V!ResultFollowsVotes
<1> QED BY <1>1, VerificationInvariance, PTL

-----------------------------------------------------------------------------
(* The inductive invariant of the reconnect loop: while the timer runs,    *)
(* what it has left fits what the gap may still grow, and fills what the   *)
(* base delay still asks for.                                              *)
ReconnectInv ==
    /\ subscription \in {"Connecting", "Streaming", "Waiting"}
    /\ attempt \in Nat /\ wait \in Nat /\ gap \in Nat /\ since \in 0 .. ReconnectBase
    /\ reachable \in BOOLEAN
    /\ BackWithinCap
    /\ subscription = "Streaming" \/ ~reachable => gap = 0
    /\ subscription = "Waiting" => /\ gap + wait <= ReconnectMax
                                   /\ since + wait >= ReconnectBase

(* A set of n members has 2^n subsets, one of them the empty one.          *)
LEMMA PowerIsPositive ==
    ASSUME NEW n \in Nat
    PROVE  2^n \in Nat \ {0}
<1> DEFINE S == 1 .. n
<1>1. IsFiniteSet(S) /\ Cardinality(S) = n
  BY FS_Interval
<1>2. IsFiniteSet(SUBSET S) /\ Cardinality(SUBSET S) = 2^n
  BY <1>1, FS_SUBSET
<1>3. Cardinality(SUBSET S) \in Nat
  BY <1>2, FS_CardinalityType
<1>4. Cardinality(SUBSET S) # 0
  BY <1>2, FS_EmptySet
<1> QED BY <1>2, <1>3, <1>4

(* No delay is shorter than the base or longer than the cap.               *)
LEMMA DelayInRange ==
    ASSUME NEW n \in Nat
    PROVE  Delay(n) \in ReconnectBase .. ReconnectMax
<1> DEFINE p == 2^n
<1>1. p \in Nat \ {0}
  BY PowerIsPositive
<1> HIDE DEF p
<1>2. ReconnectBase * p \in Nat /\ ReconnectBase * p >= ReconnectBase
  BY <1>1, ReconnectAssumption
<1>3. Delay(n) = Lesser(ReconnectBase * p, ReconnectMax)
  BY DEF Delay, p
<1> QED BY <1>2, <1>3, ReconnectAssumption DEF Lesser

(* The gap and the spacing when the timer starts with w to go.             *)
LEMMA DelayFits ==
    ASSUME NEW b \in Nat, NEW m \in Nat, NEW w \in Nat, NEW s \in Nat, b <= w, w <= m
    PROVE  s + w >= b /\ 0 + w <= m /\ 0 <= m
OBVIOUS

LEMMA InitEstablishesReconnectInv == ReconnectInit => ReconnectInv
BY ReconnectAssumption DEF ReconnectInit, ReconnectInv, BackWithinCap

LEMMA NextPreservesReconnectInv ==
    ReconnectInv /\ [ReconnectNext]_rvars => ReconnectInv'
<1> SUFFICES ASSUME ReconnectInv, [ReconnectNext]_rvars PROVE ReconnectInv'
  OBVIOUS
<1>0. ReconnectBase \in Nat /\ ReconnectMax \in Nat
  BY ReconnectAssumption
<1>1. CASE Connected
  BY <1>0, <1>1 DEF Connected, ReconnectInv, BackWithinCap
<1>2. CASE Fails \/ Ends
  <2>1. wait' \in Nat /\ ReconnectBase <= wait' /\ wait' <= ReconnectMax
    <3>1. wait' \in ReconnectBase .. ReconnectMax
      BY <1>2, DelayInRange DEF Fails, Ends, ReconnectInv
    <3> QED BY <1>0, <3>1
  <2>2. attempt' \in Nat
    BY <1>2, ReconnectAssumption DEF Fails, Ends, Lesser, ReconnectInv
  <2>3. gap = 0 /\ subscription' = "Waiting" /\ UNCHANGED <<reachable, gap, since>>
    BY <1>2 DEF Fails, Ends, ReconnectInv
  <2>4. PICK w \in Nat : w = wait' /\ ReconnectBase <= w /\ w <= ReconnectMax
    BY <2>1
  <2>5. PICK s \in Nat : s = since
    BY <1>0 DEF ReconnectInv
  <2>6. s + w >= ReconnectBase /\ 0 + w <= ReconnectMax /\ 0 <= ReconnectMax
    BY <1>0, <2>4, DelayFits
  <2>7. gap' = 0 /\ wait' = w /\ since' = s
    BY <2>3, <2>4, <2>5
  <2>8. since' \in 0 .. ReconnectBase /\ reachable' \in BOOLEAN
    BY <2>3 DEF ReconnectInv
  <2>9. BackWithinCap'
    BY <2>6, <2>7 DEF BackWithinCap
  <2> QED BY <2>2, <2>3, <2>4, <2>6, <2>7, <2>8, <2>9 DEF ReconnectInv
<1>3. CASE TimerFires
  BY <1>0, <1>3 DEF TimerFires, ReconnectInv, BackWithinCap
<1>4. CASE EndpointChanges
  BY <1>0, <1>4 DEF EndpointChanges, ReconnectInv, BackWithinCap
<1>5. CASE TimePasses
  BY <1>0, <1>5 DEF TimePasses, Lesser, ReconnectInv, BackWithinCap
<1>6. CASE UNCHANGED rvars
  BY <1>6 DEF rvars, ReconnectInv, BackWithinCap
<1> QED BY <1>1, <1>2, <1>3, <1>4, <1>5, <1>6 DEF ReconnectNext

(* The timer never runs for longer than the cap allows the gap to grow,    *)
(* nor for less than the base delay asks: the inductive invariant.         *)
THEOREM ReconnectInvariance == ReconnectSpec => []ReconnectInv
<1> QED BY InitEstablishesReconnectInv, NextPreservesReconnectInv, PTL DEF ReconnectSpec

(* For every base and cap, the listener is back within the cap.            *)
THEOREM GapIsCapped == ReconnectSpec => []BackWithinCap
<1>1. ReconnectInv => BackWithinCap
  BY DEF ReconnectInv
<1> QED BY <1>1, ReconnectInvariance, PTL

(* For every base and cap, no two attempts are closer than the base delay. *)
THEOREM EndpointIsSpared == ReconnectSpec => NeverHammers
<1>1. ReconnectInv /\ [ReconnectNext]_rvars =>
        [ subscription # "Connecting" /\ subscription' = "Connecting" =>
            since >= ReconnectBase ]_rvars
  BY DEF ReconnectInv, ReconnectNext, Connected, Fails, Ends, TimerFires,
         EndpointChanges, TimePasses
<1> QED BY <1>1, ReconnectInvariance, PTL DEF ReconnectSpec, NeverHammers
=============================================================================
