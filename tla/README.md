# Mappers: a TLA+ development

This directory specifies, checks and partly proves the freelance escrow of this
repository: an on-chain Solana program that holds the money, an oracle service
that has two AI models judge a deliverable and then pays or refunds, an API
server with a database of jobs, and the SDK, the dashboard and the end-to-end
script that talk to them.

Run a check from this directory with `tlc -config <cfg> <module>`, a proof with
`tlapm <module>.tla`; `PROJECT.json` lists every run with its properties, every
theorem, the hazards each property is for, and the source lines each definition
stands for.

## The system

| part | state | operations | talks to | here |
| --- | --- | --- | --- | --- |
| escrow program, `programs/project_mappers/src/lib.rs` | per (client, job id): a `GigEscrow` record and a vault of lamports | `initialize_job`, `release_payment`, `cancel_job`, `refund_after_timeout` | called by everybody; each call is one atomic transaction | modelled |
| listener, `oracle/src/listener.ts` | one gRPC stream, the reconnect attempt | subscribe, handle an account update, fail, end, back off | reads account updates of the program, writes the store | modelled |
| store, `oracle/src/store.ts` | in-memory map from job id to the last record seen | upsert, get, remove | shared by the listener and the HTTP handlers | modelled |
| consensus, `oracle/src/verification.ts` | none between calls | ask both models at once, parse, decide | Gemini and Claude APIs | modelled |
| oracle HTTP service, `oracle/src/index.ts`, `chain.ts` | the `/submit` handlers in flight | verify, send a transaction, answer | store, consensus, the program | modelled |
| API server, `apps/api-server/src/routes/jobs.ts` | the calls in flight | create, list, get, patch, submit (a proxy), stats, the oracle's health | oracle service, PostgreSQL | modelled |
| database schema, `lib/db` | one row per job id | insert, update, select | API server | modelled |
| API schemas, `lib/api-zod` | none | accept or refuse a body or a reply | API server | partly |
| API client, `lib/api-client-react` | none | one hook per route over `customFetch` | API server, React Query | modelled |
| SDK, `lib/sdk` | none | find jobs, build instructions, call the oracle | program, oracle service | partly |
| dashboard, `apps/dashboard` | React state, a query cache | create a job (chain, then database), submit, patch, show | SDK, API client | partly |
| end-to-end script, `scripts/e2e-devnet.ts` | where it is | open a job, wait for the listener, submit, report | program, oracle service | modelled |
| toast queue, UI components | component state | | | not modelled |
| tests, docs, workflows | | | | statements to compare with |

What is hard about it:

- **Concurrency.** Client, oracle and bystanders race for the same job; `/submit`
  handlers for one job run side by side and hold a record they read before two
  awaits; the listener changes the store underneath them; several tabs create
  and patch the same row; the handler of a button goes on while its form is
  edited and its page is left.
- **Failure.** The stream loses updates and replays none; processes restart with
  nothing to remember; a transaction may land although `rpc()` threw, or after
  the process that sent it died; a statement may have run although its
  connection broke; a job is opened on the chain before its row exists.
- **Ordering.** Updates lag behind the chain; the two models answer in either
  order; an address is closed and opened again between two of them; an answer
  comes after its tab was switched.
- **Boundaries.** The rent rule of the runtime, the 32-byte seeds, the ends of
  the duration window and of the i64 clock, thresholds that are any number,
  amounts that are any text, responses that are any bytes.

What makes each part correct:

- *program*: the vault of a live job covers what it promises; money leaves a
  vault only to the parties of the job that closes, all of it, once; nothing can
  block a settlement; no refund before the shortest window without the oracle;
  every job ends even if nobody but a bystander acts.
- *listener and store*: the store is never ahead of the chain, is current once
  the queue is empty (apart from what was lost), and an update that was received
  is not ignored; a lost stream is replaced within the cap and the endpoint is
  not hammered.
- *consensus*: the result depends on the two votes alone, is final, and exists.
- *oracle service*: a caller told RELEASE or REFUND is told the truth; one job
  is settled once; only an agreement moves money; every caller is answered.
- *API server*: a creation that was confirmed is the row; a refusal has changed
  nothing; the statistics add up; every call is answered.
- *API client and SDK*: an error is reported as what it is, what the caller asks
  for is what is sent.
- *dashboard*: a half-made job is not passed over in silence; what is registered
  is what was signed; a page shows what was once so of the row it names, does not
  fall behind what it showed, and never waits for ever.
- *end-to-end script*: it reports what is so, and ends.

## The modules

| module | models | composes |
| --- | --- | --- |
| `Escrow` | the program, the wallets and the clock | an instance of `Custody` (refinement) |
| `Custody` | what the program promises about money: deals, pots, purses | |
| `Listener` | the stream, the listener and the store | extends `Escrow`: every chain step publishes an update; an instance of `Registry` (refinement) |
| `Registry` | what the store promises its readers: openings announced, entered once, forgotten | |
| `Reconnect` | the reconnect loop with its clock | stands alone; `Listener` breaks and restores the stream at will |
| `Oracle` | the `/submit` handlers and the transactions they send | extends `Listener` |
| `Consensus` | `runConsensus`: two calls, a parser, the decision | stands alone; `Oracle` chooses its result freely |
| `Verification` | the service with its models: every handler with a verification of its own | extends `Oracle`, one instance of `Consensus` per request |
| `E2e` | the end-to-end script, and one job through listener, handler, models and chain | extends `Consensus`, instance of `Sdk` |
| `ApiServer` | the routes over the jobs table | an instance of `JobsTable` (refinement); the oracle is any peer that replies what `index.ts` may |
| `JobsTable` | what the table promises its readers: entries, and how one may change | |
| `Proxy` | a submission through API server, oracle service and chain | extends `ApiServer`, an instance of `Oracle` whose requests are its calls |
| `CustomFetch` | requests and responses of the two HTTP clients, as pure functions | |
| `ApiClient` | the generated hooks at both ends of a call | extends `ApiServer`, `CustomFetch` |
| `Sdk` | `initializeJob` and what a program makes of its arguments | |
| `CreateJob` | the page that creates a job: wallet, chain, registration | extends `ApiClient`, instance of `Sdk` |
| `JobDetail` | the page of one job: a cached query, updates, a submission | extends `ApiClient` |
| `Pages` | overview, list with tabs, state of the oracle, over one cache | extends `ApiClient` |
| `SumTheorems` | how a sum over a finite set changes: theorems | |
| `EscrowProofs`, `OracleProofs`, `E2eProofs`, `ApiServerProofs`, `CreateJobProofs`, `JobDetailProofs`, `PagesProofs` | theorems | extend the modules they are about, and the proofs these build on |
| `MC...` | instances for TLC | |

In every module, operators that precede the one they resemble (`ValidDurationNoMin`
before `ValidDuration`) are faults a plausible mistake would introduce. No
specification uses them; `PROJECT.json` lists for every property one that breaks
it.

### Escrow, Custody

`escrow[k]`, `vault[k]` and `balance[w]` are the accounts; `k` is the pair of a
client and a seed, which is what both addresses are derived from. `now` is the
clock. `openedAt` and `settled` are history: no guard reads them.

One action is one instruction with its account constraints: `InitializeJob`,
`ReleasePayment`, `CancelJob`, `RefundAfterTimeout`. An instruction that fails is
a disabled action, because a failed transaction changes nothing. The three
settling instructions share a tail, `Settle`: pay out the vault's live balance,
write the status, close the record with its rent to the client. The status is
written and the account closed in one transaction, so no state shows it, as on
the chain. Accounts are parameters the caller chooses; `HasOne` and
`AddressesMatch` are the constraints that compare them. `RentOK` is the rule of
the runtime that a touched account ends empty or rent exempt; with it a payout
can fail, which is what `SettlementUnblocked` is about. `TransferToVault` is
anybody sending lamports to a vault address at any time. `JobIds` holds ids over
32 bytes too: `Seed` cuts them as the account constraint does, next to the
length check in the body.

`Custody` knows none of this. `Escrow!Custodian` maps a live record to a deal,
the vault to the pot and the rent to the deposit.

### Sdk

`Sdk` is `MappersClient.initializeJob`, the one call the repository makes: when
it throws before anything is sent, and whether the program that was deployed
(`ProgramArgs`) can decode the arguments it encodes. That the client can be
constructed at all is taken for granted, see "Divergences".

### Listener, Reconnect

Each chain step is conjoined with `Publish`: while the stream is up, the new
contents of the changed record join the queue; while it is down they are lost.
`HandleUpdate` is the data callback with `handleAccountUpdate` and the store call
it makes. A closed account has no contents to decode, so its update changes
nothing: this is what the code does, and why jobs settled by others stay in the
store. `LoseStream`, `Retry` and `Subscribe` are the failure paths of
`startSubscription`; `StopListener` and `Start` are an exit and a restart.
`gen` (how often an address was opened) and `missed` (live jobs whose update was
lost) are history.

`Registry` is the store as its readers may rely on it. An opening is announced
at most once, an announcement is entered at most once, word for word, and never
after a later one of its address; anything else only loses or forgets. `Listener`
maps the records in its queue to the announcements, the store to the entries.

`Reconnect` is the same loop with time: the attempt that is the function's
parameter, the delay computed from it, the timer. The attempt grows with each
failure and only a clean end resets it, a stream that worked for hours does not.

### Oracle

A handler is cut at its awaits: `Submit` is everything before the first one (the
validation in the code's order, the read of the store), `Agree`, `Escalate` and
`ConsensusFails` are what follows `runConsensus`, `Confirm` and `SendFails` what
follows `rpc()`. `req[r].job` is the record the handler holds all the while. A
transaction has a life of its own (`tx[r]`): `Land` is the escrow instruction
with the accounts the handler derived from its record, and may come after
`SendFails` or after `Crash`; `Expire` is a transaction that never lands.

### Verification

`votes[r]` holds the two calls of the verification of `r` and its result, as
`Consensus` has them, and `config` the thresholds all verifications share.
`ModelReplies` is a step of `Consensus` in one of them while its handler awaits;
`Decide` is the branch of the handler that the result selects, with no await in
between; `Finish` and `Around` are the steps of `Oracle` that have nothing to do
with votes. `Oracle` says which step follows which when any verdict may come,
`Consensus` which verdict comes when nothing goes on beside it. The module is put
together from the actions of both, so that it refines them says nothing of the
code and is used in the proofs only; what it is for is `SettledOnVotes`, which
follows a payment back to the votes of one verification.

### Consensus, E2e

`Reply` is the end of one model's call. A reply is one of the kinds the code
tells apart; `ParseModelResponse` yields at most one vote. `Fulfil` and `Reject`
are the two ways a promise settles under `Promise.all`; the other call goes on
after a failure. Confidences and thresholds are integers on a scale whose 1.0 is
`MaxConfidence`; the code only compares them.

`E2e` puts this where the money is: `script` is `main()` of the script cut at
its awaits, `oracle` the process with its store's one entry and its handler,
`feed` the update on its way, `job` the account, `opening` and `tx` the two
transactions. `Decide` hands the result of `Consensus` to the chain. Processes
crash, updates are lost, transactions land late. Both builds of the program
(with and without a duration) and both settings of the API key are initial
states: with the duration the script stops at its simulation, with a key at the
401, since it sends none.

### ApiServer

`rows[j]` is the row of a job id (`by`, who inserted it, is history); `call[c]`
is one HTTP request: where its handler is, what it asked, what it was answered.
`Arrive` is routing and the body's schema, `OracleReplies` and `HealthReplies`
the end of a `fetch` to the oracle, `Execute` a statement with the code up to the
answer, `DbBreaks` a connection that breaks before or after the statement ran,
`ApiCrash` the process. `Insert` has the unique index in it; `Mirror` is the
proxy's update after a verdict, with the signature of the reply or with none.
`ServiceReplies` is what `oracle/src/index.ts` serializes, `SchemaReplies` all
that the response schema admits, a RELEASE without a signature too: the two are
disjoint (see `api_mirror`), and both are given to the server so that the code
behind the schema is exercised. Any call may be malformed. `createdAt` is the
order in which the rows were inserted, which is that of `GET /jobs`.

`JobsTable` promises of an entry that its terms and author stand for good, and
that a proof, which is what a signature is there, is taken away only by what
settles the entry: a `PATCH` never does, a mirrored verdict may
(`jobs.ts:176`, `178`).

### Proxy

`ApiServer` has any peer in the place of the oracle; in `Proxy` it is the
service of `Oracle` itself. `ProxyAsks` is the request of the proxy as
`Oracle!Submit` reads it, with the same name on both sides, `SubmitResponse` the
form in which the handler's answer is serialized, `OracleAnswers` what the proxy
makes of it. Either process may die while the other waits. It is there for
`VerdictMirrored`, which relates a row, a transaction on the chain and an answer.

### CustomFetch, ApiClient

`customFetch` maps a response (status, headers, media type, kind of text) to what
the caller gets or is thrown, `Sent` maps what a caller asks (input, method,
headers, body, base URL, token) to what goes out; `OracleRequest` is the SDK's
own client. `Understood`, `Obeyed` and the last definition are the references
they are compared with, over all inputs. `ApiClient` joins them to the server: a
call is over for a page when it is answered or its connection died, and fails as
`customFetch` says. `OtherTabs` are calls no page here waits for.

### CreateJob

`create` is the state of the page, `signing` the handler that awaits `rpc()` with
the form it closed over, `late` the transactions that may still land although it
threw, `chain` the escrows. `InitOnChain`, `WalletSends`, `TxLands`, `RpcReturns`
or `RpcThrows`, `RegistrationEnds` are the path; around it the form is edited,
the page left (`Leave`: the handler goes on) or reloaded (`Cancel` is a plain
link: the handler is gone), the wallet disconnected, the same job created by
another tab, the server restarted. `tried` is history.

### JobDetail, Pages

React Query is modelled from how the pages and `App.tsx` use it: a query is stale
after 10 s, is tried twice, is fetched when its page is mounted, when the window
gets the focus back or, the oracle's health, every 15 s; it is aborted when its
page is left, and its data is kept for some minutes. `Screen` (JobDetail) and the
operators between `Shown` and `Links` (Pages) are what is rendered. `Invalidated`
compares the key the page invalidates with the key it caches under: they differ,
so it changes nothing. `SettledStaysSettled` is about what is left of the cache
then: a copy that ages, and answers that were read at different times. In
`Pages`, `alive` says whether the oracle answers, and `RecentJobs` shows the
newest jobs only, `Recent` of them, so that a job that is shown gives way to newer
ones and to nothing else.

## The runs

| run | instance | shows |
| --- | --- | --- |
| `escrow` | one client, a freelancer whose account does not exist yet (or the client itself), an oracle, a bystander; one id and its oversized twin; amounts below, at and above the rent minimum; durations below, in and above the window; stray lamports; a clock that ends at 5 | cover, no early refund, conservation, settlement never blocked, that the program implements `Custody`, and that every job settles |
| `listener` | two clients with one job id; queues of two; each address opened twice; breaks and restarts | fresh when drained, every job detected; the store implements `Registry`; of two jobs alive at once neither is paid from the other's vault |
| `reconnect` | an endpoint that comes and goes, streams that break and end at any moment, time | back within the cap once the endpoint accepts, attempts at least the base delay apart |
| `oracle` | two submissions, one address opened twice, two freelancers, breaks, crashes, late transactions | success means settled, settled once, the verified freelancer is paid, only a settled job is forgotten, every submission is answered |
| `verification` | two submissions of one job, four models, thresholds that every valid vote meets or none does; breaks, crashes, late transactions | money moves on the votes of one verification |
| `consensus` | all pairs of replies in both orders under 25 configurations, in and out of range, inside the end-to-end system with its losses and crashes | the result follows the validated votes and the money the result, the script reports what is so and ends |
| `api` | three concurrent calls of every kind, two jobs and an id that is too long, amounts that cast and one that does not | a creation answered 201 is the row, a refusal changed nothing, statistics are true, the rows implement `JobsTable`, every call is answered |
| `create_job` | one page, two calls, one id and one that the program cannot hold, another tab | a half-made job is shown, "initialized" is so, the row is what was signed |
| `job_detail` | one page and other tabs sharing two calls | the terms shown are the row's, a job that was seen settled is not taken for pending again, nothing pends for ever, and `FetchContract` over all responses and requests |
| `pages` | all five routes, two jobs and an overview with room for one, two tabs of the list, an oracle that dies and comes back | a tab shows its jobs, what is shown stays shown until newer jobs push it out, a dead oracle is noticed, loading ends |

Two further runs expect a violation. Each tests one statement of the
documentation that the code does not keep:

| run | statement | what happens |
| --- | --- | --- |
| `oracle_stale_verdict` | `docs/wiki/Architecture.md:204` "`JobNotPending` guard + Solana's atomic transactions eliminate race conditions" | a verdict on one job settles the next at its address (of which `docs/wiki/Architecture.md:175` says "There is no re-open path") |
| `api_mirror` | `docs/wiki/Architecture.md:150` "The API server mirrors on-chain job state in PostgreSQL" | a job has its row, is opened on the chain, detected, verified and settled, and the oracle says so (instance of `Proxy`): its report lacks a field the proxy's schema requires, the caller gets 500, and the row of the settled job stays pending |

### Divergences seen, not run

Where the models follow the code and a document or the surrounding code says
otherwise, without a run of its own:

- *Program.* `docs/wiki/Architecture.md:216` (only oracle or client move funds):
  past the deadline anyone may send the refund, to the client.
- *Listener and store.* `oracle/src/listener.ts:65` ("Job resolved on-chain —
  remove from store", also `mappers_whitepaper.md:153`): settling closes the
  account in the same transaction (`lib.rs:231`, `256`, `284`), so no update
  shows the status the code waits for, and a job settled by others stays in the
  store as pending. `mappers_whitepaper.md:159` ("it reconstructs from chain
  state on restart", a map of all currently pending jobs): only changes are
  subscribed to and no existing account is read, so a job opened before the
  stream is not known however long it stays up; and two clients with one id
  evict each other.
- *Oracle.* A late confirmation removes by id whatever the store holds by then,
  perhaps a newer job (`oracle/src/index.ts:222`). `DEVIN_KNOWLEDGE.md:486`
  (escalated jobs wait for a human): a second submission may settle one.
- *API.* Neither the proxy, the SDK nor the script sends the key the oracle may
  be configured to require. A mirrored verdict without a signature takes away the
  one that a `PATCH` has recorded (`jobs.ts:176`, `178`). `OracleClient` throws a TypeError at an error body
  that is a bare `null`. `setBaseUrl` never applies to URL or Request objects.
- *The IDL.* `DEVIN_KNOWLEDGE.md:426` ("The IDL file must be kept in sync across
  three locations"): the IDL embedded in `lib/sdk/src/idl.ts:16` has no
  `duration_seconds`, so a program built from this repository cannot decode the
  instruction the dashboard sends for a valid form. `E2e` starts with either
  build. Moreover that copy and `oracle/idl.json` have the format of an Anchor
  before 0.30 (`isMut`, `publicKey`, no discriminators), and the locked 0.32.1
  throws when it builds a `Program` of it: in `client.ts:28`,
  `use-mappers-client.ts:26`, `oracle/src/chain.ts:42`, `listener.ts:13` and
  `e2e-devnet.ts:161`. `Listener`, `Oracle`, `CreateJob` and `E2e` model what the
  code does with an IDL of which a `Program` can be built. For the same reason the
  SDK's reads and settling calls, which nothing in the repository makes, are not
  modelled.
- *Creation page.* Between the press and "signing" lies `await import(...)`
  (`create-job.tsx:143`), in which a second press starts a second handler: one
  handler at a time is modelled. "Confirming" (`create-job.tsx:153`) is replaced
  before it can be rendered. `Cancel` (`create-job.tsx:407`) reloads the
  application: pressed while the wallet asks or a transaction confirms, a job
  may be opened on the chain without a row and without a message. The client of
  the form is filled in once: after a change of account the row's client is
  another than the chain's.
- *Job page.* The page caches under one key (`job-detail.tsx:113`) and
  invalidates another (`job-detail.tsx:134`), so after a submission it shows the
  old status until the data ages. A reply without outcome leaves neither form
  nor verdict, and its error is not shown. Recorded criteria are placeholders.
- *Other pages.* A fetch that failed without data shows zeros and "No jobs yet".
  While the oracle is unreachable and an old "ok" is cached, the green line of
  the card stays beside the rose one (`oracle.tsx:125`). A job called `new` is
  shadowed by the route of the creation page, and ids with `/`, `?` or `#` are
  not encoded in links.
- *Script.* Its failure branch after a verdict (`e2e-devnet.ts:258`) would exit 0
  and is not reachable: every other outcome throws first. It passes even if its
  last look at the account fails or still finds it; that the job is settled
  nevertheless is `ReportedTruth`.

### Bounds, and why they are enough

- Balances are small multiples of the rent minimum, so that every comparison
  with it goes both ways; a client can afford one job and, after a release,
  another one at the same address (`InitialBalance` bounds the number of jobs).
- `I64Max` is the largest timestamp and the end of the clock, so that the overflow
  check of `checked_add` is reached in the run; on a real clock, with durations of
  at most 30 days, it never is. `MinDuration` and `MaxDuration` are scaled; the runs
  ask for values on both sides of each.
- `MaxStream` (updates waiting) and `MaxGen` (openings of an address) are bounds
  of the model, in the guard of `Publish`. Two waiting updates are an old and a
  new one; two openings are all that stale data needs.
- Two requests suffice for a race, two freelancers for paying the wrong one.
- `Verification`: 1.0 is 0 and the numbers are 0 and 1, so that a threshold of 0
  is met by every valid vote and a threshold of 1 by none, and 1 is a confidence
  out of range; the finer comparisons are the business of `consensus`. One job
  opened once: what re-opening does is the business of `oracle`. The two
  submissions differ in their names alone and are permuted (`MCSymmetry`), which
  is sound as no liveness is asked; that every submission is answered is checked
  in `oracle`, where the verdict may be any.
- `Reconnect`: the base delay is 2 and the cap 12, so that the delays 2, 4, 8, 12
  are three below the cap and the cap itself, which is no power; beyond
  `MaxAttempt` = 3 the delay does not change any more (assumed of the constants).
- `Consensus`, `E2e`: 1.0 is 2 and numbers run from -1 to 3: every comparison
  with 0, with 1.0 and with a threshold goes both ways. The script polls twice
  instead of ten times (`DetectPolls`): detected at once, at last, never.
- `ApiServer`: two creations race for an id while a third call reads, patches or
  submits; amounts 1 and 2 with the cast ending at 1; an id over the limit stands
  for every way to break a schema.
- `CreateJob`, `JobDetail`: two calls; the page holds one and another tab, or a
  call that the page has left behind, the other. On the job page a query, an
  update and a submission share them, so at most two of the three overlap.
  Nothing on the job page looks at a signature: its instance has none. Its other
  tabs settle the job but do not reopen it (`UpdatesAssumption`): the two buttons
  of the page are the only updates the repository makes, though `PATCH` would
  take any status.
- `Pages`: one call, so the two queries of a page take turns; two tabs and two
  jobs are what a wrong key or a late answer needs. `Recent` is 1 instead of 10: a
  second job pushes the first one out. `MCNext` has the jobs created in one order,
  which is enough as nothing else tells them apart.
- `Proxy`: two calls, the creation of the row and a submission; one job, opened
  once.
- `CHECK_DEADLOCK FALSE`: the clock, the openings, the requests and the calls are
  bounded, so these instances stop where the system would not. `reconnect` and
  `pages` never stop and are checked for deadlock.

### Fairness

- `FairSpec` (Escrow): time passes, and a refund that stays possible is sent.
  The instruction is permissionless for that purpose (lib.rs:137-143): the
  assumption is that one keeper exists, and nothing about oracle or client.
- `FairListenerSpec`: `HandleUpdate` only. Node's event loop delivers a received
  message. Nothing is assumed about the stream staying up.
- `FairOracleSpec`: a handler that awaits goes on. The model libraries and
  `rpc()` answer or time out. A transaction need not land.
- `FairE2eSpec`: the script and the handler go on (polls have a limit, awaits
  end), each model call ends, by an answer or an error. Nothing is assumed about
  transactions, updates, or the process being there.
- `FairApiSpec`: `fetch` gives up in the end, and a statement ends or its
  connection does.
- `FairDetailSpec`: the server's steps as above, and the browser runs the
  continuation of a promise that is settled and a timer that fired. Nothing is
  assumed about the user. (`create_job` checks safety alone, without fairness.)
- `FairPagesSpec`: the same; and a query without data is fetched while its page
  is shown, the oracle's health by a timer. This is strong fairness because the
  two queries of a page, which are independent in the browser, share one call in
  the model: each is disabled while the other is under way.

## What is proved

All with TLAPS, for every value of the constants that satisfies the named
assumptions of the modules, and for any number of wallets, jobs, requests, calls
and amounts.

- `EscrowProofs`: `Invariance`, `TypeCorrect`, `VaultAlwaysCovers`,
  `DeadlineBounded`, `FreelancerHasMinDuration`, `NeverBlocked`,
  `Implementation` (the program implements `Custody`), `NobodyElseIsPaid`,
  `MoneyIsConserved`.
- `OracleProofs`: of the listener `ListenerInvariance`, `ListenerTypes`,
  `StoreNeverAhead`, `StoreFresh`; of its reconnect loop `ReconnectInvariance`,
  `GapIsCapped`, `EndpointIsSpared`; of the handlers `OracleInvariance`,
  `OracleTypes`, `AnswersAreTrue`, `OneSettlementPerJob`, `KeyNeedsConsensus`,
  `VerifiedFreelancerPaid`, `ForgottenWereSettled`, `ChainUnderOracle`,
  `MoneyUnderOracle`; of the store as a registry `ListenerImplementsRegistry`,
  `RegistryUnderOracle`; of the models beside the handlers
  `VerificationInvariance`, `VerificationTypes`, `KeyNeedsVotes`.
- `E2eProofs`: of the consensus `VerdictsValidated`, `VotesDecide`,
  `ResultStays`; of the whole `E2eTypes`, `MoneyFollowsVotes`, `ReportIsTrue`.
- `ApiServerProofs`: `ApiInvariance`, `ApiTypes`, `CreationStands`,
  `RefusalIsHarmless`, `RowsAreJobsTable` (the handlers implement `JobsTable`),
  `StatisticsAreTrue`; of the clients `ClientsKeepContract`.
- `CreateJobProofs`: `SigningInvariance`, `CreateTypes`, `BannerIsTrue`,
  `HalfMadeIsShown`, `SignatureIsRegistered`.
- `JobDetailProofs`: `DetailInvariance`, `ShownTermsAreTheRows`,
  `SettledIsNotForgotten`.
- `PagesProofs`: `PagesInvariance`, `TabsShowTheirJobs`, `ShownStays`.

`SumTheorems` holds lemmas about sums that these rest on. Three of the theorems
state something that no run checks by itself; they rest on the proof:
`DeadlineBounded` (`DeadlineInWindow`), of which the runs check the consequences
`NoEarlyRefund` and `EveryJobSettles`; `StoreNeverAhead` (`NeverAhead`), beside
`ImplementsRegistry`; and `KeyNeedsConsensus` (`NoSettlementWithoutConsensus`),
beside `SettledOnVotes`, which asks for the votes themselves.

**Escrow.** The inductive invariant of the program is

    IInv == TypeOK /\ WellPlaced /\ DeadlineInWindow /\ VaultCoversAmount /\ NoEarlyRefund

`NoEarlyRefund` is not inductive: that a refund was not early follows, at the
step that makes it, from the deadline of the record that closes, so it needs
`DeadlineInWindow`. `WellPlaced` is there for `NeverBlocked`, which is not part
of the invariant but follows from it: a live record sits at the addresses
derived from its own fields, and its amount is at least the rent minimum, so the
vault, which covers the amount, leaves whoever it pays rent exempt. All of them
need the types. The proof has one lemma per instruction; the refinement maps
each of them to `Open`, `Close` or `Give`.

`MoneyIsConserved` adds three sums over all wallets and all addresses, which are
assumed finite as accounts are. The library's fold over a set is defined by a
recursive choice that the provers cannot unfold, and induction over sets takes an
operator as a parameter. `SumTheorems` goes round both: were two sums not to
agree, there would be a smallest set on which they do not (the strict subsets of
a finite set are well founded, which is a fact about a relation and takes no
operator), and taking one member out of it gives a contradiction. What follows
is that a sum changes by as much as the one summand that changed; a transaction
changes one vault and one record, and one wallet after the other. That accounts
may coincide, a client being its own freelancer, is why they are taken one after
the other.

**Listener.** `LInv == IInv /\ ListenerTypeOK /\ SentSound /\ NeverAhead /\ Arrives`.
`NeverAhead` speaks of the store, which is filled from the queue: `SentSound`
says the same of every update in it. `FreshWhenDrained` follows from `Arrives`:
the update that makes a live job current is in the queue with nothing older of
that address behind it, or has been handled.

**Reconnect.** In `ReconnectInv` the time left on the timer ties the two
properties together: gap and timer together stay within the cap, and the time
since the last attempt and the timer together reach the base delay. The delay is
never below the base because a power of two is at least one, which the provers
do not know; it is proved by counting the subsets of a set.

**Oracle.** `OInv == IInv /\ ListenerTypeOK /\ ServiceInv /\ ChainInv`: a handler
holds what its place needs, an answered verdict has a landed transaction, and
the job a landed transaction settled is behind the chain: either its address was
opened again since, or no record is there. The last part is what makes two
landed transactions of one address settle different jobs. `ForgottenWereSettled`
needs beside it that no update in the queue shows a settled status
(`SentPending`), since the listener has a branch that would remove such a job.
`ChainUnderOracle` shows that each step of the whole is a step of the program or
leaves the chain alone, `OracleSpec => Spec`, so that what is proved of the
program holds under the service too: `MoneyUnderOracle` says so of the money.

**Registry.** `QueueInv == IInv /\ ListenerTypeOK /\ SentSound /\ Ordered`. A
step of the chain opens one address or is not seen; handling an update enters
the announcement it carries. That nothing older of its address is left to be
entered afterwards is `Ordered`: along the queue the openings of one address
increase, because what is appended is newer than what the chain has opened so
far (`SentSound`). Beside the handlers of `Oracle` the same invariant holds, and
a confirmation is a `Forget`.

**Verification.** A step of the service with its models is a step of `Oracle` or
none, by construction, so all of the above holds of it. `VInv` says in
three parts where a verdict comes from: the votes of each request are a record
of their own, so that a reply in one verification is a stutter in the others
(`VotesAreRecords`); a result is what its votes say (`VoteInv(r)`); and the verdict
of a handler that sent a transaction is the result of its verification
(`VerdictsAreVoted`). The last part needs that a decided result is never changed,
which follows from the second: both calls are over. `KeyNeedsVotes` combines it
with `KeyNeedsConsensus`.

**Consensus, E2e.** In `Consensus` the invariant is `ConsensusTypeOK /\
ResultFollowsVotes`: that a decided result means that no call it depends on is
pending is what keeps the next step from changing it. `E2eProofs` shows that
every step of the whole is a step of `Consensus` or a stutter, takes its
invariant along, and adds that a transaction of the oracle was sent for the
result, that the job follows the two transactions, and that script and handler
are as far as each other's last message says.

**API server, creation page.** `ApiInv` says of every call that it holds a
request its statement can be made of, and of every answer 201 that the row
stands; it stands because no statement ever replaces terms or author of a row.
`SigningInv` says that a transaction that landed has opened its job with the
terms of the form that was signed, and that nothing replaces an escrow; `Told`
adds, for `BannerIsTrue`, that the page names no job as initialized but one it
tried and that is open; for `HalfMadeIsShown`, `NotSilent` says that a page that
asked a wallet for anything is at work or shows an error until it is left.

`RowsAreJobsTable` maps a row to an entry whose proof is its signature; a
statement enters an id, amends or settles an entry or is not seen, and no other
step of any handler touches the rows. `StatisticsAreTrue` is about the moment of the
statement: the three counts add up because the statuses part the rows, and the
sum is over the pending ones by `SumOfThose`. `ClientsKeepContract` needs no
invariant: it compares functions, case by case, over all responses and requests.

**Pages.** A page holds an old copy and its calls are under way while rows change.
`DetailInv` follows each call of the job page from its request to its answer: what
an answer says of terms and author is of what no statement changes, so it holds
still when the page reads it (`ShownTermsAreTheRows`). For `SettledIsNotForgotten`
it says that no request under way reopens a job (`NoneReopens`), so that a settled
copy is of a row that is settled still, and that while the copy is settled the
answer under way is of a row that was settled when it was read (`FetchFollowed`):
it was asked for before the copy, by a query that is under way once at a time.
`PagesInv` says the same of lists and counts, and, for `ShownStays`, that what
answers a query is no older than what is cached for it. This one is not about rows
alone: it needs that a query is under way once at a time, and that no two queries
share a key (`KeysDiffer`). That a job leaves the overview only for newer ones
(`PushedOutByNewer`) needs that the place of a row in the order never changes.

**Types.** The type invariants `TypeOK`, `ListenerTypeOK`, `OracleTypeOK`,
`VerificationTypeOK`, `ConsensusTypeOK`, `E2eTypeOK`, `ApiTypeOK` and
`CreateTypeOK` are theorems, and no run spends itself on them. `ConsensusTypeOK`
is more than a type: nothing a model replies is used unvalidated.

**Assumptions.** Wallets and job ids are finite sets; amounts are natural numbers,
durations integers; the record's deposit is not below the rent minimum; values
that stand for nothing (`NoEscrow`, `Absent`, `NoRow`, `Unset`, `NoCall`...) are no
members of what they stand beside; other tabs do not reopen a job (for the job
page, see the bounds); the overview has room for a job; the base delay is positive and not above the
cap, which the delays reach. TLC evaluates all of them in the runs. Nothing is
assumed of the order of steps, and no fairness.

Every safety property of a passing run is a theorem. Only model-checked is
liveness, all of it (`EveryJobSettles`, `EveryJobDetected`,
`EverySubmissionAnswered`, `ScriptEnds`, `EveryCallAnswered`,
`NothingPendsForever`, `DeadOracleNoticed`, `LoadingEnds`): it is out of the
prover's reach.

## What is not modelled

- Transaction fees, account bumps, lamports sent straight to a record.
- `detectedAt`; logging and Sentry; CORS and the rate limits; API keys, apart
  from the one the script does not send; the oracle's two read-only routes
  beyond what the script and the health page make of them.
- What the prompt says, reasoning, criteria lists; the time of a row's last
  update (of its creation the order is modelled, the layout of lists is not);
  descriptions, and what else is stored and returned as it is.
- The IDL files. They are a build output (`docs/wiki/Development-Guide.md:203`),
  and `Listener` and `Oracle` take the one a build of this program gives. The
  copies in the repository are of an earlier program, without `deadline` and
  `duration_seconds`, in a format of their own (above): `E2e` shows what follows
  from the arguments.
- The SDK's reads (`fetchEscrow`...) and settling calls, for the same reason.
- On the job page: a navigation from one job's page straight to another's, which
  keeps the page's state, and the cache being dropped minutes after it was left.
- Response schemas of the API that no code consults, and the schemas' text rules
  one by one.
- Replies of a model that come after its handler has answered, which nobody
  awaits, and thresholds that change with a restart (`Verification`).
- In the dashboard: the search field, the inputs of the submission form, whether
  the drawer is open, layout, and the wallet adapter beyond connecting, signing
  and refusing. A second handler of the creation page (above).
- Vendored UI components (`components/ui`), the toast hook, which nothing calls,
  and presentational components: almost half of the repository's lines, without
  a protocol of their own. Tests, documents and workflows have no behaviour.
- Loading the key pairs of the script, which ends it before anything happened.

## Plan

Done: every component of the table that has behaviour of its own, with the
compositions (`Verification`, `E2e`) and the abstract specifications (`Custody`,
`Registry`, `JobsTable`) its parts are held against. A change to the code starts
at the definition `PROJECT.json` maps it to: the run of its module first, then
the proofs. What could be added:

1. Two handlers of the creation page at once, which `create-job.tsx:143` leaves
   room for.
2. A `JobsTable` for the pages: what the cache of React Query promises, which
   `JobDetail` and `Pages` would both implement.
