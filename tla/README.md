# AegisPanel: a TLA+ model of the panel backend

AegisPanel is a control panel for fleets of VPN/proxy nodes (`src/backend`, Go).
An operator edits users, plans, hosts, inbounds and nodes through an HTTP API;
the panel keeps them in PostgreSQL (or, for development, in memory), renders a
sing-box configuration for each node and sends it to the agent that runs there.
It installs nodes over SSH, is the certificate authority of their agents, serves
subscriptions to end users, tells other systems about changes through webhooks,
backs its database up and migrates it. This directory holds TLA+ models of these
parts, the TLC runs that check them, and proofs about all of them.

Contents: [inventory](#inventory) · [modules](#modules) · [runs](#runs) ·
[refinements](#refinements) · [fairness](#fairness) · [proofs](#proofs) ·
[what the models show of the code](#what-the-models-show-of-the-code) ·
[not modelled](#not-modelled) · [plan](#plan)

## Inventory

Packages are under `src/backend/internal` unless a path says otherwise.

| Component | State | Operations | Talks to | What is hard | What makes it correct |
|---|---|---|---|---|---|
| `cores` (BatchedApplier) | per node: a channel of deltas, a map of pending ones, a loop | Enqueue, Run (absorb, threshold and ticker flush), drain, stop | called by users and inbounds; calls the FlushFn | blocking sends, coalescing, stop while a flush runs | nothing is dropped or held for ever; buffers stay bounded |
| `cores/builder`, `cores/singbox` | none of its own | build from several queries, render, apply | nodes, inbounds, users, credentials, hosts; `agentgrpc` | reads interleaved with writes; partial failures, some fail-open | a node ends with what the database says |
| `users`, `inbounds`, `hosts`, `credentials`, `nodes`, `plans`, `inboundtemplates` | a table each and, on the memory store, its indexes | create, update, delete; users: token rotation | enqueue deltas, dispatch webhooks, write audits | check, write and read-back are separate calls; two kinds of store | unique keys, references that resolve, answers that are true, edits announced to every node concerned |
| `audits` | an append-only table | Record, List | called after every change | best effort, after the change | a deletion made is a deletion found |
| `bootstrap` | node row (state, bearer, sealed key), files on the node, `known_hosts` | Provision, RotatePanelKey, RefreshAgentBearer | SSH, `nodes`, `agentca` | a dozen remote steps without rollback or lock | an online node answers the bearer of its row; the stored key opens it |
| `agentca`, `agentgrpc` | root (cached per process), node certificates | EnsureRoot, EnsureNodeCerts; Apply with one retry after a 401 | agent; `nodes` for a bearer refresh | check-then-save by two processes; a lost answer | one root; what the agent presents is trusted |
| `cmd/aegis-agent` | certificate files, bearer, current configuration | start, Apply (HTTP and gRPC) | sing-box, systemd | crossing and abandoned requests | an acknowledged configuration stays |
| `webhooks` | endpoints, deliveries, pending retries, DLQ | CRUD, Dispatch, test, replay, retry worker | receivers over HTTP; called by nearly all services | no transaction around a delivery, shared deadlines, crashes | at least once, bounded attempts, no operator edit undone |
| `auth`, `frontend/src/api/client.ts` | refresh tokens, cookie, access token, a queue of calls | login, refresh with reuse detection, revoke, logout | all handlers | races of two refreshes, a token consumed before its successor is saved | a token has one successor, a revoked session stays revoked |
| `subscription` | none of its own | lookup by current or previous token, resolution of pools and hosts | users, plans, hosts | read piece by piece while operators write | what is delivered was due |
| `panelcfg`, `router` | path rows, the mounted path | Rotate, RotateTo, Reset; mount | subscription | concurrent rotations under READ COMMITTED | the newest path is served |
| `ratelimit` | a bucket per key | Allow | router | filled on read, idle reset, eviction at the limit | no key gets more than its burst and rate |
| `backups`, `cmd/aegis-pg-backup`, `-restore` | `_index.json`, dump files, in-flight lock | create, schedule, prune, delete, restore | `pg_dump` | crash in a dump, two processes on one index | an ok row has its file; retention keeps the good ones |
| `migrations` | `schema_migrations` | Up, Down | database | failure between files, no lock | journal and schema agree |
| `app`, `cmd/aegis` | appliers, workers | boot, shutdown, admin commands | everything | order of shutdown, what a restart rebuilds | nothing is lost by a restart |
| `crypto/envelope`, `config`, `httpjson`, `obs`, `db`, `cores/noop`, `agentv1pb` | none | | | | |

How they interact: services share nothing but the database and the map of
appliers. A mutating request (1) reads and checks, (2) writes its table,
(3) rereads the row, (4) dispatches webhooks synchronously for up to 5 s and
writes an audit entry, (5) enqueues deltas, blocking if a queue is full, and
returns. Each applier is one goroutine; the webhook worker and the backup
scheduler are one each. Nothing is locked across two database calls.

The hazards that follow from this are listed at their lines in `PROJECT.json`,
each with the properties that would catch it going wrong.

## Modules

| Module | Models |
|---|---|
| `BatchedApplier` | `cores/batched.go`, one applier per node |
| `AccessSync` (EXTENDS it) | services, appliers, builder, renderer, apply, shutdown and restart |
| `KnownHosts` | the panel's `known_hosts` file and trust on first use |
| `NodeProvisioning` (EXTENDS it) | the jobs on one node: `bootstrap`, `nodes`, the CLI |
| `AgentCA`, `AgentApply` | `agentca`; `cmd/aegis-agent` |
| `AgentLink` (EXTENDS both) | `agentgrpc`, the bearer refresh and the provisioning of certificates |
| `WebhookDelivery` | `webhooks` |
| `SessionFamily` | abstract: sessions that open and end once |
| `AuthSessions` | `auth` and the browser client; implements `SessionFamily` |
| `TokenBucket` | abstract: a bucket per key that fills with the clock |
| `RateLimiter` | `ratelimit`; implements `TokenBucket` |
| `PanelPath` | `panelcfg` and the path the router mounted |
| `SubscriptionGate` (EXTENDS the last two) | the way of a subscription request to its handler |
| `SubscriptionAccess` | `subscription` against `users`, `plans`, `hosts` |
| `Backups`, `Migrator` | `backups` and its tools; `migrations` |
| `CatalogStore`, `CatalogNodes`, `CatalogTemplates`, `CatalogInbounds`, `CatalogHosts`, `CatalogPlans`, `CatalogUsers`, `CatalogCredentials` | the tables, indexes and statements of the seven kinds of row, on both stores |
| `AuditLog` | `audits` |
| `Catalog` | the requests of the admin API over all of these |
| `*Proofs` | theorems (eight modules) |
| `MC*` | instances for TLC |

Operators named "Bug variant of X" are not used by any specification; they say
what a plausible mistake in X would be, and are what each property was tried on.
Variables called history never influence a step: they record what the properties
talk about, in particular the *named reasons* for which a promise may be broken
because the code permits it. What a run then shows is that there are no others.

### BatchedApplier and AccessSync

`queue[n]` is the Go channel, `pending[n]` the coalescing map (one kind per key),
`loop[n]` where the goroutine stands. `Enqueue` is a blocking send (a guard on
the length), `Absorb` one receive with absorb and the threshold flush, `Tick` the
window's ticker, `FlushReturn` the end of a flush, `StartDrain` to `DrainReturn`
the reaction to a cancelled context. The number of deltas in the channel is
bounded by its real capacity, `MaxQueue` (`batched.go:123`), as is the threshold.

`AccessSync` adds the tables as far as they decide what a node serves, the
requests (`req[p]`: write, reread, announce, fan out node by node), the flush
(`build[n]`: inbounds read, users read, the credentials of one inbound after the
other, rendered, the agent called, its answer) and `running[n]`, what sing-box on
the node was last given. Each query, the call and its return is a step of its own,
between which edits fall. The content of a delta does not matter
to the code: the FlushFn ignores it and rebuilds from the database. What matters
is that a flush *begins* after every edit, so `lost[n]` collects the reasons why
none may come: `cancelled`, `failed`, `unannounced` (credentials and hosts),
`skipped` (the lists passed the node over), `aborted` (a reread failed),
`degraded` (a lookup failed and was taken as empty or fail-open), `restart`. It
is emptied when a flush begins to read. An inbound is on, off or deleted and
belongs to a fixed node; a credential is one of a few values; a host is its set
of endpoints; a user is a status and two lists.

### KnownHosts and NodeProvisioning

One node and its jobs (others append to `known_hosts`). `row` is the `nodes` row,
`env` and `agent` the bearer in `/etc/aegis/agent.env` and the one loaded from
it, `authorised` and `openLine` the node's `authorized_keys`: the keys on a line
of their own, and what its last line holds if it lacks a newline. `job[p]` is one
operation at its next remote command or database call: Provision, RotatePanelKey
by HTTP or by the command line with or without a secret, RefreshAgentBearer,
RotateTransport, Update. Each step may fail, before or after its effect; a crash
ends all jobs. `Provision` goes on after a failure to write the state `offline`,
as the code does, and writes its whole row back through the read-modify-write of
`nodes.Update`. `races`, `keyTrouble` and `forced` are history.

### AgentCA, AgentApply, AgentLink

Roots, certificates and configurations are numbers in the order they were made.
`AgentCA` has the store (per backend, with what each persists) and each panel
process's cached root; `AgentApply` the files of the node, what the agent loaded,
and the handlers of its calls at their steps (write, reload, verdict), which
cross freely and go on after the caller has left. Over gRPC no request arrives
(`Reached`): the panel dials `"passthrough://"` with the address
(`agentgrpc/grpc_transport.go:127-131`), a target without an endpoint, which the
resolver refuses (`agentgrpc/mtls_smoke_test.go:302-309`). `AgentLink` composes them with
the calls of the node's applier (send, 401, refresh over SSH, one retry) and with
a provision that pushes the files. `mintRace` and its like are history.

### WebhookDelivery

`endpoint`, `rows`, `pending` with `due`, and `dlq` are the four tables; a
delivery's id is its place in `rows`, a row past its `ON DELETE CASCADE` counts
as absent. `task[t]` is an HTTP request or the worker inside `deliverSync`:
`post`, `record` (CreateDelivery), `snapshot` (UpdateEndpoint with the copy read
before the POST), `arm` (EnqueueRetry or the DLQ), and for the worker `dequeue`.
Time is replaced by `Elapse`, which makes a pending retry due at any moment, and
`Expire`, which ends the 5 s of a dispatch or a tick; after it every store call
of that task fails, as pgx's do. A receiver in `Slow` answers later than that.
`DispatchUnlisted` is the Dispatch whose list of endpoints fails and which reaches
none of them. `enabled` stands for every field the operator sets.

### SessionFamily and AuthSessions

`row[k]` is the row of refresh token `k`, `cookie[b]` what browser `b` holds,
`req[t]` the request of tab `t` at its next store call, `waiting[t]` the calls
behind one refresh. The claim of a token, the reuse check, the revocation of the
chain, the save of the successor and the arrival of the answer are separate
steps. `born[k]` (history) remembers who got the token, from which one, and how
many revocations there had been. One administrator is modelled, on either store;
on pg somebody may disable or delete its row at any time (`SetEnabled`; no code of
the panel does, but login, refresh and Me look at it), and then a refresh is refused
after its token was claimed.

### TokenBucket, RateLimiter, PanelPath, SubscriptionGate

Time is counted in the unit in which `Rate` tokens arrive. `RateLimiter` keeps
the struct's fields; a call of `Allow` is atomic, as its mutex makes it.
`PanelPath` has the rows with the rows each transaction has seen and locked
(`tx[o].held`), since READ COMMITTED is what makes two rotations leave two active
rows. The router reads the path once, at start.

### SubscriptionAccess

Users with current and previous token, plans, hosts; operators whose Update and
RotateSubToken read a row, change columns and write the whole row back; clients
whose fetch reads the user by its current token, then by its previous one, then
pools and hosts one by one. `facts[c]` (history) is what has been true at some
moment since fetch `c` began, which is what a delivery is measured by.

### Backups

The index is a file that is read, changed and rewritten whole under a mutex of
its process, so the panel and the command-line tool can overwrite each other's
change. A Create (insert the row, dump, mark ok or failed, prune), a Delete and a
restore request are taken step by step; a process may be killed anywhere. A write of
the index truncates it first (`backups/store.go:182`): a kill or a failed encoding
there is `Torn`, after which there are no rows and none can be read. A file that
pg_dump wrote may be `short` in a success, since an error in closing it is passed
over. `clash`, `unsure`, `cut` and `dropped` are history.

### Migrator

A file stands for what its Up section creates; its traits are constants: files
whose Up drops its tables first, ones that say IF NOT EXISTS throughout, ones
whose Down ends with its own COMMIT, ones without a Down. The effect of an open
transaction is private until its commit. Several runs of Up and Down share the
database; the set of files in the mounted directory may grow meanwhile.
`halved`, `crossed` and `lost` are history. The specification is `MigrateSpec`, so that
one module can reason about it and about `Backups`.

### Catalog

One record `db` holds the rows of all kinds and, for the memory store, its
indexes as the code maintains them, stale entries included. Each `Catalog*`
module gives the statement of its kind in both stores (`Mem...`, `Pg...`), the
cascades and the validations; `Catalog` drives a request through them: read,
checks of what it refers to, one at a time, write, read-back, audit entry,
answer. On pg each of these queries may fail or be cut short by the end of the
request's context (`QueryFails`), and a write may be done and its answer lost, or,
for hosts, its read-back inside the store fail (`WriteUnheard`): there the answer is
a 500 for a change that was made, without event or audit entry. Numbers, tags and
display fields, which decide nothing, are left out; a plan's duration is kept, because
the pg store writes it as an INTERVAL.

## Runs

A run is a module `MC<M>`, a `.cfg`, and the properties it names; all of them are
expected to pass. Where the code differs from what its comments say, the properties
name the difference as an exception, and "What the models show" lists it. Type
invariants are stated in every module and not listed, being proved where there are
proofs.

| Run | Instance | Distinct states | What it asks |
|---|---|---|---|
| `AccessSync_safety` | two nodes and hosts, three inbounds, a user, two requests with two edits, one failure, one restart | 2 004 134 | is there always a delta on its way to a node that serves something stale, or a named loss (`StaleNodeExplained`); does what a flush has read still hold, or a further flush follow (`FlushReadsHold`); are the buffers bounded (`BuffersBounded`) |
| `AccessSync_liveness` | one node, host and inbound, two users, a channel of two, three requests with four edits, one failed query or call, a shutdown and a restart | 292 176 | is a stale node refreshed, also after a flush that failed (`StaleNodeRefreshed`); does every request return, though its send waits for a full channel behind a flush, or its loop is stopped under it (`RequestsReturn`) |
| `NodeProvisioning_safety` | two jobs at a time, three in all, one failure, one job on another node | 1 745 401 | does an online node answer the bearer of its row (`OnlinePaired`), does the stored key open it (`StoredKeyUsable`), does a rotated transport stay (`TransportKept`) |
| `WebhookDelivery_safety` | one endpoint, two requests and the worker, three attempts, two failures | 2 481 431 | is an event delivered, pending, dead or lost for a named reason (`NoEventLost`), has a delivery one chain of retries (`SingleChain`), does an operator's edit survive (`EditsKept`), is an acknowledged delivery not sent again (`AckedOnce`) |
| `WebhookDelivery_liveness` | two endpoints, one of them slow, two events of three attempts, a batch and a list limit of two, one failure | 785 020 | does a pending retry fire unless it is buried, behind a batch of buried ones, or behind a slow receiver (`RetryFires`) |
| `AuthSessions` | two tabs, two browsers, four requests, one mishap | 301 890 | one successor, complete revocation, explained sign-outs, an ended session after a logout, the refinement of `SessionFamily`, and queued calls that settle |
| `SubscriptionGate` | two keys, rate 1, burst 2, idle 2, two operators, three rotations | 630 456 | is the newest path served (`NewestRotationWins`), is the limiter a bucket (`FillsLikeABucket`) |
| `SubscriptionAccess` | one user, plan and host, two operators, a client, four tokens, three edits | 1 442 170 | was what is delivered, or refused, due at a moment of the fetch (`DeliveryWasDue`, `MissWasDue`), are edits kept (`EditsStay`), does a revoked token stay so (`RevokedForGood`) |
| `Backups` | panel and tool, retention of one, two backups, one deletion, one kill | 1 493 183 | is an ok row restorable (`OkIsRestorable`), is every file in the index as long as it is whole (`FilesAreListed`), is a good backup kept (`GoodIsKept`) |
| `AgentLink` | panel and another process, four things minted, three boots, two calls, two provisions, one fault | 4 561 771 | does an acknowledged configuration stay (`AckedStays`), is it out of date only if something moved (`StaleOnlyIfMoved`), do the files match (`FilesMatch`), is what is served trusted (`ServesTrusted`), do the processes agree on the root (`RootsAgree`) |
| `Migrator` | files 1 to 4 of every trait, 1 to 3 embedded, two processes, four runs | 342 499 | do journal and schema agree (`JournalMatches`), are rows kept (`NoRowsLost`), is an Up that reports success complete (`UpIsComplete`) |
| `Catalog` | each kind of row on each store, three requests, two at once | 2 928 011 | does a key name one row (`KeysNameOneRow`), do references resolve (`ReferencesResolve`), are answers true but for the 500 of a query that failed (`AnswersAreTrue`), are deletions found in the log (`DeletionsAreLogged`) |

Why the bounds are enough:

- *AccessSync.* A loss needs an edit, a second edit of the same key, a flush under
  way, and one failure or restart; the threshold flush needs two keys; two requests
  interleave an edit with another's fan-out. A send that blocks needs a full channel
  and a loop that flushes: with a channel of two, one edit is being flushed, two fill
  the channel and the fourth waits; of three requests under way at a shutdown, the
  third finds the channel full and its loop gone.
- *NodeProvisioning.* Two jobs at once make every overlap, a third uses what they
  left; one failure gives "failed after its effect" as well as "failed before it".
  A key glued to another needs two pushes, hence four bearers and keys.
- *WebhookDelivery.* A doubled retry needs one failure or crash at the dequeue; with
  three attempts the first, a middle and the last one differ. The list limit and the
  batch of 100 in the code become 1 or 2: with three rows due the batch is short, with
  three rows of an endpoint the oldest is buried, and a slow and a fast receiver's rows
  come in either order.
- *AuthSessions.* A race needs two refreshes of one token, which two tabs of one
  browser make; the second browser is the session that must not be touched or must be
  revoked along with the rest; four requests are a login, two refreshes and a logout.
  The mishap is a failure, a lost answer, an expiry, a restart or a disabled account.
- *SubscriptionGate.* Two rotations conflict, a third follows; a second key evicts the
  first. Two units of idle time refill a burst of two, as `LimiterAssumption` demands.
- *SubscriptionAccess.* An edit that gets lost takes two operators; one fetch reads
  three things between which three edits fit.
- *Backups.* Retention of one makes a second backup prune; panel and tool are the two
  writers of the index; a deletion meets a backup, a prune or both; a kill leaves the
  partial row or file, or the torn index, once.
- *AgentLink.* Two calls cross; a second provision replaces files under a running
  agent; three boots are one before, one between and one after.
- *Migrator.* One file has each trait and one is beyond the embedded set; two runs
  overlap and two follow.
- *Catalog.* A check by one request, a conflicting write by another, and a third that
  reads the result. Each behaviour starts from an empty store or a filled one; one of
  the balancers asked for has two endpoints of one id, which pg refuses.

Deadlock is not checked (`CHECK_DEADLOCK FALSE`) where the system may come to rest,
which here means every instance: their bounds run out. That nothing waits for ever is
what the liveness runs ask. Symmetry is used in safety runs only: `AccessSync_safety`,
`NodeProvisioning_safety`, `WebhookDelivery_safety` and `Catalog`, over requests or jobs,
`SubscriptionGate`, over callers and rotators, and `SubscriptionAccess`, over operators.
In `AuthSessions` the first tab is in the first browser, the browsers being
interchangeable.

Each property has a mutant in `PROJECT.json`: a definition replaced by one of the bug
variants in its module, under which the same run finds the property violated.

## Refinements

| Property | Detailed | Abstract | Mapping |
|---|---|---|---|
| `ApplierRefinement` (theorem) | `AccessSync` | `BatchedApplier` | the buffers of each node; everything else stutters |
| `SessionsEndForGood` (run and theorem) | `AuthSessions` | `SessionFamily` | a session is open while its chain has a valid token, or a request is about to save one |
| `FillsLikeABucket` (run and theorem) | `SubscriptionGate` with `RateLimiter` | `TokenBucket` | `level` is what a key could take now, whatever the entry in the map says or whether it exists; `granted` what it has taken since its bucket was new |

The second says that logout, reuse detection, lost answers and a failing store can end
a session but never bring one back. The third says that filling on read, the reset
after idle time, eviction at the limit and a restart can only be told from a bucket
that fills with the clock by eviction and restart, which `Forget` allows.

## Fairness

Only what the runtime guarantees: a goroutine that can run eventually does.

- *AccessSync*: weak fairness of each request's next step and of each node loop's
  (receive, tick, flush). The ticker of the code makes the tick of a loop with
  pending keys happen again and again; a flush ends, by its timeouts. Nothing receives
  from a channel whose loop has returned, so that a request may wait there until the
  process ends (`Stranded`).
- *WebhookDelivery*: weak fairness of the worker's next step, of each request's, and
  of `Elapse`, the passing of a retry's delay. A slow receiver is a constant; the
  context of a task that posts to it expires before the answer. `RetryFires` excepts
  by name the rows for which this holds for ever: those behind such a receiver's row
  (`Choked`), buried ones (`Buried`) and those behind a whole batch of them
  (`Starved`).
- *AuthSessions*: weak fairness, per tab, of the server's next step and of the arrival
  or the loss of its answer: `fetch` settles either way.

Edits, failures, crashes, restarts, lost answers as such, and calls of operators have
no fairness: the properties hold whether they happen or not. The other modules have
safety properties only.

## Proofs

Eight modules hold the theorems; each EXTENDS the modules it is about. They hold for all
values of the constants that satisfy the named assumptions, which say no more than
that bounds are natural numbers, sets of things to choose from are of the right type
(and finite where they are counted), and, for the limiter, that an idle bucket is full before it is forgotten
(`Idle > 0 => Idle * Rate >= Burst`, which the caller's settings satisfy). Those of the
catalog say besides that `None` is no row and no id (`NoneIsNothing`), that units of time
and list limits are positive (`PlanUnits`, `AuditLimits`), and that a run starts from a
catalog whose keys and references are in order (`SeedsAreCatalogs`): on pg its constraints
see to that, a memory store starts empty, and the empty catalog is one (`EmptyCatalog`).

| Module | Theorems | Argument |
|---|---|---|
| `AccessSyncProofs` | `ApplierTypeCorrect`, `ApplierBounded` (of `BatchedApplier`); `TypeCorrect`, `ApplierRefinement`, `SystemBuffersBounded`, `FlushReadsCorrect`, `StaleExplained` | the applier's bounds are inductive as they stand, with the kinds of the pending map, and come to the system by refinement. That a node's staleness is explained is not inductive: a flush that has read half its data may still go wrong. `FlushReadsHold`, about what each flush has read so far, is, together with types and `BuildOnlyInFlush`; the claim is its instance for a flush that has ended. |
| `SubscriptionProofs` | of `SubscriptionGate`: `NewestPathServed`, `LimiterIsABucket`, `NoKeyIsOverserved`; of `SubscriptionAccess`: `TypeCorrect`, `EditsAreKept`, `RevokedTokensStayRevoked`, `DeliveriesWereDue`, `MissesWereDue` | paths: `NewestActive` needs that locks are disjoint (`HeldDisjoint`), that a transaction locks only rows older than its own (`HeldOlder`) and that row stamps cover the rows made (`StampsCover`). Limiter: an entry is filled as of when it was last seen, which gives both the mapping and its steps. Edits: outside the named races each row is as it was last wanted, and whoever holds a row to write it back holds the present one (`EditsInv`). Tokens: each step keeps, mints or takes away (`TokensStep`), from which the action property follows. Fetches: what a fetch has read so far was true when it read it and is among the facts noted since it began (`Noted`, one clause per place of the fetch) |
| `AuthSessionsProofs` | `TypeCorrect`, `TokenExchangedOnce`, `RevokedForGood`, `FamilyImplemented`, `SignOutsAreExplained`, `LogoutsEndSessions` | every step saves one token, takes one token, or takes a set of tokens away (`Shapes`); the invariant says that a token a request has claimed is claimed by it alone (`ClaimedOnce`), has no successor yet (`SucceededOnce`), and that revocation left nothing valid. The last two are about one browser among many (`BrowserInv`): a token belongs to the browser it was given to, so that a step of one tab leaves the other browsers alone; a browser that is not excused has one request under way at most, and either its cookie is valid or that request is about to bring one; one whose requests never overlapped loses its token before it gets the next |
| `NodeProvisioningProofs` | `TypeCorrect`, `OnlineIsPaired`, `KeyStaysUsable`, `RotationStays` | each place of a job fixes how far what it carries has come. `PairInv`: outside the named races a provision is alone at the pair, from `restart` on `agent.env` holds its bearer, from `persist` on so does the agent, before it writes `online` so does the row. `KeyInv`: one job at a time appends to `known_hosts` and one pushes a key; between the row and `authorized_keys` the key is the one in the row. `Undisturbed`: whoever is about to write the row back has its transport |
| `AgentLinkProofs` | `TypeCorrect`, `OneRoot`, `AppliedStays`, `StaleMeansMoved`, `ServesTheTrustedRoot`, `PairOnTheNode` | `RootInv`: who creates the root found none and creates it alone. `AckInv`: without crossing, requests are handled in the order of their calls, so disk and sing-box are between the last answer and the first open request. `StaleInv`: until somebody moves a bearer, the second attempt carries the agent's. `TrustInv`: certificates under way, files pushed and agents restarted belong to the cached root, which cannot change while anything is under way. `MatchInv`: without a race there is one certificate, and only the push of a key may find another on the node |
| `DatabaseProofs` | of `Backups`: `BackupsTypeCorrect`, `OkRowsAreRestorable`, `FilesHaveRows`, `RetentionKeepsGood`; of `Migrator`: `MigratorTypeCorrect`, `JournalFollowsSchema`, `RowsAreKept`, `BootsWithItsSchema` | Backups: `WorkInv`: one worker of a process at most is inside its mutex, and what is being removed was asked for. `RestoreInv`: each place of a Create promises how much of its files is there before the row may say ok (`Promises`). `ListInv`: while the index is whole, who opens a file has its row in it, and who removes the row has removed the files (`Removing`, `Rowed`). `GoodInv`: outside the named overlaps, and while no write of the index was cut short or reported an error, one backup is made at a time (`Alone`), and the pass of retention that follows a success keeps the newest row, which is good (`Kept`). Migrations (`MigrateInv`): an Up still has its open file before it (`RunsKnowTheirFile`), what it means to run was recorded, if at all, behind its back (`TodoIsNew`), what it has passed over is in the journal (`PassedIsRecorded`), and between the halves of a Down the tables are gone (`HalfwayIsGone`) |
| `CatalogProofs` | `CatalogInvariant`, `CatalogTypeCorrect`, `KeysStayUnique`, `ReferencesStayTrue`, `AnswersTellTheTruth`, `DeletionsAreFound` | first the stores: one lemma per statement of a kind of row and a store says what it may make of a catalog that is in order (`WriteOk`): it stays in order, a row comes by its create and goes by its delete. Then the requests: what one holds on to between its calls (`RequestOk`) stays true while others write, because rows only go, and are then known to be gone, and inbounds keep to their nodes (`Aged`). A row it read is there or was deleted (`RowOrGone`), the row it is to create is new (`RowIsNew`), an update of an inbound leaves it on its node (`NodeKept`), an endpoint is sound or still to be looked up (`EndpointsSeen`). That references resolve is not inductive: an endpoint whose inbound is gone says nothing any more about its node, and an inbound of the same id on another node would make it wrong; so it is kept that the inbound was deleted (`HostsSound`), and what was deleted stays so (`DeletedIsGone`). Answers: only pg fails for another reason than the request (`FailuresOfPg`). Deletions: every deletion is recorded, about to be, was refused by the database, or its answer was lost (`AuditInv`), and a list filtered, sorted and cut by either store is not empty if an entry matches |
| `WebhookDeliveryProofs` | `WebhooksTypeCorrect`, `NothingIsLost`, `ChainsStaySingle`, `AcceptedIsNotSentAgain`, `OperatorsEditsStay` | `WorkInv` ties each job to rows and retries: what is at hand is owed, a row that is written and not yet armed does not wait and is one task's, a retry waits once, while its endpoint is there and an attempt is left. `KeepInv`: before the worker removes the row it fired, the event is settled or waits elsewhere (`Handed`), unless its context is over and the removal cannot succeed. `ChainInv`: a request is alone with its event, and beside the worker waits only the row it fired (`FirstAlone`, `RetryAlone`). `AckInv`, which needs `WorkInv` and `ChainInv`: of an accepted event only the row about to be removed waits, and who is at it has its 2xx. `EditInv`: outside the named overlaps a copy says what the row says (`CopyOk`) |

Sequences that are filtered, listed in some order or cut are reasoned about by the
places of their members (`WithoutRest`, `OrderOfAll`, `TailOf`), not by induction, so the
theorems about webhooks hold for any number of rows: `MaxRows` bounds the ids in the
fairness of `FairSpec` only, and no action looks at it.

Only model-checked: liveness (`StaleNodeRefreshed`, `RequestsReturn`, `RetryFires`,
`QueuedCallsSettle`), which the prover does not do. Every other property of a run is
stated by a theorem.

## What the models show of the code

Where the code does not do what was expected of it, or what a comment next to it
says, the models follow the code and the properties name the exception. These are the
ones met on the way (paths under `src/backend`, `internal/` left out).

Synchronisation
- A later Remove drops a pending Add of the same key, and all inbound deltas share
  `uuid.Nil` as key (`cores/batched.go:65`, `:200`); harmless, since a flush rebuilds all.
- A restart enqueues nothing (`cmd/aegis/main.go:680`), and a cancelled applier drops
  what is pending: a node stays stale until its next edit. This is reason `restart`.
- A failed lookup while building is taken for an empty allow-set and falls back to the
  inbound's inline user or leaves it out (`cores/builder/builder.go:404-409`, `:594`).

Provisioning
- The public key is pushed without a newline (`bootstrap/rotate_panel_key.go:338`), so a
  second push runs on from the first line; `:127-130` describes an append of a line.
- A rotation writes the sealed key first (`:264`) and does not put the old one back when
  the push fails, against `:142-147`.
- `appendKnownHosts` writes `ip:port`, while the lookup uses the host and port dialled:
  a node addressed by name is never found, each provision appends the line again, and
  the operations that refuse unknown hosts fail for it. The append takes no lock, so
  that two of them can lose a line.
- The command line without the secret of the panel stores the key unsealed; the panel
  cannot open it and, as a stored key wins over the operator's, cannot provision the
  node until the key is rotated again.
- The exit status of the script that writes `agent.env` is that of `chmod`; that of
  `installSystemdUnit` is that of `systemctl restart`. `verify` may find the unit active
  just after its start.

Webhooks
- A tick's 5 s context is shared by its batch (`webhooks/worker.go:127`), so that one
  slow receiver's row, which stays the oldest, keeps those behind it from firing for
  ever, against `webhooks/service.go:516-519`.
- A retry buried under newer deliveries is neither fired nor removed
  (`webhooks/service.go:461`), against `webhooks/worker.go:22-24`.
- A dispatch to a slow receiver leaves no row and loses its event, there and for the
  endpoints that follow, against `webhooks/dispatcher.go:64-66`. The memory
  store ignores the context.
- A Dispatch whose list of endpoints fails drops the event and logs it as an error of the
  programmer (`webhooks/dispatcher.go:104-107`).
- The memory store's DeleteEndpoint leaves pending retries; pg cascades, as does the model.

Authentication, gate, subscription
- "Already consumed" (`auth/service.go:109-111`) is also the answer for a token that
  expired unused (pg) and for a failed call of the store. A failed logout writes the
  status before it clears the cookie (`auth/handler.go:353-357`, `:377-380`).
- Concurrent rotations leave two active path rows, where `panelcfg/pg_store.go:159-165`
  expects one; readers order by age, so the newest is served. The grace period of the
  old path is stored and read by nobody; a new path is mounted at the next start.
- `RotateSubToken` takes a grace of zero or less for 24 h. `expire_at` does not stop a
  subscription. The memory store gives every pool to every plan. The audit entry of a
  user's Update has the changed row as its `Before`; so have those of inbounds,
  templates, hosts, nodes and plans.

Backups
- `_index.json` is truncated and rewritten in place (`backups/store.go:182`), by panel
  and tool alike: a crash there loses every row for good, the one of the backup in the
  making included, against `backups/backup.go:53-57`. Nothing settles a
  `running` row after a crash. The error of closing a dump is passed over
  (`backups/service.go:760`), so that a short one may be ok. A Delete of a backup in the
  making can leave a file no row names.
- `aegis-pg-restore` builds its configuration without `AllowUIRestore` and
  `PostgresDSN`, so that a restore is always refused; `Restore` would pass the
  compressed file to `pg_restore` as it is. `populateCounts` asks `schema_migrations`
  for a column it does not have.

Agents
- On pg no node gets a certificate: the columns are NULL, which cannot be scanned and is
  not `ErrNotFound`; the client key is not stored at all. On the memory store a restart
  makes a new root. Calls over gRPC never arrive, because of the address they dial.
- `SaveRoot` is `ON CONFLICT DO UPDATE`, though `agentca/pg_store.go:33-41` expects the
  loser of a race to be told.
- Two applies may cross on the node; a failed reload leaves the new file; an abandoned
  request still writes; `lastApplyISO` is written without the lock. The HTTP transport
  has no timeout, though comments speak of 30 s.

Migrations
- The Down sections of 0001 to 0013, 0021, 0023 and 0024 end with COMMIT, so that the
  journal row is removed outside their transaction, against `migrations/migrator.go:366-384`.
- 0022 has no section markers: `down` only forgets it, and the next `up` fails on its
  DROP CONSTRAINT, before the panel is up. The Up of 0004 and 0010 drops tables first.
- Two runs of Up are not kept apart; Down reads the mounted directory only.

Catalog
- The pg store of inbounds keeps no `template_id`, that of hosts no `display_name`; the
  bodies carry no `downloadHostId`. A patch of an inbound's protocol keeps a template of
  the other, and a template's protocol may change under its inbounds.
- In the memory store a refused Update of an inbound's port has already moved its name in
  the index: the old name is free and the new one taken. The name index of inbounds is
  therefore left out of `KeysNameOneRow`. `GetByName` after an update that keeps the
  name returns the row as it was.
- A host that is a balancer cannot become direct again. The `nodeId` in the URL of a PUT
  or DELETE of an inbound is not looked at. Deleting a plan leaves users with its id. A
  violated foreign key is answered with status 500. The uniqueness of a remark ignores
  case in memory and not on pg.
- Rows that go with another (inbounds with their node, credentials with their inbound,
  node or user) leave no audit entry, event or delta (`carried`); an audit entry that
  cannot be written is only logged (`unlogged`).
- The memory store of credentials makes no check that user and inbound exist, though
  `credentials/service.go:27-29` and `:99-102` say so, and keeps those of deleted ones.
- A query that fails after the write (the read-back of `hosts/service.go:335-338` and its
  like, or the one inside `hosts/pg_store.go:97` and `:246`) answers 500 for a change
  that was made, and nobody is told of it.
- `plans.Create` answers with the row as asked for; the pg store keeps microseconds.

## Not modelled

- *Frontend*, apart from the client's queue of calls behind a token refresh; deployment
  files, documents, generated code, the no-op core: no state of the panel.
- *Envelope and cryptography*: a sealed value is one that opens with the same secret.
  Keys, certificates, tokens and passwords are numbers or members of small sets.
- *HTTP plumbing, configuration, logging, the pool*: no state of their own. Field
  validation and pagination are left out where nothing else depends on them.
- *Texts*: rendered sing-box configurations, subscription formats, SQL of migrations
  beyond what it creates. Shadowsocks has one password per inbound and no users.
- *Changed host keys and reinstalled hosts*, and the states `draining` and `disabled` as
  targets of the run (the theorems cover them): a node keeps its host key.
- *Two replicas of the panel*: the code is written for one. Two processes are modelled
  where they meet in practice: the command-line tools, two starts that overlap, and the
  migrations they run.
- A UUID given by a client that a deleted row once had (`Fresh`), an empty value in a
  credential's rotation, which is refused before any read, and `users.Service.Delete`
  from HTTP: it has no route there, and is modelled as the service offers it.

## Plan

Done in this order: the applier and the whole way from an edit to a node; provisioning;
webhooks; sessions, the gate and subscriptions; agents and their certificates; backups
and migrations; the catalog; proofs for the modules above. What would come next:

1. Changed host keys, with a second incarnation of the node.
2. Templates in the builder, so that `AccessSync` sees an edited template.
