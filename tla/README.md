# A TLA+ model of xmcl-web-api

This directory holds TLA+ specifications of the services behind the XMCL
launcher (`src/`): billing, hosted servers, shared hosting, accounts and
sessions, multiplayer rooms, AI and TURN allowances, translations. Each module
is translated from the code it names, each is model-checked by TLC on small
instances, and eight modules hold proofs that TLAPS checks for every value of the
constants.

    tlc -workers 2 -config MCSharedHosting_safety.cfg MCSharedHosting.tla
    tlapm MongoBillingStoreProofs.tla

`PROJECT.json` lists the components, the runs, for each definition the lines
of the source it models, the hazards of the code with the properties that are
about them, the disagreements the runs show, and the theorems. For every
property it also names a mutation of the model, a bug that somebody could have
written, that makes the property fail.

## 1. The system

The API is one TypeScript program that runs as many short-lived isolates
(Cloudflare Workers, or Azure Functions, or Deno), without memory in common.
An isolate may end between any two calls it makes, and the reply of a call may
be lost after the call took effect. What lasts is in MongoDB, in Azure Table
and Workers KV (translations), in S3-like object storage (worlds, content) and
in Durable Objects (one per multiplayer room). A cron trigger
(`apps/api/worker.ts`) runs the sweeps one after the other: expired stops of
servers, translations, renewals of subscriptions, the hourly charges of shared
hosting, requests for capacity, commands of nodes. Outside are the cloud
provider (Vultr), the payment provider (Waffo), Cloudflare's TURN, AI
providers, the compiler of modpacks, and two kinds of agents: one on every
machine of a hosted server, one on every node of shared hosting.

```
 launcher ──> API isolates ──> Billing (one document, one lease)   <── Waffo webhooks
                 │  │  │
                 │  │  └─> ServerControl (one aggregate per account) ──> Vultr
                 │  │                         ▲ events of the worker on the machine
                 │  └─> SharedHostingScheduler (one document, CAS)
                 │         │ commands      │ requests for capacity
                 │         ▼               ▼
                 │   NodeCommandOutbox   SharedNodeProvisioner ──> Vultr
                 │         │ leases        │ registers
                 │         ▼               ▼
                 │        agents of nodes ──> workspace grants, manifests, ports
                 ├─> Azure Table + KV (translations)  <── cron
                 └─> Durable Object of a room <── sockets of members
```

### Components

| component | state | operations | what is hard | what makes it correct | module |
|---|---|---|---|---|---|
| Billing store (`ledger.ts`) | one versioned document with a lease | `transaction` | clocks that differ, expired leases, lost replies, evictions | a callback takes effect once and on the current document | `MongoBillingStore` |
| Top-ups (`billing.ts`, `waffo.ts`) | orders, attempts, balances, refunds | create, recover, webhooks, administrative operations | the provider is called between transactions; events repeat and overtake each other | one order per request, one checkout per order, balances that match what was paid | `BillingOrders` |
| Usage (`usageSettlement.ts`) | authorizations, settlements, cursors | authorize, settle, release | repeated and late events | reserved funds are held, no time is billed twice | `UsageSettlement` |
| Subscriptions (`xmclPlus.ts`, `sharedHosting.ts`) | subscriptions, fees | subscribe, cancel, renew, recover | sweeps that overlap with requests and webhooks | one fee per period, no fee after a cancellation | `Subscriptions` |
| Runtime charges (`sharedHosting.ts`, scheduler) | watermark of charged hours | report, sweep, stop | two stores, calls that die between them | hours are charged without gaps, and again only by a settlement that a later one overtook | `SharedRuntime` |
| Scheduler (`sharedHostingScheduler.ts`) | nodes, services, assignments | start, stop, drain, enforce, node reports | commands are sent after the transaction | nodes are not oversubscribed, a world runs in one place | `SharedHostingScheduler` |
| Repositories (scheduler, `serverRepository.ts`) | a document with a revision | `transact` | lost replies, repeated attempts | mutations are atomic | `RevisionedRepository` |
| Node commands (`sharedNodeTransport.ts`) | commands with leases | next, acknowledge, renew, sweep | calls that overlap, agents that restart | in order, at least once, one at a time | `NodeCommandOutbox` |
| Workspace (`sharedNodeTransport.ts`) | ports, manifests, grants | dispatch, grants, started, synced | reports that stop half way, late uploads | what the scheduler restores is what was synced | `WorkspaceSync` |
| Provisioning (`sharedNodeProvisioner.ts`) | a record per request | request, drain | unknown outcomes, overlapping isolates, drains that take no claim | what the record remembers is not bought twice, nothing in use is deleted | `SharedNodeProvisioner` |
| Servers (`serverControl.ts`) | server, tasks, leases | owner's requests, executors, worker events, sweep, administrators | three clients of one aggregate and a provider that fails | one lease, closed when the machine is down; the world survives | `ServerControl` |
| Rooms (`apps/signaling/room.ts`) | members, master, alarm | connect, transfer, remove, close, alarm | reconnects, partial writes, one alarm | one master who is a member, everyone who left is dropped | `MultiplayerRoom` |
| AI units (`allowanceMetering.ts`) | reservations, usage | reserve, settle, release | stale reservations, periods that end | no source is overdrawn | `AiAllowance` |
| TURN bytes (`turnMetering.ts`) | issuances, usage | issue, sweep, prune | sweeps that overlap and overtake each other | every byte is charged at most once, and those between the bounds of the query are | `TurnMetering` |
| Translations (`translation*.ts`) | row, copy at the edge | record, claim, finish, put | claims of rows as they were listed, stalled sweeps, a cache that is behind | the copy never gets older, unless two sweeps claimed what both had listed | `TranslationCache` |
| Capacity requests (`sharedHostingScheduler.ts`) | a queue in the scheduler's document | queue, process, time out | sweeps that overlap and die, ids that are used again | a completed request has its node; requests end | `CapacityRequests` |
| Content of shared services (`sharedModdedRuntime.ts`) | imports, deployments, upload bindings | declare, upload, complete; compile, bind, publish; apply, advance, roll back | calls that overlap, a compiler whose answers are lost or repeated | what runs was selected, published, stored and verified | `ModpackUploads`, `RuntimeCompilation`, `RuntimeSelection` |
| World seeds (`sharedWorldSeed.ts`) | seeds, the archive, the selection | create, upload address, complete | two completions, deaths | the first world is one that was verified | `WorldSeeds` |
| Node registration (`sharedNodeTransport.ts`) | enrolments, credentials, nonces | register, rotate, beat | requests that arrive twice, lost answers | enrolled once, obeyed once | `NodeCredentials` |
| Modpacks of servers (`deploymentTasks.ts`) | import, deployment, tasks | validate, prepare, preview, apply, roll back | tasks that die and are run again | the record says what the machine did | `ModpackDeployments` |
| Workers (`worker/service.ts`, `workerAuth.ts`) | sessions, nonces, cursors, events | register, heartbeat, runtime, usage, operation | requests that are sent again while one is at work | a report is settled or published once | `WorkerSessions` |
| World backups (`worldBackupService.ts`) | backups, objects, storage cursor, outbox | create, upload, complete, restore, delete, settle | deaths between two stores | layers have their parents; nothing is billed twice | `WorldBackups` |
| Administrators (`operations.ts`) | operations, audit log | request, complete, resolve | owners that fail, strange completions | the first outcome stays | `AdminOperations` |
| Sessions (`session.ts`, `account.ts`) | sessions, refresh tokens | issue, refresh, revoke | two refreshes with one token | a token is exchanged once; revocations reach access tokens | `Sessions`, `AccessTokens` |
| Accounts (`account.ts`, `accountMerge.ts`) | accounts and an index of identities | sign in, link, unlink, delete, merge | two documents, written one after the other | an identity has one account, in both documents | `Accounts` |
| AI requests (`ai/service.ts`) | a ledger by key | submit | repeated requests, half-way deaths | asked once, answered from what is stored, paid for | `AiRequests` |
| Provider keys (`agnes.ts`) | a cursor and cool-downs in memory | take a key | calls that overlap | no provider is given up while a key is free | `ProviderKeys` |
| Others | see section 9 | | | | not modelled |

### Interactions

* Every monetary operation is a transaction of the billing store. Its module is
  proved to implement an atomic store, and the other billing modules take a
  transaction as one step.
* `SharedHostingScheduler` and `ServerControl` change their aggregate in one
  transaction of a revisioned repository, likewise proved to be atomic, and
  take it as one step. Calls to Billing, to the provider and to nodes lie
  between such steps, and every other step may come there.
* `SharedRuntime` composes the two: one transaction of Billing and one of the
  scheduler per call.
* Commands of the scheduler go through the gateway (`WorkspaceSync` reserves
  the port) to the outbox (`NodeCommandOutbox`) and to the agent, whose reports
  come back to the scheduler through `WorkspaceSync`.
* `SharedHostingScheduler` queues a request for a node (`CapacityRequests`), a
  sweep takes it to `SharedNodeProvisioner`, which enrols the agent
  (`NodeCredentials`); the agent registers the node with the scheduler.
* An import (`ModpackUploads`) is frozen into a deployment, the compiler
  publishes it (`RuntimeCompilation`), and its owner selects it for the service
  (`RuntimeSelection`); the world to start with comes from `WorldSeeds`.
* A worker on a hosted server reports through `WorkerSessions`, which has
  `ServerControl` stop the server when Billing refuses; `AdminOperations`
  dispatches to `ServerControl` and `BillingOrders`.
* `AiRequests` authorizes and settles with `UsageSettlement`; the route of chat
  completions (`AiProviderClient`) asks providers with the keys of
  `ProviderKeys`.

## 2. How the project grew, and what is left

The order was: what everything rests on first, the two stores (`BillingStore`
and `AtomicAggregate` say what a store promises, `MongoBillingStore` and
`RevisionedRepository` are the protocols over MongoDB, shown to implement
them); then money (`BillingOrders`, `UsageSettlement`, `Subscriptions`,
`SharedRuntime`); then shared hosting (`SharedHostingScheduler`,
`NodeCommandOutbox`, `WorkspaceSync`, `SharedNodeProvisioner`); then hosted
servers (`ServerControl` and what is around it); then the edge
(`MultiplayerRoom`, `TurnMetering`, `AiAllowance`, `TranslationCache`); then
content, accounts, sessions, agents, administrators and AI requests.

What is left, by what it would add:

* the grace for a world that outgrows its plan, with the notice to its owner
  (`sharedHostingScheduler.ts`, lines 1113-1160): a notice that fails keeps the
  report from looking at the queue;
* several rows in `TranslationCache`, of which a sweep takes ten;
* backups under overlapping calls: section 8 says what fails there;
* proofs of what is so far only checked: the invariants of worlds, accounts,
  machines, AI requests and translations (end of section 7).

## 3. Modules

`PROJECT.json` maps every definition that models code to the lines it stands
for. The header of a module says what it abstracts; in general:

* A transaction of a store is one step. Where a component has no transactions,
  each read and each write is a step, and a variable holds the calls at work
  with what they have read (`call`, `calls`, `worker`, `sweep`, `proc`).
* A call that refuses returns to idle and changes nothing else. An isolate that
  ends (`Crash`, `Die`, `Dies`) leaves what it had written.
* A name, a hash, a key or a text is a model value or a number. Money, bytes and
  units are small numbers; a calendar month or an hour is a few ticks.
* Bounds are constants named `Max...`, and stand in guards. They bound how often
  something happens (calls, faults, assignments, sequence numbers) or the clock,
  never what the state may be.

| module | what its variables are in the code |
|---|---|
| `BillingStore`, `AtomicAggregate` | abstract: the callbacks that took effect and were acknowledged; the mutations of a document |
| `MongoBillingStore` | `doc` the document with version and lease; `client` what each isolate does and its local copy; `clock` the clock of each isolate; `nextToken` the supply of lock tokens |
| `RevisionedRepository` | `doc` with revision and recent mutation ids; `caller` the attempts of `transact`; `returned` what its calls returned |
| `BillingOrders` | `orders`, balances, `webhookEventIds`, `adminOperations` of the aggregate; `worker` the calls at the payment provider |
| `UsageSettlement` | authorizations, settled events and cursors of the aggregate |
| `Subscriptions` | subscriptions of both offers, the ledger of fees, the balance; `worker` the sweeps in their loop |
| `SharedRuntime` | `watermark` of Billing, `service` of the scheduler, and calls between the two |
| `SharedHostingScheduler` | nodes and services of the document; commands not yet dispatched; `inbox` and `container` of the nodes |
| `CapacityRequests` | `capacityRequests`; `bought` what the provisioner has a node for |
| `NodeCommandOutbox` | `stored` the commands with their leases; `poll` the database calls of `next`; `held` what the agent believes |
| `WorkspaceSync` | ports, grants, manifests, objects, and the reports that publish them |
| `NodeCredentials` | enrolment, credential, nonces; requests on their way; the secrets of the agent |
| `SharedNodeProvisioner` | the record; volume, VM and attachment at the provider; requests it has not served |
| `RuntimeSelection`, `RuntimeCompilation`, `ModpackUploads`, `WorldSeeds` | the documents of services, deployments, imports and seeds, claims of keys, and the object storage |
| `ServerControl` | the aggregate of one server: tasks, leases, events; authorizations at Billing; machines and snapshots at the provider |
| `ModpackDeployments` | import, deployment, tasks and claims; `machine` what it was told to switch to |
| `WorldBackups` | backups, objects, cursor, outbox, and what Billing has settled |
| `WorkerSessions` | lease, sessions, nonces, cursors; what Billing decided and what was published |
| `AdminOperations` | operation, audit log, the owner's record |
| `Sessions`, `AccessTokens`, `Accounts` | documents of sessions, accounts and the index of identities; tokens that are out |
| `AiAllowance`, `TurnMetering` | reservations and usage per period; issuances and what was relayed |
| `AiRequests`, `ProviderKeys` | the ledger of requests; the memory of one isolate |
| `TranslationCache` | the row and who has its ETag, the copy at the edge, the source |
| `MultiplayerRoom` | the stored room, the alarm, the sockets |

The modules `MC...` put several components side by side: a behaviour chooses a
`part` at the start and exercises only that one, so that the state space is the
sum of the parts and not their product. A property of such a module is the
conjunction of what its parts promise, each for the part it is about; the parts
do not share state, and where components do interact it is inside one module
(`SharedRuntime`: Billing and the scheduler; `WorkspaceSync`: gateway, agent and
scheduler; `RuntimeSelection`: content, scheduler and agent; `WorkerSessions`:
repository, Billing and events).

## 4. Runs

| run | module and configuration | parts | bounds |
|---|---|---|---|
| `stores` | `MCStores`, `Stores.cfg` | billing, repository | two isolates, two idempotency keys, three lock tokens, leases of one tick, clocks of each isolate up to 2; two callers, three attempts (two in `records`), three mutations |
| `records` | `MCRecords`, `MCRecords.cfg` | repository; stopping, refused, registering (worker); desk (administrators); signed (sessions), tokens; binding, merging (accounts); agent, forgetful, returning (credentials of nodes) | two calls at a time; one or two faults; two sessions with three tokens; two secrets; accounts with one identity each and one more that is free |
| `payments` | `MCPayments`, `MCPayments_safety.cfg` | checkouts, events, usage, renewals | two workers on one order, or every notification of two orders; three requests and seven events of usage; two subscriptions, two sweeps, three ticks where a month has two, and a wait for the lease of one |
| `payments_progress` | `MCPayments`, `MCPayments_liveness.cfg` | prompt, renewals | the same with calls that end in time; one subscription and sweep, two months of one tick each, no wait |
| `shared_hosting` | `MCSharedHosting`, `MCSharedHosting_safety.cfg` | scheduler, hours, content, gateway, queue, polls, seeds, packs | one node with one slot, two services; two calls; two assignments; the time of 6 ticks of 2 to the hour, sweeps up to one tick late and as slow as they may be, money for one hour or for five; two commands with two leases each; two seeds; two imports of four archives |
| `shared_hosting_progress` | `MCSharedHosting`, `MCSharedHosting_liveness.cfg` | scheduler, hours, content, gateway, queue | one call, no faults, 4 ticks, money for two hours, sweeps on time, the rest the same |
| `server_leases` | `MCServers`, `MCServers_leases.cfg` | leases, events, late, archives, modpacks | one server, three or four keys, one or two executors, two events of the worker (one in `leases`, where the sweep takes part, none in `late`); a preview, two applies and a rollback of one deployment, and one death |
| `server_faults` | `MCServers`, `MCServers_faults.cfg` | creates, admins, requests, nodes, backups, bills, compilation, redelivery, capacity | two isolates, resources with two ids; two backups; two jobs and outputs of the compiler; two capacity requests; one to three faults; in `nodes`, when a drain erased the mark of an attempt, the third resource asked for is the last (`Followed`) |
| `server_progress` | `MCServers`, `MCServers_liveness.cfg` | stops, suspends, requests, deletes, rebuilds, applies, uploads, capacity | as above; sweeps of capacity requests die twice, the compiler loses one answer |
| `rooms` | `MCEdge`, `MCEdge_rooms.cfg` | rooms, faults | three accounts, a room of two places, two ticks |
| `meters` | `MCEdge`, `MCEdge_meters.cfg` | turn, ai, repeated, colliding, keys, edits, stalls, accesses | two credentials, two sweeps, two periods; three requests over two overlapping sources; two calls of one key; two sweeps on one row and two edits |
| `runtime_repeat` | `SharedRuntime`, `SharedRuntime_repeat.cfg` | | the finding of section 8 |

Why these bounds are enough to meet what the properties are about:

* Two of whatever can overlap. Every protocol here is between one that read and
  one that wrote meanwhile; a third call can be met by letting the second one
  end and start again, which all of them may. Where a third matters it is there:
  three accounts for two places of a room, three requests for two units, three
  mutations for a window of one id.
* Clocks run long enough for every expiry: leases of one or two ticks and
  clocks that reach past them, periods that end before the clock does, a grace
  that ends before the room does.
* One fault in every place it can happen, and a second one where a recovery can
  itself be disturbed (`refused`, `desk`, `capacity`, `compilation`).
* Every action, and every disjunct of every action, is taken in the runs, and
  every property has a mutation that breaks it under the bounds of its run
  (`PROJECT.json`, `mutants`). For a property with several conjuncts the
  mutation is of one of them.

`CHECK_DEADLOCK FALSE` stands in every configuration: with the bounds on calls,
assignments and the clock, a behaviour comes to a state with nothing left to
do. Symmetry is used in the runs for safety only, over values that are never
ordered or named by the model.

## 5. Properties

Each is stated in words where it is defined. What they are about, and the
condition under which they hold where they do not hold always:

**Stores.** A callback takes effect once for each key, on the document as it is
(`AtomicTransactions`, `AtomicMutations`: the refinements; `Inv`: whoever holds
the lease, or may replace the document, has the current copy). A lease is
removed by its holder or after it expired. All calls end.

**Money.** A balance is what was paid less what was refunded, refunds take back their
share in whatever order they come, a customer's checkout is not replaced by a late one
(`OrdersInv`, `PaymentSteps`). No time of a source is billed twice and no
authorization pays for two events (`UsageInv`); balances hold back what is authorized
(`HoldsInv`). Fees and ledger agree and no time is paid twice, but for as long as a
recovery may wait for the lease (`PlusInv`). Orders get their checkout, if calls end
before the time of recovery; payments bring subscriptions back (`PaymentsProgress`).

**Shared hosting.** Nodes are not oversubscribed, in the account of the scheduler and
in containers, and no revision of a world is played twice (`PlacementInv`; with
`Overtaking` a container can be one too many, see section 8). No hour of an assignment
is left out, and one is charged again only by a settlement that a later one overtook,
once for each of these (`HoursInv`). What runs is what was selected, and what was
selected was uploaded as declared (`ContentInv`; with `overlap`, only what is said of
calls that did not overlap). The revision the scheduler has is stored, and is what the
next restore starts from (`WorldInv`). An agent that makes one call at a time has one
lease, and gets its commands in order (`OutboxInv`, `HostingSteps`); with overlapping
calls only that the last lease acknowledges, and that renewals end. Queued services
are served, stops end, commands are handed out again (`ServicesProgress`,
`AgentsProgress`).

**Hosted servers.** One open lease, paid for, closed when the server is down
(`LeaseInv`; that the server is down, and that the world is kept, while the provider
answers); modpacks are recorded as the machine did them, if a deployment has one
preview (`ModpackInv`, `ModpackSteps`; section 8 says what two do). One machine is
asked for by a create, whatever is lost (`CloudInv`); one volume and one VM for a
request, and nothing left of a node that is deleted (`NodesInv`, unless a drain saved
the record as it had read it over the mark of an attempt: then the kind of resource
that was `forgotten` may be asked for again, section 8); no VM is deleted while its
node serves, nor a volume while a VM has it (`NodeSteps`). Layers have their parents,
retries find their backup, no time is billed twice (`BackupsInv`: with one call at a
time, and for `bills` without deaths). What is published is stored (`CompilationInv`,
without redelivery) and stays, and a request for a node is ready when its node is
(`FinalSteps`). Stops, capacity requests (of a service that asked once), deletions and
uploads come to an end (`ServersProgress`, `ContentProgress`).

**People and machines.** A refresh token is exchanged once, a revocation
reaches the tokens that are out, an identity belongs to one account and moves by
merges only (`PeopleInv`, `RecordSteps`). An event of a worker is settled and
published once, a node enrols once (`MachinesInv`).

**Edge.** A room has one seat per account, no more of them than it has places for, and
a master who is a member (`RoomInv`, also when the storage fails between two writes);
while its storage does not fail, the alarm covers who is to leave, and everyone sees
the room as it is (`SteadyRoomInv`). A relayed byte is charged at most once and never
taken back, and one that was relayed after the minute of the issue and before the
issuance expired is charged before it is forgotten (`TurnInv`, `MeterSteps`);
allowances are not overdrawn, requests of the AI are asked and charged once (`AiInv`).
A claim of a translation writes the row as it was listed, without an ETag, so what is
checked says what such a claim may undo and nothing else may: an access is lost only
if it was recorded while a sweep had the row listed, and the table goes back to an
older text only by the claim of a row that was listed before; the edge never has what
the table never had. A text that is old at the edge expires, one that is not there is
still pending, and the edge never goes back, unless two sweeps claimed the row that
both had listed (`CacheInv`, `MeterSteps`; the last three while sweeps end before the
lease they hold, which the platform's limit of 15 minutes on a cron makes true).

## 6. Fairness

The sweeps are called by the cron of `apps/api/worker.ts`, one after the other:
expired stops of servers, translations (whose errors are caught), renewals,
hourly charges, requests for capacity, commands of nodes. An error of one ends
that cron run and those after it are not called, so what is assumed is that
some later run gets to each of them: strong fairness of a sweep's start where
it competes with other calls, weak fairness of what a call does once it began,
since an isolate that is not killed goes on. A death is an action without
fairness, and is bounded.

| module | assumed | because |
|---|---|---|
| `MongoBillingStore` | weak: steps, clocks | a call runs on, time passes |
| `RevisionedRepository` | weak: steps | a call runs on |
| `BillingOrders` | weak: `Continue`, clock; strong: `StartSweep`, `ProviderAnswers` for each order | the sweep is called again and again, and the provider answers some attempt |
| `Subscriptions` | weak: `Renew`, `Recover`; strong: `StartSweep`, `Deliver` | the cron; the payment provider repeats its webhooks |
| `SharedRuntime` | weak: `Settle`, updates; strong: `Sweep` | the cron |
| `SharedHostingScheduler` | weak: `Rescan`, `ScheduleQueued`, dispatch, reports, the agent | the cron; an agent works off its inbox and repeats a report without an answer |
| `NodeCommandOutbox` | weak: clock, `RequeueExpired`, answers; strong: the steps of a poll | the agent polls in a loop |
| `WorkspaceSync`, `RuntimeSelection` | weak: all steps of calls and of the agent | nothing dies in these runs |
| `SharedNodeProvisioner` | weak: `Request`, `Serve`, `Register` | the cron asks again; the provider serves what it took, when nothing is lost |
| `CapacityRequests` | weak: `Begin`, `Step`, `TimeOut`, `Rescan` | the cron; a request is taken again after its time |
| `ServerControl` | weak: `DeadlinePasses`, the sweep and what it halts | the cron |
| `RuntimeCompilation` | weak: steps; strong: `Claim`, `Submit` | a client that goes on asking; the build is reproducible |
| `WorldBackups` | weak: steps; strong: `Delete` | an owner who goes on deleting, with authorizations that last |
| `ModpackDeployments` | weak: tasks that are due | the queue delivers |

## 7. Proofs

Eight modules hold theorems. The recipe is the same in each: the invariant of
the run is not inductive, a stronger one is, TLC checked the stronger one on the
instance of the run, and there is a lemma for each action. Assumptions are on
constants only and are stated where these are declared; TLC evaluates them in
the runs. Where a theorem needs a value of a switch among the constants, as the
property itself does, the value is a hypothesis that the theorem shows.

* `MongoBillingStoreProofs`: for any isolates, keys, lease and wait times. The
  invariant: whoever holds the lease in the document has the current version
  and copy (`LeaseGuardsCopy`), tokens of the supply are in no document and no
  client (`TokensFresh`), each effect is there at most once (`EffectsOnce`).
  A lease that expired was replaced with another token, and the commit asks for
  its own: so a late holder replaces nothing. From it `TypeCorrect`,
  `CopyCurrent`, `StoreInvariant`, the refinement `ImplementsAtomicStore`, and
  `LeaseIsRespected`: a lease leaves the document by its holder, or when it had
  expired by the clock of whoever took it.
* `RecordsProofs`, of the repository: for any callers, attempts and windows. A draft
  whose revision is that of the document was made from it, because the revision
  counts the mutations and a mutation has one place among them (`Placed`,
  `BaseIsPast`, `DraftIsCurrent`); a caller that lost a reply finds its id among
  the recent ones or its place past them. From it `TypeCorrect`,
  `DraftCurrent`, `RepositoryInvariant` and `ImplementsAtomicAggregate`.
  Of the access tokens: for any sessions, calls, secrets and lives. A token of a
  revoked session began before the revocation (`BegunBefore`), and one that is
  not over, or that is about to be signed, has a secret of the configuration
  (`SecretsKept`). From it `RevocationReachesTokens` and `SecretsTurnNobodyAway`.
* `PaymentsProofs`, of usage: for any requests and events. `SettledOnce`: the cursor
  of a stream is past the ends of all that was settled in it and not below their
  numbers (`CursorPast`), and an event closes its authorization (`EventCloses`); so no
  two settled events overlap, or share an authorization. `HoldsAreSettled`: SUMS. That
  a balance holds back the sum of what its open authorizations reserve is a statement
  about a sum over a set that changes in one place, and a sum is a fold, which needs
  induction over data. `Total` is therefore the number of the units of its amounts, a
  cardinality, and one lemma says what it is when one amount changes; a grant, a
  settlement and a release each change one amount and the balance by as much. Of
  subscriptions: for any accounts, prices, periods, payments and workers. `PlusHolds`
  needs to know how subscriptions follow each other: a period is as long as a month,
  whoever is not active is past the period that was paid, what was paid does not reach
  past it (`PeriodsKept`), and of one owner the subscription that is not cancelled
  began after the others had ended, or less than a wait before (`CurrentIsLast`). So a
  fee, whether of a new subscription, a renewal or a recovery, begins a period when
  all that the owner paid for is over or, for a recovery that waited, was when its
  webhook took the time; the ids that a sweep read long before do not matter, since a
  renewal looks again. Of orders: for any accounts, amounts, events, operations and
  workers. What works on an order, and the key that asked for it, mean an order that
  exists (`WorkersKnow`, `KeysKnow`); most steps move a claim and leave the terms of
  the orders (`SameTerms`), and each of the others changes one amount of one of four
  totals. From it `OrdersHold`, and `PaymentStepsHold`: a claim is taken over only
  when it outlived the recovery time, a checkout stays, and what is cancelled is not
  charged.
* `NodesAndModpacksProofs`, of nodes: for any isolates, faults and drains. One call
  works on a request (`OneRequesting`), an attempt is in the record and in every
  copy that may be saved over it before the provider is asked (`TriedIsSaved`),
  and what is known of a resource comes from a create (`KnownWasAsked`). The
  exception is the copy of a drain that is about to declare the record unknown:
  it is as old as the drain, and when it is saved `forgotten` has the kinds of
  resources whose attempt it erases; of the others all this still holds. From
  it `TypeCorrect` and `CreatedOnce`. Drains overlap with each other and with a
  request, each with a copy of its own, so that `DeletedIsGone` needs to know
  what a copy implies about the provider: a drain past a step has done the step,
  for good, and a request cannot bring back what a drain took away, since what
  is tried is not tried again (`GoneInv`, while nothing is forgotten). What holds
  of a node that leaves even so, that it does not serve and does not come back
  to the pool, is `LeavesInOrder`. `NodesAreGivenBack` and `NodesDrainInOrder`
  are the two properties of `server_faults`.
  Of backups: with one call at a time, whatever is asked and for any number of
  backups and keys. The copy a call carries is the document but for what the
  call changes (`Changing`), a create has a key that no backup has (`Creating`),
  and a parent counts its layers and the one that is being made or dropped
  (`Documents`, `Ahead`). A bill begins at the cursor; without deaths what was
  billed is before it (`BilledBefore`), and with one interval to bill, a call
  that died is followed by one that bills the same again, since what changes
  the amount settles first (`BilledAgain`). That one of the two is so is
  `Sound`. `ServersProofs` draws `BackupsHold` from it.
  The module also has the lemmas about capacity requests and modpacks which
  `ServersProofs` uses, and declares the instances of these two components for
  `MCServers`, which extends it: there the provers have fewer definitions to look
  at than where all of `MCServers` is in sight.
* `SharedHostingSchedulerProofs`: for any nodes, services, plans and commands.
  `SlotsHold` needs no condition: the scheduler's account of a node fits the
  node, since each transaction looks at the whole state. `PlacementHolds` is
  about what runs there and assumes `~Overtaking`, without which it is false
  (section 8). The invariant (`Agreement`) says what the commands on their way
  mean: a restore is of the assignment the service has now, a stop of one that
  is over or about to be; a node has no restore behind the stop of a later
  assignment; whatever ran had a revision the service is past, but for the one
  that may run. So a container is of the assignment of its service, distinct
  containers on a node are distinct services that the scheduler counts there,
  and what runs fits because what is counted does.
  Of the charges (`HoursAreChargedOnce`): for any calls at a time and deaths of
  calls, any number of assignments, any price, deposit and length of an hour,
  and any lateness of sweeps and of calls (`Lag`; time passes while they are at
  work): an hour of an assignment is charged again only by a settlement that a
  later one overtook, and no more often than there were such, none is left out
  or charged before it begins, and what runs is paid to the last sweep. That an
  hour is charged at most once is false, section 8. The ledger and the scheduler
  are two documents with a call in between that may die or wait, so that what a
  call knows may be old; but the ledger only grows. What a call rests on is
  therefore stated of a ledger and a time and stays true of every later one
  (`Later`): the hours of its copy have entries and the start of its runtime is
  that of the replies (`CallFits`, `ServiceFits`). How often an hour is charged
  is counted against the watermark: one that can be charged (`Open`) has been
  charged no more than `overtaken` times, since only a settlement that comes
  after a later one opens an hour again (`CountFits`).
  Of the outbox (`OutboxHolds`, `OrderedCommands`): for any commands, polls and
  lease times and any lateness of calls, only the last lease of a command
  acknowledges it and no renewal takes it past its maximum; and for an agent that
  makes one call at a time, one lease at a time and commands in order. There the
  three database calls of `next` are not atomic, and the invariant says what
  stands in for that: no two commands are leased, a poll at work is alone, and a
  lease that a poll did not find running has run out as of the time the poll has,
  however late it comes. Whether an agent is of that kind is a variable of the
  module that no step changes (`sequential`), so that one instance has both.
* `MultiplayerRoomProofs`: for any accounts, sockets, capacity, lives and graces.
  `RoomHolds`, with failures of the storage and bodies that come late, and
  `SteadyRoom`, without them; `SteadyRoomHolds` is the second for the room that
  is checked. `Agreement` is about the room that is stored and
  about the one that a request to close has read and may still write: who has a
  seat has it under the name of the socket (`Seated`), and in an open room the
  master is there, under the account of the room (`Led`), or nobody is
  (`Absent`). `Steady` adds what every socket was shown (`Shown`), in a form
  that survives the close of one of them. That an alarm at the least of several
  times covers each needs a least element, which is well-foundedness of sets of
  numbers (`LeastOf`).
  Of relayed bytes (`BytesAreChargedOnce`): for any credentials, sweeps, periods,
  lives, delays and failures, where the window outlasts the delay, the longest
  sweep and as many times as there are failures. What a query counts are the
  bytes of the minutes after that of the issue and before the issuance expires
  (`Counted`), which grow with its time. A byte is charged when a sweep
  settles what it was told, and sweeps overtake each other, so that what is
  charged to a period is the sum of what was last observed of its credentials
  (`Charges`). For the rest the invariant counts: a sweep that was started after a
  credential expired and before it is forgotten has it in hand until it settles
  all that is counted, or it failed (`Missed`, `FewMissed`). When a sweep forgets a
  credential that still owes bytes, every sweep of the window is over, which is
  more of them than may fail.
* `ServerControlProofs`: for any number of requests, tasks, leases, machines,
  snapshots, events of the worker, operations of administrators and sweeps.
  With every fault of the provider: `ServerTypes`, `OneMachinePerTask`,
  `LeasesEndOnce`. What an executor holds while it waits for the provider is a
  copy, so the invariant says what the copy and the task may have become
  meanwhile: what each step does to tasks and leases is one of three moves
  (`Moves`: `Quiet`, `Closing`, `Granting`), and whatever is at work was stable
  under all of them (`Plans`, `Once`). `LeasesAreNamedAndPaid` holds where
  nothing is created or archived (`Unshelved`), with every fault and every
  operation of administrators, or where worlds are archived and no call fails
  (`ArchivesOnly`); `DownIsFreeAndKept` where owners start, restart and stop
  (`RunsOnly`), or under `ArchivesOnly`. Outside these it is false, and an
  argument by hand shows how: `handleProviderFailure` (`serverControl.ts:1289`)
  does not ask whether the task it fails is still the current one of its server.
  With faults, the late failure of a start closes the lease of what came after
  an archive, or calls stopped a server that has a lease; a create that fails
  late does so after an administrator gave the server back; and a start that
  fails during a deletion stops a server whose lease is open.
* `ServersProofs`: properties of `server_leases` and `server_faults`, for the parts as
  they are checked and any number of what they have. `LeasesHold`: `LeaseInv`, from
  `ServerControlProofs` under the substitutions of seven parts. `BoughtAsAsked`:
  `CloudInv`, from the same and from the requests for capacity, for any services,
  sweeps, deaths and times. Ids of requests repeat, so what is completed is not what
  was asked: the invariant (`CapacityInv`) is that a sweep past the purchase has an id
  that is bought (`SweepsFit`), that nothing which is bought ceases to be, and that a
  request only ever keeps its id and its place in the queue. `PacksHold` and
  `PacksAsAsked`: `ModpackInv` and `ModpackSteps`, for any deployments, keys of
  applies and of rollbacks, requests, deaths, faults and outages, and ONE preview of a
  deployment (`OnePreview`; section 8 says what two do). The status with which
  `transitionDeployment` claims a deployment gives the machine to one task until it
  settles (`OneHolds`, `HoldsIt`). A manifest is made once, by a preview that found
  none, and before there is one nobody can ask for an apply (`PreviewsIt`,
  `AppliesIt`); so the copy that a task carries over its calls, and saves at the end,
  has the manifest still (`PackKept`).

`MCSharedHosting` and `MCServers` have instances of several components, and
their invariants are about them: `HoursHold`, `OutboxHolds`, `LeasesHold`,
`BoughtAsAsked`, `PacksHold` and `BackupsHold` prove `HoursInv`, `OutboxInv`,
`LeaseInv`, `CloudInv`, `ModpackInv` and `BackupsInv` as they stand. The prover
takes two instances of a module for two copies of its definitions, so that the
lemmas say once that the copies are equal.

One error of the model came to light in a proof. `ReadServer` (and with it two
definitions of `RuntimeSelection` and `WorkerSessions`) had a `CASE` two arms of
which could hold at once, where the code takes the first that does: TLC does
too, a prover may not.

Only model-checked are: liveness, for which the prover has no support; what a
definition over sequences computes for every input, which needs induction over
data; and the properties of section 5 that no theorem above is about, such as
those of content and worlds, of accounts and machines, and of AI requests and
translations.

## 8. Where the code and its words disagree, and what is left open

One disagreement has a run. `runtime_repeat`: `settleRuntime`
(`sharedHosting.ts:365`) stores the elapsed hours also when they are fewer than
those settled, so that an hour which is repeated after a later one moves the
watermark back and the next sweep charges an hour again, whereas
`billingRuntime.ts:65` says "Repeating an hour is safe". A sweep that is merely
slow does the same: it has read the service when it is overtaken by the next
sweep, or by a stop and a start. `shared_hosting` has both; what it checks is
that nothing else charges an hour again.

The others were met while modelling. Where a name is given, it is the definition
that states what the words say; it stands in the module, is violated by the
model of the code under the condition named, and is not a property of a passing
run (or is one under the opposite condition).

*Money.*

* `billing.ts:704` refuses a refund whose rounded share adds nothing and rolls
  back the total it had counted; `waffo.test.ts:436` says "without rounding
  drift" (`RefundsDoNotDrift`).
* `usageSettlement.ts:361` assigns "expired" and throws, which rolls it back: an
  expired reservation is held until its producer releases it.
* `sharedHosting.ts:389`: a subscription of shared hosting that is payment_due
  can be neither recovered nor cancelled, and stands in the way of a new one.
* `xmclPlus.ts:80`: a subscription of the 31st drifts to the last day of the shortest
  month it met. The calendar is abstracted.
* `waffo.ts:338` takes the time of a recovery before `recoverPaymentDue`
  (`xmclPlus.ts:320`) waits for the lease of the store, ten seconds at most, and
  the new period starts at that time (`:338`): it may overlap, by as much as
  that, one that was paid and ended meanwhile (`PaidPeriodsDisjoint` allows
  `Wait`). No document says otherwise.

*Shared hosting.*

* `sharedHostingScheduler.ts:1022`: a start report whose second transaction is
  lost is refused for ever, as every retry has another `startedAt`;
  `sharedHosting.ts:238` says retries are safe (`StartReportIsAccepted`).
* `:964`: a restore dispatched after a stop that overtook it starts a container
  of no assignment; `:404` says nodes are never oversubscribed (`ContainersFit`
  with `Overtaking`).
* `:1037`: a service stopped while it starts is sent its seed again, over a
  world with a revision; `:116` says "never resend it" (`SeedNeverResent`).
* `:966`: a command is in the memory of one isolate only; `:1035` says
  "Dispatch is at-least-once" (`DispatchAtLeastOnce` with `Lossy`).
* `:714` a settlement that throws ends the sweep for the services after it, and
  `:853` the services of a node that fell silent are charged until someone stops
  them. No document says otherwise.
* `:1229`: a service's second request for a node has the id of its first, whose
  completion marks the first, so the second is processed again after every
  timeout; `:670`: a request that failed for good leaves `capacityRequestedAt`,
  so nobody asks again; `:1217`: a node asked for by one service is taken by
  another that comes first. `RequestsEnd` is about services that asked once.
* `sharedNodeTransport.ts:703`: overlapping polls of MongoDB's outbox lease two
  commands; the test at `sharedNodeTransport.test.ts:263` asserts the contrary of
  the one in memory (`OneLease` without `sequential`).
* `sharedNodeTransport.ts:1035`: `claimNonce` over MongoDB updates without
  upsert, so it keeps no nonce, whereas the test of replay protection at
  `sharedNodeTransport.test.ts:188` uses the repository in memory. `ObeyedOnce`
  is checked where nonces are kept.
* `:1448`: a lost answer to a registration leaves the node without credential
  and without token.
* `sharedNodeProvisioner.ts:266`: drains take no claim. One that read the record
  before a request marked an attempt, and finds it incomplete, saves its copy
  over the mark (`:275`, `:760-764`), and the request, or the next one, asks for
  a second volume or VM, against `sharedNodeProvisioner.test.ts:373` "reconciled
  by deterministic label without a duplicate" (`NoDuplicates` without
  `forgotten`).
* `sharedWorldSeed.ts:274`, `:296`: a death while verifying leaves a seed
  "validating"; overlapping calls write back stale copies, and a death after the
  selection leaves the seed "valid".
* `sharedModdedRuntime.ts:718`: a death between the claim of a key and the import
  makes every repetition a conflict; `:761`: a provider that does not answer
  makes an import invalid for good; `:810`: overlapping completions write back
  stale copies.

*Content.* (`sharedModdedRuntime.ts`)

* `:984`: a second delivery may replace the binding of the first, against `:929`;
  `:1334`: what is published may never have been uploaded,
  against `:1036` (`PublishedIsStored` with `Redelivered`).
* `:889`: a submission that times out fails a deployment that is bound, against
  `:220` (`FailedIsUnbound`).
* `:1254`: rolling back to what runs stops the service for ever
  (`StopEnds` of `RuntimeSelection` with `Reselects`); `:1172` and `:1247`: the
  keys of a second advance and of a second stop are replays (`AdvanceSwitches`,
  `AwaitsAStop`).

*Hosted servers.*

* `serverControl.ts:640`: a late copy of a stop halts a server that was started
  again, against `serverControl.test.ts:374` (`StaleEventsIgnored`).
* `:1244`: a machine whose deletion has an unknown outcome takes the id of its
  snapshot with it, against `LOCAL_DEMO.md:70` (`WorldIsKept` with faults).
* `:999`: an operation that came out of order is reported as succeeded, against
  `serverControl.test.ts:550` (`SucceededMeansDone`).
* `deploymentTasks.ts:623`: a preview claims a deployment that another one, with
  another key, is previewing, and each freezes a manifest (`:662`) over what the
  other did: with two keys in `PreviewKeys`, which `OnePreview` forbids, TLC finds
  a manifest that is replaced after the owner saw it, and then a deployment
  called applied with a manifest that the machine was never switched to. The test
  at `deploymentTasks.test.ts:192` has one preview.
* `:692`: a server that stops between the claim and the check
  leaves the deployment "applying".
* `worker/service.ts:282`: an audit that is left pending makes every retry of
  its event a conflict; `workerRepository.ts:174`: overlapping reports move a
  cursor back.
* `operations.ts:313`: a death between record and audit leaves a request that
  is dispatched and never audited.

*Backups.* (`worldBackupService.ts`)

* `:421`: a parent is deleted while a layer of it is made, against
  `worldBackupService.test.ts:405` (`LayersKept` with two calls).
* `:193`: a retry that overlaps makes a second backup, against
  `LOCAL_DEMO.md:127` (`OnePerKey` with two calls).
* `:604`: a death between Billing and the outbox bills a time twice, against
  `:96` (`BilledOnce` with deaths); `:555`: two settlements from one cursor do.
* `:574`: an authorization is asked for after the settlement that needs it,
  against `worldBackupService.test.ts:495` (`DeleteEnds` without one that lasts).
* `:352`: calls save the backup they read, also after it was deleted.

*Accounts and sessions.*

* `session.ts:235`: two sign-ins lose a session id of the account, and a write of
  the whole document revives an account that was merged or is to be deleted.
* `account.ts:337`: a death after the claim binds an identity to an account that
  does not exist; a merge that ends half-way is not completed; no code assigns
  the status "deleted"; `consumeAuthorization` (`account.ts:200`) and
  `consumeLauncherTransaction` (`account.ts:232`) read, decide and then save.

*Edge.*

* `apps/signaling/room.ts:327` decides before it waits for the body who may close
  the room, against `multiplayer.ts:290` (`ClosedByMaster` with `SlowBodies`).
* `translationStore.ts:148` makes a failed job due at the next request, against
  `README.md:100` ("Failed jobs retry after one hour").
* `translationStore.ts:219` claims a row with the ETag it was listed with, and the
  list asks for `nometadata` (`:191`, `:501`), which has none, so that the merge
  is made with if-match "*" (`:334`) and writes the row back as it was listed:
  accesses that were recorded since are lost, a row that another sweep claimed
  is claimed again, its newer text replaced, and the older result may reach the
  edge last, against `README.md:125-127` "prevents an older Table snapshot from
  racing with and overwriting a newer scheduled result" (`EdgeNeverOlder`
  without `doubled`, `AccessesCounted` without `exposed`).
* `turnMetering.ts:149`, `:169` asks for the bytes of the minutes after the time of
  issue, so those of the minute of the issue are never charged; and for those
  before the issuance expires, whereas the provider counts the life of the
  credential from the call that makes it (`routes/rtc.ts:116-134`), which is
  later: what is relayed between the two ends is not charged either.
  `PrunedIsCharged` says which bytes are.
* `ai/service.ts:309`: a death after the claim leaves the key claimed. A key
  whose request failed at the provider is refused by Billing when it is retried,
  a usage beyond its authorization is "rejected" and yet answered, and requests
  whose clients chose one id leave an answer that is never given.
* `agnes.ts:155`: a later answer with a shorter wait shortens a cool-down.

## 9. What is not modelled, and what is assumed

* *Identity providers*: calls of OAuth providers and the checks of their
  answers. No state but the transactions named in section 8.
* *Upstream caches*: a read and a write of a cache that may lose either.
* *Proof of possession*: the models take a caller for who it says it is.
* *Legacy translation ledger*: no request reaches it.
* *Group realtime*: a socket per member in memory, and nothing else.
* *HTTP composition*, *local demo*, *scripts*: routing, validation and
  composition; the cron is the fairness of section 6.
* In the parts that are modelled in part, the note of the component in
  `PROJECT.json` says what is left out: mostly what documents contain, several
  servers, rows or nodes that share nothing, the grace for worlds that outgrow
  their plan and the creation of a service, which is one transaction.

Outside `src/`, or not decided there, and taken as follows:

* The compiler, authentication and the driver that executes the tasks of servers
  are external: they may do what `src/` lets them do.
* The stores of world backups, modpacks, worker sessions, operations of
  administrators and AI requests are those of the tests and the local demo: the
  repository has no others.
* A cron ends within 15 minutes (`SweepLimit`), in the part `edits` of the
  translation cache.
* A call waits for the lease of the billing store for less than a period of a
  subscription (`Wait`).
* A worker waits for an answer before it reports again in the same scope, and a
  node agent makes one call at a time, as the agents of the repository's
  protocol do; the parts `polls` and `forgetful` show what holds if not.
* The first hour of an assignment starts with the hour. A signing secret is
  retired when no token needs it any more.
