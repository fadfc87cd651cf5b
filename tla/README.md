# Verification of Graviton

TLA+ models, model-checking runs and machine-checked proofs for Graviton CDK.
The repository has two parts with a life of their own:

- the **Orbit Queue Framework** (`components/orbitcloud_graviton/ora_queue/source`),
  a change-data-capture system inside an Oracle database, written in PL/SQL, that
  publishes every change of registered tables to Azure Event Hubs and uploads its
  own log. It runs concurrently, retries, loses sessions and depends on remote
  services, and the repository's tests do not reach it;
- the **components and bases** (`components/orbitcloud_graviton/az_*`, `entra`,
  `pulumi*`, `bases/orbitcloud_graviton/*`), Pulumi programs in Python that declare
  Azure resources. What they declare is sequential and simple; what becomes of it is
  not: the engine provisions in parallel whatever is not made to wait, a call may
  fail half-way, the update is run again or the program edited first. The unit
  tests use mocks, which neither order nor refuse anything.

## The system

| Component | State it keeps | Operations | Hard behaviour |
|---|---|---|---|
| Registration (`az_change_notifications`: `register_table`, `change_registration`, `deregister_table`; APEX form) | `oqf_tables` (entry, regid), Oracle's change notification registrations | insert entry, drop old registrations, register, store regid, deregister, clean up | two administrators at a time; registrations take effect at once, entries at commit; empty tables raise half-way |
| Change capture (`cqn_callback`, `changed_rows`, `push_all_rows`, cursor of `enqueue_rowids`) | the rows of the tables, pending notifications, `s_az_send_op` | one callback per committed transaction; push of a whole table | callbacks overtake each other, read the rows later than the transaction, and race with an initial load |
| Batching (`enqueue_rowids`) | `l_json`, `l_rowcount`, the cursor | append a row, flush, last enqueue | limits in rows and bytes, off-by-one, abandoned operations |
| Queueing and sending (`enqueue`, `aq_callback`, `dequeue_and_send`, `az_event_hubs.send`) | `QUEUE_DML`: message states, retry counts, notifications | dequeue, authenticate, post, log, commit or roll back | several sessions, lost answers, retries, killed sessions |
| Token cache (`entraAuthenticationToken`) | `oqf_entra_tokens` | select, insert, request, parse, update | unserialised concurrent calls, expiry, two nested retry loops |
| Log pipeline (`orb_log`) | `oqf_logs`, its registrations, `QUEUE_LOGGER` | `log_action`, `callback`, `uploadrows`, `log_callback`, `register_log_cqn` | one transaction for many messages, feedback of the pipeline on itself, shutdowns |
| Strings (`createSharedAccessToken`, URLs, `append_row`, `generate_schema`) | none | formatting | none that a model would show |
| APEX application, installation scripts | the tables and queues | forms, one-shot DDL | calls of the packages only |
| Host and patching shell scripts (`cloud_init/templates/oracledb/scripts`) | files, Oracle homes, `/etc/oratab` | installation, patching, migration, reboot | interruption and re-run |
| Network components (`az_network`, `az_monitor`) | declarations; the state file and Azure, once deployed | networks, security groups and rules, firewalls, zones, resolvers, gateways, virtual WANs | positions in names and priorities, one write at a time on a firewall policy, zones declared twice |
| Data and service components (`az_storage`, `az_sql`, `az_mysql`, `az_postgres`, `az_keyvault`, `az_servicebus`, `az_eventhub`, `az_eventgrid`, `az_acr`, `az_ai`) | as above | servers, accounts, endpoints, rules, secrets | names told by strings, URNs that two instances share, validators |
| App and platform components (`az_app`, `az_appconfig`, `az_appservice`, `az_backup`, `az_compute`, `az_frontdoor`, `az_logic`) | as above | environments, apps, routes, domains, certificates, machines | `depends_on` of components, routes before origins, exceptions half-way |
| Identities (`entra`, `pulumi`) | as above | app registrations, credentials, roles, ESC environments | names of the app only, credentials per subject |
| Bases (`bases/orbitcloud_graviton/*`) | as above | one program each, composed of the components | optional parts, one list of secrets for all apps, outputs under one key |
| Deployment (`pulumi up`, external) | the state file, the status of the update | provision, delete, fail, retry, next program | every order the dependencies allow, failures, edits |

How they interact: a committed transaction on a registered table makes Oracle
call `cqn_callback`; it gathers rowids and calls `enqueue_rowids`, which draws a
send operation, reads the rows and commits messages to `QUEUE_DML`; the queue
calls `aq_callback` in another session, which sends each message with
`az_event_hubs.send`, authenticating with a shared signature or with the cached
Entra token of its credential; `send` and the token cache write log rows with
`orb_log.log_action` (an autonomous transaction), which notify `orb_log.callback`,
which enqueues in `QUEUE_LOGGER`, which calls `log_callback`, which uses the
token cache again. A base reads its configuration, asks for the stack (which declares
the resource group) and calls the components; each hands the `Output`s of what it
declared to the next, which makes them wait, or a plain name, which does not. The
engine takes it from there. `PROJECT.json` lists every component, also those left out.

## Modules

| Module | Models | Correspondence |
|---|---|---|
| `AtLeastOnce` | the promise made for an enqueued message | abstract specification: pending, sent or set aside, with failed attempts counted |
| `DmlQueue` | `QUEUE_DML`, `aq_callback`, `dequeue_and_send`, `send` | one action per statement with an effect outside the session: `Dequeue`, `Authenticate`, `Post…`, `Log…`, `Commit`, `RaiseSendError`; `Rollback` is what the queue does with the transaction of a raised exception |
| `Batching` | `enqueue_rowids` after its cursor is open | a row is a rowid and the length of its JSON text; `Full` is the test of the loop, `FlushAndCollect` and `CollectRow` its two branches |
| `EntraToken` | `entraAuthenticationToken` and its use by `send` | a token is the time it really expires; one action per statement that reads or writes the shared row, per request and per way it can end |
| `ChangeCapture` | `cqn_callback`, `changed_rows`, `push_all_rows`, the reads of `enqueue_rowids` | a row's contents are the number of the transaction that changed it last; `StartCallback`, `GatherRows`, `OpenCursor`, `FetchRow` are the four moments at which the code reads shared state |
| `Registration` | `register_table`, `change_registration`, `deregister_table`, entries added by the form | one action per statement with an effect others can see |
| `LogPipeline` | `orb_log` and `QUEUE_LOGGER` | as `DmlQueue`, with one transaction per callback and rows the pipeline logs about itself |
| `BatchDelivery` | the promise made for a log row | abstract specification: messages are announced, dropped or pending, and succeed or fail by the batch |
| `Pulumi` | the SDK as the components use it, the stack's resource group and exports | a program is a sequence of statements, each with its URN, what it waits for itself (`deps`), what it names (`uses`), what it takes that only one resource can have (`takes`); `Update` is what the engine gets of it: the goal, in which `waits` says what a resource waits for through whatever components lie between |
| `Deployment` | `pulumi up` | `Provision`, `ProvisionFails`, `Refuse`, `Delete`, `DeleteFails`, `Abort`, `Succeed`, `Retry`, `NextUpdate` |
| `ClosedStore` | what a deployment promises | abstract specification: put when all it depends on is there, drop when nothing depends on it |
| `AzNetwork`, `AzData`, `AzServices`, `AzApp`, `AzPlatform`, `Identity` | the components | one `…Program(c)` per component: the statements its constructor executes for the configuration `c`, in order, with the exceptions it raises; every resource has a definition of its own that says what it waits for |
| `NetworkBases`, `Bases` | the `deploy` functions of the bases | compositions of the programs above |

Every module that is a specification has an `MC…` module and one or more `.cfg`
files; `MCDeployments` instantiates `Deployment` with the programs.
The theorems about a module are in its `…Proofs` module: `DmlQueueProofs`,
`BatchingProofs`, `EntraTokenProofs`, `ChangeCaptureProofs`, `RegistrationProofs`,
`LogPipelineProofs` and `DeploymentProofs`; `ProgramProofs` is about what the programs
of the components and bases owe a deployment. In each module the
definitions marked "Mutant of" are plausible errors in the code; they are not
part of the specification and serve to show that each property can fail.

### How a program becomes a behaviour

A configuration is a record of the fields the component's control flow looks at; an
optional part is a Boolean, or a sequence of at most one. `X.urn` is the identity of
what `X` declares: two statements with one URN are refused by the engine, which is how
a component named after the stack instead of after itself fails on its second
instance. `Resource(parent, type, name, refs)` waits for its parent and for every
resource whose `Output` is an argument; `DependsOn` adds to what it waits for,
`Naming` to what its arguments name without waiting. The engine keeps the direct
dependencies of what exists in the state file, and deletes by them; while a program
runs, a resource waits for all that `waits` gives it. `Validated` is an exception
while the configuration is read, before the first statement; `Raise` one in the
middle of the program, after which the statements before it have been registered.
`ReadHere` is a base that reads its configuration only after it asked for the stack, so
that an exception of the configuration comes after the stack's statements.
A story is a sequence of updates: the programs an operator deploys one after the
other. In each, TLC tries every order of provisioning, a failing call at every
point, and the operator's choice to run the update again or go on to the next.

### What is assumed of Oracle and Azure

The code under `src/` relies on these, and the modules take them as given:

- a dequeued message is locked until its transaction ends; a rollback counts a
  retry and makes it ready again after `retry_delay`; more than `max_retries`
  rollbacks move it to the exception queue;
- a message that becomes ready notifies the registered callback once; a session
  that dies, or an instance that goes down, frees its messages without counting
  a retry and without a new notification;
- the transaction of a queue callback that returns normally is committed
  (`log_callback` has no commit of its own);
- a table of a notification comes without rowids (`ALL_ROWS`) when there are more
  than the threshold, and may do so when memory is short;
- a change notification goes to its callback once, at most `MaxLag` after the
  commit; one whose callback raises is not repeated;
- a function called in a query reads in a snapshot of its own, and its
  `no_data_found` is a null in the query;
- registering and deregistering take effect at once, whatever becomes of the
  transaction. Whether an open registration survives the `no_data_found` of its
  query is not documented, so it may or may not;
- a POST that raises may or may not have been received;
- the engine provisions a resource when all that it waits for is as declared,
  several at once, and deletes last, dependents first: what it deletes depends directly,
  by the state file, on what it must outlive, so of two condemned resources linked only
  through a third that has gone, either may go first, or both at once; a program that
  raises deletes nothing; `depends_on` of a component stands for the resources that belong to it,
  and not for the children of those resources;
- a child waits for its parent's URN, which a resource has when it is provisioned
  and a component at once;
- Azure refuses a second resource with a name, or a rule with a priority, that is
  taken. A replacement is an update in place: where it would delete first is not
  told apart.

## Runs

| Run | Instance | Shows |
|---|---|---|
| `dml_queue` | 2 messages, 2 sessions, 2 retries, 1 kill | exclusive work on a message (`Exclusive`), no loss (`NoLoss`), duplicates only at the price of a counted retry or a kill (`DuplicateBound`), the log (`SentIsLogged`: the row of the attempt that sent it says so), no stranded message (`NoStranded`), the refinement of `AtLeastOnce`, and that every message is settled unless a session was killed |
| `batching` | every cursor of up to 7 rows of 3 lengths, limit 3 rows and 20 bytes | `RowLimit`, `SizeLimit`, `RowsConserved`, `AllPublished`, `EmptyOnlyFirst` |
| `change_capture` | 2 transactions, 3 rows, 2 tables | `LatestBySendOperation`: a consumer going by send operation ends with the current contents; `NeverOlderThanTransaction` |
| `initial_load` | 2 transactions, 2 rows, one push, 1 callback or push that raises | `InitialLoadComplete`: after a push and the callbacks it raced with, every row of the table is published with its current contents last |
| `deletes` | 1 transaction | **violated**: the `Delete` operation the code lists is never published |
| `registration` | 2 administrators, 2 tables, 3 registrations | `RegisteredIsCaptured`: after a registration that did not overlap another about its table, exactly one registration, the one named by the entry; `RegidIsOwn` |
| `registration_owners` | one table name in two schemas | **violated**: `RegidIsOwn` |
| `entra_token` | 2 messages, 2 attempts, 1 retry, clock up to 3 | `CacheConsistent`, `TokenFresh`, `RequestBound`, `InsertRaceOnce` (whatever else fails, a message loses the race for the first row once at most), and that every message is settled |
| `log_pipeline` | 2 sessions, 3 rows, 2 failures, 1 refresh, 1 shutdown | `PostBound`, `ErrorsArePaid` (with the one error a session that a shutdown ends may leave unpaid), `LockedInTransaction`, the refinement of `BatchDelivery` (which forgets only what was posted: `NothingUnposted`), and that every row the pipeline is notified of leaves it, its own rows included, unless a shutdown loses its notification |
| `deployments` | 42 stories (13 of networks, 9 of data, 7 of platform components, 13 of bases), 1 failing call | `NoDangling`: nothing exists without what its arguments name; `OnePutAtATime`: of the resources under one lock, no two are created or updated at once; `OutputsKept`; `Implements`: a refinement of `ClosedStore`; `Converges`: the stack ends as its last program declares it, also where the first program raised half-way |
| `env_storage` | an environment that mounts one share | **violated**: `NoDangling`, the storage definition does not wait for the share it names |
| `managed_storages` | an environment with two managed storages | **violated**: `DeploysAsConfigured`, two accounts have one URN |

Why the bounds are enough. Two sessions, two calls, two callbacks or two
administrators give every interleaving of a pair, and the shared state they meet
in (the queue, the cached row, the sequence, an entry) is compared pairwise. Two
retries take a message through first attempt, repetition and exception queue.
Seven rows with a limit of three fill one message, start a second with the
counter off by one, and fill that; the three lengths fit, fill and exceed the size
limit. A threshold of one rowid lets a transaction of two rows be announced as
`ALL_ROWS`, and the transactions in `RollUps` may be announced so with fewer; the
window (2), lag (1) and age (1) reach the boundary
`MaxLag + MaxAge = Window` that `LatestBySendOperation` asks for. One transaction
more than a callback needs lets it be overtaken. In `deployments` every base and every
component is deployed by some story, the resources that do not wait for each other
are few, so that all their orders are tried, and stories of two or three updates add,
edit and take away parts (`groups` and `ungrouped` edit a firewall's rule
collection groups), and several stories begin with a program that raises half-way and go
on to one that does not; one failure at every point is enough to reach every state
between two calls, and `DeploymentProofs` covers any number of them. Where a theorem below states
the property, its bounds do not matter at all. Every bound (`MaxKills`,
`MaxTxns`, `RollUps`, `MaxRaises`, `MaxTime`, `MaxRegs`, `MaxOutside`, `MaxFailures`,
`MaxRefreshes`, `MaxShutdowns`, `MaxRows` of the log) is a guard of the one
action that would exceed it. Deadlock is not checked: each system comes to rest
when the last update has succeeded, when the bounded inputs are used up, or when nothing is left to send.

Fairness. `DmlQueue`, `EntraToken` and `LogPipeline` assume that a session that
has begun a call runs on (it is a database process, and every remote call has a
timeout), that a retry delay ends, and that the database runs the callbacks it
has been notified of. Nothing is assumed of the remote services: they may refuse
every request, and a message is then set aside. The failures of log callbacks are
bounded; without a bound an endpoint that fails for ever would log for ever, each
error about another message. `Deployment` assumes that the engine starts everything
that is ready at once: a resource that is ready whenever an update runs is
provisioned in one of them, although another call may fail first each time (strong
fairness of `Provision`); that a failed update is run again, and that an operator who
could go on to the next program for ever does so (strong fairness of `NextUpdate`).
The number of failing calls is bounded by `MaxFailures`.

`LatestBySendOperation` and `InitialLoadComplete` assume that lag and age of a
change together do not exceed the five-minute window, and except the rows of
notifications whose callback raised: those are lost, and nothing in the code
repeats them. `RegisteredIsCaptured` excepts overlapping calls about one table. The
properties of `deployments` hold for the programs of its stories; the configurations
known to break them are the findings below, each with the definition that models the
line: two apps or disks (one output), two apps with a registry (one list of secrets), a
share mounted by an environment, two managed storages. Programs that raise half-way do
not break them: a landing zone without a key vault and with a certificate, a storage account
with a private endpoint or with a user of a container it lacks, a private NS record, a WAF policy
without domains, an app's domain outside its zone and routes without apps
leave behind what they had declared by then, and `NoDangling`, `Implements` and
`Converges` say that nothing of it dangles and the corrected program removes or adopts it.

`OnePutAtATime` says nothing of deletions, because the code does not order them: the chain of
`firewall.py:467` links each rule collection group to the one before, so when an edit
takes away two groups that are not neighbours, or the ones between have gone already,
nothing keeps the engine from deleting them at once. The stories contain such edits, for
the other properties.

## Findings

Shown by a run:

1. `az_change_notifications.pkb:361`: deletions are never published (`deletes`).
2. `az_change_notifications.pkb:499`: the regid is stored without the owner (`registration_owners`).
3. `containerapp_env.py:357`: `depends_on=[sa]` does not wait for the share (`env_storage`).
4. `storage_account.py:112`: the second managed storage has the URN of the first (`managed_storages`).

Met while modelling:

5. `az_change_notifications.pkb:394`: the array can be empty at the last enqueue.
6. `az_event_hubs.pkb:208`: 20 token requests, not 15, and a delay of 10 seconds, not 5.
7. `az_change_notifications.pkb:669`: the handler for an undefined table is never reached; deregistering one raises.
8. `02_migrate_db.sh:65` uses `$SID` and `$NEW`, which nothing sets.
9. `az_lib/meta.py:41`: names are not truncated to `max_length`.
10. `_hubspoke_base.py:131`: `skip_exports` is set where nothing reads it; several zones overwrite each other's outputs.
11. `_landing_zone.py:93`: `kv` is unbound without a key vault.
12. `container_app.py:482`: every app exports under one key.
13. `app_workload_base.py:168`: one list of secrets for all apps.
14. `appservice_suite_base.py:26`: the suite's configuration lacks what its plan reads.
15. `oidc_providers.py:158`: the check is "at least one", its message "one and only one".
16. `storage_account.py:222`: private endpoints are given a class.

## Proofs

All theorems are proved from the named assumption on the module's constants
(`QueueAssumption`, `BatchingAssumption`, `TokenAssumption`, `CaptureAssumption`,
`RegistrationAssumption`, `LogAssumption`, and `UpdatesAssumption`, `StoriesAssumption`, `MaxFailuresAssumption`), for every value
that meets it: any number of messages, sessions, tables, rows and transactions, any
limits, any cursor, any clock. The argument about a behaviour is always an inductive invariant.

- `DmlQueueProofs`: `TypeCorrect`, `ExclusiveHolds`, `NoLossHolds`,
  `DuplicateBoundHolds`, `SentIsLoggedHolds`, `NoStrandedHolds` and `Implementation`.
  `Inv` adds to the properties
  `SessionInv` (a session holds a message exactly between `Dequeue` and the end of
  its transaction, and knows an answer only after the POST), `RetryInv` (a message
  that is not set aside has a retry left; without it `retry_count` could leave its
  type) and `AcceptedInv` (an answer "ok" is an acceptance; without it `Commit`
  would not keep `NoLoss`). `DupInv` sharpens `DuplicateBound`: as long as no
  attempt in progress has been accepted, the bound is one lower. `LoggedInv` says that an
  attempt about to be committed has written its own row, with the answer it was
  given; a row of an earlier attempt would not do. `NoStranded` counts:
  each step that makes a message ready or held adds as much to the notifications, the
  running sessions or the kills. The sessions may be infinitely many, so `PaidInv` also
  says that those running are finite: a session begins on a notification, one at a
  time. The refinement maps each action to a step of `AtLeastOnce` or a stutter, using
  `Inv`.
- `BatchingProofs`: `TypeCorrect`, `RowLimitHolds`, `SizeLimitHolds`,
  `EmptyOnlyFirstHolds`, `RowsConservedHolds`, `AllPublishedHolds`. `LimitInv`
  relates the counter to the array: it stays below `max_rows`, and the array has
  at most one row more than it says, the row the last flush left there; that is
  why the limit holds although the counter restarts at 0. `EmptyInv` says that
  after a flush the array is never empty.
- `EntraTokenProofs`: `TypeCorrect`, `CacheConsistentHolds`, `TokenFreshHolds`,
  `RequestBoundHolds`, `InsertRaceOnceHolds`. `TokenInv` carries the time an
  answer has travelled through the call (`CallInv`), `CountInv` the attempts and
  failures at each statement. `InsertRaceOnce` counts lost races and not failures, since a call may
  also raise before it reads the row (the lookup of the credential, the rest of `send`) or
  where it stores a token; `RaceInv` says that while the row is missing no call has got
  further than its insert, and that a call at its insert has not lost a race before: once
  the row is there it stays, and nobody comes to the insert again.
- `ChangeCaptureProofs`: `TypeCorrect`, `NeverOlderThanTransactionHolds`,
  `LatestBySendOperationHolds`, `InitialLoadCompleteHolds`. `SinceInv` is the reason
  for the first: a row that a notification names, or a callback has gathered for an
  operation of its transaction, has been changed by that transaction or since.
  `ChangedInv` is the heart of the others. For every existing row, the transaction
  that changed it last is still `Coming` (its notification has the row ahead, in time
  for the window, or its callback has gathered it and not read it, with a send
  operation, if drawn, that no entry of the row exceeds) or the consumer has the row.
  Callbacks of earlier transactions may publish in between; what they read by then
  is the current row as well. It needs `WindowSuffices`, the hypothesis that the
  properties themselves have. `PushedInv` says the same of the rows of a pushed table
  that no transaction has changed, and needs no window.
- `RegistrationProofs`: `TypeCorrect` for all tables, and `RegisteredIsCapturedHolds`
  and `RegidIsOwnHolds` under the hypothesis `DistinctNames`, that no two tables have one
  name. The code needs it: the run `registration_owners` violates `RegidIsOwn`
  without. `OwnInv` says that whoever takes an id for that of a table's registration is
  right (the registration itself, a call between registering and storing the id, the
  stored id, an id read for a deregistration), and that the id has been handed out, so that the
  next one is new. `OverlapInv` says that two calls about one table know of each
  other, and `WorkInv` that a call nobody has overlapped still has the entry it found,
  no registration before it makes its own, and exactly that one afterwards.
- `LogPipelineProofs`: `TypeCorrect`, `NothingUnpostedHolds`,
  `LockedInTransactionHolds`, `PostBoundHolds`, `ErrorsArePaidHolds`, `Implementation`.
  What is hard is that a transaction holds several messages. `PostedInv` says that all of
  them have been posted but the one `AtHand`; hence what the commit forgets, it has
  posted. `FreshInv` says that a row nobody has logged is in no message, so what a callback
  logs is never a message it holds. `DupInv` sharpens `PostBound` as in `DmlQueueProofs`. The error row of
  a failed authentication is committed in a step of its own, before the exception, so
  `ErrorsArePaid` compares the error rows with the set `Retries` of the retries counted
  *and* the callbacks `Raising` that have not raised yet; the rollback of one of those takes it
  from `Raising` and adds at least one retry, that of the message at hand. A shutdown empties
  `Raising` without a retry, which is why it pays for at most `Session` many. The
  refinement of `BatchDelivery` follows from the same invariant: messages are forgotten by the
  transaction, all of them posted, and fail by the transaction, each at the cost of an
  attempt; the rows logged meanwhile have been announced as new before.
- `DeploymentProofs`: `TypeCorrect`, `ClosedHolds`, `Implementation`,
  `NoDanglingHolds`, `OnePutAtATimeHolds`, `SettledHolds`, for
  every sequence of programs and any number of failures. `Inv` is `TypeOK` and
  `Closed` (what exists has all that it waits for); the lemma `StaleIsFree` says that
  when nothing is pending, nothing that is declared waits for what is stale, so that
  a deletion in the order of `Deletable` keeps `Closed`. That the programs are well
  formed is the assumption; two theorems take one more as a hypothesis, which is
  the condition the Python code has to meet: `Declared` (a statement waits for all it
  names) and `Chained` (of two statements with one lock one waits for the other, directly
  or through others).
- `ProgramProofs` discharges those hypotheses for the programs, whatever the
  configuration: lists of any length, any names, every option. `UrnsDiffer` and
  `ProgramsFit` show that what `Deployment` assumes of its updates holds of any program
  whose statements wait for earlier ones; `FirewallFits` applies it to a firewall.
  `WaitingNeverDangles` and `SerialPutsInTurn` bring `Declared` and `Chained` down to
  single statements: what a statement waits for is what it names, through whatever
  components lie between (`Waits`), and the writes to one object stand at the end of the
  program, each after the one before. `FirewallPutsInTurn` and `StacksNeverDangle`
  then go through the definitions, one lemma per component (`PlainVnet`,
  `PlainStorage`, ...): every base, and every component that no base declares, in any
  story of edits and failures. Left out is exactly what names a resource by a
  string without waiting for it: Service Bus queues that forward, environments that mount
  a share (finding 3), a landing zone's ACME certificate. `StacksKeepOutputs` is
  `OutputsKept` for every base: `Once(p, K)` says that a program exports keys of `K`
  only and each once, and programs with disjoint keys can be put together. Its
  hypotheses say which configurations have a key for each output; what has one key
  however many there are is allowed once: an app (finding 12), a public zone of a hub, a
  private endpoint of a stack (`private_endpoint.py:130` exports under one key whatever it
  is the endpoint of), a data disk, a SQL database (that of the job agent counts), a
  custom domain, a database server or storage account of an app zone or data zone. `ZonesShareAKey` shows the hypothesis about hubs to be sharp: every
  hub with two public zones or more loses an output (finding 10). The configurations of
  the run `deployments` meet the hypotheses, so they are not empty.

Induction over the data of these programs (a list folded by `FlattenSeq`, what a
statement waits for as a recursive function) does not use the library's induction
theorems, which take an operator as a parameter. `ProgramProofs` derives the
principle from the well-foundedness of `<` for *sets* of naturals (`LeastNatural`,
`Induction`), and a proof names the set of the lengths for which its claim holds.

Model-checked only: liveness under fairness (`EventuallySettled` of three modules,
`Converges`) and everything that speaks of `ENABLED`, for which TLAPS has no rules.
For configurations outside the hypotheses of
`StacksNeverDangle` and `StacksKeepOutputs`, and for the outputs of a component in a
stack of its own, the runs evaluate the stories they have. The project has no `RECURSIVE` operator: the SMT
backend cannot be used beside one.

## Not modelled

- Of the Orbit Queue Framework: `sql_filter` (taken to accept every row), the
  formatting of rows, signatures and URLs; the parameters of an entry in `oqf_tables`;
  the column list; the APEX pages beyond their calls; the installation. The
  null-payload branch of `send` is unreachable from `enqueue_rowids`.
- Of the components: arguments that nothing waits for and no refusal depends on (SKUs,
  sizes, tags, probes, scaling rules, ingress, addresses, retention), and the validators
  of single values; the names themselves (`az_lib`: naming, metadata, locations are
  functions of strings), which are taken to be different where their parts are; the
  lookup of role definitions in `az_iam`, a query of Azure. Rules of one security
  group are modelled in one direction.
- What Azure does with an edit that moves a rule or a route to another position while
  its name stays: the URN changes and the name does not, and the answer of Azure to
  the second declaration of a name is left out of the stories.
- The shell scripts of the database host: they are run once, by hand, and every step
  is a command of the operating system or of Oracle's installer. Their hazard is
  listed in `PROJECT.json`.
- `pulumi_jinja`, `pulumi_mocks`, `cloud_init`, the drift detection, the development
  stacks: no state of their own. `PROJECT.json` gives the reason for each.

## Plan

1. Done: the Orbit Queue Framework (`DmlQueue` with `AtLeastOnce`, `Batching`,
   `EntraToken`, `ChangeCapture`, `Registration`, `LogPipeline` with `BatchDelivery`) and
   the components and bases (`Pulumi`, `Deployment` with `ClosedStore`, the programs).
2. Done: proofs of every invariant and refinement the runs check.
3. Composition: `ChangeCapture` with the queue of `DmlQueue` and a consumer that applies
   messages in any order, implementing "the consumer converges to the table", and the
   lemmas `ChangedInv` rests on as the lemmas of that refinement.
4. Done for `Declared` and `Chained`: the hypotheses of `DeploymentProofs` as lemmas about
   the programs, for every configuration (`ProgramProofs`).
