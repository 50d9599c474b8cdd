# Verification of NewIM

TLA+ models of the NewIM server (Go, PostgreSQL) and of its SDK core (Rust,
SQLite), TLC configurations that check them on small instances, and TLAPS proofs
for every instance. Paths below are relative to the repository; `PROJECT.json` maps
every definition to the lines it stands for and lists the hazards each property is
aimed at.

    tlc -workers 2 -config MCWebhookDelivery.cfg MCWebhookDelivery
    tlapm WebhookDeliveryProofs.tla

## The system and its parts

A client's SDK queues a message in an **outbox** inside its **local store**, sends it
to the server, and retries until the server acknowledges it. The server authenticates
the bearer (**auth sessions**), checks an attached **media** asset, and stores the
message in one **send transaction**, which also writes an outbox event. The **webhook
worker** fans these events out to endpoints and delivers them at least once. Other
devices learn of changes through **conversation sync** (paged snapshots and deltas of a
projection) and read messages with the **message delta**. The **HTTP service** carries
the routes; the **identity guard** stops a process whose database was exchanged.

| Part | State | Operations | What is hard | Module |
|---|---|---|---|---|
| Webhook delivery | delivery rows, leases, advisory lock, each worker's jobs | claim, begin attempt, post, finish, defer, cancel, requeue | overlapping workers, stale owners, crash between commit and request | `WebhookDelivery`, `AtLeastOnceDelivery` |
| Webhook fan-out | events, endpoints, rows, open transactions, pause flag | count, pause, fan out page by page, register, rotate, revoke | counts that are stale when used, queue bounds, partial pages | `WebhookFanout` |
| SDK outbox | pending records, messages, revision, generation, what each task holds | enqueue, dispatch, transmit, fail, resolve, rebind, resume, remove, advance generation, reopen | tasks between read and write, unknown commits, late answers, clock set back | `OutboxRecord`, `SdkOutbox` |
| Message route and send transaction | message rows, sequences, events, members, locks, open transactions | turn away, authorize, look up, allocate, insert, compare, commit, fail | READ COMMITTED races, unique-index waits, commit of unknown outcome | `MessageSend`, `MessageLog` |
| Store open and recovery | active directory, quarantines, two marker files, databases | open, quarantine, rebuild, close | a kill between any two file operations | `StoreRecovery` |
| Conversation sync | projection, floor, epoch, the client's view and cursor | batch, bypassing writes, bootstrap pages, delta pages, floor and epoch changes | writes between the pages of a round, scan budgets, cursor lifetimes | `ConversationSync` |
| Auth sessions, bearer routes | session and token rows, open transactions | issue, authenticate, revoke session, token, bearer | checks that are stale at commit, clock read before a wait | `AuthSession` |
| Media | asset rows, object directory, synced entries, open calls | begin, complete, resolve, validate | two stores without a common transaction, power loss | `MediaUpload` |
| Message delta read | the client's position | read after a sequence | head, pointer and rows must agree while sends commit, roll back or stay unknown | `MessageRead` |
| HTTP service, process lifecycle | listeners, readiness, handlers, pools, the coordinator's locals, exit code | open, ping, bind, serve, drain, return, close in order, join, exit | four causes of a shutdown in any order, handlers that hang, a trip at the last moment | `ServiceLifecycle` |
| Identity guard | baseline, tripped flag, verifications under way | verify, trip, hand out, give back | concurrent verifications, transient errors, stale answers | `IdentityGuard` |
| Protocol codecs, facades, metrics, configuration, build tooling | none | conversions | no behaviour over time | not modelled |

How the modules fit together. `WebhookFanout` creates the rows `WebhookDelivery` starts
from, and its fairness assumption that open rows settle is `EventuallySettled` of
`WebhookDelivery`. `SdkOutbox` extends `OutboxRecord`, whose operators are the plans of a
single record. What `SdkOutbox` assumes of the server, that an intent may be persisted any
number of steps after it was transmitted and that all answers for it agree, is what
`MessageLog` promises and `MessageSend` implements. `MessageRead` extends `MessageSend`: its clients read the tables that the
open transactions are writing. `MessageSend.events` are the events of `WebhookFanout.Publish`. `MediaUpload` takes the revocations of `AuthSession` as an
environment that locks the session row. `ServiceLifecycle` extends `IdentityGuard`: its
requests take their connections through the guard, and every step of the process is a step of
the guard or leaves it alone (`ProcessGuarded`).

## Modelling conventions

- **Transactions.** Where others can commit between two statements, each statement is an
  action (`MessageSend`, `AuthSession`, `MediaUpload`, `WebhookFanout.FanEvent`); a
  statement's snapshot is taken when it starts. Row locks are explicit or derived from
  where the holders are. Where a lock, a single SQLite connection or REPEATABLE READ keeps
  others out, the transaction is one action, and the module's header says why.
- **Commits of unknown outcome.** The caller gets its error, the transaction still holds
  its locks, and it takes effect or not later (`CommitUnknown` and what follows it).
- **Crashes, kills, failed I/O** draw on a budget `MaxFaults`; nothing else is counted by it.
- **Time.** `WebhookDelivery` counts leases and waits down, which keeps its state finite
  without bounding time. The other modules have a clock bounded by `MaxTime` or `MaxWord`.
- **Random values** (lease tokens, ids) are drawn from a small set. Values the code can tell
  apart from all earlier ones are fresh; ids may collide where the code handles collisions.
- A definition introduced with *Mutant* in its comment is a plausible bug. It is used by no
  specification; it serves to show that a property would notice.

## Modules and the code they model

**WebhookDelivery** (`server/webhook/worker.go`, `server/storage/webhook/repository.go`).
`row` is `im_webhook_deliveries`; `job` is what a cycle of `Worker.Run` has claimed. One
action per repository call (`Claim`, `BeginAttempt`, `Finish`, `Defer`, `CancelRevoked`),
each one transaction which may fail before or after its commit, and per step of the worker
between them. The advisory lock is polled, so `LoseLock` lets two workers overlap.
`posts`, `accepted` and `rejected` record what the receiver saw.
**AtLeastOnceDelivery** is the promise: attempts are granted before they are used, an
outcome is settled once and for a reason. The mapping reads `granted` from `attempts` and
`outcome` from the terminal statuses.

**WebhookFanout** models `Repository.Fanout` statement by statement, with the pause of
`Worker.cycle`. `txn` holds what is not committed.

**OutboxRecord** has the pure plans of `sdk/core/src/outbox/mod.rs` (`DispatchPlan`,
`FailurePlan`, `RebindPlan`, `ResumePlan`) with the checked additions of a clock that ends at
`MaxWord`, and `ValidRecord`, the check of `envelope.rs`. **SdkOutbox** puts them over
the store of `sdk/storage/sqlite/src/operations.rs`: tasks read the revision, then the row,
and write with both; `gen` is on disk and `fence` in memory; the network repeats, delays and
loses. `posts`, `spent`, `life` and `ended` are histories.

**MessageSend** models the route of `server/messagehttp`, `Service.Send`,
`Repository.Persist` and the SQL function `persist_message`. The checks before `Send` are one
action (`TurnAway`), and `answer` is the public code the route gives. `messages`, `lastSeq`, `latest` and `events` are the committed tables;
a request's own writes are `row` and `inserted`. **MessageLog** is the promise: one gapless
log per conversation, one message per sender and client id, acknowledgements that name a
message of the log. **MessageRead** adds `Service.ReadAfterSeq` with the checks and the page of
`server/storage/messagesync`, and clients that page through a conversation; a read is one
action, because all of its statements see one REPEATABLE READ snapshot.

**StoreRecovery** models `SqliteStore::open`, `quarantine` and `rebuild` one file operation
per action. `cut` remembers an interrupted quarantine.

**ConversationSync** models one account: `changes` is the journal, `PagesOf` are the pages
the server may return for a cursor (`read.go` and the assembly in `service.go`), and the client
is the reference consumer of `specs/sync`. Cursors are what they say; their bytes and
authentication are left out.

**AuthSession** models the three transactions that lock a session row FOR UPDATE or FOR
SHARE and then a token row, and the statuses of `server/auth/bearerhttp`. Token locks are
left out because only a holder of the session's lock, in the same mode, takes them.

**MediaUpload** models the service, the rows and `localfs`. `entries` is the directory as
processes see it, `synced` what a power loss cannot take. `authorizeTx` is two actions,
because its statement evaluates the token and the membership before it waits for the session
row, and only tests the session again afterwards. A failed step answers
`MEDIA_STORAGE_UNAVAILABLE`, except that `verifyExisting` answers `MEDIA_CONFLICT` when it
cannot stat or read the stored object (`FailureCodes`); a client cannot tell such a failure from
an object of other content. No document says what this failure should answer, so it is not
listed as a difference below. `failed` is a history: it remembers that a step of the call failed.
A sync that the file system does not support, which `syncRoot` lets pass, is taken to make the
directory durable.

**IdentityGuard** models `Guard.verify` of `server/storage/postgresidentity`: `Begin` asks the
database, `Judge` takes the mutex and compares, `Release` gives the connection back. Between
the first two the database may change, another verification may set the baseline or trip. An
answer is an incarnation, `Unfit` (a replica, a malformed identity), or nothing, when the query
fails for a transient reason. **ServiceLifecycle** models one run of `cmd/newim-server`: `main` is where `run` is,
`http` and `serve` are `Server.Run` and its listeners, `worker` is the webhook runtime, `join`
the locals of `joinRuntimeServerAndFatal`, `pool` the pools that `orderedCloser` closes.
The cases of the coordinator's select are functions of its locals (`OnShutdown`, `OnServer`,
`OnWorker`, `OnDeadline`), as they are closures over them in the code. A timer may fire at any
moment after it was armed. Handlers may hang, which is why pools may never close.

## What is checked

Every run uses the specification named in its `.cfg`; symmetry is used only in runs without
liveness. Deadlock is checked everywhere except in `send_transactions`, where each request is
made once and the system ends, and in `service_lifecycle`, where the process exits.

| Run | Specification, instance | Properties | Result |
|---|---|---|---|
| `webhook_delivery` | LiveSpec; 2 workers, 1 delivery, 2 attempts, 1 fault | `SingleFlight` `AttemptBudget` `DeadLetterJustified` `StaleOwnerHarmless` `ImplementsPromise` `EventuallySettled` | hold |
| `webhook_fanout` | LiveSpec; 2 workers, 2 events, 2 endpoints, queues of one row | `FanoutInv` `NobodySkipped` `FrozenFromCurrent` `EventuallyFannedOut` | hold |
| `outbox_tasks` | Spec; 2 tasks, a client id used twice | `OutboxInv` `NothingLost` `NeverResent` | hold |
| `outbox_generations` | LiveSpec; 1 task, 2 store and 2 connection generations, 2 faults | `PlansEncode` `GenerationFenced` `FailureAttributed` `EventuallySettled` | hold |
| `send_transactions` | ReadSpec; 3 requests, 2 client ids, 2 conversations and a missing one | `LedgerInv` `AnswersTrue` `NoWaitCycle` `MemberAtCommit` `CommitNeverDenied` `LogImplemented` `ReaderInv` | hold |
| `store_recovery` | LiveSpec; 2 accounts, 2 quarantine names, 3 faults | `DirectoryInv` `ReplacementInv` `RecoveryCompletes` | hold |
| `quarantine_resume` | Spec; 1 kill | `InterruptedQuarantineResumes` | **violated** |
| `conversation_sync` | LiveSpec; 2 conversations, 3 revisions, 2 epochs, pages of 1 or 2, cursors that expire | `CheckpointComplete` `RoundInv` `NothingAfterRemoval` `EventuallyInSync` | hold |
| `auth_sessions` | Spec; 2 callers, 2 sessions, 2 tokens | `RevocationInv` `NeverOvertaken` | hold |
| `auth_revocation_clock` | Spec; the same without faults | `ActiveTargetRevoked` | **violated** |
| `media_uploads` | Spec; 2 callers, 1 key, 2 identities, 2 contents | `MediaInv` `SessionLiveAtCommit` | hold |
| `service_lifecycle` | LiveSpec; 2 requests, 2 database incarnations, 3 configurations | `GuardInv` `ShutdownInv` `TripFinal` `ExitHonest` `EventuallyExits` | hold |

An invariant named after its module's subject is a conjunction of named parts, each with its
own comment: `OutboxInv` contains `SendPaid`, `AnswersTrue` is `AckDurable` and
`ConflictJustified`, `ReplacementInv` is `ReplacementFlagged` and `AccountBound`,
`RevocationInv` contains `LogoutConverges`, `MediaInv` contains `RightContentAccepted`,
`ShutdownInv` is `DrainBeforeClose`, `CloseOrder` and `ReadyServes`.

What the runs are for:

- *webhook_delivery*: a second worker never posts while the first may still be posting,
  although nothing but the lease margin separates them; a crash never buys an extra request;
  every row settles.
- *webhook_fanout*: limits checked against counts that others may change still bound the
  queues; an event is fanned out whole; the revision in a row is the one that is current when
  the row appears; pauses and full queues only delay.
- *outbox_tasks*, *outbox_generations*: the compare-and-swap on the revision is enough for
  tasks that read in two calls; nothing is sent that is not paid for on disk; a row disappears
  only with its message stored or by explicit removal; no reachable record, at any clock value,
  plans a successor that the envelope check refuses.
- *send_transactions*: racing transactions implement the abstract log; an answer that stops
  the client's retries is never wrong; no waits form a cycle; a client that pages through a
  conversation meanwhile skips no message and is never refused for what a send left half done.
- *store_recovery*: no kill makes a later call overwrite evidence, change the account, or
  present a replacement as the original.
- *conversation_sync*: a checkpoint means the complete view at its fence, whatever was
  written between pages; a page never hands out what the user may no longer see; a client that
  follows its cursors gets to the head.
- *auth_sessions*: a revoked session has no live token; an authentication answered after a
  revocation does not rely on what it read before; a log-out that is repeated after any lost
  answer ends in 204 or 503, never in 401.
- *media_uploads*: a ready row implies an object that no power loss can take, although a
  racing upload may have linked it; a right upload is never refused because of an earlier or
  racing one, but only for a lost right, an expired grant or a failure of its own; nothing is
  committed for a session that is already revoked.
- *service_lifecycle*: a process serves from one incarnation of its database; a signal, a lost
  lock, a failed listener and a tripped guard, in any order, close no pool under a running
  handler unless the drain timed out; success is reported only when everything ended well, and
  a trip is reported even if it came with the last event; the process ends although requests
  hang.

### Why the bounds are enough

The properties are about pairs of actors on one object, so two workers, tasks or callers on
one or two rows reach each pairwise interleaving; calls can be repeated, so sequences are not
cut short. Three requests are used in `send_transactions` because a wait chain and an
unknown commit each take one. Queues have room for one row, budgets are two, so limit,
limit plus one, and exhaustion occur. The outbox clock ends at 3 with a retry age of 2, so
additions overflow. `LeaseTTL` 4 against `RequestTimeout` 2 is the smallest lease that
`Config.Validate` accepts and that leaves a wait before expiry. In `webhook_delivery` one
fault (a crash, a failed or an unknown commit) meets every interleaving of the two workers;
two faults were checked without liveness. In `conversation_sync` a scan budget of one and pages of one give rounds of several pages, cut
by the budget, by the limit and by the size, and a cursor outlives its checkpoint or not.
In `media_uploads` one key is enough for collisions (it is taken or free), and the token of
one identity expires while that of the other outlives the clock. In `service_lifecycle` there
is one connection for each pool, the database changes once (`DatabaseChanges`), and it starts as
one of two interchangeable incarnations or unfit (`Start`); the three configurations are
everything, sessions alone and the bare health service.

Some cases lie beyond these instances and are covered by the theorems alone: an event
whose rows overshoot the high-water mark, or that finds room at some of its endpoints and not at
others (`QueuesBounded`, `NobodyIsSkipped`); a rotation from one revision to a later one during a fan-out
(`FrozenIsCurrent`); a conversation whose sequences are used up (`LedgerHolds`); a byte limit that
cuts a bootstrap page (`CheckpointIsComplete`). `outbox_tasks` has one store generation, so its fence
is never stale; `outbox_generations` is the run about stale fences.

### Fairness

- `WebhookDelivery`: weak fairness of the clock, the restart of a stopped worker, the lock
  poll, the loop of `Run` and of each goroutine step. Strong fairness where the code gives a
  chance repeatedly: `Claim` takes due rows in order of `next_attempt_at`, the limiter refills,
  a goroutine is not late for its lease each time.
- `WebhookFanout`: the loop goes on, the transaction lock is not lost to the other worker for
  ever, and open rows settle.
- `SdkOutbox`: the clock runs, and the host reopens, refreshes its context, loads and
  dispatches; another writer does not outdate a task's view every time. The SDK has no
  scheduler of its own: this is what it asks of its host.
- `StoreRecovery`: the running call goes on and the host repeats quarantine and rebuild, as
  `sdk/storage/sqlite/README.md` tells it to. `Beyond` lists what repetition cannot resolve.
- `ServiceLifecycle`: goroutines are scheduled and armed timers fire (weak fairness of
  `StartUp \/ Service`). Nothing is assumed of requests, signals or faults.
- `ConversationSync`: the client follows its cursor. `EventuallyInSync` assumes that it does
  not restart its bootstrap for ever and that no removal bypassed the projection.

## What is proved

### Webhook delivery

`WebhookDeliveryProofs` proves, for any sets of workers,
deliveries, destinations and tokens and every configuration that satisfies
`ConfigAssumption`:

| Theorem | States |
|---|---|
| `InvariantHolds` | `Spec => []IndInv` |
| `TypeCorrect` | `Spec => []TypeOK` |
| `SingleFlightHolds` | `Spec => []SingleFlight` |
| `AttemptBudgetHolds` | `Spec => []AttemptBudget` |
| `DeadLetterJustifiedHolds` | `Spec => []DeadLetterJustified` |
| `PromiseImplemented` | `Spec => ImplementsPromise`, the refinement of `AtLeastOnceDelivery` |
| `TerminalForever` | `Spec => TerminalIsFinal` |
| `StaleOwnersHarmless` | `Spec => StaleOwnerHarmless` |

`ConfigAssumption` is what `Config.Validate` accepts, and that the time between the commit of
`BeginAttempt` and the start of the request (`CommitDelay`) is less than the half request
timeout that the lease margin reserves.

*The argument.* `SingleFlight` is not inductive: it says nothing of a worker that has claimed
a row and not begun. `IndInv` adds three facts. `TokenDiscipline`: a row has a token exactly
while it is leased and no two jobs hold the same one, so the fenced updates of at most one
worker can succeed. `LeaseCovers`: an attempt under way has a lease that ends after it, unless
the row was cancelled; `BeginAttempt` establishes it through `RequiredMargin`, and `Tick`
preserves it because lease and attempt count down together. `TriesAgree`: while a job owns
its lease, the attempts it counts from its claimed snapshot are those of the row, which makes
the dead-letter decision of `retryOutcome` sound. The proof treats the steps of one job with
one lemma (`JobStepIndInv`: a step that changes one job and at most its own leased row), the
claims, cancellations and the clock each with their own. The refinement needs
`HistoryInv` in addition (jobs exist only in a draining cycle, an attempt begun is
counted, delivered means accepted); then each action maps to a step of the abstract
specification or to a stutter.

### Webhook fan-out

`WebhookFanoutProofs` proves, for any finite sets of events and endpoints and all limits
(`FanoutAssumption`: they are positive, and the low-water mark is below the high-water mark):

| Theorem | States |
|---|---|
| `Inductive` | `Spec => []IndInv` |
| `QueuesBounded` | `Spec => []FanoutInv` |
| `NobodyIsSkipped` | `Spec => NobodySkipped` |
| `FrozenIsCurrent` | `Spec => FrozenFromCurrent` |

*The argument.* The bounds are on committed rows, and the decision that keeps them is taken in a
transaction that commits later. `IndInv` says what the open one knows: there is only one
(`OneOpen`, the advisory lock), its events are still to do (`EventsFresh`), the endpoints
it locked are as it read them (`ReadsHold`), every event it marks has a row for each endpoint
that has been active since (`Covered`), and its counts bound the open rows together with its own
(`CountsHold`). Workers that settle rows meanwhile only make the counts smaller. The theorems
about cardinality are those of `FiniteSetTheorems`, and lemmas on images and unions.

### The outbox of the SDK

`SdkOutboxProofs` proves, for any finite sets of client ids and tasks and any bounds
(`OutboxAssumption`):

| Theorem | States |
|---|---|
| `Inductive` | `Spec => []IndInv` |
| `OutboxSafe` | `Spec => []OutboxInv` |
| `PlansAccepted` | `Spec => []PlansEncode` |
| `NoRowLost` | `Spec => NothingLost` |
| `NoneResent` | `Spec => NeverResent` |
| `Fenced` | `Spec => GenerationFenced` |
| `Attributed` | `Spec => FailureAttributed` |

*The argument.* `IndInv` adds to `OutboxInv` that a task knows no revision the store has not had
(`ViewsPast`) and that every row passes the check of `envelope.rs` (`RowsValid`). One lemma for
each plan of `OutboxRecord` (`DispatchFollows`, `FailureFollows`, `RebindFollows`,
`ResumeFollows`, ...) says what it makes of a valid record, at the ends of the clock and of the
counters as well: a valid record, with no fewer attempts, which can be sent only in the
generation of the call. From these, `Steps` shows that every step leaves the store alone or is
one transaction that treats every row in one of four ways (`StoreStep`, `RowStep`): it stays, it
is enqueued, a plan replaces it, or it goes with its message stored or from a state that is never
sent. The rest follows from `StoreStep`
without looking at the actions again. `AllHeld` is what a task may still believe of its row,
`AllPaid` that no more was sent than attempts were recorded.

### The store directory

`AccountProofs` has two parts that share nothing: what an account has on the server, its
sessions, and what it has on the device, its store. The second part proves, for any accounts,
quarantine names, and numbers of databases and faults (`RecoveryAssumption`: the values that stand for an absent file or directory are no names
and no directories):

| Theorem | States |
|---|---|
| `Inductive` | `StoreSpec => []IndInv` |
| `EvidenceIsKept` | `StoreSpec => []DirectoryInv` |
| `ReplacementsKnown` | `StoreSpec => []ReplacementInv` |

*The argument.* `Evidence` says where the databases are: one that nobody deleted is in exactly
one place. `NotNew` is why `prepare` cannot take a directory that lost a file for a new one:
where there ever was a database, the active directory, the `initialized` marker or RECOVERY
is there. So an `open` that creates a database creates the first one, and every other is made by
a `rebuild`, which flags it. `CallKnows` is what the running call has found out, place by place:
in particular a rebuild at `prepare` has an account that a marker or a quarantined database
vouches for, and `quarantine` moves the active directory only after RECOVERY names the quarantine.

### Media

`MediaUploadProofs` proves, for any callers, identities, keys and contents, and any
lifetimes and bounds (`MediaAssumption`):

| Theorem | States |
|---|---|
| `Inductive` | `Spec => []IndInv` |
| `MediaPromisesKept` | `Spec => []MediaInv` |
| `SessionAlive` | `Spec => SessionLiveAtCommit` |

*The argument.* `StoreOK` relates rows and objects: an object is what its grant declares, and a
ready asset has an object that no power loss can take. `CallOK` says of every call what it has
learned on its way and nobody can take back: the grant it loaded (`Uploads`), the directory
it synced, the session it locked (`Live`). `Fair` are the answers that a right upload has to
expect, with and without a failure of its own. `Grows` is what others can do to the
stores meanwhile, and `CallOK` of a call that does nothing survives it. `Unique` keeps
apart two open insertions.

### The guard and the process

`ServiceLifecycleProofs` proves, for any number of connections in two
pools (`ProcessAssumption`: at least one in each, and message HTTP only with sessions), any set
of incarnations and every set of configurations:

| Theorem | States |
|---|---|
| `GuardHolds` | `GuardSpec => []GuardInv` |
| `TripIsFinal` | `GuardSpec => TripFinal` |
| `ProcessGuarded` | `Spec => GuardSpec`: the process implements the guard |
| `ProcessGuardInv`, `ProcessTripFinal` | the first two for the process |
| `ShutdownHolds` | `Spec => []ShutdownInv` |
| `ExitIsHonest` | `Spec => ExitHonest` |

*The argument.* `GuardInv` needs `AnswersAgree`, that an answer not yet judged is one the
database has given. For the process, `ProcessInv` says what each goroutine may believe of the
others. `JoinInv`: a channel that the coordinator no longer waits for has delivered, its
recorded errors are theirs, pools begin to close only after the server has returned, and
nobody is cancelled without a signal, a trip or the end of the other side. `HttpInv`: after
the drain there is no handler unless connections were cut, which is an error. `CauseInv`: a
server or a worker that stops has a cause the exit code will tell. `PoolInv`: a pool that is
gone has its connections back. The functions of the coordinator have a lemma each
(`SyncTerminalKeeps`, `OnServerKeeps`, ...) saying that they keep `JoinInv` and take nothing
back; `TurnedHonest` reads the exit code from `JoinInv` at the end of the loop.

### The durable send

`MessageSendProofs` proves, for any requests, senders, conversations, client
and server ids (`SendAssumption` and `RowAssumption`: the values that stand for nothing are
none of these, and sequences end somewhere):

| Theorem | States |
|---|---|
| `LedgerHolds` | `Spec => []LedgerInv` |
| `AnswersHold` | `Spec => []AnswersTrue` |
| `WaitsEnd` | `Spec => []NoWaitCycle` |
| `MembersSend` | `Spec => MemberAtCommit` |
| `CommitsNotDenied` | `Spec => CommitNeverDenied` |
| `SendImplementsLog` | `Spec => LogImplemented`, the refinement of `MessageLog` |
| `ReadersServed` | `ReadSpec => []ReaderInv` |

*The argument.* `LedgerInv` speaks of committed tables, and a commit publishes what a
transaction read many statements earlier. `SendInv` says of every open request what
is still true of it. `LockOK`: it has the lock of its conversation. `ProgressOK`: its sender is
still a member, because the removal of a member waits for the share lock on the membership row. `InsertedOK`: the row it
has inserted is the next of its conversation, and no committed row has its key or its id.
`ResultOK` and `AnswerOK`: a row it found is committed, and its answer fits the tables.
`ApartInv` is the unique indexes between two open transactions in different conversations,
which no lock keeps apart. A step of one request leaves the facts of the others alone (the
frame lemmas on `Own`); only a commit needs more, and there `ApartInv` is what keeps the
others' `InsertedOK`. The refinement reads `acked` from the answers. A commit
of a new row maps to an append, with the acknowledgement if the caller learns of it; a commit of
a row found maps to an acknowledgement alone; all else is a stutter. For `NoWaitCycle`,
`HoldersOpen` adds that whoever has a lock has an open transaction past its first statement: it
can only wait for an index entry, and the owner of an entry has inserted and waits for nobody.

Readers rest on the same invariant. `SegmentSize` counts the messages after one sequence and up
to another, by the bijection between them and their sequences; so `RowsAre` knows what
`readRows` returns, `ChecksPass` that no check of a read fails, and `PageIsSegment` that a page
is the next segment and says truly whether there is more. `ReadInd` adds to `SendInv` that a
conversation without messages has no latest one, and `ReaderPrefix`: a commit keeps it because
its message comes after every position.

### Sessions and tokens

The first part of `AccountProofs` proves, for any callers, sessions and tokens, and
any positive lifetime, number of tries and end of time (`AuthAssumption`):

| Theorem | States |
|---|---|
| `RevocationHolds` | `Spec => []RevocationInv` |
| `RevocationIsFinal` | `Spec => NeverOvertaken` |

*The argument.* What a call has read must hold until it commits. `AuthInv` ties each step of a
call to the rows: `CallShape` and `CallAnswer` say what the call itself has reached, `CallRows`
what it has read and the rows still say. `Apart` is why they still say it: two calls that have
locked one session are both authentications, which share the lock, and two open issues have
not taken one token id. A commit changes rows only of the session it has locked, so `CallRows`
of every other call survives. `AuthInv` speaks of a commit of unknown outcome as of an open
one: it still has its locks.

### Conversation sync

`ConversationSyncProofs` proves, for any number of conversations and revisions, any page limits,
scan budget and capacity of a page, and any lifetimes (`SyncAssumption`: these are positive, as
`service.go` and `cursor.go` require):

| Theorem | States |
|---|---|
| `Inductive` | `Spec => []IndInv` |
| `CheckpointIsComplete` | `Spec => []CheckpointComplete` |
| `RoundsKeepBounds` | `Spec => []RoundInv` |
| `RemovedSeeNothing` | `Spec => NothingAfterRemoval` |

*The argument.* `CheckpointComplete` speaks of the end of a round; `IndInv` says what a client
knows in the middle of one. `Knows` says it of one conversation: with a bootstrap cursor at `at`,
a conversation up to `at` that is visible at the fence is in the view in its state at the fence,
and nothing else is in the view; with a delta cursor at `at`, the conversation is in its state at
`at`, or a later revision of it has been applied. The last case is there because a client may
read a page again: its view is then ahead of its cursor, and `Applied` says that it has every
change between the previous cursor and the present one, so applying them again changes nothing.
`Token` keeps a cursor within its fence and its end, and its last conjunct for bootstraps says
that the frozen end covers every conversation of the fence: a key that is younger than the round
has no revision at the fence, so skipping it loses nothing.

`AssembledPage` is the lemma about `Assemble`, for any rows and verdicts: a page returns the
items among the rows it passes, stops at the page limit or the capacity, never passes a row it
had no room for, and moves forward. It rests on facts about the first n members of
a set of numbers (`FirstRows`). `DirectoryPage` and `DeltaPage` apply it to the two kinds of
page, `BootstrapTaken` and `DeltaTaken` carry `Knows` over a page, and `BootstrapAgain` and
`DeltaAgain` over a page that is read again. A write appends a revision and so leaves every state
at an earlier fence alone (`Unaltered`).

### Only model-checked

All liveness (`EventuallySettled` of webhook delivery and of the outbox, `EventuallyFannedOut`,
`RecoveryCompletes`, `EventuallyInSync`, `EventuallyExits`): fairness is beyond the prover.
What the two runs of the next section refute is no theorem. The theorems about sends are about
`Spec` of `MessageSend`; `ReadSpec`, which the run uses, adds clients that only read. The project's modules declare no RECURSIVE operator, so all of
them can be proved about.

## Where code and documents differ

- `quarantine_resume`: `sdk/storage/sqlite/README.md:22` promises that repeating an
  interrupted quarantine resumes it. `files.rs` creates RECOVERY before it writes the name; a
  kill in between leaves an empty marker that quarantine, rebuild and open all refuse. A torn
  `initialized.next` or `recovery.next` is refused by later calls too. That one is
  announced (`replace_marker` retains a conflicting temporary file); the model contains it,
  and `Beyond` excludes a torn `recovery.next` from what repetition must resolve.
- `auth_revocation_clock`: `docs/adr/0008-auth-session-core.md:128` says that an existing
  active target is revoked with `AUTH_REVOKE_OK`. `RevokeSession` reads the clock before it
  waits for the session row; if it waits for an `Issue` that reads the clock later, the CHECK
  `revoked_at >= created_at` of the new token refuses the whole revocation with
  `AUTH_STORAGE_UNAVAILABLE`. The session stays active until the caller tries again.

## What is not modelled

- Message cache, cursors, receipts and compaction of the SQLite store beyond what the outbox
  reads; `salvage_pending`, which only reads.
- Deadlines and lock timeouts as times: a timeout is a step that may happen at any point.
- Lock order among the accounts of a sync batch: one account is modelled and a batch is one
  step. The media validation inside a send transaction uses another connection; exhaustion of
  the pool is not modelled.
- `PlanLogin` and `LookupSession`, which read and decide nothing that is stored.
- TLS, address checks, signatures, digests, and the bytes of messages, cursors and tokens.
- What the HTTP routes outside messages and sessions answer, the HTTP time-outs of a single
  connection, and `joinRuntimeServerAndAuth`, which `run` no longer calls.
- Some checks, whose failure no property depends on: the comparison of a committed message with the
  request and the encoding of its acknowledgement after the commit, the symlink and permission
  checks of `safe_active`, a store revision at the largest integer.
- Waits between the unique indexes of one INSERT: its entries are made in one step.
- Requests on connections that were open before their listener closed; `Shutdown` waits for
  them as for others. The closing that goes on in the background after the deadline of the
  shutdown: the process ends at once.
- Codecs, metrics, configuration, build metadata and test tooling.

## Plan

Done: the parts above marked with a module. Next, in this order:

1. `SendEndToEnd`: the outbox against `MessageLog` through the message route, to show that
   each public code is one on which the SDK does the right thing.
2. Store operations: receipts of operation ids, trimming and cursors.
