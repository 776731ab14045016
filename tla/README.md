# A formal model of double-entry-ledger

TLA+ modules for the core of the ledger service (`internal/ledger`), checked by
TLC on small instances; their safety properties and refinements are proved by
TLAPS for every instance.
Line numbers are those of the repository's files; `PROJECT.json` maps every
definition to the lines it stands for.

## 1. The system

The service keeps accounts, transactions and entries in PostgreSQL, moves money
between ledgers with sagas, and projects every posting into daily aggregates
through NATS JetStream.

| Component | State | Operations | Talks to |
|---|---|---|---|
| Ledger rules (`validators.go`, `idempotency.go`, `domain.go`) | none | validation, net effect, displayed balance, checksum | everybody |
| Posting (`postgres_store.go`, `posting_batch.go`) | `accounts`, `transactions`, `entries`, `idempotency_keys`, `outbox_events` (`transaction_posted`) | `CreateAccount`, `CreateTransaction`, `CreateTransactionsBatch` | row locks shared with transfers; outbox read by publishers |
| Micro-batcher (`posting_batch.go`) | queue, response channels | `CreateTransaction`, `run`, `Close` | calls `CreateTransactionsBatch` |
| Transfers (`postgres_transfer.go`, `transfer_batch.go`) | `sagas`, `saga_steps`, `outbox_events` (`destination_credit`, `compensate_source`), clearing accounts | `CreateTransfer`, `ProcessOutbox`, `ProcessCompensationOutbox` | background workers of `main` |
| Streaming (`streaming.go`) | leases in `outbox_events`, the JetStream stream and durable consumer, `processed_events`, daily aggregates | `PublishCommittedEvents`, `RunAggregateConsumerConcurrent`, `ApplyTransactionPostedBatch` | reads what posting and transfers commit |
| Completion waiter (`completion_wait.go`) | map of subscriptions, their channels | `subscribe`, `notify`, `waitForCompletion` | called by the waiting GET routes, notified by workers and consumers |
| In-memory store (`store.go`, `transfer.go`) | accounts, transactions, keys, sagas, outbox under one mutex | the same API without a database, `ProcessOutbox` | HTTP handlers |
| HTTP (`internal/http`) | none | decoding, choice of the key, error mapping | stores |
| Start-up (`cmd/ledger`) | configuration | worker loops, pool sizes, shutdown | everything |

What is hard in it, and what makes each part correct:

* **Posting.** Many calls run under READ COMMITTED; safety rests on `FOR UPDATE`
  in UUID order, on the idempotency-key row and on one write statement. Correct
  means: no overdraft, no lost or repeated update, ledgers that balance, a key
  that posts once, answers that tell what happened, no deadlock.
* **Transfers.** Money leaves one ledger before it enters the other; workers
  race, batches fail, the order of locks differs between the two sides. Correct
  means: paid once or refunded once, clearing accounts that hold exactly what is
  in transit, every transfer settled.
* **Streaming.** Every hop is at least once; leases and acknowledgement
  deadlines may run out while somebody is still working. Correct means: every
  event counted exactly once, none lost, all of them projected in the end.
* **Micro-batcher.** A bounded channel, timers, response channels and a `Close`
  that may meet calls under way. Correct means: every request in exactly one
  place, every caller its own result, nothing left behind by `Close`.
* **Completion waiter.** A commit and its notification may fall anywhere between
  two reads and a subscription. Correct means: no lost wake-up, no leaked or
  twice closed channel, no stale answer, every wait ends.
* **In-memory store.** Calls are atomic, but requests are repeated, keys reused
  and outbox passes overlap. Correct means: the same saga as in PostgreSQL, and
  answers that agree with each other.

`PROJECT.json` lists the hazards line by line.

## 2. The modules

| Module | Models | State and actions |
|---|---|---|
| `LedgerRules` | pure rules | operators only; amounts are integers, `Grain` units to the cent, `Round` is the assignment to `NUMERIC(20,2)`, `Fits` its range |
| `AtomicLedger` | what the ledger promises | a journal and balances; a call is one step |
| `Posting` | concurrent postings | one session per call; a step is one SQL statement or one row lock; tables change at commit |
| `PostingRefinement` | `Posting` implements `AtomicLedger` | the refinement mapping |
| `PostingBatcher` | the micro-batcher | calls, the channel, workers, `Close`; the store below is one step |
| `SagaSpec` | what a transfer promises | funds, one amount in transit, statuses |
| `Transfer` | sagas in PostgreSQL | clients of `CreateTransfer`, destination-credit workers, the compensation worker |
| `TransferRefinement` | `Transfer` implements `SagaSpec` | the refinement mapping |
| `MemoryStore` | the store in memory behind HTTP | requests, outbox passes; implements `SagaSpec` as well |
| `CompletionWait` | waiting GET routes | handlers, subscriptions, workers that commit and notify |
| `Streaming` | outbox to aggregates | publishers with leases, the broker, consumers with an inbox |
| `LedgerRulesProofs`, `PostingProofs`, `TransferProofs`, `StreamingProofs`, `PostingBatcherProofs`, `CompletionWaitProofs`, `MemoryStoreProofs` | | inductive invariants, lemmas and theorems of the module they are named after |
| `SumTheorems` | | sums, maxima and ranks of finite sets, for all of them |
| `MCPosting`, `MCTransfer`, `MCStreaming`, `MCBatcher`, `MCCompletionWait`, `MCMemory` | | instances for TLC |

Operators introduced by a comment `Mutant:` are deliberate bugs, one beside the
definition it distorts. Nothing uses them; each documents a mistake that the
named property must detect, and `PROJECT.json` pairs them.

**Posting.** `created`, `balance`, `txns`, `keys`, `outbox` are the committed
tables (transactions and their entries are one row of `txns`, numbered in commit
order); `rowLock` and `keyLock` are held by open database transactions;
`running` is the balance a session read under its lock with the accepted
postings applied, `delta` what it will add. A call goes `idle`, `read` (the
read-only fast path), `claim` (`ClaimIdempotencyKey`), `begin`, `lock` (row by
row, lowest UUID first), `check`, `commit`, `done`. The write statement and the
commit are one step, because nothing of a transaction is visible before its
commit and all rows it writes are locked by then. `LockRow` reads the balance
when the lock is granted, as PostgreSQL does after a wait. A batch decides its
members one by one on running balances. Failures are serialization errors (with
the bounded retry loop), any other error or crash, and a commit whose
acknowledgement is lost. A client retry is another session with the same call.
`missing` is a history variable: the accounts a call names that did not exist
when it was made.

**Transfer.** `sagas` joins a saga with its two outbox events (`credit`,
`refund`); `saga_steps` mirrors the status and is left out. `CreateTransfer`
goes `lookup`, `source` (`FOR UPDATE OF source`), `clearing`/`insert`
(`ensureClearing`), `write`, `post`, `commit` (the three locks the one statement
of `writeSourceTransfer` takes), a worker goes `idle`, `clearing`, `lock`.
PostgreSQL's deadlock detector aborts a session on a cycle. Waiting is exact for
rows, keys and inserts of clearing accounts; `FOR KEY SHARE` of the foreign key
on the destination is taken and released in the commit step. The compensation
worker is one step: an error aborts its transaction before any bookkeeping, so
it either refunds or changes nothing; deadlocks it might take part in are not
modelled. No current code schedules `compensate_source`; the model starts with
such an event left by an earlier release so that the path is exercised.
Requests name ordinary accounts (`RequestAssumption`). The API does not enforce
it: `POST /accounts` accepts any name (`validators.go:9`), so a client may create
`__transfer_clearing__` itself, `ensureClearing` then uses that account
(`postgres_transfer.go:330`), and the client knows its ID and may post to it. What
follows for the money in transit is outside the model.

**Streaming.** `status`, `owner` and `lapsed` are the outbox lease columns;
`lapsed` stands for the clock. `Gone` replaces the owner of a pass that has
ended, whose UUID is never used again. The broker keeps the stream and a state
per message (`ready`, `out`, `acked`). `InsertInbox` takes the inbox row per
event, waits for a consumer that is inserting the same row, and becomes visible
with the aggregates in `Apply`. `entriesOf` is the committed transaction behind
each event, chosen initially from `Postings` and never changed; `Hydrate` reads
what a publishing pass still leases. `AckLost` is an acknowledgement that never
reaches the broker although `Ack` returned no error. An aggregate row
carries the freshness cursor `last_event_id`, which is overwritten in the order
in which batches commit. `available_at` (a delay) is left out. Events are
numbered in the order of `created_at`, and the same numbers stand for the event
IDs by which a consumer sorts its inserts (random UUIDs in the code); no step
depends on both orders. `Postings` says which entries the events may carry together, and
`MaxFaults` how many faults a state may have seen, given the events posted.

**PostingBatcher.** `queue` is the buffer of the channel `requests`, `response`
the channel of capacity 1 that a request carries, `batch` and `results` what a
worker holds between reading, posting and replying. The timer may fire at any
moment. A send on the closed channel panics (`pc = "panicked"`; `net/http`
drops the connection): `Close` is deferred by `main` and meets handlers that are
still running. `CreateTransactionsBatch` is one step that posts any subset, or
fails before or after its commit; that it may be taken for one step is what
`CallsAreAtomic` shows. `journal` counts the transactions each call has caused.

**CompletionWait.** A handler reads, subscribes, reads again, blocks, reads a
last time and unsubscribes; each is a step, and workers commit and notify in
between. `closes` counts how often a subscription's channel was closed. A key is
what the URL says: subscriptions are kept under the key as it was spelled, while
workers notify the canonical UUID, so a call under another spelling that
`uuid.Parse` accepts is woken by its deadline only. `silent` marks completions
nobody here notifies: a commit whose acknowledgement was lost, or one by another
process.

**MemoryStore.** The mutex makes every request one step, and `ProcessOutbox` one
step per event. `answers` records what clients were told (or should have been,
had the answer arrived), with the HTTP status; requests that are refused with
400 change nothing and are no step. Postings take the key from the header first,
transfers from the body first, as the handlers do. There is no overdraft check
for postings in this store. Any attempt at a destination may succeed, fail
transiently or fail for good, which is what the hook `DestinationFailure` allows.

### Refinements

* `CallsAreAtomic` (`PostingRefinement`): a call's indivisible step is the one in
  which it returns; before that its `outcome` is "open". Each call posts, or
  refuses, what balances and accounts warrant at that moment, members of a batch
  in order. Making a call is the abstract step `Start`, which notes accounts that
  do not exist yet: a posting may be refused for missing such an account although
  it was created while the call was running, and for missing no other. A call
  may also fail without effect, a batch as a whole. This implies that stored balances
  are the sums of their entries and that the history was never overdrawn at any
  point, so these are not checked separately.
* `TransfersAreSagas` (`TransferRefinement`): the amount in transit is what the
  clearing accounts of all ledgers hold together. Every commit is one abstract
  step: a transfer begins from a funded source under a new key, a set of pending
  ones arrives, one is paid back. This implies conservation of money and that a
  settled saga stays settled.
* `TransfersAreSagas` (`MemoryStore`): the same abstract specification with the
  same mapping; `GiveUp` occurs here, and `Post` stands for ordinary postings.

## 3. Runs

| Run | Expected | What it shows |
|---|---|---|
| `posting_safety` | pass | three sessions over eight kinds of call, keyed, unkeyed and batched, an account created on the way, one failure, one retry, `MaxNumeric` 3 so that writes overflow: they implement the atomic ledger; keys, answers, outbox and lock order |
| `posting_liveness` | pass | `CallsReturn` under fairness: two sessions over eight calls that contend or are refused, through two failures |
| `transfer_sagas` | pass | two clients, two workers, one old saga, transfers in either direction and two that share their clearing accounts, one failure, deadlocks: the transfers implement the abstract saga, every call returns, every saga settles while balances have room |
| `streaming_batches` | pass | two events meeting in aggregate rows, batches of two, two consumers, one fault; `MaxNumeric` 4 makes two split postings overflow |
| `streaming_faults` | pass | two publishers, two consumers, either one event and two faults (expired lease, lost acknowledgement, crash in any order) or two events without a fault, whose rows may overflow (`MaxNumeric` 4); events are projected in the end while rows have room |
| `batcher` | pass | four calls, one worker, batches of two, a buffer of two, `Close` at any moment |
| `waiting` | pass | two handlers that serve any number of requests for two items under four keys, two workers that complete and notify, again and again |
| `memory` | pass | two keys reused with different bodies, transfers there and back that may be open together, two overlapping outbox passes, transient and permanent failures; postings carry a key (the theorems cover those without) |
| `posting_ledgers`, `posting_cents`, `transfer_uuid_key`, `transfer_stuck` | violation | the findings of section 5 |

The calls of `posting_safety` include postings across ledgers, but none that
starts in the default ledger inside a batch: that one breaks `LedgersBalance`
and is the subject of `posting_ledgers`. In the same way `Grain` is 1 (whole
cents) everywhere but in `posting_cents`, and keys of transfers are no UUIDs
everywhere but in `transfer_uuid_key`.

Bounds and why they are enough for what the runs look for. Three sessions let
one call commit between the read and the claim of another while a third waits;
two sessions are enough for any lock cycle that the row order must exclude, and
the proof covers all numbers. One key is enough because keys do not interact.
Amounts of 1 and 2 make one posting affordable and two not. `InitialAccounts`
leaves out an account that `CreateAccount` may add between a request and its
lock. `MaxFaults` bounds injected failures: one lets a safety run lose a commit
acknowledgement or retry a serialization error in any interleaving, two exhaust
the single retry (`posting_liveness`) or let a lease expire under a pass whose
successor fails as well (`streaming_faults`, where the second event is posted
only in runs without faults, to keep the liveness check small; faults among two
events are the subject of `streaming_batches`). Clearing account 1 is below and 4
above the account it serves, so that both lock orders occur. Four calls against
a batch and a buffer of two fill the buffer while a batch is in flight, with one
call left to block on its send or to meet the closed channel; workers share
nothing but the channel, so one of them shows what a request can suffer.
Handlers return to idle and workers commit again, so `waiting` is not bounded in
length. In `memory`, `MaxAttempts` is 2 (5 in the code): one failure that is
retried and one that is not; `MaxTransactions` stops new requests at four
transactions, enough for a transfer back after, or beside, one that went there, while those in the outbox still settle. An idle server has no
next step there, hence `CHECK_DEADLOCK FALSE`. Sessions are symmetric in
`posting_safety`, publishers and consumers in `streaming_batches`; the runs with
liveness properties use no symmetry.

**Fairness.** A started call keeps executing, `startBackgroundWorker` loops for
ever, and timers (leases, `AckWait`, `maxWait`, deadlines of waits, back-off)
run out: weak fairness. PostgreSQL serves lock queues first come first served,
so a lock that is released again and again is granted in the end: strong
fairness on the steps that wait for a lock. A consumer's step is strongly fair
too: the broker hands out messages to whoever fetches. PostgreSQL looks for
deadlocks: weak fairness on the victim. In `PostingBatcher` weak fairness is
enough, because each call sends once and a worker that waits is served from the
buffer. Failures are never fair, nothing obliges the process to restart, a
stopped consumer to come back, an item to complete or anybody to call `Close`.
The expiry of leases is fair as a whole, as is redelivery: some lease that has
run out is noticed, whichever. `EventuallyProjected` therefore has two
conditions. The aggregate rows have room (`AggregatesHaveRoom`): a batch that
overflows one is refused at every delivery (`streaming.go:438`), and its other
events with it; without the condition TLC finds such a behaviour in
`streaming_faults`. And again and again some consumer is alive: a consumer worker returns at the first error of `Ack` or `FetchBatch`
(`streaming.go:663`) and `main` starts the group once (`cmd/ledger/main.go:196`,
four workers by default), so after as many errors as there are workers nothing
is projected until a restart. `TransfersSettleWithRoom` has one as well: no
balance on the way overflows; without it the run is the finding
`transfer_stuck`.

## 4. Proofs

Every safety invariant, action property and refinement that a run checks is also
a theorem, for every set of sessions, accounts, keys, calls, events and workers
and every bound that the named assumptions of the modules allow. TLC finds out on
a small instance whether a formula holds; the proof says that the instance was
not too small.

| Module | Theorems (property) |
|---|---|
| `PostingProofs` | `TypeCorrect`, `OverdraftSafety` (`NoOverdraft`), `DeadlockFreedom` (`WaitingFollowsLockOrder`), `OutboxAtomicity` (`PostingsAnnounced`), `Idempotency` (`KeysNameTransactions`), `HistoryImmutable` (`HistoryKept`), `AnswersAreTrue` (`AnswersTruthful`), `CallsImplementAtomic` (`CallsAreAtomic`), `StoredInBalance` (`StoredTransactionsBalance`), `LedgersInBalance` (`LedgersBalance`) |
| `TransferProofs` | `TypeCorrect`, `PaidOnce` (`SagasPaidOnce`), `BalancesAreLegs` (`BalancesMatchLegs`), `AnswersAreTrue` (`AnswersTruthful`), `TransfersImplementSagas` (`TransfersAreSagas`), `DuplicatesAreFound` (`DuplicateFindsSaga`) |
| `StreamingProofs` | `TypeCorrect`, `EventsAreKept` (`NothingLost`), `LeasesExclude` (`PublishedOnce`), `ProjectedExactlyOnce` (`AggregatesMatchInbox`), `CursorsAreHonest` (`CursorsAreCounted`), `NothingIsTakenBack` (`ProcessedForGood`) |
| `PostingBatcherProofs` | `TypeCorrect`, `RequestsHaveOnePlace` (`OnePlace`), `ResultsAreOwn` (`OwnResults`), `CloseLeavesNothing` (`CloseDrains`) |
| `CompletionWaitProofs` | `TypeCorrect`, `Subscriptions` (`SubscriptionsAreCalls`), `WakeupsArrive` (`NoLostWakeup`), `CurrentAnswers` (`AnswersCurrent`) |
| `MemoryStoreProofs` | `TypeCorrect`, `StatementsTrue` (`StatementsAgree`), `EventsAreSagas` (`EventsMatchSagas`), `AnswersNeverDiffer` (`AnswersAgree`), `TransfersImplementSagas` (`TransfersAreSagas`) |
| `LedgerRulesProofs` | lemmas on the rules: rounding keeps the sign, is idempotent and leaves whole cents alone; the effects of a valid posting cancel |
| `SumTheorems` | sums over finite sets: one element more, one changed, renamed, selected, by groups |

### Posting

`NoOverdraft` is not inductive: a commit step only says that the balance changes
by `delta`. The inductive invariant `IInv` (theorem `Invariance`) adds what the
code relies on. `LocksFollowProgram`: locks are held exactly while the database
transaction is open, and a session's rows are below those it still wants.
`WritesAreLocked`: the rows of the accepted postings are locked by their session.
`ReadsStayCurrent`: under a row lock `running = balance + delta` and its display
is not negative; this is what another session's commit could break, and cannot,
because it writes only rows it holds itself. `ClaimedKeysAreNew`: a locked key
has no committed row. At the commit the stored balance is
`Round(balance + delta)`, and rounding keeps the sign (`RoundSign`).
`Idempotency` also needs that the checksum of a request is that of its stored
entries: rounding twice is rounding once (`RoundIdempotent`). `DeadlockFreedom`
follows from `IInv`: whoever is waited for holds a row and so is past its claim,
and its next row is above the one it holds. `AnswersAreTrue` adds
`AnswersFollowDecisions`: what a batch has noted for its members is what it has
decided, in the order in which it will post.

`CallsImplementAtomic` says that concurrent calls are indivisible. Its invariant
is `CallsStand`: what a call has checked of its request (`RequestChecked`), the
rows its locking query has found (`RowsFound`) and the decisions it has taken
(`DecisionsRight`) would be the same if they were taken now, one posting after
the other on the current balances (`StillRight`), and an account the query did
not find is one that did not exist when the call was made (`MissesOnlyNew`). The
step that makes a call is the abstract `Start`. The commit is then the abstract
step `Serve`: its rows, balances and answers are those of the abstract
definitions. A refusal is `Serve` with nothing accepted, a repeated key finds the
transaction that `Idempotency` provides, every other step stutters. Two
hypotheses are necessary, and two findings of section 5 show why: `Grain = 1`
(whole cents; otherwise the stored amounts are not those that were checked) and
`BatchesInOneLedger` (no member of a batch passes the batch's ledger check
without staying in one ledger). Under the same hypotheses `LedgersInBalance`
proves that every ledger adds up to zero, and `StoredInBalance`, which needs
whole cents only, that every stored transaction balances.

### Transfers

`SagasPaidOnce` needs that a worker's batch holds events it has locked and that
are still pending (`BatchesAreLocked`), that legs name existing sagas
(`LegsNameSagas`) and that a client's transaction that is about to write holds
its key and found no saga under it (`CallsAdvance`). `BalancesMatchLegs`,
`AnswersTruthful` and the refinement are for whole cents: a stored balance is
rounded at each leg. In the refinement the amount in transit is a sum over the
clearing accounts; a destination batch changes several of them at once, and
`SumByGroup` says that what they lose together is what the sagas of the batch
carry. `SagasAreCounted` (a saga for every committed call) and `CreatedOnce`
are what the answers rest on. `DuplicatesAreFound` supposes that no key is a
UUID. The compensation worker is one step, as in the model.

### Streaming

`LeasesAreOpen` and `PassesHoldPosted` tie leases to statuses and passes to
posted events; `LeasesAreKept` holds until the first fault: a pass then leases
exactly what it sends, which is why nothing is published twice. `BatchesAdvance`
says that the events of a fetched message stay with its consumer until they are
in the inbox, `FreshIsNew` that two open transactions never insert the same inbox
row; hence `Apply` adds exactly the new events to the aggregates, and a sum over
a larger inbox is the old sum plus theirs.

### Micro-batcher and completion waiter

In `PostingBatcher` uniqueness is stated place by place (`RequestsAreUnique`,
`WaitersAreServed`), which is inductive, and `OnePlace`, which counts places,
follows; `WorkersAdvance`, `CloseAdvances` and `AnswersFit` follow the worker's
loop, `Close` and a result on its way. In `CompletionWait` the properties
strengthen each other: beside them `IInv` only says where a call stands
(`CallsAdvance`), that a worker notifies what it committed (`OwedIsComplete`) and
that a call made after the completion finds it (`EarlyIsComplete`).

### In-memory store

`Book` says that balances, journal and ledgers agree. The conservation in each
ledger rests on `EffectsCancel`. `KeysMatch`, `SagasBooked` and `EventsDone`
relate keys, sagas, transactions and outbox; `AnswersRecorded` and
`KeysAnswered` relate what was told to what is stored. The refinement supposes
`ClientsOwnAccounts`: requests name no clearing account, since a posting to one
would change what is in transit. The other theorems do without it.

### Assumptions

Requests are finite sequences of entries with integer amounts (in units of
`Grain`); keys, sessions and clients are different from the markers for "none";
sets of accounts that are summed over are finite, as UUIDs are; `RequestAssumption`
of `Transfer` keeps clients off the clearing accounts, which the API does not
(section 2); `InitialAssumption` says
what an earlier release may have left. TLC evaluates each of them on the
instances. Nothing else is assumed: that the net effect of a posting is an
integer is the lemma `ChangeType`.

Sums are folds with a `CHOOSE`, which the provers do not unfold. `SumTheorems`
proves what they compute by induction over finite sets. The library's induction
theorems take a predicate as a parameter, so it has its own, in which the
induction hypothesis is a set of subsets and the statement first-order.

### Only model-checked

Liveness: `CallsReturn` (postings and transfers), `TransfersSettleWithRoom`,
`TransfersSettle` (in memory; for PostgreSQL `transfer_stuck` refutes it),
`EventuallyProjected`, `CallsEnd` and `WaitsReturn`. They rest on fairness, and so
on `ENABLED`, which the proof system does not treat.

## 5. Findings

Each is a run that TLC refutes, with the quotation in `PROJECT.json`.

1. `posting_ledgers`: the batch takes the default ledger's ID for "no ledger
   yet", so a member may run from the default ledger into another one.
2. `posting_cents`: requests balance at any scale, rows are stored in cents;
   half cents store an unbalanced transaction.
3. `transfer_stuck`: a destination credit that cannot succeed is never
   compensated, since the code that would schedule it is no longer reached.
4. `transfer_uuid_key`: an idempotency key that is a UUID is looked up as a saga
   ID, so a repeated transfer fails.

The theorems show that three of the named causes are the only ones in the model:
`LedgersInBalance` for 1 (given whole cents), `StoredInBalance` for 2 and
`DuplicatesAreFound` for 4.

More behaviour that a reader may not expect is part of the models without a run
of its own:

* an amount too large for the column fails every posting of its batch
  (`posting_batch.go:169`), though the batch is meant to isolate its members
  (`posting_batch.go:38`);
* `CreateTransfer` locks the source and then its clearing account
  (`postgres_transfer.go:76`), not in UUID order as postings do
  (`postgres_store.go:51`), so opposed transfers deadlock and the victim's error
  is not retried;
* the destination leg of a transfer is not checked for overdraft
  (`transfer_batch.go:136`): a debit lowers what a liability, equity or revenue
  account displays; `SagaSpec` promises funded sources only;
* an aggregate row that would overflow `NUMERIC` refuses every batch that holds
  the event (`streaming.go:438`), again and again and with the other events of
  the batch: `EventuallyProjected` holds on the condition that this does not
  happen;
* an account that a client creates under the name `__transfer_clearing__` becomes
  its ledger's clearing account (`postgres_transfer.go:330`); the models assume
  that no client does this;
* a posting without a key that reaches the micro-batcher after `Close` panics
  on the closed channel (`posting_batch.go:288`); nothing of it is posted;
* a wait under a non-canonical spelling of a UUID is never notified
  (`completion_wait.go:54`) and runs into its deadline, then answers correctly.

## 6. Not modelled, and the plan

Not modelled:

* decoding of JSON and query parameters, and the GET routes that only read
  (`handlers.go`); time windows and paging of `GetAccountEntries`;
* environment parsing and the arithmetic of pool sizes in `cmd/ledger`: they run
  once, before any state exists;
* the generated queries (`internal/db`), which are modelled where they are
  called, and migrations as a process;
* the benchmark tooling (`cmd/benchmark-seed`), which is no part of the service;
* the exact timing of delays; futures of the NATS client that never resolve
  (`streaming.go:104`);
* deadlocks between components: the foreign-key checks of the consumers share
  account rows that postings and transfers lock (`streaming.go:441`).

What is left: a composition of postings, transfers and consumers over one
accounts table, for deadlocks across components. The proofs cover each component
by itself.
