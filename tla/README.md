# Verification of the usage billing pipeline

TLA+ modules, TLC configurations and TLAPS proofs for the Go services in this
repository: `usage-service`, `outbox-publisher`, `billing-processor` and
`analytics-exporter`, as they work on the tables of PostgreSQL and the topics of
Kafka, and for the way of a billing chunk through them.

Run the tools in this directory: `tlc -config <run>.cfg <module>` for a run of
`PROJECT.json`, `tlapm <module>` for the proofs, which are in the modules with a name in
`...Proofs` and in `CountingLemmas`.

## 1. The system

```
 creator ──► usage_sessions ◄── finisher           usage-service
                  ▲   │            │
                  └ scanner        │
                       ▼           ▼
   injector ──►   outbox_events  (PostgreSQL)
                       │  lease: FOR UPDATE SKIP LOCKED
                       ▼
   workers, replayer ──► processed_outbox_events   outbox-publisher
                       │
                       ▼
              usage-billing-chunks  (Kafka)
                       │
                       ▼
   consumer group ──► Metronome                    billing-processor
              │  └──► processed_billing_events
              ▼
       billing-processed  (Kafka) ──► stdout       analytics-exporter
```

| Component | State | Operations | Talks to |
|---|---|---|---|
| sessions (`usage-service/service/sessions`) | `usage_sessions` | `GenerateBulkActiveSessions`/`CreateSession`, `FinishActiveSessions`/`FinishSession` | rows of `usage_sessions`, inserts into `outbox_events` |
| outbox scanner (`usage-service/service/outbox`) | `usage_sessions`, the cursor of a scan | `ScanAndCreateOutboxEvents`, `CreateOutboxEvent` | the same rows as the finisher |
| duplicate injector (same package) | – | `ResetRandomPublishedOutboxEvents` | makes rows of `outbox_events` unpublished |
| leasing workers (`outbox-publisher`) | `outbox_events.published_at`, `processed_outbox_events`, one open transaction each | `processOnce` | Kafka, through the connector |
| replayer (`outbox-publisher`) | – | `replayOnce` | reads `outbox_events`, sends to Kafka |
| kafka connector (`pkg/repository/kafka`) | the Kafka writer | `ProduceBillingChunk`; its consumer methods have no caller | brokers |
| billing processor | offsets of the group `billing-processors`, `processed_billing_events` | `StartConsumer`, `ProcessBillingChunk` | Kafka, Metronome (simulated) |
| analytics exporter | offsets of its group | read loop, print | Kafka |
| repository layer (`pkg/repository/sql`) | the tables | queries | PostgreSQL |
| migration service, config | – | DDL; environment variables | PostgreSQL |

What is hard in it:

- **Stale reads.** Scanner and finisher, of any number of replicas, read a
  session without a lock, compute a chunk from the copy and write it back with an
  `UPDATE ... WHERE id = $1` that nothing conditions on what was read.
- **Effects outside of transactions.** The workers of the publisher send to Kafka
  inside an open database transaction, and the billing processor submits to
  Metronome and publishes to Kafka before it records the event.
- **Unknown outcomes.** A commit that fails may have committed; a write to Kafka
  that fails may have arrived, once or several times.
- **Crashes.** Goroutines disappear at any point; publisher workers even at
  an orderly shutdown, which does not wait for them.
- **Offsets.** The billing processor's `ReadMessage` commits offsets in the background,
  independently of the processing; the exporter's commits before the export, and
  any error of it ends the consumer.
- **Failures that stay.** A session that fails every time is fetched again at once;
  an event that is invalid is leased again.
- **Several clocks.** The period of a chunk and the question whether a session is
  due are read from the clock of the replica that asks.
- **Interference on purpose.** The injector and the replayer produce duplicates
  while everything else runs.

What makes each component correct:

- *sessions and scanner*: all usage up to `last_billed_at` is in the outbox, chunks
  of a session are numbered without holes and without repetition, do not
  overlap, and none lies beyond the end; every active session is billed within
  the next scans and finished in the end.
- *publisher*: what is marked published or processed was sent; what is sent
  twice has a cause; no two workers hold the same event; valid events are sent
  in the end, in order.
- *billing processor*: what is recorded was submitted; a repeated submission and
  a lost message have a cause; every message is processed.
- *analytics exporter*: a repeated export and a lost message have a cause; the
  partition is read as long as a consumer runs.
- *all of them together*: all time of a finished session is charged for, once.

`PROJECT.json` lists the hazards line by line with the properties that cover them.

## 2. Plan

In order of importance:

1. `UsageService` with the ledger `BillingLedger` as its abstract specification. *Done.*
2. `OutboxPublisher` (workers, replayer, injector). *Done.*
3. `BillingProcessor` (consumer group, offsets, idempotency). *Done.*
4. `UsageServiceProofs`: type correctness, no lost usage, dense sequences, for all
   parameters. *Done.*
5. `OutboxPublisherProofs`: `TypeOK`, `PublishedWasDelivered`, `ClaimIsFresh` from an
   invariant that says that leases are disjoint and their rows unpublished. *Done.*
6. `AnalyticsExporter`, with what both consumers see of Kafka in `ConsumerGroup`. *Done.*
7. `Relay`, the abstract specification of publisher and processor, and `Pipeline`, the
   composition up to Metronome: is all usage charged, and once? *Done.*
8. In `OutboxPublisherProofs` and `BillingProcessorProofs`: both stages are relays, for all
   parameters. *Done.*
9. Sessions that fail every time and clocks that differ, in `UsageService`. *Done.*
10. The invariants that count: `OutboxPublisherDuplicatesProofs`,
    `BillingProcessorCausesProofs`, `AnalyticsExporterProofs`, on `CountingLemmas`. *Done.*
11. `EndIsFinal` for one finisher; `PipelineProofs`: in which way only a charge can be
    lost. *Done.*
12. What holds of the pipeline as scanners and finishers race in it: everything, the
    ledger included, of the sessions that no outdated goroutine has written to. *Done.*

Not planned: the DDL of the migration service, connection pooling, logging,
resource figures of sessions, and methods without a caller (section 6).

## 3. Modules

`SqlQueries` has the one shape of query that work lists use: `OrderByLimit(S, n, leq)`
is the set of results that `ORDER BY leq LIMIT n` may return. `MCOutboxPublisher`
adds an environment in which events are inserted in their order. `ConsumerGroup` is the
part of Kafka that both consuming services share: the partition, its owner, the
committed offset and the consumers' positions; what is committed, and when, is
left to the services' modules.

How the modules are related:

```
 BillingLedger ◄─ implements ─ UsageService ──┐ extended by
                                               ▼
 Relay ◄─ implements ─ OutboxPublisher      Pipeline
   ▲  ◄── implements ─ BillingProcessor        │
   └──────────── instantiated twice ───────────┘
 ConsumerGroup ◄─ extends ─ BillingProcessor, AnalyticsExporter
```

A definition whose name has a suffix after an underscore (`BilledRow_ClockAtCommit`)
is a mistaken variant of the definition of that name. No specification uses it:
substituted for the original, it makes the property named in `PROJECT.json` fail,
which shows that the property depends on that piece of code.

### UsageService

State: `sessions` (table `usage_sessions`), `outbox` (billing chunks of
`outbox_events`, in commit order), the time `now`; and for every goroutine a
program counter, the rest of its batch (`todo`), its copies of rows (`held`), a
scanner's `cursor` (`lastID`), whether a finisher's batch was full (`more`) and
the chunk of the open transaction (`txn`).

| Action | Code |
|---|---|
| `GenerateBulkActiveSessions` | `GenerateBulkActiveSessions`, `CreateSession`, one session per step |
| `ScanCount`, `ScanNothing` | start of `ScanAndCreateOutboxEvents` |
| `ScanFetch` | `GetUnbilledUsageSessionsAfterCursor` |
| `ScanBegin` | `CreateOutboxEvent` up to the payload: `from`, `to`, sequence of the *copy* |
| `ScanCommit` | insert, update, commit; `lastID` advances |
| `ScanError`, `ScanSkip` | `CreateOutboxEvent` returns an error, once or for a session in `Failing` every time; the loop goes on, `lastID` stays |
| `ScanAbort` | the query for the next page fails |
| `FinishCount`, `FinishNothing`, `FinishFetch` | `FinishActiveSessions` |
| `FinishRead`, `FinishStamp`, `FinishCommit` | `FinishSession`: read; `time.Now()` and chunk; update, insert, commit |
| `FinishError`, `FinishSkip`, `FinishAbort` | errors of the two loops |
| `Crash` | a replica stops and starts again |

A commit is one step because the transactions change one session's row, which
their `UPDATE` locks until the commit, and one new row nobody else sees before;
under READ COMMITTED a blind `UPDATE` overwrites whatever was committed before. A
failed commit leaves both outcomes open. `last_billed_at` is never NULL because
`CreateSession` always sets it; `billing_status` changes only together with
`status` and is left out, as are resource figures. The creator's sessions started
`StartAges` ago (two to nine hours in the code). The clock may stand still
between steps, so two reads of it may be equal. `Clock(p)` is what `time.Now()` returns
to goroutine `p`: the replicas in `Slow` are `Drift` behind, and since the queries
take `now - interval` as a parameter, they use that clock too.

In the service, a replica runs one scanner and one finisher.

### BillingLedger

What a downstream service would like to rely on: per session an account with
entries that are contiguous, without overlap, numbered 1, 2, 3, ..., closed by
the last one. The entries of all accounts are written to one journal. `broken` are the
accounts to which a writer with outdated knowledge has made an entry: this and what
follows may be anything (`Break`), but one entry at a time, in its own account, and the
other accounts stay sound. `Pipeline` maps to it by `Ledger` (status to the account's state,
`last_billed_at` to how far it is paid, the outbox to the journal, `raced` to `broken`), and
`ImplementsLedger` says that every step is a ledger step or changes nothing.

### Relay and Pipeline

`Relay` says what a stage promises to its neighbours: it passes items on from input
to output, perhaps repeatedly and in any order, invents none, takes none back and
records only what it has passed on. `OutboxPublisher` implements it from the rows of
`outbox_events` to the topic, `BillingProcessor` from the topic to Metronome
(`ImplementsRelay` in both).

`Pipeline` is `UsageService` with two relays behind it and Metronome at the end:
`sent` (the topic), `submitted` and the bag `charged`. That the two services are no more
than relays is no result of this module but its abstraction; the results are the
`ImplementsRelay` of their own modules.

| Action | Code |
|---|---|
| all of `Next` | usage-service |
| `Publish` | `processOnce` for an event that `validateBillingChunk` accepts |
| `Submit` | `SendToMetronome`, with the id of `BuildMetronomePayload`; Metronome collapses submissions with one id |
| `SubmitAgain` | repeated deliveries that pass the idempotency check |

An event is named by its place in the outbox, which stands for `event_id`.

The design says that a session "is only processed by a single worker" (DESIGN.md:30-32).
The code does not see to it, and `PipelineSpec` is the code: scanners and finishers of all
replicas take their steps in any order. A history variable, `raced`, records the sessions
to which this has done harm: those written by a goroutine whose copy of the row is not the
row any more, or that bills a session which is not active any more (`Outdated`). No action
depends on it. The properties with a name in `Unraced...` say what the code keeps for every
other session, while goroutines interleave in any way, fail and crash:
numbers are not repeated, no time is charged twice, no chunk passes the end, and all time of
a session that has ended is charged for. They also say that nothing but an outdated
write can break any of it.

`UnchargedIsCollision` speaks of all sessions, raced or not. A session counts some time as
billed (`BilledTime`: up to `last_billed_at`, and to the end if there is one). When all its valid
chunks have been submitted, an instant of that time is either in a chunk that was charged for, or
in one that was *displaced*: another chunk of the session with the same number was charged for
instead.

### OutboxPublisher

State: `row` (`published_at` of each event, or absent), `processed`
(`processed_outbox_events`), `topic`; and for every worker the rows its transaction
locks (`lease`), the rest of its batch, `successIDs` (`success`) and its
uncommitted rows of `processed_outbox_events` (`claimed`).

| Action | Code |
|---|---|
| `InsertOutboxEvent` | usage-service commits an event, in any order of `created_at` |
| `ResetRandomPublishedOutboxEvents` | the injector |
| `Lease`, `LeaseNothing` | `GetUnpublishedOutboxEvents`; `workerLoop` sleeps on an empty lease |
| `SkipProcessed`, `SkipInvalid`, `CheckIfProcessed` | the three outcomes before the send, per event |
| `CheckError` | a failed statement: PostgreSQL rejects every later one of the transaction |
| `Produce`, `ProduceError` | `ProduceBillingChunk`; up to `MaxAttempts` writes may arrive |
| `InsertProcessed`, `InsertProcessedError` | the record of the event, with its unique key |
| `Commit`, `CommitError` | `BatchMarkOutboxEventsPublishedTx` and commit |
| `ReplayFetch`, `ReplaySend`, `ReplayError` | `replayOnce` |
| `Crash` | a replica stops, rolling back; shutdown does not wait for the workers |

All events belong to one sandbox, hence to one partition. Whether a payload
decodes and validates is the constant set `Invalid`.

### BillingProcessor

State: one partition `topic`, the group's `committed` offset and `owner`, each
consumer's `position` and `pending` (handed to the background commit), its `pc` and
`msg`; `processed` (`processed_billing_events`), `metronome` and `billed` (the topic
`billing-processed`).

| Action | Code |
|---|---|
| `DeliverBillingChunk` | the publisher writes a message, possibly a duplicate |
| `ReadMessage`, `ReadNothing`, `ReadTimeout` | the read loop of `StartConsumer` |
| `FlushCommit` | the ticker of `CommitInterval` in kafka-go |
| `Rebalance` | the group assigns the partition anew; the old owner is not interrupted |
| `CheckIdempotency`, `SendToMetronome`, `PublishBillingProcessed`, `InsertProcessedBillingEvent`, `Commit` | the steps of `ProcessBillingChunk` |
| `PublishError`, `ProcessError` | its error returns, which the loop only logs |
| `Crash` | a replica stops and starts at the committed offset |

The insert waits while another transaction holds an uncommitted row of the same
event (`Blocked`). Building the payload changes nothing and cannot fail for a chunk
that the publisher has encoded.

### AnalyticsExporter

State: that of `ConsumerGroup`; each consumer's `pc` and the offset it has in `hand`;
`exported`, in order; `expired`, the consumers whose generation a rebalance has ended while
they commit; and `origin`, where the group began when it had no offset.

| Action | Code |
|---|---|
| `PublishBillingProcessed` | the processor writes a message, possibly a duplicate |
| `FetchMessage`, `CommitMessages` | the two halves of `ReadMessage` without a `CommitInterval` |
| `ExportToClickhouse`, `ExportError` | the export; an error is logged |
| `FetchError`, `CommitError`, `CommitRejected` | an error of `ReadMessage`: `StartConsumer` returns and nothing starts it again |
| `Rebalance` | the group assigns the partition anew, perhaps to the same consumer; at `LastOffset` while it has no offset |
| `Crash` | the process stops and starts again, by itself or by an operator |

## 4. Model checking

Bounds: every module has named bounds on its environment (`MaxTime`, `MaxFaults`,
`MaxResets`, `MaxReplays`, `MaxDeliveries`, `MaxRebalances`); nothing bounds what the
services do. Faults are failed calls, repeated or lost writes and crashes.
Deadlock is checked in every run but `AnalyticsExporter_group`, where all consumers may
have stopped for good.

| Run | Instance | Properties |
|---|---|---|
| `UsageService_race` | 3 sessions, one of which always fails, a scanner with a slow clock and a finisher that crash apart, pages and batches of 2, 3 instants, 1 fault | `TypeOK`, `NoUsageGap`, `NoSequenceHole`, `EndIsFinal`, `UnbilledIsBilled`, `ActiveIsFinished` |
| `Pipeline_race` | 1 session, 2 scanners (one on a replica with a slow clock), a finisher, 3 instants, 1 fault | `UnracedIdsUnique`, `UnracedChargedOnce`, `UnracedEndIsKept`, `UnracedIsDelivered`, `UnchargedIsCollision`, `ImplementsLedger`, `UnracedIsCharged` |
| `OutboxPublisher_replicas` | 3 events, one invalid, 2 workers, replayer, 2 replicas, batches of 2, 2 faults | `TypeOK`, `PublishedWasDelivered`, `ClaimIsFresh`, `DuplicatesHaveCause`, `ResetIsSilent`, `ImplementsRelay`, `ValidIsPublished` |
| `BillingProcessor_group` | 2 consumers, 3 messages of 2 events, 2 rebalances, 1 fault | `TypeOK`, `ProcessedWasSubmitted`, `ResubmissionHasCause`, `LossIsBounded`, `ImplementsRelay`, `DeliveredIsProcessed` |
| `AnalyticsExporter_group` | 2 consumers, 3 messages, 2 rebalances, 2 faults | `TypeOK`, `ReexportHasCause`, `LossIsBounded`, `MessageIsReached` |

Why these sizes: a race on a session needs one session and two goroutines, a page
boundary one session more than the page, a lost message or a lost update one
fault, and a repetition of it a second; a clock that is behind needs one other
that is not. Three instants let a session be created, billed and finished at
different times. The `Interval` is 1, so that a session billed at an instant is
not unbilled at once. The exporter has one event id because it never looks at it.

In `UsageService_race` three sessions and a limit of 2 cut off both loops' pages, and the
session that always fails can take a place in any of them: a scanner's cursor passes a session
that is due again, and a finisher's full batch of one success and one failure is followed
by another. Both must come back to what they left behind. A second scanner would
multiply the run beyond its time; two scanners race in `Pipeline_race`, and the safety
properties are theorems for any number.

`Pipeline_race` has one session, because what two of them could share, a goroutine's loop, is
in the other run: with two sessions and two scanners the relays, which are fully nondeterministic
and include every repetition and reordering the two services can produce, make it too
large. Two sessions with one scanner have been checked too (`MaxTime = 2`, 959 thousand states),
with the same result, and the theorems of `PipelineProofs` are for any number of both.

What holds although it is not obvious: scanners and finisher race, without locks and
with clocks that disagree, and yet no usage is lost and no sequence number
skipped (`UsageService_race`): a goroutine only ever moves a session's
`last_billed_at` to the end of a chunk it inserts in the same transaction, and that
chunk begins where an earlier row said, which is covered too. A clock that is
behind moves `last_billed_at` back, and the usage in between is billed once more,
never left out. No racing goroutine makes a scanner pass over a session for ever, and a
failing session does not harm those that have a sound one with them in their page; it does
harm to others when a page has nothing else in it, since the scan gets stuck on it
(`UsageService_stuck_scan`). A single finisher never reopens or re-ends a session. With two
finishers that no longer holds, since both write the end they computed; that is why
`EndIsFinal` is checked with one.

Two harms come from the races, and neither needs a failure, a second replica or a slow clock.

- *Undercharge.* Two chunks of a session get the same number, Metronome keeps one, and the
  time that only the other covers is not charged (`Pipeline_undercharge`). By
  `UnchargedIsCollision` this is the only way in which submitted time is not charged for: no
  cursor, cap, retry or crash loses a charge in another.
- *Overcharge.* A finisher reads a session at number 0; before it commits, two scans bill the
  session as chunks 1 and 2; its own chunk, also number 1, covers the time of both. If this
  reaches Metronome before the scanner's chunk 1, which nothing on the way prevents, that
  one is dropped, but chunk 2 is charged as well: its time is charged twice. In
  `Pipeline_race`, and with one scanner and one finisher on one replica without faults too, TLC
  finds this when `UnracedChargedOnce` is stated for all sessions. DESIGN.md:56 rules out
  "duplicate customer charges". Metronome's deduplication does not help: it knows the
  numbers of chunks and not their periods.

The publisher never violates its own unique key and never marks what it has not
sent, whatever fails. The billing processor loses at most one message per failure,
and so does the exporter, of what the group has passed since it began. An exporter
whose commit is rejected after a rebalance ends; the partition moves to another,
until none is left. `MessageIsReached` says "while not every consumer has stopped", for
rebalances alone, without any failure, can stop them all: a rebalance ends the generation
of everybody, so that even the owner's commit on its way is rejected if the partition
stays with it.

`ResetIsSilent` is how the code treats a reset event: no worker sends what is in
`processed_outbox_events`. It is what README.md:24 wants ("without redundant re-publishing"), and
the opposite of what the comment on the injector and README.md:28 say, which
`OutboxPublisher_reset` refutes. Only the replayer produces duplicates on purpose.

DESIGN.md:44 says that "an already-seen event_id is skipped before any external side
effect occurs". The code keeps less: after a rebalance two consumers may be between check and
record with the same event, and the second submits and publishes what the first has
recorded meanwhile. `ResubmissionHasCause` counts these submissions: one at most for
every rebalance.

### Runs that end in a counterexample

Each states what the documentation says, and TLC refutes it.

| Run | Said | Found |
|---|---|---|
| `Pipeline_undercharge` | DESIGN.md:56: no "lost billing events or duplicate customer charges"; DESIGN.md:30-32: a session "is only processed by a single worker" | scanner and finisher read the same row; both chunks get one transaction id, Metronome keeps the first, and the time that only the other covers is never charged. No failure is needed |
| `UsageService_past_end` | comment at `outbox/service.go:159`: "bill until endAt" | a session finished after the scanner's fetch is billed beyond its end |
| `UsageService_stuck_scan` | comment at `outbox/service.go:122`: "Continue processing other sessions" | a page in which every session fails is fetched again for ever, and what lies before the cursor is not billed any more |
| `OutboxPublisher_order` | DESIGN.md:34, publisher README:157: ordering per sandbox | two workers lease two events of a sandbox, the later one is sent first |
| `OutboxPublisher_starvation` | publisher README:119: an invalid event "is skipped" | it is leased again for ever; a full batch of them starves the others |
| `OutboxPublisher_reset` | comment at `outbox/service.go:236-237`, README.md:28: reset events are re-emitted as duplicate deliveries | a reset event is found in `processed_outbox_events` and marked published again; no second message is sent |
| `BillingProcessor_offsets` | DESIGN.md:36 and 52: offsets only after successful processing | the offset is committed while the message is being worked on |

### Fairness

Weak fairness of the normal steps of every goroutine, as one action per goroutine:
the loops run on tickers, or without a pause, until the service stops, and every
call they make has a timeout or an answer. Nothing is assumed of faults, crashes,
the creator, the injector, the replayer, background commits, rebalances or the
clock. A step that is always enabled (`ScanNothing`, `LeaseNothing`, `ReadNothing`)
changes nothing and stands for an idle iteration. `DeliveredIsProcessed` excepts
behaviours with failures because a failure does lose a message
(`LossIsBounded` says how many); `ValidIsPublished` holds only while the invalid
events do not fill a batch.

`UnbilledIsBilled` assumes fairness of the scanners alone (`ScannerFairSpec`): finishers
may interfere or be stuck. `ActiveIsFinished` is checked in the same run and so names what
it needs beyond that, `FinisherFairness`, as a hypothesis. In `Pipeline`, all goroutines are
fair, and `DeliveryFairness` says that a valid chunk is
sent and a sent one submitted in the end; the first is `ValidIsPublished`, the second
`DeliveredIsProcessed`, which holds as long as no failure hits the message: so
`UnracedIsCharged` speaks of what usage-service contributes, and losses of the processor
are counted by its `LossIsBounded`. In `AnalyticsExporter`, a partition whose owner has
closed its reader is assigned to another consumer that runs: the group protocol does so.

## 5. Proofs

`UsageServiceProofs` proves for every set of sessions, scanners, finishers and
replicas, every batch size, interval, clock and number of faults, from the assumptions on the
constants in `UsageService` alone:

- `TypeCorrect`: `Spec => []TypeOK`
- `UsageIsNotLost`: `Spec => []NoUsageGap`
- `SequencesAreDense`: `Spec => []NoSequenceHole`
- `EndsAreFinal`: `OneFinisher => (Spec => EndIsFinal)`

The first three follow from one inductive invariant, `IndInv`. `NoUsageGap` and
`NoSequenceHole` are not inductive: what a goroutine will commit depends on a
copy that may be older than the table. The strengthening is that *every copy is
backed*: a row, present or past, is *backed* by the outbox when the chunks in it
cover the time from the session's start to the row's `last_billed_at` (and end)
and contain the row's sequence number. `IndInv` says so of all rows of the table
(`RowsBacked`) and of all copies and transactions of every goroutine (`Safe(p)`).
A commit appends a chunk that begins where a backed copy ends and bears the next
number; it only *adds* to the outbox (`Extends`), so what was backed stays backed, for
the other goroutines too (`OthersSafe`), and the row it writes is backed by the chunks of
the copy and the new one. No assumption that a session has only one writer is
needed, which is why the theorem holds where numbers are repeated. The
proof has a type lemma and a safety lemma for the scanner's steps, the
finisher's and the others, one step per action.

`EndsAreFinal` has the hypothesis that there is at most one finisher, because with two it is
false: both write the end they computed. Nothing restricts the scanners, the replicas or
the clocks. `FinalInv` adds that the sessions of the finisher's batch are still active
(`Chosen`); a scanner's `UPDATE` never touches status and end (`BilledRow`), so
nobody but the finisher itself can take that away, and it drops a session from its
batch in the step that ends it.

`OutboxPublisherProofs` proves for every set of events, workers, replayers and replicas,
every batch size, number of attempts of the Kafka writer, and number of faults,
resets and replays:

- `TypeCorrect`: `Spec => []TypeOK`
- `OutboxLosesNothing`: `Spec => []PublishedWasDelivered`
- `ClaimsAreExclusive`: `Spec => []ClaimIsFresh`
- `ResetsAreSilent`: `Spec => ResetIsSilent`
- `PublisherIsRelay`: `Spec => ImplementsRelay`

Neither of the two invariants after `TypeOK` is inductive. `PublishedWasDelivered` breaks if
a worker may commit a mark for an event it never sent; `ClaimIsFresh` breaks if an event may become
processed between one worker's check and its insert. Both gaps are closed by the row
locks. `IndInv` adds that the leases of two workers are disjoint
(`LeasesDisjoint`) and, for each worker (`Held`), that its leased rows are
unpublished, that it will mark only what is processed or what it claims itself, that it
claims only what is in the topic, and that the event in hand is not processed. An
event becomes processed only by the commit of the worker that leases it, so a
commit disturbs nobody else's `Held`; the injector changes only published rows, which
nobody leases. `WorkerFrame` states that argument once, as what a step must leave
alone, and the lemmas with a name in `...Safe` discharge it action by action.

`ResetsAreSilent` is a consequence for single steps: a worker that sends has an event
in hand that is not processed, and the injector has no part in that.

For `PublisherIsRelay`, every step seen from outside inserts rows, sends one event of the
outbox, records what was sent, or shows nothing (`RelayStep`). A worker sends what it has
leased, so the invariant above is enough for it; a replayer works from a list that may be
old, which is why `RelayInv` adds that such lists contain only events of the outbox
(`ReplaysInserted`), where rows never disappear.

`OutboxPublisherDuplicatesProofs` proves `RepeatsHaveCause`: `Spec => []DuplicatesHaveCause`.
The bound on the copies of an event is not inductive: it says nothing of the copies that are
still to come. `Caused(e)` adds them: the copies in the topic, one for every replayer that
has the event on its list (`InFlight`), and one that the workers owe as long as the event
is not settled, i.e. neither processed, nor claimed, nor sent by a worker that is about to
claim it (`Owed`), are together no more than one plus the failures and replays. A send
turns what was owed into a copy; a rollback makes a sent event owed again, which costs a
failure. That no other worker makes it owed again is where the leases come in.

`BillingProcessorProofs` proves, for every set of events and consumers and every number
of deliveries, rebalances, attempts and failures:

- `TypeCorrect`: `Spec => []TypeOK`
- `RecordsFollowCharges`: `Spec => []ProcessedWasSubmitted`
- `ProcessorIsRelay`: `Spec => ImplementsRelay`

The inductive invariant follows each consumer through its work (`OnTheWay`): past the
read loop its message is one of the topic, past the submission it is in Metronome, and
past the publication it is on `billing-processed` unless something has failed.
Offsets play no part in it: wherever a rebalance or a crash puts a consumer, it
takes its next message from the topic and starts its work from the beginning.

`BillingProcessorCausesProofs` adds what does depend on offsets:

- `ResubmissionsHaveCause`: `Spec => []ResubmissionHasCause`
- `LossesHaveCause`: `Spec => []LossIsBounded`

Losses cannot be counted when an offset is committed, since the commit comes from a ticker
and may come at any time. `LossInv` counts them from the fetch: whatever any consumer has
read (`Read`) is processed, in hand, or one of at most `faults` events (`Lost`). A fetch
puts the event in hand, a failed step drops at most one, and the commit of an offset
adds nothing that was not read. Repeated submissions are weighed as in the publisher: the
submissions an event has had, the former owners which still have it before submission
(`Late`), and one which the owner of the partition may still make (`Owed`), are together
no more than one plus failures and rebalances. A rebalance turns the owner into a former
owner and may let the new one read the event again: it costs one of its own.

`AnalyticsExporterProofs` proves, for every number of consumers, messages, rebalances, restarts
and failures:

- `TypeCorrect`: `Spec => []TypeOK`
- `ReexportsHaveCause`: `Spec => []ReexportHasCause`
- `LossesHaveCause`: `Spec => []LossIsBounded`

The argument is that of the processor turned round, because the exporter commits first. A
message is *passed* (`Passed`) when the group will not come to it again without a
rebalance; passed messages are exported, in hand, or lost by a failure. For repetitions,
`Late(i)` are the consumers that will export offset `i` or whose late commit will put the
group back before it, and `Ahead(i)` says that the owner has it before it. What a crash
between commit and export loses can therefore not be exported twice: failures do not
appear in `ReexportHasCause`.

`PipelineProofs` proves, for every set of sessions, scanners, finishers and replicas, every
number of failures and crashes and all clocks, of `PipelineSpec`, where they race:

- `OnlyRacesRepeatIds`: `PipelineSpec => []UnracedIdsUnique`
- `OnlyRacesChargeTwice`: `PipelineSpec => []UnracedChargedOnce`
- `OnlyRacesLoseCharges`: `PipelineSpec => []UnracedIsDelivered`
- `OnlyCollisionsLoseCharges`: `PipelineSpec => []UnchargedIsCollision`
- `OnlyRacesPassEnds`: `FinishersOnTime => (PipelineSpec => []UnracedEndIsKept)`
- `OnlyRacesBreakLedger`: `FinishersOnTime => (PipelineSpec => ImplementsLedger)`

None of them assumes anything of who works when. `WorkInv` sharpens the invariant of
`UsageServiceProofs`. Of every goroutine it says what it has in hand (`InHand`): a chunk that
begins where *its copy* ends and bears the next number (`FromCopy`), and a batch of active rows
billed no later than its clock. That depends on nobody else, so no step of another can take it
away (`Moves`); only the commit compares the copy with the table. If both agree, the
chunk continues the account (`AccountSound`: the chunks of the session are numbered up to the
row's number, in order, without overlap, up to `last_billed_at`); if not, the session becomes
raced. A commit of unknown outcome or a crash does no harm: all that matters is the
row at the commit. `Delivered` adds that only valid chunks of the outbox are charged, each
once, and that for each chunk that was submitted one with its transaction id was charged.

`OnlyCollisionsLoseCharges` says of raced sessions too how a charge can be lost. The
outbox only grows, so what has been sent stays what it was; that usage-service loses no usage
(`RowsBacked`) then reaches to Metronome: billed time is in a chunk, the chunk is not empty and so
is valid, and it, or one of its id, was charged. `OnlyRacesLoseCharges` is this together
with the uniqueness of the ids, and so the safety half of `UnracedIsCharged`; what is left
to TLC is that the chunks are submitted at last.

`FinishersOnTime` (no finisher's replica has a clock that is behind; scanners' may) is a
hypothesis only where it is needed. Without it, and without any race, a finisher can end a
session before what a scanner has already billed, with a chunk of negative length. Such a chunk
does not pass `validateBillingChunk` and nobody bills the session after it, and a scanner
never moves an account back, because it selects sessions by the clock it stamps them with:
that is why `OnlyRacesChargeTwice` holds even then.

`CountingLemmas` has what these proofs need about sizes of sets and the number of times a
value occurs in a sequence, over the theorems on finite sets of the library.

With that, a theorem states every invariant, every action property and every refinement
that a passing run checks. Their hypotheses are the named assumptions on the
constants, and where a theorem says so `OneFinisher` or `FinishersOnTime`; the instances of the
passing runs satisfy them where the property is checked.

Only model-checked: liveness, since the prover handles neither fairness nor
`ENABLED`: `UnbilledIsBilled`, `ActiveIsFinished`, `UnracedIsCharged`, `ValidIsPublished`,
`DeliveredIsProcessed` and `MessageIsReached`. And, of course, the counterexamples.

## 6. Not modelled

- The migration service, configuration, wiring order at start-up: I/O that happens once.
- The connector's consumer (`StartConsumer`, `ConsumeBillingChunks`, `ConsumeMessages`,
  `ReadMessage`, `CommitMessage`), `ProduceBillingChunkBatch` and `ProduceMessage`: no service calls
  them; both consumers make a reader of their own. Whoever starts to use them should
  note that the comments at `connector.go:250` and `:258` ("message will be reprocessed") hold only
  until a later message of the partition is committed, since a commit covers all
  offsets before it.
- Queries without a caller in `pkg/repository/sql`.
- Deduplication by the exporter: DESIGN.md:12 says that it deduplicates by `event_id`; the
  code has nothing that would, so there is nothing to model.
- Retention and compaction of topics, and what happens when an offset is no longer
  there.
- Time zones and the precision of stored timestamps.
- `retry_count` and `last_error` of `outbox_events`: no code changes them.
- Several partitions: they share only the consumers, and no property relates them.
- Sessions that fail every time and fill a batch of the finisher: it would fetch the
  same batch for ever, as the scanner does in `UsageService_stuck_scan`. The runs keep
  them fewer than a batch.
- `chunkIDs`: it splits one UPDATE of the commit into several of the same transaction.
