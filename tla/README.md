# A formal model of PropertyAI

TLA+ specifications of the core of PropertyAI, the TLC runs that check them on
small instances, and TLAPS proofs of what matters most for every instance. Paths
are relative to the repository; `V103` ... `V112` stand for the files
`db/v2_2_1/migration/V20260904.103__...sql` ... `.112__...sql`.

## 1. The system

PropertyAI runs short-stay properties: it reads Airbnb's mails, keeps
reservations and their checkout cleanings, offers cleanings to cleaners over
Telegram, and shows the result in Notion, Google Calendar and Telegram. Since the
cutover PostgreSQL is the authority for cleaner scheduling; what it decides
leaves through an *integration outbox* that a worker delivers. A second, newer
part keeps the rent of long stays as a ledger.

| Component | State | Operations | Hard behaviour |
|---|---|---|---|
| cleaner commands (`application/cleaner_pg.py`, `adapters/postgres/repository.py`, V103-V105, V107) | reservation, cleaning, schedule revisions, offers, assignments, exception cases, receipts, events | nine commands, one transaction each | stale buttons, replays, schedule moves under a booking, mail out of order |
| outbox (V106, V107, `runtime/postgres_outbox_worker.py`, `runtime/outbox_reconciliation.py`) | outbox rows with status, attempt, lease, fence, last error | claim, intent, deliver, resolve, fail, reap, cancel, evidence recovery | crash between send and record, reclaim, lost answers, late writers |
| projection adapters (`runtime/cleaner_projection_*.py`) | resource bindings; Notion pages, events, messages | find, create, update, retire, bind, rebind | partial failure, stale reads, gone resources |
| writer lease (`global_writer.py`) | lease and fencing token of an external service | acquire, heartbeat, assert, release | expiry between assertion and effect |
| ingress (`gmail_ingest/*`, `telegram_approval/cleaner_pg_ingress.py`) | queue files, action files, polling offsets | poll, parse, ingest, press, decide | crash between two files, retries, head-of-line stops |
| legacy Telegram flows (`telegram_approval/*`) | JSON request files and append-only ledgers | assignment, unavailability, reassignment, access, completion | multi-step external mutations resumed from a file |
| rent ledger (`application/handlers/rent.py`, `domain/finance.py`, V109-V112) | terms, charges, receipts, allocations, refunds | serializable commands with idempotency keys | conservation of money, unknown commit results |
| recurring billing (`application/recurring_rent.py`) | a cycle over the ledger | look up, dispatch, retry | double billing |
| SQLite effect store (`adapters/sqlite/store.py`), scheduled-action queue (V107) | command and effect queues | claim, heartbeat, complete, fail, recover | stale claims |
| stage B (`stage_b/*`) | snapshots and population of the new schema | backfill, reconcile, cut over | authority change under running writers |
| web, runtime tools, health, drive, RAG | sessions, artifacts, files | requests, backups | mostly I/O |

Interactions. A mail or a button becomes a command; the command's transaction
writes the business rows, a domain event and outbox rows together. The worker
claims a row, asserts the writer lease, records its intent, calls the adapter of
the row's destination and records the outcome. Adapters read the current
business state and the bindings, never the payload's copy. Operators see a row
parked as `PENDING_RECONCILIATION` and resolve it with evidence from the
provider.

What makes each part correct is stated as the properties below; every hazard we
found, with its line and the properties that cover it, is in `PROJECT.json`.

## 2. Modules

| Module | What it is |
|---|---|
| `OutboxPromise` | what the outbox promises for each row: queued, attempted at most once at a time, then delivered, dead, cancelled or parked, with a truthful status |
| `CleanerOutbox` | the outbox: the SQL state machine, the worker, the recovery service, the provider and the writer lease; implements `OutboxPromise` |
| `CleanerOutboxInvariant`, `CleanerOutboxProofs` | the inductive strengthening of its invariants, and the proofs |
| `CleanerScheduling` | the nine scheduling commands over the rows they change |
| `RentBilling` | the recurring rent worker and the operators over one contract's charges |
| `RentLedger` | the money commands: receipts, allocations, adjustments, voids, refunds, corrections |
| `GlobalWriter` | the production writer lease; the next four modules extend it |
| `Projection` | the Notion pages and the calendar event of one reservation, brought up to date from outbox rows |
| `PropertyAccess` | a cleaner asks for a property, an operator decides, both are told |
| `LegacyAssignment` | the Notion assignment flow of one cleaning |
| `BookingBridge` | one reservation's mails on the Notion route, and its approved cancellation |
| `StageBBackfill` | capture, load and reconciliation of the new schema |
| `...Proofs` | the inductive invariants of the modules above and the proofs (section 4); `PropertyAccess` and `StageBBackfill` share `AccessAndLoadProofs` |
| `MC...` | the constants of each module for TLC |

`Projection` and `CleanerOutbox` meet at the row: what is one attempt of
`CleanerOutbox` is a walk over the row's resources in `Projection`, which keeps
of the row only whether its delivery was confirmed. `BookingBridge` ends where a
cleaning is offered, which is where `LegacyAssignment` begins. `RentBilling` issues
the charges that `RentLedger` starts with.

### 2.1 CleanerOutbox

State. `rows` is `integration_outbox` (status, attempt_count, the fence, the lease,
the last error, the receipt); `procs` is each worker or recovery
process with what it remembers of its row; `inFlight` and `effects` are the
provider's side: requests that left and were not yet applied, and how often each
row took effect.

Actions follow the code's steps between two things that can be interrupted: a
transaction, a call to the provider, a check of the lease.

| Action | Code |
|---|---|
| `Claim` (claims and reaps) | `claim_integration_outbox` V107:935-1001 through `claim_outbox` |
| `FailClaim` | the adapter cannot be prepared: `fail_integration_outbox` |
| `BeginDelivery` | `begin_outbox_delivery`: the row becomes `PENDING_RECONCILIATION` *before* the request leaves |
| `Send`, `RefuseToSend`, `ConfirmNoOp`, `FindApplied` | the outcomes of `deliver` |
| `ReceiveReceipt`, `LoseAcknowledgement` | the answer arrives, or an exception does |
| `ResolveDelivery` | `resolve_outbox_reconciliation_exact`, comparing the whole row |
| `EnterRecovery` ... `ResolveByEvidence` | `GeneralOutboxReconciliation.resolve` |
| `Cancel` | `cancel_integration_outbox` |
| `ProviderApplies`, `RequestLost` | external: the provider applies a request at any later time or never |
| `LeaseExpires`, `RetryBecomesDue`, `WriterLapses`, `Crash` | time, and processes that die anywhere |

Abstractions. All processes run with one `WORKER_ID`, so the owner comparison of
the SQL is always true and the fence alone separates attempts. "Legacy"
rows are the RUNNING rows that a worker from before the intent step left behind
(comment at `postgres_outbox_worker.py:122`). `AbsenceProven` is the contract of
the provider evidence port: its implementation is not in the repository. A
Telegram row with a permit can never resend (the adapter refuses attempt > 1).
`complete_integration_outbox`, which the service does not call, and the one-time
exact reconciliation are not modelled; rows start PENDING.

### 2.2 CleanerScheduling

State. One reservation and its checkout cleaning share a name, since
`CLEANING-AIRBNB-<code>` is unique. Campaigns, assignments and requests are
sequences by their number; a campaign carries its one candidate.
`reconciliations` holds PENDING cases only: nothing in the code resolves
one. `receipts` are the keys used, `events` counts the domain events of a key.

Each command of `CleanerPostgresApplicationService` is one action, receipt,
business rows and event together. That is sound: every row a command decides on
is read `FOR UPDATE` or guarded by a unique index, the cleaning row is locked
before a number is taken, and a transaction PostgreSQL aborts changes nothing. A
command that raises rolls its receipt back and has no action. A command that
finds its work done *commits its receipt* and emits nothing: `NothingToDo`.

Any command may arrive at any time about any row that ever existed (`Press`):
buttons stay in the chat. `Buttons` are action records, which give a command its
key; `Mail` gives the messages and `sent` their order, which ingestion does not
follow.

Abstractions. The service window and the minutes are functions of the check-out,
and two slots overlap when they have the same check-out. Fees are left out.
`accept_assignment` does not look at `acceptance_cutoff_at`, so the model has no
clock. The authority epoch is current; the cutover's `require_absent` path is not
modelled. Rows of the outbox are `CleanerOutbox`'s concern. `open_assignment_offer`
has no caller but tests; it is modelled as a command anyone may send.

### 2.3 RentBilling

State. `charges` are a period's rows of `finance_receivable`, oldest first;
`receipts` the rows of `finance_command`; `revision` the ledger scope's counter,
which every business write raises; `txn` the one transaction that holds the
scope's row lock (`rent_lock_scope`) between its last statement and the server's
COMMIT. A worker's locals are `cmd`, `attempt`, `dueSeen` and die with its
evaluation; `sent` is a history variable: what became of the command this
evaluation sent.

| Action | Code |
|---|---|
| `Start`, `Lookup`, `Preview`, `Compose`, `Reconcile`, `Retry`, `FailToRead` | `RecurringRentWorker._evaluate` and `issue_from_scheduler`, cut wherever a transaction ends |
| `Replay`, `Refuse`, `SendCommit`, `FailToRun` | `run_command` up to COMMIT |
| `ServerCommit`, `ServerAbort`, `LoseConnection` | the three fates of a COMMIT, heard or not |
| `Draft`, `Resend` | a request to the rent API, and the same request again |
| `ReviseContract`, `OtherWrite`, `DayComes`, `Crash` | the rest of the organization, time, and a worker that dies |

A `Draft` may issue after any predecessor, right or wrong, or void a live charge. The
unique indexes `uq_rent_active_period` and `uq_rent_root_period` are *not* guards
of the model: `BilledOnce` shows the handler never runs into them.

Abstractions. One contract; other contracts and periods are seen only through
`revision`. A fingerprint is the contract's version, which `calculate_rent` puts
into every snapshot. `created_at` orders a period's charges as their commits do,
since a command that passes the revision check began after the charge before it
was committed. A serialization failure is retried inside `run_command`; only
exhausting the three tries is a step. A voided charge's allocations, which the
same command reverses, belong to `RentLedger`.

### 2.4 RentLedger

State. `ledger` holds the rows of the finance tables, ids being row numbers;
`revision` counts committed commands; `caught` is a history of the checks of
`rent_check_ledger` that had to refuse a command the service let through.

| Action | Code (`application/handlers/rent.py`) |
|---|---|
| `RecordReceipt`, `Allocate`, `CorrectAllocations` | `_record_receipt`, `_allocate`, `_correct_allocations` |
| `AdjustReceivable`, `VoidReceivable` | `_adjust_receivable`, `_void_receivable` |
| `CorrectMovement`, `ReplaceMovement` | `_correct_movement`, `_replace_movement` |
| `RecordRefund`, `CorrectRefund` | `_record_refund`, `_correct_refund` |
| `Commit` (in each) | the deferred `rent_check_ledger` (V111), which has the last word |

A command is a SERIALIZABLE transaction under the organization's scope lock that
names the revision it was composed from, so it is atomic here; `RentBilling`
shows that protocol open. A command works on staged ledgers, one for each
statement that a later check reads back. Accounts, payers, dates, reasons and the
preflight fingerprints are left out; an override of the attribution is asked for
only where the code asks for one. Money is bounded by `BigintMax` as the columns
are, and the service's and the database's range checks are both modelled. `Holds` is
the deferred check with its refusals by name; `Keyed` the foreign keys, which only the
starting ledger is asked about: that no command breaks them is part of the proof.

A new attribution under allocations that stand is refused by the deferred check
alone; every other refusal of the database is anticipated by the service
(`ServiceRefusesFirst`).

### 2.5 GlobalWriter

`lease` is whose lease the control server has, `inside` the processes that believe
they hold one. `Enter`, `Exit`, `Die` and `Lapse` are `__enter__`, `__exit__`, a crash
and time; `EnterInVain` is an acquisition the server granted and the process never
learned of. `Current(p)` is `assert_current()`. A process holds at most one lease and takes a new one only
when there is none, so the owner stands for the fencing token. The modules that
extend it name each effect either fenced (asserted just before) or unfenced (a
local file that the code writes without asking).

The assertion and the effect behind it are two things, and the lease may lapse between
them while another process takes it. `Lapse` may therefore leave the process in `passed`:
it was answered and has its effect before it, so `Cleared(p)` lets it make one more, and
`Proceed(p)` takes the credit away as it goes on to its next step. `Projection`,
`PropertyAccess` and `BookingBridge` guard their fenced effects with `Cleared`.
`LegacyAssignment` keeps `Current`: see 2.7.

### 2.6 PropertyAccess

State. The pair's rows in the Notion ledger, its entry in the roster, the delivery
records of each message, the requests that raised and may still be applied, and
the position of the two processes.

`RequestAccess`/`CreateRequest` are the cleaner's button up to the Notion create;
`Decide` and `ResolveRequested`, `ResolveApproved`, `ResolveRejected` the
operator's button from each status the row can be in, one durable write per step;
`TellOperators`, `TellApproval`, `TellRejection` the notification passes with their
record before the message. One pair is enough: every query filters by the pair or
its key. An HTTP request that raises was applied, is applied later (`Land`) or never.

A consequence of writing the record first: a message whose send failed or whose
process died is never sent again (`ToldAtMostOnce` holds, "told at least once"
does not); such a record waits for a person.

### 2.7 LegacyAssignment

State. The cleaning page (Notion 08), the rows of the assignment history (19), the
action files, the leave and notice files, the file lock, and where each process is
in its handler. `Press` takes any button of any message that ever went out;
`Work` is the next durable step of a handler; `TimeOut` passes on an offer;
`PressCancel` cancels the reservation.

Assertion and request are one step here. The handlers hold the file lock
(`assignment_history.py:276-316`, an `fcntl.flock` across processes) from the read to the
PATCH, so whoever takes the lease after a lapse still waits for the lock, and an
effect between the two finds the state the assertion found.

Edition numbers stand for the time Notion last edited the page, which offers and
leave buttons remember and compare. Left out: the reason a cleaner gives, performance events and
the urgent premium, the notification of operators about a reassignment,
completed cleanings, requests that land late, and edits by people.

Seen while modelling, none of them a violated property:

* A retried "reassign original" after that booking ended again answers
  `ALREADY_ENDED` and still rewrites the page, though the history row is released
  (`cleaner_reassignment.py`, around line 545).
* A release whose answer was lost cannot be retried: the retry stops at
  `_assert_exact_history_binding` (`cleaner_unavailable.py:624`).
* An acceptance whose PATCH raised but was applied leaves an accepted page without
  a history row until the button is pressed again.
* An offer whose Telegram answer was lost has no message id; accepting it
  consumes it without effect.
* An unanswered offer expires only in `bot_service.py:928`, which nothing but its
  test calls; the offer's text (`cleaning_assignment.py:152`) promises 24 hours.
* A reassigned original who leaves again is stopped at `_load_accepted_offer`, and a
  committed decision refuses a later replacement for ever.

### 2.8 Projection

State. `changes` is what happened in PostgreSQL, `rows` the outbox rows they
produced, `binding` the page a resource is bound to, `pages` every page there ever
was; `best` the latest state a resource was seen in; `task` what a process
remembers. A state is named by the number of the change that made it.

`Take` and `Reconcile` start the worker on a row and the operator on the first
change's rows; `Deliver` is `Read` (current state and binding), `Look` (find by
binding, by key), `Send` (create or write), `CheckCreated`/`CheckWritten` (read
back), `Bind` (compare and set) and `Finish`, and `LookRetired` for the event of
a cancelled cleaning. `Land` applies a request that had raised; `Trash` is a
person. Pages left by an earlier program may exist at the start. Queries are taken
to see every page: the lag of Notion's index is not modelled.

Two invariants are about `Calm` behaviours (no lapse, nothing late, nothing
trashed): outside them the code does not promise them, and the model has the
counterexamples. With a lapse, two processes may create a page each or a stale
PATCH may overwrite a newer one. Also seen: an acceptance puts no calendar row
into the outbox, so the event shows the status before it; `OFFER_OPENED` has no
Notion row; a crash between creating an event and binding it, followed by a
cancellation, leaves the event orphaned and its row pending, since the
cancellation does not look for an event of its key once it was unbound.

### 2.9 BookingBridge

State. The mails that arrived and were polled, the status of each mail's queue
item, the files of the pending change, notices, offers, door code and approval, and
what Notion, the calendar and Telegram have. `ByHash` is the order in which the
bridge walks its queue: file names are hashes, so a cancellation may be looked at
before its confirmation.

| Action | Code |
|---|---|
| `Arrive`, `Poll`, `SaveState` | `poll_once.py`: items are written before the state that marks the mail as processed |
| `TakeItem`, `Bridge` | `booking_bridge.py`: reserve, clean, book, bind, offer, prompt; update; cancel, ask for approval |
| `Press`, `AnswerPrompt`, `Execute` | the approval and its execution (`lifecycle_actions.py`), the door code |
| `PlanReconciliation`, `StartReconciliation`, `Strike` | `reconcile_cancelled_pre_ingest` |
| `Refused`, `Crash`, `LeaseLapse` | a lease refused, a death, a lapse |

Left out: unreadable and historical mails, a missing listing mapping, CORE_REPLAY,
the 24 hours of a pending change and its time window, query lag, and the PostgreSQL
route, which is `CleanerScheduling`.

Seen while modelling:

* The poller writes a request as PENDING, sends the message, asserts its lease and writes
  the record again with the message id (`lifecycle_requests.py:201-203`), from memory. If its lease
  lapses behind that assertion, the bot can meanwhile take the approval and execute it;
  the late write (`WriteBack`) puts it back to PENDING and a second press executes it
  again. What the execution finds done it leaves alone, except that
  `_send_cleaner_cancellation` (`lifecycle_actions.py:120`) does not ask whether the
  cleaner was told. `SaidOnce` allows that second message exactly when `reopened` records
  such a write, and no third; `CancellationIsWhole` holds nevertheless.
* The operator's reconciliation reads and validates outside the lease, so the poller
  can make the booking live in between and `CANCELLED_PRE_INGEST` then overwrites
  `COMPLETE`.
* The unfenced `RETRY_REQUIRED` (`booking_bridge.py:1020`) of a process whose lease
  lapsed can revive an item that was reconciled meanwhile.
* A process that dies between writing a request's file and sending its message
  leaves a question nobody was ever asked: the retry finds it recorded.
* A cancellation looked at before its confirmation stays `REVIEW_REQUIRED` and the
  confirmation goes live.
* A cancellation names the cleanings of the moment it is proposed; a half-done
  confirmation resumed later makes a live cleaning under a cancelled reservation.
* A failed execution (`RETRY`) has no one who retries it.

### 2.10 StageBBackfill

State. `log` is what the legacy sources held while a scan may see them;
`manifests` the frozen captures with their predecessors; `run` the process at
work; `target`, `binding`, `receipts` the tables; `foreign` the rows somebody else
wrote. A semantic hash is the observation it is the hash of.

`Capture`, `ScanSource`, `ScanAgain`, `ScanFails`, `Freeze` are the extraction until
two scans agree; `Backfill`, `Authorise`, `ApplyRow`, `RefuseRow`, `FinishApply` the
load, a transaction for each row, cleanings in a bootstrap pass first without their
schedule pointer; `Reconcile` the report (R03 to R12); `Edit...` and
`ForeignWrite` the legacy writers and anybody else; `RunDies` a run that dies. The
specification is `LoadSpec`, so that a module can extend this one beside `PropertyAccess`.

Merged or left out: the CLI's preflight extraction; the point read of a row and its
transaction are one step (the read says nothing of the tables, the transaction
nothing of the sources); a campaign stands for its one candidate; edits and foreign
writes share `MaxUpsets`; rosters, units, parties, Telegram identities, the
economics gates, R13 and R15, privilege proofs and two runs at once.

Seen beside the finding of section 6: a rescheduled cleaning's revision is refused
as a remap (`stage_b_repository.py:470-477`); a partly loaded snapshot whose source
then changes can be neither finished nor replaced (477-480); production revision
rows carry `needed_by` (`sources/production.py` through `population.py:288`), which
the table does not have; the CLI builds the repository without a mutation observer
(`cli.py:209`), with which no report is ever clean; reconciliation does not see
foreign rows that have no binding.

## 3. Runs

Every passing property has a mutant: an operator next to the modelled one that
makes a plausible mistake, under which TLC finds the property violated.

| Run | Instance | Shows |
|---|---|---|
| `outbox_delivery` | a legacy row and a Telegram row, 2 processes, 2 attempts, a crash, 2 recoveries | `AtMostOneEffect`, `RowMovesForward`, and `KeepsThePromise` (refinement of `OutboxPromise`) |
| `outbox_progress` | a projection row beside an unroutable one, under fairness | `EveryRowLeavesTheQueue`, `TypeOK` |
| `scheduling_moves` | 1 reservation confirmed, moved twice and cancelled, in any order of arrival; 1 cleaner, 1 booking, 2 action records for each command | `ScheduleFollowsReservation`, `ScheduleChangeIsReconciled` |
| `scheduling_clash` | 2 reservations that come to share a check-out, one of them cancelled; 2 interchangeable cleaners (symmetry), 2 bookings | `OffersEndWithBookings`, `StatusFollowsRows`, `OfferTermsAreKept`, `TypeOK` |
| `rent_billing` | 1 period, 2 interchangeable workers with 2 attempts each, 1 operator with 2 interchangeable keys, 1 contract revision | `BilledOnce`, `VoidsStand`, `AnswersAreTrue`, `TypeOK` |
| `rent_ledger` | 2 contracts of a property with a charge each, a receipt of 2 with 1 allocated; 3 more commands | `MoneyIsConserved`, `AttributionHonoured`, `ServiceRefusesFirst`, `TypeOK` |
| `projection` | 2 changes of a reservation, with or without pages of an earlier program; 2 troubles | `ReceiptIsTrue`, `Settled`, `OneLivePage`, `BindingOutlivesStaleWriters`, `TypeOK` |
| `property_access` | 1 pair, 2 interchangeable operators' chats; 2 requests that raise, a crash, a lapse | `ToldAtMostOnce`, `ApprovalNoticeIsTrue`, `TypeOK` |
| `legacy_assignment` | 2 cleaners, 3 offers or decisions; a request that raises, a crash, a lapse | `SoleBooking`, `OneOpenOffer`, `HistoryIsFinal`, `TypeOK` |
| `booking_bridge` | booked, asked to change, changed, cancelled, the cancellation looked at first; 2 troubles, of which one lapse | `OneOfEach`, `RecordsAreTrue`, `SaidOnce`, `CancellationIsWhole`, `TypeOK` |
| `stage_b_backfill` | a cleaning whose assignment was replaced, 2 assignment pages; 2 captures, 2 upsets, 2 scans each | `BoundRowsMatch`, `ForeignChangeStands`, `CleanMeansMigrated`, `LoadTypeOK` |
| `stage_b_replay` | the same, one capture, nobody interferes | violates `ReplayIsHarmless` (section 6) |

A "trouble" is any of: a request that raises, a process that dies, a lease that
lapses under its holder, a page trashed by hand.

Bounds. `MaxCrashes`, `MaxRecoveries` and the attempts bound the outbox: two
processes, a crash and an operator's decision between them give every
pair of an old and a new holder of one row; a third holder differs from the
second only in its fence, and the proofs need no bound. `MaxAssignments` bounds
the bookings of a cleaning at two: released, then replaced or restored. Two
cleanings and two cleaners are enough for a property that relates a pair, and two
action records for one that relates a command to its repetition. In the rent billing
run two keys let the operator void a charge and replace it, or resend one request
while the other is composed; the second attempt is the first that can follow a
conflict, and `MaxVersion`, `MaxRevision` bound only the writes of others. In
the ledger amounts go up to 2, so that a transfer can be split, corrected
down and over-used, and three commands on a partly allocated receipt reach every
pair of a correction and what it corrects. In the runs with faults, two troubles
give a failure and a second one while the first is being recovered from; a
third multiplies the states beyond the time a run should take. Three actions
of `legacy_assignment` are the original's offer, its replacement's, and the decision
to take the original back. Two captures and one predecessor are a delta; two scans
are the fewest that can agree.

Symmetry is used for cleaners, chats, workers and keys, which no
action tells apart, and in runs without liveness only.

`CHECK_DEADLOCK FALSE` is set where the system really may stop: all mails are
in, all buttons pressed, all rows done, all commands or captures of the bound
made.

### Fairness

`EveryRowLeavesTheQueue` assumes weak fairness of the worker's steps, of leases
and retry delays running out and of the provider answering or losing a request.
The code justifies each: `run_worker_loop` calls `run_once` for ever and launchd
restarts it; the HTTP clients have timeouts, after which the request
counts as unacknowledged; claim leases and retry delays are clock times. Crashes
are bounded, as a worker that always dies makes no progress. The operator is not
fair: a parked row counts as having left the queue. No other module has a liveness
property. Nothing obliges a scheduling command to arrive and nothing in the repository
schedules the rent worker; in the legacy flows, the access notices and the bridge the
code itself gives up after the failures of section 2, so what would have to happen
eventually does not.

## 4. Proofs

Eight modules prove, for every value of the constants that satisfies the named
assumptions, what the runs show on small instances. Each has the same shape: an
inductive invariant `IInv` (`LoadInv` for the backfill), which TLC checked as an invariant of the run's instance
before it was proved; one lemma for each action; `Init => IInv`, `IInv /\ [Next]_vars
=> IInv'`; and the properties as theorems `Spec => []...`.

| Module | Theorems about the runs' properties |
|---|---|
| `CleanerOutboxProofs` | `TypeOK`, `AtMostOneEffect`, the action property `RowMovesForward`, the refinement `KeepsThePromise` |
| `CleanerSchedulingProofs` | `TypeOK`, `StatusFollowsRows`, `OffersEndWithBookings`, `ScheduleFollowsReservation`, `OfferTermsAreKept`, the action property `ScheduleChangeIsReconciled` |
| `RentBillingProofs` | `TypeOK`, `BilledOnce`, `VoidsStand`, `AnswersAreTrue` |
| `RentLedgerProofs` | `TypeOK`, `MoneyIsConserved`, `AttributionHonoured`, `ServiceRefusesFirst` |
| `AccessAndLoadProofs` | of `PropertyAccess`: `TypeOK`, `ToldAtMostOnce`, `ApprovalNoticeIsTrue`; of `StageBBackfill`: `LoadTypeOK`, `BoundRowsMatch`, `ForeignChangeStands`, `CleanMeansMigrated` |
| `LegacyAssignmentProofs` | `TypeOK`, `SoleBooking`, `OneOpenOffer`, the action property `HistoryIsFinal` |
| `ProjectionProofs` | `TypeOK`, `ReceiptIsTrue`, `Settled`, `OneLivePage`, the action property `BindingOutlivesStaleWriters` |
| `BookingBridgeProofs` | `TypeOK`, `OneOfEach`, `RecordsAreTrue`, `SaidOnce`, `CancellationIsWhole` |

`NoReclaimableSend`, `SuccessIsTrue`, `PermitIsFresh`, `StaleProcessWritesNothing` and
`CommitsWhatWasPreviewed` are proved too and have no run of their own.

**CleanerOutbox.** "No row takes effect twice" is not inductive: a row with no effect
may have a request in flight, a process about to send, or a permit that allows a next
attempt. `IInv` says which of these can hold together. A row that was ever sent is out
of reach of a claim unless a fresh permit, recorded at exactly the fence before, proves
its earlier request had no effect; a process that may send remembers the fence the row
still has; what a process remembers is never newer than the row. Fences only grow,
which is why comparing the whole row is enough to exclude a stale writer.
`Refinement` maps every step to a step of `OutboxPromise` or a stutter.

**CleanerScheduling.** The four invariants support one another: a command decides by
looking at one table and trusts the others. `References` adds what foreign keys and
version checks leave unsaid: a cleaning has a schedule, a revision was made for a
version its reservation has reached, a booking names an existing revision and campaign,
a cleaning has one pending case. `OffersEndWithBookings` is not inductive by itself: accepting an offer closes
that one only, so it needs `OfferIsAlone`, at most one open campaign for a cleaning. Each command is shown to keep each conjunct it can
disturb, and `MovesAreReconciled` follows from the same steps.

**RentBilling.** `BilledOnce` counts charges and says nothing of the command that is
about to add one. `InLine` gives the shape of a period: each charge replaces the one
before it, and all but the last are void. Appending keeps that shape only if the last
charge is void and the new one names it, which was decided before COMMIT, perhaps long
before. `TxnHolds` says that it is still so: every action that changes the ledger or
the contract needs the scope's lock, held as long as a transaction waits.
`Carries` says that a command in hand fits its period, which no later action undoes. `AnswersAreTrue`
needs a second invariant, `Known`: receipts are one to a key; a waiting
transaction has no receipt yet and its sender waits for it; what a worker composed its
command from still holds unless the revision has moved on, and then the command
cannot commit.

**RentLedger.** A balance is a fold over rows that name the rows they reverse, and no
induction principle is available, so sums are treated as what they are: the last of the
partial sums. That a sum of the parts is the sum of the whole, that appending rows adds
their amounts and that a non-negative column has a non-negative sum are each shown by
the least index at which they could fail (`NatLessThanWellFounded` and `WFMin` of the
library). `Sound` is a ledger's shape, its balances and its refunds accounted for.
`Outcome` is then one lemma for each command: whatever the service's guards let
through, the ledger it stages is `Sound`; and a `Sound` ledger passes every deferred
check but the attributions' (`SoundPasses`), which is `ServiceRefusesFirst`. In
`MoneyIsConserved` totals over live rows replace signed sums (`TotalIsLive`: a row and
its reversal cancel). `Keyed`, the foreign keys of V110, is what the assumption on the
starting ledger has beyond its type and checks.

**PropertyAccess.** Three facts travel further than one step. Rows and requests for
rows still under way are at most one more than the requests that raised; this gives
the bound on rows. The word SYNCED is followed from the roster through every
request that may still land to the ledger and to the process about to tell
(`SyncedIsTrue`). Whoever is about to send has written so first, and an unwritten
record has sent nothing (`MaySend`).

**LegacyAssignment.** `Claim(g)` is: assignment g is in force, or has a receipt or
decision without a row yet, or its page was just patched by a process that may die. `SoleClaim`
says there is one such assignment, newer than every row; `PageTaken`, that while it
stands the page waits for nobody, so no offer can be accepted; `ButtonsMatch`, that a
button to leave that is bound to the page as it is belongs to it. `HistoryIsFinal`
follows from `Grows`: rows that ended, receipts and decisions are never taken back.

**Projection.** `IInv` holds in every behaviour and says what a process may rely on at
each place of a delivery (`HasRead`, `HasPage`, `HasHeard`, `HasWritten`) although
another may have taken over its lease: only what cannot be undone, that a state
was shown, that a page carries the key, that the bound page is dead. `OneLivePage` and
`Settled` are about `Calm` behaviours only and have an invariant of their own,
`Quiet`: as long as nothing lapsed, landed late or was trashed, who is inside has the
lease (`Held`), so nobody else moves while it works, and the pages, the rows and the process are in order (`PagesInOrder`,
`RowsInOrder`, `InOrder`).

**BookingBridge.** `Data` is what the queue, files and pages say of one another:
one of each (`Single`), nothing said before its file was there (`Said`), how many more
messages the cleaner may get while the approval is open (`Heard`), an applied
change whose mail is processed (`Changed`), a completed item that is ready (`Queued`), an
executed cancellation that reached what it named (`Cancelled`). `Pledge` is what the
poller has established at each place of an item and `Duty` what the bot has at each
place of a cancellation; neither is undone by the others' steps (`PollerUndisturbed`,
`BotUndisturbed`), which is why an item resumed in the middle is safe without a lock on
the pages. A poller whose lease ran out behind an assertion may put the approval back
to PENDING under the bot, even in the middle of an execution: `Ordered` and `Untold` say what the bot can still rely on,
and `reopened` is why the cleaner hears it at most twice: the poller writes back once,
since a request that has its file is not asked again.

**StageBBackfill.** `LoadInv` has four parts. `RunOK`: a scan has got at most one row for
each source key, although it reads the sources at different moments and they change
meanwhile; for that, each source's rows are of types of its own (`OneSourceMore`).
`ManifestsOK`: so has every manifest, since numbering the rows keeps that, and each
manifest's predecessor is older than it. `TablesOK` and `BoundOK`: a row of a table is
bound to a source key or somebody else's; its identity gives the key back, so no load of
another key can touch it; and the table holds what the binding says exactly as long as
nobody else wrote the row, which is what the attribution check decides by.
`VersionOK`: a reservation's version is one more than the changes along the chain of
manifests since it was first loaded (`ChangesAre`). Three facts carry the steps. The load order puts every record
of a manifest into the queue once (`InOrderIs`: the order is total, and numbering a finite
set by rank is onto). The chain of a manifest, a recursive function, exists and is the only one with its
equations (`LinesAre`, by a witness and a least counterexample), so a new manifest
leaves the chains of the older ones alone (`LineStays`). And a load counts one change
exactly when it writes a new version (`ChangesGrow`, `VersionMoves`). That a report is
clean is a guard of the code about the records of one manifest; `CleanReportIsTrue` needs
`TablesOK` besides, since the report never looks at rows that have no binding.

Assumptions. All are named ASSUMEs of the modules, evaluated by TLC on every run:
names that must be apart (processes, keys and periods, chats and letters, legacy and
unroutable rows); bounds that are natural numbers; two processes in `PropertyAccess`,
`LegacyAssignment` and `Projection` and three in `BookingBridge`, which are the
programs there are; a non-empty roster; mails with their fields; a starting ledger that passes the
database's own constraints and checks (`StartAssumption`) and fits the bounds
(`BoundsAssumption`); distinct ranks of row identities in `StageBBackfill`, as the identities
are (UUIDs, each derived from a durable seed of its row). None bounds the crashes, losses or lapses.

Only model-checked: `EveryRowLeavesTheQueue`, since liveness under fairness is out of
the prover's reach.

## 5. Plan

Done: all modules of section 2; proofs of every safety property a passing run checks.

Left, in this order:

1. `EffectStore` and the scheduled-action queue as two instances of one abstract
   work queue.
2. `TelegramActions` and `TelegramPolling`: action files, the decision pump and the
   offset, composed with `CleanerScheduling`.
3. `RentSessions`; the cutover's authority epoch; cleaning completion; the cleaner's
   application and performance ledgers.

## 6. Where documents and code differ

`stage_b_replay`: a load writes every cleaning first without its schedule pointer and
sets it at the end (`stage_b/backfill.py:271`). Once the cleaning is loaded the
database refuses the first of the two (V107:113,
`SCHEDULE_REVISION_POINTER_CANNOT_CLEAR`), so the second load of a snapshot and every
delta end there, while the engine (`stage_b/backfill.py:257`) says that later
replays do not conflict; its test applies twice to an in-memory repository.

Behaviours the models have and no run is about, because they are consequences of
what the code decides and no document speaks against them in so many words, or
because another property already carries the case:

* The outbox worker writes a row after its lease lapsed between assertion and
  transaction (`POST_CUTOVER_BATCH_A_FAILURE_CONTRACT.md:41` has the lease asserted
  before each); the comparison of the whole row still protects the row.
* `accept_assignment` and a restored booking take an offer made for an older schedule
  revision (`OfferTermsAreKept` says what remains true of it).
* The reconciliation case of an ended booking stays pending and blocks later
  schedule changes.
* An old reassignment request can book a cancelled cleaning.
* A command that finds its work done commits a receipt without an event, whose retry
  then raises.
* An older mail that arrives late overwrites a later one.
* `reassign_original` leaves a replacement offer open when the original cleaner
  returns, and completing the cleaning does not close it, while
  `P0_CLEANER_MULTI_JOB_DB_V2_LOGICAL_SCHEMA_DRAFT.md:424` (and 1619) has it that "a
  `CANCELLED` or `COMPLETED` Cleaning must not have an administratively OPEN campaign".
  `OffersEndWithBookings` shows this to be the only way there. `decline_assignment` leaves the declined campaign open, after which
  no other offer of the cleaning can be opened.
* A reservation that was cancelled can never be confirmed again.

Those of the legacy flows, the bridge, the projections and the backfill stand with
their modules in section 2.

## 7. Not modelled

* Scheduled business actions (V107:528-574 and 758-933): a second queue in the
  database without a caller in the Python code. The SQLite command and effect store:
  used by the system-test worker only. Both are in the plan.
* Telegram polling and its offset, the operators' decision pump and the JSON action
  records of the PostgreSQL ingress: the handlers are modelled, the loop around
  them is not yet.
* Cleaning completion and issues, the cleaner's application, roster and performance:
  append-only ledgers over files, planned last.
* The rent web application and rent runtime tools: sessions would be a module of
  their own; the rest is request parsing and file archiving.
* Stage B's cutover of the authority epoch, readiness and privilege proofs: one-time
  operator procedures around `StageBBackfill`.
* Parts that are data transformation or I/O without a protocol (RAG, Notion sync, drive
  uploads, health monitor, benchmarks, one-off scripts) or unused (the first schema
  draft under `db/migration`).
