# A TLA+ model of GPUBK

GPUBK books the GPUs of shared machines. Users reserve GPUs for time slots, in
exclusive or shared mode, and may attach a command that a per-user worker starts
inside the reservation. There is no database: the state of a machine is one JSON
document, `ledger.json`, changed under a file lock with a write-ahead journal, and
a number of smaller files that other programs own.

This directory models the parts of `src/src/bk` where steps of several processes,
failures and time meet. The modules are translated from the code; the line ranges
are in the `map` of `PROJECT.json`. TLC checks small instances; TLAPS proves
26 of the checked properties for every instance.

## 1. The parts of the system

| Part | Code | What changes its state | Module |
|---|---|---|---|
| Ledger store | `storage.py`, `jsonl.py`, `fileio.py` | `transaction`, `load` (it recovers a journal), `reset` | `LedgerStore`, `AtomicLedger` |
| Scheduler | `scheduler.py`, `schedule_index.py`, `granularity.py`, `sharing.py` | `add_booking`, `edit_booking`, `cancel_booking`, `cancel_booking_as_admin`, expiry and retention inside them | `Booking` |
| Worker, job recovery | `worker.py`, `job_recovery.py` | the cycle of `run_worker`, `recover_abandoned_jobs`, `retry_job` | `Worker` |
| Broker, service layer, announcements | `broker.py`, `service.py`, `announcements.py`, `policy.py`, job specs of `worker.py` | socket requests, local submissions, job patches by compare-and-swap, spec files | `Broker` |
| Cluster | `cluster.py`, `cluster_transport.py`, `admin_cluster.py` | writes routed over SSH by operation id, the catalog | `Cluster` |
| Usage telemetry | `usage_store.py`, `monitor.py`, `usage.py` | append, derivation, sealing, retention, migration | `Telemetry` |
| Administration | `admin.py`, `admin_services.py`, `admin_command.py`, `admin_data.py`, `login_hook.py` | the managed files of an installation | `Admin` |
| Cluster history | `cluster_history.py` | generations of archived days | `History` |
| Job logs | `joblogs.py` | the log pump with its rotation, clean-up | `JobLogs` |
| Worker lease and status | `joblogs.py`, `worker_status.py` | two lock files and their metadata | `WorkerLease` |
| Live guard, advice, memory admission | `launch_guard.py`, `advisor.py`, `gpu.py`, `scheduler.py` | claims that wait for a GPU | `LaunchGuard` |
| Terminal editor | `tui.py` | what a key submits | `Editor`, `Timetable` |
| Commands and agent tools | `cli.py`, `mcp_server.py` | what a confirmed prompt or a tool writes | `Commands`, `Timetable` |

How they interact. A command, the editor, an agent or the broker calls the
scheduler; the scheduler runs each write as one `LedgerStore.transaction`, so the
store is the only place where two writers meet. With the broker transport a client
reads `ledger.json` itself and sends its writes over a socket. The worker reads and
writes job records in the same document through the same transactions, from its own
process; it owns the processes of the commands, which outlive it when it is killed.
Expiry is not the work of a daemon: every booking operation begins by expiring what
has ended, so another user's booking changes the records a worker is looking at.
Telemetry, history, logs, leases and the files of the installation have locks of
their own and share nothing with the ledger but a read.

This is also how the modules compose. `LedgerStore` is shown to implement
`AtomicLedger`: a transaction is one atomic step. `Booking`, `Worker` and `Broker`
take each transaction as one action on that ground; `Broker` keeps the one thing
that a read without the lock can tell apart, a `ledger.json` that lags behind a
pending journal. `Worker` repeats from the scheduler only what touches a reservation
with a job, `Timetable` only what a front end can see. `Editor` and `Commands`
extend `Timetable`; `MCOperations` puts the parts that share no state side by side.

## 2. The modules

### LedgerStore and AtomicLedger

State: the files (`ledger`, `journal`, `log`, `torn`, `backups`), what of them a
power loss would leave (`survivors`, `dLog`, `loose`), the lock, and for each process its
position and the journal it holds. The rest is history: the outcome the caller was
told (`status`), how many audit events each transaction prepared (`batch`), what
was reported as committed and not reset since (`accepted`), and the incidents that
properties exempt by name.

A document is abstracted to the set of transactions it contains and its
`last_transaction_id`; an audit event to its transaction and position, with a length
in bytes (`Size`), because replay looks for duplicates only in as many bytes at the
end of `ops.log` as its batch has. A document that does not validate is `NoLedger`.
A torn last record takes no bytes of that search: it is the beginning of the record
that the batch writes next, so the batch's own records still fit.

| Action | Code |
|---|---|
| `Begin`, `Acquire`, `LockTimeout`, `RecoverFails` | entry of the three calls, `FileLock`, a journal that cannot be read |
| `ApplyLedger`, `AppendLogs`, `Backup`, `ClearJournal` and the `...Fails` actions | `_apply_journal_unlocked`, for a recovered journal and for the own one |
| `Mutate`, `WriteJournal`, `WriteJournalFails`, `Reread` | the body of `transaction` |
| `Recovered`, `Read`, `LoadReturns` | the body of `load`, which reads after it released the lock |
| `ResetLedger` ... `ResetBackups`, `ResetFails` | `reset` |
| `Crash`, `PowerLoss`, `Damage` | the environment |

A kill may fall between two steps or inside one: after a rename and before its
fsync, or in the middle of an append. A failed call may or may not have had its
effect. Directory operations reach the disk in order, at the latest with the next
fsync of the directory; `ops.log` keeps at least what was fsynced, and a power loss may
take the newest backups up to the last fsync of `backups/` (`loose`). A kill amid the
write of a backup leaves a temporary file, like one before it.

`AtomicLedger` is the promise without the files: a transaction takes effect at one
instant or never, a reported outcome is true, and a power loss costs at most what
was not reported as cleanly committed. `ImplementsAtomicLedger` maps its `content`
to the document that the next recovery will produce.

### Booking

State: the clock and the reservations; history: how often each operation id was
applied, and which ids retention has removed. The actions are `AddBooking`,
`EditBooking` (a future reservation is placed anew, a started one may only change
its end), `CancelBooking`, `CancelBookingAsAdmin` and `Tick`. Each begins with the
maintenance its code begins with. An operation that raises changes nothing and is
not an action.

The helpers keep the names and the structure of the scheduler: `QueueStart`
(`normalize_queue_start`), `Available` (`_availability_detail_indexed`, segment by
segment), `CandidateStarts`, `EarliestStart`, `Placements` (`find_earliest_slot`),
`Applied` (`_find_applied_operation`), `Duplicates`. The code reads the clock when
a mutator starts and again inside the search; `LaterClock` lets it move in between.

Abstractions: times are ticks and `Slot` of them make a slot; a signature is the
request it hashes; a record that is no longer active keeps only what retention and
replay read. The GPUs chosen among the free ones are any of them, because order and
scores only express preference.

### Worker

State: the clock, the reservation and the job record of each job, the process
groups, and one worker per host with its program counter. The n-th claim of a job
draws token n and its command runs in the process group `<<job, n>>`.

| Action | Code |
|---|---|
| `StartWorker`, `RecordDecisions`, `RecoverKill`, `FinishRecovery` | lease and `recover_abandoned_jobs` |
| `Reconcile`, `CompleteJob`, `StopJobs` | `_reconcile_running`, `_complete_job`, `_stop_running_jobs` |
| `ClaimDueJobs` | `_launch_guard_eligibility`, `claim_due_jobs` |
| `PrepareLaunch`, `Spawn`, `MarkRunning`, `AbortClaim`, `LaunchFailed` | `_start_claimed_job` |
| `StopSignal`, `Crash`, `FatalError`, `GraceElapses` | signals, kills, exceptions, the monotonic clock |
| `Cancel`, `EditEnd`, `Retry`, `OtherBooking` | the owner and the other users |

A TERM is left out because a command may exit at any time; what a KILL does and
when it is sent is modelled. A scan of `/proc` may fail; `blind` records it. The
live guard may hold back any job; `LaunchGuard` models what it decides. Nobody has to
start a worker again after it has ended, for whatever reason.

### Broker

State: the committed `ledger` (reservations and announcements), `file` (what
`ledger.json` shows to a reader without the lock), the spec files, the broker with
its listen backlog, handlers and free slots, and each command with its position and
attempts; history: what committed transactions did (`applied`).

| Action | Code |
|---|---|
| `Start`, `Stop`, `Close`, `Kill` | `serve_broker`, signals |
| `Accept`, `Handle`, `Reply` | `BrokerServer`: a bounded pool of handlers; `_dispatch` |
| `AddBooking`, `EditBooking`, `CancelBooking`, `Publish`, `Archive`, `EditAnnouncement`, `JobPatch` (inside `Dispatch`) | the transactions of the operations |
| `Submit`, `Verify`, `Drop` | `submit_booking`: spec, booking, and the removal of a spec without reference |
| `Clean`, `Sweep` | the sweep of old specs |
| `AskEdit`, `AskCancel`, `AskNotice` | the other requests of a client, a snapshot included |
| `BeginPatch`, `Connect`, `Timeout`, `NothingToDo` | `BrokerLedgerStore.transaction`, eight attempts in the code and `MaxTries` here |
| `Local`, `Die` | the same transaction without a broker; a killed command |

A client that gives up does not withdraw its request: it stays in the socket and the
broker applies it later. A broker that stops resets the connections it has not
accepted, drops the requests whose handler has not begun, whose slots nobody releases
(`Stop`), and waits for the others (`Close`). A transaction may leave its journal
pending, and then `file` lags until the next transaction.

### Cluster

State: the ledgers of the nodes, remote calls under way, the catalog, the clients
and administrators. A client loads the catalog once (`Book`, `BookAt`, `Change`),
asks the nodes who holds the operation id (`Query`, `Find`), chooses one
(`Recommend`, `Context`) and sends its write (`Send`). The remote command
(`Execute`) outlives a killed or timed-out SSH call (`Lose`); `Probe` recovers the
outcome by operation id. `Review`, `WriteCatalog` and `DeleteCatalog` are the
catalog commands, which read, let the administrator confirm, and write. `excused` has
the operations for which a lookup said "absent" too early, `sent` the writes that were
sent under each id.

### Telemetry

State: for each tier and day a plain file, a compressed file and its metadata;
`state.json` and the journal of its transition; the process that holds
`usage.lock`. Actions follow the monitor's cycle (`Start`, `Collect`, `Commit`,
`AppendEvents`, `SaveState`, `UnlinkJournal`, `Flush`, `Close`) and the maintenance
(`Derive`, `WriteMeta`, `Seal`, `DropPlain`, `RemoveExpired`, `DropMeta`, `Merge`
for the legacy file), one write each, with `Crash` and `Fault` between any two. Records
are appended day by day, each day to a file of its own. `Newer` are windows whose
records have fields this release does not know: their days are not compacted.

### Admin

State: `disk`, from managed paths to contents, the running services, and each
administrator with the list of writes still to do. An operation is the sequence of its
writes (`InitWrites`, with `--force` over an earlier one too, `ServicesWrites`,
`PolicyWrites`, `TransferWrites`, `DataWrites`, `UninstallWrites`, ...), each an
atomic rename, unlink or creation; `Ready` is what it inspects first, `UndoWrites` its
roll-back. `Fail` is a failed write, `Kill` ends the command between two writes.

### History, JobLogs, WorkerLease

`History`: exports choose a window (`Resolve`), take the namespace lock, query in
batches that are halved when too large (`QueryBatch`), write two payloads a day, the
manifest, and rename the directory (`Publish`).

`JobLogs`: the pump of each job opens, writes and rotates its log in single file
operations (`OpenPump`, `Output`, `UnlinkRotated`, `RenameCurrent`, `CreateSegment`,
`WriteHeader`), before and after its command is started;
a clean-up reads the ledger, scans, and removes by age and by quota.

`WorkerLease`: a worker locks `worker.lock` and then the lock of its data directory,
records itself and serves; a status command reads the metadata and probes both locks
with shared locks of its own.

### LaunchGuard

State: the bookings with memory, the processes on the devices, and the pass of one
worker. `BookCommand` is the admission by units and memory on any GPUs that have room;
`LoadLedger`, `Sample`, `Record`, `Claim` and `Launch` are the steps of a pass,
between which bookings, processes and the clock move.

### Timetable, Editor, Commands

`Timetable` has the ledger as the front ends see it, the searches
`find_earliest_slot` and `find_nearest_slot`, and other sessions' writes. `screen`
is what the user was last shown as about to be written, `deed` the last write beside
what it was shown as. `Editor` is the draw-and-key loop of `tui.py`; `Commands` are
`bk slots`, guided add and edit, `bk del` and `bk edit` by number or id, and the
agent tools with an operation id. Each reads the ledger anew at every step.

## 3. What TLC checks

| Run | Instance | Properties | States |
|---|---|---|---|
| `store_atomicity` | 2 processes, 2 transactions of up to 2 events, 1 I/O failure, 1 kill, 1 power loss | `RejectedHasNoEffect`, `AuditOnce`, `AuditCompleteWhilePowered`, `ImplementsAtomicLedger` | 647,777 |
| `store_damage` | 2 processes, 1 transaction, 1 I/O failure, 1 damage or failed read, 1 kill, 1 reset; fairness | `TypeOK`, `CommittedSurvives`, `FreshLoad`, `ResetErases`, `CallsReturn` | 174,167 |
| `store_audit_outage` | 1 kill, 1 power loss | `AuditComplete`, violated (finding 1) | |
| `booking` | 3 reservations, 1 GPU, blackout, retention | `ExclusiveAlone`, `SharedFits`, `QueueFindsEarliest`, `BlackoutsStayClear`, `ElapsedIsImmutable` | 36,683 |
| `booking_retry` | 2 reservations, 2 GPUs, 1 operation id | `OncePerOperation` | 50,973 |
| `booking_replay` | 1 reservation, 1 operation id | `RetryReturnsOriginal`, violated (finding 3) | |
| `worker` | 1 job, 1 host, 2 incidents, 1 retry, 1 edit; fairness | `SingleLaunch`, `FinishedIsQuiet`, `OrphansAreFlagged`, `CancelledStops`, `JobsSettle` | 380,817 |
| `worker_deadline` | 1 job, no incident, 1 edit; fairness | `KilledAtEnd`, violated (finding 2) | |
| `broker` | 2 commands at a time, 3 in all, 1 slot, 2 attempts, 1 kill or pending journal, both transports | `SlotsBalance`, `NothingLost`, `OncePerOperation`, `GivesUpWhenOvertaken`, `LocalSpecsKept`, `ArchivedIsFinal` | 1,139,194 |
| `broker_spec` | 1 command, broker transport | `SpecsKept`, violated (finding 4) | |
| `cluster` | 2 nodes, 2 clients, 2 calls, 2 operation ids, 2 wishes, 1 catalog edit | `RoutedOnce`, `SuccessIsReal` | 443,103 |
| `operations` | the eight remaining parts, one at a time | `HistoryKept`, `CountedOnce`, `StateExplained`, `AllOrNothing`, `NothingUntracked`, `RecoveryOpen`, `LedgerSomewhere`, `HistoryAnswered`, `NewestOutputKept`, `StatusTruthful`, `WithinShareNeverWaits`, `WrittenAsShown` | 1,488,564 |

What the properties say is stated above each of them in the modules. In short:

- **Store.** What was reported as committed is in the ledger the next recovery
  produces (`CommittedSurvives`), and a `load` returns what was committed before
  it began although it tests for a journal without the lock (`FreshLoad`). An error
  means that nothing took effect (`RejectedHasNoEffect`). However often a journal
  is replayed, an event is in `ops.log` once (`AuditOnce`), and none is missing once
  the journal is gone (`AuditCompleteWhilePowered`). A reset cannot be undone by a
  journal it left (`ResetErases`). Every call returns (`CallsReturn`).
- **Booking.** No two live reservations overlap on a GPU unless both are shared
  (`ExclusiveAlone`), and the shared ones fit at every instant (`SharedFits`). The
  queue search tries only the ends of reservations and blackouts and still finds
  the earliest slot (`QueueFindsEarliest`, against the definition over all slot
  boundaries). What has begun cannot be rewritten (`ElapsedIsImmutable`). A retried
  operation id is applied once (`OncePerOperation`).
- **Worker.** A command never runs twice at once unless its owner accepted the risk
  (`SingleLaunch`); a finished job has no running command (`FinishedIsQuiet`); an
  unsupervised command is flagged (`OrphansAreFlagged`). Unless no worker is started
  any more on its host, the command of a cancelled reservation is stopped
  (`CancelledStops`; not if `/proc` did not show it, or after a retry at the owner's
  risk), and no job stays claimed or running for ever (`JobsSettle`).
- **Broker.** A late or stale write undoes nothing that was committed (`NothingLost`);
  a create repeated under its id makes one reservation; slots are not leaked while the
  broker serves, and never released twice (`SlotsBalance`); "ledger changed
  repeatedly" is reported only if it did (`GivesUpWhenOvertaken`); with the local
  store no roll-back or sweep takes the spec of a job that can run (`LocalSpecsKept`).
- **Cluster.** An operation is booked on one node (`RoutedOnce`). This is not promised
  once a node said "absent" that was still to apply an earlier write or that another
  command of the operation was about to write to, while a node that the catalog does
  not reach held the operation, or to a `bk @NODE` directed past the holder. A reported
  success is real: the node applied a write of this kind under the id, and this very
  one if the id was used for no other (`SuccessIsReal`).
- **Telemetry.** No order of sealing, deriving, retention, kills and errors loses a
  window (`HistoryKept`) or counts it twice (`CountedOnce`); the event history
  explains `state.json` (`StateExplained`).
- **Administration.** A policy update or transfer happens completely or not at all
  (`AllOrNothing`), and the configuration differs from its record only where the
  manifest says so; what is installed is recorded, and without a manifest everything
  but empty directories is as it was found (`NothingUntracked`); a journal
  that was left can be recovered (`RecoveryOpen`); the last ledger is never gone
  (`LedgerSomewhere`).
- **The rest.** Archived days are answered once (`HistoryAnswered`). The newest output
  of a job that may run again is in one of the two segments until a second one is
  begun after it (`NewestOutputKept`). The status of a worker is true
  (`StatusTruthful`). When every sharer of its GPUs keeps within what it booked, a due
  shared job is not held back for memory (`WithinShareNeverWaits`). In every term that
  a front end submits it writes what it last showed (`WrittenAsShown`).

### Bounds, and why they are enough to be interesting

Store: two processes give a holder and a waiter or a recoverer; two transactions
give a journal that is replayed under a newer document; two events give a batch cut
in half, and their different lengths make the bytes that replay scans end within a
record of another batch. Kills, failures, damage, power losses and resets are counted by
`MaxCrashes`, `MaxFaults`, `MaxReadFaults`, `MaxOutages` and `MaxResets`, and the
two runs combine them in threes and fours. One backup is kept, the hardest case for
the fallback.

Booking: three reservations on one GPU give a shared segment between two
neighbours, and a gap with a neighbour on each side; two GPUs give partial overlap
of GPU sets. Slots of two ticks make a clock in the middle of a slot; requests name
starts in the past, present and future, two lengths, every mode, and queueing. The
blackout begins and ends at an odd tick. `MaxTime`, with a retention of two ticks,
lets a record expire and be purged while a client still retries.

Worker: one job is enough for the properties, which concern one job and its
commands; two claims allow a second command; two incidents allow a crash during a
recovery after a crash. The proofs cover several jobs and hosts. The worker's loop
never ends, so deadlock is checked.

Broker: two commands of one user are open to every operation; one slot and a backlog
of two make a request wait behind another; three calls let a repetition meet the
original request and a third writer; two attempts are the fewest in which a refusal
can be followed by a commit.

Cluster: two nodes and two calls are an attempt and its repetition, by the same client
or another, with a write of the first that commits during or after the second; two ids
and two wishes tell a wrong match from a right one.

Operations: the bounds let each part meet its incident once and continue
(`MaxFailures`, `MaxFaults`, `MaxMishaps`, `MaxLogFaults`, `MaxElsewhere`), and then
do the thing again (`MaxRuns`, `MaxOps`, `MaxExports`, `MaxTries`, `MaxLaunches`).
Three operations of one administrator are enough to interrupt, recover and go on;
exports and probes run two at a time. Two days of two windows and three tiers make a
day that is derived, sealed and expired. Four keys of the editor are a mode, two
changes and Enter.

Clocks, ids and calls are bounded, so all runs but those of the store and the worker
end by running out; deadlock is not checked there. Processes, transactions, users,
GPUs, operation ids, clients and administrators are interchangeable and reduced by
symmetry, except in the runs that check liveness.

### Fairness

- `LedgerStore!FairSpec`: a process inside a call keeps taking its steps. Nobody
  has to start a call. A waiter polls, and polling ends with the time-out of
  `FileLock`; nothing stronger is assumed of the lock.
- `Worker!FairSpec`: a running worker keeps stepping, time passes, a grace elapses, and
  a group that received KILL disappears. A command need not exit by itself. Nobody has
  to start a worker again: the unit has `Restart=on-failure`, but not after a stop,
  an exit with 75 or 78 (`RestartPreventExitStatus`) or three failures in a minute
  (`StartLimitBurst`), and a worker in a terminal has no unit. The two liveness
  properties therefore allow that no worker is ever started again on the host
  (`LeftOff`); one that is started recovers and goes on.

The other modules have no liveness property and assume no fairness.

## 4. What is proved

The theorems hold for all sets and all values of the bounds that satisfy the named
assumption of the module. The assumptions only fix types and exclude that `None` is
one of the things it stands for the absence of: `StoreAssumption` (at least one backup
is kept), `SizeAssumption` (records have a length), `BookingAssumption` (positive slot
and share, blackouts are nonempty intervals, finitely many GPUs, requests have their
fields), `WorkerAssumption`, `BrokerAssumption` (at least one slot, one place in the
backlog and one attempt), `HistoryAssumption`, `JobLogsAssumption`, `LeaseAssumption`.
TLC evaluates each of them on the runs.

| Module | Theorem | Property |
|---|---|---|
| `LedgerStoreProofs` | `TypeCorrect`, `Durability` | `TypeOK`, `CommittedSurvives` |
| `LedgerStoreTraces` | `LoadsAreFresh`, `ResetsErase`, `RejectionIsClean` | `FreshLoad`, `ResetErases`, `RejectedHasNoEffect` |
| `LedgerStoreAudit` | `AuditedOnce`, `AuditedCompletely` | `AuditOnce`, `AuditCompleteWhilePowered` |
| `LedgerStoreRefinement` | `Refinement` | `ImplementsAtomicLedger` |
| `BookingProofs` | `Alone`, `WithinCapacity`, `Clear`, `SearchIsExact`, `StartedNeverChanges`, `AtMostOnce` | `ExclusiveAlone`, `SharedFits`, `BlackoutsStayClear`, `QueueFindsEarliest`, `ElapsedIsImmutable`, `OncePerOperation` |
| `WorkerProofs` | `NeverTwice`, `FinishedMeansOver`, `NoSilentOrphans` | `SingleLaunch`, `FinishedIsQuiet`, `OrphansAreFlagged` |
| `BrokerProofs` | `CommittedStays`, `OneReservation`, `SlotsAreReturned`, `OvertakenGiveUp`, `SpecsStay`, `ArchiveIsFinal` | `NothingLost`, `OncePerOperation`, `SlotsBalance`, `GivesUpWhenOvertaken`, `LocalSpecsKept`, `ArchivedIsFinal` |
| `OperationsProofs` | `ArchiveAnswers`, `LogsAreKept`, `StatusIsTruthful` | `HistoryAnswered`, `NewestOutputKept`, `StatusTruthful` |

None of these properties is inductive as it stands. What each proof adds:

**Store.** `CommittedSurvives` speaks of the present files, and the steps that break
it are taken by a process that acts on the journal in its hand, on the document it
read earlier, or on what a power loss leaves. `DurabilityInv` is a conjunction of
`HistoryInv` (which outcomes the history may record, and for whom), `FilesInv` (the
journal in place, if it carries a document, contains every accepted change, and the
newest backup stands in for `ledger.json`), `FirmInv` (every directory state a power
loss may leave still recovers the cleanly committed changes) and `HolderInv` (only
the holder of the lock is past acquisition, and at each of its steps the journal in
its hand agrees with the files). `BackupsInv` adds that no backup is of a transaction
still to come, since an older one may become the newest when a power loss takes those
that were not fsynced. Upon them rest

- `LoadInv`: a load about to read finds what was accepted when it began, in the
  document and, unless a backup failed, in the newest backup;
- `EraseInv`: while `reset` unlinks, the document is empty or damaged;
- `TraceInv`: a transaction that was rejected, or has not written yet, is mentioned
  by nothing that can still be read;
- `OnceInv`: the events of a pending journal are a run at the end of `ops.log`. Such a
  run is no longer than the batch (`SumsGrow`, `RunFits`), so that the bytes which
  `_append_missing_logs` scans hold exactly the records it must leave out;
- `CompleteInv`: what a document mentions, but the journal's own transaction, has
  its events in the log;
- `MapInv`: a power loss brings back nothing that a recovery would not produce now.

`Refinement` assumes `MaxReadFaults = 0`, because a document that cannot be read
falls back to a backup, which is no step of an atomic ledger, and
`MaxResets = 0 \/ MaxOutages = 0`, because a reset cut short by a failed fsync can be
undone by a power loss. `AuditOnce` promises uniqueness only until a power loss: see
the observations.

**Booking.** `Safe` says that live reservations are compatible, within capacity and
clear of blackouts, and that every interval is nonempty and aligned to the slot.
Alignment is what makes two pieces of the code right. The extension of a started
reservation is tested only from the later of the next slot boundary and its current
end (`scheduler.py:720`), and there is no gap between the two. And the queue search
tries only the ends of reservations and blackouts: a slot boundary that fits after
one that does not is the end of a reservation or the first boundary after a blackout,
hence a candidate. For the capacity, a test of the segments between known starts and
ends is shown to be a test of every instant. `AppliedOnce` says which record
remembers an applied operation id, or that retention removed it.

**Worker.** The heart of `LaunchInv` is `Current`: a command that runs or may still
be started carries the token of its job record, unless the owner accepted the risk,
and the record with that token is claimed, running, uncertain or missed. `Drawn`,
`OneHolder` and `InOrder` say which tokens were drawn, which worker holds each of
them, and what a worker may conclude from its own step. `OrphanInv` adds the leases
and the flags of commands whose worker is gone.

**Broker.** `BrokerInv`: each command has at most one request on its way, and retries
only when that one was answered. Every transaction is shown once to be `Sound` (it
keeps what others did, creates under a fresh id, and reports what it did); `Kept`,
`ArchivedIsFinal` and the bookkeeping of slots (`Balanced`, exact while the broker serves
and an upper bound while it stops) follow action by action.
`Counted`: a client that was refused k times has seen k - 1 commits of others, the
one refusal left over being due to a lagging `ledger.json`. `LocalInv`: the specs of
reservations are distinct, that of a submission is referenced by nobody before its
transaction, and the reservations that a sweep has read can only move on.

**Operations.** `HistoryInv`: one exporter holds the lock, and the batches it has yet
to query, write and publish continue without a gap what it has, however they were
halved. `JobLogsInv`: a clean-up under way knows every job that needs its log, and the
newest output is in the segment that its pump's step and the number of segments begun
since (`begun`) leave it in. `LogsAreKept` assumes that the clean-ups run for the data
directory of the jobs: all data directories of an account share one log directory, and
a clean-up for one of them does not know the jobs of another. `LeaseInv`: what a probe
has concluded so far is true of the holders it met.

Induction over data appears in three places, `Without` (the records that replay still
has to append), `Bytes` (the length of a batch) and `Total` (the units of a set of
reservations). All are functions, and the proofs take a smallest counterexample among
the naturals.

Only model-checked:

- liveness (`CallsReturn`, `CancelledStops`, `JobsSettle`), because the prover
  handles neither fairness nor `ENABLED`;
- `Cluster`, `Telemetry`, `Admin`, `LaunchGuard`, `Timetable`, `Editor` and
  `Commands`. Their properties compare folds over sequences and files with sets of
  what was written, or quantify over tables of writes, and would need induction over
  those data structures;
- the four statements below, which fail.

## 5. Where the code and its documentation disagree

1. `store_audit_outage`. A process is killed between the write and the fsync of
   `ops.log`; the next one recovers the journal, finds the events in the page cache,
   returns from `_append_missing_logs` without an fsync (`storage.py:764`) and
   unlinks the journal. A power loss then loses the events of a change that
   `ledger.json` keeps. `SECURITY.md:101-103` says that durable writes fsync the
   file contents and that a valid journal remains otherwise.
2. `worker_deadline`. The worker keeps the end of the reservation as it was claimed
   (`worker.py:1036`). A started reservation that its owner shortens frees its GPUs
   at the new end, but the command runs on to the old one. `docs/GUIDE.md:323-325`
   promises a KILL at the exact end.
3. `booking_replay`. An identical retry of a create is compared with the record as
   later edits left it (`scheduler.py:108`), and refused after an edit of the share.
   `docs/GUIDE.md:163-165` and `623-624` say that it returns the original.
4. `broker_spec`. A submission over the broker times out, finds no reference in
   `ledger.json`, which it reads without recovering a journal or waiting for the
   lock, and deletes its spec (`service.py:464`); the broker then commits the
   request that was still in its socket. `docs/GUIDE.md:389-391` says that the
   ledger is recovered and reread first, and that only a spec without a committed
   reference is removed.

Observations, which no run states as a property:

- Store. A power loss can bring back a journal that a newer one had replaced when
  events of the newer one are already in the tail that replay scans: an event is then
  in `ops.log` twice (`storage.py:749-798`; it takes two kills, an I/O failure and a
  power loss).
- Scheduler. A queued start may lie past the search window by less than a slot when a
  blackout with an unaligned end closes the window (`scheduler.py:1054-1061`). The
  duration limit applied to an extension of a started reservation covers the extension
  alone. `find_nearest_slot` tries the start of a reservation less the duration, but
  not the start of a blackout less the duration.
- Worker. A command orphaned by a crash whose reservation expires before the next
  recovery becomes `missed` or `expired-unverified`, and no recovery looks for it
  again (`scheduler.py:1814`). A command that exits with 0 but is polled inside the
  termination grace is recorded as timed out. With one ledger for two hosts, a slow
  claim of the other host is marked uncertain without a recovery state
  (`worker.py:666`).
- Live guard. It subtracts the reserve and the memory actually used, so memory of the
  driver or the system counts on top of the reserve and makes a job on a fully booked
  GPU wait for its whole window. A reservation made or begun after the pass has loaded
  the ledger passes for a stranger until the next pass.
- Job logs. A clean-up that read the ledger before a job was booked can remove the
  log of the job while it runs; such jobs are exempt in `NewestOutputKept`. Each retry
  begins a segment, so two of them that write nothing but headers push out the output
  of the run before.
- Lease. "other-instance" is reported for the own worker while it starts; the shared
  lock of a probe can use up the attempts of a starting worker.
- Telemetry. Maintenance runs before the last flush, so a window may arrive after its
  day was derived (`late`). A kill between a derived file and its metadata leaves the
  tier of that day unreadable and blocks the retention of the minute tier.
- Cluster. A repetition during an attempt that is still under way may book on a second
  node; a node that was removed from the catalog forgets its operations; an export
  right after midnight UTC may archive an incomplete day. The recovery of a lost answer
  compares the kind of the write and not its terms. The directory that a killed
  export of root leaves refuses those of the owner until root exports again, and an
  archive of 4096 generations refuses every further one.
- Administration. A kill while the guard socket is held leaves a socket that most
  commands refuse; a clear killed between its renames leaves the data directory
  missing and its retired tree in place, which uninstall does not know. An interrupted
  `init --force` keeps the digest of the previous configuration in the manifest, and
  two of them with different settings forget the one that is in place. A kill between
  the record of `config.json.bak` and its writing makes the repetition replace the
  file without a backup. An uninstall killed after it gave a data directory back to
  root is refused as drifted until `init` has repaired it, and one killed after the
  unlink of the manifest leaves the empty socket and configuration directories.
  Catalog updates of two administrators may be lost, and a transfer reads the
  configuration before it takes the guard. The run has one administrator for this
  reason.
- Front ends. A number typed at the prompt of `bk del` or `bk edit` after the own list
  changed means the new list. A guided booking that named no GPUs may be written with
  others than it was reviewed with, and later if another session has written. A request
  that repeats an existing reservation exactly is answered with that one, even on a GPU
  that it excludes. The preview of the editor checks neither blackouts nor
  the horizon.

## 6. What is not modelled

- Checks that refuse a call before it changes anything: file modes, groups, owners,
  paths, the schema validation of documents (only valid and invalid are told apart),
  credentials and framing of the broker's messages, host keys and SSH options.
- Power losses outside the ledger store. The telemetry store renames a compressed file
  without an fsync before it unlinks the plain one.
- NVML and `nvidia-smi` calls and the external allocator, whose answer only reorders
  GPUs, as do the scores of the advice; the learned profiles of the agent's context.
- Jobs claimed by releases without leases, and a running reservation that retention
  removes (the worker treats it as cancelled).
- A second broker on the same socket, two administrators at once, and the race
  between bind and lstat of the administrator's guard.
- Read-only reports, rendering, parsing, presets, notices, installation scripts and
  system commands.
