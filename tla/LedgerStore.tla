----------------------------- MODULE LedgerStore -----------------------------
(***************************************************************************)
(* The write-ahead journal of bk/storage.py (class LedgerStore).           *)
(*                                                                         *)
(* Processes run transaction(), load() and reset() on one data directory.  *)
(* They serialise through flock on ledger.lock.  A transaction is made     *)
(* durable by transaction.json (the journal), then applied to ledger.json, *)
(* ops.log and backups/, then the journal is unlinked.  A process may be   *)
(* killed between any two of these steps, each step's I/O may fail, the    *)
(* ledger file may be damaged or fail to read, and power may be lost.      *)
(*                                                                         *)
(* Data abstraction: a ledger document is the set of transactions whose    *)
(* changes it holds plus its last_transaction_id; an audit event is        *)
(* <<transaction, position in its batch>>.  survivors is the set of        *)
(* directory states a power loss may leave: directory operations reach the *)
(* disk in order, at the latest with the next fsync of the directory.      *)
(***************************************************************************)
EXTENDS Naturals, Sequences, Functions

CONSTANTS
    Proc,        \* processes that open the store
    Txn,         \* transaction ids (uuid4)
    None,        \* no transaction, no lock holder
    MaxLogs,     \* audit events of one transaction, at most
    Size,        \* the bytes of each audit event in ops.log
    BackupKeep,  \* backup_keep
    MaxFaults,   \* bound: failed writes, fsyncs and unlinks
    MaxReadFaults,  \* bound: unreadable or damaged ledger.json
    MaxCrashes,  \* bound: killed processes
    MaxOutages,  \* bound: power losses
    MaxResets    \* bound: reset() calls

ASSUME StoreAssumption ==
    /\ None \notin Txn \cup Proc
    /\ MaxLogs \in Nat
    /\ BackupKeep \in Nat \ {0}

ASSUME SizeAssumption == Size \in [Txn \X (1 .. MaxLogs) -> Nat]

VARIABLES
    ledger,      \* ledger.json: a document, or NoLedger when damaged
    journal,     \* transaction.json: a journal, or NoJournal
    log,         \* complete records of ops.log
    torn,        \* ops.log ends in an incomplete record
    backups,     \* backups/, newest first
    survivors,   \* <<ledger, journal>> pairs a power loss may leave
    dLog,        \* the records of ops.log that were fsynced
    lock,        \* holder of ledger.lock, or None
    pc, op, hand,  \* per process: next step, operation, journal in hand
    seen, got,   \* load(): transactions accepted when it began, its result
    status, batch,  \* history, per transaction: outcome, number of events
    accepted,    \* history: changes reported as committed and not reset
    doubtful,    \* history: errors raised with the journal in place
    fellBack, backupMissed,   \* history: a read used a backup; a backup failed or was lost
    loose,       \* how many of the newest backups were not fsynced into backups/
    faults, readFaults, crashes, outages, resets

files == <<ledger, journal, log, torn, backups>>
disk == <<survivors, dLog>>
procs == <<pc, op, hand, seen, got>>
history == <<status, batch, accepted, doubtful>>
incidents == <<fellBack, backupMissed, loose>>
env == <<crashes, outages, resets>>
bounds == <<faults, readFaults, env>>
vars == <<files, disk, lock, procs, history, incidents, bounds>>

-----------------------------------------------------------------------------
Ledger == [last : Txn \cup {None}, txns : SUBSET Txn]
NoLedger == [last |-> None, txns |-> {None}]   \* no document can be read
EmptyLedger == [last |-> None, txns |-> {}]
Event == Txn \X (1 .. MaxLogs)
Journal == [id : Txn, ledger : Ledger \cup {NoLedger}, logs : Seq(Event)]
NoJournal == [id |-> None, ledger |-> NoLedger, logs |-> <<>>]

\* The newest backup that validates, or NoLedger when there is none.
LatestBackup == IF backups = <<>> THEN NoLedger ELSE backups[1]

\* What a load returns while reads succeed (NoLedger: LedgerCorruptionError).
Current == IF ledger = NoLedger THEN LatestBackup ELSE ledger

\* The ledger once journal j is applied over the document l.
Replayed(l, j) == IF j.ledger # NoLedger /\ l.last # j.id THEN j.ledger ELSE l

EffectiveLedger == Replayed(Current, journal)

-----------------------------------------------------------------------------
Init ==
    /\ ledger = EmptyLedger /\ journal = NoJournal
    /\ log = <<>> /\ torn = FALSE /\ backups = <<>>
    /\ survivors = {<<EmptyLedger, NoJournal>>} /\ dLog = <<>>
    /\ lock = None
    /\ pc = [p \in Proc |-> "idle"] /\ op = [p \in Proc |-> "none"]
    /\ hand = [p \in Proc |-> NoJournal]
    /\ seen = [p \in Proc |-> {}] /\ got = [p \in Proc |-> {}]
    /\ status = [t \in Txn |-> "new"] /\ batch = [t \in Txn |-> 0]
    /\ accepted = {} /\ doubtful = {}
    /\ fellBack = FALSE /\ backupMissed = FALSE /\ loose = 0
    /\ faults = 0 /\ readFaults = 0 /\ crashes = 0 /\ outages = 0 /\ resets = 0

Fault == faults < MaxFaults /\ faults' = faults + 1
ReadFault == readFaults < MaxReadFaults /\ readFaults' = readFaults + 1
At(p, l) == pc[p] = l
Goto(p, l) == pc' = [pc EXCEPT ![p] = l]

\* fsync_directory(data_dir), after the entries it makes durable changed.
UnsyncedDirectory == survivors' = survivors \cup {<<ledger', journal'>>}
SyncDirectory == survivors' = {<<ledger', journal'>>}

\* The with-block of the file lock ends and the call returns or raises.
Return(p) ==
    /\ lock' = None
    /\ Goto(p, "idle")
    /\ op' = [op EXCEPT ![p] = "none"]
    /\ hand' = [hand EXCEPT ![p] = NoJournal]
    /\ UNCHANGED got

\* _load_unlocked returns v: the document, or the newest valid backup when the
\* file is damaged or the read raises OSError.
LoadUnlocked(v) ==
    \/ ledger # NoLedger /\ v = ledger /\ UNCHANGED <<readFaults, fellBack>>
    \/ ledger = NoLedger /\ v = LatestBackup /\ fellBack' = TRUE /\ UNCHANGED readFaults
    \/ ledger # NoLedger /\ v = LatestBackup /\ fellBack' = TRUE /\ ReadFault

-----------------------------------------------------------------------------
(* transaction(), load() and reset() up to the end of journal recovery.    *)

\* Mutant: load() ignores a pending journal.
LoadEntryUnrecovered == "read"

\* load() takes the lock and recovers only if its unlocked test sees a journal.
LoadEntry == IF journal = NoJournal THEN "read" ELSE "lock"

Begin(p) ==
    /\ At(p, "idle")
    /\ \/ /\ op' = [op EXCEPT ![p] = "transaction"]
          /\ Goto(p, "lock") /\ UNCHANGED <<seen, resets>>
       \/ /\ op' = [op EXCEPT ![p] = "load"]
          /\ Goto(p, LoadEntry)
          /\ seen' = [seen EXCEPT ![p] = accepted] /\ UNCHANGED resets
       \/ /\ resets < MaxResets /\ resets' = resets + 1
          /\ op' = [op EXCEPT ![p] = "reset"]
          /\ Goto(p, "lock") /\ UNCHANGED seen
    /\ UNCHANGED <<files, disk, lock, hand, got, history, incidents, faults, readFaults, crashes, outages>>

Acquire(p) ==
    /\ At(p, "lock")
    /\ lock = None
    /\ lock' = p
    /\ IF journal = NoJournal
       THEN /\ Goto(p, "recovered") /\ UNCHANGED hand
       ELSE /\ Goto(p, "ledger") /\ hand' = [hand EXCEPT ![p] = journal]
    /\ UNCHANGED <<files, disk, op, seen, got, history, incidents, bounds>>

\* Mutant: a waiter polls for ever.
LockTimeoutNever(p) == FALSE /\ UNCHANGED vars

\* Polling for the lock ends in TimeoutError; the caller sees an error.
LockTimeout(p) ==
    /\ At(p, "lock")
    /\ lock # None
    /\ Goto(p, "idle")
    /\ op' = [op EXCEPT ![p] = "none"]
    /\ seen' = [seen EXCEPT ![p] = {}]
    /\ UNCHANGED <<files, disk, lock, hand, got, history, incidents, bounds>>

\* _recover_journal_unlocked raises: the journal cannot be read, and it stays.
RecoverFails(p) ==
    /\ At(p, "lock")
    /\ lock = None /\ journal # NoJournal
    /\ Fault
    /\ Goto(p, "idle")
    /\ op' = [op EXCEPT ![p] = "none"]
    /\ seen' = [seen EXCEPT ![p] = {}]
    /\ UNCHANGED <<files, disk, lock, hand, got, history, incidents, readFaults, env>>

\* The journal in hand belongs to this process's own transaction.
Own(p) == hand[p] # NoJournal /\ status[hand[p].id] = "open"

\* Report the outcome of the process's own transaction to its caller.
Report(p, outcome) ==
    /\ status' = [status EXCEPT ![hand[p].id] = outcome]
    /\ accepted' = IF outcome # "error" /\ hand[p].ledger # NoLedger
                   THEN accepted \cup {hand[p].id} ELSE accepted

\* An OSError while applying a journal: the own transaction is accepted for
\* deferred recovery, a recovery that fails raises.
ApplyFailed(p) ==
    /\ Return(p)
    /\ seen' = [seen EXCEPT ![p] = {}]
    /\ IF Own(p) THEN Report(p, "warned") ELSE UNCHANGED <<status, accepted>>
    /\ UNCHANGED <<batch, doubtful>>

-----------------------------------------------------------------------------
(* _apply_journal_unlocked and _clear_journal_best_effort, for the journal *)
(* in hand: the one recovered, or the process's own.                       *)

\* The document is replaced unless the one read already carries the journal's
\* id.  _atomic_write_json fails before the rename, or after it when only the
\* directory fsync fails.
ApplyLedger(p) ==
    /\ At(p, "ledger")
    /\ \/ /\ hand[p].ledger = NoLedger
          /\ UNCHANGED <<ledger, journal, survivors, readFaults, fellBack>>
       \/ /\ hand[p].ledger # NoLedger
          /\ \E v \in {ledger, LatestBackup} :
              /\ LoadUnlocked(v)
              /\ UNCHANGED journal
              /\ IF v.last = hand[p].id
                 THEN UNCHANGED <<ledger, survivors>>
                 ELSE ledger' = hand[p].ledger /\ SyncDirectory
    /\ Goto(p, "log")
    /\ UNCHANGED <<log, torn, backups, dLog, lock, op, hand, seen, got,
                   history, backupMissed, loose, faults, env>>

ApplyLedgerFails(p) ==
    /\ At(p, "ledger")
    /\ hand[p].ledger # NoLedger
    /\ Fault
    /\ \/ UNCHANGED ledger
       \/ Current.last # hand[p].id /\ ledger' = hand[p].ledger
    /\ UNCHANGED journal /\ UnsyncedDirectory
    /\ ApplyFailed(p)
    /\ UNCHANGED <<log, torn, backups, dLog, incidents, readFaults, env>>

\* Mutant: every event is appended again.
MissingUnchecked(logs) == logs

\* Mutant: one event of the batch in the log stands for all of them.
MissingByTransaction(logs) ==
    SelectSeq(logs, LAMBDA e : \A i \in DOMAIN log : log[i][1] # e[1])

\* The events of a batch that are not among those present, in their order.
Without(logs, present) ==
    LET missing[i \in 0 .. Len(logs)] ==
            IF i = 0 THEN <<>>
            ELSE IF logs[i] \in present THEN missing[i - 1]
            ELSE Append(missing[i - 1], logs[i])
    IN  missing[Len(logs)]

\* The length of events in ops.log.
Bytes(events) ==
    LET sum[i \in 0 .. Len(events)] == IF i = 0 THEN 0 ELSE sum[i - 1] + Size[events[i]]
    IN  sum[Len(events)]

\* _recent_event_ids: the events of the tail of ops.log that has the length of the batch.
Recent(logs) ==
    {log[i] : i \in {j \in DOMAIN log : Bytes(SubSeq(log, j, Len(log))) <= Bytes(logs)}}

\* _append_missing_logs: the tail is scanned for the events of the batch;
\* append_json_objects drops an incomplete final record first.
Missing(logs) == Without(logs, Recent(logs))

\* Mutant: no backup is written.
AfterLogsNoBackup(p) == "clear"

AfterLogs(p) == IF hand[p].ledger = NoLedger THEN "clear" ELSE "backup"

AppendLogs(p) ==
    /\ At(p, "log")
    /\ IF Missing(hand[p].logs) = <<>>
       THEN UNCHANGED <<log, torn, disk>>
       ELSE /\ log' = log \o Missing(hand[p].logs) /\ torn' = FALSE
            /\ dLog' = log' /\ UNCHANGED <<ledger, journal>> /\ SyncDirectory
    /\ Goto(p, AfterLogs(p))
    /\ UNCHANGED <<ledger, journal, backups, lock, op, hand, seen, got, history,
                   incidents, bounds>>

\* A batch of which only the first k records reached ops.log.
PartialAppend(p) ==
    \E k \in 0 .. Len(Missing(hand[p].logs)), t \in BOOLEAN :
        /\ log' = log \o SubSeq(Missing(hand[p].logs), 1, k)
        /\ torn' = (t /\ k < Len(Missing(hand[p].logs)))

\* The append fails and is rolled back, or the rollback fails as well.
AppendLogsFails(p) ==
    /\ At(p, "log")
    /\ Missing(hand[p].logs) # <<>>
    /\ Fault
    /\ \/ torn' = FALSE /\ UNCHANGED log
       \/ PartialAppend(p)
    /\ ApplyFailed(p)
    /\ UNCHANGED <<ledger, journal, backups, disk, incidents, readFaults, env>>

\* _write_backup then _prune_backups; an OSError in either is only a warning: the write
\* fails, or the fsync of backups/ after the rename, or the pruning after that.
Backup(p) ==
    /\ At(p, "backup")
    /\ \/ /\ LET kept == <<hand[p].ledger>> \o backups
             IN  backups' = SubSeq(kept, 1, IF Len(kept) < BackupKeep THEN Len(kept) ELSE BackupKeep)
          /\ loose' = 0 /\ UNCHANGED <<backupMissed, faults>>
       \/ Fault /\ backupMissed' = TRUE /\ UNCHANGED <<backups, loose>>
       \/ /\ Fault /\ backups' = <<hand[p].ledger>> \o backups
          /\ loose' \in {0, loose + 1} /\ UNCHANGED backupMissed
    /\ Goto(p, "clear")
    /\ UNCHANGED <<ledger, journal, log, torn, disk, lock, op, hand, seen, got, history,
                   fellBack, readFaults, env>>

\* Unlink the journal and fsync the directory; a failure of either is only a
\* warning.  The own transaction then returns, a recovery goes on.
ClearJournal(p) ==
    /\ At(p, "clear")
    /\ \/ journal' = NoJournal /\ UNCHANGED <<ledger, faults>> /\ SyncDirectory
       \/ journal' = NoJournal /\ Fault /\ UNCHANGED ledger /\ UnsyncedDirectory
       \/ UNCHANGED <<ledger, journal>> /\ Fault /\ UnsyncedDirectory
    /\ IF Own(p)
       THEN Return(p) /\ Report(p, "ok")
       ELSE /\ Goto(p, "recovered")
            /\ hand' = [hand EXCEPT ![p] = NoJournal]
            /\ UNCHANGED <<lock, op, got, status, accepted>>
    /\ UNCHANGED <<seen, log, torn, backups, dLog, batch, doubtful, incidents, readFaults, env>>

-----------------------------------------------------------------------------
(* The rest of transaction() after recovery.                               *)

\* Mutant: an unreadable ledger reads as a document.
UsableAlways(v) == TRUE

\* _load_unlocked raises LedgerCorruptionError when no document can be read.
Usable(v) == v # NoLedger

\* The journal of a transaction that changed the document v, or only logged.
Prepare(p, v, t, changed, n) ==
    /\ Usable(v) /\ status[t] = "new" /\ (changed \/ n > 0)
    /\ hand' = [hand EXCEPT ![p] =
         [id |-> t,
          ledger |-> IF changed THEN [last |-> t, txns |-> v.txns \cup {t}] ELSE NoLedger,
          logs |-> [i \in 1 .. n |-> <<t, i>>]]]
    /\ status' = [status EXCEPT ![t] = "open"]
    /\ batch' = [batch EXCEPT ![t] = n]
    /\ Goto(p, "journal")
    /\ UNCHANGED <<lock, op, got>>

\* Load, run the mutator, prepare the journal.  A rejecting mutator, one that
\* changes nothing, and an unreadable ledger end the call without a trace.
Mutate(p) ==
    /\ At(p, "recovered") /\ op[p] = "transaction"
    /\ \E v \in {ledger, LatestBackup} :
        /\ LoadUnlocked(v)
        /\ \/ Return(p) /\ UNCHANGED <<status, batch>>
           \/ \E t \in Txn, changed \in BOOLEAN, n \in 0 .. MaxLogs :
                Prepare(p, v, t, changed, n)
    /\ UNCHANGED <<files, disk, seen, accepted, doubtful, backupMissed, loose, faults, env>>

WriteJournal(p) ==
    /\ At(p, "journal")
    /\ journal' = hand[p] /\ UNCHANGED ledger /\ SyncDirectory
    /\ Goto(p, "ledger")
    /\ UNCHANGED <<log, torn, backups, dLog, lock, op, hand, seen, got, history, incidents, bounds>>

\* _write_journal raises: before the rename the call fails; after it the journal
\* is read back to decide.
WriteJournalFails(p) ==
    /\ At(p, "journal")
    /\ Fault
    /\ \/ Return(p) /\ Report(p, "error") /\ UNCHANGED journal
       \/ /\ journal' = hand[p] /\ Goto(p, "reread")
          /\ UNCHANGED <<lock, op, hand, got, status, accepted>>
    /\ UNCHANGED ledger /\ UnsyncedDirectory
    /\ UNCHANGED <<seen, log, torn, backups, dLog, batch, doubtful, incidents,
                   readFaults, env>>

\* Mutant: a failed directory fsync is raised although the journal is in place.
RereadRaises(p) ==
    /\ At(p, "reread")
    /\ Return(p)
    /\ Report(p, "error") /\ UNCHANGED <<doubtful, faults>>
    /\ UNCHANGED <<files, disk, seen, batch, incidents, readFaults, env>>

\* _journal_matches_transaction: the journal in place accepts the transaction
\* with a warning; when it cannot be read the call raises.
Reread(p) ==
    /\ At(p, "reread")
    /\ Return(p)
    /\ \/ Report(p, "warned") /\ UNCHANGED <<doubtful, faults>>
       \/ Report(p, "error") /\ Fault /\ doubtful' = doubtful \cup {hand[p].id}
    /\ UNCHANGED <<files, disk, seen, batch, incidents, readFaults, env>>

-----------------------------------------------------------------------------
(* The rest of load(): the lock is released before the document is read.   *)

Recovered(p) ==
    /\ At(p, "recovered") /\ op[p] = "load"
    /\ lock' = None
    /\ Goto(p, "read")
    /\ UNCHANGED <<files, disk, op, hand, seen, got, history, incidents, bounds>>

Read(p) ==
    /\ At(p, "read")
    /\ \E v \in {ledger, LatestBackup} :
        /\ LoadUnlocked(v)
        /\ IF Usable(v)
           THEN /\ Goto(p, "loaded") /\ got' = [got EXCEPT ![p] = v.txns]
                /\ UNCHANGED <<op, seen>>
           ELSE /\ Goto(p, "idle") /\ UNCHANGED got
                /\ op' = [op EXCEPT ![p] = "none"] /\ seen' = [seen EXCEPT ![p] = {}]
    /\ UNCHANGED <<files, disk, lock, hand, history, backupMissed, loose, faults, env>>

LoadReturns(p) ==
    /\ At(p, "loaded")
    /\ Goto(p, "idle")
    /\ op' = [op EXCEPT ![p] = "none"]
    /\ seen' = [seen EXCEPT ![p] = {}] /\ got' = [got EXCEPT ![p] = {}]
    /\ UNCHANGED <<files, disk, lock, hand, history, incidents, bounds>>

-----------------------------------------------------------------------------
(* The rest of reset(): an OSError at any step leaves the later ones out.  *)

\* From the first change on, nothing accepted earlier is promised any more; a
\* reset that is cut short leaves the data in part.
Erase == accepted' = {} /\ seen' = [q \in Proc |-> {}]

ResetFails(p) ==
    /\ op[p] = "reset"
    /\ \/ At(p, "recovered") /\ Current = NoLedger /\ UNCHANGED faults
       \/ /\ pc[p] \in {"recovered", "unlinkLog", "unlinkJournal", "unlinkBackups"}
          /\ Fault
    /\ Return(p)
    /\ UNCHANGED <<files, disk, seen, history, incidents, readFaults, env>>

ResetLedger(p) ==
    /\ At(p, "recovered") /\ op[p] = "reset"
    /\ Current # NoLedger
    /\ ledger' = EmptyLedger /\ UNCHANGED journal
    /\ Erase
    /\ \/ SyncDirectory /\ Goto(p, "unlinkLog") /\ UNCHANGED <<lock, op, hand, got, faults>>
       \/ UnsyncedDirectory /\ Fault /\ Return(p)
    /\ UNCHANGED <<log, torn, backups, dLog, status, batch, doubtful,
                   incidents, readFaults, env>>

ResetLog(p) ==
    /\ At(p, "unlinkLog")
    /\ log' = <<>> /\ torn' = FALSE
    /\ Goto(p, "unlinkJournal")
    /\ UNCHANGED <<ledger, journal, backups, disk, lock, op, hand, seen, got, history,
                   incidents, bounds>>

\* Mutant: reset() leaves transaction.json in place.
ResetJournalKept(p) ==
    /\ At(p, "unlinkJournal")
    /\ Goto(p, "unlinkBackups")
    /\ UNCHANGED <<files, disk, lock, op, hand, seen, got, history, incidents, bounds>>

ResetJournal(p) ==
    /\ At(p, "unlinkJournal")
    /\ journal' = NoJournal /\ UNCHANGED ledger /\ UnsyncedDirectory
    /\ Erase
    /\ Goto(p, "unlinkBackups")
    /\ UNCHANGED <<log, torn, backups, dLog, lock, op, hand, got, status, batch,
                   doubtful, incidents, bounds>>

ResetBackups(p) ==
    /\ At(p, "unlinkBackups")
    /\ backups' = <<>> /\ loose' = 0
    /\ UNCHANGED <<ledger, journal>> /\ SyncDirectory /\ dLog' = log
    /\ Return(p)
    /\ UNCHANGED <<log, torn, seen, history, fellBack, backupMissed, bounds>>

-----------------------------------------------------------------------------
(* The environment.                                                        *)

\* The callers of the dead processes never learn the outcome.
Abandon(dead, forgotten) ==
    status' = [t \in Txn |->
                 IF \/ status[t] = "open" /\ \E p \in dead : hand[p].id = t
                    \/ status[t] \in forgotten
                 THEN "unknown" ELSE status[t]]

\* SIGKILL of the lock holder, possibly inside the system call that step makes:
\* after the rename or unlink and before its fsync, or amid an append.
Crash(p) ==
    /\ lock = p
    /\ crashes < MaxCrashes /\ crashes' = crashes + 1
    /\ \/ UNCHANGED files
       \/ At(p, "journal") /\ journal' = hand[p] /\ UNCHANGED <<ledger, log, torn, backups>>
       \/ /\ At(p, "ledger") /\ hand[p].ledger # NoLedger /\ Current.last # hand[p].id
          /\ ledger' = hand[p].ledger /\ UNCHANGED <<journal, log, torn, backups>>
       \/ At(p, "log") /\ PartialAppend(p) /\ UNCHANGED <<ledger, journal, backups>>
       \/ At(p, "clear") /\ journal' = NoJournal /\ UNCHANGED <<ledger, log, torn, backups>>
    /\ UnsyncedDirectory
    /\ Return(p)
    /\ seen' = [seen EXCEPT ![p] = {}]
    /\ Abandon({p}, {})
    /\ UNCHANGED <<dLog, batch, accepted, doubtful, incidents, faults, readFaults, outages, resets>>

\* Every process dies; the directories and the unsynced end of ops.log keep what
\* had reached the disk, and a deferred acceptance is no longer promised.
PowerLoss ==
    /\ outages < MaxOutages /\ outages' = outages + 1
    /\ \E s \in survivors : ledger' = s[1] /\ journal' = s[2]
    /\ SyncDirectory
    /\ log' \in {dLog} \cup {SubSeq(log, 1, k) : k \in Len(dLog) .. Len(log)}
    /\ dLog' = log'
    /\ torn' \in {torn, log' # log}
    /\ \E k \in 0 .. loose :
          /\ backups' = SubSeq(backups, k + 1, Len(backups))
          /\ backupMissed' = (backupMissed \/ k > 0)
    /\ loose' = 0
    /\ lock' = None
    /\ pc' = [p \in Proc |-> "idle"] /\ op' = [p \in Proc |-> "none"]
    /\ hand' = [p \in Proc |-> NoJournal]
    /\ seen' = [p \in Proc |-> {}] /\ got' = [p \in Proc |-> {}]
    /\ Abandon(Proc, {"warned"})
    /\ accepted' = {t \in accepted : status[t] = "ok"}
    /\ UNCHANGED <<batch, doubtful, fellBack, faults, readFaults, crashes, resets>>

\* ledger.json no longer validates, for a reason outside this program.
Damage ==
    /\ ReadFault
    /\ ledger # NoLedger
    /\ ledger' = NoLedger /\ UNCHANGED journal /\ SyncDirectory
    /\ UNCHANGED <<log, torn, backups, dLog, lock, procs, history,
                   incidents, faults, env>>

Step(p) ==
    \/ Begin(p) \/ Acquire(p) \/ LockTimeout(p) \/ RecoverFails(p)
    \/ ApplyLedger(p) \/ ApplyLedgerFails(p)
    \/ AppendLogs(p) \/ AppendLogsFails(p)
    \/ Backup(p) \/ ClearJournal(p)
    \/ Mutate(p) \/ WriteJournal(p) \/ WriteJournalFails(p) \/ Reread(p)
    \/ Recovered(p) \/ Read(p) \/ LoadReturns(p)
    \/ ResetFails(p) \/ ResetLedger(p) \/ ResetLog(p) \/ ResetJournal(p) \/ ResetBackups(p)
    \/ Crash(p)

Next == (\E p \in Proc : Step(p)) \/ PowerLoss \/ Damage

Spec == Init /\ [][Next]_vars

\* A running process keeps taking its steps; nobody has to call the store.
FairSpec == Spec /\ \A p \in Proc : WF_vars(Step(p) /\ ~At(p, "idle"))

-----------------------------------------------------------------------------
FilesTypeOK ==
    /\ ledger \in Ledger \cup {NoLedger}
    /\ journal \in Journal \cup {NoJournal}
    /\ survivors \subseteq (Ledger \cup {NoLedger}) \X (Journal \cup {NoJournal})
    /\ torn \in BOOLEAN
    /\ backups \in Seq(Ledger)

ProcsTypeOK ==
    /\ lock \in Proc \cup {None}
    /\ pc \in [Proc -> {"idle", "lock", "recovered", "journal", "reread", "ledger", "log",
                        "backup", "clear", "read", "loaded",
                        "unlinkLog", "unlinkJournal", "unlinkBackups"}]
    /\ op \in [Proc -> {"none", "transaction", "load", "reset"}]
    /\ hand \in [Proc -> Journal \cup {NoJournal}]
    /\ seen \in [Proc -> SUBSET Txn] /\ got \in [Proc -> SUBSET Txn]

HistoryTypeOK ==
    /\ status \in [Txn -> {"new", "open", "ok", "warned", "error", "unknown"}]
    /\ batch \in [Txn -> 0 .. MaxLogs]
    /\ accepted \subseteq Txn /\ doubtful \subseteq Txn
    /\ fellBack \in BOOLEAN /\ backupMissed \in BOOLEAN
    /\ {loose, faults, readFaults, crashes, outages, resets} \subseteq Nat

\* Every variable has its type.  The records of ops.log are typed by AuditOnce.
TypeOK == FilesTypeOK /\ ProcsTypeOK /\ HistoryTypeOK

\* ledger.json cannot be read although the last backup failed as well.
DoubleFailure == backupMissed /\ (fellBack \/ ledger = NoLedger)

\* A change that transaction() reported as committed, with or without a deferred
\* recovery warning, is in the ledger that the next recovery produces, whichever
\* process was killed and whichever I/O failed: only a failed or lost backup together with
\* an unreadable ledger.json loses it.  Across a power loss the promise is kept
\* for the transactions that returned without a deferred-recovery warning.
CommittedSurvives == DoubleFailure \/ accepted \subseteq EffectiveLedger.txns

\* load() returns every change that was reported as committed before it began: it
\* recovers a pending journal first and then reads a document at least that new.
FreshLoad ==
    \A p \in Proc : At(p, "loaded") /\ ~DoubleFailure => seen[p] \subseteq got[p]

\* transaction() raises only when nothing it prepared will take effect, unless
\* the renamed journal could not be read back after its directory fsync failed.
RejectedHasNoEffect ==
    \A t \in Txn :
        status[t] = "error" /\ t \notin doubtful =>
            t \notin EffectiveLedger.txns /\ \A i \in DOMAIN log : log[i][1] # t

\* However often a journal is replayed, ops.log holds an audit event once as long
\* as the power has not failed, and only events of the batches that transactions
\* prepared.  (A power loss can bring back a journal that a newer one had replaced,
\* when records of the newer one are already in the tail that replay scans.)
AuditOnce ==
    /\ outages = 0 => \A i, j \in DOMAIN log : log[i] = log[j] => i = j
    /\ \A i \in DOMAIN log : log[i][2] \in 1 .. batch[log[i][1]]

\* Once its journal is gone, a transaction that was reported as accepted or whose
\* change is in the ledger has all its events in ops.log.
AuditComplete ==
    \A t \in Txn :
        /\ journal.id # t
        /\ t \in Current.txns \/ status[t] \in {"ok", "warned"}
        => \A i \in 1 .. batch[t] : <<t, i>> \in Range(log)

\* As long as the power has not failed and nobody called reset(): kills, failed I/O
\* and replays of the journal leave no accepted transaction without its audit events.
AuditCompleteWhilePowered == outages = 0 /\ resets = 0 => AuditComplete

\* When reset() has unlinked the journal and only backups remain to be removed,
\* no document and no journal can bring a change back.
ResetErases ==
    \A p \in Proc :
        At(p, "unlinkBackups") /\ ledger # NoLedger => EffectiveLedger = EmptyLedger

\* Every call of the store returns or raises: a waiter is not starved by the
\* processes that keep taking the lock, because polling for it times out.
CallsReturn == \A p \in Proc : ~At(p, "idle") ~> At(p, "idle")

\* What a caller of the store may rely on: see AtomicLedger.
Abstract ==
    INSTANCE AtomicLedger WITH
        content <- EffectiveLedger.txns,
        accepted <- {t \in accepted : status[t] = "ok"},
        deferred <- {t \in accepted : status[t] = "warned"},
        rejected <- {t \in Txn : status[t] = "error" /\ t \notin doubtful}

\* The journal protocol implements an atomic, durable ledger.
ImplementsAtomicLedger == Abstract!Spec
=============================================================================
