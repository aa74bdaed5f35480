-------------------------- MODULE LedgerStoreProofs --------------------------
(***************************************************************************)
(* The type invariant of LedgerStore, the inductive invariant behind       *)
(* CommittedSurvives and the proof that it is one, for any number of       *)
(* processes, transactions, faults, crashes, power losses and resets.      *)
(***************************************************************************)
EXTENDS LedgerStore, TLAPS

\* Steps taken with ledger.lock held, and those with a journal in hand.
Holding == {"journal", "reread", "ledger", "log", "backup", "clear"}
Critical == Holding \cup {"recovered", "unlinkLog", "unlinkJournal", "unlinkBackups"}

\* A process has a journal in hand exactly while it writes or applies one.
HandInv ==
    \A p \in Proc :
        /\ pc[p] \in Holding <=> hand[p] # NoJournal
        /\ pc[p] = "backup" => hand[p].ledger # NoLedger

TypeInv == TypeOK /\ HandInv

-----------------------------------------------------------------------------
\* The facts about documents and journals that the proofs use.
LEMMA Records ==
    /\ NoLedger \notin Ledger /\ EmptyLedger \in Ledger
    /\ NoJournal \notin Journal /\ NoJournal.ledger = NoLedger /\ NoJournal.id = None
    /\ EmptyLedger.txns = {} /\ NoLedger.last = None /\ EmptyLedger.last = None
    /\ \A l \in Ledger : l.txns \subseteq Txn
    /\ \A j \in Journal : j.id \in Txn /\ j.ledger \in Ledger \cup {NoLedger}
BY StoreAssumption, Zenon DEF Ledger, NoLedger, EmptyLedger, Journal, NoJournal

\* _load_unlocked yields a document or NoLedger.
LEMMA LoadType ==
    ASSUME TypeOK, NEW v \in {ledger, LatestBackup}, LoadUnlocked(v)
    PROVE  v \in Ledger \cup {NoLedger} /\ fellBack' \in BOOLEAN /\ readFaults' \in Nat
<1>1. LatestBackup \in Ledger \cup {NoLedger}
  BY DEF TypeOK, FilesTypeOK, LatestBackup
<1>2. fellBack' = fellBack \/ fellBack' = TRUE
  BY Zenon DEF LoadUnlocked
<1>3. readFaults' \in Nat
  BY DEF TypeOK, HistoryTypeOK, LoadUnlocked, ReadFault
<1> QED
  BY <1>1, <1>2, <1>3, Zenon DEF TypeOK, FilesTypeOK, HistoryTypeOK

\* Reporting an outcome of the journal in hand keeps the histories well-typed.
LEMMA ReportType ==
    ASSUME TypeOK, NEW p \in Proc, hand[p] # NoJournal,
           NEW o \in {"ok", "warned", "error"}, Report(p, o)
    PROVE  /\ status' \in [Txn -> {"new", "open", "ok", "warned", "error", "unknown"}]
           /\ accepted' \subseteq Txn
BY Records, Zenon DEF TypeOK, ProcsTypeOK, HistoryTypeOK, Report

\* What a process writes or drops with its directory entries stays well-typed.
LEMMA DirectoryType ==
    ASSUME TypeOK, ledger' \in Ledger \cup {NoLedger}, journal' \in Journal \cup {NoJournal},
           SyncDirectory \/ UnsyncedDirectory
    PROVE  survivors' \subseteq (Ledger \cup {NoLedger}) \X (Journal \cup {NoJournal})
BY DEF TypeOK, FilesTypeOK, SyncDirectory, UnsyncedDirectory

\* A call that returns or raises leaves its process well-typed.
LEMMA ReturnType ==
    ASSUME TypeOK, NEW p \in Proc, Return(p), seen' \in [Proc -> SUBSET Txn]
    PROVE  ProcsTypeOK'
<1>1. lock' \in Proc \cup {None} /\ got' \in [Proc -> SUBSET Txn]
  BY Zenon DEF TypeOK, ProcsTypeOK, Return
<1>2. /\ pc' \in [Proc -> {"idle", "lock", "recovered", "journal", "reread", "ledger", "log",
                        "backup", "clear", "read", "loaded",
                        "unlinkLog", "unlinkJournal", "unlinkBackups"}]
      /\ op' \in [Proc -> {"none", "transaction", "load", "reset"}]
  BY Zenon DEF TypeOK, ProcsTypeOK, Return, Goto
<1>3. hand' \in [Proc -> Journal \cup {NoJournal}]
  BY Zenon DEF TypeOK, ProcsTypeOK, Return
<1> QED  BY <1>1, <1>2, <1>3, Zenon DEF ProcsTypeOK

\* A transaction whose process died is still one of the states of a transaction.
LEMMA AbandonType ==
    ASSUME TypeOK, NEW dead, NEW forgotten, Abandon(dead, forgotten)
    PROVE  status' \in [Txn -> {"new", "open", "ok", "warned", "error", "unknown"}]
BY Zenon DEF TypeOK, HistoryTypeOK, Abandon

\* Every step of the store keeps the type invariant, one step of the proof per action.
LEMMA TypeStep == TypeInv /\ [Next]_vars => TypeInv'
<1> SUFFICES ASSUME TypeInv, [Next]_vars PROVE TypeInv'
  BY Zenon
<1> USE Records DEF TypeInv, TypeOK, FilesTypeOK, ProcsTypeOK, HistoryTypeOK, HandInv, Holding,
        files, disk, procs, history, incidents, env, bounds, At, Goto
<1>1. ASSUME NEW p \in Proc, Begin(p) PROVE TypeInv'
  <2>1. FilesTypeOK'
    BY <1>1, Zenon DEF Begin
  <2>2. ProcsTypeOK'
    <3>1. UNCHANGED <<lock, hand, got>> /\ (Goto(p, "lock") \/ Goto(p, "read"))
      BY <1>1, Zenon DEF Begin, LoadEntry
    <3>2. \E o \in {"transaction", "load", "reset"} : op' = [op EXCEPT ![p] = o]
      BY <1>1, Zenon DEF Begin
    <3>3. UNCHANGED seen \/ seen' = [seen EXCEPT ![p] = accepted]
      BY <1>1, Zenon DEF Begin
    <3>4. op' \in [Proc -> {"none", "transaction", "load", "reset"}]
      BY <3>2, Zenon
    <3>5. seen' \in [Proc -> SUBSET Txn]
      BY <3>3, Zenon
    <3> QED  BY <3>1, <3>4, <3>5, Zenon
  <2>3. HistoryTypeOK'
    <3>1. UNCHANGED <<history, incidents, faults, readFaults, crashes, outages>>
      BY <1>1, Zenon DEF Begin
    <3>2. resets' \in Nat
      BY <1>1 DEF Begin
    <3>3. {loose, faults, readFaults, crashes, outages, resets}' \subseteq Nat
      BY <3>1, <3>2
    <3> QED  BY <3>1, <3>3, Zenon
  <2>4. HandInv'
    <3>1. UNCHANGED hand /\ (Goto(p, "lock") \/ Goto(p, "read")) /\ pc[p] = "idle"
      BY <1>1, Zenon DEF Begin, LoadEntry
    <3> QED  BY <3>1, ZenonT(30)
  <2> QED  BY <2>1, <2>2, <2>3, <2>4, Zenon
<1>2. ASSUME NEW p \in Proc, Acquire(p) PROVE TypeInv'
  <2>1. FilesTypeOK'
    BY <1>2, Zenon DEF Acquire
  <2>2. ProcsTypeOK'
    <3>1. lock' = p /\ UNCHANGED <<op, seen, got>>
      BY <1>2, Zenon DEF Acquire
    <3>2. Goto(p, "recovered") \/ Goto(p, "ledger")
      BY <1>2, Zenon DEF Acquire
    <3>3. UNCHANGED hand \/ hand' = [hand EXCEPT ![p] = journal]
      BY <1>2, Zenon DEF Acquire
    <3>4. pc' \in [Proc -> {"idle", "lock", "recovered", "journal", "reread", "ledger", "log",
                         "backup", "clear", "read", "loaded",
                         "unlinkLog", "unlinkJournal", "unlinkBackups"}]
      BY <3>2, Zenon
    <3>5. hand' \in [Proc -> Journal \cup {NoJournal}]
      BY <3>3, Zenon
    <3> QED  BY <3>1, <3>4, <3>5, Zenon
  <2>3. HistoryTypeOK'
    BY <1>2, Zenon DEF Acquire
  <2>4. HandInv'
    BY <1>2 DEF Acquire
  <2> QED  BY <2>1, <2>2, <2>3, <2>4, Zenon
<1>3. ASSUME NEW p \in Proc, LockTimeout(p) \/ RecoverFails(p) PROVE TypeInv'
  <2>1. /\ UNCHANGED <<files, disk, lock, hand, got, history, incidents, readFaults, env>>
        /\ At(p, "lock") /\ Goto(p, "idle") /\ op' = [op EXCEPT ![p] = "none"] /\ seen' = [seen EXCEPT ![p] = {}]
    BY <1>3, Zenon DEF LockTimeout, RecoverFails
  <2>2. faults' \in Nat
    BY <1>3 DEF LockTimeout, RecoverFails, Fault
  <2>3. FilesTypeOK' /\ ProcsTypeOK' /\ HandInv'
    BY <2>1, Zenon
  <2>4. HistoryTypeOK'
    BY <2>1, <2>2
  <2> QED  BY <2>3, <2>4, Zenon
<1>4. ASSUME NEW p \in Proc, ApplyLedger(p) PROVE TypeInv'
  <2>1. FilesTypeOK'
    BY <1>4 DEF ApplyLedger, LoadUnlocked, LatestBackup, SyncDirectory
  <2>2. ProcsTypeOK'
    BY <1>4, Zenon DEF ApplyLedger, LoadUnlocked, LatestBackup, SyncDirectory
  <2>3. HistoryTypeOK'
    <3>1. UNCHANGED <<history, backupMissed, loose, faults, env>>
      BY <1>4, Zenon DEF ApplyLedger
    <3>2. fellBack' \in BOOLEAN /\ readFaults' \in Nat
      BY <1>4, LoadType, Zenon DEF ApplyLedger
    <3> QED  BY <3>1, <3>2
  <2>4. HandInv'
    BY <1>4, Zenon DEF ApplyLedger, LoadUnlocked, LatestBackup, SyncDirectory
  <2> QED  BY <2>1, <2>2, <2>3, <2>4, Zenon
<1>5. ASSUME NEW p \in Proc, ApplyLedgerFails(p) PROVE TypeInv'
  <2>1. FilesTypeOK'
    BY <1>5 DEF ApplyLedgerFails, Fault, UnsyncedDirectory, ApplyFailed, Return, Report, Own
  <2>2. ProcsTypeOK'
    BY <1>5, Zenon DEF ApplyLedgerFails, Fault, UnsyncedDirectory, ApplyFailed, Return, Report, Own
  <2>3. HistoryTypeOK'
    <3>1. hand[p] # NoJournal /\ (Report(p, "warned") \/ UNCHANGED <<status, accepted>>)
      BY <1>5, Zenon DEF ApplyLedgerFails, ApplyFailed
    <3>2. /\ status' \in [Txn -> {"new", "open", "ok", "warned", "error", "unknown"}]
          /\ accepted' \subseteq Txn
      BY <3>1, ReportType, Zenon
    <3>3. /\ UNCHANGED <<batch, doubtful, incidents, readFaults, crashes, outages, resets>>
          /\ faults' = faults + 1
      BY <1>5, Zenon DEF ApplyLedgerFails, ApplyFailed, Fault
    <3>4. {loose, faults, readFaults, crashes, outages, resets}' \subseteq Nat
      BY <3>3
    <3> QED  BY <3>2, <3>3, <3>4, Zenon
  <2>4. HandInv'
    BY <1>5, Zenon DEF ApplyLedgerFails, Fault, UnsyncedDirectory, ApplyFailed, Return, Report, Own
  <2> QED  BY <2>1, <2>2, <2>3, <2>4, Zenon
<1>6. ASSUME NEW p \in Proc, AppendLogs(p) PROVE TypeInv'
  <2>1. FilesTypeOK'
    <3>1. UNCHANGED <<ledger, journal, backups>>
      BY <1>6, Zenon DEF AppendLogs
    <3>2. (UNCHANGED survivors \/ SyncDirectory) /\ torn' \in BOOLEAN
      BY <1>6, Zenon DEF AppendLogs
    <3> QED  BY <3>1, <3>2, DirectoryType, Zenon
  <2>2. ProcsTypeOK'
    BY <1>6, Zenon DEF AppendLogs, AfterLogs, SyncDirectory
  <2>3. HistoryTypeOK'
    BY <1>6, Zenon DEF AppendLogs, AfterLogs, SyncDirectory
  <2>4. HandInv'
    BY <1>6, Zenon DEF AppendLogs, AfterLogs, SyncDirectory
  <2> QED  BY <2>1, <2>2, <2>3, <2>4, Zenon
<1>7. ASSUME NEW p \in Proc, AppendLogsFails(p) PROVE TypeInv'
  <2>1. FilesTypeOK'
    BY <1>7, Zenon DEF AppendLogsFails, Fault, PartialAppend, ApplyFailed, Return, Report, Own
  <2>2. ProcsTypeOK'
    BY <1>7, Zenon DEF AppendLogsFails, Fault, PartialAppend, ApplyFailed, Return, Report, Own
  <2>3. HistoryTypeOK'
    <3>1. Report(p, "warned") \/ UNCHANGED <<status, accepted>>
      BY <1>7, Zenon DEF AppendLogsFails, ApplyFailed
    <3>2. /\ status' \in [Txn -> {"new", "open", "ok", "warned", "error", "unknown"}]
          /\ accepted' \subseteq Txn
      BY <1>7, <3>1, ReportType, Zenon DEF AppendLogsFails
    <3> QED  BY <1>7, <3>2 DEF AppendLogsFails, ApplyFailed, Fault
  <2>4. HandInv'
    BY <1>7, Zenon DEF AppendLogsFails, Fault, PartialAppend, ApplyFailed, Return, Report, Own
  <2> QED  BY <2>1, <2>2, <2>3, <2>4, Zenon
<1>8. ASSUME NEW p \in Proc, Backup(p) PROVE TypeInv'
  <2>1. FilesTypeOK'
    <3>1. hand[p].ledger \in Ledger
      BY <1>8, Zenon DEF Backup
    <3> DEFINE kept == <<hand[p].ledger>> \o backups
    <3>2. kept \in Seq(Ledger) /\ Len(kept) \in Nat
      BY <3>1
    <3>3. SubSeq(kept, 1, IF Len(kept) < BackupKeep THEN Len(kept) ELSE BackupKeep) \in Seq(Ledger)
      BY <3>2, StoreAssumption
    <3>4. backups' \in Seq(Ledger) /\ UNCHANGED <<ledger, journal, torn, disk>>
      BY <1>8, <3>2, <3>3, Zenon DEF Backup
    <3> QED  BY <3>4, Zenon
  <2>2. ProcsTypeOK'
    BY <1>8, Zenon DEF Backup, Fault
  <2>3. HistoryTypeOK'
    <3>1. faults' \in Nat /\ loose' \in Nat /\ UNCHANGED <<history, fellBack, readFaults, env>>
      BY <1>8 DEF Backup, Fault
    <3>2. backupMissed' = backupMissed \/ backupMissed' = TRUE
      BY <1>8, Zenon DEF Backup
    <3>3. fellBack' \in BOOLEAN /\ backupMissed' \in BOOLEAN
      BY <3>1, <3>2, Zenon
    <3>4. {loose, faults, readFaults, crashes, outages, resets}' \subseteq Nat
      BY <3>1
    <3> QED  BY <3>1, <3>3, <3>4, Zenon
  <2>4. HandInv'
    BY <1>8, Zenon DEF Backup, Fault
  <2> QED  BY <2>1, <2>2, <2>3, <2>4, Zenon
<1>9. ASSUME NEW p \in Proc, ClearJournal(p) PROVE TypeInv'
  <2>1. FilesTypeOK'
    BY <1>9 DEF ClearJournal, Fault, SyncDirectory, UnsyncedDirectory, Own, Return, Report
  <2>2. ProcsTypeOK'
    <3>1. Return(p) \/ (Goto(p, "recovered") /\ hand' = [hand EXCEPT ![p] = NoJournal]
                         /\ UNCHANGED <<lock, op, got>>)
      BY <1>9, Zenon DEF ClearJournal
    <3>2. UNCHANGED seen
      BY <1>9, Zenon DEF ClearJournal
    <3>3. CASE Return(p)
      BY <3>2, <3>3, ReturnType, Zenon
    <3>4. CASE /\ Goto(p, "recovered") /\ hand' = [hand EXCEPT ![p] = NoJournal]
               /\ UNCHANGED <<lock, op, got>>
      BY <3>2, <3>4, Zenon
    <3> QED  BY <3>1, <3>3, <3>4, Zenon
  <2>3. HistoryTypeOK'
    <3>1. Report(p, "ok") \/ UNCHANGED <<status, accepted>>
      BY <1>9, Zenon DEF ClearJournal
    <3>2. /\ status' \in [Txn -> {"new", "open", "ok", "warned", "error", "unknown"}]
          /\ accepted' \subseteq Txn
      BY <1>9, <3>1, ReportType, Zenon DEF ClearJournal
    <3> QED  BY <1>9, <3>2 DEF ClearJournal, Fault
  <2>4. HandInv'
    BY <1>9, SMTT(30) DEF ClearJournal, Fault, SyncDirectory, UnsyncedDirectory, Own, Return, Report
  <2> QED  BY <2>1, <2>2, <2>3, <2>4, Zenon
<1>10. ASSUME NEW p \in Proc, Mutate(p) PROVE TypeInv'
  <2>1. PICK v \in {ledger, LatestBackup} :
          /\ LoadUnlocked(v)
          /\ \/ Return(p) /\ UNCHANGED <<status, batch>>
             \/ \E t \in Txn, changed \in BOOLEAN, n \in 0 .. MaxLogs : Prepare(p, v, t, changed, n)
    BY <1>10, Zenon DEF Mutate
  <2>2. v \in Ledger \cup {NoLedger} /\ fellBack' \in BOOLEAN /\ readFaults' \in Nat
    BY <2>1, LoadType, Zenon
  <2>3. /\ UNCHANGED <<files, disk, seen, accepted, doubtful, backupMissed, loose, faults, env>>
        /\ At(p, "recovered")
    BY <1>10, Zenon DEF Mutate
  <2>4. ASSUME NEW t \in Txn, NEW changed \in BOOLEAN, NEW n \in 0 .. MaxLogs,
               Prepare(p, v, t, changed, n)
        PROVE  /\ hand'[p] \in Journal /\ hand' = [hand EXCEPT ![p] = hand'[p]]
               /\ status' = [status EXCEPT ![t] = "open"] /\ batch' = [batch EXCEPT ![t] = n]
               /\ Goto(p, "journal") /\ UNCHANGED <<lock, op, got>>
    <3> DEFINE logs == [i \in 1 .. n |-> <<t, i>>]
               doc == IF changed THEN [last |-> t, txns |-> v.txns \cup {t}] ELSE NoLedger
    <3>1. logs \in Seq(Event)
      BY StoreAssumption DEF Event
    <3>2. doc \in Ledger \cup {NoLedger}
      BY <2>2, <2>4, SMTT(30) DEF Prepare, Usable, Ledger
    <3>3. [id |-> t, ledger |-> doc, logs |-> logs] \in Journal
      BY <3>1, <3>2, Zenon DEF Journal
    <3>4. hand' = [hand EXCEPT ![p] = [id |-> t, ledger |-> doc, logs |-> logs]]
      BY <2>4, Zenon DEF Prepare
    <3> HIDE DEF doc, logs
    <3> QED  BY <3>3, <3>4, <2>4 DEF Prepare
  <2>5. CASE Return(p) /\ UNCHANGED <<status, batch>>
    BY <2>2, <2>3, <2>5 DEF Return
  <2>6. ASSUME NEW t \in Txn, NEW changed \in BOOLEAN, NEW n \in 0 .. MaxLogs,
               Prepare(p, v, t, changed, n)
        PROVE  TypeInv'
    <3>1. /\ hand'[p] \in Journal /\ hand' = [hand EXCEPT ![p] = hand'[p]]
          /\ status' = [status EXCEPT ![t] = "open"] /\ batch' = [batch EXCEPT ![t] = n]
          /\ Goto(p, "journal") /\ UNCHANGED <<lock, op, got>>
      BY <2>4, <2>6, Zenon
    <3>2. FilesTypeOK'  BY <2>3, Zenon
    <3>3. ProcsTypeOK'  BY <2>3, <3>1, Zenon
    <3>4. HistoryTypeOK'  BY <2>2, <2>3, <3>1
    <3>5. HandInv'  BY <2>3, <3>1
    <3> QED  BY <3>2, <3>3, <3>4, <3>5, Zenon
  <2> QED  BY <2>1, <2>5, <2>6, Zenon
<1>11. ASSUME NEW p \in Proc, WriteJournal(p) PROVE TypeInv'
  BY <1>11 DEF WriteJournal, SyncDirectory
<1>12. ASSUME NEW p \in Proc, WriteJournalFails(p) PROVE TypeInv'
  <2>1. FilesTypeOK'
    BY <1>12 DEF WriteJournalFails, Fault, UnsyncedDirectory, Return, Report
  <2>2. ProcsTypeOK'
    <3>1. UNCHANGED seen
      BY <1>12, Zenon DEF WriteJournalFails
    <3>2. CASE Return(p)
      BY <3>1, <3>2, ReturnType, Zenon
    <3>3. CASE Goto(p, "reread") /\ UNCHANGED <<lock, op, hand, got>>
      BY <3>1, <3>3, Zenon
    <3> QED  BY <1>12, <3>2, <3>3, Zenon DEF WriteJournalFails
  <2>3. HistoryTypeOK'
    <3>1. Report(p, "error") \/ UNCHANGED <<status, accepted>>
      BY <1>12, Zenon DEF WriteJournalFails
    <3>2. /\ status' \in [Txn -> {"new", "open", "ok", "warned", "error", "unknown"}]
          /\ accepted' \subseteq Txn
      BY <1>12, <3>1, ReportType, Zenon DEF WriteJournalFails
    <3> QED  BY <1>12, <3>2, SMTT(30) DEF WriteJournalFails, Fault
  <2>4. HandInv'
    BY <1>12 DEF WriteJournalFails, Fault, UnsyncedDirectory, Return, Report
  <2> QED  BY <2>1, <2>2, <2>3, <2>4, Zenon
<1>13. ASSUME NEW p \in Proc, Reread(p) PROVE TypeInv'
  <2>1. FilesTypeOK'
    BY <1>13, Zenon DEF Reread, Fault, Return, Report
  <2>2. ProcsTypeOK'
    <3>1. Return(p) /\ UNCHANGED seen
      BY <1>13, Zenon DEF Reread
    <3> QED  BY <3>1, ReturnType, Zenon
  <2>3. HistoryTypeOK'
    <3>1. hand[p] # NoJournal /\ hand[p].id \in Txn
      BY <1>13, Zenon DEF Reread
    <3>2. \E o \in {"warned", "error"} : Report(p, o)
      BY <1>13, Zenon DEF Reread
    <3>3. /\ status' \in [Txn -> {"new", "open", "ok", "warned", "error", "unknown"}]
          /\ accepted' \subseteq Txn
      BY <3>1, <3>2, ReportType
    <3>4. doubtful' \subseteq Txn /\ faults' \in Nat /\ UNCHANGED <<batch, incidents, readFaults, env>>
      BY <1>13, <3>1, SMTT(30) DEF Reread, Fault
    <3> QED  BY <3>3, <3>4
  <2>4. HandInv'
    BY <1>13, ZenonT(30) DEF Reread, Fault, Return, Report
  <2> QED  BY <2>1, <2>2, <2>3, <2>4, Zenon
<1>14. ASSUME NEW p \in Proc, Recovered(p) PROVE TypeInv'
  BY <1>14, Zenon DEF Recovered
<1>15. ASSUME NEW p \in Proc, Read(p) PROVE TypeInv'
  <2>1. FilesTypeOK'
    BY <1>15, Zenon DEF Read, LoadUnlocked, LatestBackup, ReadFault, Usable
  <2>0. PICK v \in {ledger, LatestBackup} :
          /\ LoadUnlocked(v)
          /\ \/ v # NoLedger /\ Goto(p, "loaded") /\ got' = [got EXCEPT ![p] = v.txns]
                /\ UNCHANGED <<op, seen>>
             \/ /\ Goto(p, "idle") /\ UNCHANGED got
                /\ op' = [op EXCEPT ![p] = "none"] /\ seen' = [seen EXCEPT ![p] = {}]
    BY <1>15, Zenon DEF Read, Usable
  <2>a. v \in Ledger \cup {NoLedger} /\ fellBack' \in BOOLEAN /\ readFaults' \in Nat
    BY <2>0, LoadType, Zenon
  <2>b. UNCHANGED <<files, disk, lock, hand, history, backupMissed, loose, faults, env>> /\ At(p, "read")
    BY <1>15, Zenon DEF Read
  <2>2. ProcsTypeOK'
    <3>1. CASE /\ v # NoLedger /\ Goto(p, "loaded") /\ got' = [got EXCEPT ![p] = v.txns]
               /\ UNCHANGED <<op, seen>>
      BY <2>a, <2>b, <3>1, Zenon
    <3>2. CASE /\ Goto(p, "idle") /\ UNCHANGED got
               /\ op' = [op EXCEPT ![p] = "none"] /\ seen' = [seen EXCEPT ![p] = {}]
      BY <2>b, <3>2, Zenon
    <3> QED  BY <2>0, <3>1, <3>2, Zenon
  <2>3. HistoryTypeOK'
    BY <2>a, <2>b
  <2>4. HandInv'
    <3>1. UNCHANGED hand /\ (Goto(p, "loaded") \/ Goto(p, "idle")) /\ pc[p] = "read"
      BY <2>0, <2>b, Zenon
    <3> QED  BY <3>1, ZenonT(30)
  <2> QED  BY <2>1, <2>2, <2>3, <2>4, Zenon
<1>16. ASSUME NEW p \in Proc, LoadReturns(p) PROVE TypeInv'
  BY <1>16, Zenon DEF LoadReturns
<1>17. ASSUME NEW p \in Proc, ResetFails(p) PROVE TypeInv'
  BY <1>17 DEF ResetFails, Fault, Return
<1>18. ASSUME NEW p \in Proc, ResetLedger(p) PROVE TypeInv'
  <2>1. FilesTypeOK'
    BY <1>18 DEF ResetLedger, Fault, Erase, SyncDirectory, UnsyncedDirectory, Return
  <2>2. ProcsTypeOK'
    <3>1. seen' \in [Proc -> SUBSET Txn]
      BY <1>18, Zenon DEF ResetLedger, Erase
    <3>2. CASE Return(p)
      BY <3>1, <3>2, ReturnType, Zenon
    <3>3. CASE Goto(p, "unlinkLog") /\ UNCHANGED <<lock, op, hand, got>>
      BY <3>1, <3>3, Zenon
    <3> QED  BY <1>18, <3>2, <3>3, Zenon DEF ResetLedger
  <2>3. HistoryTypeOK'
    BY <1>18 DEF ResetLedger, Fault, Erase, SyncDirectory, UnsyncedDirectory, Return
  <2>4. HandInv'
    BY <1>18 DEF ResetLedger, Fault, Erase, SyncDirectory, UnsyncedDirectory, Return
  <2> QED  BY <2>1, <2>2, <2>3, <2>4, Zenon
<1>19. ASSUME NEW p \in Proc, ResetLog(p) PROVE TypeInv'
  BY <1>19, Zenon DEF ResetLog
<1>20. ASSUME NEW p \in Proc, ResetJournal(p) PROVE TypeInv'
  BY <1>20 DEF ResetJournal, Erase, UnsyncedDirectory
<1>21. ASSUME NEW p \in Proc, ResetBackups(p) PROVE TypeInv'
  BY <1>21 DEF ResetBackups, SyncDirectory, Return
<1>22. ASSUME NEW p \in Proc, Crash(p) PROVE TypeInv'
  <2>1. FilesTypeOK'
    <3>1. /\ ledger' = ledger \/ ledger' = hand[p].ledger
          /\ journal' = journal \/ journal' = hand[p] \/ journal' = NoJournal
          /\ backups' = backups /\ UnsyncedDirectory
      BY <1>22, Zenon DEF Crash
    <3>2. torn' = torn \/ PartialAppend(p)
      BY <1>22, Zenon DEF Crash
    <3>3. torn' \in BOOLEAN
      BY <3>2, Zenon DEF PartialAppend
    <3>4. ledger' \in Ledger \cup {NoLedger} /\ journal' \in Journal \cup {NoJournal}
      BY <3>1
    <3> QED  BY <3>1, <3>3, <3>4, DirectoryType, Zenon
  <2>2. ProcsTypeOK'
    <3>1. Return(p) /\ seen' = [seen EXCEPT ![p] = {}]
      BY <1>22, Zenon DEF Crash
    <3> QED  BY <3>1, ReturnType, Zenon
  <2>3. HistoryTypeOK'
    <3>1. status' \in [Txn -> {"new", "open", "ok", "warned", "error", "unknown"}]
      BY <1>22, AbandonType, Zenon DEF Crash
    <3>2. /\ UNCHANGED <<batch, accepted, doubtful, incidents, faults, readFaults, outages, resets>>
          /\ crashes' = crashes + 1
      BY <1>22, Zenon DEF Crash
    <3>3. {loose, faults, readFaults, crashes, outages, resets}' \subseteq Nat
      BY <3>2
    <3> QED  BY <3>1, <3>2, <3>3, Zenon
  <2>4. HandInv'
    BY <1>22, Zenon DEF Crash, UnsyncedDirectory, Return, Abandon, PartialAppend
  <2> QED  BY <2>1, <2>2, <2>3, <2>4, Zenon
<1>23. CASE PowerLoss
  <2>1. FilesTypeOK'
    <3>1. PICK s \in survivors : ledger' = s[1] /\ journal' = s[2]
      BY <1>23, Zenon DEF PowerLoss
    <3>2. ledger' \in Ledger \cup {NoLedger} /\ journal' \in Journal \cup {NoJournal}
      BY <3>1, Zenon
    <3>3. torn' \in BOOLEAN /\ SyncDirectory
      BY <1>23, Zenon DEF PowerLoss
    <3>4. PICK k \in 0 .. loose : backups' = SubSeq(backups, k + 1, Len(backups))
      BY <1>23, Zenon DEF PowerLoss
    <3>5. backups' \in Seq(Ledger)
      BY <3>4
    <3> QED  BY <3>2, <3>3, <3>5, DirectoryType, Zenon
  <2>2. ProcsTypeOK'
    BY <1>23, Zenon DEF PowerLoss, SyncDirectory, Abandon
  <2>3. HistoryTypeOK'
    <3>1. status' \in [Txn -> {"new", "open", "ok", "warned", "error", "unknown"}]
      BY <1>23, AbandonType, Zenon DEF PowerLoss
    <3>2. /\ UNCHANGED <<batch, doubtful, fellBack, faults, readFaults, crashes, resets>>
          /\ accepted' \subseteq accepted /\ loose' = 0 /\ outages' = outages + 1
      BY <1>23, Zenon DEF PowerLoss
    <3>3. {loose, faults, readFaults, crashes, outages, resets}' \subseteq Nat
      BY <3>2
    <3>4. backupMissed' \in BOOLEAN
      BY <1>23, Zenon DEF PowerLoss
    <3> QED  BY <3>1, <3>2, <3>3, <3>4, Zenon
  <2>4. HandInv'
    BY <1>23, Zenon DEF PowerLoss, SyncDirectory, Abandon
  <2> QED  BY <2>1, <2>2, <2>3, <2>4, Zenon
<1>24. CASE Damage
  BY <1>24 DEF Damage, ReadFault, SyncDirectory
<1>25. CASE UNCHANGED vars
  BY <1>25, Zenon DEF vars
<1> QED
  BY <1>1, <1>2, <1>3, <1>4, <1>5, <1>6, <1>7, <1>8, <1>9, <1>10, <1>11, <1>12, <1>13, <1>14,
     <1>15, <1>16, <1>17, <1>18, <1>19, <1>20, <1>21, <1>22, <1>23, <1>24, <1>25, Zenon DEF Next, Step

\* The initial state is well typed.
LEMMA TypeInit == Init => TypeInv
<1> SUFFICES ASSUME Init PROVE TypeInv
  BY Zenon
<1>1. ProcsTypeOK /\ HandInv
  BY Records, Zenon DEF Init, ProcsTypeOK, HandInv, Holding
<1>2. FilesTypeOK
  <2>1. torn \in BOOLEAN
    BY Zenon DEF Init
  <2>2. backups \in Seq(Ledger)
    BY DEF Init
  <2>3. ledger \in Ledger \cup {NoLedger} /\ journal \in Journal \cup {NoJournal}
    BY Records, Zenon DEF Init
  <2>4. survivors \subseteq (Ledger \cup {NoLedger}) \X (Journal \cup {NoJournal})
    BY Records DEF Init
  <2> QED  BY <2>1, <2>2, <2>3, <2>4, Zenon DEF FilesTypeOK
<1>3. HistoryTypeOK
  <2>1. fellBack \in BOOLEAN /\ backupMissed \in BOOLEAN
    BY Zenon DEF Init
  <2> QED  BY <2>1, StoreAssumption DEF Init, HistoryTypeOK
<1> QED
  BY <1>1, <1>2, <1>3, Zenon DEF TypeInv, TypeOK

\* Every reachable state of the store is well-typed: no step of transaction(),
\* load() or reset() takes NoLedger for a document or puts one into a backup.
THEOREM TypeCorrect == Spec => []TypeOK
<1>1. TypeInv => TypeOK
  BY Zenon DEF TypeInv
<1> QED
  BY <1>1, TypeInit, TypeStep, PTL DEF Spec

-----------------------------------------------------------------------------
(* What the files hold.                                                    *)

\* No read fell back to a backup after a backup had failed.
Safe == ~(fellBack /\ backupMissed)

\* What must be kept whatever happens, and what even a power loss must not take.
Firm == {t \in accepted : status[t] = "ok"}

\* A journal's document carries the journal's own id (_validate_journal).
Stamped(j) == j.ledger # NoLedger => j.ledger.last = j.id /\ j.id \in j.ledger.txns

\* Reported outcomes, directory states and ids: an accepted transaction is not
\* open, an open one is in the hands of a process, and an unused id is in no file.
HistoryInv ==
    /\ \A t \in accepted : status[t] \in {"ok", "warned"}
    /\ \A t \in Txn : status[t] = "open" => \E p \in Proc : hand[p].id = t
    /\ <<ledger, journal>> \in survivors
    /\ \A s \in survivors : Stamped(s[2])
    /\ \A t \in Txn : status[t] = "new" =>
        LatestBackup.last # t /\ \A s \in survivors : s[1].last # t /\ s[2].id # t

\* Where the accepted changes are, for the files as they stand.
FilesInv ==
    /\ Safe /\ ledger # NoLedger => accepted \subseteq Replayed(ledger, journal).txns
    /\ ~backupMissed => accepted \subseteq Replayed(LatestBackup, journal).txns
    /\ Safe /\ journal.ledger # NoLedger => accepted \subseteq journal.ledger.txns
    /\ Safe /\ journal.ledger # NoLedger /\ ledger # NoLedger
         /\ LatestBackup.last = journal.id => accepted \subseteq ledger.txns

\* What a power loss may leave holds every change that was cleanly committed.
FirmInv ==
    /\ \A s \in survivors :
        /\ Safe /\ s[1] # NoLedger => Firm \subseteq s[1].txns
        /\ Safe /\ s[2].ledger # NoLedger => Firm \subseteq s[2].ledger.txns
    /\ ~backupMissed => Firm \subseteq LatestBackup.txns

\* The lock holder's journal, once written, is the file; an open transaction's id
\* is in no document before that transaction's own step puts it there.
HandOK(p) ==
    /\ lock = p
    /\ pc[p] \in Holding \ {"journal"} => hand[p] = journal
    /\ Stamped(hand[p])
    /\ pc[p] \in {"journal", "reread"} => status[hand[p].id] = "open"
    /\ Own(p) /\ pc[p] # "clear" => LatestBackup.last # hand[p].id
    /\ Own(p) /\ pc[p] \in {"journal", "reread", "ledger"} => ledger.last # hand[p].id

\* Where the accepted changes are while the lock holder is at work.
WorkOK(p) ==
    /\ pc[p] = "journal" /\ Safe /\ hand[p].ledger # NoLedger =>
         accepted \subseteq hand[p].ledger.txns
    /\ pc[p] \in {"recovered", "journal"} =>
         /\ Safe /\ ledger # NoLedger => accepted \subseteq ledger.txns
         /\ ~backupMissed => accepted \subseteq LatestBackup.txns
    /\ pc[p] \in {"log", "backup", "clear"} /\ hand[p].ledger # NoLedger =>
         /\ Safe /\ ledger # NoLedger => accepted \subseteq ledger.txns
         /\ Own(p) => \A s \in survivors :
              /\ s[1] # NoLedger => hand[p].id \in s[1].txns
              /\ s[2].ledger # NoLedger => hand[p].id \in s[2].ledger.txns
    /\ pc[p] = "clear" /\ ~backupMissed /\ hand[p].ledger # NoLedger =>
         LatestBackup = hand[p].ledger
    /\ pc[p] \in {"unlinkLog", "unlinkJournal", "unlinkBackups"} => accepted = {}

HolderInv == \A p \in Proc : pc[p] \in Critical => HandOK(p) /\ WorkOK(p)

\* The inductive invariant behind CommittedSurvives.
DurabilityInv == HistoryInv /\ FilesInv /\ FirmInv /\ HolderInv

\* No backup is that of a transaction still to come: an older one may become the
\* newest when a power loss takes the ones that were not fsynced.
BackupsInv == \A t \in Txn : status[t] = "new" => \A k \in DOMAIN backups : backups[k].last # t

-----------------------------------------------------------------------------
\* An empty data directory satisfies the invariant: nothing is accepted yet.
LEMMA DurabilityInit == Init => DurabilityInv
<1> SUFFICES ASSUME Init PROVE DurabilityInv
  BY Zenon
<1> USE Records, StoreAssumption DEF Init
<1>1. HistoryInv
  BY DEF HistoryInv, Stamped, LatestBackup
<1>2. FilesInv /\ FirmInv
  BY Zenon DEF FilesInv, FirmInv, Firm, Replayed
<1>3. HolderInv
  BY Zenon DEF HolderInv, Critical, Holding
<1> QED
  BY <1>1, <1>2, <1>3, Zenon DEF DurabilityInv

\* While a process holds the lock, or takes it, no other one is inside, and an
\* open transaction is the holder's own.
LEMMA Exclusive ==
    ASSUME TypeInv, DurabilityInv, NEW p \in Proc, lock = p \/ lock = None
    PROVE  /\ \A q \in Proc \ {p} : pc[q] \notin Critical /\ hand[q] = NoJournal
           /\ \A t \in Txn : status[t] = "open" => hand[p].id = t
<1>1. \A q \in Proc : pc[q] \in Critical => lock = q
  BY Zenon DEF DurabilityInv, HolderInv, HandOK
<1>2. \A q \in Proc \ {p} : pc[q] \notin Critical
  BY <1>1, StoreAssumption, Zenon
<1>3. \A q \in Proc : hand[q] # NoJournal => pc[q] \in Critical
  BY Zenon DEF TypeInv, HandInv, Critical
<1>4. \A q \in Proc \ {p} : hand[q] = NoJournal
  BY <1>2, <1>3, Zenon
<1>5. \A t \in Txn : status[t] = "open" => hand[p].id = t
  BY <1>4, Records, StoreAssumption DEF DurabilityInv, HistoryInv
<1> QED
  BY <1>2, <1>4, <1>5, Zenon

\* What the lock holder knows at each of its steps.
LEMMA Inside ==
    ASSUME TypeInv, DurabilityInv, NEW p \in Proc, pc[p] \in Critical
    PROVE  /\ HandOK(p) /\ WorkOK(p)
           /\ \A q \in Proc \ {p} : pc[q] \notin Critical /\ hand[q] = NoJournal
           /\ \A t \in Txn : status[t] = "open" => hand[p].id = t
           /\ pc[p] \in Holding => hand[p] \in Journal
           /\ pc[p] \notin Holding => hand[p] = NoJournal
<1>1. HandOK(p) /\ WorkOK(p)
  BY Zenon DEF DurabilityInv, HolderInv
<1>2. lock = p
  BY <1>1, Zenon DEF HandOK
<1>3. hand[p] \in Journal \cup {NoJournal} /\ (pc[p] \in Holding <=> hand[p] # NoJournal)
  BY Zenon DEF TypeInv, TypeOK, ProcsTypeOK, HandInv
<1> QED
  BY <1>1, <1>2, <1>3, Exclusive, Zenon

\* A step of the lock holder that goes on inside.
LEMMA StaysInside ==
    ASSUME TypeInv, DurabilityInv, NEW p \in Proc, pc[p] \in Critical, NEW l,
           Goto(p, l), HandOK(p)', WorkOK(p)'
    PROVE  HolderInv'
<1>1. \A q \in Proc \ {p} : pc'[q] \notin Critical
  BY Inside, Zenon DEF Goto, TypeInv, TypeOK, ProcsTypeOK
<1> QED
  BY <1>1, Zenon DEF HolderInv

\* A step after which the process is outside.
LEMMA Leaves ==
    ASSUME TypeInv, DurabilityInv, NEW p \in Proc, pc[p] \in Critical, NEW l,
           Goto(p, l), l \notin Critical
    PROVE  HolderInv'
<1>1. \A q \in Proc : pc'[q] \notin Critical
  BY Inside, Zenon DEF Goto, TypeInv, TypeOK, ProcsTypeOK
<1> QED
  BY <1>1, Zenon DEF HolderInv

\* A step that changes no file and no outcome, though its read may fall back.
LEMMA Reads ==
    ASSUME DurabilityInv,
           UNCHANGED <<ledger, journal, backups, survivors, status, accepted, backupMissed>>,
           UNCHANGED fellBack \/ fellBack' = TRUE
    PROVE  FilesInv' /\ FirmInv'
<1>1. LatestBackup' = LatestBackup /\ Firm' = Firm /\ (Safe' => Safe)
  BY DEF LatestBackup, Firm, Safe
<1>2. FilesInv'
  BY <1>1, Zenon DEF DurabilityInv, FilesInv, Replayed
<1>3. FirmInv'
  BY <1>1, Zenon DEF DurabilityInv, FirmInv
<1> QED  BY <1>2, <1>3, Zenon

\* What the invariant says of the directory as it stands.
LEMMA PresentFiles ==
    ASSUME DurabilityInv
    PROVE  /\ <<ledger, journal>> \in survivors /\ Stamped(journal)
           /\ \A t \in Txn : status[t] = "new" =>
                LatestBackup.last # t /\ ledger.last # t /\ journal.id # t
           /\ Safe /\ ledger # NoLedger => Firm \subseteq ledger.txns
           /\ Safe /\ journal.ledger # NoLedger => Firm \subseteq journal.ledger.txns
           /\ ~backupMissed => Firm \subseteq LatestBackup.txns
<1> DEFINE s == <<ledger, journal>>
<1>1. s \in survivors /\ s[1] = ledger /\ s[2] = journal
  BY Zenon DEF DurabilityInv, HistoryInv
<1>2. /\ Stamped(s[2])
      /\ \A t \in Txn : status[t] = "new" => LatestBackup.last # t /\ s[1].last # t /\ s[2].id # t
  BY <1>1, Zenon DEF DurabilityInv, HistoryInv
<1>3. /\ Safe /\ s[1] # NoLedger => Firm \subseteq s[1].txns
      /\ Safe /\ s[2].ledger # NoLedger => Firm \subseteq s[2].ledger.txns
      /\ ~backupMissed => Firm \subseteq LatestBackup.txns
  BY <1>1, Zenon DEF DurabilityInv, FirmInv
<1> QED
  BY <1>1, <1>2, <1>3, Zenon

\* A step that adds at most the present directory to what a power loss may leave:
\* HistoryInv has to be shown for that directory only.
LEMMA HistoryMoves ==
    ASSUME DurabilityInv, survivors' \subseteq survivors \cup {<<ledger', journal'>>},
           <<ledger', journal'>> \in survivors',
           \A t \in accepted' : status'[t] \in {"ok", "warned"},
           \A t \in Txn : status'[t] = "open" => \E q \in Proc : hand'[q].id = t,
           Stamped(journal'),
           \A t \in Txn : status'[t] = "new" =>
               status[t] = "new" /\ LatestBackup'.last # t /\ ledger'.last # t /\ journal'.id # t
    PROVE  HistoryInv'
<1>1. \A s \in survivors' : s \in survivors \/ (s[1] = ledger' /\ s[2] = journal')
  OBVIOUS
<1>2. \A s \in survivors' : Stamped(s[2])
  BY <1>1, Zenon DEF DurabilityInv, HistoryInv
<1>3. \A t \in Txn : status'[t] = "new" => \A s \in survivors' : s[1].last # t /\ s[2].id # t
  BY <1>1, Zenon DEF DurabilityInv, HistoryInv
<1>4. \A s \in survivors' : Stamped(s[2])'
  BY <1>2, Zenon DEF Stamped
<1> QED
  BY <1>3, <1>4, Zenon DEF HistoryInv

\* The same for FirmInv.
LEMMA FirmMoves ==
    ASSUME DurabilityInv, survivors' \subseteq survivors \cup {<<ledger', journal'>>},
           Firm' \subseteq Firm, Safe' => Safe,
           Safe' /\ ledger' # NoLedger => Firm \subseteq ledger'.txns,
           Safe' /\ journal'.ledger # NoLedger => Firm \subseteq journal'.ledger.txns,
           ~backupMissed' => Firm \subseteq LatestBackup'.txns
    PROVE  FirmInv'
<1>1. \A s \in survivors' : s \in survivors \/ (s[1] = ledger' /\ s[2] = journal')
  OBVIOUS
<1>2. \A s \in survivors' :
        /\ Safe' /\ s[1] # NoLedger => Firm \subseteq s[1].txns
        /\ Safe' /\ s[2].ledger # NoLedger => Firm \subseteq s[2].ledger.txns
  BY <1>1, Zenon DEF DurabilityInv, FirmInv
<1> QED
  BY <1>2, Zenon DEF FirmInv

\* The outcomes after the lock holder reports on its own transaction.
LEMMA Reports ==
    ASSUME TypeInv, DurabilityInv, NEW p \in Proc, pc[p] \in Holding, Own(p),
           NEW o \in {"ok", "warned", "error"}, Report(p, o)
    PROVE  /\ accepted' \subseteq accepted \cup {hand[p].id}
           /\ hand[p].id \in accepted' => hand[p].ledger # NoLedger
           /\ Firm' \subseteq Firm \cup (IF o = "ok" THEN {hand[p].id} ELSE {})
           /\ Firm' \subseteq accepted'
           /\ \A t \in accepted' : status'[t] \in {"ok", "warned"}
           /\ \A t \in Txn : status'[t] # "open" /\ (status'[t] = "new" => status[t] = "new")
<1> DEFINE h == hand[p]
<1>1. h \in Journal /\ (\A t \in Txn : status[t] = "open" => h.id = t)
  BY Inside, Zenon DEF Critical
<1>2. h.id \in Txn /\ status[h.id] = "open"
  BY <1>1, Records, Zenon DEF Own
<1>3. h.id \notin accepted /\ (\A t \in accepted : status[t] \in {"ok", "warned"})
  BY <1>2, Zenon DEF DurabilityInv, HistoryInv
<1>4. /\ status' = [status EXCEPT ![h.id] = o]
      /\ accepted' = IF o # "error" /\ h.ledger # NoLedger THEN accepted \cup {h.id} ELSE accepted
  BY Zenon DEF Report
<1>5. \A t \in Txn : status'[t] = IF t = h.id THEN o ELSE status[t]
  BY <1>2, <1>4, Zenon DEF TypeInv, TypeOK, HistoryTypeOK
<1>6. accepted \subseteq Txn
  BY Zenon DEF TypeInv, TypeOK, HistoryTypeOK
<1> QED
  BY <1>1, <1>2, <1>3, <1>4, <1>5, <1>6 DEF Firm

\* Writing the journal (_write_journal) keeps the invariant: from here on the
\* own document is what a recovery produces, and it holds every accepted change.
LEMMA WriteJournalStep ==
    ASSUME TypeInv, DurabilityInv, NEW p \in Proc, WriteJournal(p)
    PROVE  DurabilityInv'
<1> DEFINE h == hand[p]
<1>0. /\ pc[p] = "journal" /\ journal' = h /\ survivors' = {<<ledger, h>>} /\ Goto(p, "ledger")
      /\ UNCHANGED <<ledger, backups, lock, hand, status, accepted, fellBack, backupMissed>>
  BY Zenon DEF WriteJournal, At, SyncDirectory, history, incidents
<1>1. HandOK(p) /\ WorkOK(p) /\ h \in Journal
  BY <1>0, Inside, Zenon DEF Critical, Holding
<1>2. /\ h.id \in Txn /\ status[h.id] = "open" /\ Stamped(h) /\ lock = p
      /\ LatestBackup.last # h.id /\ ledger.last # h.id
      /\ Safe /\ h.ledger # NoLedger => accepted \subseteq h.ledger.txns
      /\ Safe /\ ledger # NoLedger => accepted \subseteq ledger.txns
      /\ ~backupMissed => accepted \subseteq LatestBackup.txns
  BY <1>0, <1>1, Records, Zenon DEF HandOK, WorkOK, Own
<1>3. /\ LatestBackup' = LatestBackup /\ Safe' = Safe /\ (~backupMissed => Safe)
      /\ Firm' = Firm /\ Firm \subseteq accepted
  BY <1>0, Zenon DEF LatestBackup, Safe, Firm
<1>4. HistoryInv'
  <2>1. \A t \in Txn : status[t] = "new" => h.id # t /\ ledger.last # t /\ LatestBackup.last # t
    <3>1. <<ledger, journal>> \in survivors /\ <<ledger, journal>>[1] = ledger
      BY Zenon DEF DurabilityInv, HistoryInv
    <3> QED  BY <1>2, <3>1, Zenon DEF DurabilityInv, HistoryInv
  <2>2. \A s \in survivors' : s[1] = ledger /\ s[2] = h
    BY <1>0
  <2>3. <<ledger', journal'>> \in survivors' /\ \A s \in survivors' : Stamped(s[2])'
    BY <1>0, <1>2, <2>2, Zenon DEF Stamped
  <2>4. /\ \A t \in accepted' : status'[t] \in {"ok", "warned"}
        /\ \A t \in Txn : status'[t] = "open" => \E q \in Proc : hand'[q].id = t
    BY <1>0, Zenon DEF DurabilityInv, HistoryInv
  <2> QED  BY <1>0, <1>3, <2>1, <2>2, <2>3, <2>4, ZenonT(30) DEF HistoryInv
<1>5. FilesInv'
  BY <1>0, <1>2, <1>3, Zenon DEF FilesInv, Replayed
<1>6. FirmInv'
  <2>1. /\ Safe /\ h.ledger # NoLedger => Firm \subseteq h.ledger.txns
        /\ Safe /\ ledger # NoLedger => Firm \subseteq ledger.txns
        /\ ~backupMissed => Firm \subseteq LatestBackup.txns
    BY <1>2, <1>3, Zenon
  <2>2. \A s \in survivors' : s[1] = ledger /\ s[2] = h
    BY <1>0
  <2>3. \A s \in survivors' : /\ Safe /\ s[1] # NoLedger => Firm \subseteq s[1].txns
                              /\ Safe /\ s[2].ledger # NoLedger => Firm \subseteq s[2].ledger.txns
    BY <2>1, <2>2, Zenon
  <2> QED  BY <1>0, <1>3, <2>1, <2>3, Zenon DEF FirmInv
<1>7. pc'[p] = "ledger"
  BY <1>0, Zenon DEF Goto, TypeInv, TypeOK, ProcsTypeOK
<1>8. HandOK(p)' /\ WorkOK(p)'
  BY <1>0, <1>2, <1>3, <1>7, Zenon DEF HandOK, WorkOK, Holding, Own, Stamped
<1>9. HolderInv'
  BY <1>0, <1>8, StaysInside, Zenon DEF Critical, Holding
<1> QED
  BY <1>4, <1>5, <1>6, <1>9, Zenon DEF DurabilityInv

\* A failed _write_journal keeps it, whether the rename happened or not.
LEMMA WriteJournalFailsStep ==
    ASSUME TypeInv, DurabilityInv, NEW p \in Proc, WriteJournalFails(p)
    PROVE  DurabilityInv'
<1> DEFINE h == hand[p]
<1>0. /\ pc[p] = "journal" /\ survivors' = survivors \cup {<<ledger, journal'>>}
      /\ UNCHANGED <<ledger, backups, fellBack, backupMissed>>
  BY Zenon DEF WriteJournalFails, At, UnsyncedDirectory, incidents
<1>1. HandOK(p) /\ WorkOK(p) /\ h \in Journal
  BY <1>0, Inside, Zenon DEF Critical, Holding
<1>2. /\ h.id \in Txn /\ status[h.id] = "open" /\ Stamped(h) /\ lock = p
      /\ LatestBackup.last # h.id /\ ledger.last # h.id
      /\ Safe /\ h.ledger # NoLedger => accepted \subseteq h.ledger.txns
      /\ Safe /\ ledger # NoLedger => accepted \subseteq ledger.txns
      /\ ~backupMissed => accepted \subseteq LatestBackup.txns
  BY <1>0, <1>1, Records, Zenon DEF HandOK, WorkOK, Own
<1>3. LatestBackup' = LatestBackup /\ Safe' = Safe /\ (~backupMissed => Safe)
  BY <1>0, Zenon DEF LatestBackup, Safe
<1>4. CASE Return(p) /\ Report(p, "error") /\ UNCHANGED journal
  <2>1. /\ survivors' = survivors /\ accepted' = accepted
        /\ status' = [status EXCEPT ![h.id] = "error"]
    BY <1>0, <1>4, Zenon DEF DurabilityInv, HistoryInv, Report
  <2>2. h.id \notin accepted
    BY <1>2, Zenon DEF DurabilityInv, HistoryInv
  <2>3. Firm' = Firm
    BY <1>2, <2>1, <2>2, Zenon DEF Firm, TypeInv, TypeOK, HistoryTypeOK
  <2>4. \A t \in Txn : status'[t] # "open" /\ (status'[t] = "new" => status[t] = "new")
    BY <1>0, <1>2, <2>1, Inside, Zenon DEF Critical, Holding, TypeInv, TypeOK, HistoryTypeOK
  <2>5. HistoryInv'
    BY <1>0, <1>3, <1>4, <2>1, <2>2, <2>4, Zenon
       DEF DurabilityInv, HistoryInv, Stamped, TypeInv, TypeOK, HistoryTypeOK
  <2>6. FilesInv' /\ FirmInv'
    BY <1>0, <1>3, <1>4, <2>1, <2>3, Zenon DEF DurabilityInv, FilesInv, FirmInv, Replayed
  <2>7. HolderInv'
    BY <1>0, <1>4, Leaves, Zenon DEF Return, Critical, Holding
  <2> QED  BY <2>5, <2>6, <2>7, Zenon DEF DurabilityInv
<1>5. CASE /\ journal' = h /\ Goto(p, "reread") /\ UNCHANGED <<lock, op, hand, got, status, accepted>>
  <2>1. Firm' = Firm /\ Firm \subseteq accepted
    BY <1>5, Zenon DEF Firm
  <2>2. HistoryInv'
    <3>1. /\ \A t \in accepted' : status'[t] \in {"ok", "warned"}
          /\ \A t \in Txn : status'[t] = "open" => \E q \in Proc : hand'[q].id = t
      BY <1>5, Zenon DEF DurabilityInv, HistoryInv
    <3>2. Stamped(journal')
      BY <1>2, <1>5, Zenon
    <3>3. \A t \in Txn : status'[t] = "new" =>
            status[t] = "new" /\ LatestBackup'.last # t /\ ledger'.last # t /\ journal'.id # t
      BY <1>0, <1>2, <1>3, <1>5, PresentFiles, Zenon
    <3> QED  BY <1>0, <3>1, <3>2, <3>3, HistoryMoves, Zenon
  <2>3. FilesInv'
    BY <1>0, <1>2, <1>3, <1>5, Zenon DEF FilesInv, Replayed
  <2>4. FirmInv'
    BY <1>0, <1>2, <1>3, <1>5, <2>1, FirmMoves, Zenon
  <2>5. pc'[p] = "reread"
    BY <1>5, Zenon DEF Goto, TypeInv, TypeOK, ProcsTypeOK
  <2>6. HandOK(p)' /\ WorkOK(p)'
    BY <1>0, <1>2, <1>3, <1>5, <2>5, Zenon DEF HandOK, WorkOK, Holding, Own, Stamped
  <2>7. HolderInv'
    <3>1. pc[p] \in Critical /\ Goto(p, "reread")
      BY <1>0, <1>5, Zenon DEF Critical, Holding
    <3> QED  BY <2>6, <3>1, StaysInside, Zenon
  <2> QED  BY <2>2, <2>3, <2>4, <2>7, Zenon DEF DurabilityInv
<1> QED
  BY <1>4, <1>5, Zenon DEF WriteJournalFails

\* Replacing ledger.json by the journal's document keeps it, also when the read
\* before it fell back to a backup.
LEMMA ApplyLedgerStep ==
    ASSUME TypeInv, DurabilityInv, NEW p \in Proc, ApplyLedger(p)
    PROVE  DurabilityInv'
<1> DEFINE h == hand[p]
<1>0. /\ pc[p] = "ledger" /\ Goto(p, "log")
      /\ UNCHANGED <<journal, backups, lock, hand, status, accepted, backupMissed>>
  BY Zenon DEF ApplyLedger, At, history
<1>1. HandOK(p) /\ WorkOK(p) /\ h \in Journal
  BY <1>0, Inside, Zenon DEF Critical, Holding
<1>2. /\ h = journal /\ Stamped(h) /\ lock = p
      /\ Own(p) => LatestBackup.last # h.id /\ ledger.last # h.id
  BY <1>0, <1>1, Zenon DEF HandOK, Holding
<1>3. pc'[p] = "log"
  BY <1>0, Zenon DEF Goto, TypeInv, TypeOK, ProcsTypeOK
<1>4. LatestBackup' = LatestBackup /\ Firm' = Firm /\ Firm \subseteq accepted /\ (Own(p)' <=> Own(p))
  BY <1>0, Zenon DEF LatestBackup, Firm, Own
<1>5. CASE h.ledger = NoLedger
  <2>1. UNCHANGED <<ledger, survivors, fellBack>>
    BY <1>5, Zenon DEF ApplyLedger
  <2>2. HistoryInv' /\ FilesInv' /\ FirmInv'
    BY <1>0, <1>4, <2>1, Reads, Zenon DEF DurabilityInv, HistoryInv, Stamped
  <2>3. HandOK(p)' /\ WorkOK(p)'
    BY <1>0, <1>2, <1>3, <1>4, <1>5, <2>1, Zenon DEF HandOK, WorkOK, Stamped
  <2> QED  BY <1>0, <2>2, <2>3, StaysInside, Zenon DEF DurabilityInv, Critical, Holding
<1>6. CASE h.ledger # NoLedger
  <2>1. PICK v \in {ledger, LatestBackup} :
          /\ LoadUnlocked(v)
          /\ \/ v.last = h.id /\ UNCHANGED <<ledger, survivors>>
             \/ v.last # h.id /\ ledger' = h.ledger /\ survivors' = {<<h.ledger, journal>>}
    BY <1>0, <1>6, Zenon DEF ApplyLedger, SyncDirectory
  <2>2. /\ fellBack' = fellBack \/ fellBack' = TRUE
        /\ v # ledger => fellBack' = TRUE
        /\ v = ledger \/ v = LatestBackup
    BY <2>1, Zenon DEF LoadUnlocked
  <2>3. Safe' => Safe
    BY <1>0, <2>2, Zenon DEF Safe
  <2>4. /\ Safe => accepted \subseteq h.ledger.txns
        /\ h.ledger.last = h.id /\ h.id \in h.ledger.txns /\ h.id \in Txn /\ h.ledger # NoLedger
    BY <1>1, <1>2, <1>6, Records, Zenon DEF DurabilityInv, FilesInv, Stamped
  <2>5. CASE v.last = h.id /\ UNCHANGED <<ledger, survivors>>
    <3>1. HistoryInv' /\ FilesInv' /\ FirmInv'
      BY <1>0, <1>4, <2>2, <2>5, Reads, Zenon DEF DurabilityInv, HistoryInv, Stamped
    <3>2. ~Own(p)
      BY <1>2, <2>2, <2>5, Zenon
    <3>3. Safe /\ ledger # NoLedger => accepted \subseteq ledger.txns
      BY <1>2, <2>2, <2>4, <2>5, Zenon DEF DurabilityInv, FilesInv, Replayed
    <3>4. HandOK(p)' /\ WorkOK(p)'
      BY <1>0, <1>2, <1>3, <1>4, <2>3, <2>5, <3>2, <3>3, Zenon DEF HandOK, WorkOK, Stamped
    <3> QED  BY <1>0, <3>1, <3>4, StaysInside, Zenon DEF DurabilityInv, Critical, Holding
  <2>6. CASE v.last # h.id /\ ledger' = h.ledger /\ survivors' = {<<h.ledger, journal>>}
    <3>1. status[h.id] # "new"
      BY <1>2, <2>4, Zenon DEF DurabilityInv, HistoryInv
    <3>2. HistoryInv'
      <4>1. \A t \in Txn : status[t] = "new" => h.ledger.last # t /\ journal.id # t /\ LatestBackup.last # t
        BY <1>2, <2>4, <3>1, Zenon DEF DurabilityInv, HistoryInv
      <4>2. \A s \in survivors' : s[1] = h.ledger /\ s[2] = journal
        BY <2>6
      <4>3. <<ledger', journal'>> \in survivors' /\ \A s \in survivors' : Stamped(s[2])'
        BY <1>0, <1>2, <2>6, <4>2, Zenon DEF Stamped
      <4>4. /\ \A t \in accepted' : status'[t] \in {"ok", "warned"}
            /\ \A t \in Txn : status'[t] = "open" => \E q \in Proc : hand'[q].id = t
        BY <1>0, Zenon DEF DurabilityInv, HistoryInv
      <4> QED  BY <1>0, <1>4, <4>1, <4>2, <4>3, <4>4, ZenonT(30) DEF HistoryInv
    <3>3. FilesInv'
      BY <1>0, <1>2, <1>4, <2>3, <2>4, <2>6, Zenon DEF DurabilityInv, FilesInv, Replayed
    <3>4. FirmInv'
      <4>1. survivors' \subseteq survivors \cup {<<ledger', journal'>>}
        BY <1>0, <2>6, Zenon
      <4>2. Safe' => Firm \subseteq ledger'.txns /\ Firm \subseteq journal'.ledger.txns
        BY <1>0, <1>2, <1>4, <2>3, <2>4, <2>6, Zenon
      <4>3. Firm' \subseteq Firm /\ (~backupMissed' => Firm \subseteq LatestBackup'.txns)
        BY <1>0, <1>4, PresentFiles, Zenon
      <4> QED  BY <2>3, <4>1, <4>2, <4>3, FirmMoves, Zenon
    <3>5. HandOK(p)'
      <4>1. lock' = p /\ hand'[p] = journal' /\ Stamped(hand[p])'
        BY <1>0, <1>2, Zenon DEF Stamped
      <4>2. Own(p)' => LatestBackup'.last # hand'[p].id
        BY <1>0, <1>2, <1>4, Zenon
      <4> QED  BY <1>3, <4>1, <4>2, Zenon DEF HandOK
    <3>6. /\ Safe' => accepted' \subseteq ledger'.txns
          /\ \A s \in survivors' : h.id \in s[1].txns /\ (s[2].ledger # NoLedger => h.id \in s[2].ledger.txns)
      <4>1. Safe' => accepted' \subseteq ledger'.txns
        BY <1>0, <2>3, <2>4, <2>6, Zenon
      <4>2. \A s \in survivors' : s[1] = h.ledger /\ s[2] = h
        BY <1>2, <2>6
      <4> QED  BY <2>4, <4>1, <4>2, Zenon
    <3>7. WorkOK(p)'
      BY <1>0, <1>3, <3>6, Zenon DEF WorkOK
    <3>8. pc[p] \in Critical
      BY <1>0, Zenon DEF Critical, Holding
    <3>9. HolderInv'
      BY <1>0, <3>5, <3>7, <3>8, StaysInside, Zenon
    <3> QED  BY <3>2, <3>3, <3>4, <3>9, Zenon DEF DurabilityInv
  <2> QED  BY <2>1, <2>5, <2>6, Zenon
<1> QED
  BY <1>5, <1>6, Zenon

\* An own transaction accepted for deferred recovery, or a recovery that failed:
\* the outcome while the files are as in the step before.
LEMMA ApplyFailedHistory ==
    ASSUME TypeInv, DurabilityInv, NEW p \in Proc, pc[p] \in Holding, ApplyFailed(p)
    PROVE  /\ accepted' \subseteq accepted \cup (IF Own(p) THEN {hand[p].id} ELSE {})
           /\ hand[p].id \in accepted' \ accepted => hand[p].ledger # NoLedger
           /\ Firm' \subseteq Firm
           /\ \A t \in accepted' : status'[t] \in {"ok", "warned"}
           /\ \A t \in Txn : status'[t] # "open" /\ (status'[t] = "new" => status[t] = "new")
<1>1. CASE Own(p)
  <2>1. Report(p, "warned")
    BY <1>1, Zenon DEF ApplyFailed
  <2> QED  BY <1>1, <2>1, Reports, Zenon
<1>2. CASE ~Own(p)
  <2>1. UNCHANGED <<status, accepted>>
    BY <1>2, Zenon DEF ApplyFailed
  <2>2. \A t \in Txn : status[t] # "open"
    BY <1>2, Inside, Records, Zenon DEF Own, Critical
  <2> QED  BY <2>1, <2>2, Zenon DEF Firm, DurabilityInv, HistoryInv
<1> QED  BY <1>1, <1>2, Zenon

\* A failure while ledger.json is replaced keeps it: the journal stays in place.
LEMMA ApplyLedgerFailsStep ==
    ASSUME TypeInv, DurabilityInv, NEW p \in Proc, ApplyLedgerFails(p)
    PROVE  DurabilityInv'
<1> DEFINE h == hand[p]
<1>0. /\ pc[p] = "ledger" /\ h.ledger # NoLedger /\ (ledger' = ledger \/ ledger' = h.ledger)
      /\ survivors' = survivors \cup {<<ledger', journal>>} /\ ApplyFailed(p)
      /\ UNCHANGED <<journal, backups, fellBack, backupMissed>>
  BY Zenon DEF ApplyLedgerFails, At, UnsyncedDirectory, incidents
<1>1. HandOK(p) /\ h \in Journal
  BY <1>0, Inside, Zenon DEF Critical, Holding
<1>2. /\ h = journal /\ Stamped(h)
      /\ Own(p) => LatestBackup.last # h.id /\ ledger.last # h.id
  BY <1>0, <1>1, Zenon DEF HandOK, Holding
<1>3. LatestBackup' = LatestBackup /\ Safe' = Safe /\ (~backupMissed => Safe)
  BY <1>0, Zenon DEF LatestBackup, Safe
<1>4. /\ accepted' \subseteq accepted \cup (IF Own(p) THEN {h.id} ELSE {}) /\ Firm' \subseteq Firm
      /\ \A t \in accepted' : status'[t] \in {"ok", "warned"}
      /\ \A t \in Txn : status'[t] # "open" /\ (status'[t] = "new" => status[t] = "new")
  BY <1>0, ApplyFailedHistory, Zenon DEF Holding
<1>5. /\ Safe => accepted \subseteq h.ledger.txns
      /\ h.ledger.last = h.id /\ h.id \in h.ledger.txns /\ h.id \in Txn
      /\ status[h.id] # "new" /\ Firm \subseteq accepted
  BY <1>0, <1>1, <1>2, Records, Zenon DEF DurabilityInv, FilesInv, HistoryInv, Stamped, Firm
<1>6. HistoryInv'
  <2>1. \A t \in Txn : status'[t] = "new" =>
          status[t] = "new" /\ LatestBackup'.last # t /\ ledger'.last # t /\ journal'.id # t
    BY <1>0, <1>2, <1>3, <1>4, <1>5, PresentFiles, Zenon
  <2>2. Stamped(journal') /\ <<ledger', journal'>> \in survivors'
    BY <1>0, <1>2, Zenon
  <2> QED  BY <1>0, <1>4, <2>1, <2>2, HistoryMoves, Zenon
<1>7. FilesInv'
  BY <1>0, <1>2, <1>3, <1>4, <1>5, Zenon DEF DurabilityInv, FilesInv, Replayed
<1>8. FirmInv'
  BY <1>0, <1>2, <1>3, <1>4, <1>5, PresentFiles, FirmMoves, Zenon
<1>9. HolderInv'
  BY <1>0, Leaves, Zenon DEF ApplyFailed, Return, Critical, Holding
<1> QED
  BY <1>6, <1>7, <1>8, <1>9, Zenon DEF DurabilityInv

\* A failed audit append keeps it: the journal stays in place.
LEMMA AppendLogsFailsStep ==
    ASSUME TypeInv, DurabilityInv, NEW p \in Proc, AppendLogsFails(p)
    PROVE  DurabilityInv'
<1> DEFINE h == hand[p]
<1>0. /\ pc[p] = "log" /\ ApplyFailed(p)
      /\ UNCHANGED <<ledger, journal, survivors, backups, fellBack, backupMissed>>
  BY Zenon DEF AppendLogsFails, At, disk, incidents
<1>1. HandOK(p) /\ WorkOK(p) /\ h \in Journal
  BY <1>0, Inside, Zenon DEF Critical, Holding
<1>2. /\ h = journal /\ Stamped(h)
      /\ Own(p) => LatestBackup.last # h.id
      /\ Own(p) /\ h.ledger # NoLedger /\ ledger # NoLedger => h.id \in ledger.txns
  BY <1>0, <1>1, Zenon DEF HandOK, WorkOK, Holding, DurabilityInv, HistoryInv
<1>3. LatestBackup' = LatestBackup /\ Safe' = Safe /\ (~backupMissed => Safe)
  BY <1>0, Zenon DEF LatestBackup, Safe
<1>4. /\ accepted' \subseteq accepted \cup (IF Own(p) THEN {h.id} ELSE {}) /\ Firm' \subseteq Firm
      /\ h.id \in accepted' \ accepted => h.ledger # NoLedger
      /\ \A t \in accepted' : status'[t] \in {"ok", "warned"}
      /\ \A t \in Txn : status'[t] # "open" /\ (status'[t] = "new" => status[t] = "new")
  BY <1>0, ApplyFailedHistory, Zenon DEF Holding
<1>5. HistoryInv'
  BY <1>0, <1>3, <1>4, Zenon DEF DurabilityInv, HistoryInv, Stamped
<1>6. FilesInv'
  BY <1>0, <1>2, <1>3, <1>4, Zenon DEF DurabilityInv, FilesInv, Replayed, Stamped
<1>7. FirmInv'
  BY <1>0, <1>3, <1>4, Zenon DEF DurabilityInv, FirmInv
<1>8. HolderInv'
  BY <1>0, Leaves, Zenon DEF ApplyFailed, Return, Critical, Holding
<1> QED
  BY <1>5, <1>6, <1>7, <1>8, Zenon DEF DurabilityInv

\* Accepting a transaction because its journal was read back keeps it.
LEMMA RereadStep ==
    ASSUME TypeInv, DurabilityInv, NEW p \in Proc, Reread(p)
    PROVE  DurabilityInv'
<1> DEFINE h == hand[p]
<1>0. /\ pc[p] = "reread" /\ Return(p) /\ (\E o \in {"warned", "error"} : Report(p, o))
      /\ UNCHANGED <<ledger, journal, survivors, backups, fellBack, backupMissed>>
  BY Zenon DEF Reread, At, files, disk, incidents
<1>1. HandOK(p) /\ h \in Journal
  BY <1>0, Inside, Zenon DEF Critical, Holding
<1>2. Own(p) /\ h = journal /\ Stamped(h) /\ LatestBackup.last # h.id /\ ledger.last # h.id
  BY <1>0, <1>1, Records, Zenon DEF HandOK, Own, Holding
<1>3. LatestBackup' = LatestBackup /\ Safe' = Safe /\ (~backupMissed => Safe)
  BY <1>0, Zenon DEF LatestBackup, Safe
<1>4. /\ accepted' \subseteq accepted \cup {h.id} /\ Firm' \subseteq Firm
      /\ h.id \in accepted' => h.ledger # NoLedger
      /\ \A t \in accepted' : status'[t] \in {"ok", "warned"}
      /\ \A t \in Txn : status'[t] # "open" /\ (status'[t] = "new" => status[t] = "new")
  BY <1>0, <1>2, Reports, Zenon DEF Holding
<1>5. HistoryInv'
  BY <1>0, <1>3, <1>4, Zenon DEF DurabilityInv, HistoryInv, Stamped
<1>6. FilesInv'
  BY <1>0, <1>2, <1>3, <1>4, Zenon DEF DurabilityInv, FilesInv, Replayed, Stamped
<1>7. FirmInv'
  BY <1>0, <1>3, <1>4, Zenon DEF DurabilityInv, FirmInv
<1>8. HolderInv'
  BY <1>0, Leaves, Zenon DEF Return, Critical, Holding
<1> QED
  BY <1>5, <1>6, <1>7, <1>8, Zenon DEF DurabilityInv

\* The audit append keeps it; its directory fsync narrows what a power loss leaves.
LEMMA AppendLogsStep ==
    ASSUME TypeInv, DurabilityInv, NEW p \in Proc, AppendLogs(p)
    PROVE  DurabilityInv'
<1> DEFINE h == hand[p]
<1>0. /\ pc[p] = "log" /\ Goto(p, AfterLogs(p)) /\ (survivors' = survivors \/ survivors' = {<<ledger, journal>>})
      /\ UNCHANGED <<ledger, journal, backups, lock, hand, status, accepted, fellBack, backupMissed>>
  BY Zenon DEF AppendLogs, At, SyncDirectory, disk, history, incidents
<1>1. HandOK(p) /\ WorkOK(p) /\ h \in Journal
  BY <1>0, Inside, Zenon DEF Critical, Holding
<1>2. survivors' \subseteq survivors /\ <<ledger, journal>> \in survivors'
  BY <1>0, Zenon DEF DurabilityInv, HistoryInv
<1>3. /\ LatestBackup' = LatestBackup /\ Safe' = Safe /\ Firm' = Firm /\ (Own(p)' <=> Own(p))
  BY <1>0, Zenon DEF LatestBackup, Safe, Firm, Own
<1>4. pc'[p] = IF h.ledger = NoLedger THEN "clear" ELSE "backup"
  BY <1>0, Zenon DEF Goto, AfterLogs, TypeInv, TypeOK, ProcsTypeOK
<1>5. HistoryInv'
  BY <1>0, <1>2, <1>3, Zenon DEF DurabilityInv, HistoryInv, Stamped
<1>6. FilesInv'
  BY <1>0, <1>3, Zenon DEF DurabilityInv, FilesInv, Replayed
<1>7. FirmInv'
  BY <1>0, <1>2, <1>3, Zenon DEF DurabilityInv, FirmInv
<1>8. HandOK(p)' /\ WorkOK(p)'
  BY <1>0, <1>1, <1>2, <1>3, <1>4, Zenon DEF HandOK, WorkOK, Holding, Stamped
<1>9. HolderInv'
  BY <1>0, <1>8, StaysInside, Zenon DEF Critical, Holding
<1> QED
  BY <1>5, <1>6, <1>7, <1>9, Zenon DEF DurabilityInv

\* A backup that is written becomes the newest one, however few are kept.
LEMMA NewestBackup ==
    ASSUME TypeInv, NEW d \in Ledger, NEW n \in {BackupKeep, Len(backups) + 1},
           backups' = SubSeq(<<d>> \o backups, 1,
                        IF Len(<<d>> \o backups) < n THEN Len(<<d>> \o backups) ELSE n)
    PROVE  LatestBackup' = d
<1> DEFINE kept == <<d>> \o backups
           m == IF Len(kept) < n THEN Len(kept) ELSE n
<1>1. backups \in Seq(Ledger)
  BY Zenon DEF TypeInv, TypeOK, FilesTypeOK
<1>2. kept \in Seq(Ledger) /\ kept[1] = d /\ Len(kept) = Len(backups) + 1 /\ Len(backups) \in Nat
  BY <1>1
<1>3. m \in 1 .. Len(kept)
  BY <1>2, StoreAssumption
<1>4. backups' = SubSeq(kept, 1, m)
  BY Zenon
<1> HIDE DEF kept, m
<1>5. Len(SubSeq(kept, 1, m)) = m /\ SubSeq(kept, 1, m)[1] = kept[1]
  BY <1>2, <1>3
<1>6. SubSeq(kept, 1, m) # <<>>
  <2>1. Len(SubSeq(kept, 1, m)) # 0
    BY <1>2, <1>3, <1>5
  <2>2. Len(<<>>) = 0
    BY Zenon
  <2> QED  BY <2>1, <2>2, Zenon
<1>7. LatestBackup' = backups'[1]
  BY <1>4, <1>6, Zenon DEF LatestBackup
<1> QED
  BY <1>2, <1>4, <1>5, <1>7, Zenon

\* What _write_backup leaves: the document just applied as the newest backup, or a
\* warning and the backups as they were.
LEMMA BackupOutcome ==
    ASSUME TypeInv, NEW p \in Proc, Backup(p), hand[p].ledger \in Ledger
    PROVE  \/ LatestBackup' = hand[p].ledger /\ backupMissed' = backupMissed
           \/ LatestBackup' = LatestBackup /\ backupMissed' = TRUE
<1> DEFINE h == hand[p]
<1>1. CASE /\ backups' = SubSeq(<<h.ledger>> \o backups, 1,
                 IF Len(<<h.ledger>> \o backups) < BackupKeep
                 THEN Len(<<h.ledger>> \o backups) ELSE BackupKeep)
           /\ UNCHANGED backupMissed
  BY <1>1, NewestBackup, Zenon
<1>2. CASE UNCHANGED backups /\ backupMissed' = TRUE
  BY <1>2, Zenon DEF LatestBackup
<1>3. CASE backups' = <<h.ledger>> \o backups /\ UNCHANGED backupMissed
  BY <1>3 DEF LatestBackup, TypeInv, TypeOK, FilesTypeOK
<1> QED  BY <1>1, <1>2, <1>3, Zenon DEF Backup

\* Writing and pruning backups keeps it: the newest one is the document just applied.
LEMMA BackupStep ==
    ASSUME TypeInv, DurabilityInv, NEW p \in Proc, Backup(p)
    PROVE  DurabilityInv'
<1> DEFINE h == hand[p]
<1>0. /\ pc[p] = "backup" /\ Goto(p, "clear")
      /\ UNCHANGED <<ledger, journal, survivors, lock, hand, status, accepted, fellBack>>
  BY Zenon DEF Backup, At, disk, history
<1>1. HandOK(p) /\ WorkOK(p) /\ h \in Journal
  BY <1>0, Inside, Zenon DEF Critical, Holding
<1>2. h.ledger \in Ledger /\ h = journal /\ lock = p
  BY <1>0, <1>1, Records, Zenon DEF HandOK, Holding, TypeInv, HandInv
<1>3. \/ LatestBackup' = h.ledger /\ backupMissed' = backupMissed
      \/ LatestBackup' = LatestBackup /\ backupMissed' = TRUE
  BY <1>2, BackupOutcome, Zenon
<1>4. /\ Safe' => Safe
      /\ ~backupMissed' => ~backupMissed /\ Safe /\ LatestBackup' = h.ledger
      /\ Firm' = Firm /\ Firm \subseteq accepted /\ (Own(p)' <=> Own(p))
  <2>1. Firm' = Firm /\ Firm \subseteq accepted
    BY <1>0, Zenon DEF Firm
  <2>2. Own(p)' <=> Own(p)
    BY <1>0, Zenon DEF Own
  <2>3. /\ Safe' => Safe
        /\ ~backupMissed' => ~backupMissed /\ Safe /\ LatestBackup' = h.ledger
    BY <1>0, <1>3 DEF Safe
  <2> QED  BY <2>1, <2>2, <2>3, Zenon
<1>5. /\ Stamped(h) /\ h.ledger # NoLedger /\ h.id \in Txn /\ status[h.id] # "new"
      /\ Safe => accepted \subseteq h.ledger.txns
      /\ Safe /\ ledger # NoLedger => accepted \subseteq ledger.txns
      /\ Own(p) => \A s \in survivors :
           /\ s[1] # NoLedger => h.id \in s[1].txns
           /\ s[2].ledger # NoLedger => h.id \in s[2].ledger.txns
  <2>1. h.id \in Txn /\ h.ledger # NoLedger /\ Stamped(h)
    BY <1>1, <1>2, Records, Zenon DEF HandOK
  <2>2. status[h.id] # "new"
    BY <1>2, <2>1, PresentFiles, Zenon
  <2>3. Safe => accepted \subseteq h.ledger.txns
    BY <1>2, <2>1, Zenon DEF DurabilityInv, FilesInv
  <2>4. /\ Safe /\ ledger # NoLedger => accepted \subseteq ledger.txns
        /\ Own(p) => \A s \in survivors :
             /\ s[1] # NoLedger => h.id \in s[1].txns
             /\ s[2].ledger # NoLedger => h.id \in s[2].ledger.txns
    BY <1>0, <1>1, <2>1, Zenon DEF WorkOK
  <2> QED  BY <2>1, <2>2, <2>3, <2>4, Zenon
<1>6. HistoryInv'
  <2>1. LatestBackup' = h.ledger \/ LatestBackup' = LatestBackup
    BY <1>3, Zenon
  <2>2. \A t \in Txn : status'[t] = "new" =>
          status[t] = "new" /\ LatestBackup'.last # t /\ ledger'.last # t /\ journal'.id # t
    BY <1>0, <1>5, <2>1, PresentFiles, Zenon DEF Stamped
  <2>3. /\ \A t \in accepted' : status'[t] \in {"ok", "warned"}
        /\ \A t \in Txn : status'[t] = "open" => \E q \in Proc : hand'[q].id = t
    BY <1>0, Zenon DEF DurabilityInv, HistoryInv
  <2> QED  BY <1>0, <2>2, <2>3, PresentFiles, HistoryMoves, Zenon
<1>7. FilesInv'
  BY <1>0, <1>2, <1>3, <1>4, <1>5, Zenon DEF DurabilityInv, FilesInv, Replayed, Stamped
<1>8. FirmInv'
  BY <1>0, <1>4, <1>5, PresentFiles, FirmMoves, Zenon
<1>9. pc'[p] = "clear"
  BY <1>0, Zenon DEF Goto, TypeInv, TypeOK, ProcsTypeOK
<1>10. HandOK(p)' /\ WorkOK(p)'
  BY <1>0, <1>2, <1>4, <1>5, <1>9, Zenon DEF HandOK, WorkOK, Stamped
<1>11. HolderInv'
  BY <1>0, <1>10, StaysInside, Zenon DEF Critical, Holding
<1> QED
  BY <1>6, <1>7, <1>8, <1>11, Zenon DEF DurabilityInv

\* Unlinking the journal keeps the invariant: its document is in ledger.json by then.
\* This is the step that reports a transaction as cleanly committed.
LEMMA ClearJournalStep ==
    ASSUME TypeInv, DurabilityInv, NEW p \in Proc, ClearJournal(p)
    PROVE  DurabilityInv'
<1> DEFINE h == hand[p]
<1>0. /\ pc[p] = "clear" /\ (journal' = NoJournal \/ journal' = journal)
      /\ survivors' \subseteq survivors \cup {<<ledger, journal'>>} /\ <<ledger, journal'>> \in survivors'
      /\ UNCHANGED <<ledger, backups, fellBack, backupMissed>>
  BY Zenon DEF ClearJournal, At, SyncDirectory, UnsyncedDirectory, incidents
<1>1. HandOK(p) /\ WorkOK(p) /\ h \in Journal
  BY <1>0, Inside, Zenon DEF Critical, Holding
<1>2. h = journal /\ Stamped(h) /\ lock = p
  BY <1>0, <1>1, Zenon DEF HandOK, Holding
<1>3. LatestBackup' = LatestBackup /\ Safe' = Safe /\ (~backupMissed => Safe)
  BY <1>0, Zenon DEF LatestBackup, Safe
<1>4. /\ Safe /\ ledger # NoLedger => accepted \subseteq ledger.txns
      /\ ~backupMissed => accepted \subseteq LatestBackup.txns
  BY <1>0, <1>1, <1>2, <1>3, Zenon DEF WorkOK, DurabilityInv, FilesInv, Replayed
<1>5. /\ Safe /\ journal.ledger # NoLedger => accepted \subseteq journal.ledger.txns
      /\ Firm \subseteq accepted
      /\ \A s \in survivors :
           /\ Safe /\ s[1] # NoLedger => Firm \subseteq s[1].txns
           /\ Safe /\ s[2].ledger # NoLedger => Firm \subseteq s[2].ledger.txns
  BY Zenon DEF DurabilityInv, FilesInv, FirmInv, Firm
<1>6. CASE Own(p)
  <2>1. Return(p) /\ Report(p, "ok")
    BY <1>6, Zenon DEF ClearJournal
  <2>2. /\ accepted' \subseteq accepted \cup {h.id} /\ Firm' \subseteq Firm \cup {h.id}
        /\ Firm' \subseteq accepted'
        /\ h.id \in accepted' => h.ledger # NoLedger
        /\ \A t \in accepted' : status'[t] \in {"ok", "warned"}
        /\ \A t \in Txn : status'[t] # "open" /\ (status'[t] = "new" => status[t] = "new")
    BY <1>0, <1>6, <2>1, Reports, Zenon DEF Holding
  <2>3. h.ledger # NoLedger =>
          /\ h.id \in h.ledger.txns
          /\ ~backupMissed => h.id \in LatestBackup.txns
          /\ \A s \in survivors :
               /\ s[1] # NoLedger => h.id \in s[1].txns
               /\ s[2].ledger # NoLedger => h.id \in s[2].ledger.txns
    BY <1>0, <1>1, <1>2, <1>6, Zenon DEF WorkOK, Stamped
  <2>4. h.ledger # NoLedger /\ ledger # NoLedger => h.id \in ledger.txns
    <3>1. <<ledger, journal>> \in survivors
      BY Zenon DEF DurabilityInv, HistoryInv
    <3>2. \A s \in survivors : h.ledger # NoLedger /\ s[1] # NoLedger => h.id \in s[1].txns
      BY <2>3, Zenon
    <3> QED  BY <3>1, <3>2, Zenon
  <2>5. HistoryInv'
    BY <1>0, <1>3, <2>2, Records, StoreAssumption, SMTT(30) DEF DurabilityInv, HistoryInv, Stamped
  <2>6. FilesInv'
    BY <1>0, <1>2, <1>3, <1>4, <1>5, <2>2, <2>3, <2>4, Records, Zenon DEF FilesInv, Replayed
  <2>7. FirmInv'
    <3>1. ASSUME NEW s \in survivors'
          PROVE  /\ Safe /\ s[1] # NoLedger => Firm' \subseteq s[1].txns
                 /\ Safe /\ s[2].ledger # NoLedger => Firm' \subseteq s[2].ledger.txns
      <4>1. CASE s \in survivors
        BY <4>1, <1>5, <2>2, <2>3, Zenon
      <4>2. CASE s = <<ledger, journal'>>
        BY <4>2, <1>0, <1>2, <1>4, <1>5, <2>2, <2>3, <2>4, Records, Zenon
      <4> QED  BY <1>0, <4>1, <4>2, Zenon
    <3>2. ~backupMissed => Firm' \subseteq LatestBackup.txns
      BY <1>4, <1>5, <2>2, <2>3, Zenon
    <3> QED  BY <1>0, <1>3, <3>1, <3>2, Zenon DEF FirmInv
  <2>8. HolderInv'
    BY <1>0, <2>1, Leaves, Zenon DEF Return, Critical, Holding
  <2> QED  BY <2>5, <2>6, <2>7, <2>8, Zenon DEF DurabilityInv
<1>7. CASE ~Own(p)
  <2>1. /\ Goto(p, "recovered") /\ hand' = [hand EXCEPT ![p] = NoJournal]
        /\ UNCHANGED <<lock, status, accepted>>
    BY <1>7, Zenon DEF ClearJournal
  <2>2. \A t \in Txn : status'[t] # "open"
    BY <1>0, <1>1, <1>7, <2>1, Inside, Records, Zenon DEF Own, Critical, Holding
  <2>3. Firm' = Firm /\ pc'[p] = "recovered" /\ hand'[p] = NoJournal
    BY <2>1, Zenon DEF Firm, Goto, TypeInv, TypeOK, ProcsTypeOK
  <2>4. HistoryInv'
    BY <1>0, <1>3, <2>1, <2>2, Records, StoreAssumption, SMTT(30) DEF DurabilityInv, HistoryInv, Stamped
  <2>5. FilesInv'
    BY <1>0, <1>2, <1>3, <1>4, <1>5, <2>1, Records, Zenon DEF FilesInv, Replayed
  <2>6. FirmInv'
    <3>1. ASSUME NEW s \in survivors'
          PROVE  /\ Safe /\ s[1] # NoLedger => Firm \subseteq s[1].txns
                 /\ Safe /\ s[2].ledger # NoLedger => Firm \subseteq s[2].ledger.txns
      <4>1. CASE s \in survivors
        BY <4>1, <1>5, Zenon
      <4>2. CASE s = <<ledger, journal'>>
        BY <4>2, <1>0, <1>4, <1>5, Records, Zenon
      <4> QED  BY <1>0, <4>1, <4>2, Zenon
    <3>2. ~backupMissed => Firm \subseteq LatestBackup.txns
      BY <1>4, <1>5, Zenon
    <3> QED  BY <1>0, <1>3, <2>3, <3>1, <3>2, Zenon DEF FirmInv
  <2>7. HandOK(p)' /\ WorkOK(p)'
    BY <1>0, <1>2, <1>3, <1>4, <2>1, <2>3, Records, Zenon DEF HandOK, WorkOK, Own, Stamped, Holding
  <2>8. HolderInv'
    BY <1>0, <2>1, <2>7, StaysInside, Zenon DEF Critical, Holding
  <2> QED  BY <2>4, <2>5, <2>6, <2>8, Zenon DEF DurabilityInv
<1> QED
  BY <1>6, <1>7, Zenon

\* Preparing a transaction keeps it: the new document extends the one that was read.
LEMMA MutateStep ==
    ASSUME TypeInv, DurabilityInv, NEW p \in Proc, Mutate(p)
    PROVE  DurabilityInv'
<1>0. /\ pc[p] = "recovered"
      /\ UNCHANGED <<ledger, journal, survivors, backups, accepted, backupMissed>>
  BY Zenon DEF Mutate, At, files, disk
<1>1. PICK v \in {ledger, LatestBackup} :
        /\ LoadUnlocked(v)
        /\ \/ Return(p) /\ UNCHANGED <<status, batch>>
           \/ \E t \in Txn, changed \in BOOLEAN, n \in 0 .. MaxLogs : Prepare(p, v, t, changed, n)
  BY Zenon DEF Mutate
<1>2. HandOK(p) /\ WorkOK(p) /\ hand[p] = NoJournal
  BY <1>0, Inside, Zenon DEF Critical, Holding
<1>3. /\ fellBack' = fellBack \/ fellBack' = TRUE
      /\ v = ledger \/ (v = LatestBackup /\ fellBack' = TRUE)
  BY <1>1, Zenon DEF LoadUnlocked
<1>4. /\ LatestBackup' = LatestBackup /\ (Safe' => Safe) /\ (~backupMissed => Safe)
      /\ fellBack' = TRUE /\ Safe' => ~backupMissed
  BY <1>0, <1>3 DEF LatestBackup, Safe
<1>5. CASE Return(p) /\ UNCHANGED <<status, batch>>
  <2>1. FilesInv' /\ FirmInv'
    BY <1>0, <1>3, <1>5, Reads, Zenon
  <2>2. \A t \in Txn : status[t] # "open"
    BY <1>0, <1>2, Inside, Records, StoreAssumption, Zenon DEF Critical
  <2>3. HistoryInv'
    BY <1>0, <1>4, <1>5, <2>2, Zenon DEF DurabilityInv, HistoryInv, Stamped
  <2>4. HolderInv'
    BY <1>0, <1>5, Leaves, Zenon DEF Return, Critical, Holding
  <2> QED  BY <2>1, <2>3, <2>4, Zenon DEF DurabilityInv
<1>6. ASSUME NEW t \in Txn, NEW changed \in BOOLEAN, NEW n \in 0 .. MaxLogs,
             Prepare(p, v, t, changed, n)
      PROVE  DurabilityInv'
  <2> DEFINE doc == [last |-> t, txns |-> v.txns \cup {t}]
  <2>1. /\ v # NoLedger /\ status[t] = "new" /\ Goto(p, "journal") /\ UNCHANGED lock
        /\ status' = [status EXCEPT ![t] = "open"]
        /\ hand'[p].id = t /\ hand'[p] # NoJournal
        /\ hand'[p].ledger = IF changed THEN doc ELSE NoLedger
    BY <1>6, StoreAssumption, Zenon DEF Prepare, Usable, TypeInv, TypeOK, ProcsTypeOK, NoJournal
  <2>2. doc.last = t /\ doc.txns = v.txns \cup {t}
    BY Zenon
  <2> HIDE DEF doc
  <2>3. t \notin accepted /\ LatestBackup.last # t /\ ledger.last # t
    BY <2>1, Zenon DEF DurabilityInv, HistoryInv
  <2>4. Firm' = Firm /\ (\A u \in Txn : status'[u] = IF u = t THEN "open" ELSE status[u])
    BY <1>0, <2>1, <2>3, Zenon DEF Firm, TypeInv, TypeOK, HistoryTypeOK
  <2>5. \A u \in Txn : status[u] # "open"
    BY <1>0, <1>2, Inside, Records, StoreAssumption, Zenon DEF Critical
  <2>6. HistoryInv'
    BY <1>0, <1>4, <2>1, <2>3, <2>4, <2>5, ZenonT(30)
       DEF DurabilityInv, HistoryInv, Stamped, TypeInv, TypeOK, HistoryTypeOK
  <2>7. FilesInv' /\ FirmInv'
    BY <1>0, <1>4, <2>4, Zenon DEF DurabilityInv, FilesInv, FirmInv, Replayed
  <2>8. pc'[p] = "journal"
    BY <2>1, Zenon DEF Goto, TypeInv, TypeOK, ProcsTypeOK
  <2>9. HandOK(p)'
    BY <1>0, <1>2, <1>4, <2>1, <2>2, <2>3, <2>4, <2>8, Zenon DEF HandOK, Holding, Own, Stamped
  <2>10. Safe' => accepted \subseteq v.txns
    BY <1>0, <1>2, <1>3, <1>4, <2>1, Zenon DEF WorkOK
  <2>11. WorkOK(p)'
    BY <1>0, <1>2, <1>4, <2>1, <2>2, <2>8, <2>10, Zenon DEF WorkOK
  <2>12. HolderInv'
    BY <1>0, <2>1, <2>9, <2>11, StaysInside, Zenon DEF Critical, Holding
  <2> QED  BY <2>6, <2>7, <2>12, Zenon DEF DurabilityInv
<1> QED
  BY <1>1, <1>5, <1>6, Zenon

\* Steps that touch no file, no journal in hand, no lock and no outcome, taken
\* outside the critical section.
LEMMA OutsideStep ==
    ASSUME TypeInv, DurabilityInv, NEW p \in Proc, pc[p] \notin Critical, NEW l, l \notin Critical,
           Goto(p, l), UNCHANGED fellBack \/ fellBack' = TRUE,
           UNCHANGED <<ledger, journal, backups, survivors, lock, hand, status, accepted, backupMissed>>
    PROVE  DurabilityInv'
<1>1. FilesInv' /\ FirmInv'
  BY Reads, Zenon
<1>2. LatestBackup' = LatestBackup /\ (Safe' => Safe) /\ (\A q \in Proc : Own(q)' <=> Own(q))
  BY DEF LatestBackup, Safe, Own
<1>3. HistoryInv'
  BY <1>2, Zenon DEF DurabilityInv, HistoryInv, Stamped
<1>4. \A q \in Proc : pc'[q] = IF q = p THEN l ELSE pc[q]
  BY Zenon DEF Goto, TypeInv, TypeOK, ProcsTypeOK
<1>5. ASSUME NEW q \in Proc, pc'[q] \in Critical PROVE HandOK(q)' /\ WorkOK(q)'
  <2>1. pc'[q] = pc[q] /\ HandOK(q) /\ WorkOK(q)
    BY <1>4, <1>5, Zenon DEF DurabilityInv, HolderInv
  <2>2. HandOK(q)'
    BY <1>2, <2>1, Zenon DEF HandOK, Stamped
  <2>3. WorkOK(q)'
    BY <1>2, <2>1, Zenon DEF WorkOK
  <2> QED  BY <2>2, <2>3, Zenon
<1> QED
  BY <1>1, <1>3, <1>5, Zenon DEF DurabilityInv, HolderInv

\* The lock is given up with no journal in hand and nothing else changed.
LEMMA ReleaseStep ==
    ASSUME TypeInv, DurabilityInv, NEW p \in Proc, pc[p] \in Critical \ Holding, NEW l, l \notin Critical,
           Goto(p, l),
           UNCHANGED <<ledger, journal, backups, survivors, status, accepted, fellBack, backupMissed>>
    PROVE  DurabilityInv'
<1>1. FilesInv' /\ FirmInv'
  BY Reads, Zenon
<1>2. \A t \in Txn : status[t] # "open"
  BY Inside, Records, StoreAssumption
<1>3. HistoryInv'
  BY <1>2, Zenon DEF DurabilityInv, HistoryInv, Stamped, LatestBackup
<1>4. HolderInv'
  BY Leaves, Zenon
<1> QED
  BY <1>1, <1>3, <1>4, Zenon DEF DurabilityInv

\* Taking the lock keeps it, with the leftover journal in hand if there is one.
LEMMA AcquireStep ==
    ASSUME TypeInv, DurabilityInv, NEW p \in Proc, Acquire(p)
    PROVE  DurabilityInv'
<1>0. /\ pc[p] = "lock" /\ lock = None /\ lock' = p
      /\ UNCHANGED <<ledger, journal, backups, survivors, status, accepted, fellBack, backupMissed>>
  BY Zenon DEF Acquire, At, files, disk, history, incidents
<1>1. /\ \A q \in Proc \ {p} : pc[q] \notin Critical /\ hand[q] = NoJournal
      /\ hand[p] = NoJournal
  BY <1>0, Exclusive, Zenon DEF TypeInv, HandInv, Holding
<1>2. \A t \in Txn : status[t] # "open"
  BY <1>0, <1>1, Exclusive, Records, StoreAssumption, Zenon
<1>3. FilesInv' /\ FirmInv'
  BY <1>0, Reads, Zenon
<1>4. LatestBackup' = LatestBackup /\ Safe' = Safe
  BY <1>0, Zenon DEF LatestBackup, Safe
<1>5. HistoryInv'
  BY <1>0, <1>2, <1>4, Zenon DEF DurabilityInv, HistoryInv, Stamped
<1>6. \A q \in Proc \ {p} : pc'[q] \notin Critical
  BY <1>1, Zenon DEF Acquire, Goto, TypeInv, TypeOK, ProcsTypeOK
<1>7. HandOK(p)' /\ WorkOK(p)'
  <2>1. CASE journal = NoJournal
    <3>1. pc'[p] = "recovered" /\ hand'[p] = NoJournal
      BY <1>1, <2>1, Zenon DEF Acquire, Goto, TypeInv, TypeOK, ProcsTypeOK
    <3>2. HandOK(p)'
      BY <1>0, <3>1, Records, Zenon DEF HandOK, Own, Stamped, Holding
    <3>3. WorkOK(p)'
      BY <1>0, <1>4, <2>1, <3>1, Records, Zenon DEF WorkOK, DurabilityInv, FilesInv, Replayed
    <3> QED  BY <3>2, <3>3, Zenon
  <2>2. CASE journal # NoJournal
    <3>1. pc'[p] = "ledger" /\ hand'[p] = journal /\ journal \in Journal
      BY <2>2, Zenon DEF Acquire, Goto, TypeInv, TypeOK, FilesTypeOK, ProcsTypeOK
    <3>2. ~Own(p)' /\ Stamped(journal)
      BY <1>0, <1>2, <3>1, Records, Zenon DEF Own, DurabilityInv, HistoryInv
    <3>3. HandOK(p)' /\ WorkOK(p)'
      BY <1>0, <3>1, <3>2, Zenon DEF HandOK, WorkOK, Stamped, Holding
    <3> QED  BY <3>3, Zenon
  <2> QED  BY <2>1, <2>2, Zenon
<1> QED
  BY <1>3, <1>5, <1>6, <1>7, Zenon DEF DurabilityInv, HolderInv

\* Once reset() has begun to erase, no accepted change is left to be kept.
LEMMA ErasedStep ==
    ASSUME TypeInv, DurabilityInv, NEW p \in Proc, pc[p] \in Critical \ Holding,
           accepted' = {}, UNCHANGED status,
           LatestBackup' = LatestBackup \/ LatestBackup' = NoLedger,
           ledger' = ledger \/ ledger' = EmptyLedger, journal' = journal \/ journal' = NoJournal,
           survivors' \subseteq survivors \cup {<<ledger', journal'>>}, <<ledger', journal'>> \in survivors'
    PROVE  HistoryInv' /\ FilesInv' /\ FirmInv'
<1>1. \A t \in Txn : status[t] # "open"
  BY Inside, Records, StoreAssumption
<1>2. \A s \in survivors' : s \in survivors \/ s = <<ledger', journal'>>
  BY Zenon
<1>3. Stamped(journal') /\ <<ledger, journal>> \in survivors
  BY Records DEF DurabilityInv, HistoryInv, Stamped
<1>4. \A t \in Txn : status[t] = "new" =>
        LatestBackup'.last # t /\ ledger'.last # t /\ journal'.id # t
  BY <1>3, Records, StoreAssumption, SMTT(30) DEF DurabilityInv, HistoryInv
<1>5. HistoryInv'
  BY <1>1, <1>2, <1>3, <1>4, SMTT(30) DEF DurabilityInv, HistoryInv, Stamped
<1>6. Firm' = {}
  BY Zenon DEF Firm
<1> QED
  BY <1>5, <1>6, Zenon DEF FilesInv, FirmInv

\* Every step of reset() keeps it: nothing is promised once the ledger is emptied.
LEMMA ResetStep ==
    ASSUME TypeInv, DurabilityInv, NEW p \in Proc,
           ResetLedger(p) \/ ResetLog(p) \/ ResetJournal(p) \/ ResetBackups(p)
    PROVE  DurabilityInv'
<1> USE DEF TypeInv, TypeOK, ProcsTypeOK
<1>1. CASE ResetLedger(p)
  <2>1. /\ pc[p] = "recovered" /\ ledger' = EmptyLedger /\ accepted' = {}
        /\ survivors' \subseteq survivors \cup {<<ledger', journal'>>} /\ <<ledger', journal'>> \in survivors'
        /\ UNCHANGED <<journal, backups, status>>
    BY <1>1, Zenon DEF ResetLedger, At, Erase, SyncDirectory, UnsyncedDirectory
  <2>2. HistoryInv' /\ FilesInv' /\ FirmInv'
    BY <2>1, ErasedStep, Zenon DEF Critical, Holding, LatestBackup
  <2>3. HandOK(p) /\ hand[p] = NoJournal
    BY <2>1, Inside, Zenon DEF Critical, Holding
  <2>4. CASE Goto(p, "unlinkLog") /\ UNCHANGED <<lock, hand>>
    <3>1. pc'[p] = "unlinkLog" /\ hand'[p] = NoJournal /\ lock' = p
      BY <2>3, <2>4, Zenon DEF Goto, HandOK
    <3>2. HandOK(p)' /\ WorkOK(p)'
      BY <2>1, <3>1, Records, Zenon DEF HandOK, WorkOK, Holding, Own, Stamped
    <3> QED  BY <2>1, <2>2, <2>4, <3>2, StaysInside, Zenon DEF DurabilityInv, Critical, Holding
  <2>5. CASE Return(p)
    BY <2>1, <2>2, <2>5, Leaves, Zenon DEF Return, DurabilityInv, Critical, Holding
  <2> QED  BY <1>1, <2>4, <2>5, Zenon DEF ResetLedger
<1>2. CASE ResetLog(p)
  <2>1. /\ pc[p] = "unlinkLog" /\ Goto(p, "unlinkJournal")
        /\ UNCHANGED <<ledger, journal, backups, survivors, lock, hand, status, accepted, fellBack, backupMissed>>
    BY <1>2, Zenon DEF ResetLog, At, disk, history, incidents
  <2>2. HandOK(p) /\ WorkOK(p) /\ hand[p] = NoJournal
    BY <2>1, Inside, Zenon DEF Critical, Holding
  <2>3. pc'[p] = "unlinkJournal" /\ accepted = {} /\ lock = p
    BY <2>1, <2>2, Zenon DEF Goto, WorkOK, HandOK
  <2>4. HistoryInv' /\ FilesInv' /\ FirmInv'
    BY <2>1, <2>3, ErasedStep, Zenon DEF Critical, Holding, LatestBackup, DurabilityInv, HistoryInv
  <2>5. HandOK(p)' /\ WorkOK(p)'
    BY <2>1, <2>2, <2>3, Records, Zenon DEF HandOK, WorkOK, Holding, Own, Stamped
  <2> QED  BY <2>1, <2>4, <2>5, StaysInside, Zenon DEF DurabilityInv, Critical, Holding
<1>3. CASE ResetJournal(p)
  <2>1. /\ pc[p] = "unlinkJournal" /\ Goto(p, "unlinkBackups") /\ journal' = NoJournal /\ accepted' = {}
        /\ survivors' = survivors \cup {<<ledger', journal'>>}
        /\ UNCHANGED <<ledger, backups, lock, hand, status>>
    BY <1>3, Zenon DEF ResetJournal, At, Erase, UnsyncedDirectory
  <2>2. HandOK(p) /\ hand[p] = NoJournal
    BY <2>1, Inside, Zenon DEF Critical, Holding
  <2>3. pc'[p] = "unlinkBackups" /\ lock = p
    BY <2>1, <2>2, Zenon DEF Goto, HandOK
  <2>4. HistoryInv' /\ FilesInv' /\ FirmInv'
    BY <2>1, ErasedStep, Zenon DEF Critical, Holding, LatestBackup
  <2>5. HandOK(p)' /\ WorkOK(p)'
    BY <2>1, <2>2, <2>3, Records, Zenon DEF HandOK, WorkOK, Holding, Own, Stamped
  <2> QED  BY <2>1, <2>4, <2>5, StaysInside, Zenon DEF DurabilityInv, Critical, Holding
<1>4. CASE ResetBackups(p)
  <2>1. /\ pc[p] = "unlinkBackups" /\ Return(p) /\ backups' = <<>>
        /\ survivors' = {<<ledger', journal'>>}
        /\ UNCHANGED <<ledger, journal, status, accepted>>
    BY <1>4, Zenon DEF ResetBackups, At, SyncDirectory, history
  <2>2. pc[p] \in Critical
    BY <2>1, Zenon DEF Critical
  <2>2a. WorkOK(p)
    BY <2>2, Inside, Zenon
  <2>3. accepted' = {} /\ LatestBackup' = NoLedger
    <3>1. accepted = {}
      BY <2>1, <2>2a, Zenon DEF WorkOK
    <3> QED  BY <2>1, <3>1, Zenon DEF LatestBackup
  <2>4. HistoryInv' /\ FilesInv' /\ FirmInv'
    BY <2>1, <2>3, ErasedStep, Zenon DEF Critical, Holding
  <2> QED  BY <2>1, <2>4, Leaves, Zenon DEF Return, DurabilityInv, Critical, Holding
<1> QED
  BY <1>1, <1>2, <1>3, <1>4, Zenon

\* A dead process's transaction is no longer open; no other outcome changes.
LEMMA AbandonHistory ==
    ASSUME TypeInv, DurabilityInv, NEW D, NEW F, F \subseteq {"warned"}, Abandon(D, F),
           \A t \in Txn : status[t] = "open" => \E p \in D : hand[p].id = t
    PROVE  /\ \A t \in Txn : status'[t] # "open" /\ (status'[t] = "new" => status[t] = "new")
           /\ \A t \in Txn : status[t] \notin F \cup {"open"} => status'[t] = status[t]
BY Zenon DEF Abandon, TypeInv, TypeOK, HistoryTypeOK

\* A kill of the lock holder at any step keeps it.
LEMMA CrashStep ==
    ASSUME TypeInv, DurabilityInv, NEW p \in Proc, Crash(p)
    PROVE  DurabilityInv'
<1> DEFINE h == hand[p]
<1>0. /\ lock = p /\ Return(p) /\ Abandon({p}, {}) /\ survivors' = survivors \cup {<<ledger', journal'>>}
      /\ UNCHANGED <<backups, accepted, fellBack, backupMissed>>
  BY Zenon DEF Crash, UnsyncedDirectory, files, incidents
<1>1. /\ \A q \in Proc \ {p} : pc[q] \notin Critical
      /\ \A t \in Txn : status[t] = "open" => h.id = t
  BY <1>0, Exclusive, Zenon
<1>2. HolderInv'
  <2>1. \A q \in Proc : pc'[q] \notin Critical
    BY <1>0, <1>1, Zenon DEF Return, Goto, Critical, Holding, TypeInv, TypeOK, ProcsTypeOK
  <2> QED  BY <2>1, Zenon DEF HolderInv
<1>3. /\ \A t \in Txn : status'[t] # "open" /\ (status'[t] = "new" => status[t] = "new")
      /\ \A t \in Txn : status[t] # "open" => status'[t] = status[t]
  BY <1>0, <1>1, AbandonHistory, SMTT(30)
<1>4. /\ \A t \in accepted : status[t] \in {"ok", "warned"} /\ status'[t] = status[t]
      /\ Firm' = Firm /\ Firm \subseteq accepted
  <2>1. \A t \in accepted : t \in Txn /\ status[t] \in {"ok", "warned"}
    BY Zenon DEF DurabilityInv, HistoryInv, TypeInv, TypeOK, HistoryTypeOK
  <2>2. \A t \in accepted : status'[t] = status[t]
    BY <1>3, <2>1, Zenon
  <2>3. Firm' = Firm /\ Firm \subseteq accepted
    BY <1>0, <2>2, Zenon DEF Firm
  <2> QED  BY <2>1, <2>2, <2>3, Zenon
<1>5. LatestBackup' = LatestBackup /\ Safe' = Safe /\ (~backupMissed => Safe)
  BY <1>0, Zenon DEF LatestBackup, Safe
<1>5a. /\ <<ledger', journal'>> \in survivors' /\ survivors' \subseteq survivors \cup {<<ledger', journal'>>}
  BY <1>0, Zenon
<1>5b. /\ \A t \in accepted' : status'[t] \in {"ok", "warned"}
       /\ \A t \in Txn : status'[t] = "open" => \E q \in Proc : hand'[q].id = t
  BY <1>0, <1>3, <1>4, Zenon
<1>5c. Firm' \subseteq Firm /\ (Safe' => Safe)
  BY <1>4, <1>5, Zenon
<1>6. CASE UNCHANGED <<ledger, journal>>
  <2>1. survivors' = survivors
    BY <1>0, <1>6, Zenon DEF DurabilityInv, HistoryInv
  <2>2. HistoryInv'
    <3>1. \A t \in Txn : status'[t] = "new" =>
            status[t] = "new" /\ LatestBackup'.last # t /\ ledger'.last # t /\ journal'.id # t
      BY <1>3, <1>5, <1>6, PresentFiles, Zenon
    <3> QED  BY <1>5a, <1>5b, <1>6, <3>1, PresentFiles, HistoryMoves, Zenon
  <2>3. FilesInv' /\ FirmInv'
    BY <1>0, <1>4, <1>5, <1>6, <2>1, Zenon DEF DurabilityInv, FilesInv, FirmInv, Replayed
  <2> QED  BY <1>2, <2>2, <2>3, Zenon DEF DurabilityInv
<1>7. CASE pc[p] = "journal" /\ journal' = h /\ UNCHANGED ledger
  <2>1. HandOK(p) /\ WorkOK(p) /\ h \in Journal
    BY <1>7, Inside, Zenon DEF Critical, Holding
  <2>2. /\ h.id \in Txn /\ status[h.id] = "open" /\ Stamped(h) /\ LatestBackup.last # h.id
        /\ Safe /\ h.ledger # NoLedger => accepted \subseteq h.ledger.txns
        /\ Safe /\ ledger # NoLedger => accepted \subseteq ledger.txns
        /\ ~backupMissed => accepted \subseteq LatestBackup.txns
    <3>1. h.id \in Txn /\ status[h.id] = "open" /\ Stamped(h) /\ LatestBackup.last # h.id
      BY <1>7, <2>1, Records, Zenon DEF HandOK, Own
    <3>2. /\ Safe /\ h.ledger # NoLedger => accepted \subseteq h.ledger.txns
          /\ Safe /\ ledger # NoLedger => accepted \subseteq ledger.txns
          /\ ~backupMissed => accepted \subseteq LatestBackup.txns
      BY <1>7, <2>1, Zenon DEF WorkOK
    <3> QED  BY <3>1, <3>2, Zenon
  <2>3. HistoryInv'
    <3>1. \A t \in Txn : status'[t] = "new" =>
            status[t] = "new" /\ LatestBackup'.last # t /\ ledger'.last # t /\ journal'.id # t
      <4>1. \A t \in Txn : status'[t] = "new" => status[t] = "new" /\ h.id # t
        BY <1>3, <2>2, Zenon
      <4> QED  BY <1>5, <1>7, <4>1, PresentFiles, Zenon
    <3>2. Stamped(journal')
      BY <1>7, <2>2, Zenon
    <3> QED  BY <1>5a, <1>5b, <3>1, <3>2, HistoryMoves, Zenon
  <2>4. FilesInv'
    BY <1>0, <1>5, <1>7, <2>2, Zenon DEF FilesInv, Replayed
  <2>5. FirmInv'
    BY <1>5a, <1>5c, <1>0, <1>4, <1>5, <1>7, <2>2, FirmMoves, Zenon
  <2> QED  BY <1>2, <2>3, <2>4, <2>5, Zenon DEF DurabilityInv
<1>8. CASE pc[p] = "ledger" /\ h.ledger # NoLedger /\ ledger' = h.ledger /\ UNCHANGED journal
  <2>1. HandOK(p) /\ h \in Journal
    BY <1>8, Inside, Zenon DEF Critical, Holding
  <2>2. h = journal /\ Stamped(h) /\ h.id \in Txn
    BY <1>8, <2>1, Records, Zenon DEF HandOK, Holding
  <2>3. /\ Safe => accepted \subseteq h.ledger.txns
        /\ h.ledger.last = h.id /\ status[h.id] # "new"
    BY <1>8, <2>2, Zenon DEF DurabilityInv, FilesInv, HistoryInv, Stamped
  <2>4. HistoryInv'
    <3>1. \A t \in Txn : status'[t] = "new" =>
            status[t] = "new" /\ LatestBackup'.last # t /\ ledger'.last # t /\ journal'.id # t
      <4>1. \A t \in Txn : status'[t] = "new" => status[t] = "new" /\ h.ledger.last # t
        BY <1>3, <2>3, Zenon
      <4> QED  BY <1>5, <1>8, <4>1, PresentFiles, Zenon
    <3>2. Stamped(journal')
      BY <1>8, <2>2, Zenon
    <3> QED  BY <1>5a, <1>5b, <3>1, <3>2, HistoryMoves, Zenon
  <2>5. FilesInv'
    BY <1>0, <1>5, <1>8, <2>2, <2>3, Zenon DEF DurabilityInv, FilesInv, Replayed
  <2>6. FirmInv'
    <3>1. Safe' /\ journal'.ledger # NoLedger => Firm \subseteq journal'.ledger.txns
      BY <1>5, <1>8, PresentFiles, Zenon
    <3>2. Safe' => Firm \subseteq ledger'.txns
      BY <1>4, <1>5, <1>8, <2>3, Zenon
    <3>3. ~backupMissed' => Firm \subseteq LatestBackup'.txns
      BY <1>0, <1>5, PresentFiles, Zenon
    <3> QED  BY <1>5a, <1>5c, <3>1, <3>2, <3>3, FirmMoves, Zenon
  <2> QED  BY <1>2, <2>4, <2>5, <2>6, Zenon DEF DurabilityInv
<1>9. CASE pc[p] = "clear" /\ journal' = NoJournal /\ UNCHANGED ledger
  <2>1. HandOK(p) /\ WorkOK(p) /\ h \in Journal
    BY <1>9, Inside, Zenon DEF Critical, Holding
  <2>2. h = journal /\ Stamped(h)
    BY <1>9, <2>1, Zenon DEF HandOK, Holding
  <2>3. /\ Safe /\ ledger # NoLedger => accepted \subseteq ledger.txns
        /\ ~backupMissed => accepted \subseteq LatestBackup.txns
    BY <1>5, <1>9, <2>1, <2>2, Zenon DEF WorkOK, DurabilityInv, FilesInv, Replayed
  <2>4. HistoryInv'
    <3>1. Stamped(journal') /\ (\A t \in Txn : journal'.id # t)
      BY <1>9, Records, StoreAssumption, Zenon DEF Stamped
    <3>2. \A t \in Txn : status'[t] = "new" =>
            status[t] = "new" /\ LatestBackup'.last # t /\ ledger'.last # t /\ journal'.id # t
      BY <1>3, <1>5, <1>9, <3>1, PresentFiles, Zenon
    <3> QED  BY <1>5a, <1>5b, <3>1, <3>2, HistoryMoves, Zenon
  <2>5. FilesInv'
    BY <1>0, <1>5, <1>9, <2>3, Records, Zenon DEF FilesInv, Replayed
  <2>6. FirmInv'
    <3>1. journal'.ledger = NoLedger
      BY <1>9, Records, Zenon
    <3>2. Safe' /\ ledger' # NoLedger => Firm \subseteq ledger'.txns
      BY <1>5, <1>9, PresentFiles, Zenon
    <3>3. ~backupMissed' => Firm \subseteq LatestBackup'.txns
      BY <1>0, <1>5, PresentFiles, Zenon
    <3> QED  BY <1>5a, <1>5c, <3>1, <3>2, <3>3, FirmMoves, Zenon
  <2> QED  BY <1>2, <2>4, <2>5, <2>6, Zenon DEF DurabilityInv
<1> QED
  BY <1>6, <1>7, <1>8, <1>9, Zenon DEF Crash, At, files

\* After the step every backup is one of those there were, or l.
BackupsFrom(l) ==
    \A k \in DOMAIN backups' : backups'[k] = l \/ \E m \in DOMAIN backups : backups'[k] = backups[m]

\* _write_backup and _prune_backups add the journal's document and nothing else.
LEMMA BackupsTaken ==
    ASSUME TypeInv, NEW p \in Proc, Backup(p), hand[p].ledger \in Ledger
    PROVE  BackupsFrom(hand[p].ledger)
<1> DEFINE h == hand[p].ledger
           kept == <<h>> \o backups
<1>0. backups \in Seq(Ledger)
  BY DEF TypeInv, TypeOK, FilesTypeOK
<1>1. \/ backups' = backups \/ backups' = kept
      \/ backups' = SubSeq(kept, 1, IF Len(kept) < BackupKeep THEN Len(kept) ELSE BackupKeep)
  BY Zenon DEF Backup
<1>2. h \in Ledger
  BY Zenon
<1> HIDE DEF h
<1>3. kept \in Seq(Ledger) /\ Len(kept) = Len(backups) + 1 /\ kept[1] = h
  BY <1>0, <1>2
<1>4. \A k \in DOMAIN kept : k = 1 \/ (k - 1 \in DOMAIN backups /\ kept[k] = backups[k - 1])
  BY <1>0, <1>2
<1>5. \A k \in DOMAIN kept : kept[k] = h \/ \E m \in DOMAIN backups : kept[k] = backups[m]
  BY <1>3, <1>4, Zenon
<1> HIDE DEF kept
<1>6. CASE backups' = SubSeq(kept, 1, IF Len(kept) < BackupKeep THEN Len(kept) ELSE BackupKeep)
  <2>1. \A k \in DOMAIN backups' : k \in DOMAIN kept /\ backups'[k] = kept[k]
    BY <1>3, <1>6, StoreAssumption
  <2> QED  BY <1>5, <2>1, Zenon DEF BackupsFrom, h
<1> QED  BY <1>1, <1>5, <1>6, Zenon DEF BackupsFrom, h

\* A power loss takes the newest backups, as far as they were not fsynced; the ones
\* that stay are the newest if none is missed.
LEMMA BackupsLost ==
    ASSUME TypeInv, PowerLoss
    PROVE  /\ \A i \in DOMAIN backups' : \E m \in DOMAIN backups : backups'[i] = backups[m]
           /\ LatestBackup' = NoLedger \/ \E m \in DOMAIN backups : LatestBackup' = backups[m]
           /\ ~backupMissed' => LatestBackup' = LatestBackup /\ ~backupMissed
<1>1. PICK k \in 0 .. loose : /\ backups' = SubSeq(backups, k + 1, Len(backups))
                             /\ backupMissed' = (backupMissed \/ k > 0)
  BY Zenon DEF PowerLoss
<1>2. backups \in Seq(Ledger) /\ k \in Nat /\ (k = 0 \/ k > 0)
  BY DEF TypeInv, TypeOK, FilesTypeOK, HistoryTypeOK
<1>3. backups' = SubSeq(backups, k + 1, Len(backups)) /\ (k = 0 => backups' = backups)
  BY <1>1, <1>2
<1>4. \A i \in DOMAIN backups' : i + k \in DOMAIN backups /\ backups'[i] = backups[i + k]
  BY <1>2, <1>3
<1>5. \A i \in DOMAIN backups' : \E m \in DOMAIN backups : backups'[i] = backups[m]
  BY <1>4, Zenon
<1>6. backups' # <<>> => 1 \in DOMAIN backups'
  BY <1>2, <1>3
<1>7. LatestBackup' = NoLedger \/ \E m \in DOMAIN backups : LatestBackup' = backups[m]
  BY <1>5, <1>6, Zenon DEF LatestBackup
<1>8. ~backupMissed' => k = 0 /\ ~backupMissed
  BY <1>1, <1>2, Zenon
<1>9. ~backupMissed' => LatestBackup' = LatestBackup
  BY <1>3, <1>8, Zenon DEF LatestBackup
<1> QED  BY <1>5, <1>7, <1>8, <1>9, Zenon

\* A power loss keeps it: each surviving directory holds what was cleanly committed.
LEMMA PowerLossStep == ASSUME TypeInv, DurabilityInv, BackupsInv, PowerLoss PROVE DurabilityInv'
<1>1. PICK s \in survivors : ledger' = s[1] /\ journal' = s[2]
  BY Zenon DEF PowerLoss
<1>2. /\ survivors' = {<<ledger', journal'>>} /\ Abandon(Proc, {"warned"}) /\ accepted' = Firm
      /\ pc' = [p \in Proc |-> "idle"] /\ UNCHANGED fellBack
  BY Zenon DEF PowerLoss, SyncDirectory, Firm
<1>3. HolderInv'
  BY <1>2, Zenon DEF HolderInv, Critical, Holding
<1>4. /\ LatestBackup' = NoLedger \/ \E k \in DOMAIN backups : LatestBackup' = backups[k]
      /\ ~backupMissed' => LatestBackup' = LatestBackup /\ ~backupMissed
      /\ (Safe' => Safe) /\ (~backupMissed => Safe)
  <2>1. ~backupMissed' => ~backupMissed
    BY BackupsLost, Zenon
  <2> QED  BY <1>2, <2>1, BackupsLost, Zenon DEF Safe
<1>5. /\ \A t \in Txn : status'[t] # "open" /\ (status'[t] = "new" => status[t] = "new")
      /\ \A t \in Txn : status[t] \notin {"warned", "open"} => status'[t] = status[t]
  <2>1. \A t \in Txn : status[t] = "open" => \E p \in Proc : hand[p].id = t
    BY Zenon DEF DurabilityInv, HistoryInv
  <2>2. /\ \A t \in Txn : status'[t] # "open" /\ (status'[t] = "new" => status[t] = "new")
        /\ \A t \in Txn : status[t] \notin {"warned"} \cup {"open"} => status'[t] = status[t]
    BY <1>2, <2>1, AbandonHistory, ZenonT(30)
  <2> QED  BY <2>2, Zenon
<1>6. (\A t \in Firm : t \in Txn /\ status'[t] = "ok") /\ Firm' = Firm
  BY <1>2, <1>5, Zenon DEF Firm, TypeInv, TypeOK, HistoryTypeOK
<1>7. HistoryInv'
  <2>1. \A x \in survivors' : x = <<s[1], s[2]>>
    BY <1>1, <1>2, Zenon
  <2>2. \A t \in Txn : status'[t] = "new" => s[1].last # t /\ s[2].id # t /\ LatestBackup'.last # t
    <3>1. ASSUME NEW t \in Txn, status[t] = "new" PROVE s[1].last # t /\ s[2].id # t /\ LatestBackup.last # t
      BY <1>1, <3>1, Zenon DEF DurabilityInv, HistoryInv
    <3>2. ASSUME NEW t \in Txn, status[t] = "new" PROVE LatestBackup'.last # t
      <4>1. NoLedger.last # t
        BY Records, StoreAssumption, Zenon
      <4> QED  BY <1>4, <3>1, <3>2, <4>1, Zenon DEF BackupsInv
    <3> QED  BY <1>5, <3>1, <3>2, Zenon
  <2>3. \A t \in Txn : status'[t] = "new" =>
            LatestBackup'.last # t /\ \A x \in survivors' : x[1].last # t /\ x[2].id # t
    BY <2>1, <2>2
  <2>4. \A x \in survivors' : Stamped(x[2])
    BY <1>1, <2>1 DEF DurabilityInv, HistoryInv
  <2>5. \A t \in accepted' : status'[t] \in {"ok", "warned"}
    BY <1>2, <1>6, Zenon
  <2>6. \A x \in survivors' : Stamped(x[2])'
    BY <2>4, Zenon DEF Stamped
  <2> QED  BY <1>2, <1>5, <2>3, <2>5, <2>6, Zenon DEF HistoryInv, Stamped
<1>8. /\ Safe /\ ledger' # NoLedger => Firm \subseteq ledger'.txns
      /\ Safe /\ journal'.ledger # NoLedger => Firm \subseteq journal'.ledger.txns
      /\ ~backupMissed => Firm \subseteq LatestBackup.txns
  BY <1>1, Zenon DEF DurabilityInv, FirmInv
<1>9. FilesInv'
  BY <1>2, <1>4, <1>8, Zenon DEF FilesInv, Replayed
<1>10. FirmInv'
  <2>1. \A x \in survivors' : x[1] = ledger' /\ x[2] = journal'
    BY <1>2
  <2> QED  BY <1>2, <1>4, <1>6, <1>8, <2>1, Zenon DEF FirmInv
<1> QED
  BY <1>3, <1>7, <1>9, <1>10, Zenon DEF DurabilityInv

\* Damage to ledger.json keeps it: the newest backup stands in for the document.
LEMMA DamageStep == ASSUME TypeInv, DurabilityInv, Damage PROVE DurabilityInv'
<1>1. /\ ledger' = NoLedger /\ survivors' = {<<NoLedger, journal>>}
      /\ UNCHANGED <<journal, backups, lock, pc, hand, status, accepted, fellBack, backupMissed>>
  BY Zenon DEF Damage, SyncDirectory, procs, history, incidents
<1>2. LatestBackup' = LatestBackup /\ Safe' = Safe /\ Firm' = Firm /\ (\A q \in Proc : Own(q)' <=> Own(q))
  BY <1>1, Zenon DEF LatestBackup, Safe, Firm, Own
<1>3. <<ledger, journal>> \in survivors
  BY Zenon DEF DurabilityInv, HistoryInv
<1>4. HistoryInv'
  BY <1>1, <1>2, <1>3, Records, StoreAssumption, SMTT(30) DEF DurabilityInv, HistoryInv, Stamped
<1>5. FilesInv' /\ FirmInv'
  BY <1>1, <1>2, <1>3, SMTT(30) DEF DurabilityInv, FilesInv, FirmInv, Replayed
<1>6. ASSUME NEW q \in Proc, pc'[q] \in Critical PROVE HandOK(q)' /\ WorkOK(q)'
  <2>1. HandOK(q) /\ WorkOK(q) /\ pc'[q] = pc[q]
    BY <1>1, <1>6, Zenon DEF DurabilityInv, HolderInv
  <2>2. Own(q) => hand[q].id \in Txn
    BY Records, Zenon DEF Own, TypeInv, TypeOK, ProcsTypeOK
  <2>3. HandOK(q)'
    BY <1>1, <1>2, <2>1, <2>2, Records, StoreAssumption, Zenon DEF HandOK, Stamped
  <2>4. Own(q) /\ pc[q] \in {"log", "backup", "clear"} /\ hand[q].ledger # NoLedger
          /\ journal.ledger # NoLedger => hand[q].id \in journal.ledger.txns
    BY <2>1, Zenon DEF HandOK, Stamped, Holding
  <2>5. WorkOK(q)'
    BY <1>1, <1>2, <2>1, <2>4, SMTT(30) DEF WorkOK
  <2> QED  BY <2>3, <2>5, Zenon
<1> QED
  BY <1>4, <1>5, <1>6, Zenon DEF DurabilityInv, HolderInv

-----------------------------------------------------------------------------
\* Every step of the store keeps the invariant.
LEMMA DurabilityStep == TypeInv /\ DurabilityInv /\ BackupsInv /\ [Next]_vars => DurabilityInv'
<1> SUFFICES ASSUME TypeInv, DurabilityInv, BackupsInv, [Next]_vars PROVE DurabilityInv'
  BY Zenon
<1>1. ASSUME NEW p \in Proc, Begin(p) PROVE DurabilityInv'
  <2>1. /\ pc[p] = "idle" /\ (Goto(p, "lock") \/ Goto(p, "read"))
        /\ UNCHANGED <<ledger, journal, backups, survivors, lock, hand, status, accepted, fellBack, backupMissed>>
    BY <1>1, Zenon DEF Begin, LoadEntry, At, files, disk, history, incidents
  <2> QED  BY <2>1, OutsideStep, Zenon DEF Critical, Holding
<1>2. ASSUME NEW p \in Proc, LockTimeout(p) \/ RecoverFails(p) \/ LoadReturns(p) PROVE DurabilityInv'
  <2>1. /\ pc[p] \in {"lock", "loaded"} /\ Goto(p, "idle")
        /\ UNCHANGED <<ledger, journal, backups, survivors, lock, hand, status, accepted, fellBack, backupMissed>>
    BY <1>2, Zenon DEF LockTimeout, RecoverFails, LoadReturns, At, files, disk, history, incidents
  <2> QED  BY <2>1, OutsideStep, Zenon DEF Critical, Holding
<1>3. ASSUME NEW p \in Proc, Read(p) PROVE DurabilityInv'
  <2>1. /\ pc[p] = "read" /\ (Goto(p, "idle") \/ Goto(p, "loaded"))
        /\ UNCHANGED <<ledger, journal, backups, survivors, lock, hand, status, accepted, backupMissed>>
    BY <1>3, Zenon DEF Read, At, files, disk, history
  <2>2. UNCHANGED fellBack \/ fellBack' = TRUE
    BY <1>3, Zenon DEF Read, LoadUnlocked
  <2> QED  BY <2>1, <2>2, OutsideStep, Zenon DEF Critical, Holding
<1>4. ASSUME NEW p \in Proc, Recovered(p) \/ ResetFails(p) PROVE DurabilityInv'
  <2>1. /\ pc[p] \in {"recovered", "unlinkLog", "unlinkJournal", "unlinkBackups"}
        /\ Goto(p, "read") \/ Goto(p, "idle")
        /\ UNCHANGED <<ledger, journal, backups, survivors, status, accepted, fellBack, backupMissed>>
    BY <1>4, Zenon DEF Recovered, ResetFails, Return, At, files, disk, history, incidents
  <2> QED  BY <2>1, ReleaseStep, Zenon DEF Critical, Holding
<1>5. CASE UNCHANGED vars
  <2>1. UNCHANGED <<ledger, journal, backups, survivors, lock, pc, hand, status, accepted, fellBack, backupMissed>>
    BY <1>5, Zenon DEF vars, files, disk, procs, history, incidents
  <2>2. LatestBackup' = LatestBackup /\ Safe' = Safe /\ (\A q \in Proc : Own(q)' <=> Own(q))
    BY <2>1, Zenon DEF LatestBackup, Safe, Own
  <2>3. HistoryInv' /\ FilesInv' /\ FirmInv'
    BY <2>1, <2>2, Reads, Zenon DEF DurabilityInv, HistoryInv, Stamped
  <2>4. HolderInv'
    <3>1. SUFFICES ASSUME NEW q \in Proc, pc'[q] \in Critical PROVE HandOK(q)' /\ WorkOK(q)'
      BY Zenon DEF HolderInv
    <3>2. HandOK(q) /\ WorkOK(q)
      BY <2>1, <3>1, Zenon DEF DurabilityInv, HolderInv
    <3>3. HandOK(q)'
      BY <2>1, <2>2, <3>2, Zenon DEF HandOK, Stamped
    <3>4. WorkOK(q)'
      BY <2>1, <2>2, <3>2, Zenon DEF WorkOK
    <3> QED  BY <3>3, <3>4, Zenon
  <2> QED  BY <2>3, <2>4, Zenon DEF DurabilityInv
<1> QED
  BY <1>1, <1>2, <1>3, <1>4, <1>5, AcquireStep, ApplyLedgerStep, ApplyLedgerFailsStep,
     AppendLogsStep, AppendLogsFailsStep, BackupStep, ClearJournalStep, MutateStep,
     WriteJournalStep, WriteJournalFailsStep, RereadStep, ResetStep, CrashStep,
     PowerLossStep, DamageStep, Zenon DEF Next, Step

\* A transaction that was begun is never again one still to come.
LEMMA NeverNewAgain ==
    ASSUME TypeInv, [Next]_vars
    PROVE  \A t \in Txn : status'[t] = "new" => status[t] = "new"
<1>0. status \in [Txn -> {"new", "open", "ok", "warned", "error", "unknown"}]
  BY Zenon DEF TypeInv, TypeOK, HistoryTypeOK
<1>1. ASSUME NEW p \in Proc, NEW o \in {"ok", "warned", "error"}, Report(p, o)
      PROVE  \A t \in Txn : status'[t] = "new" => status[t] = "new"
  BY <1>0, <1>1, Zenon DEF Report
<1>2. ASSUME NEW D, NEW F, Abandon(D, F) PROVE \A t \in Txn : status'[t] = "new" => status[t] = "new"
  BY <1>2, Zenon DEF Abandon
<1>3. ASSUME NEW p \in Proc, Mutate(p) PROVE \A t \in Txn : status'[t] = "new" => status[t] = "new"
  <2>1. UNCHANGED status \/ \E t \in Txn : status' = [status EXCEPT ![t] = "open"]
    BY <1>3, Zenon DEF Mutate, Prepare
  <2> QED  BY <1>0, <2>1, Zenon
<1>4. ASSUME NEW p \in Proc, Step(p), ~Mutate(p)
      PROVE  UNCHANGED status \/ (\E o \in {"ok", "warned", "error"} : Report(p, o)) \/ Abandon({p}, {})
  BY <1>4, ZenonT(60) DEF Step, Begin, Acquire, LockTimeout, RecoverFails, ApplyLedger, ApplyLedgerFails, ApplyFailed,
     AppendLogs, AppendLogsFails, Backup, ClearJournal, WriteJournal, WriteJournalFails, Reread, Recovered, Read,
     LoadReturns, ResetFails, ResetLedger, ResetLog, ResetJournal, ResetBackups, Crash, history
<1>5. ASSUME PowerLoss \/ Damage \/ UNCHANGED vars PROVE UNCHANGED status \/ Abandon(Proc, {"warned"})
  BY <1>5, Zenon DEF PowerLoss, Damage, vars, history
<1> QED  BY <1>1, <1>2, <1>3, <1>4, <1>5, Zenon DEF Next

\* The first state has no backups.
LEMMA BackupsInit == Init => BackupsInv
BY DEF Init, BackupsInv

\* A step adds at most the backup of the transaction whose journal is being applied.
LEMMA BackupsStep == TypeInv /\ DurabilityInv /\ BackupsInv /\ [Next]_vars => BackupsInv'
<1> SUFFICES ASSUME TypeInv, DurabilityInv, BackupsInv, [Next]_vars PROVE BackupsInv'
  BY Zenon
<1>1. \A t \in Txn : status'[t] = "new" => status[t] = "new"
  BY NeverNewAgain, Zenon
<1>2. ASSUME \A k \in DOMAIN backups' : \E m \in DOMAIN backups : backups'[k] = backups[m] PROVE BackupsInv'
  BY <1>1, <1>2, Zenon DEF BackupsInv
<1>3. ASSUME NEW p \in Proc, Backup(p) PROVE BackupsInv'
  <2> DEFINE h == hand[p]
  <2>1. pc[p] = "backup" /\ h.ledger # NoLedger
    BY <1>3, Zenon DEF Backup, At, TypeInv, HandInv
  <2>2. h \in Journal /\ h = journal /\ Stamped(h)
    BY <2>1, Inside, Zenon DEF Critical, Holding, HandOK
  <2>3. h.ledger \in Ledger /\ \A t \in Txn : status[t] = "new" => h.ledger.last # t
    BY <2>1, <2>2, Records, PresentFiles, Zenon DEF Stamped
  <2> HIDE DEF h
  <2>4. BackupsFrom(h.ledger)
    BY <1>3, <2>3, BackupsTaken, Zenon DEF h
  <2> QED  BY <1>1, <2>3, <2>4, Zenon DEF BackupsInv, BackupsFrom
<1>4. CASE PowerLoss
  BY <1>2, <1>4, BackupsLost, Zenon
<1>5. ASSUME NEW p \in Proc, Step(p), ~Backup(p) PROVE UNCHANGED backups \/ backups' = <<>>
  BY <1>5, ZenonT(60) DEF Step, Begin, Acquire, LockTimeout, RecoverFails, ApplyLedger, ApplyLedgerFails,
     AppendLogs, AppendLogsFails, ClearJournal, Mutate, WriteJournal, WriteJournalFails, Reread, Recovered, Read,
     LoadReturns, ResetFails, ResetLedger, ResetLog, ResetJournal, ResetBackups, Crash, files
<1>6. ASSUME Damage \/ UNCHANGED vars PROVE UNCHANGED backups
  BY <1>6, Zenon DEF Damage, vars, files
<1>7. ASSUME UNCHANGED backups \/ backups' = <<>> PROVE BackupsInv'
  <2>1. \A k \in DOMAIN backups' : \E m \in DOMAIN backups : backups'[k] = backups[m]
    BY <1>7
  <2> QED  BY <1>2, <2>1, Zenon
<1> QED  BY <1>3, <1>4, <1>5, <1>6, <1>7, Zenon DEF Next

\* Whatever transaction() reported as committed is in the ledger that the next
\* recovery produces, for every number of processes, transactions and incidents.
THEOREM Durability == Spec => []CommittedSurvives
<1>1. TypeInv /\ DurabilityInv => CommittedSurvives
  <2> SUFFICES ASSUME DurabilityInv, ~DoubleFailure PROVE accepted \subseteq EffectiveLedger.txns
    BY Zenon DEF CommittedSurvives
  <2>1. Safe /\ (ledger = NoLedger => ~backupMissed)
    BY Zenon DEF DoubleFailure, Safe
  <2> QED  BY <2>1, Zenon DEF DurabilityInv, FilesInv, EffectiveLedger, Current
<1> QED
  BY <1>1, TypeInit, TypeStep, DurabilityInit, DurabilityStep, BackupsInit, BackupsStep, PTL DEF Spec
=============================================================================
