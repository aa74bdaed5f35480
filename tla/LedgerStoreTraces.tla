------------------------- MODULE LedgerStoreTraces --------------------------
(***************************************************************************)
(* What callers of bk/storage.py rely on besides durability: what load()   *)
(* returns, what reset() leaves and what a rejected transaction leaves, for *)
(* any number of processes, transactions, faults, crashes, power losses and *)
(* resets.                                                                 *)
(***************************************************************************)
EXTENDS LedgerStoreProofs

\* A load that is about to read finds at least what was accepted when it began.
LoadOK(p) ==
    /\ seen[p] \subseteq accepted
    /\ pc[p] = "read" =>
         /\ Safe /\ ledger # NoLedger => seen[p] \subseteq ledger.txns
         /\ ~backupMissed => seen[p] \subseteq LatestBackup.txns
    /\ pc[p] = "loaded" /\ Safe => seen[p] \subseteq got[p]

LoadInv == \A p \in Proc : LoadOK(p)

\* While reset() is unlinking files, ledger.json is the empty document or damaged.
EraseInv ==
    \A p \in Proc :
        /\ pc[p] \in {"unlinkLog", "unlinkJournal", "unlinkBackups"} =>
             ledger \in {EmptyLedger, NoLedger}
        /\ pc[p] = "unlinkBackups" => journal = NoJournal

\* The audit batch of transaction t, and the journals that carry their own batch.
Batch(t, n) == [i \in 1 .. n |-> <<t, i>>]
Batched(j) == j # NoJournal => j.logs = Batch(j.id, batch[j.id])

\* Records of an audit log that transactions prepared.
Recorded(l) == l \in Seq(Event) /\ \A i \in DOMAIN l : l[i][2] <= batch[l[i][1]]

\* A transaction that has put nothing on disk: unused, still preparing, or rejected.
Withheld(t) ==
    \/ status[t] = "new"
    \/ status[t] = "open" /\ \E p \in Proc : pc[p] = "journal" /\ hand[p].id = t
    \/ status[t] = "error" /\ t \notin doubtful

\* Nothing that can still be read mentions transaction t.
Absent(t) ==
    /\ \A s \in survivors : t \notin s[1].txns /\ s[2].id # t /\ t \notin s[2].ledger.txns
    /\ \A k \in DOMAIN backups : t \notin backups[k].txns
    /\ \A i \in DOMAIN log : log[i][1] # t
    /\ \A i \in DOMAIN dLog : dLog[i][1] # t
    /\ \A p \in Proc : pc[p] = "journal" /\ hand[p].id # t => t \notin hand[p].ledger.txns

TraceInv ==
    /\ \A s \in survivors : Batched(s[2])
    /\ \A p \in Proc : Batched(hand[p])
    /\ Recorded(log) /\ Recorded(dLog)
    /\ \A t \in doubtful : status[t] = "error"
    /\ \A t \in Txn : Withheld(t) => Absent(t)
-----------------------------------------------------------------------------
(* What load() returns.                                                    *)

\* A step after which every load still finds what it found before: documents are
\* only replaced by ones that hold every accepted change, and nobody starts to read.
LoadMove ==
    /\ accepted \subseteq accepted' /\ (Safe' => Safe) /\ (~backupMissed' => ~backupMissed)
    /\ Safe' /\ ledger' # NoLedger => ledger' = ledger \/ accepted \subseteq ledger'.txns
    /\ ~backupMissed' => LatestBackup' = LatestBackup \/ accepted \subseteq LatestBackup'.txns
    /\ \A q \in Proc :
         /\ pc'[q] = pc[q] \/ pc'[q] \notin {"read", "loaded"}
         /\ seen'[q] = seen[q] \/ seen'[q] = {}
         /\ got'[q] = got[q]

\* Such a step keeps LoadInv.
LEMMA LoadMoves == LoadInv /\ LoadMove => LoadInv'
BY Zenon DEF LoadInv, LoadOK, LoadMove

\* A step that leaves the documents and the warnings about them alone, or whose
\* read fell back, and moves one process elsewhere than to a read.
LEMMA LoadQuiet ==
    ASSUME TypeInv, NEW p \in Proc, NEW l, l \notin {"read", "loaded"}, Goto(p, l),
           seen' = seen \/ seen' = [seen EXCEPT ![p] = {}], UNCHANGED <<ledger, backups, backupMissed, got>>,
           accepted \subseteq accepted', UNCHANGED fellBack \/ fellBack' = TRUE
    PROVE  LoadMove
<1>1. LatestBackup' = LatestBackup /\ (Safe' => Safe)
  BY DEF LatestBackup, Safe
<1>2. \A q \in Proc : pc'[q] = pc[q] \/ pc'[q] \notin {"read", "loaded"}
  BY Zenon DEF Goto, TypeInv, TypeOK, ProcsTypeOK
<1>3. \A q \in Proc : seen'[q] = seen[q] \/ seen'[q] = {}
  BY Zenon DEF TypeInv, TypeOK, ProcsTypeOK
<1> QED  BY <1>1, <1>2, <1>3, Zenon DEF LoadMove

\* Nothing is expected of a load once reset() or a power loss took the promises.
LEMMA LoadErased ==
    ASSUME seen' = [q \in Proc |-> {}]
    PROVE  LoadInv'
BY Zenon DEF LoadInv, LoadOK

\* load() starting and reading, and the steps between them, keep LoadInv.
LEMMA LoadSteps ==
    ASSUME TypeInv, DurabilityInv, LoadInv, NEW p \in Proc,
           Begin(p) \/ Recovered(p) \/ Read(p) \/ LoadReturns(p) \/ LockTimeout(p) \/ RecoverFails(p) \/ Acquire(p)
    PROVE  LoadInv'
<1> USE DEF TypeInv, TypeOK, ProcsTypeOK
<1>1. CASE Begin(p)
  <2>1. /\ UNCHANGED <<ledger, backups, backupMissed, fellBack, got, accepted>>
        /\ UNCHANGED seen \/ seen' = [seen EXCEPT ![p] = accepted]
        /\ Goto(p, "lock") \/ (Goto(p, "read") /\ journal = NoJournal)
    BY <1>1, Zenon DEF Begin, LoadEntry, files, history, incidents
  <2>2. LatestBackup' = LatestBackup /\ Safe' = Safe /\ accepted \subseteq Txn
    BY <2>1, Zenon DEF LatestBackup, Safe, HistoryTypeOK
  <2>3. \A q \in Proc \ {p} : pc'[q] = pc[q] /\ seen'[q] = seen[q] /\ got'[q] = got[q]
    BY <2>1, Zenon DEF Goto
  <2>4. seen'[p] \subseteq accepted
    BY <2>1, Zenon DEF LoadInv, LoadOK
  <2>5. CASE Goto(p, "lock")
    <3>1. pc'[p] = "lock"
      BY <2>5, Zenon DEF Goto
    <3> QED  BY <2>1, <2>2, <2>3, <2>4, <3>1, Zenon DEF LoadInv, LoadOK
  <2>6. CASE Goto(p, "read") /\ journal = NoJournal
    <3>1. pc'[p] = "read"
      BY <2>6, Zenon DEF Goto
    <3>2. /\ Safe /\ ledger # NoLedger => accepted \subseteq ledger.txns
          /\ ~backupMissed => accepted \subseteq LatestBackup.txns
      BY <2>6, Records, Zenon DEF DurabilityInv, FilesInv, Replayed
    <3> QED  BY <2>1, <2>2, <2>3, <2>4, <3>1, <3>2, Zenon DEF LoadInv, LoadOK
  <2> QED  BY <2>1, <2>5, <2>6, Zenon
<1>2. CASE Recovered(p)
  <2>1. /\ UNCHANGED <<ledger, backups, backupMissed, fellBack, got, accepted, seen>>
        /\ Goto(p, "read") /\ pc[p] = "recovered"
    BY <1>2, Zenon DEF Recovered, At, files, history, incidents
  <2>2. LatestBackup' = LatestBackup /\ Safe' = Safe
    BY <2>1, Zenon DEF LatestBackup, Safe
  <2>3. (\A q \in Proc \ {p} : pc'[q] = pc[q]) /\ pc'[p] = "read"
    BY <2>1, Zenon DEF Goto
  <2>4. WorkOK(p)
    BY <2>1, Inside, Zenon DEF Critical
  <2>5. /\ Safe /\ ledger # NoLedger => accepted \subseteq ledger.txns
        /\ ~backupMissed => accepted \subseteq LatestBackup.txns
    BY <2>1, <2>4, Zenon DEF WorkOK
  <2> QED  BY <2>1, <2>2, <2>3, <2>5, Zenon DEF LoadInv, LoadOK
<1>3. CASE Read(p)
  <2>1. PICK v \in {ledger, LatestBackup} :
          /\ LoadUnlocked(v)
          /\ IF Usable(v)
             THEN Goto(p, "loaded") /\ got' = [got EXCEPT ![p] = v.txns] /\ UNCHANGED <<op, seen>>
             ELSE Goto(p, "idle") /\ UNCHANGED got /\ seen' = [seen EXCEPT ![p] = {}]
    BY <1>3, Zenon DEF Read
  <2>2. /\ pc[p] = "read" /\ UNCHANGED <<ledger, backups, backupMissed, accepted>>
        /\ fellBack' = fellBack \/ fellBack' = TRUE
        /\ v = ledger \/ (v = LatestBackup /\ fellBack' = TRUE)
    BY <1>3, <2>1, Zenon DEF Read, At, files, history, LoadUnlocked
  <2>3. /\ LatestBackup' = LatestBackup /\ (Safe' => Safe) /\ (~backupMissed => Safe)
        /\ fellBack' = TRUE /\ Safe' => ~backupMissed
    BY <2>2 DEF LatestBackup, Safe
  <2>4. CASE Usable(v)
    <3>1. /\ pc'[p] = "loaded" /\ got'[p] = v.txns /\ seen' = seen
          /\ \A q \in Proc \ {p} : pc'[q] = pc[q] /\ got'[q] = got[q]
      BY <2>1, <2>4, Zenon DEF Goto
    <3>2. Safe' => seen[p] \subseteq v.txns
      BY <2>2, <2>3, <2>4, Zenon DEF LoadInv, LoadOK, Usable
    <3> QED  BY <2>2, <2>3, <3>1, <3>2, Zenon DEF LoadInv, LoadOK
  <2>5. CASE ~Usable(v)
    BY <2>1, <2>2, <2>5, LoadQuiet, LoadMoves, Zenon
  <2> QED  BY <2>4, <2>5, Zenon
<1>4. CASE LoadReturns(p)
  <2>1. /\ Goto(p, "idle") /\ seen' = [seen EXCEPT ![p] = {}] /\ got' = [got EXCEPT ![p] = {}]
        /\ UNCHANGED <<ledger, backups, backupMissed, fellBack, accepted>>
    BY <1>4, Zenon DEF LoadReturns, files, history, incidents
  <2>2. LatestBackup' = LatestBackup /\ Safe' = Safe
    BY <2>1, Zenon DEF LatestBackup, Safe
  <2>3. /\ pc'[p] = "idle" /\ seen'[p] = {}
        /\ \A q \in Proc \ {p} : pc'[q] = pc[q] /\ seen'[q] = seen[q] /\ got'[q] = got[q]
    BY <2>1, Zenon DEF Goto
  <2> QED  BY <2>1, <2>2, <2>3, Zenon DEF LoadInv, LoadOK
<1>5. CASE LockTimeout(p) \/ RecoverFails(p)
  <2>1. /\ Goto(p, "idle") /\ seen' = [seen EXCEPT ![p] = {}]
        /\ UNCHANGED <<ledger, backups, backupMissed, fellBack, got, accepted>>
    BY <1>5, Zenon DEF LockTimeout, RecoverFails, files, history, incidents
  <2> QED  BY <2>1, LoadQuiet, LoadMoves, Zenon
<1>6. CASE Acquire(p)
  <2>1. /\ Goto(p, "recovered") \/ Goto(p, "ledger")
        /\ UNCHANGED <<ledger, backups, backupMissed, fellBack, got, accepted, seen>>
    BY <1>6, Zenon DEF Acquire, files, history, incidents
  <2> QED  BY <2>1, LoadQuiet, LoadMoves, Zenon
<1> QED  BY <1>1, <1>2, <1>3, <1>4, <1>5, <1>6, Zenon

\* The steps of the lock holder keep LoadInv: the journal's document, which replaces
\* ledger.json and is backed up, holds every accepted change.
LEMMA LoadWork ==
    ASSUME TypeInv, DurabilityInv, LoadInv, NEW p \in Proc,
           \/ ApplyLedger(p) \/ ApplyLedgerFails(p) \/ AppendLogs(p) \/ AppendLogsFails(p)
           \/ Backup(p) \/ ClearJournal(p) \/ Mutate(p) \/ WriteJournal(p)
           \/ WriteJournalFails(p) \/ Reread(p) \/ ResetFails(p) \/ ResetLog(p)
           \/ ResetBackups(p) \/ Crash(p)
    PROVE  LoadInv'
<1> USE DEF TypeInv, TypeOK, ProcsTypeOK
<1> DEFINE Grows == accepted \subseteq accepted'
<1>0. ASSUME NEW o, Report(p, o) PROVE Grows
  BY <1>0, Zenon DEF Report
<1>1. ASSUME NEW l, l \notin {"read", "loaded"}, Goto(p, l), Grows, UNCHANGED got,
             seen' = seen \/ seen' = [seen EXCEPT ![p] = {}],
             ledger' = ledger \/ (pc[p] = "ledger" /\ ledger' = hand[p].ledger /\ hand[p].ledger # NoLedger),
             UNCHANGED <<backups, backupMissed>>, UNCHANGED fellBack \/ fellBack' = TRUE
      PROVE  LoadInv'
  <2>1. LatestBackup' = LatestBackup /\ (Safe' => Safe)
    BY <1>1 DEF LatestBackup, Safe
  <2>2. ledger' = ledger \/ (Safe => accepted \subseteq ledger'.txns)
    <3>1. CASE pc[p] = "ledger" /\ ledger' = hand[p].ledger /\ hand[p].ledger # NoLedger
      <4>1. HandOK(p)
        BY <3>1, Inside, Zenon DEF Critical, Holding
      <4>2. hand[p] = journal
        BY <3>1, <4>1, Zenon DEF HandOK, Holding
      <4> QED  BY <3>1, <4>2, Zenon DEF DurabilityInv, FilesInv
    <3> QED  BY <1>1, <3>1, Zenon
  <2>3. \A q \in Proc : pc'[q] = pc[q] \/ pc'[q] \notin {"read", "loaded"}
    BY <1>1, Zenon DEF Goto
  <2>4. \A q \in Proc : seen'[q] = seen[q] \/ seen'[q] = {}
    BY <1>1, Zenon
  <2>5. LoadMove
    BY <1>1, <2>1, <2>2, <2>3, <2>4, Zenon DEF LoadMove
  <2> QED  BY <2>5, LoadMoves, Zenon
<1> HIDE DEF Grows
<1>1a. accepted' = accepted => Grows
  BY Zenon DEF Grows
<1>2. CASE ApplyLedger(p)
  <2>1. /\ pc[p] = "ledger" /\ Goto(p, "log")
        /\ UNCHANGED <<backups, backupMissed, accepted, seen, got>>
    BY <1>2, Zenon DEF ApplyLedger, At, history
  <2>2. ledger' = ledger \/ (ledger' = hand[p].ledger /\ hand[p].ledger # NoLedger)
    BY <1>2, Zenon DEF ApplyLedger
  <2>3. UNCHANGED fellBack \/ fellBack' = TRUE
    BY <1>2, Zenon DEF ApplyLedger, LoadUnlocked
  <2> QED  BY <1>1, <1>1a, <2>1, <2>2, <2>3, Zenon
<1>3. ApplyFailed(p) => Grows /\ Goto(p, "idle") /\ UNCHANGED got /\ seen' = [seen EXCEPT ![p] = {}]
  BY <1>0, <1>1a, Zenon DEF ApplyFailed, Return
<1>4. CASE ApplyLedgerFails(p)
  <2>1. /\ pc[p] = "ledger" /\ ApplyFailed(p) /\ UNCHANGED <<backups, backupMissed, fellBack>>
        /\ ledger' = ledger \/ (ledger' = hand[p].ledger /\ hand[p].ledger # NoLedger)
    BY <1>4, Zenon DEF ApplyLedgerFails, At, incidents
  <2> QED  BY <1>1, <1>3, <2>1, Zenon
<1>5. CASE AppendLogs(p)
  <2>1. /\ Goto(p, "clear") \/ Goto(p, "backup")
        /\ UNCHANGED <<ledger, backups, backupMissed, fellBack, accepted, seen, got>>
    BY <1>5, Zenon DEF AppendLogs, AfterLogs, history, incidents
  <2> QED  BY <1>1, <1>1a, <2>1, Zenon
<1>6. CASE AppendLogsFails(p)
  <2>1. ApplyFailed(p) /\ UNCHANGED <<ledger, backups, backupMissed, fellBack>>
    BY <1>6, Zenon DEF AppendLogsFails, incidents
  <2> QED  BY <1>1, <1>3, <2>1, Zenon
<1>7. CASE Backup(p)
  <2>0. /\ pc[p] = "backup" /\ Goto(p, "clear")
        /\ UNCHANGED <<ledger, accepted, fellBack, seen, got>>
    BY <1>7, Zenon DEF Backup, At, history
  <2>1. HandOK(p) /\ hand[p] \in Journal /\ hand[p].ledger \in Ledger
    BY <2>0, Inside, Records, Zenon DEF Critical, Holding, HandInv
  <2>2. \/ LatestBackup' = hand[p].ledger /\ backupMissed' = backupMissed
        \/ LatestBackup' = LatestBackup /\ backupMissed' = TRUE
    BY <1>7, <2>1, BackupOutcome, Zenon
  <2>3. ~backupMissed' => ~backupMissed /\ Safe /\ (Safe' => Safe)
    BY <2>0, <2>2, Zenon DEF Safe
  <2>3a. Safe' => Safe
    BY <2>0, <2>2, Zenon DEF Safe
  <2>4. ~backupMissed' => accepted \subseteq LatestBackup'.txns \/ LatestBackup' = LatestBackup
    BY <2>0, <2>1, <2>2, <2>3, Records, Zenon DEF HandOK, Holding, DurabilityInv, FilesInv
  <2>5. \A q \in Proc : pc'[q] = pc[q] \/ pc'[q] \notin {"read", "loaded"}
    BY <2>0, Zenon DEF Goto
  <2>6. LoadMove
    BY <2>0, <2>3, <2>3a, <2>4, <2>5, Zenon DEF LoadMove
  <2> QED  BY <2>6, LoadMoves, Zenon
<1>8. CASE ClearJournal(p)
  <2>1. /\ Goto(p, "idle") \/ Goto(p, "recovered")
        /\ Grows /\ UNCHANGED <<ledger, backups, backupMissed, fellBack, seen, got>>
    BY <1>0, <1>1a, <1>8, Zenon DEF ClearJournal, Return, incidents
  <2> QED  BY <1>1, <2>1, Zenon
<1>9. CASE Mutate(p)
  <2>1. UNCHANGED <<ledger, backups, backupMissed, accepted, seen>>
    BY <1>9, Zenon DEF Mutate, files
  <2>2. Goto(p, "idle") \/ Goto(p, "journal")
    BY <1>9, Zenon DEF Mutate, Return, Prepare
  <2>3. UNCHANGED got
    BY <1>9, Zenon DEF Mutate, Return, Prepare
  <2>4. UNCHANGED fellBack \/ fellBack' = TRUE
    BY <1>9, Zenon DEF Mutate, LoadUnlocked
  <2> QED  BY <1>1, <1>1a, <2>1, <2>2, <2>3, <2>4, Zenon
<1>10. CASE WriteJournal(p)
  <2>1. Goto(p, "ledger") /\ UNCHANGED <<ledger, backups, backupMissed, fellBack, accepted, seen, got>>
    BY <1>10, Zenon DEF WriteJournal, history, incidents
  <2> QED  BY <1>1, <1>1a, <2>1, Zenon
<1>11. CASE WriteJournalFails(p)
  <2>1. /\ Goto(p, "idle") \/ Goto(p, "reread")
        /\ Grows /\ UNCHANGED <<ledger, backups, backupMissed, fellBack, seen, got>>
    BY <1>0, <1>1a, <1>11, Zenon DEF WriteJournalFails, Return, incidents
  <2> QED  BY <1>1, <2>1, Zenon
<1>12. CASE Reread(p)
  <2>1. Goto(p, "idle") /\ Grows /\ UNCHANGED <<ledger, backups, backupMissed, fellBack, seen, got>>
    BY <1>0, <1>12, Zenon DEF Reread, Return, incidents, files
  <2> QED  BY <1>1, <2>1, Zenon
<1>13. CASE ResetFails(p)
  <2>1. Goto(p, "idle") /\ UNCHANGED <<ledger, backups, backupMissed, fellBack, accepted, seen, got>>
    BY <1>13, Zenon DEF ResetFails, Return, incidents, files, history
  <2> QED  BY <1>1, <1>1a, <2>1, Zenon
<1>14. CASE ResetLog(p)
  <2>1. /\ Goto(p, "unlinkJournal")
        /\ UNCHANGED <<ledger, backups, backupMissed, fellBack, accepted, seen, got>>
    BY <1>14, Zenon DEF ResetLog, incidents, history
  <2> QED  BY <1>1, <1>1a, <2>1, Zenon
<1>15. CASE ResetBackups(p)
  <2>1. /\ pc[p] = "unlinkBackups" /\ Goto(p, "idle") /\ backups' = <<>>
        /\ UNCHANGED <<ledger, backupMissed, fellBack, accepted, seen, got>>
    BY <1>15, Zenon DEF ResetBackups, Return, At, incidents, history
  <2>2. WorkOK(p)
    BY <2>1, Inside, Zenon DEF Critical
  <2>3. accepted = {} /\ Safe' = Safe
    BY <2>1, <2>2, Zenon DEF WorkOK, Safe
  <2>4. \A q \in Proc : pc'[q] = pc[q] \/ pc'[q] \notin {"read", "loaded"}
    BY <2>1, Zenon DEF Goto
  <2>5. LoadMove
    BY <2>1, <2>3, <2>4, Zenon DEF LoadMove
  <2> QED  BY <2>5, LoadMoves, Zenon
<1>16. CASE Crash(p)
  <2>1. /\ Goto(p, "idle") /\ seen' = [seen EXCEPT ![p] = {}]
        /\ UNCHANGED <<backups, backupMissed, fellBack, accepted, got>>
        /\ \/ ledger' = ledger
           \/ pc[p] = "ledger" /\ ledger' = hand[p].ledger /\ hand[p].ledger # NoLedger
    BY <1>16, Zenon DEF Crash, Return, incidents, files, At
  <2> QED  BY <1>1, <1>1a, <2>1, Zenon
<1> QED  BY <1>2, <1>4, <1>5, <1>6, <1>7, <1>8, <1>9, <1>10, <1>11, <1>12, <1>13, <1>14, <1>15, <1>16, Zenon

\* Every step of the store keeps LoadInv.
LEMMA LoadStep == TypeInv /\ DurabilityInv /\ LoadInv /\ [Next]_vars => LoadInv'
<1> SUFFICES ASSUME TypeInv, DurabilityInv, LoadInv, [Next]_vars PROVE LoadInv'
  BY Zenon
<1>1. ASSUME NEW p \in Proc, ResetLedger(p) \/ ResetJournal(p) PROVE LoadInv'
  BY <1>1, LoadErased, Zenon DEF ResetLedger, ResetJournal, Erase
<1>2. CASE PowerLoss
  BY <1>2, LoadErased, Zenon DEF PowerLoss
<1>3. CASE Damage
  <2>1. /\ ledger' = NoLedger
        /\ UNCHANGED <<backups, backupMissed, fellBack, accepted, pc, seen, got>>
    BY <1>3, Zenon DEF Damage, procs, history, incidents
  <2> QED  BY <2>1, LoadMoves, Zenon DEF LoadMove, Safe, LatestBackup
<1>4. CASE UNCHANGED vars
  <2>1. UNCHANGED <<ledger, backups, backupMissed, fellBack, accepted, pc, seen, got>>
    BY <1>4, Zenon DEF vars, files, procs, history, incidents
  <2> QED  BY <2>1, LoadMoves, Zenon DEF LoadMove, Safe, LatestBackup
<1> QED
  BY <1>1, <1>2, <1>3, <1>4, LoadSteps, LoadWork, Zenon DEF Next, Step

\* load() returns every change that was reported as committed before it began, for
\* every number of processes, transactions and incidents.
THEOREM LoadsAreFresh == Spec => []FreshLoad
<1>1. Init => LoadInv
  BY Zenon DEF Init, LoadInv, LoadOK
<1>2. LoadInv => FreshLoad
  BY Zenon DEF LoadInv, LoadOK, FreshLoad, DoubleFailure, Safe, At
<1> QED
  BY <1>1, <1>2, TypeInit, TypeStep, DurabilityInit, DurabilityStep, BackupsInit, BackupsStep, LoadStep, PTL DEF Spec

-----------------------------------------------------------------------------
(* What reset() leaves.                                                    *)

\* While a process holds the lock, the steps of the others leave the files, the
\* outcomes and the lock holder alone.
LEMMA Bystander ==
    ASSUME TypeInv, DurabilityInv, NEW q \in Proc, pc[q] \in Critical,
           NEW p \in Proc, p # q, Step(p)
    PROVE  /\ UNCHANGED <<files, disk, hand, history, backupMissed, outages>>
           /\ resets \in Nat /\ resets' \in Nat /\ resets' >= resets
           /\ \E l \in {"lock", "read", "loaded", "idle"} : Goto(p, l)
<1> USE DEF At
<1>1. lock = q /\ pc[p] \notin Critical /\ lock # p /\ lock # None
  BY Inside, StoreAssumption, Zenon DEF HandOK
<1>2. /\ pc[p] \notin {"recovered", "journal", "reread", "ledger", "log", "backup", "clear",
                       "unlinkLog", "unlinkJournal", "unlinkBackups"}
      /\ resets \in Nat
  BY <1>1, Zenon DEF Critical, Holding, TypeInv, TypeOK, HistoryTypeOK
<1>3. Begin(p) \/ LockTimeout(p) \/ Read(p) \/ LoadReturns(p)
  <2>1. ~Acquire(p) /\ ~RecoverFails(p) /\ ~Crash(p)
    BY <1>1, Zenon DEF Acquire, RecoverFails, Crash
  <2>2. ~ApplyLedger(p) /\ ~ApplyLedgerFails(p) /\ ~AppendLogs(p) /\ ~AppendLogsFails(p)
    BY <1>2, Zenon DEF ApplyLedger, ApplyLedgerFails, AppendLogs, AppendLogsFails
  <2>3. ~Backup(p) /\ ~ClearJournal(p) /\ ~Mutate(p) /\ ~WriteJournal(p) /\ ~WriteJournalFails(p)
    BY <1>2, Zenon DEF Backup, ClearJournal, Mutate, WriteJournal, WriteJournalFails
  <2>4. ~Reread(p) /\ ~Recovered(p) /\ ~ResetLedger(p) /\ ~ResetLog(p) /\ ~ResetJournal(p) /\ ~ResetBackups(p)
    BY <1>2, Zenon DEF Reread, Recovered, ResetLedger, ResetLog, ResetJournal, ResetBackups
  <2>5. ~ResetFails(p)
    BY <1>2, Zenon DEF ResetFails
  <2> QED  BY <2>1, <2>2, <2>3, <2>4, <2>5, Zenon DEF Step
<1>4. CASE Begin(p)
  <2>1. /\ UNCHANGED <<files, disk, hand, history, backupMissed, outages>>
        /\ Goto(p, "lock") \/ Goto(p, "read")
    BY <1>4, Zenon DEF Begin, LoadEntry, incidents
  <2>2. resets' = resets \/ resets' = resets + 1
    BY <1>4, Zenon DEF Begin
  <2> QED  BY <1>2, <2>1, <2>2
<1>5. CASE LockTimeout(p)
  BY <1>2, <1>5 DEF LockTimeout, incidents, bounds, env
<1>6. CASE Read(p)
  <2>1. /\ UNCHANGED <<files, disk, hand, history, backupMissed, outages, resets>>
    BY <1>6, Zenon DEF Read, env
  <2>2. Goto(p, "loaded") \/ Goto(p, "idle")
    BY <1>6, Zenon DEF Read
  <2> QED  BY <1>2, <2>1, <2>2
<1>7. CASE LoadReturns(p)
  BY <1>2, <1>7 DEF LoadReturns, incidents, bounds, env
<1> QED  BY <1>3, <1>4, <1>5, <1>6, <1>7, Zenon

\* A step moves one process, and only reset() gets to the steps that unlink files.
LEMMA Moves ==
    ASSUME NEW p \in Proc, Step(p)
    PROVE  \E l : /\ Goto(p, l)
                  /\ \/ l \notin {"unlinkLog", "unlinkJournal", "unlinkBackups"}
                     \/ l = "unlinkLog" /\ ResetLedger(p)
                     \/ l = "unlinkJournal" /\ ResetLog(p)
                     \/ l = "unlinkBackups" /\ ResetJournal(p)
<1> DEFINE Else == \E l : Goto(p, l) /\ l \notin {"unlinkLog", "unlinkJournal", "unlinkBackups"}
<1>0. ASSUME NEW l, Goto(p, l), l \notin {"unlinkLog", "unlinkJournal", "unlinkBackups"} PROVE Else
  BY <1>0, Zenon
<1> HIDE DEF Else
<1>1. Begin(p) \/ Acquire(p) \/ LockTimeout(p) \/ RecoverFails(p) \/ Recovered(p) \/ Read(p) \/ LoadReturns(p) => Else
  BY <1>0, Zenon DEF Begin, LoadEntry, Acquire, LockTimeout, RecoverFails, Recovered, Read, LoadReturns
<1>2. ApplyLedger(p) \/ WriteJournal(p) \/ Backup(p) => Else
  BY <1>0, Zenon DEF ApplyLedger, WriteJournal, Backup
<1>3. AppendLogs(p) => Else
  BY <1>0, Zenon DEF AppendLogs, AfterLogs
<1>4. Return(p) => Else
  BY <1>0, Zenon DEF Return
<1>5. ApplyLedgerFails(p) \/ AppendLogsFails(p) \/ Reread(p) \/ ResetFails(p) \/ ResetBackups(p) \/ Crash(p) => Else
  BY <1>4, Zenon DEF ApplyLedgerFails, AppendLogsFails, ApplyFailed, Reread, ResetFails, ResetBackups, Crash
<1>6. ClearJournal(p) \/ WriteJournalFails(p) => Else
  BY <1>0, <1>4, Zenon DEF ClearJournal, WriteJournalFails
<1>7. Mutate(p) => Else
  BY <1>0, <1>4, Zenon DEF Mutate, Prepare
<1>8. ResetLedger(p) => Else \/ Goto(p, "unlinkLog")
  BY <1>4, Zenon DEF ResetLedger
<1>9. (ResetLog(p) => Goto(p, "unlinkJournal")) /\ (ResetJournal(p) => Goto(p, "unlinkBackups"))
  BY Zenon DEF ResetLog, ResetJournal
<1>10. CASE Else
  BY <1>10, Zenon DEF Else
<1>11. CASE ResetLedger(p) \/ ResetLog(p) \/ ResetJournal(p)
  BY <1>8, <1>9, <1>10, <1>11, Zenon
<1> QED
  BY <1>1, <1>2, <1>3, <1>5, <1>6, <1>7, <1>10, <1>11, Zenon DEF Step

\* Every step of the store keeps EraseInv.
LEMMA EraseStep == TypeInv /\ DurabilityInv /\ EraseInv /\ [Next]_vars => EraseInv'
<1> SUFFICES ASSUME TypeInv, DurabilityInv, EraseInv, [Next]_vars, NEW q \in Proc,
                    pc'[q] \in {"unlinkLog", "unlinkJournal", "unlinkBackups"}
             PROVE  /\ ledger' \in {EmptyLedger, NoLedger}
                    /\ pc'[q] = "unlinkBackups" => journal' = NoJournal
  BY Zenon DEF EraseInv
<1> USE DEF TypeInv, TypeOK, ProcsTypeOK
<1>1. ASSUME NEW p \in Proc, Step(p), p # q PROVE UNCHANGED <<ledger, journal>> /\ pc'[q] = pc[q]
  <2>1. pc'[q] = pc[q]
    BY <1>1, Moves, Zenon DEF Goto
  <2>2. pc[q] \in Critical
    BY <2>1, Zenon DEF Critical
  <2>3. UNCHANGED files
    BY <1>1, <2>2, Bystander, Zenon
  <2> QED  BY <2>1, <2>3, Zenon DEF files
<1>2. ASSUME NEW p \in Proc, Step(p), p = q
      PROVE  /\ ledger' \in {EmptyLedger, NoLedger}
             /\ pc'[q] = "unlinkBackups" => journal' = NoJournal
  <2>1. PICK l : /\ Goto(p, l)
                 /\ \/ l \notin {"unlinkLog", "unlinkJournal", "unlinkBackups"}
                    \/ l = "unlinkLog" /\ ResetLedger(p)
                    \/ l = "unlinkJournal" /\ ResetLog(p)
                    \/ l = "unlinkBackups" /\ ResetJournal(p)
    BY <1>2, Moves, Zenon
  <2>2. pc'[q] = l
    BY <1>2, <2>1, Zenon DEF Goto
  <2>3. CASE l = "unlinkLog" /\ ResetLedger(p)
    BY <2>2, <2>3, Zenon DEF ResetLedger
  <2>4. CASE l = "unlinkJournal" /\ ResetLog(p)
    BY <1>2, <2>2, <2>4, Zenon DEF ResetLog, At, EraseInv
  <2>5. CASE l = "unlinkBackups" /\ ResetJournal(p)
    BY <1>2, <2>5, Zenon DEF ResetJournal, At, EraseInv
  <2> QED  BY <2>1, <2>2, <2>3, <2>4, <2>5, Zenon
<1>3. CASE PowerLoss
  BY <1>3, Zenon DEF PowerLoss
<1>4. CASE Damage
  <2>1. ledger' = NoLedger /\ UNCHANGED <<journal, pc>>
    BY <1>4, Zenon DEF Damage, procs
  <2> QED  BY <2>1, Zenon DEF EraseInv
<1>5. CASE UNCHANGED vars
  <2>1. UNCHANGED <<ledger, journal, pc>>
    BY <1>5, Zenon DEF vars, files, procs
  <2> QED  BY <2>1, Zenon DEF EraseInv
<1>6. CASE \E p \in Proc : Step(p)
  <2>1. PICK p \in Proc : Step(p)
    BY <1>6, Zenon
  <2>2. CASE p # q
    <3>1. UNCHANGED <<ledger, journal>> /\ pc'[q] = pc[q]
      BY <1>1, <2>1, <2>2, Zenon
    <3> QED  BY <3>1, Zenon DEF EraseInv
  <2> QED  BY <1>2, <2>1, <2>2, Zenon
<1> QED  BY <1>3, <1>4, <1>5, <1>6, Zenon DEF Next

\* When reset() has unlinked the journal, nothing readable can bring a change back.
THEOREM ResetsErase == Spec => []ResetErases
<1>1. Init => EraseInv
  BY Zenon DEF Init, EraseInv
<1>2. EraseInv => ResetErases
  BY Records, Zenon DEF EraseInv, ResetErases, EffectiveLedger, Current, Replayed, At
<1> QED
  BY <1>1, <1>2, TypeInit, TypeStep, DurabilityInit, DurabilityStep, BackupsInit, BackupsStep, EraseStep, PTL DEF Spec

-----------------------------------------------------------------------------
(* Induction over the natural numbers, from the well-foundedness of <, and *)
(* what the scan for missing audit events computes.                        *)

LOCAL INSTANCE WellFoundedInduction

\* A set of natural numbers that is not empty has a least one.
LEMMA LeastNat ==
    ASSUME NEW T, T \subseteq Nat, T # {}
    PROVE  \E m \in T : \A n \in T : m <= n
<1> DEFINE R == OpToRel(<, Nat)
<1>1. IsWellFoundedOn(R, Nat)
  BY NatLessThanWellFounded, Zenon
<1>2. \A x, y \in Nat : <<y, x>> \in R <=> y < x
  BY Zenon DEF OpToRel
<1> HIDE DEF R
<1>3. PICK x \in T : \A y \in T : ~ (<<y, x>> \in R)
  BY <1>1, WFMin, Zenon
<1>4. \A y \in T : ~ (y < x)
  BY <1>2, <1>3, Zenon
<1> QED  BY <1>4

\* What holds of 0 and is passed on from n to n + 1 holds of every natural number.
LEMMA Induction ==
    ASSUME NEW G, 0 \in G, \A n \in Nat : n \in G => n + 1 \in G
    PROVE  Nat \subseteq G
<1> SUFFICES ASSUME Nat \ G # {} PROVE FALSE
  BY Zenon
<1>1. PICK m \in Nat \ G : \A n \in Nat \ G : m <= n
  BY LeastNat, Zenon
<1>2. m # 0 /\ m - 1 \in Nat
  BY <1>1
<1>3. m - 1 \in G
  BY <1>1, <1>2
<1> QED  BY <1>1, <1>2, <1>3

\* One more event of the batch: it is kept unless it is present.
Kept(q, e, present) == IF e \in present THEN q ELSE Append(q, e)

\* The scan of a batch: what is missing among its first i events, for every i.
Scan(f, logs, present) ==
    /\ f[0] = <<>>
    /\ \A i \in 1 .. Len(logs) : f[i] = Kept(f[i - 1], logs[i], present)

\* Without is the end of that scan.
LEMMA WithoutScans ==
    ASSUME NEW S, NEW logs \in Seq(S), NEW present
    PROVE  \E f \in [0 .. Len(logs) -> Seq(S)] :
               Scan(f, logs, present) /\ Without(logs, present) = f[Len(logs)]
<1> DEFINE N == Len(logs)
           Part(n) == \E f \in [0 .. n -> Seq(S)] :
                        f[0] = <<>> /\ \A i \in 1 .. n : f[i] = Kept(f[i - 1], logs[i], present)
           G == {n \in Nat : n <= N => Part(n)}
<1>0. N \in Nat /\ \A i \in 1 .. N : logs[i] \in S
  OBVIOUS
<1>1. Part(0)
  <2> DEFINE f == [i \in 0 .. 0 |-> <<>>]
  <2>1. f \in [0 .. 0 -> Seq(S)] /\ f[0] = <<>> /\ 1 .. 0 = {}
    OBVIOUS
  <2> QED  BY <2>1, Zenon
<1>2. ASSUME NEW n \in Nat, n + 1 <= N, Part(n) PROVE Part(n + 1)
  <2>1. PICK f \in [0 .. n -> Seq(S)] :
          f[0] = <<>> /\ \A i \in 1 .. n : f[i] = Kept(f[i - 1], logs[i], present)
    BY <1>2, Zenon
  <2> DEFINE g == [i \in 0 .. n + 1 |-> IF i <= n THEN f[i] ELSE Kept(f[n], logs[n + 1], present)]
  <2>2. f[n] \in Seq(S) /\ logs[n + 1] \in S
    BY <1>0, <1>2
  <2>3. Kept(f[n], logs[n + 1], present) \in Seq(S)
    BY <2>2 DEF Kept
  <2>4. g \in [0 .. n + 1 -> Seq(S)] /\ g[0] = <<>>
    BY <2>1, <2>3
  <2>5. \A i \in 1 .. n + 1 : g[i] = Kept(g[i - 1], logs[i], present)
    <3> TAKE i \in 1 .. n + 1
    <3>1. CASE i <= n
      BY <2>1, <3>1
    <3>2. CASE i = n + 1
      BY <3>2
    <3> QED  BY <3>1, <3>2
  <2> HIDE DEF g
  <2> QED  BY <2>4, <2>5, Zenon
<1> HIDE DEF Part
<1>3. Part(N)
  <2>1. 0 \in G /\ \A n \in Nat : n \in G => n + 1 \in G
    BY <1>0, <1>1, <1>2
  <2>2. N \in G
    <3> HIDE DEF G
    <3> QED  BY <1>0, <2>1, Induction, Zenon
  <2> QED  BY <1>0, <2>2
<1>4. PICK f \in [0 .. N -> Seq(S)] : Scan(f, logs, present)
  BY <1>3, Zenon DEF Scan, Part
<1> DEFINE Line(g, i) == IF i = 0 THEN <<>>
                         ELSE IF logs[i] \in present THEN g[i - 1] ELSE Append(g[i - 1], logs[i])
           h == CHOOSE g : g = [i \in 0 .. N |-> Line(g, i)]
<1>5. \A i \in 0 .. N : f[i] = Line(f, i)
  <2> TAKE i \in 0 .. N
  <2>1. CASE i = 0
    BY <1>4, <2>1, Zenon DEF Scan
  <2>2. CASE i # 0
    <3>1. i \in 1 .. N
      BY <1>0, <2>2
    <3> QED  BY <1>4, <2>2, <3>1, Zenon DEF Scan, Kept
  <2> QED  BY <2>1, <2>2, Zenon
<1>6. Without(logs, present) = h[N]
  BY Zenon DEF Without
<1>7. h = [i \in 0 .. N |-> Line(h, i)]
  <2> HIDE DEF Line
  <2>1. f = [i \in 0 .. N |-> Line(f, i)]
    BY <1>5, Zenon
  <2> QED  BY <2>1, Zenon
<1> HIDE DEF h
<1>8. \A i \in 0 .. N : h[i] = Line(h, i)
  BY <1>7, Zenon
<1>9. h[0] = <<>> /\ \A i \in 1 .. N : h[i] = Kept(h[i - 1], logs[i], present)
  BY <1>0, <1>8 DEF Kept
<1>10. \A i \in 0 .. N : h[i] \in Seq(S)
  <2> DEFINE T == {n \in Nat : n <= N => h[n] \in Seq(S)}
  <2>1. 0 \in T
    <3>1. h[0] \in Seq(S)
      BY <1>9
    <3> QED  BY <3>1, Zenon
  <2>2. ASSUME NEW n \in Nat, n + 1 <= N, h[n] \in Seq(S) PROVE h[n + 1] \in Seq(S)
    <3>1. h[n + 1] = Kept(h[n], logs[n + 1], present) /\ logs[n + 1] \in S
      BY <1>0, <1>9, <2>2
    <3> QED  BY <2>2, <3>1 DEF Kept
  <2>3. \A n \in Nat : n \in T => n + 1 \in T
    BY <1>0, <2>2
  <2>4. Nat \subseteq T
    <3> HIDE DEF T
    <3> QED  BY <2>1, <2>3, Induction, Zenon
  <2> QED  BY <1>0, <2>4
<1>11. h \in [0 .. N -> Seq(S)]
  BY <1>7, <1>10, Zenon
<1> QED  BY <1>6, <1>9, <1>11, Zenon DEF Scan

\* What the scan leaves: events of the batch that are not present, none of them if
\* all are, and all the missing ones.
LEMMA WithoutEvents ==
    ASSUME NEW S, NEW logs \in Seq(S), NEW present
    PROVE  /\ Without(logs, present) \in Seq(S)
           /\ \A i \in DOMAIN Without(logs, present) :
                \E k \in DOMAIN logs : Without(logs, present)[i] = logs[k] /\ logs[k] \notin present
           /\ \A k \in DOMAIN logs :
                logs[k] \in present \/ \E i \in DOMAIN Without(logs, present) : Without(logs, present)[i] = logs[k]
<1> DEFINE N == Len(logs)
<1>1. PICK f \in [0 .. N -> Seq(S)] : Scan(f, logs, present) /\ Without(logs, present) = f[N]
  BY WithoutScans, Zenon
<1> DEFINE From(n) == \A i \in DOMAIN f[n] : \E k \in 1 .. n : f[n][i] = logs[k] /\ logs[k] \notin present
           Into(n) == \A k \in 1 .. n : logs[k] \in present \/ \E i \in DOMAIN f[n] : f[n][i] = logs[k]
           G == {n \in Nat : n <= N => From(n) /\ Into(n)}
<1>2. N \in Nat /\ DOMAIN logs = 1 .. N
  OBVIOUS
<1>3. From(0) /\ Into(0)
  <2>1. f[0] = <<>> /\ DOMAIN <<>> = {} /\ 1 .. 0 = {}
    BY <1>1 DEF Scan
  <2> QED  BY <2>1, Zenon
<1>4. ASSUME NEW n \in Nat, n + 1 <= N, From(n), Into(n) PROVE From(n + 1) /\ Into(n + 1)
  <2>1. /\ f[n + 1] = Kept(f[n], logs[n + 1], present)
        /\ f[n] \in Seq(S) /\ logs[n + 1] \in S
    BY <1>1, <1>2, <1>4 DEF Scan
  <2>2. 1 .. n + 1 = (1 .. n) \cup {n + 1}
    OBVIOUS
  <2>3. CASE logs[n + 1] \in present
    BY <1>4, <2>1, <2>2, <2>3, Zenon DEF Kept
  <2>4. CASE logs[n + 1] \notin present
    <3>1. f[n + 1] = Append(f[n], logs[n + 1])
      BY <2>1, <2>4, Zenon DEF Kept
    <3>2. /\ DOMAIN f[n + 1] = DOMAIN f[n] \cup {Len(f[n]) + 1} /\ Len(f[n]) + 1 \notin DOMAIN f[n]
          /\ f[n + 1][Len(f[n]) + 1] = logs[n + 1]
          /\ \A i \in DOMAIN f[n] : f[n + 1][i] = f[n][i]
      BY <2>1, <3>1
    <3>3. From(n + 1)
      <4> SUFFICES ASSUME NEW i \in DOMAIN f[n + 1]
                   PROVE  \E k \in 1 .. n + 1 : f[n + 1][i] = logs[k] /\ logs[k] \notin present
        BY Zenon
      <4>1. CASE i \in DOMAIN f[n]
        <5>1. PICK k \in 1 .. n : f[n][i] = logs[k] /\ logs[k] \notin present
          BY <1>4, <4>1, Zenon
        <5>2. k \in 1 .. n + 1 /\ f[n + 1][i] = logs[k]
          BY <2>2, <3>2, <4>1, <5>1, Zenon
        <5> QED  BY <5>1, <5>2, Zenon
      <4>2. CASE i = Len(f[n]) + 1
        BY <2>2, <2>4, <3>2, <4>2, Zenon
      <4> QED  BY <3>2, <4>1, <4>2, Zenon
    <3>4. Into(n + 1)
      <4> SUFFICES ASSUME NEW k \in 1 .. n + 1, logs[k] \notin present
                   PROVE  \E i \in DOMAIN f[n + 1] : f[n + 1][i] = logs[k]
        BY Zenon
      <4>1. CASE k \in 1 .. n
        BY <1>4, <3>2, <4>1, ZenonT(30)
      <4>2. CASE k = n + 1
        BY <3>2, <4>2, Zenon
      <4> QED  BY <2>2, <4>1, <4>2, Zenon
    <3> QED  BY <3>3, <3>4, Zenon
  <2> QED  BY <2>3, <2>4, Zenon
<1> HIDE DEF From, Into
<1>5. From(N) /\ Into(N)
  <2>1. 0 \in G /\ \A n \in Nat : n \in G => n + 1 \in G
    BY <1>2, <1>3, <1>4
  <2>2. N \in G
    <3> HIDE DEF G
    <3> QED  BY <1>2, <2>1, Induction, Zenon
  <2> QED  BY <1>2, <2>2
<1>6. Without(logs, present) \in Seq(S)
  BY <1>1, <1>2
<1>7. /\ \A i \in DOMAIN f[N] : \E k \in DOMAIN logs : f[N][i] = logs[k] /\ logs[k] \notin present
      /\ \A k \in DOMAIN logs : logs[k] \in present \/ \E i \in DOMAIN f[N] : f[N][i] = logs[k]
  BY <1>2, <1>5, Zenon DEF From, Into
<1> QED  BY <1>1, <1>6, <1>7

-----------------------------------------------------------------------------
(* What a rejected transaction leaves, and which events ops.log holds.     *)

\* Every record of l comes from ops.log, from its synced part or from the journal.
Carried(l) ==
    /\ l \in Seq(Event)
    /\ \A i \in DOMAIN l :
         \/ \E k \in DOMAIN log : l[i] = log[k]
         \/ \E k \in DOMAIN dLog : l[i] = dLog[k]
         \/ \E k \in DOMAIN journal.logs : l[i] = journal.logs[k]

\* A directory state put together from the present ones and the journal in hand.
SourcedLedger(l) ==
    l \in {EmptyLedger, NoLedger} \/ \E s \in survivors : l = s[1] \/ l = s[2].ledger
SourcedJournal(j) ==
    \/ j = NoJournal
    \/ \E s \in survivors : j = s[2]
    \/ \E p \in Proc, t \in Txn : pc[p] = "journal" /\ j = hand[p] /\ j.id = t /\ ~Withheld(t)'

\* A step that spreads only what was already on disk, or a journal in hand.
TraceMove ==
    /\ \A s \in survivors' : SourcedLedger(s[1]) /\ SourcedJournal(s[2])
    /\ \A k \in DOMAIN backups' : SourcedLedger(backups'[k]) \/ \E m \in DOMAIN backups : backups'[k] = backups[m]
    /\ Carried(log') /\ Carried(dLog') /\ batch' = batch
    /\ \A p \in Proc : hand'[p] \in {NoJournal, hand[p], journal}
    /\ \A p \in Proc : pc'[p] = "journal" => pc[p] = "journal" /\ hand'[p] = hand[p]
    /\ \A t \in Txn :
         \/ status'[t] = status[t]
         \/ status'[t] \in {"ok", "warned", "unknown"}
         \/ status'[t] = "error" /\ (t \in doubtful' \/ Withheld(t))
    /\ doubtful \subseteq doubtful' /\ \A t \in doubtful' : status'[t] = "error"

\* A transaction that is absent is not in the newest backup.
LEMMA NotNewest == ASSUME TypeInv, NEW t \in Txn, Absent(t) PROVE t \notin LatestBackup.txns
<1>1. backups \in Seq(Ledger) /\ (backups # <<>> => 1 \in DOMAIN backups)
  BY DEF TypeInv, TypeOK, FilesTypeOK
<1> QED  BY <1>1, StoreAssumption, Zenon DEF LatestBackup, NoLedger, Absent

\* A transaction that is withheld after such a step was so before.
LEMMA StillWithheld == ASSUME TraceMove, NEW t \in Txn, Withheld(t)' PROVE Withheld(t)
<1>1. CASE status'[t] = status[t]
  BY <1>1, Zenon DEF TraceMove, Withheld
<1>2. CASE status'[t] \in {"ok", "warned", "unknown"}
  BY <1>2, Zenon DEF Withheld
<1>3. CASE status'[t] = "error" /\ (t \in doubtful' \/ Withheld(t))
  BY <1>3, Zenon DEF Withheld
<1> QED  BY <1>1, <1>2, <1>3, Zenon DEF TraceMove

\* The records of a batch name its transaction and are numbered from 1.
LEMMA BatchRecords ==
    ASSUME TypeInv, NEW j \in Journal \cup {NoJournal}, Batched(j), NEW k \in DOMAIN j.logs
    PROVE  j # NoJournal /\ j.logs[k] = <<j.id, k>> /\ k \in 1 .. batch[j.id] /\ batch[j.id] \in 0 .. MaxLogs
<1>1. j # NoJournal
  <2>1. NoJournal.logs = <<>>
    BY Zenon DEF NoJournal
  <2> QED  BY <2>1
<1>2. j.id \in Txn /\ batch[j.id] \in 0 .. MaxLogs
  BY <1>1, Records, Zenon DEF TypeInv, TypeOK, HistoryTypeOK
<1> QED  BY <1>1, <1>2, StoreAssumption, Zenon DEF Batched, Batch

\* Such a step keeps TraceInv.
LEMMA TraceMoves ==
    ASSUME TypeInv, DurabilityInv, TraceInv, TraceMove
    PROVE  TraceInv'
<1>1. /\ <<ledger, journal>> \in survivors /\ journal \in Journal \cup {NoJournal}
      /\ survivors \subseteq (Ledger \cup {NoLedger}) \X (Journal \cup {NoJournal})
  BY Zenon DEF DurabilityInv, HistoryInv, TypeInv, TypeOK, FilesTypeOK
<1>2. Batched(journal)
  BY <1>1, Zenon DEF TraceInv
<1>3. batch' = batch /\ \A j : Batched(j)' <=> Batched(j)
  BY Zenon DEF TraceMove, Batched
<1>4. \A j : SourcedJournal(j) => Batched(j)
  BY Zenon DEF SourcedJournal, TraceInv, Batched
<1>5. \A s \in survivors' : Batched(s[2])'
  BY <1>3, <1>4, Zenon DEF TraceMove
<1>6. \A p \in Proc : Batched(hand[p])'
  <2> TAKE p \in Proc
  <2>1. Batched(hand'[p])
    BY <1>2, Zenon DEF TraceMove, TraceInv, Batched
  <2> QED  BY <1>3, <2>1, Zenon DEF Batched
<1>7. ASSUME NEW l, Carried(l) PROVE l \in Seq(Event) /\ \A i \in DOMAIN l : l[i][2] <= batch[l[i][1]]
  <2>1. ASSUME NEW k \in DOMAIN journal.logs PROVE journal.logs[k][2] <= batch[journal.logs[k][1]]
    BY <1>1, <1>2, <2>1, BatchRecords
  <2> QED  BY <1>7, <2>1, Zenon DEF Carried, TraceInv, Recorded
<1>8. Recorded(log)' /\ Recorded(dLog)'
  BY <1>3, <1>7, Zenon DEF TraceMove, Recorded
<1>9. ASSUME NEW t \in Txn, Withheld(t)' PROVE Absent(t)'
  <2>1. Withheld(t) /\ Absent(t)
    BY <1>9, StillWithheld, Zenon DEF TraceInv
  <2>2. journal.id # t /\ t # None
    BY <1>1, <2>1, StoreAssumption, Zenon DEF Absent
  <2>3. ASSUME NEW l, SourcedLedger(l) PROVE t \notin l.txns
    BY <2>1, <2>2, <2>3 DEF SourcedLedger, Absent, EmptyLedger, NoLedger
  <2>4. ASSUME NEW j, SourcedJournal(j) PROVE j.id # t /\ t \notin j.ledger.txns
    <3>1. CASE j = NoJournal
      BY <2>2, <3>1, Zenon DEF NoJournal, NoLedger
    <3>2. CASE \E s \in survivors : j = s[2]
      BY <2>1, <3>2, Zenon DEF Absent
    <3>3. CASE \E p \in Proc, u \in Txn : pc[p] = "journal" /\ j = hand[p] /\ j.id = u /\ ~Withheld(u)'
      <4>1. PICK p \in Proc, u \in Txn : pc[p] = "journal" /\ j = hand[p] /\ j.id = u /\ ~Withheld(u)'
        BY <3>3, Zenon
      <4>2. hand[p].id # t
        BY <1>9, <4>1, Zenon
      <4> QED  BY <2>1, <4>1, <4>2, Zenon DEF Absent
    <3> QED  BY <2>4, <3>1, <3>2, <3>3, Zenon DEF SourcedJournal
  <2>5. \A s \in survivors' : t \notin s[1].txns /\ s[2].id # t /\ t \notin s[2].ledger.txns
    BY <2>3, <2>4, Zenon DEF TraceMove
  <2>6. \A k \in DOMAIN backups' : t \notin backups'[k].txns
    BY <2>1, <2>3, Zenon DEF TraceMove, Absent
  <2>7. ASSUME NEW l, Carried(l) PROVE \A i \in DOMAIN l : l[i][1] # t
    <3>1. ASSUME NEW k \in DOMAIN journal.logs PROVE journal.logs[k][1] # t
      <4>1. journal.logs[k] = <<journal.id, k>>
        BY <1>1, <1>2, BatchRecords, Zenon
      <4> QED  BY <2>2, <4>1
    <3> QED  BY <2>1, <2>7, <3>1, ZenonT(30) DEF Carried, Absent
  <2>8. (\A i \in DOMAIN log' : log'[i][1] # t) /\ (\A i \in DOMAIN dLog' : dLog'[i][1] # t)
    BY <2>7, Zenon DEF TraceMove
  <2>9. \A p \in Proc : pc'[p] = "journal" /\ hand'[p].id # t => t \notin hand'[p].ledger.txns
    BY <2>1, Zenon DEF TraceMove, Absent
  <2> QED  BY <2>5, <2>6, <2>8, <2>9, Zenon DEF Absent
<1>10. \A t \in doubtful' : status'[t] = "error"
  BY Zenon DEF TraceMove
<1> QED  BY <1>5, <1>6, <1>8, <1>9, <1>10, Zenon DEF TraceInv

\* The records that are there are carried over, and a new ops.log carries nothing.
LEMMA CarriedSame == ASSUME TraceInv PROVE Carried(log) /\ Carried(dLog) /\ Carried(<<>>)
BY DEF TraceInv, Recorded, Carried

\* Appending events of the journal carries nothing else into ops.log.
LEMMA CarriedMore ==
    ASSUME TypeInv, TraceInv, journal \in Journal, NEW m, NEW k \in 0 .. Len(m), m = Missing(journal.logs)
    PROVE  m \in Seq(Event) /\ Carried(log \o m) /\ Carried(log \o SubSeq(m, 1, k))
<1>1. log \in Seq(Event) /\ journal.logs \in Seq(Event)
  BY Zenon DEF TraceInv, Recorded, Journal
<1>2. PICK present : m = Without(journal.logs, present)
  BY Zenon DEF Missing
<1>3. m \in Seq(Event) /\ \A i \in DOMAIN m : \E j \in DOMAIN journal.logs : m[i] = journal.logs[j]
  BY <1>1, <1>2, WithoutEvents
<1>4. ASSUME NEW s \in Seq(Event), \A i \in DOMAIN s : \E j \in DOMAIN journal.logs : s[i] = journal.logs[j]
      PROVE  Carried(log \o s)
  <2>1. log \o s \in Seq(Event)
    BY <1>1
  <2>2. ASSUME NEW i \in DOMAIN (log \o s)
        PROVE  \/ i \in DOMAIN log /\ (log \o s)[i] = log[i]
               \/ i - Len(log) \in DOMAIN s /\ (log \o s)[i] = s[i - Len(log)]
    BY <1>1
  <2>3. ASSUME NEW i \in DOMAIN (log \o s)
        PROVE  \/ \E k1 \in DOMAIN log : (log \o s)[i] = log[k1]
               \/ \E k1 \in DOMAIN journal.logs : (log \o s)[i] = journal.logs[k1]
    BY <1>4, <2>2, Zenon
  <2> QED  BY <2>1, <2>3, Zenon DEF Carried
<1>5. /\ SubSeq(m, 1, k) \in Seq(Event)
      /\ \A i \in DOMAIN SubSeq(m, 1, k) : i \in DOMAIN m /\ SubSeq(m, 1, k)[i] = m[i]
  BY <1>3
<1> QED  BY <1>3, <1>4, <1>5, ZenonT(30)

\* What a step may report about transactions.
Outcomes ==
    /\ \A t \in Txn :
         \/ status'[t] = status[t]
         \/ status'[t] \in {"ok", "warned", "unknown"}
         \/ status'[t] = "error" /\ (t \in doubtful' \/ Withheld(t))
    /\ doubtful \subseteq doubtful' /\ \A t \in doubtful' : status'[t] = "error"

\* A step that reports nothing.
LEMMA OutcomesSame == ASSUME TraceInv, UNCHANGED <<status, doubtful>> PROVE Outcomes
BY Zenon DEF TraceInv, Outcomes

\* The lock holder reports on its own transaction: an error only for a transaction
\* that put nothing on disk, or one marked as doubtful.
LEMMA OutcomesReport ==
    ASSUME TypeInv, TraceInv, NEW p \in Proc, hand[p] \in Journal, status[hand[p].id] = "open",
           NEW o, Report(p, o),
           \/ o \in {"ok", "warned"} /\ UNCHANGED doubtful
           \/ o = "error" /\ pc[p] = "journal" /\ UNCHANGED doubtful
           \/ o = "error" /\ doubtful' = doubtful \cup {hand[p].id}
    PROVE  Outcomes
<1> DEFINE h == hand[p].id
<1>1. h \in Txn /\ h \notin doubtful /\ status' = [status EXCEPT ![h] = o]
  BY Records, Zenon DEF Report, TraceInv
<1> HIDE DEF h
<1>2. \A t \in Txn : status'[t] = IF t = h THEN o ELSE status[t]
  BY <1>1, Zenon DEF TypeInv, TypeOK, HistoryTypeOK
<1>3. doubtful \subseteq Txn
  BY Zenon DEF TypeInv, TypeOK, HistoryTypeOK
<1>4. pc[p] = "journal" => Withheld(h)
  BY Zenon DEF Withheld, h
<1> QED  BY <1>1, <1>2, <1>3, <1>4, Zenon DEF TraceInv, Outcomes, h

\* Dead processes report nothing.
LEMMA OutcomesAbandon ==
    ASSUME TypeInv, TraceInv, NEW D, NEW F, F \subseteq {"warned"}, Abandon(D, F), UNCHANGED doubtful
    PROVE  Outcomes
<1>1. \A t \in Txn : status'[t] = status[t] \/ status'[t] = "unknown"
  BY Zenon DEF Abandon
<1>2. \A t \in Txn : status[t] = "error" => status'[t] = "error"
  BY Zenon DEF Abandon
<1>3. doubtful \subseteq Txn
  BY Zenon DEF TypeInv, TypeOK, HistoryTypeOK
<1> QED  BY <1>1, <1>2, <1>3, Zenon DEF TraceInv, Outcomes

\* A step of process p that writes nothing but documents and journals it has.
LEMMA TraceBy ==
    ASSUME TypeInv, DurabilityInv, TraceInv, NEW p \in Proc, NEW l, l # "journal", Goto(p, l),
           batch' = batch, Outcomes, Carried(log'), Carried(dLog'),
           survivors' \subseteq survivors \cup {<<ledger', journal'>>},
           ledger' \in {ledger, EmptyLedger, NoLedger, journal.ledger},
           BackupsFrom(journal.ledger),
           \/ journal' \in {journal, NoJournal}
           \/ pc[p] = "journal" /\ journal' = hand[p] /\ status'[hand[p].id] \in {"open", "unknown"},
           hand' \in {hand, [hand EXCEPT ![p] = NoJournal], [hand EXCEPT ![p] = journal]}
    PROVE  TraceInv'
<1>1. <<ledger, journal>> \in survivors /\ pc = [q \in Proc |-> pc[q]] /\ hand = [q \in Proc |-> hand[q]]
  BY Zenon DEF DurabilityInv, HistoryInv, TypeInv, TypeOK, ProcsTypeOK
<1>2. /\ SourcedLedger(ledger')
      /\ \A k \in DOMAIN backups' : SourcedLedger(backups'[k]) \/ \E m \in DOMAIN backups : backups'[k] = backups[m]
  BY <1>1, Zenon DEF SourcedLedger, BackupsFrom
<1>3. \A s \in survivors : SourcedLedger(s[1]) /\ SourcedJournal(s[2])
  BY Zenon DEF SourcedLedger, SourcedJournal
<1>4. SourcedJournal(journal')
  <2>1. CASE journal' \in {journal, NoJournal}
    BY <1>1, <2>1, Zenon DEF SourcedJournal
  <2>2. CASE pc[p] = "journal" /\ journal' = hand[p] /\ status'[hand[p].id] \in {"open", "unknown"}
    <3>1. hand[p].id \in Txn /\ \A q \in Proc \ {p} : pc[q] # "journal"
      BY <2>2, Inside, Records, Zenon DEF Critical, Holding
    <3>2. PICK t \in Txn : t = hand[p].id
      BY <3>1, Zenon
    <3>3. \A q \in Proc : pc'[q] # "journal"
      BY <1>1, <3>1, Zenon DEF Goto
    <3>4. ~Withheld(t)'
      BY <2>2, <3>2, <3>3, Zenon DEF Withheld
    <3> QED  BY <2>2, <3>2, <3>4, Zenon DEF SourcedJournal
  <2> QED  BY <2>1, <2>2, Zenon
<1>5. \A s \in survivors' : SourcedLedger(s[1]) /\ SourcedJournal(s[2])
  <2> TAKE s \in survivors'
  <2>1. s \in survivors \/ (s[1] = ledger' /\ s[2] = journal')
    OBVIOUS
  <2> QED  BY <1>2, <1>3, <1>4, <2>1, Zenon
<1>6. \A q \in Proc : hand'[q] \in {NoJournal, hand[q], journal}
  BY <1>1, Zenon
<1>7. \A q \in Proc : pc'[q] = "journal" => pc[q] = "journal" /\ hand'[q] = hand[q]
  BY <1>1, Zenon DEF Goto
<1>8. TraceMove
  BY <1>2, <1>5, <1>6, <1>7, Zenon DEF TraceMove, Outcomes
<1> QED  BY <1>8, TraceMoves, Zenon

\* The steps that change neither the journal in hand's file nor any outcome.
LEMMA TraceQuiet ==
    ASSUME TypeInv, DurabilityInv, TraceInv, NEW p \in Proc,
           \/ Begin(p) \/ Acquire(p) \/ LockTimeout(p) \/ RecoverFails(p) \/ Recovered(p) \/ Read(p) \/ LoadReturns(p)
           \/ ApplyLedger(p) \/ Backup(p) \/ ResetFails(p) \/ ResetLog(p) \/ ResetBackups(p)
           \/ ResetLedger(p) \/ ResetJournal(p) \/ WriteJournal(p)
    PROVE  TraceInv'
<1>0. Carried(log) /\ Carried(dLog) /\ Carried(<<>>)
  BY CarriedSame, Zenon
<1>1. ASSUME NEW l, l # "journal", Goto(p, l),
             UNCHANGED <<survivors, backups, log, dLog, batch, status, doubtful, ledger, journal>>,
             hand' \in {hand, [hand EXCEPT ![p] = NoJournal], [hand EXCEPT ![p] = journal]}
      PROVE  TraceInv'
  <2>1. BackupsFrom(journal.ledger) /\ Outcomes
    BY <1>1, OutcomesSame, Zenon DEF BackupsFrom
  <2>2. Carried(log') /\ Carried(dLog')
    BY <1>0, <1>1, Zenon
  <2> QED  BY <1>1, <2>1, <2>2, TraceBy, Zenon
<1>2. CASE Begin(p)
  <2>1. /\ UNCHANGED <<survivors, backups, log, dLog, batch, status, doubtful, ledger, journal, hand>>
        /\ Goto(p, "lock") \/ Goto(p, "read")
    BY <1>2, Zenon DEF Begin, LoadEntry, files, disk, history
  <2> QED  BY <1>1, <2>1, Zenon
<1>3. CASE Acquire(p)
  <2>1. /\ UNCHANGED <<survivors, backups, log, dLog, batch, status, doubtful, ledger, journal>>
        /\ Goto(p, "recovered") \/ Goto(p, "ledger")
        /\ hand' = hand \/ hand' = [hand EXCEPT ![p] = journal]
    BY <1>3, Zenon DEF Acquire, files, disk, history
  <2> QED  BY <1>1, <2>1, Zenon
<1>4. CASE LockTimeout(p) \/ RecoverFails(p) \/ LoadReturns(p) \/ Recovered(p)
  <2>1. /\ UNCHANGED <<survivors, backups, log, dLog, batch, status, doubtful, ledger, journal, hand>>
        /\ Goto(p, "idle") \/ Goto(p, "read")
    BY <1>4, Zenon DEF LockTimeout, RecoverFails, LoadReturns, Recovered, files, disk, history
  <2> QED  BY <1>1, <2>1, Zenon
<1>5. CASE Read(p)
  <2>1. UNCHANGED <<survivors, backups, log, dLog, batch, status, doubtful, ledger, journal, hand>>
    BY <1>5, Zenon DEF Read, files, disk, history
  <2>2. Goto(p, "loaded") \/ Goto(p, "idle")
    BY <1>5, Zenon DEF Read
  <2> QED  BY <1>1, <2>1, <2>2, Zenon
<1>6. CASE ResetFails(p)
  <2>1. /\ UNCHANGED <<survivors, backups, log, dLog, batch, status, doubtful, ledger, journal>>
        /\ Goto(p, "idle") /\ hand' = [hand EXCEPT ![p] = NoJournal]
    BY <1>6, Zenon DEF ResetFails, Return, files, disk, history
  <2> QED  BY <1>1, <2>1, Zenon
<1>7. CASE ApplyLedger(p)
  <2>1. /\ pc[p] = "ledger" /\ Goto(p, "log") /\ UNCHANGED <<journal, backups, log, dLog, batch, status, doubtful, hand>>
    BY <1>7, Zenon DEF ApplyLedger, At, history
  <2>2. hand[p] = journal
    BY <2>1, Inside, Zenon DEF HandOK, Critical, Holding
  <2>3. /\ ledger' = ledger \/ ledger' = hand[p].ledger
        /\ survivors' \subseteq survivors \cup {<<ledger', journal'>>}
    BY <1>7, Zenon DEF ApplyLedger, SyncDirectory
  <2>4. BackupsFrom(journal.ledger) /\ Outcomes /\ Carried(log') /\ Carried(dLog')
    BY <1>0, <2>1, OutcomesSame, Zenon DEF BackupsFrom
  <2> QED  BY <2>1, <2>2, <2>3, <2>4, TraceBy, Zenon
<1>8. CASE Backup(p)
  <2>1. /\ pc[p] = "backup" /\ Goto(p, "clear")
        /\ UNCHANGED <<ledger, journal, survivors, log, dLog, batch, status, doubtful, hand>>
    BY <1>8, Zenon DEF Backup, At, disk, history
  <2>2. hand[p] = journal /\ hand[p].ledger \in Ledger
    BY <2>1, Inside, Records, Zenon DEF HandOK, Critical, Holding, TypeInv, HandInv
  <2>3. BackupsFrom(journal.ledger)
    BY <1>8, <2>2, BackupsTaken, Zenon
  <2>4. Outcomes /\ Carried(log') /\ Carried(dLog')
    BY <1>0, <2>1, OutcomesSame, Zenon
  <2> QED  BY <2>1, <2>3, <2>4, TraceBy, Zenon
<1>9. CASE ResetLog(p)
  <2>1. /\ Goto(p, "unlinkJournal") /\ log' = <<>>
        /\ UNCHANGED <<ledger, journal, backups, survivors, dLog, batch, status, doubtful, hand>>
    BY <1>9, Zenon DEF ResetLog, disk, history
  <2>2. Outcomes /\ Carried(log') /\ Carried(dLog') /\ BackupsFrom(journal.ledger)
    BY <1>0, <2>1, OutcomesSame, Zenon DEF BackupsFrom
  <2> QED  BY <2>1, <2>2, TraceBy, Zenon
<1>10. CASE ResetBackups(p)
  <2>1. /\ Goto(p, "idle") /\ backups' = <<>> /\ dLog' = log /\ hand' = [hand EXCEPT ![p] = NoJournal]
        /\ survivors' = {<<ledger', journal'>>} /\ UNCHANGED <<ledger, journal, log, batch, status, doubtful>>
    BY <1>10, Zenon DEF ResetBackups, Return, SyncDirectory, history
  <2>2. Outcomes /\ Carried(log') /\ Carried(dLog') /\ BackupsFrom(journal.ledger)
    BY <1>0, <2>1, OutcomesSame DEF BackupsFrom
  <2> QED  BY <2>1, <2>2, TraceBy, Zenon
<1>11. CASE ResetLedger(p)
  <2>1. /\ Goto(p, "unlinkLog") \/ Goto(p, "idle")
        /\ ledger' = EmptyLedger /\ hand' \in {hand, [hand EXCEPT ![p] = NoJournal]}
        /\ survivors' \subseteq survivors \cup {<<ledger', journal'>>}
        /\ UNCHANGED <<journal, backups, log, dLog, batch, status, doubtful>>
    BY <1>11, Zenon DEF ResetLedger, Return, SyncDirectory, UnsyncedDirectory
  <2>2. Outcomes /\ Carried(log') /\ Carried(dLog') /\ BackupsFrom(journal.ledger)
    BY <1>0, <2>1, OutcomesSame, Zenon DEF BackupsFrom
  <2> QED  BY <2>1, <2>2, TraceBy, Zenon
<1>12. CASE ResetJournal(p)
  <2>1. /\ Goto(p, "unlinkBackups") /\ journal' = NoJournal
        /\ survivors' \subseteq survivors \cup {<<ledger', journal'>>}
        /\ UNCHANGED <<ledger, backups, log, dLog, batch, status, doubtful, hand>>
    BY <1>12, Zenon DEF ResetJournal, UnsyncedDirectory
  <2>2. Outcomes /\ Carried(log') /\ Carried(dLog') /\ BackupsFrom(journal.ledger)
    BY <1>0, <2>1, OutcomesSame, Zenon DEF BackupsFrom
  <2> QED  BY <2>1, <2>2, TraceBy, Zenon
<1>13. CASE WriteJournal(p)
  <2>1. /\ pc[p] = "journal" /\ Goto(p, "ledger") /\ journal' = hand[p] /\ survivors' = {<<ledger', journal'>>}
        /\ UNCHANGED <<ledger, backups, log, dLog, batch, status, doubtful, hand>>
    BY <1>13, Zenon DEF WriteJournal, At, SyncDirectory, history
  <2>2. Outcomes /\ Carried(log') /\ Carried(dLog') /\ BackupsFrom(journal.ledger)
    BY <1>0, <2>1, OutcomesSame, Zenon DEF BackupsFrom
  <2>3. status'[hand[p].id] = "open"
    BY <2>1, Inside, Zenon DEF HandOK, Critical, Holding
  <2> QED  BY <2>1, <2>2, <2>3, TraceBy, Zenon
<1> QED
  BY <1>2, <1>3, <1>4, <1>5, <1>6, <1>7, <1>8, <1>9, <1>10, <1>11, <1>12, <1>13, Zenon

\* The lock holder applies its journal or gives up.
LEMMA TraceApply ==
    ASSUME TypeInv, DurabilityInv, TraceInv, NEW p \in Proc,
           \/ ApplyLedgerFails(p) \/ AppendLogs(p) \/ AppendLogsFails(p) \/ ClearJournal(p)
           \/ WriteJournalFails(p) \/ Reread(p) \/ Crash(p)
    PROVE  TraceInv'
<1>0. Carried(log) /\ Carried(dLog) /\ Carried(<<>>)
  BY CarriedSame, Zenon
<1>1. ASSUME pc[p] \in Holding PROVE hand[p] \in Journal /\ (pc[p] # "journal" => hand[p] = journal)
  BY <1>1, Inside, Zenon DEF Critical, HandOK
<1>2. ASSUME pc[p] \in Holding, NEW o \in {"ok", "warned"}, Report(p, o), Own(p), UNCHANGED doubtful PROVE Outcomes
  BY <1>1, <1>2, OutcomesReport, Zenon DEF Own
<1>3. ASSUME pc[p] \in Holding, ApplyFailed(p)
      PROVE  /\ Goto(p, "idle") /\ hand' = [hand EXCEPT ![p] = NoJournal] /\ batch' = batch /\ Outcomes
  BY <1>2, <1>3, OutcomesSame, Zenon DEF ApplyFailed, Return
<1>4. ASSUME pc[p] = "log", NEW m, m = Missing(hand[p].logs),
             log' = log \/ log' = log \o m \/ \E k \in 0 .. Len(m) : log' = log \o SubSeq(m, 1, k),
             dLog' \in {dLog, log'}
      PROVE  Carried(log') /\ Carried(dLog')
  <2>1. journal \in Journal /\ hand[p] = journal
    BY <1>1, <1>4, Zenon DEF Holding
  <2>2. m \in Seq(Event) => 0 \in 0 .. Len(m)
    OBVIOUS
  <2>3. m \in Seq(Event)
    <3>1. PICK present : m = Without(journal.logs, present)
      BY <1>4, <2>1, Zenon DEF Missing
    <3> QED  BY <2>1, <3>1, WithoutEvents, Zenon DEF Journal
  <2>4. \A k \in 0 .. Len(m) : Carried(log \o m) /\ Carried(log \o SubSeq(m, 1, k))
    BY <1>4, <2>1, CarriedMore, Zenon
  <2>5. Carried(log')
    BY <1>0, <1>4, <2>2, <2>3, <2>4, Zenon
  <2> QED  BY <1>0, <1>4, <2>5, Zenon
<1>5. CASE ApplyLedgerFails(p)
  <2>1. /\ pc[p] = "ledger" /\ ApplyFailed(p) /\ ledger' \in {ledger, hand[p].ledger}
        /\ survivors' \subseteq survivors \cup {<<ledger', journal'>>}
        /\ UNCHANGED <<journal, backups, log, dLog>>
    BY <1>5, Zenon DEF ApplyLedgerFails, At, UnsyncedDirectory
  <2>2. BackupsFrom(journal.ledger) /\ Carried(log') /\ Carried(dLog')
    BY <1>0, <2>1, Zenon DEF BackupsFrom
  <2> QED  BY <1>1, <1>3, <2>1, <2>2, TraceBy, Zenon DEF Holding
<1>6. CASE AppendLogs(p)
  <2>1. /\ pc[p] = "log" /\ Goto(p, AfterLogs(p)) /\ survivors' \subseteq survivors \cup {<<ledger', journal'>>}
        /\ UNCHANGED <<ledger, journal, backups, batch, status, doubtful, hand>>
    BY <1>6, <1>1, Zenon DEF AppendLogs, At, SyncDirectory, disk, history, DurabilityInv, HistoryInv
  <2>2. log' \in {log, log \o Missing(hand[p].logs)} /\ dLog' \in {dLog, log'}
    BY <1>6, Zenon DEF AppendLogs, disk
  <2>3. BackupsFrom(journal.ledger) /\ Carried(log') /\ Carried(dLog') /\ Outcomes
    BY <1>4, <2>1, <2>2, OutcomesSame, Zenon DEF BackupsFrom
  <2>4. AfterLogs(p) # "journal"
    BY Zenon DEF AfterLogs
  <2> QED  BY <2>1, <2>3, <2>4, TraceBy, Zenon
<1>7. CASE AppendLogsFails(p)
  <2>1. /\ pc[p] = "log" /\ ApplyFailed(p) /\ (log' = log \/ PartialAppend(p))
        /\ UNCHANGED <<ledger, journal, backups, survivors, dLog>>
    BY <1>7, Zenon DEF AppendLogsFails, At, disk
  <2>2. BackupsFrom(journal.ledger) /\ Carried(log') /\ Carried(dLog')
    BY <1>4, <2>1, Zenon DEF BackupsFrom, PartialAppend
  <2> QED  BY <1>1, <1>3, <2>1, <2>2, TraceBy, Zenon DEF Holding
<1>8. CASE ClearJournal(p)
  <2>1. /\ pc[p] = "clear" /\ journal' \in {journal, NoJournal}
        /\ survivors' \subseteq survivors \cup {<<ledger', journal'>>}
        /\ UNCHANGED <<ledger, backups, log, dLog, batch, doubtful>>
    BY <1>8, Zenon DEF ClearJournal, At, SyncDirectory, UnsyncedDirectory
  <2>2. /\ Goto(p, "idle") \/ Goto(p, "recovered")
        /\ hand' = [hand EXCEPT ![p] = NoJournal]
        /\ (Own(p) /\ Report(p, "ok")) \/ UNCHANGED status
    BY <1>8, Zenon DEF ClearJournal, Return
  <2>3. BackupsFrom(journal.ledger) /\ Carried(log') /\ Carried(dLog') /\ Outcomes
    BY <1>0, <1>2, <2>1, <2>2, OutcomesSame, Zenon DEF BackupsFrom, Holding
  <2> QED  BY <2>1, <2>2, <2>3, TraceBy, Zenon
<1>9. CASE WriteJournalFails(p)
  <2>1. /\ pc[p] = "journal" /\ survivors' \subseteq survivors \cup {<<ledger', journal'>>}
        /\ UNCHANGED <<ledger, backups, log, dLog, batch, doubtful>>
    BY <1>9, Zenon DEF WriteJournalFails, At, UnsyncedDirectory
  <2>2. status[hand[p].id] = "open" /\ hand[p] \in Journal
    BY <2>1, Inside, Zenon DEF HandOK, Critical, Holding
  <2>3. BackupsFrom(journal.ledger) /\ Carried(log') /\ Carried(dLog')
    BY <1>0, <2>1, Zenon DEF BackupsFrom
  <2>4. CASE Return(p) /\ Report(p, "error") /\ UNCHANGED journal
    <3>1. Outcomes
      BY <2>1, <2>2, <2>4, OutcomesReport, Zenon
    <3> QED  BY <2>1, <2>3, <2>4, <3>1, TraceBy, Zenon DEF Return
  <2>5. CASE journal' = hand[p] /\ Goto(p, "reread") /\ UNCHANGED <<hand, status>>
    <3>1. Outcomes /\ status'[hand[p].id] = "open"
      BY <2>1, <2>2, <2>5, OutcomesSame, Zenon
    <3> QED  BY <2>1, <2>3, <2>5, <3>1, TraceBy, Zenon
  <2> QED  BY <1>9, <2>4, <2>5, Zenon DEF WriteJournalFails
<1>10. CASE Reread(p)
  <2>1. /\ pc[p] = "reread" /\ Return(p)
        /\ UNCHANGED <<ledger, journal, survivors, backups, log, dLog, batch>>
        /\ \/ Report(p, "warned") /\ UNCHANGED doubtful
           \/ Report(p, "error") /\ doubtful' = doubtful \cup {hand[p].id}
    BY <1>10, Zenon DEF Reread, At, files, disk
  <2>2. status[hand[p].id] = "open" /\ hand[p] \in Journal
    BY <2>1, Inside, Zenon DEF HandOK, Critical, Holding
  <2>3. BackupsFrom(journal.ledger) /\ Carried(log') /\ Carried(dLog')
    BY <1>0, <2>1, Zenon DEF BackupsFrom
  <2>4. Outcomes
    BY <2>1, <2>2, OutcomesReport, Zenon
  <2> QED  BY <2>1, <2>3, <2>4, TraceBy, Zenon DEF Return
<1>11. CASE Crash(p)
  <2>1. /\ Return(p) /\ Abandon({p}, {}) /\ UNCHANGED <<dLog, batch, doubtful, backups>>
        /\ survivors' \subseteq survivors \cup {<<ledger', journal'>>}
    BY <1>11, Zenon DEF Crash, UnsyncedDirectory, files
  <2>2. BackupsFrom(journal.ledger) /\ Outcomes /\ Carried(dLog')
    BY <1>0, <2>1, OutcomesAbandon, Zenon DEF BackupsFrom
  <2>3. \/ UNCHANGED files
        \/ pc[p] = "journal" /\ journal' = hand[p] /\ UNCHANGED <<ledger, log>>
        \/ pc[p] = "ledger" /\ ledger' = hand[p].ledger /\ UNCHANGED <<journal, log>>
        \/ pc[p] = "log" /\ PartialAppend(p) /\ UNCHANGED <<ledger, journal>>
        \/ pc[p] = "clear" /\ journal' = NoJournal /\ UNCHANGED <<ledger, log>>
    BY <1>11, Zenon DEF Crash, At
  <2>4. ASSUME Carried(log'), ledger' \in {ledger, journal.ledger},
               \/ journal' \in {journal, NoJournal}
               \/ pc[p] = "journal" /\ journal' = hand[p] /\ status'[hand[p].id] \in {"open", "unknown"}
        PROVE  TraceInv'
    BY <2>1, <2>2, <2>4, TraceBy, Zenon DEF Return
  <2>5. CASE pc[p] = "journal" /\ journal' = hand[p] /\ UNCHANGED <<ledger, log>>
    <3>1. status[hand[p].id] = "open" /\ hand[p].id \in Txn
      BY <2>5, Inside, Records, Zenon DEF HandOK, Critical, Holding
    <3>2. status'[hand[p].id] = "unknown"
      BY <2>1, <3>1, Zenon DEF Abandon
    <3> QED  BY <1>0, <2>4, <2>5, <3>2, Zenon
  <2>6. CASE UNCHANGED files
    BY <1>0, <2>4, <2>6, Zenon DEF files
  <2>7. CASE pc[p] = "ledger" /\ ledger' = hand[p].ledger /\ UNCHANGED <<journal, log>>
    BY <1>0, <1>1, <2>4, <2>7, Zenon DEF Holding
  <2>8. CASE pc[p] = "log" /\ PartialAppend(p) /\ UNCHANGED <<ledger, journal>>
    <3>1. Carried(log')
      BY <1>4, <2>1, <2>8, Zenon DEF PartialAppend
    <3> QED  BY <2>4, <2>8, <3>1, Zenon
  <2>9. CASE pc[p] = "clear" /\ journal' = NoJournal /\ UNCHANGED <<ledger, log>>
    BY <1>0, <2>4, <2>9, Zenon
  <2> QED  BY <2>3, <2>5, <2>6, <2>7, <2>8, <2>9, Zenon
<1> QED
  BY <1>5, <1>6, <1>7, <1>8, <1>9, <1>10, <1>11, Zenon

\* A transaction that is being prepared takes its id from the unused ones, and its
\* document holds what the document read held.
LEMMA TracePrepare ==
    ASSUME TypeInv, DurabilityInv, TraceInv, NEW p \in Proc, Mutate(p)
    PROVE  TraceInv'
<1>1. /\ pc[p] = "recovered" /\ UNCHANGED <<ledger, journal, log, backups, survivors, dLog, doubtful>>
  BY Zenon DEF Mutate, At, files, disk
<1>2. /\ hand[p] = NoJournal /\ \A q \in Proc \ {p} : pc[q] \notin Critical /\ hand[q] = NoJournal
  BY <1>1, Inside, Zenon DEF Critical, Holding
<1>3. CASE Return(p) /\ UNCHANGED <<status, batch>>
  <2>1. Outcomes /\ Carried(log') /\ Carried(dLog') /\ BackupsFrom(journal.ledger)
    BY <1>1, <1>3, CarriedSame, OutcomesSame, Zenon DEF BackupsFrom
  <2> QED  BY <1>1, <1>3, <2>1, TraceBy, Zenon DEF Return
<1>4. ASSUME NEW v \in {ledger, LatestBackup}, NEW u \in Txn, NEW changed \in BOOLEAN, NEW n \in 0 .. MaxLogs,
             Prepare(p, v, u, changed, n)
      PROVE  TraceInv'
  <2> DEFINE d == IF changed THEN [last |-> u, txns |-> v.txns \cup {u}] ELSE NoLedger
             h == [id |-> u, ledger |-> d, logs |-> Batch(u, n)]
  <2>1. /\ status[u] = "new" /\ hand' = [hand EXCEPT ![p] = h]
        /\ status' = [status EXCEPT ![u] = "open"] /\ batch' = [batch EXCEPT ![u] = n]
        /\ Goto(p, "journal")
    BY <1>4, Zenon DEF Prepare, Batch
  <2>2. h.id = u /\ h.ledger = d /\ h.logs = Batch(u, n)
    BY Zenon
  <2>3. \A t \in Txn : t \in d.txns => t = u \/ t \in v.txns
    BY StoreAssumption, Zenon DEF NoLedger
  <2> HIDE DEF d, h
  <2>4. /\ \A t \in Txn : status'[t] = IF t = u THEN "open" ELSE status[t]
        /\ \A t \in Txn : batch'[t] = IF t = u THEN n ELSE batch[t]
    BY <2>1, Zenon DEF TypeInv, TypeOK, HistoryTypeOK
  <2>5. /\ pc'[p] = "journal" /\ hand'[p] = h
        /\ \A q \in Proc \ {p} : pc'[q] = pc[q] /\ hand'[q] = NoJournal
        /\ \A q \in Proc \ {p} : pc[q] # "journal"
    BY <1>2, <2>1, Zenon DEF Goto, TypeInv, TypeOK, ProcsTypeOK, Critical, Holding
  <2>6. Withheld(u) /\ Absent(u)
    BY <2>1, Zenon DEF Withheld, TraceInv
  <2>7. \A t \in Txn : Withheld(t)' => Withheld(t)
    <3> SUFFICES ASSUME NEW t \in Txn, Withheld(t)', t # u PROVE Withheld(t)
      BY <2>6, Zenon
    <3>1. status'[t] = status[t] /\ h.id # t
      BY <2>2, <2>4, Zenon
    <3>2. ~\E q \in Proc : pc'[q] = "journal" /\ hand'[q].id = t
      BY <2>5, <3>1, Zenon
    <3> QED  BY <1>1, <3>1, <3>2, Zenon DEF Withheld
  <2>8. \A s \in survivors : s \in (Ledger \cup {NoLedger}) \X (Journal \cup {NoJournal}) /\ s[2].id # u /\ Batched(s[2])
    BY <2>6, Zenon DEF TraceInv, Absent, TypeInv, TypeOK, FilesTypeOK
  <2>9. ASSUME NEW j \in Journal \cup {NoJournal}, j.id # u, Batched(j) PROVE Batched(j)'
    BY <2>4, <2>9, Records, Zenon DEF Batched
  <2>10. \A s \in survivors' : Batched(s[2])'
    BY <1>1, <2>8, <2>9, Zenon
  <2>11. \A q \in Proc : Batched(hand[q])'
    <3> TAKE q \in Proc
    <3>1. CASE q = p
      BY <2>2, <2>4, <2>5, <3>1, Zenon DEF Batched
    <3>2. CASE q # p
      BY <2>5, <3>2, Zenon DEF Batched
    <3> QED  BY <3>1, <3>2, Zenon
  <2>12. ASSUME NEW l, Recorded(l), \A i \in DOMAIN l : l[i][1] # u
         PROVE  Recorded(l)'
    <3>1. \A i \in DOMAIN l : l[i][1] \in Txn
      BY <2>12 DEF Recorded, Event
    <3> QED  BY <2>4, <2>12, <3>1, Zenon DEF Recorded
  <2>13. Recorded(log)' /\ Recorded(dLog)'
    <3>1. \A l : Recorded(l) /\ (\A i \in DOMAIN l : l[i][1] # u) =>
             l \in Seq(Event) /\ \A i \in DOMAIN l : l[i][2] <= batch'[l[i][1]]
      BY <2>12, Zenon DEF Recorded
    <3> QED  BY <1>1, <2>6, <3>1, Zenon DEF Recorded, TraceInv, Absent
  <2>14. \A t \in doubtful' : status'[t] = "error"
    BY <1>1, <2>1, <2>4, Zenon DEF TraceInv, TypeInv, TypeOK, HistoryTypeOK
  <2>15. ASSUME NEW t \in Txn, Withheld(t)' PROVE Absent(t)'
    <3>1. Absent(t) /\ backups' = backups
      BY <1>1, <2>7, <2>15, Zenon DEF TraceInv
    <3>2. t \notin v.txns
      <4>1. <<ledger, journal>> \in survivors
        BY Zenon DEF DurabilityInv, HistoryInv
      <4> QED  BY <3>1, <4>1, NotNewest, Zenon DEF Absent
    <3>3. \A q \in Proc : pc'[q] = "journal" /\ hand'[q].id # t => t \notin hand'[q].ledger.txns
      BY <2>2, <2>3, <2>5, <3>2, Zenon
    <3> QED  BY <1>1, <3>1, <3>3, Zenon DEF Absent
  <2> QED  BY <2>10, <2>11, <2>13, <2>14, <2>15, Zenon DEF TraceInv
<1> QED  BY <1>3, <1>4, Zenon DEF Mutate

\* Every step of the store keeps TraceInv.
LEMMA TraceStep == TypeInv /\ DurabilityInv /\ TraceInv /\ [Next]_vars => TraceInv'
<1> SUFFICES ASSUME TypeInv, DurabilityInv, TraceInv, [Next]_vars PROVE TraceInv'
  BY Zenon
<1>1. \A s \in survivors : SourcedLedger(s[1]) /\ SourcedJournal(s[2])
  BY Zenon DEF SourcedLedger, SourcedJournal
<1>2. ASSUME BackupsFrom(journal.ledger)
      PROVE  \A k \in DOMAIN backups' : SourcedLedger(backups'[k]) \/ \E m \in DOMAIN backups : backups'[k] = backups[m]
  <2>1. <<ledger, journal>> \in survivors /\ <<ledger, journal>>[2] = journal
    BY Zenon DEF DurabilityInv, HistoryInv
  <2> QED  BY <1>2, <2>1, Zenon DEF BackupsFrom, SourcedLedger
<1>3. CASE PowerLoss
  <2>1. PICK s \in survivors : ledger' = s[1] /\ journal' = s[2]
    BY <1>3, Zenon DEF PowerLoss
  <2>2. /\ survivors' = {<<ledger', journal'>>} /\ dLog' = log' /\ Abandon(Proc, {"warned"})
        /\ pc' = [p \in Proc |-> "idle"] /\ hand' = [p \in Proc |-> NoJournal]
        /\ log' \in {dLog} \cup {SubSeq(log, 1, k) : k \in Len(dLog) .. Len(log)}
        /\ UNCHANGED <<batch, doubtful>>
    BY <1>3, Zenon DEF PowerLoss, SyncDirectory
  <2>3. BackupsFrom(journal.ledger) /\ Outcomes
    BY <1>3, <2>2, BackupsLost, OutcomesAbandon, Zenon DEF BackupsFrom
  <2>4. log \in Seq(Event) /\ dLog \in Seq(Event)
    BY Zenon DEF TraceInv, Recorded
  <2>5. Carried(log') /\ Carried(dLog')
    <3>1. CASE log' = dLog
      BY <2>2, <3>1, CarriedSame, Zenon
    <3>2. ASSUME NEW k \in Len(dLog) .. Len(log), log' = SubSeq(log, 1, k) PROVE Carried(log')
      <4>1. log' \in Seq(Event) /\ \A i \in DOMAIN log' : i \in DOMAIN log /\ log'[i] = log[i]
        BY <2>4, <3>2
      <4> QED  BY <4>1, Zenon DEF Carried
    <3> QED  BY <2>2, <3>1, <3>2, Zenon
  <2>6. \A r \in survivors' : r[1] = s[1] /\ r[2] = s[2]
    BY <2>1, <2>2
  <2>7. TraceMove
    BY <1>1, <1>2, <2>2, <2>3, <2>5, <2>6, Zenon DEF TraceMove, Outcomes
  <2> QED  BY <2>7, TraceMoves, Zenon
<1>4. CASE Damage
  <2>1. /\ ledger' = NoLedger /\ survivors' = {<<ledger', journal'>>}
        /\ UNCHANGED <<journal, log, backups, dLog, pc, hand, status, batch, doubtful>>
    BY <1>4, Zenon DEF Damage, SyncDirectory, procs, history
  <2>2. Outcomes /\ Carried(log') /\ Carried(dLog') /\ BackupsFrom(journal.ledger)
    BY <2>1, CarriedSame, OutcomesSame, Zenon DEF BackupsFrom
  <2>3. <<ledger, journal>> \in survivors
    BY Zenon DEF DurabilityInv, HistoryInv
  <2>4. SourcedLedger(ledger')
    BY <2>1, Zenon DEF SourcedLedger
  <2>4a. SourcedJournal(journal')
    <3>1. <<ledger, journal>>[2] = journal
      BY Zenon
    <3> QED  BY <2>1, <2>3, <3>1, Zenon DEF SourcedJournal
  <2>5. \A r \in survivors' : r[1] = ledger' /\ r[2] = journal'
    BY <2>1
  <2>6. TraceMove
    BY <1>2, <2>1, <2>2, <2>4, <2>4a, <2>5, Zenon DEF TraceMove, Outcomes
  <2> QED  BY <2>6, TraceMoves, Zenon
<1>5. CASE UNCHANGED vars
  <2>1. UNCHANGED <<ledger, survivors, journal, log, backups, dLog, pc, hand, status, batch, doubtful>>
    BY <1>5, Zenon DEF vars, files, disk, procs, history
  <2>2. Outcomes /\ Carried(log') /\ Carried(dLog') /\ BackupsFrom(journal.ledger)
    BY <2>1, CarriedSame, OutcomesSame, Zenon DEF BackupsFrom
  <2>3. TraceMove
    BY <1>1, <1>2, <2>1, <2>2, Zenon DEF TraceMove, Outcomes
  <2> QED  BY <2>3, TraceMoves, Zenon
<1> QED
  BY <1>3, <1>4, <1>5, TraceQuiet, TraceApply, TracePrepare, Zenon DEF Next, Step

\* A store that was just created satisfies TraceInv.
LEMMA TraceInit == Init => TraceInv
<1> SUFFICES ASSUME Init PROVE TraceInv
  BY Zenon
<1>1. (\A s \in survivors : s[1] = EmptyLedger /\ s[2] = NoJournal) /\ \A p \in Proc : hand[p] = NoJournal
  BY DEF Init
<1>2. Recorded(log) /\ Recorded(dLog)
  <2>1. log = <<>> /\ dLog = <<>>
    BY Zenon DEF Init
  <2>2. <<>> \in Seq(Event) /\ DOMAIN <<>> = {}
    OBVIOUS
  <2> QED  BY <2>1, <2>2, Zenon DEF Recorded
<1>3. \A t \in Txn : Absent(t)
  BY <1>1, Records, StoreAssumption, SMTT(30) DEF Init, Absent, NoLedger
<1> QED  BY <1>1, <1>2, <1>3, Zenon DEF TraceInv, Batched, Init

\* transaction() raises only when nothing it prepared will take effect, for every
\* number of processes, transactions and incidents.
THEOREM RejectionIsClean == Spec => []RejectedHasNoEffect
<1>1. TypeInv /\ DurabilityInv /\ TraceInv => RejectedHasNoEffect
  <2> SUFFICES ASSUME TypeInv, DurabilityInv, TraceInv, NEW t \in Txn, status[t] = "error", t \notin doubtful
               PROVE  t \notin EffectiveLedger.txns /\ \A i \in DOMAIN log : log[i][1] # t
    BY Zenon DEF RejectedHasNoEffect
  <2>1. Absent(t) /\ <<ledger, journal>> \in survivors
    BY Zenon DEF TraceInv, Withheld, DurabilityInv, HistoryInv
  <2>2. t \notin ledger.txns /\ t \notin journal.ledger.txns /\ t \notin LatestBackup.txns
    BY <2>1, NotNewest, Zenon DEF Absent
  <2> QED  BY <2>1, <2>2, Zenon DEF Absent, EffectiveLedger, Replayed, Current
<1> QED
  BY <1>1, TypeInit, TypeStep, DurabilityInit, DurabilityStep, BackupsInit, BackupsStep, TraceInit, TraceStep, PTL DEF Spec
=============================================================================
