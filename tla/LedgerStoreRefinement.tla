----------------------- MODULE LedgerStoreRefinement ------------------------
(***************************************************************************)
(* The journal protocol of bk/storage.py implements the atomic ledger of   *)
(* AtomicLedger: each step commits, accepts, rejects or clears at one      *)
(* instant, or changes nothing a caller sees.                              *)
(***************************************************************************)
EXTENDS LedgerStoreTraces

\* The document and the journal of one directory state: the document that carries
\* the journal's id is the journal's own.
Paired(l, j) == j.ledger # NoLedger /\ l.last = j.id => l = j.ledger

\* Nobody is in reset() before the first reset() was called.
Unreset ==
    resets = 0 =>
        \A p \in Proc : op[p] # "reset" /\ pc[p] \notin {"unlinkLog", "unlinkJournal", "unlinkBackups"}

\* What the lock holder knows of the ledger: from the end of the recovery on the
\* document is what a recovery would produce, and a prepared document adds one
\* transaction to it.
MapAt(p) ==
    /\ pc[p] \in {"recovered", "journal", "log", "backup", "clear"} => EffectiveLedger = ledger
    /\ pc[p] = "journal" /\ hand[p].ledger # NoLedger =>
         hand[p].ledger.txns = ledger.txns \cup {hand[p].id}

\* The inductive invariant of the refinement, while ledger.json can be read: a power
\* loss brings back nothing that a recovery would not produce now.
MapInv ==
    /\ fellBack = FALSE
    /\ MaxResets = 0 => resets = 0
    /\ Unreset
    /\ \A s \in survivors :
         /\ s[1] # NoLedger /\ Paired(s[1], s[2])
         /\ resets = 0 => Replayed(s[1], s[2]).txns \subseteq EffectiveLedger.txns
    /\ \A p \in Proc : MapAt(p)
-----------------------------------------------------------------------------
(* The refinement of AtomicLedger.                                         *)

\* What a caller sees: the changes the ledger holds and the outcomes reported.
Deferred == {t \in accepted : status[t] = "warned"}
Rejected == {t \in Txn : status[t] = "error" /\ t \notin doubtful}
Simulated == [Abstract!Next]_<<EffectiveLedger.txns, Firm, Deferred, Rejected>>

\* A step that changes nothing a caller sees.
LEMMA Stutters ==
    ASSUME EffectiveLedger'.txns = EffectiveLedger.txns, Firm' = Firm, Deferred' = Deferred, Rejected' = Rejected
    PROVE  Simulated
BY Zenon DEF Simulated

\* The step that puts the change of a transaction into the ledger.
LEMMA Commits ==
    ASSUME NEW t \in Txn, t \notin EffectiveLedger.txns, t \notin Rejected,
           EffectiveLedger'.txns = EffectiveLedger.txns \cup {t}, Firm' = Firm, Deferred' = Deferred, Rejected' = Rejected
    PROVE  Simulated
<1>1. Abstract!Commit
  BY Zenon DEF Abstract!Commit, Firm, Deferred, Rejected
<1> QED  BY <1>1, Zenon DEF Simulated, Abstract!Next

\* The step that reports a change as committed, with or without a warning.
LEMMA Accepts ==
    ASSUME NEW t \in EffectiveLedger.txns, t \notin Firm \cup Deferred,
           EffectiveLedger'.txns = EffectiveLedger.txns, Rejected' = Rejected,
           \/ Firm' = Firm \cup {t} /\ Deferred' = Deferred
           \/ Deferred' = Deferred \cup {t} /\ Firm' = Firm
    PROVE  Simulated
<1>1. Abstract!Accept
  BY Zenon DEF Abstract!Accept, Firm, Deferred, Rejected
<1> QED  BY <1>1, Zenon DEF Simulated, Abstract!Next

\* The step that reports a transaction as failed.
LEMMA Rejects ==
    ASSUME NEW t \in Txn, t \notin EffectiveLedger.txns, t \notin Rejected,
           EffectiveLedger'.txns = EffectiveLedger.txns, Firm' = Firm, Deferred' = Deferred, Rejected' = Rejected \cup {t}
    PROVE  Simulated
<1>1. Abstract!Reject
  BY Zenon DEF Abstract!Reject, Firm, Deferred, Rejected
<1> QED  BY <1>1, Zenon DEF Simulated, Abstract!Next

\* A step of reset().
LEMMA Empties ==
    ASSUME EffectiveLedger'.txns \in {{}, EffectiveLedger.txns}, accepted' = {}, UNCHANGED <<status, doubtful>>
    PROVE  Simulated
<1>1. Abstract!Reset
  BY Zenon DEF Abstract!Reset
<1> QED  BY <1>1, Zenon DEF Simulated, Abstract!Next

\* A power loss.
LEMMA Loses ==
    ASSUME EffectiveLedger'.txns \subseteq EffectiveLedger.txns, Firm \subseteq EffectiveLedger'.txns,
           Firm' = Firm, Deferred' = {}, Rejected' = Rejected
    PROVE  Simulated
<1>1. Abstract!PowerLoss
  BY Zenon DEF Abstract!PowerLoss, Firm, Deferred, Rejected
<1> QED  BY <1>1, Zenon DEF Simulated, Abstract!Next

\* A step that reports nothing leaves the outcomes alone.
LEMMA NothingReported ==
    ASSUME UNCHANGED <<status, accepted, doubtful>>
    PROVE  Firm' = Firm /\ Deferred' = Deferred /\ Rejected' = Rejected
BY Zenon DEF Firm, Deferred, Rejected

\* The outcome of a transaction that a killed process had open stays unreported.
LEMMA NothingLearned ==
    ASSUME TypeInv, DurabilityInv, NEW D, Abandon(D, {}), UNCHANGED <<accepted, doubtful>>
    PROVE  Firm' = Firm /\ Deferred' = Deferred /\ Rejected' = Rejected
<1>1. \A t \in Txn : status'[t] = status[t] \/ (status[t] = "open" /\ status'[t] = "unknown")
  BY Zenon DEF Abandon
<1>2. \A t \in accepted : t \in Txn /\ status[t] \in {"ok", "warned"}
  BY Zenon DEF DurabilityInv, HistoryInv, TypeInv, TypeOK, HistoryTypeOK
<1>3. \A t \in accepted : status'[t] = status[t]
  BY <1>1, <1>2, Zenon
<1>4. \A t \in Txn : status'[t] = "error" <=> status[t] = "error"
  BY <1>1, Zenon
<1> QED  BY <1>3, <1>4, Zenon DEF Firm, Deferred, Rejected

\* A report adds the process's own transaction to the outcomes, when it carries a
\* change; an error is recorded unless it is in doubt.
LEMMA OneReported ==
    ASSUME TypeInv, DurabilityInv, NEW p \in Proc, hand[p] \in Journal, NEW h, h = hand[p].id, status[h] = "open",
           NEW o \in {"ok", "warned", "error"}, Report(p, o)
    PROVE  /\ h \in Txn /\ h \notin Firm \cup Deferred \cup Rejected
           /\ o \in {"ok", "warned"} /\ hand[p].ledger = NoLedger /\ UNCHANGED doubtful =>
                Firm' = Firm /\ Deferred' = Deferred /\ Rejected' = Rejected
           /\ o = "ok" /\ hand[p].ledger # NoLedger /\ UNCHANGED doubtful =>
                Firm' = Firm \cup {h} /\ Deferred' = Deferred /\ Rejected' = Rejected
           /\ o = "warned" /\ hand[p].ledger # NoLedger /\ UNCHANGED doubtful =>
                Firm' = Firm /\ Deferred' = Deferred \cup {h} /\ Rejected' = Rejected
           /\ o = "error" /\ h \notin doubtful /\ UNCHANGED doubtful =>
                Firm' = Firm /\ Deferred' = Deferred /\ Rejected' = Rejected \cup {h}
           /\ o = "error" /\ doubtful' = doubtful \cup {h} =>
                Firm' = Firm /\ Deferred' = Deferred /\ Rejected' = Rejected
<1>1. h \in Txn
  BY Records, Zenon
<1>2. \A t \in Txn : status'[t] = IF t = h THEN o ELSE status[t]
  BY <1>1, Zenon DEF Report, TypeInv, TypeOK, HistoryTypeOK
<1>3. accepted' = IF o # "error" /\ hand[p].ledger # NoLedger THEN accepted \cup {h} ELSE accepted
  BY Zenon DEF Report
<1>4. accepted \subseteq Txn /\ h \notin accepted
  BY Zenon DEF DurabilityInv, HistoryInv, TypeInv, TypeOK, HistoryTypeOK
<1>5. h \notin Firm \cup Deferred \cup Rejected
  BY <1>4, Zenon DEF Firm, Deferred, Rejected
<1>6. \A t \in accepted : status'[t] = status[t] /\ t # h
  BY <1>2, <1>4, Zenon
<1>7. accepted' = accepted => Firm' = Firm /\ Deferred' = Deferred
  BY <1>6, Zenon DEF Firm, Deferred
<1>8. accepted' = accepted \cup {h} /\ o = "ok" => Firm' = Firm \cup {h} /\ Deferred' = Deferred
  BY <1>1, <1>2, <1>6, Zenon DEF Firm, Deferred
<1>9. accepted' = accepted \cup {h} /\ o = "warned" => Firm' = Firm /\ Deferred' = Deferred \cup {h}
  BY <1>1, <1>2, <1>6, Zenon DEF Firm, Deferred
<1>10. o \in {"ok", "warned"} /\ UNCHANGED doubtful => Rejected' = Rejected
  BY <1>2, Zenon DEF Rejected
<1>11. o = "error" /\ h \notin doubtful /\ UNCHANGED doubtful => Rejected' = Rejected \cup {h}
  BY <1>1, <1>2, Zenon DEF Rejected
<1>12. o = "error" /\ doubtful' = doubtful \cup {h} => Rejected' = Rejected
  BY <1>2, Zenon DEF Rejected
<1> QED  BY <1>1, <1>3, <1>5, <1>7, <1>8, <1>9, <1>10, <1>11, <1>12, Zenon

\* While ledger.json can be read, the files determine the ledger without the backups.
LEMMA Readable ==
    ASSUME DurabilityInv, MapInv
    PROVE  /\ <<ledger, journal>> \in survivors /\ ledger # NoLedger /\ Paired(ledger, journal)
           /\ Current = ledger /\ EffectiveLedger = Replayed(ledger, journal)
<1>1. <<ledger, journal>> \in survivors
  BY Zenon DEF DurabilityInv, HistoryInv
<1>2. ledger # NoLedger /\ Paired(ledger, journal)
  BY <1>1, Zenon DEF MapInv
<1> QED  BY <1>1, <1>2, Zenon DEF Current, EffectiveLedger

\* With no read faults, every load returns ledger.json.
LEMMA ReadsLedger ==
    ASSUME MaxReadFaults = 0, TypeInv, DurabilityInv, MapInv, NEW v, LoadUnlocked(v)
    PROVE  v = ledger /\ UNCHANGED <<readFaults, fellBack>>
<1>1. readFaults \in Nat /\ ~ReadFault
  BY DEF TypeInv, TypeOK, HistoryTypeOK, ReadFault
<1> QED  BY <1>1, Readable, Zenon DEF LoadUnlocked

\* Only a call of reset() counts as one, and its steps come after it.
LEMMA UnresetStep ==
    ASSUME TypeInv, DurabilityInv, Unreset, NEW p \in Proc, Step(p)
    PROVE  Unreset' /\ resets' >= resets /\ (MaxResets = 0 => resets' = resets)
<1> DEFINE Removing == {"unlinkLog", "unlinkJournal", "unlinkBackups"}
           New == {op, [op EXCEPT ![p] = "none"], [op EXCEPT ![p] = "transaction"], [op EXCEPT ![p] = "load"]}
<1>1. resets \in Nat /\ pc = [q \in Proc |-> pc[q]] /\ op = [q \in Proc |-> op[q]]
  BY Zenon DEF TypeInv, TypeOK, HistoryTypeOK, ProcsTypeOK
<1>2. \/ resets' = resets + 1 /\ resets < MaxResets
      \/ resets' = resets /\ op' \in New
  <2>1. CASE Begin(p)
    BY <2>1, Zenon DEF Begin
  <2>2. CASE \/ Acquire(p) \/ LockTimeout(p) \/ RecoverFails(p) \/ ApplyLedger(p)
            \/ AppendLogs(p) \/ Backup(p) \/ WriteJournal(p)
    BY <2>2, Zenon DEF Acquire, LockTimeout, RecoverFails, ApplyLedger, AppendLogs, Backup,
                      WriteJournal, bounds, env
  <2>3. CASE ApplyLedgerFails(p) \/ AppendLogsFails(p)
    BY <2>3, Zenon DEF ApplyLedgerFails, AppendLogsFails, ApplyFailed, Return, bounds, env
  <2>4. CASE ClearJournal(p)
    BY <2>4, Zenon DEF ClearJournal, Return, env
  <2>5. CASE Mutate(p)
    BY <2>5, Zenon DEF Mutate, Prepare, Return, env
  <2>6. CASE WriteJournalFails(p)
    BY <2>6, Zenon DEF WriteJournalFails, Return, env
  <2>7. CASE Reread(p) \/ ResetFails(p) \/ ResetBackups(p) \/ Crash(p)
    BY <2>7, Zenon DEF Reread, ResetFails, ResetBackups, Crash, Return, bounds, env
  <2>8. CASE Recovered(p) \/ Read(p) \/ LoadReturns(p)
    BY <2>8, Zenon DEF Recovered, Read, LoadReturns, bounds, env
  <2>9. CASE ResetLedger(p) \/ ResetLog(p) \/ ResetJournal(p)
    BY <2>9, Zenon DEF ResetLedger, ResetLog, ResetJournal, Return, bounds, env
  <2> HIDE DEF New
  <2> QED  BY <2>1, <2>2, <2>3, <2>4, <2>5, <2>6, <2>7, <2>8, <2>9, Zenon DEF Step
<1>3. resets' >= resets /\ (MaxResets = 0 => resets' = resets)
  BY <1>1, <1>2
<1>4. ASSUME resets' = 0, NEW q \in Proc PROVE op'[q] # "reset" /\ pc'[q] \notin Removing
  <2>1. resets = 0 /\ op' \in New
    BY <1>1, <1>2, <1>4
  <2>2. \A r \in Proc : op[r] # "reset" /\ pc[r] \notin Removing
    BY <2>1, Zenon DEF Unreset
  <2>3. op'[q] # "reset"
    BY <1>1, <2>1, <2>2, Zenon
  <2>4. ~(ResetLedger(p) \/ ResetLog(p) \/ ResetJournal(p))
    BY <2>2, Zenon DEF ResetLedger, ResetLog, ResetJournal, At
  <2>5. PICK l : Goto(p, l) /\ l \notin Removing
    BY <2>4, Moves, Zenon
  <2>6. pc'[q] \notin Removing
    BY <1>1, <2>2, <2>5, Zenon DEF Goto
  <2> QED  BY <2>3, <2>6, Zenon
<1> QED  BY <1>3, <1>4, Zenon DEF Unreset

\* A step of process p keeps MapInv: it may write a pair of files that fit together,
\* it takes no change back unless reset() was called, and it leaves the ledger as
\* recovered where the code relies on that.
LEMMA MapBy ==
    ASSUME TypeInv, DurabilityInv, MapInv, NEW p \in Proc, Step(p), NEW l, Goto(p, l), UNCHANGED fellBack,
           ledger' # NoLedger, Paired(ledger', journal'),
           survivors' \subseteq survivors \cup {<<ledger', journal'>>},
           resets = 0 => EffectiveLedger.txns \subseteq EffectiveLedger'.txns,
           l \in {"recovered", "journal", "log", "backup", "clear"} => EffectiveLedger' = ledger',
           l = "journal" /\ hand'[p].ledger # NoLedger =>
               hand'[p].ledger.txns = ledger'.txns \cup {hand'[p].id}
    PROVE  MapInv'
<1>1. Unreset' /\ resets \in Nat /\ resets' \in Nat /\ resets' >= resets /\ (MaxResets = 0 => resets' = resets)
  <2>1. resets \in Nat /\ resets' \in Nat
    BY TypeStep, Zenon DEF Next, TypeInv, TypeOK, HistoryTypeOK
  <2> QED  BY <2>1, UnresetStep, Zenon DEF MapInv
<1>2. EffectiveLedger' = Replayed(ledger', journal')
  BY Zenon DEF EffectiveLedger, Current
<1>3. ASSUME NEW s \in survivors'
      PROVE  /\ s[1] # NoLedger /\ Paired(s[1], s[2])
             /\ resets' = 0 => Replayed(s[1], s[2]).txns \subseteq EffectiveLedger'.txns
  <2>1. CASE s \in survivors
    <3>1. resets' = 0 => resets = 0
      BY <1>1
    <3> QED  BY <2>1, <3>1, Zenon DEF MapInv
  <2>2. CASE s = <<ledger', journal'>>
    BY <1>2, <2>2, Zenon
  <2> QED  BY <2>1, <2>2, Zenon
<1>4. pc'[p] = l /\ \A q \in Proc \ {p} : pc'[q] = pc[q]
  BY Zenon DEF Goto, TypeInv, TypeOK, ProcsTypeOK
<1>5. MapAt(p)'
  BY <1>4, Zenon DEF MapAt
<1>6. ASSUME NEW q \in Proc, q # p PROVE MapAt(q)'
  <2>1. MapAt(q) /\ pc'[q] = pc[q]
    BY <1>4, <1>6, Zenon DEF MapInv
  <2>2. CASE pc[q] \notin Critical
    BY <2>1, <2>2, Zenon DEF MapAt, Critical, Holding
  <2>3. CASE pc[q] \in Critical
    <3>1. UNCHANGED <<ledger, journal, backups, hand>>
      BY <1>6, <2>3, Bystander, Zenon DEF files
    <3>2. EffectiveLedger' = EffectiveLedger
      BY <3>1, Zenon DEF EffectiveLedger, Current, LatestBackup
    <3> QED  BY <2>1, <3>1, <3>2, Zenon DEF MapAt
  <2> QED  BY <2>2, <2>3, Zenon
<1>7. fellBack' = FALSE /\ (MaxResets = 0 => resets' = 0)
  BY <1>1, Zenon DEF MapInv
<1> QED  BY <1>1, <1>3, <1>5, <1>6, <1>7, Zenon DEF MapInv

\* The ledger is what it was when the files are.
LEMMA SameLedger ==
    ASSUME DurabilityInv, MapInv, UNCHANGED <<ledger, journal>>
    PROVE  EffectiveLedger' = EffectiveLedger /\ ledger' # NoLedger /\ Paired(ledger', journal')
BY Readable, Zenon DEF EffectiveLedger, Current

\* Applying the journal to ledger.json leaves the ledger what it was.
LEMMA AppliedLedger ==
    ASSUME DurabilityInv, MapInv, UNCHANGED journal, journal.ledger # NoLedger, ledger.last # journal.id,
           ledger' = journal.ledger
    PROVE  /\ EffectiveLedger' = EffectiveLedger /\ EffectiveLedger' = ledger'
           /\ ledger' # NoLedger /\ Paired(ledger', journal')
BY Readable, Zenon DEF EffectiveLedger, Current, Replayed, Paired

\* Unlinking a journal that was applied leaves the ledger what it was.
LEMMA ClearedJournal ==
    ASSUME DurabilityInv, MapInv, EffectiveLedger = ledger, UNCHANGED ledger, journal' \in {journal, NoJournal}
    PROVE  /\ EffectiveLedger' = EffectiveLedger /\ EffectiveLedger' = ledger'
           /\ ledger' # NoLedger /\ Paired(ledger', journal')
<1>1. CASE journal' = journal
  BY <1>1, SameLedger, Zenon
<1>2. CASE journal' = NoJournal
  <2>1. Replayed(ledger', journal') = ledger /\ Paired(ledger', journal')
    BY <1>2, Records, Zenon DEF Replayed, Paired
  <2> QED  BY <2>1, Readable, Zenon DEF EffectiveLedger, Current
<1> QED  BY <1>1, <1>2, Zenon

\* A transaction that has put nothing on disk is in no ledger.
LEMMA NotYet ==
    ASSUME TypeInv, DurabilityInv, TraceInv, MapInv, NEW p \in Proc, pc[p] = "journal", NEW h, h = hand[p].id
    PROVE  /\ h \in Txn /\ hand[p] \in Journal /\ status[h] = "open" /\ h \notin doubtful
           /\ h \notin EffectiveLedger.txns /\ h \notin Rejected /\ EffectiveLedger = ledger
<1>1. hand[p] \in Journal /\ h \in Txn /\ status[h] = "open" /\ EffectiveLedger = ledger
  BY Inside, Records, Zenon DEF HandOK, Critical, Holding, MapInv, MapAt
<1>2. Absent(h) /\ h \notin doubtful
  BY <1>1, Zenon DEF TraceInv, Withheld
<1>3. h \notin ledger.txns
  BY <1>2, Readable, Zenon DEF Absent
<1> QED  BY <1>1, <1>2, <1>3, Zenon DEF Rejected

\* The rename of the journal is the instant at which a transaction takes effect.
LEMMA JournalCommits ==
    ASSUME TypeInv, DurabilityInv, TraceInv, MapInv, NEW p \in Proc, pc[p] = "journal",
           journal' = hand[p], UNCHANGED ledger, Firm' = Firm, Deferred' = Deferred, Rejected' = Rejected
    PROVE  /\ Simulated /\ EffectiveLedger.txns \subseteq EffectiveLedger'.txns
           /\ ledger' # NoLedger /\ Paired(ledger', journal')
<1> DEFINE h == hand[p].id
<1>1. /\ h \in Txn /\ hand[p] \in Journal /\ status[h] = "open"
      /\ h \notin EffectiveLedger.txns /\ h \notin Rejected /\ EffectiveLedger = ledger
  BY NotYet, Zenon
<1>2. ledger.last # h /\ (hand[p].ledger # NoLedger => hand[p].ledger.txns = ledger.txns \cup {h})
  BY <1>1, Inside, Records, Zenon DEF HandOK, Own, Critical, Holding, MapInv, MapAt
<1>3. ledger' # NoLedger /\ Paired(ledger', journal') /\ EffectiveLedger' = Replayed(ledger, hand[p])
  BY <1>2, Readable, Zenon DEF Paired, EffectiveLedger, Current
<1>4. CASE hand[p].ledger = NoLedger
  <2>1. EffectiveLedger' = ledger
    BY <1>3, <1>4, Zenon DEF Replayed
  <2> QED  BY <1>1, <1>3, <2>1, Stutters, Zenon
<1>5. CASE hand[p].ledger # NoLedger
  <2>1. EffectiveLedger'.txns = EffectiveLedger.txns \cup {h}
    BY <1>1, <1>2, <1>3, <1>5, Zenon DEF Replayed
  <2> QED  BY <1>1, <1>3, <2>1, Commits, Zenon
<1> QED  BY <1>4, <1>5, Zenon

\* Once its journal is in place, the change of a transaction is in the ledger.
LEMMA JournalCounts ==
    ASSUME TypeInv, DurabilityInv, MapInv, NEW p \in Proc, pc[p] \in Holding \ {"journal"}, hand[p].ledger # NoLedger
    PROVE  hand[p].id \in EffectiveLedger.txns
<1>1. hand[p] = journal /\ Stamped(journal)
  BY Inside, Zenon DEF HandOK, Critical
<1>2. journal.id \in journal.ledger.txns
  BY <1>1, Zenon DEF Stamped
<1>3. EffectiveLedger = journal.ledger
  BY <1>1, Readable, Zenon DEF Replayed, Paired
<1> QED  BY <1>1, <1>2, <1>3, Zenon

\* A report on a transaction whose journal is in place is an Accept, or a stutter
\* when it carries no change.
LEMMA ReportAccepts ==
    ASSUME TypeInv, DurabilityInv, MapInv, NEW p \in Proc, pc[p] \in Holding \ {"journal"}, Own(p),
           NEW o \in {"ok", "warned"}, Report(p, o), UNCHANGED doubtful, EffectiveLedger' = EffectiveLedger
    PROVE  Simulated
<1> DEFINE h == hand[p].id
<1>1. hand[p] \in Journal /\ status[h] = "open"
  BY Inside, Zenon DEF Own, Critical
<1>2. /\ h \in Txn /\ h \notin Firm \cup Deferred
      /\ hand[p].ledger = NoLedger => Firm' = Firm /\ Deferred' = Deferred /\ Rejected' = Rejected
      /\ hand[p].ledger # NoLedger =>
           /\ Rejected' = Rejected
           /\ \/ Firm' = Firm \cup {h} /\ Deferred' = Deferred
              \/ Deferred' = Deferred \cup {h} /\ Firm' = Firm
  BY <1>1, OneReported, Zenon
<1> HIDE DEF h
<1>3. CASE hand[p].ledger = NoLedger
  BY <1>2, <1>3, Stutters, Zenon
<1>4. CASE hand[p].ledger # NoLedger
  <2>1. h \in EffectiveLedger.txns
    BY <1>4, JournalCounts, Zenon DEF h
  <2> QED  BY <1>2, <1>4, <2>1, Accepts, Zenon
<1> QED  BY <1>3, <1>4, Zenon

\* A failed application reports the own transaction as accepted with a warning.
LEMMA ApplyFailedAccepts ==
    ASSUME TypeInv, DurabilityInv, MapInv, NEW p \in Proc, pc[p] \in Holding \ {"journal"}, ApplyFailed(p),
           EffectiveLedger' = EffectiveLedger
    PROVE  Simulated
<1>1. CASE Own(p)
  BY <1>1, ReportAccepts, Zenon DEF ApplyFailed
<1>2. CASE ~Own(p)
  <2>1. UNCHANGED <<status, accepted, doubtful>>
    BY <1>2, Zenon DEF ApplyFailed
  <2> QED  BY <2>1, NothingReported, Stutters, Zenon
<1> QED  BY <1>1, <1>2, Zenon

\* The steps that change neither the files that hold the ledger nor an outcome.
LEMMA QuietStutters ==
    ASSUME MaxReadFaults = 0, TypeInv, DurabilityInv, TraceInv, MapInv, NEW p \in Proc,
           \/ Begin(p) \/ Acquire(p) \/ LockTimeout(p) \/ RecoverFails(p) \/ Recovered(p) \/ Read(p) \/ LoadReturns(p)
           \/ AppendLogs(p) \/ Backup(p) \/ ResetFails(p) \/ ResetLog(p) \/ ResetBackups(p)
    PROVE  MapInv' /\ Simulated
<1>1. /\ UNCHANGED <<ledger, journal, status, accepted, doubtful>>
      /\ survivors' \subseteq survivors \cup {<<ledger', journal'>>}
  <2>1. CASE Begin(p) \/ Acquire(p) \/ LockTimeout(p) \/ RecoverFails(p) \/ Recovered(p) \/ Read(p) \/ LoadReturns(p)
    BY <2>1, Zenon DEF Begin, Acquire, LockTimeout, RecoverFails, Recovered, Read, LoadReturns, files, disk, history
  <2>2. CASE AppendLogs(p) \/ Backup(p)
    BY <2>2, Zenon DEF AppendLogs, Backup, disk, history, SyncDirectory
  <2>3. CASE ResetFails(p) \/ ResetLog(p) \/ ResetBackups(p)
    BY <2>3, Zenon DEF ResetFails, ResetLog, ResetBackups, files, disk, history, SyncDirectory
  <2> QED  BY <2>1, <2>2, <2>3, Zenon
<1>2. EffectiveLedger' = EffectiveLedger /\ ledger' # NoLedger /\ Paired(ledger', journal')
  BY <1>1, SameLedger, Zenon
<1>3. Simulated
  BY <1>1, <1>2, NothingReported, Stutters, Zenon
<1>4. UNCHANGED fellBack
  <2>1. CASE Read(p)
    BY <2>1, ReadsLedger, Zenon DEF Read
  <2>2. CASE ~Read(p)
    BY <2>2, Zenon DEF Begin, Acquire, LockTimeout, RecoverFails, Recovered, LoadReturns, AppendLogs,
                      Backup, ResetFails, ResetLog,
                ResetBackups, incidents
  <2> QED  BY <2>1, <2>2, Zenon
<1>5. MapAt(p)
  BY Zenon DEF MapInv
<1>6. Step(p)
  BY Zenon DEF Step
<1>7. \E l : Goto(p, l) /\ l # "journal" /\ (l \in {"recovered", "log", "backup", "clear"} => EffectiveLedger = ledger)
  <2>1. CASE Begin(p) \/ LockTimeout(p) \/ RecoverFails(p) \/ Recovered(p) \/ Read(p) \/ LoadReturns(p)
    <3>1. Goto(p, "lock") \/ Goto(p, "read") \/ Goto(p, "idle") \/ Goto(p, "loaded")
      BY <2>1, Zenon DEF Begin, LoadEntry, LockTimeout, RecoverFails, Recovered, Read, LoadReturns
    <3> QED  BY <3>1
  <2>2. CASE Acquire(p)
    <3>1. (journal = NoJournal /\ Goto(p, "recovered")) \/ Goto(p, "ledger")
      BY <2>2, Zenon DEF Acquire
    <3>2. journal = NoJournal => EffectiveLedger = ledger
      BY Readable, Records, Zenon DEF Replayed
    <3> QED  BY <3>1, <3>2
  <2>3. CASE AppendLogs(p) \/ Backup(p)
    <3>1. EffectiveLedger = ledger
      BY <1>5, <2>3, Zenon DEF MapAt, AppendLogs, Backup, At
    <3>2. Goto(p, "backup") \/ Goto(p, "clear")
      BY <2>3, Zenon DEF AppendLogs, AfterLogs, Backup
    <3> QED  BY <3>1, <3>2, Zenon
  <2>4. CASE ResetFails(p) \/ ResetBackups(p)
    BY <2>4, SMTT(30) DEF ResetFails, ResetBackups, Return
  <2>5. CASE ResetLog(p)
    BY <2>5 DEF ResetLog
  <2> QED  BY <2>1, <2>2, <2>3, <2>4, <2>5, Zenon
<1>8. MapInv'
  BY <1>1, <1>2, <1>4, <1>6, <1>7, MapBy, Zenon
<1> QED  BY <1>3, <1>8, Zenon

\* Applying, clearing and reporting are stutters or Accept steps.
LEMMA ApplyRefines ==
    ASSUME MaxReadFaults = 0, TypeInv, DurabilityInv, TraceInv, MapInv, NEW p \in Proc,
           \/ ApplyLedger(p) \/ ApplyLedgerFails(p) \/ AppendLogsFails(p) \/ ClearJournal(p) \/ Reread(p)
    PROVE  MapInv' /\ Simulated
<1>1. Step(p) /\ MapAt(p)
  BY Zenon DEF Step, MapInv
<1>2. pc[p] \in {"ledger", "log", "clear", "reread"} /\ UNCHANGED fellBack
  <2>1. CASE ApplyLedger(p)
    BY <2>1, ReadsLedger, Zenon DEF ApplyLedger, At
  <2>2. CASE ~ApplyLedger(p)
    BY <2>2, Zenon DEF ApplyLedgerFails, AppendLogsFails, ClearJournal, Reread, At, incidents
  <2> QED  BY <2>1, <2>2, Zenon
<1>3. hand[p] = journal /\ pc[p] \in Holding \ {"journal"}
  BY <1>2, Inside, Zenon DEF HandOK, Critical, Holding
<1>4. survivors' \subseteq survivors \cup {<<ledger', journal'>>}
  <2>1. CASE ApplyLedger(p) \/ ApplyLedgerFails(p)
    BY <2>1, Zenon DEF ApplyLedger, ApplyLedgerFails, SyncDirectory, UnsyncedDirectory
  <2>2. CASE AppendLogsFails(p) \/ ClearJournal(p) \/ Reread(p)
    BY <2>2, Zenon DEF AppendLogsFails, ClearJournal, Reread, disk, SyncDirectory, UnsyncedDirectory
  <2> QED  BY <2>1, <2>2, Zenon
<1>5. ASSUME EffectiveLedger' = EffectiveLedger, ledger' # NoLedger, Paired(ledger', journal'), Goto(p, "idle")
      PROVE  MapInv'
  BY <1>1, <1>2, <1>4, <1>5, MapBy, Zenon
<1>6. CASE ApplyLedger(p)
  <2>1. Goto(p, "log") /\ UNCHANGED <<status, accepted, doubtful>>
    BY <1>6, Zenon DEF ApplyLedger, history
  <2>2. \/ journal.ledger = NoLedger /\ UNCHANGED <<ledger, journal>>
        \/ journal.ledger # NoLedger /\ ledger.last = journal.id /\ UNCHANGED <<ledger, journal>>
        \/ journal.ledger # NoLedger /\ ledger.last # journal.id /\ ledger' = journal.ledger /\ UNCHANGED journal
    <3>1. CASE hand[p].ledger = NoLedger
      BY <1>3, <1>6, <3>1, Zenon DEF ApplyLedger
    <3>2. ASSUME NEW v, LoadUnlocked(v), UNCHANGED journal, hand[p].ledger # NoLedger,
                 IF v.last = hand[p].id
                 THEN UNCHANGED <<ledger, survivors>>
                 ELSE ledger' = hand[p].ledger /\ SyncDirectory
          PROVE  \/ ledger.last = journal.id /\ UNCHANGED <<ledger, journal>>
                 \/ ledger.last # journal.id /\ ledger' = journal.ledger /\ UNCHANGED journal
      <4>1. v = ledger
        BY <3>2, ReadsLedger, Zenon
      <4> QED  BY <1>3, <3>2, <4>1, Zenon
    <3> QED  BY <1>3, <1>6, <3>1, <3>2, Zenon DEF ApplyLedger
  <2>3. /\ EffectiveLedger' = EffectiveLedger /\ EffectiveLedger' = ledger'
        /\ ledger' # NoLedger /\ Paired(ledger', journal')
    <3>1. CASE UNCHANGED <<ledger, journal>>
      BY <2>2, <3>1, Readable, SameLedger, Zenon DEF Replayed, Paired
    <3>2. CASE ledger' = journal.ledger /\ UNCHANGED journal /\ journal.ledger # NoLedger /\ ledger.last # journal.id
      BY <3>2, AppliedLedger, Zenon
    <3> QED  BY <2>2, <3>1, <3>2, Zenon
  <2>4. Simulated
    BY <2>1, <2>3, NothingReported, Stutters, Zenon
  <2>5. MapInv'
    BY <1>1, <1>2, <1>4, <2>1, <2>3, MapBy, Zenon
  <2> QED  BY <2>4, <2>5, Zenon
<1>7. CASE ApplyLedgerFails(p)
  <2>1. /\ ApplyFailed(p) /\ Goto(p, "idle") /\ UNCHANGED journal /\ journal.ledger # NoLedger
        /\ UNCHANGED ledger \/ (Current.last # journal.id /\ ledger' = journal.ledger)
    BY <1>3, <1>7, Zenon DEF ApplyLedgerFails, ApplyFailed, Return
  <2>2. EffectiveLedger' = EffectiveLedger /\ ledger' # NoLedger /\ Paired(ledger', journal')
    BY <2>1, SameLedger, AppliedLedger, Readable, Zenon
  <2> QED  BY <1>3, <1>5, <2>1, <2>2, ApplyFailedAccepts, Zenon
<1>8. CASE AppendLogsFails(p)
  <2>1. ApplyFailed(p) /\ Goto(p, "idle") /\ UNCHANGED <<ledger, journal>>
    BY <1>8, Zenon DEF AppendLogsFails, ApplyFailed, Return
  <2>2. EffectiveLedger' = EffectiveLedger /\ ledger' # NoLedger /\ Paired(ledger', journal')
    BY <2>1, SameLedger, Zenon
  <2> QED  BY <1>3, <1>5, <2>1, <2>2, ApplyFailedAccepts, Zenon
<1>9. CASE ClearJournal(p)
  <2>1. pc[p] = "clear" /\ UNCHANGED <<ledger, doubtful>> /\ journal' \in {journal, NoJournal}
    BY <1>9, Zenon DEF ClearJournal, At
  <2>2. EffectiveLedger = ledger
    BY <1>1, <2>1, Zenon DEF MapAt
  <2>3. /\ EffectiveLedger' = EffectiveLedger /\ EffectiveLedger' = ledger'
        /\ ledger' # NoLedger /\ Paired(ledger', journal')
    BY <2>1, <2>2, ClearedJournal, Zenon
  <2>4. CASE Own(p)
    <3>1. Report(p, "ok") /\ Goto(p, "idle")
      BY <1>9, <2>4, Zenon DEF ClearJournal, Return
    <3> QED  BY <1>3, <1>5, <2>1, <2>3, <2>4, <3>1, ReportAccepts, Zenon
  <2>5. CASE ~Own(p)
    <3>1. Goto(p, "recovered") /\ UNCHANGED <<status, accepted>>
      BY <1>9, <2>5, Zenon DEF ClearJournal
    <3>2. Simulated
      BY <2>1, <2>3, <3>1, NothingReported, Stutters, Zenon
    <3>3. MapInv'
      BY <1>1, <1>2, <1>4, <2>3, <3>1, MapBy, Zenon
    <3> QED  BY <3>2, <3>3, Zenon
  <2> QED  BY <2>4, <2>5, Zenon
<1>10. CASE Reread(p)
  <2>1. pc[p] = "reread" /\ UNCHANGED <<ledger, journal>> /\ Goto(p, "idle")
    BY <1>10, Zenon DEF Reread, At, files, Return
  <2>2. EffectiveLedger' = EffectiveLedger /\ ledger' # NoLedger /\ Paired(ledger', journal')
    BY <2>1, SameLedger, Zenon
  <2>3. PICK h : h = hand[p].id
    BY Zenon
  <2>4. hand[p] \in Journal /\ status[h] = "open" /\ Own(p)
    BY <2>1, <2>3, Inside, Records, Zenon DEF HandOK, Critical, Holding, Own
  <2>5. CASE Report(p, "warned") /\ UNCHANGED doubtful
    BY <1>3, <1>5, <2>1, <2>2, <2>4, <2>5, ReportAccepts, Zenon
  <2>6. CASE Report(p, "error") /\ doubtful' = doubtful \cup {h}
    <3>1. Firm' = Firm /\ Deferred' = Deferred /\ Rejected' = Rejected
      BY <2>3, <2>4, <2>6, OneReported, Zenon
    <3> QED  BY <1>5, <2>1, <2>2, <3>1, Stutters, Zenon
  <2> QED  BY <1>10, <2>3, <2>5, <2>6, Zenon DEF Reread
<1> QED  BY <1>6, <1>7, <1>8, <1>9, <1>10, Zenon

\* A step of transaction() up to the rename of the journal: preparing is a stutter,
\* the rename is the Commit, a write that fails before it is the Reject.
LEMMA WriteRefines ==
    ASSUME MaxReadFaults = 0, TypeInv, DurabilityInv, TraceInv, MapInv, NEW p \in Proc,
           Mutate(p) \/ WriteJournal(p) \/ WriteJournalFails(p)
    PROVE  MapInv' /\ Simulated
<1>1. Step(p) /\ MapAt(p)
  BY Zenon DEF Step, MapInv
<1>2. CASE Mutate(p)
  <2>1. pc[p] = "recovered" /\ UNCHANGED <<ledger, journal, survivors, accepted, doubtful>>
    BY <1>2, Zenon DEF Mutate, At, files, disk
  <2>2. EffectiveLedger' = EffectiveLedger /\ ledger' # NoLedger /\ Paired(ledger', journal') /\ EffectiveLedger = ledger
    BY <1>1, <2>1, SameLedger, Zenon DEF MapAt
  <2>3. PICK v : /\ LoadUnlocked(v)
                 /\ \/ Return(p) /\ UNCHANGED <<status, batch>>
                    \/ \E t \in Txn, changed \in BOOLEAN, n \in 0 .. MaxLogs : Prepare(p, v, t, changed, n)
    BY <1>2, Zenon DEF Mutate
  <2>4. v = ledger /\ UNCHANGED fellBack
    BY <2>3, ReadsLedger, Zenon
  <2>5. CASE Return(p) /\ UNCHANGED <<status, batch>>
    <3>1. Simulated
      BY <2>1, <2>2, <2>5, NothingReported, Stutters, Zenon
    <3>2. MapInv'
      BY <1>1, <2>1, <2>2, <2>4, <2>5, MapBy, Zenon DEF Return
    <3> QED  BY <3>1, <3>2, Zenon
  <2>6. ASSUME NEW u \in Txn, NEW changed \in BOOLEAN, NEW n \in 0 .. MaxLogs, Prepare(p, v, u, changed, n)
        PROVE  MapInv' /\ Simulated
    <3> DEFINE d == IF changed THEN [last |-> u, txns |-> v.txns \cup {u}] ELSE NoLedger
               h == [id |-> u, ledger |-> d, logs |-> [i \in 1 .. n |-> <<u, i>>]]
    <3>1. /\ status[u] = "new" /\ hand' = [hand EXCEPT ![p] = h]
          /\ status' = [status EXCEPT ![u] = "open"] /\ Goto(p, "journal")
      BY <2>6, Zenon DEF Prepare
    <3>2. h.id = u /\ h.ledger = d /\ (d # NoLedger => d.txns = v.txns \cup {u})
      BY Zenon
    <3> HIDE DEF d, h
    <3>3. hand'[p] = h /\ \A t \in Txn : status'[t] = IF t = u THEN "open" ELSE status[t]
      BY <3>1, Zenon DEF TypeInv, TypeOK, ProcsTypeOK, HistoryTypeOK
    <3>4. \A t \in accepted : t \in Txn /\ status[t] \in {"ok", "warned"}
      BY Zenon DEF DurabilityInv, HistoryInv, TypeInv, TypeOK, HistoryTypeOK
    <3>5. Firm' = Firm /\ Deferred' = Deferred
      BY <2>1, <3>1, <3>3, <3>4, Zenon DEF Firm, Deferred
    <3>6. Rejected' = Rejected
      BY <2>1, <3>1, <3>3 DEF Rejected
    <3>7. Simulated
      BY <2>2, <3>5, <3>6, Stutters, Zenon
    <3>8. hand'[p].ledger # NoLedger => hand'[p].ledger.txns = ledger'.txns \cup {hand'[p].id}
      BY <2>1, <2>4, <3>2, <3>3, Zenon
    <3>9. MapInv'
      BY <1>1, <2>1, <2>2, <2>4, <3>1, <3>8, MapBy, Zenon
    <3> QED  BY <3>7, <3>9, Zenon
  <2> QED  BY <2>3, <2>5, <2>6, Zenon
<1>3. CASE WriteJournal(p)
  <2>1. /\ pc[p] = "journal" /\ journal' = hand[p] /\ Goto(p, "ledger") /\ survivors' = {<<ledger', journal'>>}
        /\ UNCHANGED <<ledger, status, accepted, doubtful, fellBack>>
    BY <1>3, Zenon DEF WriteJournal, At, SyncDirectory, history, incidents
  <2>2. /\ Simulated /\ EffectiveLedger.txns \subseteq EffectiveLedger'.txns
        /\ ledger' # NoLedger /\ Paired(ledger', journal')
    BY <2>1, JournalCommits, NothingReported, Zenon
  <2>3. MapInv'
    BY <1>1, <2>1, <2>2, MapBy, Zenon
  <2> QED  BY <2>2, <2>3, Zenon
<1>4. CASE WriteJournalFails(p)
  <2>1. /\ pc[p] = "journal" /\ survivors' = survivors \cup {<<ledger', journal'>>}
        /\ UNCHANGED <<ledger, doubtful, fellBack>>
    BY <1>4, Zenon DEF WriteJournalFails, At, UnsyncedDirectory, incidents
  <2>2. CASE Return(p) /\ Report(p, "error") /\ UNCHANGED journal
    <3>1. PICK h : h = hand[p].id
      BY Zenon
    <3>2. /\ h \in Txn /\ hand[p] \in Journal /\ status[h] = "open" /\ h \notin doubtful
          /\ h \notin EffectiveLedger.txns /\ h \notin Rejected
      BY <2>1, <3>1, NotYet, Zenon
    <3>3. Firm' = Firm /\ Deferred' = Deferred /\ Rejected' = Rejected \cup {h}
      BY <2>1, <2>2, <3>1, <3>2, OneReported, Zenon
    <3>4. EffectiveLedger' = EffectiveLedger /\ ledger' # NoLedger /\ Paired(ledger', journal')
      BY <2>1, <2>2, SameLedger, Zenon
    <3>5. Simulated
      BY <3>2, <3>3, <3>4, Rejects, Zenon
    <3>6. MapInv'
      BY <1>1, <2>1, <2>2, <3>4, MapBy, Zenon DEF Return
    <3> QED  BY <3>5, <3>6, Zenon
  <2>3. CASE journal' = hand[p] /\ Goto(p, "reread") /\ UNCHANGED <<status, accepted>>
    <3>1. /\ Simulated /\ EffectiveLedger.txns \subseteq EffectiveLedger'.txns
          /\ ledger' # NoLedger /\ Paired(ledger', journal')
      BY <2>1, <2>3, JournalCommits, NothingReported, Zenon
    <3>2. MapInv'
      BY <1>1, <2>1, <2>3, <3>1, MapBy, Zenon
    <3> QED  BY <3>1, <3>2, Zenon
  <2> QED  BY <1>4, <2>2, <2>3, Zenon DEF WriteJournalFails
<1> QED  BY <1>2, <1>3, <1>4, Zenon

\* The steps of reset() that touch the ledger empty it or leave it.
LEMMA ResetRefines ==
    ASSUME MaxReadFaults = 0, TypeInv, DurabilityInv, EraseInv, MapInv, NEW p \in Proc,
           ResetLedger(p) \/ ResetJournal(p)
    PROVE  MapInv' /\ Simulated
<1>1. Step(p) /\ MapAt(p)
  BY Zenon DEF Step, MapInv
<1>2. /\ accepted' = {} /\ UNCHANGED <<status, doubtful, fellBack>>
      /\ survivors' \subseteq survivors \cup {<<ledger', journal'>>}
  BY Zenon DEF ResetLedger, ResetJournal, Erase, SyncDirectory, UnsyncedDirectory, incidents
<1>3. resets # 0
  BY Zenon DEF MapInv, Unreset, ResetLedger, ResetJournal, At
<1>4. EmptyLedger # NoLedger /\ EmptyLedger.txns = {} /\ EmptyLedger.last = None
  BY Records, Zenon
<1>5. CASE ResetLedger(p)
  <2>1. pc[p] = "recovered" /\ ledger' = EmptyLedger /\ UNCHANGED journal /\ (Goto(p, "unlinkLog") \/ Goto(p, "idle"))
    BY <1>5, Zenon DEF ResetLedger, At, Return
  <2>2. EffectiveLedger = ledger
    BY <1>1, <2>1, Zenon DEF MapAt
  <2>3. EffectiveLedger' = Replayed(EmptyLedger, journal)
    BY <1>4, <2>1, Zenon DEF EffectiveLedger, Current
  <2>4. journal.ledger # NoLedger => journal.id \in Txn /\ journal.ledger = ledger
    <3>1. journal.ledger # NoLedger => journal.id \in Txn
      BY Records, Zenon DEF TypeInv, TypeOK, FilesTypeOK
    <3> QED  BY <2>2, <3>1, Readable, Zenon DEF Replayed, Paired
  <2>5. EffectiveLedger'.txns \in {{}, EffectiveLedger.txns}
    BY <1>4, <2>2, <2>3, <2>4, Zenon DEF Replayed
  <2>6. ledger' # NoLedger /\ Paired(ledger', journal')
    BY <1>4, <2>1, <2>4, StoreAssumption, Zenon DEF Paired
  <2>7. Simulated
    BY <1>2, <2>5, Empties, Zenon
  <2>8. MapInv'
    BY <1>1, <1>2, <1>3, <2>1, <2>6, MapBy, Zenon
  <2> QED  BY <2>7, <2>8, Zenon
<1>6. CASE ResetJournal(p)
  <2>1. pc[p] = "unlinkJournal" /\ journal' = NoJournal /\ UNCHANGED ledger /\ Goto(p, "unlinkBackups")
    BY <1>6, Zenon DEF ResetJournal, At
  <2>2. ledger = EmptyLedger
    BY <2>1, Readable, Zenon DEF EraseInv
  <2>3. EffectiveLedger' = EmptyLedger /\ Paired(ledger', journal')
    BY <1>4, <2>1, <2>2, Records, Zenon DEF EffectiveLedger, Current, Replayed, Paired
  <2>4. Simulated
    BY <1>2, <1>4, <2>3, Empties, Zenon
  <2>5. MapInv'
    BY <1>1, <1>2, <1>3, <1>4, <2>1, <2>2, <2>3, MapBy, Zenon
  <2> QED  BY <2>4, <2>5, Zenon
<1> QED  BY <1>5, <1>6, Zenon

\* A kill commits a transaction whose journal was just renamed, and otherwise
\* changes nothing that a caller sees.
LEMMA CrashRefines ==
    ASSUME MaxReadFaults = 0, TypeInv, DurabilityInv, TraceInv, MapInv, NEW p \in Proc, Crash(p)
    PROVE  MapInv' /\ Simulated
<1>1. Step(p) /\ MapAt(p)
  BY Zenon DEF Step, MapInv
<1>2. /\ Goto(p, "idle") /\ survivors' = survivors \cup {<<ledger', journal'>>} /\ Abandon({p}, {})
      /\ UNCHANGED <<accepted, doubtful, fellBack>>
  BY Zenon DEF Crash, Return, UnsyncedDirectory, incidents
<1>3. Firm' = Firm /\ Deferred' = Deferred /\ Rejected' = Rejected
  BY <1>2, NothingLearned, Zenon
<1>4. pc[p] \in {"ledger", "clear"} => hand[p] = journal
  BY Inside, Zenon DEF HandOK, Critical, Holding
<1>5. \/ UNCHANGED <<ledger, journal>>
      \/ pc[p] = "journal" /\ journal' = hand[p] /\ UNCHANGED ledger
      \/ /\ pc[p] = "ledger" /\ hand[p].ledger # NoLedger /\ Current.last # hand[p].id
         /\ ledger' = hand[p].ledger /\ UNCHANGED journal
      \/ pc[p] = "clear" /\ journal' = NoJournal /\ UNCHANGED ledger
  BY Zenon DEF Crash, At, files
<1>6. ASSUME EffectiveLedger' = EffectiveLedger, ledger' # NoLedger, Paired(ledger', journal') PROVE MapInv' /\ Simulated
  BY <1>1, <1>2, <1>3, <1>6, MapBy, Stutters, Zenon
<1>7. CASE UNCHANGED <<ledger, journal>>
  BY <1>6, <1>7, SameLedger, Zenon
<1>8. CASE pc[p] = "journal" /\ journal' = hand[p] /\ UNCHANGED ledger
  <2>1. /\ Simulated /\ EffectiveLedger.txns \subseteq EffectiveLedger'.txns
        /\ ledger' # NoLedger /\ Paired(ledger', journal')
    BY <1>3, <1>8, JournalCommits, Zenon
  <2>2. MapInv'
    BY <1>1, <1>2, <2>1, MapBy, Zenon
  <2> QED  BY <2>1, <2>2, Zenon
<1>9. CASE /\ pc[p] = "ledger" /\ hand[p].ledger # NoLedger /\ Current.last # hand[p].id
           /\ ledger' = hand[p].ledger /\ UNCHANGED journal
  BY <1>4, <1>6, <1>9, AppliedLedger, Readable, Zenon
<1>10. CASE pc[p] = "clear" /\ journal' = NoJournal /\ UNCHANGED ledger
  BY <1>1, <1>6, <1>10, ClearedJournal, Zenon DEF MapAt
<1> QED  BY <1>5, <1>7, <1>8, <1>9, <1>10, Zenon

\* A power loss leaves a pair of files that holds every cleanly committed change
\* and nothing that a recovery would not have produced.
LEMMA PowerLossRefines ==
    ASSUME MaxResets = 0 \/ MaxOutages = 0, TypeInv, DurabilityInv, MapInv, PowerLoss
    PROVE  MapInv' /\ Simulated
<1>1. outages \in Nat /\ resets = 0
  <2>1. outages \in Nat /\ MaxOutages # 0
    BY StoreAssumption, SMTT(30) DEF TypeInv, TypeOK, HistoryTypeOK, PowerLoss
  <2> QED  BY <2>1, Zenon DEF MapInv
<1>2. PICK s \in survivors : ledger' = s[1] /\ journal' = s[2]
  BY Zenon DEF PowerLoss
<1>3. /\ survivors' = {<<ledger', journal'>>} /\ Abandon(Proc, {"warned"}) /\ accepted' = Firm
      /\ pc' = [p \in Proc |-> "idle"] /\ op' = [p \in Proc |-> "none"]
      /\ UNCHANGED <<doubtful, fellBack, resets>>
  BY Zenon DEF PowerLoss, SyncDirectory, Firm, incidents
<1>4. ledger' # NoLedger /\ Paired(ledger', journal') /\ Replayed(ledger', journal').txns \subseteq EffectiveLedger.txns
  BY <1>1, <1>2, Zenon DEF MapInv
<1>5. EffectiveLedger' = Replayed(ledger', journal')
  BY <1>4, Zenon DEF EffectiveLedger, Current
<1>6. Firm \subseteq EffectiveLedger'.txns
  <2>1. Safe
    BY Zenon DEF Safe, MapInv
  <2>2. Firm \subseteq ledger'.txns /\ (journal'.ledger # NoLedger => Firm \subseteq journal'.ledger.txns)
    BY <1>2, <1>4, <2>1, Zenon DEF DurabilityInv, FirmInv
  <2> QED  BY <1>5, <2>2, Zenon DEF Replayed
<1>7. /\ \A t \in Txn : status[t] \notin {"open", "warned"} => status'[t] = status[t]
      /\ \A t \in Txn : status'[t] = "error" <=> status[t] = "error"
  BY <1>3, Zenon DEF Abandon
<1>8. Firm' = Firm /\ Deferred' = {}
  <2>1. \A t \in Firm : t \in Txn /\ status[t] = "ok" /\ status'[t] = "ok"
    BY <1>7, Zenon DEF Firm, TypeInv, TypeOK, HistoryTypeOK
  <2>2. Firm' = {t \in accepted' : status'[t] = "ok"} /\ Deferred' = {t \in accepted' : status'[t] = "warned"}
    BY Zenon DEF Firm, Deferred
  <2> QED  BY <1>3, <2>1, <2>2, Zenon
<1>9. Rejected' = Rejected
  BY <1>3, <1>7, Zenon DEF Rejected
<1>10. Simulated
  BY <1>4, <1>5, <1>6, <1>8, <1>9, Loses, Zenon
<1>11. \A r \in survivors' : r[1] = ledger' /\ r[2] = journal'
  BY <1>3
<1>12. \A p \in Proc : MapAt(p)'
  BY <1>3, Zenon DEF MapAt
<1>13. Unreset'
  BY <1>3, Zenon DEF Unreset
<1>14. MapInv'
  BY <1>1, <1>3, <1>4, <1>5, <1>11, <1>12, <1>13, Zenon DEF MapInv
<1> QED  BY <1>10, <1>14, Zenon

\* Every step of the store keeps MapInv and is a step of AtomicLedger or a stutter.
LEMMA MapStep ==
    ASSUME MaxReadFaults = 0, MaxResets = 0 \/ MaxOutages = 0,
           TypeInv, DurabilityInv, TraceInv, EraseInv, MapInv, [Next]_vars
    PROVE  MapInv' /\ Simulated
<1>1. CASE Damage
  BY <1>1, SMTT(30) DEF Damage, ReadFault, TypeInv, TypeOK, HistoryTypeOK
<1>2. CASE UNCHANGED vars
  <2>1. UNCHANGED <<ledger, journal, backups, survivors, pc, op, hand, status, accepted, doubtful, fellBack, resets>>
    BY <1>2, Zenon DEF vars, files, disk, procs, history, incidents, bounds, env
  <2>2. EffectiveLedger' = EffectiveLedger
    BY <2>1, Zenon DEF EffectiveLedger, Current, LatestBackup
  <2>3. \A p \in Proc : MapAt(p)' <=> MapAt(p)
    BY <2>1, <2>2, Zenon DEF MapAt
  <2>4. Unreset' <=> Unreset
    BY <2>1, Zenon DEF Unreset
  <2> QED  BY <2>1, <2>2, <2>3, <2>4, NothingReported, Stutters, Zenon DEF MapInv
<1>3. CASE \E p \in Proc : Step(p)
  BY <1>3, QuietStutters, ApplyRefines, WriteRefines, ResetRefines, CrashRefines, Zenon DEF Step
<1> QED  BY <1>1, <1>2, <1>3, PowerLossRefines, Zenon DEF Next

\* The journal protocol implements AtomicLedger for any number of processes,
\* transactions, failed writes and kills, and for power losses or resets: a
\* transaction takes effect at the rename of its journal or never, what is reported
\* is true, and a power loss costs at most what was not reported as cleanly
\* committed.  ledger.json is assumed to stay readable (Durability and FreshLoad
\* cover its damage), and a reset cut short may be undone by a power loss.
THEOREM Refinement ==
    ASSUME MaxReadFaults = 0, MaxResets = 0 \/ MaxOutages = 0
    PROVE  Spec => ImplementsAtomicLedger
<1>1. Init => MapInv
  <2> SUFFICES ASSUME Init PROVE MapInv
    BY Zenon
  <2>1. /\ \A s \in survivors : s[1] = EmptyLedger /\ s[2] = NoJournal
        /\ \A p \in Proc : pc[p] = "idle" /\ op[p] = "none"
    BY DEF Init
  <2>2. EmptyLedger # NoLedger /\ Paired(EmptyLedger, NoJournal) /\ Replayed(EmptyLedger, NoJournal).txns = {}
    BY Records, Zenon DEF Paired, Replayed
  <2> QED  BY <2>1, <2>2, Zenon DEF Init, MapInv, MapAt, Unreset
<1>2. Init => Abstract!Init
  <2> SUFFICES ASSUME Init PROVE Abstract!Init
    BY Zenon
  <2>1. EffectiveLedger.txns = {}
    BY Records, Zenon DEF Init, EffectiveLedger, Current, Replayed
  <2> QED  BY <2>1, Zenon DEF Init, Abstract!Init
<1>3. TypeInv /\ DurabilityInv /\ TraceInv /\ EraseInv /\ MapInv /\ [Next]_vars => MapInv'
  BY MapStep, Zenon
<1>4. TypeInv /\ DurabilityInv /\ TraceInv /\ EraseInv /\ MapInv /\ [Next]_vars => [Abstract!Next]_Abstract!avars
  <2>1. Simulated => [Abstract!Next]_Abstract!avars
    BY Zenon DEF Simulated, Abstract!avars, Firm, Deferred, Rejected
  <2> QED  BY <2>1, MapStep, Zenon
<1>5. Init => EraseInv
  BY Zenon DEF Init, EraseInv
<1> QED
  BY <1>1, <1>2, <1>3, <1>4, <1>5, TypeInit, TypeStep, DurabilityInit, DurabilityStep, BackupsInit, BackupsStep,
     TraceInit, TraceStep, EraseStep, PTL DEF Spec, ImplementsAtomicLedger, Abstract!Spec
=============================================================================
