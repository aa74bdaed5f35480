----------------------------- MODULE WorkerLease -----------------------------
(***************************************************************************)
(* The lease of an account's worker (acquire_job_worker_lease in           *)
(* bk/joblogs.py) and the commands that report on it                       *)
(* (bk/worker_status.py).                                                  *)
(*                                                                         *)
(* worker.lock keeps the account to one worker; a second lock file, one    *)
(* for each data directory, says which directory that worker serves.  The  *)
(* metadata in worker.lock is written after both locks are held and stays  *)
(* when its worker is gone.  A status command takes shared locks to probe, *)
(* and so can make a worker that starts try again.                         *)
(***************************************************************************)
EXTENDS Integers, FiniteSets

CONSTANTS
    Workers,        \* bk worker processes
    Serves,         \* the data directory of each
    Probes,         \* status commands
    AsksFor,        \* the data directory of each
    Attempts,       \* WORKER_LEASE_ATTEMPTS
    MaxLaunches, MaxProbes    \* bounds

DataDir == {Serves[w] : w \in Workers} \cup {AsksFor[q] : q \in Probes}
Main == "worker.lock"

\* Directories are absolute paths.
ASSUME LeaseAssumption == {Main, "none"} \cap DataDir = {}

VARIABLES
    flock,          \* per lock file: holders [ex, sh], sets of processes
    meta,           \* data directory in worker.lock: "none" without the file, "" if torn
    worker, probe,
    launches, probed

lease == <<flock, meta, worker, probe, launches, probed>>

NotStarted == [at |-> "off", tries |-> 0]
NoProbe == [at |-> "off", raw |-> "", answer |-> "", steady |-> FALSE, seen |-> FALSE]

LeaseInit ==
    /\ flock = [f \in {Main} \cup DataDir |-> [ex |-> {}, sh |-> {}]]
    /\ meta = "none"
    /\ worker = [w \in Workers |-> NotStarted]
    /\ probe = [q \in Probes |-> NoProbe]
    /\ launches = 0 /\ probed = 0

\* flock(LOCK_EX | LOCK_NB) and flock(LOCK_SH | LOCK_NB) by another process.
FreeForOne(f) == flock[f].ex = {} /\ flock[f].sh = {}
FreeToShare(f) == flock[f].ex = {}

\* A worker serves d: it holds both locks.
Up(ws, d) == \E w \in Workers : Serves[w] = d /\ ws[w].at \in {"truncate", "write", "up"}

\* The worker moves; each probe under way notes whether its directory was served.
Moves(w, new) ==
    /\ worker' = [worker EXCEPT ![w] = new]
    /\ probe' = [q \in Probes |->
          IF probe[q].at = "off" THEN probe[q]
          ELSE [probe[q] EXCEPT !.steady = @ /\ Up(worker', AsksFor[q]),
                                !.seen = @ \/ Up(worker', AsksFor[q])]]

-----------------------------------------------------------------------------
(* acquire_job_worker_lease.                                               *)

OpenLease(w) ==
    /\ worker[w].at = "off" /\ launches < MaxLaunches
    /\ launches' = launches + 1
    /\ meta' = IF meta = "none" THEN "" ELSE meta
    /\ Moves(w, [NotStarted EXCEPT !.at = "main"])
    /\ UNCHANGED <<flock, probed>>

\* _acquire_worker_lock: one attempt on file f; the last one that fails ends the start,
\* and the exception handler releases what is held.
Attempt(w, f, then) ==
    IF FreeForOne(f)
    THEN flock' = [flock EXCEPT ![f].ex = {w}] /\ Moves(w, [at |-> then, tries |-> 0])
    ELSE IF worker[w].tries + 1 < Attempts
    THEN Moves(w, [worker[w] EXCEPT !.tries = @ + 1]) /\ UNCHANGED flock
    ELSE /\ flock' = [g \in DOMAIN flock |-> [flock[g] EXCEPT !.ex = @ \ {w}]]
         /\ Moves(w, NotStarted)

TakeMain(w) ==
    /\ worker[w].at = "main"
    /\ Attempt(w, Main, "instance")
    /\ UNCHANGED <<meta, launches, probed>>

TakeInstance(w) ==
    /\ worker[w].at = "instance"
    /\ Attempt(w, Serves[w], "truncate")
    /\ UNCHANGED <<meta, launches, probed>>

\* ftruncate, then the write of the metadata.
RecordLease(w) ==
    /\ worker[w].at \in {"truncate", "write"}
    /\ meta' = IF worker[w].at = "truncate" THEN "" ELSE Serves[w]
    /\ Moves(w, [worker[w] EXCEPT !.at = IF @ = "truncate" THEN "write" ELSE "up"])
    /\ UNCHANGED <<flock, launches, probed>>

\* release: the instance lock first.
ReleaseInstance(w) ==
    /\ worker[w].at = "up"
    /\ flock' = [flock EXCEPT ![Serves[w]].ex = {}]
    /\ Moves(w, [worker[w] EXCEPT !.at = "leaving"])
    /\ UNCHANGED <<meta, launches, probed>>

ReleaseMain(w) ==
    /\ worker[w].at = "leaving"
    /\ flock' = [flock EXCEPT ![Main].ex = {}]
    /\ Moves(w, NotStarted)
    /\ UNCHANGED <<meta, launches, probed>>

\* The worker is killed, or the write of the metadata fails.
Vanish(w) ==
    /\ worker[w].at \notin {"off"}
    /\ flock' = [f \in DOMAIN flock |-> [flock[f] EXCEPT !.ex = @ \ {w}]]
    /\ Moves(w, NotStarted)
    /\ UNCHANGED <<meta, launches, probed>>

-----------------------------------------------------------------------------
(* inspect_worker_status.                                                  *)

Probing(q, new) == probe' = [probe EXCEPT ![q] = new] /\ UNCHANGED worker

\* The lease file is opened and its bytes are read (_read_lease_bytes).
ReadLease(q) ==
    /\ probe[q].at = "off" /\ probed < MaxProbes
    /\ probed' = probed + 1
    /\ LET up == Up(worker, AsksFor[q])
       IN  Probing(q, [at |-> IF meta = "none" THEN "done" ELSE "main", raw |-> meta,
                       answer |-> "not-seen", steady |-> up, seen |-> up])
    /\ UNCHANGED <<flock, meta, launches>>

\* The shared lock is tried on worker.lock and given up when the file is closed.
ProbeMain(q) ==
    /\ probe[q].at = "main"
    /\ IF FreeToShare(Main)
       THEN /\ flock' = [flock EXCEPT ![Main].sh = @ \cup {q}]
            /\ Probing(q, [probe[q] EXCEPT !.at = "close", !.answer = "stopped"])
       ELSE Probing(q, [probe[q] EXCEPT !.at = "instance"]) /\ UNCHANGED flock
    /\ UNCHANGED <<meta, launches, probed>>

\* A fault: the metadata alone says whom the lock belongs to.
VerdictByMetadata(q, held) == IF probe[q].raw = AsksFor[q] THEN "running" ELSE "other-instance"

\* The state that is reported for a held lease.
Verdict(q, held) ==
    IF held THEN "running"
    ELSE IF probe[q].raw \notin {"", AsksFor[q]} THEN "other-instance" ELSE "unverified"

\* _inspect_instance_lease.
ProbeInstance(q) ==
    LET d == AsksFor[q]
    IN  /\ probe[q].at = "instance"
        /\ flock' = IF FreeToShare(d) THEN [flock EXCEPT ![d].sh = @ \cup {q}] ELSE flock
        /\ Probing(q, [probe[q] EXCEPT !.at = IF FreeToShare(d) THEN "close" ELSE "done",
                                       !.answer = Verdict(q, ~FreeToShare(d))])
        /\ UNCHANGED <<meta, launches, probed>>

CloseProbe(q) ==
    /\ probe[q].at = "close"
    /\ flock' = [f \in DOMAIN flock |-> [flock[f] EXCEPT !.sh = @ \ {q}]]
    /\ Probing(q, [probe[q] EXCEPT !.at = "done"])
    /\ UNCHANGED <<meta, launches, probed>>

\* The answer is shown.
ShowStatus(q) ==
    /\ probe[q].at = "done"
    /\ Probing(q, NoProbe)
    /\ UNCHANGED <<flock, meta, launches, probed>>

LeaseNext ==
    \/ \E w \in Workers : \/ OpenLease(w) \/ TakeMain(w) \/ TakeInstance(w) \/ RecordLease(w)
                          \/ ReleaseInstance(w) \/ ReleaseMain(w) \/ Vanish(w)
    \/ \E q \in Probes : \/ ReadLease(q) \/ ProbeMain(q) \/ ProbeInstance(q)
                         \/ CloseProbe(q) \/ ShowStatus(q)

LeaseSpec == LeaseInit /\ [][LeaseNext]_lease

-----------------------------------------------------------------------------
\* "running" is reported only if a worker held the lease for this data directory at some
\* moment of the inspection, and it is reported whenever one held it throughout: neither
\* stale metadata nor another directory's worker nor other probes mislead it.
StatusTruthful ==
    \A q \in Probes : probe[q].at = "done" =>
        /\ probe[q].answer = "running" => probe[q].seen
        /\ probe[q].steady => probe[q].answer = "running"
=============================================================================
