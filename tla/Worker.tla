------------------------------- MODULE Worker -------------------------------
(***************************************************************************)
(* Scheduled commands: bk/worker.py and bk/job_recovery.py, for one owner. *)
(*                                                                         *)
(* Every ledger write is one store transaction, so the steps of a worker   *)
(* are its transactions, its ledger reads and its process operations;      *)
(* between two of them the owner cancels, edits and retries, other users'  *)
(* bookings expire reservations, commands exit, workers crash and restart. *)
(*                                                                         *)
(* The n-th claim of a job draws the token n, and its command runs in the  *)
(* process group <<job, n>>, which outlives the worker.  A TERM is left    *)
(* out: a command may exit at any time.  After a KILL a group no longer    *)
(* computes but takes a while to disappear.  The live guard may hold back  *)
(* any job.  Jobs claimed by releases without leases are not modelled.     *)
(***************************************************************************)
EXTENDS Integers, FiniteSets

CONSTANTS
    Job, Host,
    None,            \* an absent field
    Start, End,      \* the reservation window of each job, before edits
    Ends,            \* ends that the owner edits a started reservation to
    Grace,           \* worker_termination_grace_seconds
    ClaimTimeout,    \* worker_claim_timeout_seconds
    MaxParallel,     \* worker_max_parallel
    MaxClaims,       \* bound: claims of one job
    MaxIncidents,    \* bound: crashes, errors, stops and imperfect scans of /proc
    MaxRetries, MaxEdits,   \* bounds: what the owner does
    MaxTime          \* bound: the clock

ASSUME WorkerAssumption ==
    /\ Start \in [Job -> Nat] /\ End \in [Job -> Nat]
    /\ Ends \subseteq Nat
    /\ {Grace, ClaimTimeout, MaxParallel, MaxClaims} \subseteq Nat
    /\ {MaxIncidents, MaxRetries, MaxEdits, MaxTime} \subseteq Nat
    /\ None \notin [job : Job, n : 1 .. MaxClaims, end : Nat] \cup (Host \X Nat)

VARIABLES
    clock,
    res,       \* the reservation of each job: status and end
    job,       \* its job record
    claims,    \* tokens drawn for each job
    proc,      \* process groups
    worker,    \* the worker of each host
    incidents, retries, edits,
    blind,     \* history: some scan of /proc failed or missed a group
    risked     \* history: jobs retried with --accept-duplicate-risk

vars == <<clock, res, job, claims, proc, worker, incidents, retries, edits, blind, risked>>
ledger == <<res, job>>
owner == <<retries, edits, risked>>

Group == Job \X (1 .. MaxClaims)
Lease == Host \X (1 .. MaxIncidents + 1)

JobStatus ==
    {"pending", "claimed", "running", "succeeded", "failed", "timed_out", "cancelled",
     "missed", "interrupted", "uncertain"}

NewJob == [status |-> "pending", n |-> 0, at |-> 0, lease |-> None, recovery |-> None, by |-> None]

\* now: the time of this cycle; plan: recovery decisions; batch: claims to start;
\* cur: the claim being started; items: RunningJob records; stop: why the loop is to
\* end ("signal", "error", or "last" when commands have been given up).
NoWorker ==
    [pc |-> "off", k |-> 0, stop |-> None, now |-> 0, plan |-> {}, batch |-> {},
     cur |-> None, items |-> {}]

Init ==
    /\ clock = 0
    /\ res = [j \in Job |-> [status |-> "active", end |-> End[j]]]
    /\ job = [j \in Job |-> NewJob]
    /\ claims = [j \in Job |-> 0]
    /\ proc = [g \in Group |-> [state |-> "none", host |-> None]]
    /\ worker = [h \in Host |-> NoWorker]
    /\ incidents = 0 /\ retries = 0 /\ edits = 0
    /\ blind = FALSE /\ risked = {}

-----------------------------------------------------------------------------
Exists(g) == proc[g].state \in {"running", "killed"}
Gone(g) == proc[g].state \in {"ok", "bad"}

\* _kill_process_group.
Kill(groups) ==
    proc' = [g \in Group |-> IF g \in groups /\ proc[g].state = "running"
                             THEN [proc[g] EXCEPT !.state = "killed"] ELSE proc[g]]

\* discover_managed_process_groups, which skips a process whose environment cannot be
\* read.
Discovered(h, j, hidden) ==
    {g \in Group \ hidden : g[1] = j /\ proc[g].host = h /\ Exists(g)}

LeaseOf(h) == <<h, worker[h].k>>

Incident == incidents < MaxIncidents /\ incidents' = incidents + 1

Supervised(h) ==
    {<<i.job, i.n>> : i \in worker[h].items}
      \cup (IF worker[h].cur = None THEN {} ELSE {<<worker[h].cur.job, worker[h].cur.n>>})

-----------------------------------------------------------------------------
(* What the owner and other users do to the ledger.                        *)

Ended(j) == res[j].status = "active" /\ res[j].end <= clock

\* _expire_old_reservations, which every booking operation begins with.
ExpiredRes == [j \in Job |-> IF Ended(j) THEN [res[j] EXCEPT !.status = "expired"] ELSE res[j]]
ExpiredJob ==
    [j \in Job |->
        IF Ended(j) /\ job[j].status \in {"pending", "claimed"}
        THEN [job[j] EXCEPT !.status = "missed"]
        ELSE IF Ended(j) /\ job[j].status = "running"
        THEN [job[j] EXCEPT !.status = "uncertain", !.recovery = "expired-unverified"]
        ELSE job[j]]

OtherBooking ==
    /\ \E j \in Job : Ended(j)
    /\ res' = ExpiredRes /\ job' = ExpiredJob
    /\ UNCHANGED <<clock, claims, proc, worker, incidents, owner, blind>>

\* cancel_booking and cancel_booking_as_admin.
Cancel(j) ==
    /\ ExpiredRes[j].status = "active"
    /\ res' = [ExpiredRes EXCEPT ![j].status = "cancelled"]
    /\ job' = [ExpiredJob EXCEPT ![j].status = IF @ = "pending" THEN "cancelled" ELSE @]
    /\ UNCHANGED <<clock, claims, proc, worker, incidents, owner, blind>>

\* _edit_started_reservation.
EditEnd(j, e) ==
    /\ edits < MaxEdits /\ edits' = edits + 1
    /\ ExpiredRes[j].status = "active" /\ Start[j] <= clock
    /\ e > clock /\ e # res[j].end
    /\ res' = [ExpiredRes EXCEPT ![j].end = e] /\ job' = ExpiredJob
    /\ UNCHANGED <<clock, claims, proc, worker, incidents, retries, risked, blind>>

\* Mutant: an uncertain job is retried like a failed one.
RetryableFreely(j, accept) == job[j].status \in {"failed", "interrupted", "uncertain"}

Retryable(j, accept) ==
    job[j].status \in {"failed", "interrupted"} \cup (IF accept THEN {"uncertain"} ELSE {})

\* retry_job.
Retry(j, accept) ==
    /\ retries < MaxRetries /\ retries' = retries + 1
    /\ Retryable(j, accept)
    /\ res[j].status = "active" /\ res[j].end > clock
    /\ job' = [job EXCEPT ![j] = NewJob]
    /\ risked' = IF accept THEN risked \cup {j} ELSE risked
    /\ UNCHANGED <<clock, res, claims, proc, worker, incidents, edits, blind>>

\* A command exits by itself, or a killed group disappears.
Exit(g) ==
    /\ \/ proc[g].state = "running" /\ \E s \in {"ok", "bad"} : proc' = [proc EXCEPT ![g].state = s]
       \/ proc[g].state = "killed" /\ proc' = [proc EXCEPT ![g].state = "bad"]
    /\ UNCHANGED <<clock, ledger, claims, worker, incidents, owner, blind>>

Tick ==
    /\ clock < MaxTime /\ clock' = clock + 1
    /\ UNCHANGED <<ledger, claims, proc, worker, incidents, owner, blind>>

-----------------------------------------------------------------------------
(* recover_abandoned_jobs, at the start of a worker.                       *)

\* A scan of /proc, which may be unavailable or leave groups hidden.
Scan(seen, hidden) ==
    /\ hidden \subseteq {g \in Group : Exists(g)}
    /\ \/ seen /\ hidden = {} /\ UNCHANGED <<incidents, blind>>
       \/ (~seen <=> hidden = {}) /\ Incident /\ blind' = TRUE

\* Mutant: a recovery that was itself cut short is not taken up again.
CandidateNew(j) == job[j].status \in {"claimed", "running"}

\* Mutant: a claim that was never marked as running needs no recovery.
CandidateMarked(j) == job[j].status \in {"running", "uncertain"}

\* _recovery_candidates.
Candidate(j) ==
    \/ job[j].status \in {"claimed", "running"}
    \/ /\ job[j].status = "uncertain"
       /\ job[j].recovery \in
            {"terminating", "remote-unverified", "unverified", "termination-unverified"}

Decision(h, j, seen, hidden) ==
    CASE job[j].lease[1] # h -> "remote-unverified"
      [] job[j].lease[1] = h /\ ~seen -> "unverified"
      [] job[j].lease[1] = h /\ seen /\ Discovered(h, j, hidden) = {} -> "not-found"
      [] OTHER -> "terminating"

\* The kernel grants the lease only when no worker of the host holds it.
StartWorker(h) ==
    /\ worker[h].pc = "off"
    /\ \E seen \in BOOLEAN, hidden \in SUBSET Group :
        LET plan == {<<j, Decision(h, j, seen, hidden)>> : j \in {x \in Job : Candidate(x)}} IN
        /\ Scan(seen, hidden)
        /\ worker' = [worker EXCEPT ![h] =
             [NoWorker EXCEPT !.pc = IF plan = {} THEN "loop" ELSE "record",
                              !.k = worker[h].k + 1, !.now = clock, !.plan = plan]]
    /\ UNCHANGED <<clock, ledger, claims, proc, owner>>

\* _record_recovery_decisions.
RecordDecisions(h) ==
    LET w == worker[h]
        hit == {x \in w.plan : /\ job[x[1]].status \in {"claimed", "running", "uncertain"}
                               /\ job[x[1]].lease # LeaseOf(h)}
        doomed == {x \in hit : x[2] = "terminating"}
        decided(j) == \E x \in hit : x[1] = j
        decision(j) == (CHOOSE x \in hit : x[1] = j)[2]
    IN  /\ w.pc = "record"
        /\ res' = [j \in Job |-> IF decided(j) /\ res[j].status = "active" /\ res[j].end <= w.now
                                 THEN [res[j] EXCEPT !.status = "expired"] ELSE res[j]]
        /\ job' = [j \in Job |-> IF decided(j)
                                 THEN [job[j] EXCEPT !.status = "uncertain", !.by = LeaseOf(h),
                                                     !.recovery = decision(j)] ELSE job[j]]
        /\ worker' = [worker EXCEPT ![h].plan = doomed,
                                    ![h].pc = IF doomed = {} THEN "loop" ELSE "kill"]
        /\ UNCHANGED <<clock, claims, proc, incidents, owner, blind>>

\* _discover_and_signal_groups with KILL, for groups that a TERM did not end.
RecoverKill(h) ==
    /\ worker[h].pc = "kill"
    /\ \E seen \in BOOLEAN, hidden \in SUBSET Group :
        /\ Scan(seen, hidden)
        /\ Kill(IF seen THEN UNION {Discovered(h, x[1], hidden) : x \in worker[h].plan} ELSE {})
    /\ worker' = [worker EXCEPT ![h].pc = "finish"]
    /\ UNCHANGED <<clock, ledger, claims, owner>>

\* _wait_for_groups, then _finish_recovery.
FinishRecovery(h) ==
    /\ worker[h].pc = "finish"
    /\ \E seen \in BOOLEAN, hidden \in SUBSET Group :
        /\ Scan(seen, hidden)
        /\ job' = [j \in Job |->
             IF /\ \E x \in worker[h].plan : x[1] = j
                /\ job[j].status = "uncertain" /\ job[j].by = LeaseOf(h)
                /\ job[j].recovery = "terminating"
             THEN [job[j] EXCEPT !.recovery =
                     IF seen /\ Discovered(h, j, hidden) = {} THEN "stopped" ELSE "termination-unverified"]
             ELSE job[j]]
    /\ worker' = [worker EXCEPT ![h].plan = {}, ![h].pc = "loop"]
    /\ UNCHANGED <<clock, res, claims, proc, owner>>

-----------------------------------------------------------------------------
(* The cycle of run_worker.                                                *)

\* _request_termination.
Asked(i, reason) ==
    [i EXCEPT !.reason = reason, !.asked = IF @ = "no" THEN "waiting" ELSE @]

\* _completion_status.
CompletionStatus(i) ==
    CASE i.reason = "cancelled" -> "cancelled"
      [] i.reason = "deadline" -> "timed_out"
      [] i.reason = "worker-stop" -> "interrupted"
      [] OTHER -> IF proc[<<i.job, i.n>>].state = "ok" THEN "succeeded" ELSE "failed"

\* The signal that _reconcile_running decides on for one command.
Noticed(i) ==
    IF res[i.job].status = "cancelled"
    THEN IF i.reason # "cancelled" THEN Asked(i, "cancelled") ELSE i
    ELSE IF i.reason = None /\ clock >= i.end - Grace THEN Asked(i, "deadline") ELSE i

\* Mutant: at the deadline a TERM is deemed enough.
KillDueOnRequest(i) == Noticed(i).reason # "deadline" /\ i.asked = "elapsed"

\* i is as it was before this cycle; an elapsed grace was asked for earlier.
KillDue(i) ==
    LET reason == Noticed(i).reason
    IN  IF reason = "deadline" THEN clock >= i.end ELSE i.asked = "elapsed"

\* The leader was polled and no member of the group is alive.
Exited(i) == Gone(<<i.job, i.n>>)

\* _reconcile_running up to the completion of commands that have exited.
Reconcile(h) ==
    LET w == worker[h] IN
    /\ w.pc = "loop"
    /\ Kill({<<i.job, i.n>> : i \in {x \in w.items : KillDue(x)}})
    /\ worker' = [worker EXCEPT ![h].pc = "cycle", ![h].now = clock,
         ![h].items = {[Noticed(i) EXCEPT !.outcome =
                          IF Exited(i) THEN CompletionStatus(Noticed(i)) ELSE None] : i \in w.items}]
    /\ UNCHANGED <<clock, ledger, claims, incidents, owner, blind>>

Completed(h) == \A i \in worker[h].items : i.outcome = None

\* _complete_job: only the claim token is compared.
CompleteJob(h) ==
    /\ worker[h].pc = "cycle"
    /\ \E i \in worker[h].items :
        /\ i.outcome # None
        /\ job' = IF job[i.job].n = i.n
                  THEN [job EXCEPT ![i.job] =
                          [@ EXCEPT !.status = i.outcome, !.recovery = None, !.by = None]]
                  ELSE job
        /\ worker' = [worker EXCEPT ![h].items = @ \ {i}]
    /\ UNCHANGED <<clock, res, claims, proc, incidents, owner, blind>>

\* _stop_running_jobs at the time t.
AskedToStop(items, t) ==
    {IF i.reason = "cancelled" THEN i
     ELSE Asked(i, IF t >= i.end THEN "deadline" ELSE "worker-stop") : i \in items}

\* The end of a loop that is to stop: commands are asked to end, and waited for.
StopJobs(h) ==
    LET w == worker[h]
    IN  /\ w.pc = "cycle" /\ w.stop # None /\ Completed(h)
        /\ worker' = [worker EXCEPT ![h] =
             IF w.items = {} \/ w.stop = "last" THEN [NoWorker EXCEPT !.k = w.k]
             ELSE [w EXCEPT !.pc = "loop",
                     !.items = IF w.stop = "signal" THEN AskedToStop(@, w.now) ELSE @]]
        /\ UNCHANGED <<clock, ledger, claims, proc, incidents, owner, blind>>

\* The grace of _shutdown_running_jobs is over: what is left is killed, and reconciled
\* once more (_kill_and_reap_running_jobs).
GiveUpJobs(h) ==
    LET w == worker[h]
    IN  /\ w.pc = "loop" /\ w.stop = "error" /\ \A i \in w.items : i.asked = "elapsed"
        /\ Kill({<<i.job, i.n>> : i \in w.items})
        /\ worker' = [worker EXCEPT ![h].stop = "last"]
        /\ UNCHANGED <<clock, ledger, claims, incidents, owner, blind>>

Due(h, j) ==
    /\ job[j].status = "pending" /\ res[j].status = "active"
    /\ Start[j] <= worker[h].now /\ worker[h].now < res[j].end

\* What claim_due_jobs does to a job when it claims the jobs in taken.
ClaimOutcome(h, j, taken) ==
    LET now == worker[h].now IN
    CASE job[j].status = "claimed" /\ job[j].at <= now - ClaimTimeout ->
            [job[j] EXCEPT !.status = "uncertain"]
      [] job[j].status = "pending" /\ res[j].status = "cancelled" ->
            [job[j] EXCEPT !.status = "cancelled"]
      [] job[j].status = "pending" /\ (res[j].status = "expired" \/ res[j].end <= now) ->
            [job[j] EXCEPT !.status = "missed"]
      [] j \in taken ->
            [job[j] EXCEPT !.status = "claimed", !.n = claims[j] + 1, !.at = now,
                           !.lease = LeaseOf(h)]
      [] OTHER -> job[j]

\* _launch_guard_eligibility and claim_due_jobs, at the time this cycle began.  The
\* claimed copy of a reservation carries the end that RunningJob will keep.
ClaimDueJobs(h) ==
    LET w == worker[h]
        capacity == MaxParallel - Cardinality(w.items)
    IN  /\ w.pc = "cycle" /\ w.stop = None /\ Completed(h)
        /\ \E taken \in SUBSET {j \in Job : capacity > 0 /\ Due(h, j) /\ claims[j] < MaxClaims} :
            LET batch == {[job |-> j, n |-> claims[j] + 1, end |-> res[j].end] : j \in taken} IN
            /\ Cardinality(taken) <= capacity
            /\ job' = IF capacity > 0 THEN [j \in Job |-> ClaimOutcome(h, j, taken)] ELSE job
            /\ res' = [j \in Job |-> IF /\ capacity > 0 /\ job[j].status = "pending"
                                        /\ res[j].status = "active" /\ res[j].end <= w.now
                                     THEN [res[j] EXCEPT !.status = "expired"] ELSE res[j]]
            /\ claims' = [j \in Job |-> IF j \in taken THEN claims[j] + 1 ELSE claims[j]]
            /\ worker' = [worker EXCEPT ![h].batch = batch,
                                        ![h].pc = IF batch = {} THEN "loop" ELSE "launch"]
        /\ UNCHANGED <<clock, proc, incidents, owner, blind>>

-----------------------------------------------------------------------------
(* _start_claimed_job.                                                     *)

Goto(h, pc) == worker' = [worker EXCEPT ![h].pc = pc]

\* The claim being started is over; the next one of the batch follows.
NextClaim(h, items) ==
    worker' = [worker EXCEPT ![h].cur = None, ![h].items = items,
                             ![h].pc = IF worker[h].batch = {} THEN "loop" ELSE "launch"]

\* _claim_is_launchable.
Launchable(c) ==
    /\ res[c.job].status = "active" /\ res[c.job].end > clock
    /\ job[c.job].status = "claimed" /\ job[c.job].n = c.n

\* The private spec is validated (or not), and the claim is checked once more.
PrepareLaunch(h) ==
    /\ worker[h].pc = "launch"
    /\ \E c \in worker[h].batch, pc \in {"spawn", "abort", "failed"} :
        /\ pc # "failed" => (pc = "spawn" <=> Launchable(c))
        /\ worker' = [worker EXCEPT ![h].cur = c, ![h].batch = @ \ {c}, ![h].pc = pc]
    /\ UNCHANGED <<clock, ledger, claims, proc, incidents, owner, blind>>

\* Popen, and the start of the pump that drains the command, which may fail after it.
Spawn(h) ==
    /\ worker[h].pc = "spawn"
    /\ \/ /\ proc' = [proc EXCEPT ![<<worker[h].cur.job, worker[h].cur.n>>] =
                        [state |-> "running", host |-> h]]
          /\ Goto(h, "mark") \/ Goto(h, "reap")
       \/ UNCHANGED proc /\ Goto(h, "failed")
    /\ UNCHANGED <<clock, ledger, claims, incidents, owner, blind>>

\* Mutant: a launch that lost its claim leaves the group alone.
ReapedNot(g) == proc

\* _terminate_and_reap_process_group.
Reaped(g) == [proc EXCEPT ![g].state = IF @ = "running" THEN "bad" ELSE @]

ReapLaunch(h) ==
    /\ worker[h].pc = "reap"
    /\ proc' = Reaped(<<worker[h].cur.job, worker[h].cur.n>>)
    /\ Goto(h, "failed")
    /\ UNCHANGED <<clock, ledger, claims, incidents, owner, blind>>

\* _mark_running, and what follows when the claim was lost in the meantime.  The
\* dictionary of running jobs keeps one command per reservation.
MarkRunning(h) ==
    LET c == worker[h].cur IN
    /\ worker[h].pc = "mark"
    /\ IF res[c.job].status = "active" /\ job[c.job].status = "claimed" /\ job[c.job].n = c.n
       THEN /\ job' = [job EXCEPT ![c.job].status = "running"]
            /\ NextClaim(h, {i \in worker[h].items : i.job # c.job} \cup
                 {[job |-> c.job, n |-> c.n, end |-> c.end, reason |-> None, asked |-> "no",
                   outcome |-> None]})
            /\ UNCHANGED proc
       ELSE /\ proc' = Reaped(<<c.job, c.n>>)
            /\ Goto(h, "abort")
            /\ UNCHANGED job
    /\ UNCHANGED <<clock, res, claims, incidents, owner, blind>>

\* _mark_aborted_claim.
AbortClaim(h) ==
    LET c == worker[h].cur
        status == IF res[c.job].status = "cancelled" THEN "cancelled"
                  ELSE IF res[c.job].end <= clock THEN "missed" ELSE "uncertain"
    IN  /\ worker[h].pc = "abort"
        /\ job' = IF job[c.job].status = "claimed" /\ job[c.job].n = c.n
                  THEN [job EXCEPT ![c.job].status = status] ELSE job
        /\ NextClaim(h, worker[h].items)
        /\ UNCHANGED <<clock, res, claims, proc, incidents, owner, blind>>

\* _mark_launch_failure: only the claim token is compared.
LaunchFailed(h) ==
    LET c == worker[h].cur IN
    /\ worker[h].pc = "failed"
    /\ job' = IF job[c.job].n = c.n THEN [job EXCEPT ![c.job].status = "failed"] ELSE job
    /\ NextClaim(h, worker[h].items)
    /\ UNCHANGED <<clock, res, claims, proc, incidents, owner, blind>>

-----------------------------------------------------------------------------
\* time.monotonic() passes the end of a termination grace.
GraceElapses(h) ==
    /\ \E i \in worker[h].items :
        /\ i.asked = "waiting"
        /\ worker' = [worker EXCEPT ![h].items = (@ \ {i}) \cup {[i EXCEPT !.asked = "elapsed"]}]
    /\ UNCHANGED <<clock, ledger, claims, proc, incidents, owner, blind>>

\* SIGTERM or SIGINT.
StopSignal(h) ==
    /\ worker[h].pc # "off" /\ worker[h].stop = None
    /\ Incident
    /\ worker' = [worker EXCEPT ![h].stop = "signal"]
    /\ UNCHANGED <<clock, ledger, claims, proc, owner, blind>>

Crash(h) ==
    /\ worker[h].pc # "off"
    /\ Incident
    /\ worker' = [worker EXCEPT ![h] = [NoWorker EXCEPT !.k = worker[h].k]]
    /\ UNCHANGED <<clock, ledger, claims, proc, owner, blind>>

\* An exception leaves the loop; the claims not yet started are left alone.  When the
\* policy of the ledger has changed, or the ledger cannot be used, every command is
\* killed and the ledger left as it is (_shutdown_running_jobs_without_ledger).
\* Otherwise _shutdown_running_jobs asks the commands to end and goes on reconciling; one
\* that was just spawned is reaped at once.
FatalError(h) ==
    /\ worker[h].pc # "off"
    /\ Incident
    /\ \/ /\ Kill(Supervised(h))
          /\ worker' = [worker EXCEPT ![h] = [NoWorker EXCEPT !.k = worker[h].k]]
       \/ /\ worker[h].items # {}
          /\ Kill(Supervised(h) \ {<<i.job, i.n>> : i \in worker[h].items})
          /\ worker' = [worker EXCEPT ![h] =
               [@ EXCEPT !.pc = "loop", !.stop = "error", !.batch = {}, !.cur = None,
                         !.items = AskedToStop(worker[h].items, clock)]]
    /\ UNCHANGED <<clock, ledger, claims, owner, blind>>

Step(h) ==
    \/ StartWorker(h) \/ RecordDecisions(h) \/ RecoverKill(h) \/ FinishRecovery(h)
    \/ Reconcile(h) \/ CompleteJob(h) \/ StopJobs(h) \/ GiveUpJobs(h) \/ ClaimDueJobs(h)
    \/ PrepareLaunch(h) \/ Spawn(h) \/ ReapLaunch(h) \/ MarkRunning(h) \/ AbortClaim(h)
    \/ LaunchFailed(h)

Next ==
    \/ \E h \in Host : Step(h) \/ GraceElapses(h) \/ StopSignal(h) \/ Crash(h) \/ FatalError(h)
    \/ \E j \in Job : Cancel(j) \/ \E e \in Ends : EditEnd(j, e)
    \/ \E j \in Job, accept \in BOOLEAN : Retry(j, accept)
    \/ \E g \in Group : Exit(g)
    \/ OtherBooking
    \/ Tick

Spec == Init /\ [][Next]_vars

\* A worker that runs keeps stepping; time passes; a group that received KILL
\* disappears.  Commands need not exit, and nobody has to start a worker again:
\* systemd does so after a failure, but not after a stop, a change of policy (exit status
\* 78) or too many failures in a minute, and a worker in a terminal has no systemd.
FairSpec ==
    /\ Spec /\ WF_vars(Tick)
    /\ \A h \in Host : /\ WF_vars(worker[h].pc # "off" /\ Step(h))
                       /\ WF_vars(GraceElapses(h))
    /\ \A g \in Group : WF_vars(proc[g].state = "killed" /\ Exit(g))

\* No worker is started on the host any more.
LeftOff(h) == [](worker[h].pc = "off")

-----------------------------------------------------------------------------
\* A command never runs twice at the same time, whatever crashes, restarts, recovers
\* or is retried, unless its owner accepted the risk.
SingleLaunch ==
    \A g1, g2 \in Group :
        /\ g1[1] = g2[1] /\ g1 # g2
        /\ proc[g1].state = "running" /\ proc[g2].state = "running"
        => g1[1] \in risked

\* A job that the ledger reports as finished has no running command behind it.
FinishedIsQuiet ==
    \A j \in Job :
        job[j].status \in {"succeeded", "failed", "timed_out", "cancelled", "interrupted"}
            /\ job[j].n > 0
        => proc[<<j, job[j].n>>].state # "running"

\* A command that no worker supervises is still accounted for: once the worker of
\* its host has finished recovery, its job is uncertain (or expired as missed), so
\* that it cannot be retried without accepting the risk.
OrphansAreFlagged ==
    \A g \in Group, h \in Host :
        /\ proc[g] = [state |-> "running", host |-> h] /\ g \notin Supervised(h)
        /\ worker[h].pc \notin {"off", "record"}
        /\ g[1] \notin risked
        => job[g[1]].status \in {"uncertain", "missed"}

\* The command of a cancelled reservation is stopped, even if its worker crashes first or
\* is cut short in its recovery, unless no worker is started on its host any more, /proc
\* did not show it or its job was retried at the owner's risk.
CancelledStops ==
    \A g \in Group, h \in Host :
        (res[g[1]].status = "cancelled" /\ proc[g] = [state |-> "running", host |-> h])
            ~> (blind \/ g[1] \in risked \/ proc[g].state # "running" \/ LeftOff(h))

\* No job stays claimed or running for ever, unless no worker is started any more on the
\* host that claimed it.
JobsSettle ==
    \A j \in Job, h \in Host :
        (job[j].status \in {"claimed", "running"} /\ job[j].lease \in {h} \X Nat)
            ~> (job[j].status \notin {"claimed", "running"} \/ LeftOff(h))

\* GUIDE.md: a command is killed at the exact end of its reservation, and a cycle
\* of its worker at or after that end leaves it no time to run.
KilledAtEnd ==
    [][\A h \in Host : Reconcile(h) =>
        \A i \in worker[h].items :
            res[i.job].status = "active" /\ res[i.job].end <= clock
                => proc'[<<i.job, i.n>>].state # "running"]_vars
=============================================================================
