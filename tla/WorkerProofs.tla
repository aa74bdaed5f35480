---------------------------- MODULE WorkerProofs ----------------------------
(***************************************************************************)
(* Scheduled commands, for any number of jobs, hosts, crashes and retries. *)
(*                                                                         *)
(* SingleLaunch is not inductive.  LaunchInv adds who may still start a    *)
(* command: the tokens that were drawn (Drawn), the worker that holds each *)
(* of them (OneHolder), what a worker may conclude from its own step       *)
(* (InOrder), and, as the heart of it, that a command which runs or may    *)
(* still be started carries the token of its job record, and that the      *)
(* record with that token is claimed, running, uncertain or missed         *)
(* (Current).  OrphanInv adds the leases and the flags of the commands     *)
(* whose worker is gone.                                                   *)
(***************************************************************************)
EXTENDS Worker, TLAPS

\* The steps of _start_claimed_job after the claim has been taken from the batch.
Launching == {"spawn", "mark", "reap", "abort", "failed"}

\* The statuses of a job whose command may be running.
Busy == {"claimed", "running", "uncertain", "missed"}

\* What a recovery decides, and what a job record can say of it.
Decisions == {"remote-unverified", "unverified", "not-found", "terminating"}
Recoveries == Decisions \cup {None, "stopped", "termination-unverified", "expired-unverified"}

\* The statuses of a job whose command is over.
Finished == {"succeeded", "failed", "timed_out", "cancelled", "interrupted"}

\* The records of the model: claims, RunningJob, leases, jobs, reservations, process groups,
\* workers.
Claim == [job : Job, n : 1 .. MaxClaims, end : Nat]

Item ==
    [job : Job, n : 1 .. MaxClaims, end : Nat,
     reason : {None, "cancelled", "deadline", "worker-stop"},
     asked : {"no", "waiting", "elapsed"}, outcome : {None} \cup Finished]

LeaseId == Host \X Nat

JobState ==
    [status : JobStatus, n : 0 .. MaxClaims, at : Nat, lease : LeaseId \cup {None},
     recovery : Recoveries, by : LeaseId \cup {None}]

ResState == [status : {"active", "cancelled", "expired"}, end : Nat]

ProcState == [state : {"none", "running", "killed", "ok", "bad"}, host : Host \cup {None}]

WorkerState ==
    [pc : {"off", "record", "kill", "finish", "loop", "cycle", "launch"} \cup Launching,
     k : Nat, stop : {None, "signal", "error", "last"}, now : Nat, plan : SUBSET (Job \X Decisions),
     batch : SUBSET Claim, cur : Claim \cup {None}, items : SUBSET Item]

\* Every variable has its type.
Types ==
    /\ clock \in Nat
    /\ res \in [Job -> ResState]
    /\ job \in [Job -> JobState]
    /\ claims \in [Job -> 0 .. MaxClaims]
    /\ proc \in [Group -> ProcState]
    /\ worker \in [Host -> WorkerState]
    /\ risked \in SUBSET Job

\* The process group of a claim or of a running job.
GroupOf(c) == <<c.job, c.n>>

\* The groups of the claims that wait in the batch.
Queued(h) == {GroupOf(c) : c \in worker[h].batch}

\* The groups that the worker of h has claimed and not yet handed on, and those of them
\* that it may still spawn.
Held(h) ==
    Queued(h) \cup (IF worker[h].pc \in Launching THEN {GroupOf(worker[h].cur)} ELSE {})
Unspawned(h) ==
    Queued(h) \cup (IF worker[h].pc = "spawn" THEN {GroupOf(worker[h].cur)} ELSE {})

\* The command runs or may still be started.
Active(g) == proc[g].state = "running" \/ \E h \in Host : g \in Unspawned(h)

\* Tokens are drawn in order.
Drawn ==
    /\ \A g \in Group : proc[g].state # "none" => g[2] <= claims[g[1]]
    /\ \A h \in Host : \A g \in Held(h) : g[2] <= claims[g[1]]

\* A claim belongs to one worker.
OneHolder == \A h1, h2 \in Host : Held(h1) \cap Held(h2) # {} => h1 = h2

\* What a worker knows of its commands is true of the process groups.
InOrder(h) ==
    /\ \A c1, c2 \in worker[h].batch : GroupOf(c1) = GroupOf(c2) => c1 = c2
    /\ worker[h].pc \in Launching => worker[h].cur # None /\ GroupOf(worker[h].cur) \notin Queued(h)
    /\ worker[h].pc \notin Launching => worker[h].cur = None
    /\ \A g \in Unspawned(h) : proc[g].state = "none"
    /\ worker[h].pc \in {"mark", "reap"} => proc[GroupOf(worker[h].cur)].state # "none"
    /\ worker[h].pc \in {"abort", "failed"} => proc[GroupOf(worker[h].cur)].state # "running"
    /\ \A i \in worker[h].items : i.outcome # None => Gone(GroupOf(i))

\* A command that runs or may still be started has the token of its job record, unless the
\* owner accepted the risk, and the record with its token says so.
Current ==
    \A g \in Group : Active(g) =>
        /\ g[2] = job[g[1]].n => job[g[1]].status \in Busy
        /\ g[1] \notin risked => g[2] = job[g[1]].n

\* The inductive invariant behind SingleLaunch and FinishedIsQuiet.
LaunchInv == Types /\ Drawn /\ OneHolder /\ (\A h \in Host : InOrder(h)) /\ Current

-----------------------------------------------------------------------------
(* What every step has to show.                                            *)

\* Process groups only come to an end.
Settles ==
    \A g \in Group :
        \/ proc'[g].state = proc[g].state
        \/ proc[g].state \in {"running", "killed"} /\ proc'[g].state \in {"killed", "ok", "bad"}

\* Nothing is claimed, and the worker of h holds no new group.
Releases(h) ==
    /\ claims' = claims /\ Settles
    /\ \A x \in Host \ {h} : worker'[x] = worker[x]
    /\ Held(h)' \subseteq Held(h) /\ Unspawned(h)' \subseteq Unspawned(h)

\* Records keep their token, and leave the busy states only behind a command that is over.
RecordsFollow ==
    /\ risked \subseteq risked'
    /\ \A j \in Job :
        /\ job'[j].n = job[j].n
        /\ \/ job[j].status \in Busy => job'[j].status \in Busy
           \/ \A g \in Group : g[1] = j /\ g[2] = job[j].n => ~Active(g)'

\* Groups are pairs of a job and a token.
LEMMA Groups ==
    ASSUME NEW c, c.job \in Job, c.n \in 1 .. MaxClaims
    PROVE  GroupOf(c) \in Group /\ GroupOf(c)[1] = c.job /\ GroupOf(c)[2] = c.n
BY Zenon DEF GroupOf, Group

\* The groups that a worker holds.
LEMMA HeldGroups ==
    ASSUME Types, \A h \in Host : InOrder(h), NEW h \in Host
    PROVE  Queued(h) \subseteq Group /\ Held(h) \subseteq Group /\ Unspawned(h) \subseteq Held(h)
<1>1. worker[h] \in WorkerState /\ InOrder(h)
  BY Zenon DEF Types
<1>2. Queued(h) \subseteq Group
  BY <1>1, Groups, ZenonT(30) DEF Queued, WorkerState, Claim
<1>3. worker[h].pc \in Launching => GroupOf(worker[h].cur) \in Group
  BY <1>1, Groups, Zenon DEF InOrder, WorkerState, Claim
<1>4. QED
  BY <1>2, <1>3, Zenon DEF Held, Unspawned, Launching

\* A worker that does not move stays in order while groups come to an end.
LEMMA Unmoved ==
    ASSUME LaunchInv, NEW x \in Host, worker'[x] = worker[x], Settles
    PROVE  /\ InOrder(x)' /\ Held(x)' = Held(x) /\ Unspawned(x)' = Unspawned(x)
<1>1. InOrder(x) /\ worker[x] \in WorkerState
  BY Zenon DEF LaunchInv, Types
<1>2. /\ Queued(x)' = Queued(x) /\ Held(x)' = Held(x) /\ Unspawned(x)' = Unspawned(x)
      /\ Unspawned(x) \subseteq Group
  BY HeldGroups, Zenon DEF LaunchInv, Queued, Held, Unspawned
<1>3. worker[x].pc \in Launching => GroupOf(worker[x].cur) \in Group
  BY <1>1, Groups, Zenon DEF InOrder, WorkerState, Claim
<1>4. \A i \in worker[x].items : GroupOf(i) \in Group
  BY <1>1, Groups, Zenon DEF WorkerState, Item
<1>5. \A g \in Unspawned(x) : proc'[g].state = "none"
  BY <1>1, <1>2, Zenon DEF InOrder, Settles
<1>6. worker[x].pc \in {"mark", "reap"} => proc'[GroupOf(worker[x].cur)].state # "none"
  BY <1>1, <1>3, Zenon DEF InOrder, Settles, Launching
<1>7. worker[x].pc \in {"abort", "failed"} => proc'[GroupOf(worker[x].cur)].state # "running"
  BY <1>1, <1>3, Zenon DEF InOrder, Settles, Launching
<1>8. \A i \in worker[x].items : i.outcome # None => proc'[GroupOf(i)].state \in {"ok", "bad"}
  BY <1>1, <1>4, Zenon DEF InOrder, Settles, Gone
<1>9. QED
  BY <1>1, <1>2, <1>5, <1>6, <1>7, <1>8, Zenon DEF InOrder, Gone, GroupOf

\* A step in which a worker only lets go keeps everything but its own order.
LEMMA Releasing ==
    ASSUME LaunchInv, NEW h \in Host, Releases(h), InOrder(h)'
    PROVE  /\ Drawn' /\ OneHolder' /\ \A x \in Host : InOrder(x)'
           /\ \A g \in Group : Active(g)' => Active(g)
<1>1. Settles /\ claims' = claims /\ \A x \in Host \ {h} : worker'[x] = worker[x]
  BY Zenon DEF Releases
<1>2. \A x \in Host : Held(x)' \subseteq Held(x) /\ Unspawned(x)' \subseteq Unspawned(x)
  BY <1>1, Unmoved DEF Releases
<1>3. Drawn'
  BY <1>1, <1>2, Zenon DEF LaunchInv, Drawn, Settles
<1>4. OneHolder'
  BY <1>2, Zenon DEF LaunchInv, OneHolder
<1>5. \A x \in Host : InOrder(x)'
  BY <1>1, Unmoved, Zenon
<1>6. \A g \in Group : Active(g)' => Active(g)
  BY <1>1, <1>2, Zenon DEF Active, Settles
<1>7. QED
  BY <1>3, <1>4, <1>5, <1>6, Zenon

\* The records stay current when the commands only come to an end.
LEMMA Following ==
    ASSUME LaunchInv, RecordsFollow, \A g \in Group : Active(g)' => Active(g)
    PROVE  Current'
<1> SUFFICES ASSUME NEW g \in Group, Active(g)'
             PROVE  /\ g[2] = job'[g[1]].n => job'[g[1]].status \in Busy
                    /\ g[1] \notin risked' => g[2] = job'[g[1]].n
  BY Zenon DEF Current
<1>1. g[1] \in Job /\ Active(g)
  BY Zenon DEF Group
<1>2. QED
  BY <1>1, Zenon DEF RecordsFollow, LaunchInv, Current

\* A worker that is past its claims and lets go of those it has not started.
QuietMove(h) ==
    /\ worker'[h].pc \notin Launching /\ worker'[h].cur = None
    /\ worker'[h].batch \subseteq worker[h].batch
    /\ \A i \in worker'[h].items : i.outcome # None => Gone(GroupOf(i))'
    /\ \A x \in Host \ {h} : worker'[x] = worker[x]
    /\ claims' = claims /\ Settles

\* The invariant survives such a step.
LEMMA QuietStep ==
    ASSUME LaunchInv, NEW h \in Host, Types', QuietMove(h), RecordsFollow
    PROVE  LaunchInv'
<1>1. InOrder(h) /\ Queued(h)' \subseteq Queued(h) /\ Queued(h) \subseteq Unspawned(h)
  BY Zenon DEF LaunchInv, Queued, Unspawned, QuietMove
<1>2. Held(h)' = Queued(h)' /\ Unspawned(h)' = Queued(h)'
  BY Zenon DEF Held, Unspawned, Launching, QuietMove
<1>3. Unspawned(h) \subseteq Group /\ Unspawned(h) \subseteq Held(h)
  BY HeldGroups, Zenon DEF LaunchInv
<1>4. Releases(h)
  BY <1>1, <1>2, <1>3, Zenon DEF Releases, QuietMove
<1>5. \A g \in Unspawned(h)' : proc'[g].state = "none"
  BY <1>1, <1>2, <1>3 DEF InOrder, Settles, QuietMove
<1>6. InOrder(h)'
  BY <1>1, <1>5, Zenon DEF InOrder, Launching, QuietMove
<1>7. /\ Drawn' /\ OneHolder' /\ \A x \in Host : InOrder(x)'
      /\ \A g \in Group : Active(g)' => Active(g)
  BY <1>4, <1>6, Releasing, Zenon
<1>8. QED
  BY <1>7, Following, Zenon DEF LaunchInv

\* A step that leaves the workers and the tokens alone.
LEMMA LedgerStep ==
    ASSUME LaunchInv, Types', RecordsFollow, UNCHANGED <<claims, worker>>, Settles
    PROVE  LaunchInv'
<1>1. \A h \in Host : InOrder(h)' /\ Held(h)' = Held(h) /\ Unspawned(h)' = Unspawned(h)
  BY Unmoved, Zenon
<1>2. Drawn' /\ OneHolder'
  BY <1>1, Zenon DEF LaunchInv, Drawn, OneHolder, Settles
<1>3. \A g \in Group : Active(g)' => Active(g)
  BY <1>1, Zenon DEF Active, Settles
<1>4. QED
  BY <1>1, <1>2, <1>3, Following, Zenon DEF LaunchInv

-----------------------------------------------------------------------------
(* The owner, other users and the commands.                                *)

\* Expiry keeps the types and the tokens, and leaves no job idle that was busy.
LEMMA Expiry ==
    ASSUME Types
    PROVE  /\ ExpiredRes \in [Job -> ResState] /\ ExpiredJob \in [Job -> JobState]
           /\ \A j \in Job : /\ ExpiredJob[j].n = job[j].n /\ ExpiredJob[j].lease = job[j].lease
                             /\ job[j].status \in Busy => ExpiredJob[j].status \in Busy
                             /\ ExpiredJob[j].status \in Busy \/ ExpiredJob[j] = job[j]
                             /\ job[j].status \in {"uncertain", "missed"} => ExpiredJob[j] = job[j]
<1>1. ExpiredRes \in [Job -> ResState]
  BY Zenon DEF Types, ExpiredRes, ResState
<1>2. ASSUME NEW j \in Job
      PROVE  /\ ExpiredJob[j] \in JobState
             /\ ExpiredJob[j].n = job[j].n /\ ExpiredJob[j].lease = job[j].lease
             /\ job[j].status \in Busy => ExpiredJob[j].status \in Busy
             /\ ExpiredJob[j].status \in Busy \/ ExpiredJob[j] = job[j]
             /\ job[j].status \in {"uncertain", "missed"} => ExpiredJob[j] = job[j]
  <2>1. job[j] \in JobState
    BY Zenon DEF Types
  <2>2. CASE Ended(j) /\ job[j].status \in {"pending", "claimed"}
    <3>1. ExpiredJob[j] = [job[j] EXCEPT !.status = "missed"]
      BY <2>2, Zenon DEF ExpiredJob
    <3>2. QED
      BY <2>1, <2>2, <3>1, Zenon DEF JobState, JobStatus, Busy
  <2>3. CASE Ended(j) /\ job[j].status = "running"
    <3>1. ExpiredJob[j] = [job[j] EXCEPT !.status = "uncertain", !.recovery = "expired-unverified"]
      BY <2>3, Zenon DEF ExpiredJob
    <3>2. QED
      BY <2>1, <2>3, <3>1, Zenon DEF JobState, JobStatus, Busy, Recoveries
  <2>4. CASE ~(Ended(j) /\ job[j].status \in {"pending", "claimed"})
             /\ ~(Ended(j) /\ job[j].status = "running")
    <3>1. ExpiredJob[j] = job[j]
      BY <2>4, Zenon DEF ExpiredJob
    <3>2. QED
      BY <2>1, <3>1, Zenon
  <2>5. QED
    BY <2>2, <2>3, <2>4, Zenon
<1>3. ExpiredJob \in [Job -> JobState]
  <2>1. ExpiredJob = [j \in Job |-> ExpiredJob[j]]
    BY Zenon DEF ExpiredJob
  <2>2. QED
    BY <1>2, <2>1, Zenon
<1>4. QED
  BY <1>1, <1>2, <1>3, Zenon

\* Other users' bookings, and the edits and cancellations of the owner.
LEMMA BookingsKeepInv ==
    ASSUME LaunchInv,
           \/ OtherBooking
           \/ \E j \in Job : Cancel(j)
           \/ \E j \in Job, e \in Ends : EditEnd(j, e)
    PROVE  LaunchInv'
<1>1. Types
  BY Zenon DEF LaunchInv
<1>2. UNCHANGED <<clock, claims, proc, worker, risked>>
  BY Zenon DEF OtherBooking, Cancel, EditEnd, owner
<1>3. res' \in [Job -> ResState]
  <2>1. CASE OtherBooking
    BY <1>1, <2>1, Expiry, Zenon DEF OtherBooking
  <2>2. ASSUME NEW j \in Job, Cancel(j) PROVE res' \in [Job -> ResState]
    BY <1>1, <2>2, Expiry, Zenon DEF Cancel, ResState
  <2>3. ASSUME NEW j \in Job, NEW e \in Ends, EditEnd(j, e) PROVE res' \in [Job -> ResState]
    BY <1>1, <2>3, Expiry, WorkerAssumption DEF EditEnd, ResState
  <2>4. QED
    BY <2>1, <2>2, <2>3, Zenon
<1>4. job' = ExpiredJob
      \/ \E j \in Job : job' = [ExpiredJob EXCEPT ![j].status = IF @ = "pending" THEN "cancelled" ELSE @]
  BY Zenon DEF OtherBooking, Cancel, EditEnd
<1>5. /\ job' \in [Job -> JobState]
      /\ \A j \in Job : /\ job'[j].n = job[j].n
                        /\ job[j].status \in Busy => job'[j].status \in Busy
  <2>1. CASE job' = ExpiredJob
    BY <1>1, <2>1, Expiry, Zenon
  <2>2. ASSUME NEW j \in Job,
               job' = [ExpiredJob EXCEPT ![j].status = IF @ = "pending" THEN "cancelled" ELSE @]
        PROVE  <1>5!1 /\ <1>5!2
    BY <1>1, <2>2, Expiry DEF JobState, JobStatus, Busy
  <2>3. QED
    BY <1>4, <2>1, <2>2, Zenon
<1>6. Types' /\ RecordsFollow
  BY <1>1, <1>2, <1>3, <1>5, Zenon DEF Types, RecordsFollow
<1>7. QED
  BY <1>2, <1>6, LedgerStep, Zenon DEF Settles

\* The owner retries.
LEMMA RetryKeepsInv ==
    ASSUME LaunchInv, NEW j \in Job, NEW accept \in BOOLEAN, Retry(j, accept)
    PROVE  LaunchInv'
<1>1. UNCHANGED <<clock, res, claims, proc, worker>> /\ job' = [job EXCEPT ![j] = NewJob]
      /\ risked \subseteq risked' /\ risked' \subseteq risked \cup {j}
  BY Zenon DEF Retry
<1>2. NewJob \in JobState /\ NewJob.n = 0
  BY WorkerAssumption DEF NewJob, JobState, JobStatus, Recoveries
<1>3. Types'
  BY <1>1, <1>2, Zenon DEF LaunchInv, Types
<1>4. \A h \in Host : Queued(h)' = Queued(h) /\ Held(h)' = Held(h) /\ Unspawned(h)' = Unspawned(h)
  BY <1>1, Zenon DEF Queued, Held, Unspawned
<1>5. Drawn' /\ OneHolder' /\ \A h \in Host : InOrder(h)'
  BY <1>1, <1>4 DEF LaunchInv, Drawn, OneHolder, InOrder, Gone, GroupOf
<1>6. \A g \in Group : Active(g)' => Active(g)
  BY <1>1, <1>4, Zenon DEF Active
<1>7. ASSUME NEW g \in Group, Active(g)'
      PROVE  /\ g[2] = job'[g[1]].n => job'[g[1]].status \in Busy
             /\ g[1] \notin risked' => g[2] = job'[g[1]].n
  <2>1. g[1] \in Job /\ g[2] \in 1 .. MaxClaims /\ Active(g)
    BY <1>6, <1>7, Zenon DEF Group
  <2>2. CASE g[1] # j
    BY <1>1, <2>1, <2>2, Zenon DEF LaunchInv, Current, Types
  <2>3. CASE g[1] = j
    <3>1. job'[j].n = 0
      BY <1>1, <1>2, Zenon DEF LaunchInv, Types
    <3>2. g[2] # 0
      BY <2>1
    <3>3. ASSUME j \notin risked' PROVE FALSE
      <4>1. job[j].status \in {"failed", "interrupted"}
        BY <3>3, Zenon DEF Retry, Retryable
      <4>2. job[j].status \in Busy
        BY <1>1, <2>1, <2>3, <3>3, Zenon DEF LaunchInv, Current
      <4>3. QED
        BY <4>1, <4>2, Zenon DEF Busy
    <3>4. QED
      BY <2>3, <3>1, <3>2, <3>3, Zenon
  <2>4. QED
    BY <2>2, <2>3, Zenon
<1>8. Current'
  BY <1>7, Zenon DEF Current
<1>9. QED
  BY <1>3, <1>5, <1>8, Zenon DEF LaunchInv

\* A command exits.
LEMMA ExitKeepsInv ==
    ASSUME LaunchInv, NEW g \in Group, Exit(g)
    PROVE  LaunchInv'
<1>1. UNCHANGED <<clock, res, job, claims, worker, risked>>
  BY Zenon DEF Exit, ledger, owner
<1>2. proc' \in [Group -> ProcState] /\ Settles
  BY DEF LaunchInv, Types, Exit, ProcState, Settles
<1>3. Types' /\ RecordsFollow
  BY <1>1, <1>2, Zenon DEF LaunchInv, Types, RecordsFollow
<1>4. QED
  BY <1>1, <1>2, <1>3, LedgerStep, Zenon

\* Time passes.
LEMMA TickKeepsInv ==
    ASSUME LaunchInv, Tick
    PROVE  LaunchInv'
<1>1. UNCHANGED <<res, job, claims, proc, worker, risked>> /\ clock' \in Nat
  BY DEF Tick, ledger, owner, LaunchInv, Types
<1>2. Types' /\ RecordsFollow /\ Settles
  BY <1>1, Zenon DEF LaunchInv, Types, RecordsFollow, Settles
<1>3. QED
  BY <1>1, <1>2, LedgerStep, Zenon

-----------------------------------------------------------------------------
(* Recovery, reconciliation and the end of a worker.                       *)

\* KILL ends groups and moves none.
LEMMA Killing ==
    ASSUME Types, NEW groups, Kill(groups)
    PROVE  /\ proc' \in [Group -> ProcState] /\ Settles
           /\ \A g \in Group : proc'[g].host = proc[g].host
           /\ \A g \in Group \cap groups : proc'[g].state # "running"
BY Zenon DEF Types, Kill, ProcState, Settles

\* The state of a worker that starts.
Fresh(pc, k, now, plan) == [NoWorker EXCEPT !.pc = pc, !.k = k, !.now = now, !.plan = plan]

\* It holds nothing.
LEMMA FirstState ==
    ASSUME NEW pc \in {"loop", "record"}, NEW k \in Nat, NEW now \in Nat,
           NEW plan \in SUBSET (Job \X Decisions)
    PROVE  LET w == Fresh(pc, k, now, plan)
           IN  w \in WorkerState /\ w.pc = pc /\ w.k = k /\ w.plan = plan
               /\ w.batch = {} /\ w.cur = None /\ w.items = {}
BY Zenon DEF Fresh, NoWorker, WorkerState

\* A worker starts.
LEMMA StartKeepsInv ==
    ASSUME LaunchInv, NEW h \in Host, StartWorker(h)
    PROVE  LaunchInv'
<1>1. Types /\ worker[h] \in WorkerState
  BY Zenon DEF LaunchInv, Types
<1>2. PICK seen \in BOOLEAN, hidden \in SUBSET Group :
        LET plan == {<<j, Decision(h, j, seen, hidden)>> : j \in {x \in Job : Candidate(x)}}
        IN  worker' = [worker EXCEPT ![h] =
              [NoWorker EXCEPT !.pc = IF plan = {} THEN "loop" ELSE "record",
                               !.k = worker[h].k + 1, !.now = clock, !.plan = plan]]
  BY Zenon DEF StartWorker
<1>3. UNCHANGED <<clock, res, job, claims, proc, risked>>
  BY Zenon DEF StartWorker, ledger, owner
<1> DEFINE plan == {<<j, Decision(h, j, seen, hidden)>> : j \in {x \in Job : Candidate(x)}}
           pc == IF plan = {} THEN "loop" ELSE "record"
           k == worker[h].k + 1
<1>4. \A j \in Job : Decision(h, j, seen, hidden) \in Decisions
  BY Zenon DEF Decision, Decisions
<1>5. plan \in SUBSET (Job \X Decisions) /\ pc \in {"loop", "record"}
  BY <1>4
<1>6. worker' = [worker EXCEPT ![h] =
                   [NoWorker EXCEPT !.pc = pc, !.k = k, !.now = clock, !.plan = plan]]
  BY <1>2, Zenon
<1>7. k \in Nat /\ clock \in Nat
  BY <1>1 DEF Types, WorkerState
<1> HIDE DEF plan, pc, k
<1>8. worker'[h] \in WorkerState /\ worker'[h].pc = pc /\ worker'[h].batch = {}
      /\ worker'[h].cur = None /\ worker'[h].items = {}
  <2>1. worker'[h] = Fresh(pc, k, clock, plan)
    BY <1>1, <1>6, Zenon DEF Types, Fresh
  <2>2. QED
    BY <1>5, <1>7, <2>1, FirstState
<1>9. worker' \in [Host -> WorkerState] /\ \A x \in Host \ {h} : worker'[x] = worker[x]
  BY <1>1, <1>6, <1>8, Zenon DEF Types
<1>10. QuietMove(h)
  BY <1>3, <1>5, <1>8, <1>9, Zenon DEF QuietMove, Launching, Settles
<1>11. Types' /\ RecordsFollow
  BY <1>1, <1>3, <1>9, Zenon DEF Types, RecordsFollow
<1>12. QED
  BY <1>10, <1>11, QuietStep, Zenon

\* The decisions of a recovery are recorded.
LEMMA RecordKeepsInv ==
    ASSUME LaunchInv, NEW h \in Host, RecordDecisions(h)
    PROVE  LaunchInv'
<1> DEFINE hit == {x \in worker[h].plan : /\ job[x[1]].status \in {"claimed", "running", "uncertain"}
                                          /\ job[x[1]].lease # LeaseOf(h)}
           doomed == {x \in hit : x[2] = "terminating"}
           decided(j) == \E x \in hit : x[1] = j
           decision(j) == (CHOOSE x \in hit : x[1] = j)[2]
<1>1. Types /\ worker[h] \in WorkerState /\ InOrder(h)
  BY Zenon DEF LaunchInv, Types
<1>2. /\ worker[h].pc = "record"
      /\ res' = [j \in Job |-> IF decided(j) /\ res[j].status = "active" /\ res[j].end <= worker[h].now
                               THEN [res[j] EXCEPT !.status = "expired"] ELSE res[j]]
      /\ job' = [j \in Job |-> IF decided(j)
                               THEN [job[j] EXCEPT !.status = "uncertain", !.by = LeaseOf(h),
                                                   !.recovery = decision(j)] ELSE job[j]]
      /\ worker' = [worker EXCEPT ![h].plan = doomed,
                                  ![h].pc = IF doomed = {} THEN "loop" ELSE "kill"]
      /\ UNCHANGED <<clock, claims, proc, risked>>
  BY Zenon DEF RecordDecisions, owner
<1>3. hit \subseteq worker[h].plan /\ doomed \in SUBSET (Job \X Decisions)
  BY <1>1, Zenon DEF WorkerState
<1>4. \A j \in Job : decided(j) => decision(j) \in Decisions
  <2> SUFFICES ASSUME NEW j \in Job, decided(j) PROVE decision(j) \in Decisions
    BY Zenon
  <2>1. (CHOOSE x \in hit : x[1] = j) \in hit
    BY Zenon
  <2>2. QED
    BY <1>1, <2>1, Zenon DEF WorkerState
<1>5. LeaseOf(h) \in LeaseId
  BY <1>1, Zenon DEF LeaseOf, LeaseId, WorkerState
<1>6. \A j \in Job : decided(j) => job[j].status \in {"claimed", "running", "uncertain"}
  BY Zenon
<1> HIDE DEF hit, doomed, decided, decision
<1>7. res' \in [Job -> ResState]
  BY <1>1, <1>2, Zenon DEF Types, ResState
<1>8. /\ job' \in [Job -> JobState]
      /\ \A j \in Job : job'[j].n = job[j].n /\ (job[j].status \in Busy => job'[j].status \in Busy)
  <2>1. ASSUME NEW j \in Job
        PROVE  /\ job'[j] \in JobState /\ job'[j].n = job[j].n
               /\ job[j].status \in Busy => job'[j].status \in Busy
    <3>1. job[j] \in JobState
      BY <1>1, Zenon DEF Types
    <3>2. CASE decided(j)
      <4>1. job'[j] = [job[j] EXCEPT !.status = "uncertain", !.by = LeaseOf(h), !.recovery = decision(j)]
        BY <1>2, <3>2, Zenon
      <4>2. decision(j) \in Recoveries /\ LeaseOf(h) \in LeaseId \cup {None} /\ "uncertain" \in JobStatus
        BY <1>4, <1>5, <3>2, Zenon DEF Recoveries, JobStatus
      <4>3. QED
        BY <3>1, <4>1, <4>2, Zenon DEF JobState, Busy
    <3>3. CASE ~decided(j)
      <4>1. job'[j] = job[j]
        BY <1>2, <3>3, Zenon
      <4>2. QED
        BY <3>1, <4>1, Zenon
    <3>4. QED
      BY <3>2, <3>3, Zenon
  <2>2. job' = [j \in Job |-> job'[j]]
    BY <1>2, Zenon
  <2>3. QED
    BY <2>1, <2>2, Zenon
<1>9. worker' \in [Host -> WorkerState]
  BY <1>1, <1>2, <1>3, Zenon DEF Types, WorkerState
<1>10. /\ worker'[h].pc \in {"loop", "kill"} /\ worker'[h].cur = worker[h].cur
       /\ worker'[h].batch = worker[h].batch /\ worker'[h].items = worker[h].items
       /\ \A x \in Host \ {h} : worker'[x] = worker[x]
  BY <1>1, <1>2, Zenon DEF Types, WorkerState
<1>11. QuietMove(h)
  BY <1>1, <1>2, <1>10, Zenon DEF QuietMove, Launching, Settles, InOrder, Gone, GroupOf
<1>12. Types' /\ RecordsFollow
  BY <1>1, <1>2, <1>7, <1>8, <1>9, Zenon DEF Types, RecordsFollow
<1>13. QED
  BY <1>11, <1>12, QuietStep, Zenon

\* The remaining steps of a recovery.
LEMMA RecoveryKeepsInv ==
    ASSUME LaunchInv, NEW h \in Host, RecoverKill(h) \/ FinishRecovery(h)
    PROVE  LaunchInv'
<1>1. Types /\ worker[h] \in WorkerState /\ InOrder(h)
  BY Zenon DEF LaunchInv, Types
<1>2. UNCHANGED <<clock, res, claims, risked>>
  BY Zenon DEF RecoverKill, FinishRecovery, ledger, owner
<1>3. proc' \in [Group -> ProcState] /\ Settles
  <2>1. CASE RecoverKill(h)
    BY <1>1, <2>1, Killing, Zenon DEF RecoverKill
  <2>2. CASE FinishRecovery(h)
    BY <1>1, <2>2, Zenon DEF FinishRecovery, Types, Settles
  <2>3. QED
    BY <2>1, <2>2, Zenon
<1>4. /\ job' \in [Job -> JobState]
      /\ \A j \in Job : job'[j].n = job[j].n /\ job'[j].status = job[j].status
  <2>1. CASE RecoverKill(h)
    BY <1>1, <2>1, Zenon DEF RecoverKill, ledger, Types
  <2>2. CASE FinishRecovery(h)
    <3>1. \A j \in Job : \E r \in {"stopped", "termination-unverified"} :
              job'[j] = job[j] \/ job'[j] = [job[j] EXCEPT !.recovery = r]
      BY <2>2, Zenon DEF FinishRecovery
    <3>2. job' = [j \in Job |-> job'[j]]
      BY <2>2, Zenon DEF FinishRecovery
    <3>3. \A j \in Job : job'[j] \in JobState /\ job'[j].n = job[j].n /\ job'[j].status = job[j].status
      <4>1. ASSUME NEW j \in Job, NEW r \in {"stopped", "termination-unverified"},
                   job'[j] = [job[j] EXCEPT !.recovery = r]
            PROVE  job'[j] \in JobState /\ job'[j].n = job[j].n /\ job'[j].status = job[j].status
        <5>1. job[j] \in JobState /\ r \in Recoveries
          BY <1>1, Zenon DEF Types, Recoveries
        <5>2. QED
          BY <4>1, <5>1, Zenon DEF JobState
      <4>2. ASSUME NEW j \in Job, job'[j] = job[j]
            PROVE  job'[j] \in JobState /\ job'[j].n = job[j].n /\ job'[j].status = job[j].status
        BY <1>1, <4>2, Zenon DEF Types
      <4>3. QED
        BY <3>1, <4>1, <4>2, Zenon
    <3>4. QED
      BY <3>2, <3>3, Zenon
  <2>3. QED
    BY <2>1, <2>2, Zenon
<1>5. /\ worker' \in [Host -> WorkerState]
      /\ worker'[h].pc \in {"finish", "loop"} /\ worker'[h].cur = worker[h].cur
      /\ worker'[h].batch = worker[h].batch /\ worker'[h].items = worker[h].items
      /\ \A x \in Host \ {h} : worker'[x] = worker[x]
      /\ worker[h].pc \in {"kill", "finish"}
  BY <1>1 DEF RecoverKill, FinishRecovery, Types, WorkerState
<1>6. \A i \in worker[h].items : i.outcome # None => proc'[GroupOf(i)].state \in {"ok", "bad"}
  <2>1. \A i \in worker[h].items : GroupOf(i) \in Group
    BY <1>1, Groups, Zenon DEF WorkerState, Item
  <2>2. QED
    BY <1>1, <1>3, <2>1, Zenon DEF InOrder, Gone, Settles
<1>7. QuietMove(h)
  BY <1>1, <1>2, <1>3, <1>5, <1>6, Zenon DEF QuietMove, Launching, InOrder, Gone, GroupOf
<1>8. Types' /\ RecordsFollow
  BY <1>1, <1>2, <1>3, <1>4, <1>5, Zenon DEF Types, RecordsFollow
<1>9. QED
  BY <1>7, <1>8, QuietStep, Zenon

\* What _reconcile_running notes keeps the identity of a running job.
LEMMA Noting ==
    ASSUME Types, NEW i \in Item
    PROVE  /\ Noticed(i) \in Item /\ Noticed(i).job = i.job /\ Noticed(i).n = i.n
           /\ CompletionStatus(Noticed(i)) \in Finished
           /\ GroupOf(i) \in Group
<1>1. \A r \in {"cancelled", "deadline", "worker-stop"} :
          Asked(i, r) \in Item /\ Asked(i, r).job = i.job /\ Asked(i, r).n = i.n
  BY Zenon DEF Asked, Item
<1>2. Noticed(i) \in {i, Asked(i, "cancelled"), Asked(i, "deadline")}
  BY Zenon DEF Noticed
<1>3. CompletionStatus(Noticed(i)) \in Finished
  BY Zenon DEF CompletionStatus, Finished
<1>4. QED
  BY <1>1, <1>2, <1>3, Groups, Zenon DEF Item

\* Running jobs are reconciled.
LEMMA ReconcileKeepsInv ==
    ASSUME LaunchInv, NEW h \in Host, Reconcile(h)
    PROVE  LaunchInv'
<1> DEFINE noted(i) == [Noticed(i) EXCEPT !.outcome =
                          IF Exited(i) THEN CompletionStatus(Noticed(i)) ELSE None]
           items == {noted(i) : i \in worker[h].items}
<1>1. Types /\ worker[h] \in WorkerState /\ InOrder(h)
  BY Zenon DEF LaunchInv, Types
<1>2. /\ worker[h].pc = "loop"
      /\ worker' = [worker EXCEPT ![h].pc = "cycle", ![h].now = clock, ![h].items = items]
      /\ UNCHANGED <<clock, res, job, claims, risked>>
  BY Zenon DEF Reconcile, ledger, owner
<1>3. /\ proc' \in [Group -> ProcState] /\ Settles
      /\ \A g \in Group : proc[g].state \in {"ok", "bad"} => proc'[g].state = proc[g].state
  BY <1>1, Zenon DEF Reconcile, Kill, Types, ProcState, Settles
<1>4. ASSUME NEW i \in worker[h].items
      PROVE  /\ noted(i) \in Item /\ GroupOf(noted(i)) = GroupOf(i) /\ GroupOf(i) \in Group
             /\ noted(i).outcome # None => proc[GroupOf(i)].state \in {"ok", "bad"}
  <2> DEFINE outcome == IF Exited(i) THEN CompletionStatus(Noticed(i)) ELSE None
  <2>1. i \in Item
    BY <1>1, Zenon DEF WorkerState
  <2>2. /\ Noticed(i) \in Item /\ Noticed(i).job = i.job /\ Noticed(i).n = i.n
        /\ CompletionStatus(Noticed(i)) \in Finished /\ GroupOf(i) \in Group
    BY <1>1, <2>1, Noting, Zenon
  <2>3. outcome \in {None} \cup Finished /\ (outcome # None => proc[GroupOf(i)].state \in {"ok", "bad"})
    BY <2>2, Zenon DEF Exited, Gone, GroupOf
  <2>4. noted(i) = [Noticed(i) EXCEPT !.outcome = outcome]
    BY Zenon
  <2> HIDE DEF outcome, noted
  <2>5. noted(i) \in Item /\ noted(i).job = i.job /\ noted(i).n = i.n /\ noted(i).outcome = outcome
    BY <2>2, <2>3, <2>4, Zenon DEF Item
  <2>6. QED
    BY <2>2, <2>3, <2>5, Zenon DEF GroupOf
<1> HIDE DEF noted
<1>5. /\ items \in SUBSET Item
      /\ \A i \in items : i.outcome # None => proc'[GroupOf(i)].state \in {"ok", "bad"}
  BY <1>3, <1>4
<1> HIDE DEF items
<1>6. worker' \in [Host -> WorkerState]
  BY <1>1, <1>2, <1>5, Zenon DEF Types, WorkerState
<1>7. /\ worker'[h].pc = "cycle" /\ worker'[h].cur = worker[h].cur
      /\ worker'[h].batch = worker[h].batch /\ worker'[h].items = items
      /\ \A x \in Host \ {h} : worker'[x] = worker[x]
  BY <1>1, <1>2, Zenon DEF Types, WorkerState
<1>8. QuietMove(h)
  BY <1>1, <1>2, <1>3, <1>5, <1>7, Zenon DEF QuietMove, Launching, InOrder, Gone, GroupOf
<1>9. Types' /\ RecordsFollow
  BY <1>1, <1>2, <1>3, <1>6, Zenon DEF Types, RecordsFollow
<1>10. QED
  BY <1>8, <1>9, QuietStep, Zenon

\* A command that has exited is recorded.
LEMMA CompleteKeepsInv ==
    ASSUME LaunchInv, NEW h \in Host, CompleteJob(h)
    PROVE  LaunchInv'
<1>1. Types /\ worker[h] \in WorkerState /\ InOrder(h)
  BY Zenon DEF LaunchInv, Types
<1>2. PICK i \in worker[h].items :
        /\ i.outcome # None
        /\ job' = IF job[i.job].n = i.n
                  THEN [job EXCEPT ![i.job] =
                          [@ EXCEPT !.status = i.outcome, !.recovery = None, !.by = None]]
                  ELSE job
        /\ worker' = [worker EXCEPT ![h].items = @ \ {i}]
  BY Zenon DEF CompleteJob
<1>3. worker[h].pc = "cycle" /\ UNCHANGED <<clock, res, claims, proc, risked>>
  BY Zenon DEF CompleteJob, owner
<1>4. i \in Item /\ i.outcome \in Finished
  BY <1>1, <1>2, Zenon DEF WorkerState, Item
<1>5. GroupOf(i) \in Group /\ proc[GroupOf(i)].state \in {"ok", "bad"}
  BY <1>1, <1>2, <1>4, Groups, Zenon DEF InOrder, Gone, Item
<1>6. worker' \in [Host -> WorkerState]
  BY <1>1, <1>2, Zenon DEF Types, WorkerState
<1>7. /\ worker'[h].pc = "cycle" /\ worker'[h].cur = worker[h].cur
      /\ worker'[h].batch = worker[h].batch /\ worker'[h].items = worker[h].items \ {i}
      /\ \A x \in Host \ {h} : worker'[x] = worker[x]
  BY <1>1, <1>2, <1>3, Zenon DEF Types, WorkerState
<1>8. QuietMove(h)
  BY <1>1, <1>3, <1>7, Zenon DEF QuietMove, Launching, Settles, InOrder, Gone, GroupOf
<1>9. \A x \in Host : Unspawned(x)' \subseteq Unspawned(x)
  BY <1>1, <1>3, <1>7, Zenon DEF Unspawned, Queued
<1>10. ~Active(GroupOf(i))'
  <2>1. \A x \in Host : GroupOf(i) \notin Unspawned(x)
    BY <1>5, Zenon DEF LaunchInv, InOrder
  <2>2. QED
    BY <1>3, <1>5, <1>9, <2>1, Zenon DEF Active, GroupOf
<1>11. /\ job' \in [Job -> JobState]
       /\ \A j \in Job : /\ job'[j].n = job[j].n
                         /\ job'[j] = job[j] \/ (j = i.job /\ job[j].n = i.n)
  <2>1. CASE job[i.job].n = i.n
    <3>1. i.job \in Job /\ job[i.job] \in JobState /\ i.outcome \in JobStatus /\ None \in Recoveries
      BY <1>1, <1>4, Zenon DEF Types, Item, Finished, JobStatus, Recoveries
    <3>2. job' = [job EXCEPT ![i.job] =
                    [job[i.job] EXCEPT !.status = i.outcome, !.recovery = None, !.by = None]]
      BY <1>2, <2>1, Zenon
    <3>3. QED
      BY <1>1, <2>1, <3>1, <3>2, Zenon DEF Types, JobState
  <2>2. CASE job[i.job].n # i.n
    BY <1>1, <1>2, <2>2, Zenon DEF Types
  <2>3. QED
    BY <2>1, <2>2, Zenon
<1>12. \A g \in Group : g[1] = i.job /\ g[2] = i.n => g = GroupOf(i)
  BY DEF Group, GroupOf
<1>13. Types' /\ RecordsFollow
  BY <1>1, <1>3, <1>6, <1>10, <1>11, <1>12, Zenon DEF Types, RecordsFollow
<1>14. QED
  BY <1>8, <1>13, QuietStep, Zenon

\* The worker stays where it is and only its notes change.
LEMMA Noted ==
    ASSUME LaunchInv, NEW h \in Host, worker' \in [Host -> WorkerState],
           worker'[h].pc = worker[h].pc, worker'[h].cur = worker[h].cur,
           worker'[h].batch = worker[h].batch,
           \A i \in worker'[h].items : i.outcome # None => Gone(GroupOf(i)),
           \A x \in Host \ {h} : worker'[x] = worker[x],
           UNCHANGED <<clock, res, job, claims, proc, risked>>
    PROVE  LaunchInv'
<1>1. InOrder(h) /\ Queued(h)' = Queued(h) /\ Held(h)' = Held(h) /\ Unspawned(h)' = Unspawned(h)
  BY Zenon DEF LaunchInv, Queued, Held, Unspawned
<1>2. Releases(h)
  BY <1>1, Zenon DEF Releases, Settles
<1>3. InOrder(h)'
  BY <1>1, Zenon DEF InOrder, Gone, GroupOf
<1>4. /\ Drawn' /\ OneHolder' /\ \A x \in Host : InOrder(x)'
      /\ \A g \in Group : Active(g)' => Active(g)
  BY <1>2, <1>3, Releasing, Zenon
<1>5. Types' /\ RecordsFollow
  BY Zenon DEF LaunchInv, Types, RecordsFollow
<1>6. QED
  BY <1>4, <1>5, Following, Zenon DEF LaunchInv

\* A stop signal, or the end of a termination grace.
LEMMA NoticesKeepInv ==
    ASSUME LaunchInv, NEW h \in Host, StopSignal(h) \/ GraceElapses(h)
    PROVE  LaunchInv'
<1>1. Types /\ worker[h] \in WorkerState /\ InOrder(h)
  BY Zenon DEF LaunchInv, Types
<1>2. CASE StopSignal(h)
  <2>1. worker' = [worker EXCEPT ![h].stop = "signal"]
        /\ UNCHANGED <<clock, res, job, claims, proc, risked>>
    BY <1>2, Zenon DEF StopSignal, ledger, owner
  <2>2. /\ worker' \in [Host -> WorkerState] /\ worker'[h].items = worker[h].items
        /\ worker'[h].pc = worker[h].pc /\ worker'[h].cur = worker[h].cur
        /\ worker'[h].batch = worker[h].batch /\ \A x \in Host \ {h} : worker'[x] = worker[x]
    BY <1>1, <2>1, Zenon DEF Types, WorkerState
  <2>3. \A i \in worker'[h].items : i.outcome # None => Gone(GroupOf(i))
    BY <1>1, <2>2, Zenon DEF InOrder
  <2>4. QED
    BY <2>1, <2>2, <2>3, Noted, Zenon
<1>3. CASE GraceElapses(h)
  <2>1. PICK i \in worker[h].items :
          worker' = [worker EXCEPT ![h].items = (@ \ {i}) \cup {[i EXCEPT !.asked = "elapsed"]}]
    BY <1>3, Zenon DEF GraceElapses
  <2>2. UNCHANGED <<clock, res, job, claims, proc, risked>>
    BY <1>3, Zenon DEF GraceElapses, ledger, owner
  <2> DEFINE e == [i EXCEPT !.asked = "elapsed"]
  <2>3. e \in Item /\ GroupOf(e) = GroupOf(i) /\ e.outcome = i.outcome
    BY <1>1, Zenon DEF WorkerState, Item, GroupOf
  <2>4. worker' = [worker EXCEPT ![h].items = (@ \ {i}) \cup {e}]
    BY <2>1, Zenon
  <2> HIDE DEF e
  <2>5. /\ worker' \in [Host -> WorkerState] /\ worker'[h].items = (worker[h].items \ {i}) \cup {e}
        /\ worker'[h].pc = worker[h].pc /\ worker'[h].cur = worker[h].cur
        /\ worker'[h].batch = worker[h].batch /\ \A x \in Host \ {h} : worker'[x] = worker[x]
    BY <1>1, <2>3, <2>4, Zenon DEF Types, WorkerState
  <2>6. \A x \in worker'[h].items : x.outcome # None => Gone(GroupOf(x))
    BY <1>1, <2>3, <2>5, Zenon DEF InOrder
  <2>7. QED
    BY <2>2, <2>5, <2>6, Noted, Zenon
<1>4. QED
  BY <1>2, <1>3, Zenon

\* A worker that has ended holds nothing.
LEMMA Ending ==
    ASSUME LaunchInv, NEW h \in Host,
           worker' = [worker EXCEPT ![h] = [NoWorker EXCEPT !.k = worker[h].k]],
           proc' \in [Group -> ProcState], Settles, UNCHANGED <<clock, res, job, claims, risked>>
    PROVE  LaunchInv'
<1>1. Types /\ worker[h].k \in Nat
  BY Zenon DEF LaunchInv, Types, WorkerState
<1>2. \A k \in Nat : LET w == [NoWorker EXCEPT !.k = k] IN
        w \in WorkerState /\ w.pc = "off" /\ w.cur = None /\ w.batch = {} /\ w.items = {}
  BY Zenon DEF NoWorker, WorkerState
<1>4. PICK w \in WorkerState : worker' = [worker EXCEPT ![h] = w] /\ w.pc = "off" /\ w.cur = None
                               /\ w.batch = {} /\ w.items = {}
  BY <1>1, <1>2, Zenon
<1>5. worker' \in [Host -> WorkerState] /\ worker'[h] = w /\ \A x \in Host \ {h} : worker'[x] = worker[x]
  BY <1>1, <1>4, Zenon DEF Types
<1>6. QuietMove(h)
  BY <1>4, <1>5, Zenon DEF QuietMove, Launching
<1>7. Types' /\ RecordsFollow
  BY <1>1, <1>5, Zenon DEF Types, RecordsFollow
<1>8. QED
  BY <1>6, <1>7, QuietStep, Zenon

\* A worker that is killed.
LEMMA CrashKeepsInv ==
    ASSUME LaunchInv, NEW h \in Host, Crash(h)
    PROVE  LaunchInv'
<1>1. proc' \in [Group -> ProcState] /\ Settles
  BY Zenon DEF LaunchInv, Types, Crash, Settles
<1>2. UNCHANGED <<clock, res, job, claims, risked>>
      /\ worker' = [worker EXCEPT ![h] = [NoWorker EXCEPT !.k = worker[h].k]]
  BY Zenon DEF Crash, ledger, owner
<1>3. QED
  BY <1>1, <1>2, Ending, Zenon

\* A command that is asked to stop is still the same command.
LEMMA Asking ==
    ASSUME NEW items \in SUBSET Item, NEW t
    PROVE  /\ AskedToStop(items, t) \in SUBSET Item
           /\ \A e \in AskedToStop(items, t) :
                 \E i \in items : GroupOf(e) = GroupOf(i) /\ e.outcome = i.outcome
           /\ \A i \in items : \E e \in AskedToStop(items, t) : GroupOf(e) = GroupOf(i)
<1> DEFINE asked(i) == IF i.reason = "cancelled" THEN i
                       ELSE Asked(i, IF t >= i.end THEN "deadline" ELSE "worker-stop")
<1>1. ASSUME NEW i \in items
      PROVE  asked(i) \in Item /\ GroupOf(asked(i)) = GroupOf(i) /\ asked(i).outcome = i.outcome
  <2>1. i \in Item
    BY Zenon
  <2>2. \A r \in {"deadline", "worker-stop"} :
          Asked(i, r) \in Item /\ GroupOf(Asked(i, r)) = GroupOf(i) /\ Asked(i, r).outcome = i.outcome
    BY <2>1, Zenon DEF Asked, Item, GroupOf
  <2>3. asked(i) \in {i, Asked(i, "deadline"), Asked(i, "worker-stop")}
    BY Zenon
  <2>4. QED
    BY <2>1, <2>2, <2>3, Zenon
<1>2. AskedToStop(items, t) = {asked(i) : i \in items}
  BY Zenon DEF AskedToStop
<1> HIDE DEF asked
<1>3. QED
  BY <1>1, <1>2, ZenonT(30)

\* A worker that an exception ends.
LEMMA FatalKeepsInv ==
    ASSUME LaunchInv, NEW h \in Host, FatalError(h)
    PROVE  LaunchInv'
<1>1. Types /\ worker[h] \in WorkerState /\ InOrder(h)
  BY Zenon DEF LaunchInv, Types
<1>2. UNCHANGED <<clock, res, job, claims, risked>>
  BY Zenon DEF FatalError, ledger, owner
<1>3. proc' \in [Group -> ProcState] /\ Settles
  BY <1>1, Killing, Zenon DEF FatalError
<1>4. CASE worker' = [worker EXCEPT ![h] = [NoWorker EXCEPT !.k = worker[h].k]]
  BY <1>2, <1>3, <1>4, Ending, Zenon
<1>5. CASE worker' = [worker EXCEPT ![h] =
                        [@ EXCEPT !.pc = "loop", !.stop = "error", !.batch = {}, !.cur = None,
                                  !.items = AskedToStop(worker[h].items, clock)]]
  <2> DEFINE items == AskedToStop(worker[h].items, clock)
  <2>0. /\ items \in SUBSET Item
        /\ \A e \in items : \E i \in worker[h].items : GroupOf(e) = GroupOf(i) /\ e.outcome = i.outcome
    BY <1>1, Asking, Zenon DEF WorkerState
  <2> HIDE DEF items
  <2>1. /\ worker' \in [Host -> WorkerState] /\ worker'[h].items = items
        /\ worker'[h].pc = "loop" /\ worker'[h].cur = None /\ worker'[h].batch = {}
        /\ \A x \in Host \ {h} : worker'[x] = worker[x]
    <3>1. worker' = [worker EXCEPT ![h] =
                       [worker[h] EXCEPT !.pc = "loop", !.stop = "error", !.batch = {}, !.cur = None,
                                         !.items = items]]
      BY <1>5, Zenon DEF items
    <3>2. QED
      BY <1>1, <2>0, <3>1, Zenon DEF Types, WorkerState
  <2>2. \A i \in items : i.outcome # None => proc'[GroupOf(i)].state \in {"ok", "bad"}
    <3>1. \A i \in worker[h].items : GroupOf(i) \in Group
      BY <1>1, Groups, Zenon DEF WorkerState, Item
    <3>2. \A i \in worker[h].items : i.outcome # None => proc'[GroupOf(i)].state \in {"ok", "bad"}
      BY <1>1, <1>3, <3>1, Zenon DEF InOrder, Gone, Settles
    <3>3. QED
      BY <2>0, <3>2, Zenon
  <2>3. QuietMove(h)
    BY <1>2, <1>3, <2>1, <2>2, Zenon DEF QuietMove, Launching, Gone, GroupOf
  <2>4. Types' /\ RecordsFollow
    BY <1>1, <1>2, <1>3, <2>1, Zenon DEF Types, RecordsFollow
  <2>5. QED
    BY <2>3, <2>4, QuietStep, Zenon
<1>6. QED
  BY <1>4, <1>5, Zenon DEF FatalError

\* A worker that stops, or asks its commands to.
LEMMA StopKeepsInv ==
    ASSUME LaunchInv, NEW h \in Host, StopJobs(h)
    PROVE  LaunchInv'
<1> DEFINE w == worker[h]
           items == IF w.stop = "signal" THEN AskedToStop(w.items, w.now) ELSE w.items
<1>1. Types /\ w \in WorkerState /\ InOrder(h)
  BY Zenon DEF LaunchInv, Types
<1>2. /\ w.pc = "cycle"
      /\ \/ worker' = [worker EXCEPT ![h] = [NoWorker EXCEPT !.k = worker[h].k]]
         \/ worker' = [worker EXCEPT ![h] = [worker[h] EXCEPT !.pc = "loop", !.items = items]]
      /\ UNCHANGED <<clock, res, job, claims, proc, risked>>
  BY Zenon DEF StopJobs, ledger, owner
<1>3. proc' \in [Group -> ProcState] /\ Settles
  BY <1>1, <1>2, Zenon DEF Types, Settles
<1>4. CASE worker' = [worker EXCEPT ![h] = [NoWorker EXCEPT !.k = worker[h].k]]
  BY <1>2, <1>3, <1>4, Ending, Zenon
<1>5. CASE worker' = [worker EXCEPT ![h] = [worker[h] EXCEPT !.pc = "loop", !.items = items]]
  <2>1. /\ items \in SUBSET Item
        /\ \A e \in items : \E i \in w.items : GroupOf(e) = GroupOf(i) /\ e.outcome = i.outcome
    BY <1>1, Asking, Zenon DEF WorkerState
  <2> HIDE DEF items
  <2>2. \A i \in items : i.outcome # None => Gone(GroupOf(i))
    BY <1>1, <2>1, Zenon DEF InOrder
  <2>3. /\ worker' \in [Host -> WorkerState] /\ worker'[h].items = items
        /\ worker'[h].pc = "loop" /\ worker'[h].cur = worker[h].cur
        /\ worker'[h].batch = worker[h].batch /\ \A x \in Host \ {h} : worker'[x] = worker[x]
    BY <1>1, <1>5, <2>1, Zenon DEF Types, WorkerState
  <2>4. QuietMove(h)
    BY <1>1, <1>2, <1>3, <2>2, <2>3, Zenon DEF QuietMove, Launching, InOrder, Gone, GroupOf
  <2>5. Types' /\ RecordsFollow
    BY <1>1, <1>2, <2>3, Zenon DEF Types, RecordsFollow
  <2>6. QED
    BY <2>4, <2>5, QuietStep, Zenon
<1>6. QED
  BY <1>2, <1>4, <1>5, Zenon

\* The commands that outlived the grace of a worker are killed.
LEMMA GiveUpJobsKeepsInv ==
    ASSUME LaunchInv, NEW h \in Host, GiveUpJobs(h)
    PROVE  LaunchInv'
<1>1. Types /\ worker[h] \in WorkerState /\ InOrder(h) /\ worker[h].pc = "loop"
  BY Zenon DEF LaunchInv, Types, GiveUpJobs
<1>2. UNCHANGED <<clock, res, job, claims, risked>>
  BY Zenon DEF GiveUpJobs, ledger, owner
<1>3. proc' \in [Group -> ProcState] /\ Settles
  BY <1>1, Killing, Zenon DEF GiveUpJobs
<1>4. /\ worker' \in [Host -> WorkerState] /\ worker'[h].items = worker[h].items
      /\ worker'[h].pc = "loop" /\ worker'[h].cur = worker[h].cur
      /\ worker'[h].batch = worker[h].batch /\ \A x \in Host \ {h} : worker'[x] = worker[x]
  BY <1>1, Zenon DEF GiveUpJobs, Types, WorkerState
<1>5. \A i \in worker[h].items : i.outcome # None => proc'[GroupOf(i)].state \in {"ok", "bad"}
  <2>1. \A i \in worker[h].items : GroupOf(i) \in Group
    BY <1>1, Groups, Zenon DEF WorkerState, Item
  <2>2. QED
    BY <1>1, <1>3, <2>1, Zenon DEF InOrder, Gone, Settles
<1>6. QuietMove(h)
  BY <1>1, <1>2, <1>3, <1>4, <1>5, Zenon DEF QuietMove, Launching, InOrder, Gone, GroupOf
<1>7. Types' /\ RecordsFollow
  BY <1>1, <1>2, <1>3, <1>4, Zenon DEF Types, RecordsFollow
<1>8. QED
  BY <1>6, <1>7, QuietStep, Zenon

-----------------------------------------------------------------------------
(* Claims and launches.                                                    *)

\* What claim_due_jobs makes of a job record.
LEMMA Outcome ==
    ASSUME Types, NEW h \in Host, NEW taken \in SUBSET Job, NEW j \in Job,
           \A x \in taken : Due(h, x) /\ claims[x] < MaxClaims
    PROVE  LET o == ClaimOutcome(h, j, taken)
           IN  /\ o \in JobState
               /\ j \in taken => /\ o.status = "claimed" /\ o.n = claims[j] + 1
                                 /\ o.lease = LeaseOf(h)
               /\ j \notin taken => /\ o.n = job[j].n /\ o.lease = job[j].lease
                                    /\ job[j].status \in Busy => o.status \in Busy
                                    /\ job[j].status \in {"uncertain", "missed"} => o = job[j]
               /\ o.status \in {"claimed", "running"} => j \in taken \/ o = job[j]
<1> DEFINE now == worker[h].now
           o == ClaimOutcome(h, j, taken)
           n == claims[j] + 1
<1>1. /\ job[j] \in JobState /\ res[j] \in ResState /\ now \in Nat /\ LeaseOf(h) \in LeaseId
      /\ claims[j] \in 0 .. MaxClaims /\ worker[h] \in WorkerState
  BY Zenon DEF Types, WorkerState, LeaseOf, LeaseId
<1>2. CASE j \in taken
  <2>1. /\ job[j].status = "pending" /\ res[j].status = "active" /\ ~(res[j].end <= now)
        /\ n \in 0 .. MaxClaims
    <3>1. Due(h, j) /\ claims[j] < MaxClaims
      BY <1>2, Zenon
    <3>2. QED
      BY <1>1, <3>1, WorkerAssumption DEF Due, ResState
  <2>2. o = [job[j] EXCEPT !.status = "claimed", !.n = n, !.at = now, !.lease = LeaseOf(h)]
    BY <1>2, <2>1, Zenon DEF ClaimOutcome
  <2> HIDE DEF o, n, now
  <2>3. o \in JobState /\ o.status = "claimed" /\ o.n = n /\ o.lease = LeaseOf(h)
    BY <1>1, <2>1, <2>2, Zenon DEF JobState, JobStatus
  <2>4. QED
    BY <1>2, <2>3, Zenon DEF o, n
<1>3. CASE j \notin taken
  <2>1. \/ o = job[j]
        \/ job[j].status = "claimed" /\ o = [job[j] EXCEPT !.status = "uncertain"]
        \/ job[j].status = "pending" /\ o = [job[j] EXCEPT !.status = "cancelled"]
        \/ job[j].status = "pending" /\ o = [job[j] EXCEPT !.status = "missed"]
    BY <1>3 DEF ClaimOutcome
  <2> HIDE DEF o
  <2>2. /\ o \in JobState /\ o.n = job[j].n /\ o.lease = job[j].lease
        /\ job[j].status \in Busy => o.status \in Busy
        /\ job[j].status \in {"uncertain", "missed"} => o = job[j]
        /\ o.status \in {"claimed", "running"} => o = job[j]
    BY <1>1, <2>1, Zenon DEF JobState, JobStatus, Busy
  <2>3. QED
    BY <1>3, <2>2, Zenon DEF o
<1>4. QED
  BY <1>2, <1>3, Zenon

\* What a claiming step does.
LEMMA Claiming ==
    ASSUME Types, NEW h \in Host, ClaimDueJobs(h)
    PROVE  \E taken \in SUBSET Job :
             /\ \A j \in taken : Due(h, j) /\ claims[j] < MaxClaims
             /\ worker[h].pc = "cycle"
             /\ \/ job' = [j \in Job |-> ClaimOutcome(h, j, taken)]
                \/ job' = job /\ taken = {}
             /\ res' \in [Job -> ResState]
             /\ claims' = [j \in Job |-> IF j \in taken THEN claims[j] + 1 ELSE claims[j]]
             /\ LET batch == {[job |-> j, n |-> claims[j] + 1, end |-> res[j].end] : j \in taken}
                IN  worker' = [worker EXCEPT ![h].batch = batch,
                                             ![h].pc = IF batch = {} THEN "loop" ELSE "launch"]
             /\ UNCHANGED <<clock, proc, risked>>
<1> DEFINE room == MaxParallel - Cardinality(worker[h].items) > 0
           batch(taken) == {[job |-> j, n |-> claims[j] + 1, end |-> res[j].end] : j \in taken}
<1>1. PICK taken \in SUBSET {j \in Job : room /\ Due(h, j) /\ claims[j] < MaxClaims} :
        /\ job' = IF room THEN [j \in Job |-> ClaimOutcome(h, j, taken)] ELSE job
        /\ res' = [j \in Job |-> IF /\ room /\ job[j].status = "pending"
                                    /\ res[j].status = "active" /\ res[j].end <= worker[h].now
                                 THEN [res[j] EXCEPT !.status = "expired"] ELSE res[j]]
        /\ claims' = [j \in Job |-> IF j \in taken THEN claims[j] + 1 ELSE claims[j]]
        /\ worker' = [worker EXCEPT ![h].batch = batch(taken),
                                    ![h].pc = IF batch(taken) = {} THEN "loop" ELSE "launch"]
  BY Zenon DEF ClaimDueJobs
<1>2. worker[h].pc = "cycle" /\ UNCHANGED <<clock, proc, risked>>
  BY Zenon DEF ClaimDueJobs, owner
<1> HIDE DEF room
<1>3. res' \in [Job -> ResState]
  <2>1. \A j \in Job : res'[j] \in {res[j], [res[j] EXCEPT !.status = "expired"]}
    BY <1>1, Zenon
  <2>2. \A j \in Job : res'[j] \in ResState
    BY <2>1 DEF Types, ResState
  <2>3. res' = [j \in Job |-> res'[j]]
    BY <1>1, Zenon
  <2>4. QED
    BY <2>2, <2>3, Zenon
<1>4. /\ taken \in SUBSET Job
      /\ \A j \in taken : Due(h, j) /\ claims[j] < MaxClaims
      /\ \/ job' = [j \in Job |-> ClaimOutcome(h, j, taken)]
         \/ job' = job /\ taken = {}
  BY <1>1, Zenon
<1>5. QED
  BY <1>1, <1>2, <1>3, <1>4, Zenon

\* Due jobs are claimed.
LEMMA ClaimKeepsInv ==
    ASSUME LaunchInv, NEW h \in Host, ClaimDueJobs(h)
    PROVE  LaunchInv'
<1>1. Types /\ worker[h] \in WorkerState /\ InOrder(h) /\ Drawn
  BY Zenon DEF LaunchInv, Types
<1>2. PICK taken \in SUBSET Job :
        /\ \A j \in taken : Due(h, j) /\ claims[j] < MaxClaims
        /\ worker[h].pc = "cycle"
        /\ \/ job' = [j \in Job |-> ClaimOutcome(h, j, taken)]
           \/ job' = job /\ taken = {}
        /\ res' \in [Job -> ResState]
        /\ claims' = [j \in Job |-> IF j \in taken THEN claims[j] + 1 ELSE claims[j]]
        /\ LET batch == {[job |-> j, n |-> claims[j] + 1, end |-> res[j].end] : j \in taken}
           IN  worker' = [worker EXCEPT ![h].batch = batch,
                                        ![h].pc = IF batch = {} THEN "loop" ELSE "launch"]
        /\ UNCHANGED <<clock, proc, risked>>
  BY <1>1, Claiming, Zenon
<1> DEFINE batch == {[job |-> j, n |-> claims[j] + 1, end |-> res[j].end] : j \in taken}
<1>3. \A j \in Job : claims[j] \in 0 .. MaxClaims /\ res[j].end \in Nat
  BY <1>1, Zenon DEF Types, ResState
<1>4. \A j \in taken : claims[j] + 1 \in 1 .. MaxClaims
  BY <1>2, <1>3, WorkerAssumption
<1>5. batch \in SUBSET Claim
  BY <1>3, <1>4 DEF Claim
<1>6. \A c \in batch : c.job \in taken /\ c.n = claims[c.job] + 1
  OBVIOUS
<1>7. \A c1, c2 \in batch : GroupOf(c1) = GroupOf(c2) => c1 = c2
  BY DEF GroupOf
<1>8. worker' = [worker EXCEPT ![h].batch = batch, ![h].pc = IF batch = {} THEN "loop" ELSE "launch"]
  BY <1>2, Zenon
<1> HIDE DEF batch
<1>9. /\ worker' \in [Host -> WorkerState] /\ worker'[h].items = worker[h].items
      /\ worker'[h].pc \in {"loop", "launch"} /\ worker'[h].cur = worker[h].cur
      /\ worker'[h].batch = batch /\ \A x \in Host \ {h} : worker'[x] = worker[x]
  BY <1>1, <1>5, <1>8, Zenon DEF Types, WorkerState
<1>10. /\ claims' \in [Job -> 0 .. MaxClaims]
       /\ \A j \in Job : claims[j] <= claims'[j]
       /\ \A j \in taken : claims'[j] = claims[j] + 1
  BY <1>2, <1>3, <1>4
<1>11. /\ job' \in [Job -> JobState]
       /\ \A j \in taken : job'[j].status = "claimed" /\ job'[j].n = claims[j] + 1
       /\ \A j \in Job \ taken : /\ job'[j].n = job[j].n
                                 /\ job[j].status \in Busy => job'[j].status \in Busy
  <2>1. CASE job' = job /\ taken = {}
    BY <1>1, <2>1, Zenon DEF Types
  <2>2. CASE job' = [j \in Job |-> ClaimOutcome(h, j, taken)]
    BY <1>1, <1>2, <2>2, Outcome, Zenon
  <2>3. QED
    BY <1>2, <2>1, <2>2, Zenon
<1>12. Types'
  BY <1>1, <1>2, <1>9, <1>10, <1>11, Zenon DEF Types
<1>13. Settles
  BY <1>2, Zenon DEF Settles
<1>14. \A x \in Host \ {h} : InOrder(x)' /\ Held(x)' = Held(x) /\ Unspawned(x)' = Unspawned(x)
  BY <1>9, <1>13, Unmoved, Zenon
<1>15. /\ Queued(h)' = {GroupOf(c) : c \in batch}
       /\ Held(h)' = Queued(h)' /\ Unspawned(h)' = Queued(h)'
  BY <1>9, Zenon DEF Queued, Held, Unspawned, Launching, GroupOf
<1>16. \A g \in Queued(h)' : g \in Group /\ g[1] \in taken /\ g[2] = claims[g[1]] + 1
  BY <1>4, <1>5, <1>6, <1>15 DEF GroupOf, Group
<1>17. \A x \in Host : Held(x) \subseteq Group /\ Unspawned(x) \subseteq Held(x)
  BY HeldGroups, Zenon DEF LaunchInv
<1>18. \A g \in Group : g[1] \in Job /\ g[2] \in 1 .. MaxClaims
  BY Zenon DEF Group
<1>19. Drawn'
  <2>1. \A g \in Group : proc'[g].state # "none" => g[2] <= claims'[g[1]]
    BY <1>1, <1>2, <1>3, <1>10, <1>18 DEF Drawn
  <2>2. ASSUME NEW x \in Host, NEW g \in Held(x)' PROVE g[2] <= claims'[g[1]]
    <3>1. CASE x = h
      BY <1>3, <1>10, <1>15, <1>16, <2>2, <3>1
    <3>2. CASE x # h
      BY <1>1, <1>3, <1>10, <1>14, <1>17, <1>18, <2>2, <3>2 DEF Drawn
    <3>3. QED
      BY <3>1, <3>2, Zenon
  <2>3. QED
    BY <2>1, <2>2, Zenon DEF Drawn
<1>20. \A x \in Host : \A g \in Held(x) : g \notin Queued(h)'
  <2> SUFFICES ASSUME NEW x \in Host, NEW g \in Held(x), g \in Queued(h)' PROVE FALSE
    BY Zenon
  <2>1. g \in Group /\ g[1] \in Job /\ g[2] = claims[g[1]] + 1 /\ g[2] <= claims[g[1]]
    BY <1>1, <1>16, Zenon DEF Drawn
  <2>2. QED
    BY <1>3, <2>1
<1>21. OneHolder'
  BY <1>14, <1>15, <1>20 DEF LaunchInv, OneHolder
<1>22. InOrder(h)'
  <2>1. \A g \in Queued(h)' : proc'[g].state = "none"
    <3> SUFFICES ASSUME NEW g \in Queued(h)', proc[g].state # "none" PROVE FALSE
      BY <1>2, Zenon
    <3>1. g[1] \in Job /\ g[2] = claims[g[1]] + 1 /\ g[2] <= claims[g[1]]
      BY <1>1, <1>16, Zenon DEF Drawn
    <3>2. QED
      BY <1>3, <3>1
  <2>2. worker'[h].cur = None
    BY <1>1, <1>2, <1>9, Zenon DEF InOrder, Launching
  <2>3. \A i \in worker'[h].items : i.outcome # None => Gone(GroupOf(i))'
    BY <1>1, <1>2, <1>9, Zenon DEF InOrder, Gone, GroupOf
  <2>4. worker'[h].pc \notin Launching /\ worker'[h].pc \notin {"spawn", "mark", "reap", "abort", "failed"}
    BY <1>9, Zenon DEF Launching
  <2>5. \A c1, c2 \in worker'[h].batch : GroupOf(c1)' = GroupOf(c2)' => c1 = c2
    BY <1>7, <1>9, Zenon DEF GroupOf
  <2>6. QED
    BY <1>15, <2>1, <2>2, <2>3, <2>4, <2>5, Zenon DEF InOrder
<1>23. Current'
  <2> SUFFICES ASSUME NEW g \in Group, Active(g)'
               PROVE  /\ g[2] = job'[g[1]].n => job'[g[1]].status \in Busy
                      /\ g[1] \notin risked' => g[2] = job'[g[1]].n
    BY Zenon DEF Current
  <2>1. CASE g \in Queued(h)'
    BY <1>11, <1>16, <2>1, Zenon DEF Busy
  <2>2. CASE g \notin Queued(h)'
    <3>1. Active(g)
      BY <1>2, <1>14, <1>15, <2>2, Zenon DEF Active
    <3>2. g[2] <= claims[g[1]]
      BY <1>1, <1>17, <3>1, Zenon DEF Active, Drawn
    <3>3. CASE g[1] \in taken
      <4>1. job[g[1]].status = "pending"
        BY <1>2, <3>3, Zenon DEF Due
      <4>2. g[1] \in risked
        BY <3>1, <4>1, Zenon DEF LaunchInv, Current, Busy
      <4>3. g[2] # job'[g[1]].n
        BY <1>3, <1>11, <1>18, <3>2, <3>3
      <4>4. QED
        BY <1>2, <4>2, <4>3, Zenon
    <3>4. CASE g[1] \notin taken
      BY <1>2, <1>11, <1>18, <3>1, <3>4, Zenon DEF LaunchInv, Current
    <3>5. QED
      BY <3>3, <3>4, Zenon
  <2>3. QED
    BY <2>1, <2>2, Zenon
<1>24. QED
  BY <1>12, <1>14, <1>19, <1>21, <1>22, <1>23, Zenon DEF LaunchInv

\* The claim that a worker is starting, and who else has to do with its group.
LEMMA Starting ==
    ASSUME LaunchInv, NEW h \in Host, worker[h].pc \in Launching
    PROVE  LET c == worker[h].cur
           IN  /\ c \in Claim /\ GroupOf(c) \in Group /\ GroupOf(c)[1] = c.job /\ GroupOf(c)[2] = c.n
               /\ GroupOf(c) \in Held(h) /\ GroupOf(c) \notin Queued(h)
               /\ \A x \in Host \ {h} : GroupOf(c) \notin Held(x) /\ GroupOf(c) \notin Unspawned(x)
<1> DEFINE c == worker[h].cur
<1>1. worker[h] \in WorkerState /\ InOrder(h)
  BY Zenon DEF LaunchInv, Types
<1>2. c \in Claim /\ GroupOf(c) \notin Queued(h)
  BY <1>1, Zenon DEF InOrder, WorkerState
<1>3. GroupOf(c) \in Group /\ GroupOf(c)[1] = c.job /\ GroupOf(c)[2] = c.n
  BY <1>2, Groups, Zenon DEF Claim
<1>4. GroupOf(c) \in Held(h)
  BY Zenon DEF Held
<1>5. \A x \in Host \ {h} : GroupOf(c) \notin Held(x)
  BY <1>4, Zenon DEF LaunchInv, OneHolder
<1>6. \A x \in Host : Unspawned(x) \subseteq Held(x)
  BY HeldGroups, Zenon DEF LaunchInv
<1>7. QED
  BY <1>2, <1>3, <1>4, <1>5, <1>6, Zenon

\* The next claim of the batch is taken up.
LEMMA PrepareKeepsInv ==
    ASSUME LaunchInv, NEW h \in Host, PrepareLaunch(h)
    PROVE  LaunchInv'
<1>1. Types /\ worker[h] \in WorkerState /\ InOrder(h)
  BY Zenon DEF LaunchInv, Types
<1>2. PICK c \in worker[h].batch, pc \in {"spawn", "abort", "failed"} :
        worker' = [worker EXCEPT ![h].cur = c, ![h].batch = @ \ {c}, ![h].pc = pc]
  BY Zenon DEF PrepareLaunch
<1>3. UNCHANGED <<clock, res, job, claims, proc, risked>>
  BY Zenon DEF PrepareLaunch, ledger, owner
<1>4. c \in Claim
  BY <1>1, Zenon DEF WorkerState
<1>5. /\ worker' \in [Host -> WorkerState]
      /\ worker'[h].cur = c /\ worker'[h].batch = worker[h].batch \ {c} /\ worker'[h].pc = pc
      /\ worker'[h].items = worker[h].items
      /\ \A x \in Host \ {h} : worker'[x] = worker[x]
  BY <1>1, <1>2, <1>4, ZenonT(30) DEF Types, WorkerState, Launching
<1>6. Types'
  BY <1>1, <1>3, <1>5, Zenon DEF Types
<1>7. Queued(h)' = Queued(h) \ {GroupOf(c)} /\ GroupOf(c) \in Queued(h)
  BY <1>1, <1>5 DEF Queued, InOrder, GroupOf
<1>8. Held(h)' = Queued(h) /\ Unspawned(h)' \subseteq Queued(h)
  BY <1>5, <1>7, Zenon DEF Held, Unspawned, Launching, GroupOf
<1>9. Releases(h)
  BY <1>3, <1>5, <1>8, Zenon DEF Releases, Settles, Held, Unspawned
<1>10. \A g \in Queued(h) : proc'[g].state = "none"
  BY <1>1, <1>3, Zenon DEF InOrder, Unspawned
<1>11. c # None /\ pc \in Launching /\ pc # "mark"
  BY <1>4, WorkerAssumption, Zenon DEF Claim, Launching
<1>12. InOrder(h)'
  <2>1. \A c1, c2 \in worker'[h].batch : GroupOf(c1)' = GroupOf(c2)' => c1 = c2
    BY <1>1, <1>5, Zenon DEF InOrder, GroupOf
  <2>2. GroupOf(worker'[h].cur) \notin Queued(h)' /\ worker'[h].cur # None
    BY <1>5, <1>7, <1>11, Zenon
  <2>3. \A g \in Unspawned(h)' : proc'[g].state = "none"
    BY <1>8, <1>10, Zenon
  <2>4. proc'[GroupOf(worker'[h].cur)].state # "running"
    BY <1>5, <1>7, <1>10, Zenon
  <2>5. \A i \in worker'[h].items : i.outcome # None => Gone(GroupOf(i))'
    BY <1>1, <1>3, <1>5, Zenon DEF InOrder, Gone, GroupOf
  <2>6. QED
    BY <1>5, <1>11, <2>1, <2>2, <2>3, <2>4, <2>5, Zenon DEF InOrder, GroupOf
<1>13. RecordsFollow
  BY <1>3, Zenon DEF RecordsFollow
<1>14. QED
  BY <1>6, <1>9, <1>12, <1>13, Releasing, Following, Zenon DEF LaunchInv

\* A worker goes on with the claim that it is starting.
LEMMA Going ==
    ASSUME LaunchInv, NEW h \in Host, NEW pc \in {"mark", "reap", "abort", "failed"}, Goto(h, pc),
           worker[h].pc \in {"spawn", "mark", "reap"}
    PROVE  /\ worker' \in [Host -> WorkerState]
           /\ worker'[h].cur = worker[h].cur /\ worker'[h].batch = worker[h].batch
           /\ worker'[h].pc = pc /\ worker'[h].items = worker[h].items
           /\ \A x \in Host \ {h} : worker'[x] = worker[x]
           /\ Held(h)' = Held(h) /\ Unspawned(h)' = Queued(h) /\ Queued(h)' = Queued(h)
           /\ Queued(h) \subseteq Unspawned(h)
<1>1. Types /\ worker[h] \in WorkerState
  BY Zenon DEF LaunchInv, Types
<1>2. /\ worker' \in [Host -> WorkerState]
      /\ worker'[h].cur = worker[h].cur /\ worker'[h].batch = worker[h].batch
      /\ worker'[h].pc = pc /\ worker'[h].items = worker[h].items
      /\ \A x \in Host \ {h} : worker'[x] = worker[x]
  BY <1>1, Zenon DEF Goto, Types, WorkerState, Launching
<1>3. QED
  BY <1>2, Zenon DEF Held, Unspawned, Queued, Launching, GroupOf

\* Popen starts the command, or fails.
LEMMA SpawnKeepsInv ==
    ASSUME LaunchInv, NEW h \in Host, Spawn(h)
    PROVE  LaunchInv'
<1> DEFINE c == worker[h].cur
           g0 == GroupOf(c)
<1>1. Types /\ worker[h] \in WorkerState /\ InOrder(h) /\ worker[h].pc = "spawn"
  BY Zenon DEF LaunchInv, Types, Spawn
<1>2. UNCHANGED <<clock, res, job, claims, risked>>
  BY Zenon DEF Spawn, ledger, owner
<1>3. /\ g0 \in Group /\ g0 \in Held(h) /\ g0 \notin Queued(h)
      /\ \A x \in Host \ {h} : g0 \notin Held(x) /\ g0 \notin Unspawned(x)
  BY <1>1, Starting, Zenon DEF Launching
<1>4. g0 \in Unspawned(h) /\ proc[g0].state = "none" /\ c # None
  BY <1>1, Zenon DEF Unspawned, InOrder, Launching
<1>5. RecordsFollow
  BY <1>2, Zenon DEF RecordsFollow
<1>6. ASSUME NEW pc \in {"mark", "reap"}, Goto(h, pc),
             proc' = [proc EXCEPT ![g0] = [state |-> "running", host |-> h]]
      PROVE  LaunchInv'
  <2>1. /\ worker' \in [Host -> WorkerState]
        /\ worker'[h].cur = worker[h].cur /\ worker'[h].batch = worker[h].batch
        /\ worker'[h].pc = pc /\ worker'[h].items = worker[h].items
        /\ \A x \in Host \ {h} : worker'[x] = worker[x]
        /\ Held(h)' = Held(h) /\ Unspawned(h)' = Queued(h) /\ Queued(h)' = Queued(h)
        /\ Queued(h) \subseteq Unspawned(h)
    BY <1>1, <1>6, Going, Zenon
  <2>2. /\ proc' \in [Group -> ProcState] /\ proc'[g0].state = "running"
        /\ \A g \in Group \ {g0} : proc'[g] = proc[g]
    BY <1>1, <1>3, <1>6, Zenon DEF Types, ProcState
  <2> HIDE DEF g0
  <2>3. Types'
    BY <1>1, <1>2, <2>1, <2>2, Zenon DEF Types
  <2>4. \A x \in Host \ {h} : Held(x)' = Held(x) /\ Unspawned(x)' = Unspawned(x) /\ Queued(x)' = Queued(x)
    BY <2>1, Zenon DEF Held, Unspawned, Queued
  <2>5. \A x \in Host : Unspawned(x) \subseteq Group /\ Held(x) \subseteq Group
    BY HeldGroups, Zenon DEF LaunchInv
  <2>6. Drawn'
    <3>1. \A x \in Host : Held(x)' = Held(x)
      BY <2>1, <2>4, Zenon
    <3>2. \A g \in Group : proc'[g].state # "none" => g[2] <= claims[g[1]]
      BY <1>3, <2>2, Zenon DEF LaunchInv, Drawn
    <3>3. QED
      BY <1>2, <3>1, <3>2, Zenon DEF LaunchInv, Drawn
  <2>7. OneHolder'
    BY <2>1, <2>4, Zenon DEF LaunchInv, OneHolder
  <2>8. \A x \in Host : \A i \in worker[x].items :
            i.outcome # None => proc'[GroupOf(i)].state \in {"ok", "bad"}
    <3> SUFFICES ASSUME NEW x \in Host, NEW i \in worker[x].items, i.outcome # None
                 PROVE  proc'[GroupOf(i)].state \in {"ok", "bad"}
      BY Zenon
    <3>1. GroupOf(i) \in Group
      BY <1>1, Groups DEF Types, WorkerState, Item
    <3>2. proc[GroupOf(i)].state \in {"ok", "bad"}
      BY Zenon DEF LaunchInv, InOrder, Gone
    <3>3. QED
      BY <1>4, <2>2, <3>1, <3>2, Zenon
  <2>9. InOrder(h)'
    <3>1. \A g \in Unspawned(h)' : proc'[g].state = "none"
      BY <1>1, <1>3, <2>1, <2>2, <2>5 DEF InOrder
    <3>2. GroupOf(worker'[h].cur) = g0
      BY <2>1, Zenon DEF g0
    <3>3. \A c1, c2 \in worker'[h].batch : GroupOf(c1)' = GroupOf(c2)' => c1 = c2
      BY <1>1, <2>1, Zenon DEF InOrder, GroupOf
    <3>4. \A i \in worker'[h].items : i.outcome # None => Gone(GroupOf(i))'
      BY <2>1, <2>8, Zenon DEF Gone, GroupOf
    <3>5. worker'[h].cur # None /\ g0 \notin Queued(h)'
      BY <1>3, <1>4, <2>1, Zenon
    <3>6. QED
      BY <2>1, <2>2, <3>1, <3>2, <3>3, <3>4, <3>5, Zenon DEF InOrder, Launching, GroupOf
  <2>10. ASSUME NEW x \in Host \ {h} PROVE InOrder(x)'
    <3>1. InOrder(x) /\ worker'[x] = worker[x]
      BY <2>1, Zenon DEF LaunchInv
    <3>2. \A g \in Unspawned(x)' : proc'[g].state = "none"
      <4>1. \A g \in Unspawned(x) : g \in Group \ {g0} /\ proc[g].state = "none"
        BY <1>3, <2>5, <3>1, Zenon DEF InOrder
      <4>2. QED
        BY <2>2, <2>4, <4>1, Zenon
    <3>3. worker[x].pc \in Launching => GroupOf(worker[x].cur) \in Group /\ GroupOf(worker[x].cur) # g0
      BY <1>3, <2>5, Zenon DEF Held
    <3>4. \A i \in worker'[x].items : i.outcome # None => Gone(GroupOf(i))'
      BY <2>8, <3>1, Zenon DEF Gone, GroupOf
    <3>5. worker[x].pc \in Launching => proc'[GroupOf(worker[x].cur)] = proc[GroupOf(worker[x].cur)]
      BY <2>2, <3>3, Zenon
    <3>6. QED
      BY <2>4, <3>1, <3>2, <3>4, <3>5, Zenon DEF InOrder, Launching, GroupOf
  <2>11. \A g \in Group : Active(g)' => Active(g)
    <3>1. \A x \in Host : Unspawned(x)' \subseteq Unspawned(x)
      BY <2>1, <2>4, Zenon
    <3>2. QED
      BY <1>4, <2>2, <3>1, Zenon DEF Active
  <2>12. QED
    BY <1>5, <2>3, <2>6, <2>7, <2>9, <2>10, <2>11, Following, Zenon DEF LaunchInv
<1>7. CASE proc' = proc /\ Goto(h, "failed")
  <2>1. /\ worker' \in [Host -> WorkerState]
        /\ worker'[h].cur = worker[h].cur /\ worker'[h].batch = worker[h].batch
        /\ worker'[h].pc = "failed" /\ worker'[h].items = worker[h].items
        /\ \A x \in Host \ {h} : worker'[x] = worker[x]
        /\ Held(h)' = Held(h) /\ Unspawned(h)' = Queued(h) /\ Queued(h)' = Queued(h)
        /\ Queued(h) \subseteq Unspawned(h)
    BY <1>1, <1>7, Going, Zenon
  <2>2. Types'
    BY <1>1, <1>2, <1>7, <2>1, Zenon DEF Types
  <2>3. Releases(h)
    BY <1>2, <1>7, <2>1, Zenon DEF Releases, Settles
  <2>4. InOrder(h)'
    BY <1>1, <1>3, <1>4, <1>7, <2>1, Zenon DEF InOrder, Launching, GroupOf, Gone
  <2>5. QED
    BY <1>5, <2>2, <2>3, <2>4, Releasing, Following, Zenon DEF LaunchInv
<1>8. QED
  BY <1>6, <1>7, Zenon DEF Spawn, GroupOf

\* The worker is done with the claim that it was starting.
LEMMA NextUp ==
    ASSUME Types, NEW h \in Host, NEW items \in SUBSET Item, NextClaim(h, items)
    PROVE  /\ worker' \in [Host -> WorkerState]
           /\ worker'[h].pc \notin Launching /\ worker'[h].cur = None
           /\ worker'[h].batch = worker[h].batch /\ worker'[h].items = items
           /\ \A x \in Host \ {h} : worker'[x] = worker[x]
<1> DEFINE pc == IF worker[h].batch = {} THEN "loop" ELSE "launch"
<1>1. pc \in {"loop", "launch"}
  BY Zenon
<1>2. worker' = [worker EXCEPT ![h].cur = None, ![h].items = items, ![h].pc = pc]
  BY Zenon DEF NextClaim
<1> HIDE DEF pc
<1>3. worker[h] \in WorkerState
  BY Zenon DEF Types
<1>4. worker'[h] = [worker[h] EXCEPT !.cur = None, !.items = items, !.pc = pc]
  BY <1>2, Zenon DEF Types
<1>5. /\ worker'[h] \in WorkerState /\ worker'[h].pc = pc /\ worker'[h].cur = None
      /\ worker'[h].batch = worker[h].batch /\ worker'[h].items = items
  BY <1>1, <1>3, <1>4, Zenon DEF WorkerState
<1>6. \A x \in Host \ {h} : worker'[x] = worker[x]
  BY <1>2, Zenon DEF Types
<1>7. worker' \in [Host -> WorkerState]
  <2>1. worker' = [x \in Host |-> worker'[x]] /\ \A x \in Host : worker'[x] \in WorkerState
    BY <1>2, <1>5, <1>6, Zenon DEF Types
  <2>2. QED
    BY <2>1, Zenon
<1>8. QED
  BY <1>1, <1>5, <1>6, <1>7, Zenon DEF Launching

\* A command that was just spawned is reaped.
LEMMA Reaping ==
    ASSUME LaunchInv, NEW h \in Host, worker[h].pc \in {"mark", "reap"},
           NEW pc \in {"abort", "failed"}, Goto(h, pc),
           proc' = Reaped(GroupOf(worker[h].cur)), UNCHANGED <<clock, res, job, claims, risked>>
    PROVE  LaunchInv'
<1> DEFINE c == worker[h].cur
           g0 == GroupOf(c)
<1>1. Types /\ worker[h] \in WorkerState /\ InOrder(h)
  BY Zenon DEF LaunchInv, Types
<1>2. c \in Claim /\ g0 \in Group /\ g0 \notin Queued(h)
  BY <1>1, Starting, Zenon DEF Launching
<1>3. /\ worker' \in [Host -> WorkerState]
      /\ worker'[h].cur = worker[h].cur /\ worker'[h].batch = worker[h].batch
      /\ worker'[h].pc = pc /\ worker'[h].items = worker[h].items
      /\ \A x \in Host \ {h} : worker'[x] = worker[x]
      /\ Held(h)' = Held(h) /\ Unspawned(h)' = Queued(h) /\ Queued(h)' = Queued(h)
      /\ Queued(h) \subseteq Unspawned(h)
  BY Going, Zenon
<1>4. /\ proc' \in [Group -> ProcState] /\ proc'[g0].state # "running"
      /\ \A g \in Group : \/ proc'[g].state = proc[g].state
                          \/ g = g0 /\ proc[g].state = "running" /\ proc'[g].state = "bad"
  BY <1>1, <1>2, Zenon DEF Reaped, Types, ProcState
<1>5. Settles
  BY <1>4, Zenon DEF Settles
<1>6. Types' /\ RecordsFollow
  BY <1>1, <1>3, <1>4, Zenon DEF Types, RecordsFollow
<1>7. Releases(h)
  BY <1>3, <1>5, Zenon DEF Releases
<1>8. InOrder(h)'
  <2>1. Queued(h) \subseteq Group /\ \A i \in worker[h].items : GroupOf(i) \in Group
    BY <1>1, HeldGroups, Groups, Zenon DEF LaunchInv, WorkerState, Item
  <2>2. \A g \in Unspawned(h)' : proc'[g].state = "none"
    <3>1. \A g \in Queued(h) : g \in Group /\ proc[g].state = "none"
      BY <1>1, <1>3, <2>1, Zenon DEF InOrder
    <3>2. \A g \in Group : proc[g].state = "none" => proc'[g].state = "none"
      BY <1>4, Zenon
    <3>3. QED
      BY <1>3, <3>1, <3>2, Zenon
  <2>3. \A i \in worker'[h].items : i.outcome # None => Gone(GroupOf(i))'
    BY <1>1, <1>3, <1>5, <2>1, Zenon DEF InOrder, Gone, GroupOf, Settles
  <2>4. c # None
    BY <1>1, Zenon DEF InOrder, Launching
  <2>5. \A c1, c2 \in worker'[h].batch : GroupOf(c1)' = GroupOf(c2)' => c1 = c2
    BY <1>1, <1>3, Zenon DEF InOrder, GroupOf
  <2>6. QED
    BY <1>2, <1>3, <1>4, <2>2, <2>3, <2>4, <2>5, Zenon DEF InOrder, Launching, GroupOf
<1>9. QED
  BY <1>6, <1>7, <1>8, Releasing, Following, Zenon DEF LaunchInv

\* A command without a pump is reaped.
LEMMA ReapKeepsInv ==
    ASSUME LaunchInv, NEW h \in Host, ReapLaunch(h)
    PROVE  LaunchInv'
BY Reaping, Zenon DEF ReapLaunch, GroupOf, ledger, owner

\* The command is marked as running, or reaped when its claim was lost.
LEMMA MarkKeepsInv ==
    ASSUME LaunchInv, NEW h \in Host, MarkRunning(h)
    PROVE  LaunchInv'
<1> DEFINE c == worker[h].cur
           kept == res[c.job].status = "active" /\ job[c.job].status = "claimed" /\ job[c.job].n = c.n
           item == [job |-> c.job, n |-> c.n, end |-> c.end, reason |-> None, asked |-> "no",
                    outcome |-> None]
           items == {i \in worker[h].items : i.job # c.job} \cup {item}
           g0 == GroupOf(c)
<1>1. Types /\ worker[h] \in WorkerState /\ InOrder(h) /\ worker[h].pc = "mark"
  BY Zenon DEF LaunchInv, Types, MarkRunning
<1>2. UNCHANGED <<clock, res, claims, risked>>
  BY Zenon DEF MarkRunning, owner
<1>3. c \in Claim /\ g0 \in Group /\ g0 \notin Queued(h)
  BY <1>1, Starting, Zenon DEF Launching
<1>4. CASE kept
  <2>1. job' = [job EXCEPT ![c.job].status = "running"] /\ NextClaim(h, items) /\ proc' = proc
    BY <1>4, Zenon DEF MarkRunning
  <2>2. item \in Item /\ item.outcome = None
    BY <1>3, Zenon DEF Claim, Item
  <2> HIDE DEF item
  <2>3. items \in SUBSET Item
    BY <1>1, <2>2, Zenon DEF WorkerState
  <2>4. \A i \in items : i.outcome # None => i \in worker[h].items
    BY <2>2, Zenon
  <2> HIDE DEF items
  <2>5. /\ worker' \in [Host -> WorkerState]
        /\ worker'[h].pc \notin Launching /\ worker'[h].cur = None
        /\ worker'[h].batch = worker[h].batch /\ worker'[h].items = items
        /\ \A x \in Host \ {h} : worker'[x] = worker[x]
    BY <1>1, <2>1, <2>3, NextUp, Zenon
  <2>6. QuietMove(h)
    BY <1>1, <1>2, <2>1, <2>4, <2>5, Zenon DEF QuietMove, Settles, InOrder, Gone, GroupOf
  <2>7. /\ job' \in [Job -> JobState]
        /\ \A j \in Job : /\ job'[j].n = job[j].n
                          /\ job[j].status \in Busy => job'[j].status \in Busy
    <3>1. PICK j0 \in Job : j0 = c.job
      BY <1>3, Zenon DEF Claim
    <3>2. job' = [job EXCEPT ![j0].status = "running"]
      BY <2>1, <3>1, Zenon
    <3>3. QED
      BY <1>1, <3>2 DEF Types, JobState, JobStatus, Busy
  <2>8. Types' /\ RecordsFollow
    BY <1>1, <1>2, <2>1, <2>5, <2>7, Zenon DEF Types, RecordsFollow
  <2>9. QED
    BY <2>6, <2>8, QuietStep, Zenon
<1>5. CASE ~kept
  BY <1>1, <1>2, <1>5, Reaping, Zenon DEF MarkRunning, GroupOf
<1>6. QED
  BY <1>4, <1>5, Zenon

\* A launch is given up, or has failed.
LEMMA GiveUpKeepsInv ==
    ASSUME LaunchInv, NEW h \in Host, AbortClaim(h) \/ LaunchFailed(h)
    PROVE  LaunchInv'
<1>1. Types /\ worker[h] \in WorkerState /\ InOrder(h) /\ worker[h].pc \in {"abort", "failed"}
  BY Zenon DEF LaunchInv, Types, AbortClaim, LaunchFailed
<1>2. UNCHANGED <<clock, res, claims, proc, risked>> /\ NextClaim(h, worker[h].items)
  BY Zenon DEF AbortClaim, LaunchFailed, owner
<1>3. PICK c \in Claim : c = worker[h].cur
  BY <1>1, Starting, Zenon DEF Launching
<1>4. PICK g0 \in Group : g0 = GroupOf(c)
  BY <1>3, Groups, Zenon DEF Claim
<1>5. /\ g0[1] = c.job /\ g0[2] = c.n /\ g0 \notin Queued(h)
      /\ \A x \in Host \ {h} : g0 \notin Unspawned(x)
  BY <1>1, <1>3, <1>4, Starting, Zenon DEF Launching
<1>6. PICK j0 \in Job : j0 = c.job
  BY Zenon DEF Claim
<1>7. PICK status \in {"cancelled", "missed", "uncertain", "failed"} :
        \/ job' = job
        \/ job[j0].n = c.n /\ job' = [job EXCEPT ![j0].status = status]
  BY <1>3, <1>6, Zenon DEF AbortClaim, LaunchFailed
<1>8. /\ job' \in [Job -> JobState] /\ \A j \in Job : job'[j].n = job[j].n
      /\ \A j \in Job : job'[j] = job[j] \/ (j = j0 /\ job[j0].n = c.n)
  <2>1. CASE job' = job
    BY <1>1, <2>1, Zenon DEF Types
  <2>2. CASE job[j0].n = c.n /\ job' = [job EXCEPT ![j0].status = status]
    <3>1. \A j \in Job \ {j0} : job'[j] = job[j]
      BY <1>1, <2>2, Zenon DEF Types
    <3>2. job[j0] \in JobState /\ job'[j0] = [job[j0] EXCEPT !.status = status]
      BY <1>1, <2>2, Zenon DEF Types
    <3>3. job'[j0] \in JobState /\ job'[j0].n = job[j0].n
      BY <3>2, Zenon DEF JobState, JobStatus
    <3>4. job' = [j \in Job |-> job'[j]]
      BY <1>1, <2>2, Zenon DEF Types
    <3>5. \A j \in Job : job'[j] \in JobState
      BY <1>1, <3>1, <3>3, Zenon DEF Types
    <3>6. QED
      BY <2>2, <3>1, <3>3, <3>4, <3>5, Zenon
  <2>3. QED
    BY <1>7, <2>1, <2>2, Zenon
<1>9. /\ worker' \in [Host -> WorkerState]
      /\ worker'[h].pc \notin Launching /\ worker'[h].cur = None
      /\ worker'[h].batch = worker[h].batch /\ worker'[h].items = worker[h].items
      /\ \A x \in Host \ {h} : worker'[x] = worker[x]
  BY <1>1, <1>2, NextUp, Zenon DEF WorkerState
<1>10. QuietMove(h)
  BY <1>1, <1>2, <1>9, Zenon DEF QuietMove, Settles, InOrder, Gone, GroupOf
<1>11. Types'
  BY <1>1, <1>2, <1>8, <1>9, Zenon DEF Types
<1>12. ~Active(g0)'
  <2>1. proc'[g0].state # "running"
    BY <1>1, <1>2, <1>3, <1>4, Zenon DEF InOrder
  <2>2. \A x \in Host : g0 \notin Unspawned(x)'
    BY <1>5, <1>9, Zenon DEF Unspawned, Queued, Launching, GroupOf
  <2>3. QED
    BY <2>1, <2>2, Zenon DEF Active
<1>13. RecordsFollow
  <2>1. \A g \in Group : g[1] = j0 /\ g[2] = c.n => g = g0
    BY <1>4, <1>5, <1>6 DEF Group
  <2>2. QED
    BY <1>2, <1>8, <1>12, <2>1, Zenon DEF RecordsFollow
<1>14. QED
  BY <1>10, <1>11, <1>13, QuietStep, Zenon

-----------------------------------------------------------------------------
\* The invariant holds of every behaviour of the workers, however many hosts and jobs.
THEOREM AlwaysLaunchInv == Spec => []LaunchInv
<1>1. Init => LaunchInv
  <2> SUFFICES ASSUME Init PROVE LaunchInv
    BY Zenon
  <2>0. 0 \in 0 .. MaxClaims /\ \A j \in Job : End[j] \in Nat
    BY WorkerAssumption
  <2>1. NoWorker \in WorkerState /\ NewJob \in JobState
    <3>1. NoWorker \in WorkerState
      BY Zenon DEF NoWorker, WorkerState
    <3>2. NewJob \in JobState
      BY <2>0, Zenon DEF NewJob, JobState, JobStatus, Recoveries
    <3>3. QED
      BY <3>1, <3>2, Zenon
  <2>2. Types
    <3>1. /\ clock \in Nat /\ claims \in [Job -> 0 .. MaxClaims]
          /\ res \in [Job -> ResState]
      BY <2>0, Zenon DEF Init, ResState
    <3>2. proc \in [Group -> ProcState] /\ risked \in SUBSET Job
      BY Zenon DEF Init, ProcState
    <3>3. job \in [Job -> JobState] /\ worker \in [Host -> WorkerState]
      BY <2>1, Zenon DEF Init
    <3>4. QED
      BY <3>1, <3>2, <3>3, Zenon DEF Types
  <2>3. \A h \in Host : worker[h] = NoWorker /\ Queued(h) = {} /\ Held(h) = {} /\ Unspawned(h) = {}
    BY Zenon DEF Init, NoWorker, Queued, Held, Unspawned, Launching
  <2>4. \A g \in Group : proc[g].state = "none"
    BY Zenon DEF Init
  <2>5. Drawn /\ OneHolder /\ Current
    BY <2>3, <2>4, Zenon DEF Drawn, OneHolder, Current, Active
  <2>6. \A h \in Host : InOrder(h)
    <3>1. NoWorker.pc = "off" /\ NoWorker.cur = None /\ NoWorker.batch = {} /\ NoWorker.items = {}
      BY Zenon DEF NoWorker
    <3>2. QED
      BY <2>3, <3>1, Zenon DEF InOrder, Launching
  <2>7. QED
    BY <2>2, <2>5, <2>6, Zenon DEF LaunchInv
<1>2. LaunchInv /\ [Next]_vars => LaunchInv'
  <2> SUFFICES ASSUME LaunchInv, [Next]_vars PROVE LaunchInv'
    BY Zenon
  <2>1. ASSUME NEW h \in Host, Step(h) PROVE LaunchInv'
    BY <2>1, StartKeepsInv, RecordKeepsInv, RecoveryKeepsInv, ReconcileKeepsInv, CompleteKeepsInv,
       StopKeepsInv, GiveUpJobsKeepsInv, ClaimKeepsInv, PrepareKeepsInv, SpawnKeepsInv, ReapKeepsInv,
       MarkKeepsInv, GiveUpKeepsInv, Zenon DEF Step
  <2>2. ASSUME NEW h \in Host, GraceElapses(h) \/ StopSignal(h) \/ Crash(h) \/ FatalError(h)
        PROVE  LaunchInv'
    BY <2>2, NoticesKeepInv, CrashKeepsInv, FatalKeepsInv, Zenon
  <2>3. ASSUME NEW j \in Job, Cancel(j) \/ \E e \in Ends : EditEnd(j, e) PROVE LaunchInv'
    BY <2>3, BookingsKeepInv, Zenon
  <2>4. ASSUME NEW j \in Job, NEW accept \in BOOLEAN, Retry(j, accept) PROVE LaunchInv'
    BY <2>4, RetryKeepsInv, Zenon
  <2>5. ASSUME NEW g \in Group, Exit(g) PROVE LaunchInv'
    BY <2>5, ExitKeepsInv, Zenon
  <2>6. CASE OtherBooking \/ Tick
    BY <2>6, BookingsKeepInv, TickKeepsInv, Zenon
  <2>7. CASE UNCHANGED vars
    <3>1. UNCHANGED <<clock, res, job, claims, proc, worker, risked>>
      BY <2>7, Zenon DEF vars, ledger, owner
    <3>2. Types' /\ \A h \in Host : Held(h)' = Held(h) /\ Unspawned(h)' = Unspawned(h)
      BY <3>1, Zenon DEF LaunchInv, Types, Held, Unspawned, Queued, GroupOf
    <3>3. Drawn' /\ OneHolder' /\ Current'
      BY <3>1, <3>2, Zenon DEF LaunchInv, Drawn, OneHolder, Current, Active
    <3>4. \A h \in Host : InOrder(h)'
      BY <3>1, ZenonT(30) DEF LaunchInv, InOrder, Unspawned, Queued, GroupOf, Gone
    <3>5. QED
      BY <3>2, <3>3, <3>4, Zenon DEF LaunchInv
  <2>8. QED
    BY <2>1, <2>2, <2>3, <2>4, <2>5, <2>6, <2>7, Zenon DEF Next
<1>3. QED
  BY <1>1, <1>2, PTL DEF Spec

\* A command never runs twice at the same time, whatever crashes, restarts, recovers or is
\* retried, unless its owner accepted the risk.
THEOREM NeverTwice == Spec => []SingleLaunch
<1>1. LaunchInv => SingleLaunch
  <2> SUFFICES ASSUME LaunchInv, NEW g1 \in Group, NEW g2 \in Group, g1[1] = g2[1],
                      proc[g1].state = "running", proc[g2].state = "running", g1[1] \notin risked
               PROVE  g1 = g2
    BY Zenon DEF SingleLaunch
  <2>1. g1[2] = job[g1[1]].n /\ g2[2] = job[g1[1]].n
    BY Zenon DEF LaunchInv, Current, Active
  <2>2. QED
    BY <2>1 DEF Group
<1>2. QED
  BY <1>1, AlwaysLaunchInv, PTL

\* A job that the ledger reports as finished has no running command behind it.
THEOREM FinishedMeansOver == Spec => []FinishedIsQuiet
<1>1. LaunchInv => FinishedIsQuiet
  <2> SUFFICES ASSUME LaunchInv, NEW j \in Job, job[j].n > 0,
                      proc[<<j, job[j].n>>].state = "running"
               PROVE  job[j].status \in Busy
    BY Zenon DEF FinishedIsQuiet, Busy
  <2>1. <<j, job[j].n>> \in Group
    BY WorkerAssumption DEF LaunchInv, Types, JobState, Group
  <2>2. QED
    BY <2>1, Zenon DEF LaunchInv, Current, Active
<1>2. QED
  BY <1>1, AlwaysLaunchInv, PTL

-----------------------------------------------------------------------------
(* Commands that lost their worker.                                        *)

\* A lease is no younger than its host's worker, and a worker that is about to record its
\* decisions holds no lease and no command.
Leases ==
    /\ \A j \in Job : job[j].lease # None => job[j].lease[2] <= worker[job[j].lease[1]].k
    /\ \A h \in Host : worker[h].pc = "record" =>
          worker[h].items = {} /\ \A j \in Job : job[j].lease # LeaseOf(h)

\* A command that its host's worker does not supervise is flagged, or about to be.
Flagged ==
    \A g \in Group, h \in Host :
        /\ proc[g].state = "running" /\ proc[g].host = h /\ g \notin Supervised(h)
        /\ worker[h].pc # "off" /\ g[1] \notin risked
        => \/ job[g[1]].status \in {"uncertain", "missed"}
           \/ worker[h].pc = "record" /\ \E x \in worker[h].plan : x[1] = g[1]

\* The inductive invariant behind OrphansAreFlagged.
OrphanInv == LaunchInv /\ Leases /\ Flagged

\* A worker that does not end its recovery, and loses sight of no command.
Watches(h) ==
    \/ worker'[h].pc = "off"
    \/ /\ worker[h].pc # "off"
       /\ worker[h].pc = "record" => worker'[h].pc = "record" /\ worker'[h].plan = worker[h].plan
       /\ \A g \in Group :
             g \in Supervised(h) /\ proc'[g].state = "running" /\ g[1] \notin risked'
             => g \in Supervised(h)'

\* No command starts, and the flag of a running command stays.
FlagsStay ==
    /\ risked \subseteq risked'
    /\ \A g \in Group : proc'[g].state = "running" => proc'[g] = proc[g]
    /\ \A g \in Group :
          /\ proc'[g].state = "running" /\ g[1] \notin risked'
          /\ job[g[1]].status \in {"uncertain", "missed"}
          => job'[g[1]].status \in {"uncertain", "missed"}

\* Such a step leaves no orphan without a flag.
LEMMA FlagsHold ==
    ASSUME Flagged, FlagsStay, \A h \in Host : worker'[h] = worker[h] \/ Watches(h)
    PROVE  Flagged'
<1> SUFFICES ASSUME NEW g \in Group, NEW h \in Host, proc'[g].state = "running", proc'[g].host = h,
                    g \notin Supervised(h)', worker'[h].pc # "off", g[1] \notin risked'
             PROVE  \/ job'[g[1]].status \in {"uncertain", "missed"}
                    \/ worker'[h].pc = "record" /\ \E x \in worker'[h].plan : x[1] = g[1]
  BY Zenon DEF Flagged
<1>1. proc[g].state = "running" /\ proc[g].host = h /\ g[1] \notin risked
  BY Zenon DEF FlagsStay
<1>2. /\ g \notin Supervised(h) /\ worker[h].pc # "off"
      /\ worker[h].pc = "record" => worker'[h].pc = "record" /\ worker'[h].plan = worker[h].plan
  BY Zenon DEF Watches, Supervised
<1>3. QED
  BY <1>1, <1>2, ZenonT(30) DEF Flagged, FlagsStay

\* No worker starts, and no lease is recorded with a job.
LeasesStay ==
    /\ \A j \in Job : job'[j].lease \in {job[j].lease, None}
    /\ \A h \in Host : /\ worker'[h].k = worker[h].k
                       /\ worker'[h].pc = "record" =>
                             worker[h].pc = "record" /\ worker'[h].items = worker[h].items

\* Such a step keeps the leases in order.
LEMMA LeasesHold ==
    ASSUME Types, Types', Leases, LeasesStay
    PROVE  Leases'
<1>1. ASSUME NEW j \in Job, job'[j].lease # None
      PROVE  job'[j].lease[2] <= worker'[job'[j].lease[1]].k
  <2>1. job'[j].lease = job[j].lease
    BY <1>1, Zenon DEF LeasesStay
  <2>2. job[j].lease \in LeaseId
    BY <1>1, <2>1, Zenon DEF Types, JobState
  <2>3. job[j].lease[1] \in Host
    BY <2>2, Zenon DEF LeaseId
  <2>4. QED
    BY <1>1, <2>1, <2>3, Zenon DEF Leases, LeasesStay
<1>2. ASSUME NEW h \in Host, worker'[h].pc = "record"
      PROVE  worker'[h].items = {} /\ \A j \in Job : job'[j].lease # <<h, worker'[h].k>>
  <2>1. /\ worker'[h].items = {} /\ worker'[h].k = worker[h].k
        /\ \A j \in Job : job[j].lease # <<h, worker[h].k>>
    BY <1>2, Zenon DEF Leases, LeaseOf, LeasesStay
  <2>2. <<h, worker'[h].k>> # None
    <3>1. worker'[h].k \in Nat
      BY Zenon DEF Types, WorkerState
    <3>2. <<h, worker'[h].k>> \in Host \X Nat
      BY <3>1, Zenon
    <3>3. QED
      BY <3>2, WorkerAssumption, Zenon
  <2>3. QED
    BY <2>1, <2>2, Zenon DEF LeasesStay
<1>3. QED
  BY <1>1, <1>2, Zenon DEF Leases, LeaseOf

\* Bookings, retries, exits and the clock leave the workers alone.
LEMMA LedgerKeepsFlags ==
    ASSUME Types, Types', Leases, Flagged,
           \/ OtherBooking \/ Tick
           \/ \E j \in Job : Cancel(j) \/ \E e \in Ends : EditEnd(j, e)
           \/ \E j \in Job, accept \in BOOLEAN : Retry(j, accept)
           \/ \E g \in Group : Exit(g)
    PROVE  Leases' /\ Flagged'
<1>1. worker' = worker
  BY Zenon DEF OtherBooking, Tick, Cancel, EditEnd, Retry, Exit
<1>2. \A g \in Group : g[1] \in Job
  BY Zenon DEF Group
<1>3. CASE OtherBooking \/ \E j \in Job : Cancel(j) \/ \E e \in Ends : EditEnd(j, e)
  <2>1. proc' = proc /\ risked' = risked
    BY <1>3, Zenon DEF OtherBooking, Cancel, EditEnd, owner
  <2>2. \A j \in Job : /\ ExpiredJob[j] \in JobState /\ ExpiredJob[j].lease = job[j].lease
                       /\ job[j].status \in {"uncertain", "missed"} => ExpiredJob[j] = job[j]
    BY Expiry, Zenon
  <2>3. \A j \in Job : \/ job'[j] = ExpiredJob[j]
                       \/ /\ ExpiredJob[j].status = "pending"
                          /\ job'[j] = [ExpiredJob[j] EXCEPT !.status = "cancelled"]
    <3>1. CASE job' = ExpiredJob
      BY <3>1, Zenon
    <3>2. ASSUME NEW j0 \in Job, Cancel(j0) PROVE <2>3
      <4>1. job' = [ExpiredJob EXCEPT ![j0].status = IF @ = "pending" THEN "cancelled" ELSE @]
            /\ ExpiredJob \in [Job -> JobState]
        BY <3>2, Expiry, Zenon DEF Cancel
      <4>2. QED
        BY <4>1, Zenon DEF JobState
    <3>3. QED
      BY <1>3, <3>1, <3>2, Zenon DEF OtherBooking, EditEnd
  <2>4. \A j \in Job : /\ job'[j].lease = job[j].lease
                       /\ job[j].status \in {"uncertain", "missed"} =>
                             job'[j].status \in {"uncertain", "missed"}
    BY <2>2, <2>3, Zenon DEF JobState
  <2>5. FlagsStay /\ LeasesStay
    BY <1>1, <1>2, <2>1, <2>4, Zenon DEF FlagsStay, LeasesStay
  <2>6. QED
    BY <1>1, <2>5, FlagsHold, LeasesHold, Zenon
<1>4. CASE Tick \/ \E g \in Group : Exit(g)
  <2>1. job' = job /\ risked' = risked
    BY <1>4, Zenon DEF Tick, Exit, ledger, owner
  <2>2. \A g \in Group : proc'[g].state = "running" => proc'[g] = proc[g]
    BY <1>4 DEF Tick, Exit, Types, ProcState
  <2>3. FlagsStay /\ LeasesStay
    BY <1>1, <2>1, <2>2, Zenon DEF FlagsStay, LeasesStay
  <2>4. QED
    BY <1>1, <2>3, FlagsHold, LeasesHold, Zenon
<1>5. ASSUME NEW j \in Job, NEW accept \in BOOLEAN, Retry(j, accept) PROVE Leases' /\ Flagged'
  <2>1. /\ job' = [job EXCEPT ![j] = NewJob] /\ proc' = proc /\ risked \subseteq risked'
        /\ job[j].status \in {"uncertain", "missed"} => j \in risked'
    BY <1>5, Zenon DEF Retry, Retryable
  <2>2. FlagsStay /\ LeasesStay
    BY <1>1, <1>2, <2>1, Zenon DEF FlagsStay, LeasesStay, Types, NewJob
  <2>3. QED
    BY <1>1, <2>2, FlagsHold, LeasesHold, Zenon
<1>6. QED
  BY <1>3, <1>4, <1>5, Zenon

\* A worker that works on, or ends, and changes the status and the lease of no job.
SteadyMove(h) ==
    /\ \A x \in Host \ {h} : worker'[x] = worker[x]
    /\ worker'[h].k = worker[h].k
    /\ \/ worker'[h].pc = "off"
       \/ /\ worker[h].pc \notin {"off", "record"} /\ worker'[h].pc # "record"
          /\ \A i \in worker[h].items : \E e \in worker'[h].items : GroupOf(e) = GroupOf(i)
          /\ \/ worker[h].cur \in {None, worker'[h].cur}
             \/ proc'[GroupOf(worker[h].cur)].state # "running"
    /\ risked' = risked
    /\ \A j \in Job : job'[j].status = job[j].status /\ job'[j].lease = job[j].lease
    /\ \A g \in Group : proc'[g].state = "running" => proc'[g] = proc[g]

\* It keeps watch.
LEMMA Steady ==
    ASSUME Types, Types', Leases, Flagged, NEW h \in Host, SteadyMove(h)
    PROVE  Leases' /\ Flagged'
<1>1. FlagsStay /\ LeasesStay
  BY Zenon DEF SteadyMove, FlagsStay, LeasesStay, Group
<1>2. Watches(h)
  <2>1. CASE worker'[h].pc = "off"
    BY <2>1, Zenon DEF SteadyMove, Watches
  <2>2. CASE worker'[h].pc # "off"
    <3>1. ASSUME NEW g \in Group, g \in Supervised(h), proc'[g].state = "running"
          PROVE  g \in Supervised(h)'
      <4>1. Supervised(h) = {GroupOf(i) : i \in worker[h].items}
              \cup (IF worker[h].cur = None THEN {} ELSE {GroupOf(worker[h].cur)})
        BY Zenon DEF Supervised, GroupOf
      <4>2. Supervised(h)' = {GroupOf(i) : i \in worker'[h].items}
              \cup (IF worker'[h].cur = None THEN {} ELSE {GroupOf(worker'[h].cur)})
        BY Zenon DEF Supervised, GroupOf
      <4>3. CASE \E i \in worker[h].items : g = GroupOf(i)
        BY <2>2, <4>2, <4>3, Zenon DEF SteadyMove
      <4>4. CASE worker[h].cur # None /\ g = GroupOf(worker[h].cur)
        BY <2>2, <3>1, <4>2, <4>4, Zenon DEF SteadyMove
      <4>5. QED
        BY <3>1, <4>1, <4>3, <4>4, Zenon
    <3>2. QED
      BY <2>2, <3>1, Zenon DEF SteadyMove, Watches
  <2>3. QED
    BY <2>1, <2>2, Zenon
<1>3. QED
  BY <1>1, <1>2, FlagsHold, LeasesHold, Zenon DEF SteadyMove

\* A worker starts: every running command of its host is flagged or a candidate.
LEMMA StartKeepsFlags ==
    ASSUME LaunchInv, LaunchInv', Leases, Flagged, NEW h \in Host, StartWorker(h)
    PROVE  Leases' /\ Flagged'
<1>1. Types /\ worker[h].k \in Nat
  BY Zenon DEF LaunchInv, Types, WorkerState
<1>2. UNCHANGED <<job, proc, risked>>
  BY Zenon DEF StartWorker, ledger, owner
<1>3. PICK plan :
        /\ \A j \in Job : Candidate(j) => \E x \in plan : x[1] = j
        /\ worker' = [worker EXCEPT ![h] = Fresh(IF plan = {} THEN "loop" ELSE "record",
                                                 worker[h].k + 1, clock, plan)]
  <2>1. PICK seen \in BOOLEAN, hidden \in SUBSET Group :
          LET plan == {<<j, Decision(h, j, seen, hidden)>> : j \in {x \in Job : Candidate(x)}}
          IN  worker' = [worker EXCEPT ![h] = Fresh(IF plan = {} THEN "loop" ELSE "record",
                                                    worker[h].k + 1, clock, plan)]
    BY Zenon DEF StartWorker, Fresh
  <2> DEFINE p == {<<j, Decision(h, j, seen, hidden)>> : j \in {x \in Job : Candidate(x)}}
  <2>2. ASSUME NEW j \in Job, Candidate(j) PROVE \E x \in p : x[1] = j
    <3>1. <<j, Decision(h, j, seen, hidden)>> \in p
      BY <2>2, Zenon
    <3>2. QED
      BY <3>1, Zenon
  <2>3. worker' = [worker EXCEPT ![h] = Fresh(IF p = {} THEN "loop" ELSE "record",
                                              worker[h].k + 1, clock, p)]
    BY <2>1, Zenon
  <2> HIDE DEF p
  <2>4. QED
    BY <2>2, <2>3, Zenon
<1> DEFINE pc == IF plan = {} THEN "loop" ELSE "record"
           k == worker[h].k + 1
<1>4. worker'[h] = Fresh(pc, k, clock, plan) /\ \A x \in Host \ {h} : worker'[x] = worker[x]
  BY <1>1, <1>3, Zenon DEF Types
<1>5. k \in Nat /\ k > worker[h].k /\ (pc # "record" => pc = "loop" /\ plan = {})
  BY <1>1
<1> HIDE DEF pc, k
<1>6. /\ worker'[h].pc = pc /\ worker'[h].k = k /\ worker'[h].plan = plan /\ worker'[h].items = {}
  BY <1>4, Zenon DEF Fresh, NoWorker
<1>7. Leases'
  <2>1. \A j \in Job : job[j].lease # None => job[j].lease \in LeaseId
    BY <1>1, Zenon DEF Types, JobState
  <2>2. ASSUME NEW j \in Job, job[j].lease # None
        PROVE  /\ job[j].lease[2] <= worker'[job[j].lease[1]].k
               /\ job[j].lease # <<h, k>>
    <3>1. /\ job[j].lease[1] \in Host /\ job[j].lease[2] \in Nat
          /\ job[j].lease[2] <= worker[job[j].lease[1]].k
      BY <2>1, <2>2, Zenon DEF LeaseId, Leases
    <3>2. CASE job[j].lease[1] = h
      BY <1>1, <1>5, <1>6, <3>1, <3>2
    <3>3. CASE job[j].lease[1] # h
      BY <1>4, <3>1, <3>3
    <3>4. QED
      BY <3>2, <3>3, Zenon
  <2>3. None # <<h, k>>
    BY <1>5, WorkerAssumption
  <2>4. \A j \in Job : job[j].lease # <<h, k>>
    BY <2>2, <2>3, Zenon
  <2>5. \A x \in Host \ {h} : worker'[x].pc = "record" =>
            worker'[x].items = {} /\ \A j \in Job : job'[j].lease # <<x, worker'[x].k>>
    BY <1>2, <1>4, Zenon DEF Leases, LeaseOf
  <2>6. QED
    BY <1>2, <1>6, <2>2, <2>4, <2>5, Zenon DEF Leases, LeaseOf
<1>8. Flagged'
  <2> SUFFICES ASSUME NEW g \in Group, NEW x \in Host, proc'[g].state = "running", proc'[g].host = x,
                      g \notin Supervised(x)', worker'[x].pc # "off", g[1] \notin risked'
               PROVE  \/ job'[g[1]].status \in {"uncertain", "missed"}
                      \/ worker'[x].pc = "record" /\ \E y \in worker'[x].plan : y[1] = g[1]
    BY Zenon DEF Flagged
  <2>1. CASE x # h
    <3>1. worker'[x] = worker[x] /\ Supervised(x)' = Supervised(x)
      BY <1>4, <2>1, Zenon DEF Supervised
    <3>2. QED
      BY <1>2, <3>1, ZenonT(30) DEF Flagged
  <2>2. CASE x = h
    <3>1. g[1] \in Job /\ job[g[1]].status \in Busy
      BY <1>2, Zenon DEF LaunchInv, Current, Active, Group
    <3>2. CASE job[g[1]].status \in {"uncertain", "missed"}
      BY <1>2, <3>2, Zenon
    <3>3. CASE job[g[1]].status \in {"claimed", "running"}
      <4>1. \E y \in plan : y[1] = g[1]
        BY <1>3, <3>1, <3>3, Zenon DEF Candidate
      <4>2. QED
        BY <1>5, <1>6, <2>2, <4>1, Zenon
    <3>4. QED
      BY <3>1, <3>2, <3>3, Zenon DEF Busy
  <2>3. QED
    BY <2>1, <2>2, Zenon
<1>9. QED
  BY <1>7, <1>8, Zenon

\* The decisions are recorded: every candidate that was found alive is flagged.
LEMMA RecordKeepsFlags ==
    ASSUME LaunchInv, LaunchInv', Leases, Flagged, NEW h \in Host, RecordDecisions(h)
    PROVE  Leases' /\ Flagged'
<1> DEFINE hit == {x \in worker[h].plan : /\ job[x[1]].status \in {"claimed", "running", "uncertain"}
                                          /\ job[x[1]].lease # LeaseOf(h)}
           decided(j) == \E x \in hit : x[1] = j
           decision(j) == (CHOOSE x \in hit : x[1] = j)[2]
<1>1. Types /\ Types' /\ worker[h] \in WorkerState
  BY Zenon DEF LaunchInv, Types
<1>2. /\ worker[h].pc = "record" /\ proc' = proc /\ risked' = risked
      /\ job' = [j \in Job |-> IF decided(j)
                               THEN [job[j] EXCEPT !.status = "uncertain", !.by = LeaseOf(h),
                                                   !.recovery = decision(j)] ELSE job[j]]
  BY Zenon DEF RecordDecisions, owner
<1>3. PICK doomed : worker' = [worker EXCEPT ![h].plan = doomed,
                                             ![h].pc = IF doomed = {} THEN "loop" ELSE "kill"]
  BY Zenon DEF RecordDecisions
<1>4. /\ worker'[h].pc \in {"loop", "kill"} /\ worker'[h].k = worker[h].k
      /\ worker'[h].items = worker[h].items /\ worker'[h].cur = worker[h].cur
      /\ \A x \in Host \ {h} : worker'[x] = worker[x]
  BY <1>1, <1>3, Zenon DEF Types, WorkerState
<1>5. \A j \in Job : \A x \in worker[h].plan :
          x[1] = j /\ job[j].status \in {"claimed", "running", "uncertain"} => decided(j)
  BY <1>2, Zenon DEF Leases
<1>6. \A j \in Job : decided(j) => job[j].status # "missed"
  BY Zenon
<1> HIDE DEF hit, decided, decision
<1>7. \A j \in Job : /\ job'[j].lease = job[j].lease
                     /\ decided(j) => job'[j].status = "uncertain"
                     /\ ~decided(j) => job'[j] = job[j]
  BY <1>1, <1>2, Zenon DEF Types, JobState
<1>8. LeasesStay
  BY <1>4, <1>7, Zenon DEF LeasesStay
<1>9. Flagged'
  <2> SUFFICES ASSUME NEW g \in Group, NEW x \in Host, proc'[g].state = "running", proc'[g].host = x,
                      g \notin Supervised(x)', worker'[x].pc # "off", g[1] \notin risked'
               PROVE  \/ job'[g[1]].status \in {"uncertain", "missed"}
                      \/ worker'[x].pc = "record" /\ \E y \in worker'[x].plan : y[1] = g[1]
    BY Zenon DEF Flagged
  <2>1. g[1] \in Job /\ job[g[1]].status \in Busy
    BY <1>2, Zenon DEF LaunchInv, Current, Active, Group
  <2>2. g \notin Supervised(x) /\ worker[x].pc # "off"
    BY <1>2, <1>4, Zenon DEF Supervised
  <2>3. \/ job[g[1]].status \in {"uncertain", "missed"}
        \/ worker[x].pc = "record" /\ \E y \in worker[x].plan : y[1] = g[1]
    BY <1>2, <2>2, Zenon DEF Flagged
  <2>4. CASE job[g[1]].status \in {"uncertain", "missed"}
    BY <1>7, <2>1, <2>4, Zenon
  <2>5. CASE x # h /\ worker[x].pc = "record" /\ \E y \in worker[x].plan : y[1] = g[1]
    BY <1>4, <2>5, Zenon
  <2>6. CASE x = h /\ \E y \in worker[x].plan : y[1] = g[1]
    BY <1>5, <1>7, <2>1, <2>6, Zenon DEF Busy
  <2>7. QED
    BY <2>3, <2>4, <2>5, <2>6, Zenon
<1>10. QED
  BY <1>1, <1>8, <1>9, LeasesHold, Zenon

\* The steps in which a worker works on, or ends.
LEMMA SteadySteps ==
    ASSUME LaunchInv, LaunchInv', Leases, Flagged, NEW h \in Host,
           \/ RecoverKill(h) \/ FinishRecovery(h) \/ Reconcile(h) \/ StopJobs(h) \/ GiveUpJobs(h)
           \/ PrepareLaunch(h) \/ GraceElapses(h) \/ Crash(h) \/ FatalError(h)
    PROVE  Leases' /\ Flagged'
<1>1. Types /\ Types' /\ worker[h] \in WorkerState /\ InOrder(h)
  BY Zenon DEF LaunchInv, Types
<1>2. risked' = risked
  BY Zenon DEF RecoverKill, FinishRecovery, Reconcile, StopJobs, GiveUpJobs, PrepareLaunch,
         GraceElapses, Crash,
         FatalError, owner
<1>3. \A j \in Job : job'[j].status = job[j].status /\ job'[j].lease = job[j].lease
  <2>1. CASE FinishRecovery(h)
    <3>1. \A j \in Job : \E r : job'[j] = job[j] \/ job'[j] = [job[j] EXCEPT !.recovery = r]
      BY <2>1, Zenon DEF FinishRecovery
    <3>2. \A j \in Job : job[j] \in JobState
      BY <1>1, Zenon DEF Types
    <3>3. QED
      BY <3>1, <3>2, Zenon DEF JobState
  <2>2. CASE ~FinishRecovery(h)
    BY <2>2, Zenon DEF RecoverKill, Reconcile, StopJobs, GiveUpJobs, PrepareLaunch, GraceElapses, Crash,
                FatalError, ledger
  <2>3. QED
    BY <2>1, <2>2, Zenon
<1>4. \A g \in Group : proc'[g].state = "running" => proc'[g] = proc[g]
  <2>1. ASSUME NEW groups, Kill(groups) PROVE <1>4
    BY <1>1, <2>1, Zenon DEF Kill, Types, ProcState
  <2>2. CASE proc' = proc
    BY <2>2, Zenon
  <2>3. QED
    BY <2>1, <2>2, Zenon DEF RecoverKill, FinishRecovery, Reconcile, StopJobs, GiveUpJobs, PrepareLaunch,
                      GraceElapses, Crash, FatalError
<1>5. CASE Crash(h)
           \/ worker' = [worker EXCEPT ![h] = [NoWorker EXCEPT !.k = worker[h].k]]
  <2>1. /\ worker'[h].pc = "off" /\ worker'[h].k = worker[h].k
        /\ \A x \in Host \ {h} : worker'[x] = worker[x]
    BY <1>1, <1>5, ZenonT(30) DEF Crash, NoWorker, Types
  <2>2. QED
    BY <1>1, <1>2, <1>3, <1>4, <2>1, Steady, Zenon DEF SteadyMove
<1>6. CASE RecoverKill(h) \/ FinishRecovery(h)
  <2>1. /\ worker[h].pc \in {"kill", "finish"} /\ worker'[h].pc \in {"finish", "loop"}
        /\ worker'[h].k = worker[h].k /\ worker'[h].items = worker[h].items
        /\ worker'[h].cur = worker[h].cur /\ \A x \in Host \ {h} : worker'[x] = worker[x]
    BY <1>1, <1>6 DEF RecoverKill, FinishRecovery, Types, WorkerState
  <2>2. SteadyMove(h)
    BY <1>2, <1>3, <1>4, <2>1, Zenon DEF SteadyMove
  <2>3. QED
    BY <1>1, <2>2, Steady, Zenon
<1>7. CASE PrepareLaunch(h)
  <2> PICK c \in worker[h].batch, pc \in {"spawn", "abort", "failed"} :
          worker' = [worker EXCEPT ![h].cur = c, ![h].batch = @ \ {c}, ![h].pc = pc]
    BY <1>7, Zenon DEF PrepareLaunch
  <2>1. /\ worker[h].pc = "launch" /\ worker'[h].pc \in {"spawn", "abort", "failed"}
        /\ worker'[h].k = worker[h].k /\ worker'[h].items = worker[h].items
        /\ \A x \in Host \ {h} : worker'[x] = worker[x]
    BY <1>1, <1>7, Zenon DEF PrepareLaunch, Types, WorkerState
  <2>2. worker[h].cur = None
    BY <1>1, <2>1, Zenon DEF InOrder, Launching
  <2>3. SteadyMove(h)
    BY <1>2, <1>3, <1>4, <2>1, <2>2, Zenon DEF SteadyMove
  <2>4. QED
    BY <1>1, <2>3, Steady, Zenon
<1>8. CASE Reconcile(h)
  <2> DEFINE noted(i) == [Noticed(i) EXCEPT !.outcome =
                            IF Exited(i) THEN CompletionStatus(Noticed(i)) ELSE None]
             items == {noted(i) : i \in worker[h].items}
  <2>1. /\ worker[h].pc = "loop"
        /\ worker' = [worker EXCEPT ![h].pc = "cycle", ![h].now = clock, ![h].items = items]
    BY <1>8, Zenon DEF Reconcile
  <2>2. ASSUME NEW i \in worker[h].items PROVE GroupOf(noted(i)) = GroupOf(i) /\ noted(i) \in items
    <3>1. i \in Item
      BY <1>1, Zenon DEF WorkerState
    <3>2. Noticed(i) \in Item /\ Noticed(i).job = i.job /\ Noticed(i).n = i.n
      BY <1>1, <3>1, Noting, Zenon
    <3>3. QED
      BY <3>2, Zenon DEF GroupOf, Item
  <2> HIDE DEF noted, items
  <2>3. /\ worker'[h].pc = "cycle" /\ worker'[h].k = worker[h].k /\ worker'[h].items = items
        /\ worker'[h].cur = worker[h].cur /\ \A x \in Host \ {h} : worker'[x] = worker[x]
    BY <1>1, <2>1, Zenon DEF Types, WorkerState
  <2>4. SteadyMove(h)
    BY <1>2, <1>3, <1>4, <2>1, <2>2, <2>3, Zenon DEF SteadyMove
  <2>5. QED
    BY <1>1, <2>4, Steady, Zenon
<1>9. CASE StopJobs(h)
  <2> DEFINE w == worker[h]
             items == IF w.stop = "signal" THEN AskedToStop(w.items, w.now) ELSE w.items
  <2>1. CASE worker' = [worker EXCEPT ![h] = [w EXCEPT !.pc = "loop", !.items = items]]
    <3>1. worker[h].pc = "cycle"
      BY <1>9, Zenon DEF StopJobs
    <3>2. \A i \in w.items : \E e \in items : GroupOf(e) = GroupOf(i)
      <4>1. \A i \in w.items : \E e \in AskedToStop(w.items, w.now) : GroupOf(e) = GroupOf(i)
        BY <1>1, Asking, Zenon DEF WorkerState
      <4>2. QED
        BY <4>1, Zenon
    <3> HIDE DEF items
    <3>3. /\ worker'[h].pc = "loop" /\ worker'[h].k = worker[h].k /\ worker'[h].items = items
          /\ worker'[h].cur = worker[h].cur /\ \A x \in Host \ {h} : worker'[x] = worker[x]
      BY <1>1, <2>1, Zenon DEF Types, WorkerState
    <3>4. SteadyMove(h)
      BY <1>2, <1>3, <1>4, <3>1, <3>2, <3>3, Zenon DEF SteadyMove
    <3>5. QED
      BY <1>1, <3>4, Steady, Zenon
  <2>2. QED
    BY <1>5, <1>9, <2>1, Zenon DEF StopJobs
<1>10. CASE GiveUpJobs(h)
  <2>1. /\ worker[h].pc = "loop" /\ worker'[h].pc = "loop" /\ worker'[h].k = worker[h].k
        /\ worker'[h].items = worker[h].items /\ worker'[h].cur = worker[h].cur
        /\ \A x \in Host \ {h} : worker'[x] = worker[x]
    BY <1>1, <1>10, Zenon DEF GiveUpJobs, Types, WorkerState
  <2>2. SteadyMove(h)
    BY <1>2, <1>3, <1>4, <2>1, Zenon DEF SteadyMove
  <2>3. QED
    BY <1>1, <2>2, Steady, Zenon
<1>11. CASE GraceElapses(h)
  <2>1. PICK i \in worker[h].items :
          worker' = [worker EXCEPT ![h].items = (@ \ {i}) \cup {[i EXCEPT !.asked = "elapsed"]}]
    BY <1>11, Zenon DEF GraceElapses
  <2> DEFINE e == [i EXCEPT !.asked = "elapsed"]
  <2>2. GroupOf(e) = GroupOf(i) /\ worker' = [worker EXCEPT ![h].items = (@ \ {i}) \cup {e}]
    BY <1>1, <2>1, Zenon DEF WorkerState, Item, GroupOf
  <2> HIDE DEF e
  <2>3. /\ worker'[h].pc = worker[h].pc /\ worker'[h].k = worker[h].k
        /\ worker'[h].items = (worker[h].items \ {i}) \cup {e}
        /\ worker'[h].cur = worker[h].cur /\ \A x \in Host \ {h} : worker'[x] = worker[x]
    BY <1>1, <2>2, Zenon DEF Types, WorkerState
  <2>4. worker[h].pc # "record"
    BY Zenon DEF Leases
  <2>5. \A y \in worker[h].items : \E z \in worker'[h].items : GroupOf(z) = GroupOf(y)
    BY <2>2, <2>3, Zenon
  <2>6. SteadyMove(h)
    BY <1>2, <1>3, <1>4, <2>3, <2>4, <2>5, Zenon DEF SteadyMove
  <2>7. QED
    BY <1>1, <2>6, Steady, Zenon
<1>12. CASE FatalError(h) /\ worker' = [worker EXCEPT ![h] =
               [@ EXCEPT !.pc = "loop", !.stop = "error", !.batch = {}, !.cur = None,
                         !.items = AskedToStop(worker[h].items, clock)]]
  <2> DEFINE items == AskedToStop(worker[h].items, clock)
  <2>0. \A i \in worker[h].items : \E e \in items : GroupOf(e) = GroupOf(i)
    BY <1>1, Asking, Zenon DEF WorkerState
  <2> HIDE DEF items
  <2>1. /\ worker'[h].pc = "loop" /\ worker'[h].k = worker[h].k
        /\ worker'[h].items = items /\ worker'[h].cur = None
        /\ \A x \in Host \ {h} : worker'[x] = worker[x]
    <3>1. worker' = [worker EXCEPT ![h] =
                       [worker[h] EXCEPT !.pc = "loop", !.stop = "error", !.batch = {}, !.cur = None,
                                         !.items = items]]
      BY <1>12, Zenon DEF items
    <3>2. QED
      BY <1>1, <3>1, Zenon DEF Types, WorkerState
  <2>2. /\ worker[h].pc # "off" /\ worker[h].items # {}
        /\ Kill(Supervised(h) \ {GroupOf(i) : i \in worker[h].items})
    <3>1. worker' # [worker EXCEPT ![h] = [NoWorker EXCEPT !.k = worker[h].k]]
      <4>1. [NoWorker EXCEPT !.k = worker[h].k].pc = "off"
        BY Zenon DEF NoWorker
      <4>2. QED
        BY <1>1, <2>1, <4>1, Zenon DEF Types
    <3>2. QED
      BY <1>12, <3>1, Zenon DEF FatalError, GroupOf
  <2>3. worker[h].pc # "record"
    BY <2>2, Zenon DEF Leases
  <2>4. ASSUME worker[h].cur # None, GroupOf(worker[h].cur) \notin {GroupOf(i) : i \in worker[h].items}
        PROVE  proc'[GroupOf(worker[h].cur)].state # "running"
    <3>1. worker[h].pc \in Launching
      BY <1>1, <2>4, Zenon DEF InOrder
    <3>2. GroupOf(worker[h].cur) \in Group
      BY <3>1, Starting, Zenon
    <3>3. GroupOf(worker[h].cur) \in Supervised(h)
      BY <2>4, Zenon DEF Supervised, GroupOf
    <3>4. QED
      BY <1>1, <2>2, <2>4, <3>2, <3>3, Killing, Zenon
  <2>5. FlagsStay /\ LeasesStay
    BY <1>2, <1>3, <1>4, <2>1, Zenon DEF FlagsStay, LeasesStay, Group
  <2>6. Watches(h)
    <3>1. ASSUME NEW g \in Supervised(h), proc'[g].state = "running" PROVE g \in Supervised(h)'
      <4>1. PICK i \in worker[h].items : g = GroupOf(i)
        BY <2>4, <3>1, Zenon DEF Supervised, GroupOf
      <4>2. PICK e \in worker'[h].items : GroupOf(e) = g
        BY <2>0, <2>1, <4>1, Zenon
      <4>3. QED
        BY <4>2, Zenon DEF Supervised, GroupOf
    <3>2. QED
      BY <2>2, <2>3, <3>1, Zenon DEF Watches
  <2>7. QED
    BY <1>1, <2>1, <2>5, <2>6, FlagsHold, LeasesHold, Zenon
<1>13. QED
  BY <1>5, <1>6, <1>7, <1>8, <1>9, <1>10, <1>11, <1>12, Zenon DEF FatalError

\* A stop signal only sets a flag.
LEMMA SignalKeepsFlags ==
    ASSUME LaunchInv, LaunchInv', Leases, Flagged, NEW h \in Host, StopSignal(h)
    PROVE  Leases' /\ Flagged'
<1>1. Types /\ Types' /\ worker[h] \in WorkerState /\ worker[h].pc # "off"
  BY Zenon DEF LaunchInv, Types, StopSignal
<1>2. worker' = [worker EXCEPT ![h].stop = "signal"] /\ UNCHANGED <<job, proc, risked>>
  BY Zenon DEF StopSignal, ledger, owner
<1>3. /\ worker'[h].pc = worker[h].pc /\ worker'[h].plan = worker[h].plan
      /\ worker'[h].k = worker[h].k /\ worker'[h].items = worker[h].items
      /\ worker'[h].cur = worker[h].cur /\ \A x \in Host \ {h} : worker'[x] = worker[x]
  BY <1>1, <1>2, Zenon DEF Types, WorkerState
<1>4. FlagsStay /\ LeasesStay
  BY <1>2, <1>3, Zenon DEF FlagsStay, LeasesStay
<1>5. Watches(h)
  BY <1>1, <1>3, Zenon DEF Watches, Supervised
<1>6. QED
  BY <1>1, <1>3, <1>4, <1>5, FlagsHold, LeasesHold, Zenon

\* The token of a job that is not at risk belongs to its running command.
LEMMA Tokens ==
    ASSUME LaunchInv, NEW g \in Group, NEW c, c.job \in Job, c.n \in 1 .. MaxClaims,
           g[1] = c.job, job[c.job].n = c.n, proc[g].state = "running", c.job \notin risked
    PROVE  g = GroupOf(c)
<1>1. g[2] = c.n
  BY Zenon DEF LaunchInv, Current, Active
<1>2. QED
  BY <1>1 DEF Group, GroupOf

\* A command that has exited is no longer supervised, and needs no flag.
LEMMA CompleteKeepsFlags ==
    ASSUME LaunchInv, LaunchInv', Leases, Flagged, NEW h \in Host, CompleteJob(h)
    PROVE  Leases' /\ Flagged'
<1>1. Types /\ Types' /\ worker[h] \in WorkerState /\ InOrder(h)
  BY Zenon DEF LaunchInv, Types
<1>2. PICK i \in worker[h].items :
        /\ i.outcome # None
        /\ job' = IF job[i.job].n = i.n
                  THEN [job EXCEPT ![i.job] =
                          [@ EXCEPT !.status = i.outcome, !.recovery = None, !.by = None]]
                  ELSE job
        /\ worker' = [worker EXCEPT ![h].items = @ \ {i}]
  BY Zenon DEF CompleteJob
<1>3. worker[h].pc = "cycle" /\ UNCHANGED <<proc, risked>>
  BY Zenon DEF CompleteJob, owner
<1>4. i.job \in Job /\ i.n \in 1 .. MaxClaims
  BY <1>1, Zenon DEF WorkerState, Item
<1>5. GroupOf(i) \in Group /\ proc[GroupOf(i)].state # "running"
  BY <1>1, <1>2, <1>4, Groups, Zenon DEF InOrder, Gone
<1>6. /\ worker'[h].pc = "cycle" /\ worker'[h].k = worker[h].k
      /\ worker'[h].items = worker[h].items \ {i}
      /\ worker'[h].cur = worker[h].cur /\ \A x \in Host \ {h} : worker'[x] = worker[x]
  BY <1>1, <1>2, <1>3, Zenon DEF Types, WorkerState
<1>7. \A j \in Job : /\ job'[j].lease = job[j].lease
                     /\ job'[j] = job[j] \/ (j = i.job /\ job[j].n = i.n)
  BY <1>1, <1>2, <1>4, ZenonT(30) DEF Types, JobState
<1>8. \A g \in Group : proc[g].state = "running" /\ g[1] \notin risked => job'[g[1]] = job[g[1]]
  <2> SUFFICES ASSUME NEW g \in Group, proc[g].state = "running", g[1] \notin risked,
                      job'[g[1]] # job[g[1]]
               PROVE  FALSE
    BY Zenon
  <2>1. g[1] = i.job /\ job[i.job].n = i.n
    BY <1>7, Zenon DEF Group
  <2>2. g = GroupOf(i)
    BY <1>4, <2>1, Tokens, Zenon
  <2>3. QED
    BY <1>5, <2>2, Zenon
<1>9. FlagsStay /\ LeasesStay
  BY <1>3, <1>6, <1>7, <1>8, Zenon DEF FlagsStay, LeasesStay
<1>10. Watches(h)
  <2>1. \A g \in Supervised(h) : g = GroupOf(i) \/ g \in Supervised(h)'
    BY <1>6, Zenon DEF Supervised, GroupOf
  <2>2. QED
    BY <1>3, <1>5, <2>1, Zenon DEF Watches
<1>11. QED
  BY <1>1, <1>6, <1>9, <1>10, FlagsHold, LeasesHold, Zenon

\* A claim grants leases, and takes none of the flagged jobs.
LEMMA ClaimKeepsFlags ==
    ASSUME LaunchInv, LaunchInv', Leases, Flagged, NEW h \in Host, ClaimDueJobs(h)
    PROVE  Leases' /\ Flagged'
<1>1. Types /\ worker[h] \in WorkerState
  BY Zenon DEF LaunchInv, Types
<1>2. PICK taken \in SUBSET Job :
        /\ \A j \in taken : Due(h, j) /\ claims[j] < MaxClaims
        /\ worker[h].pc = "cycle"
        /\ \/ job' = [j \in Job |-> ClaimOutcome(h, j, taken)]
           \/ job' = job /\ taken = {}
        /\ LET batch == {[job |-> j, n |-> claims[j] + 1, end |-> res[j].end] : j \in taken}
           IN  worker' = [worker EXCEPT ![h].batch = batch,
                                        ![h].pc = IF batch = {} THEN "loop" ELSE "launch"]
        /\ UNCHANGED <<clock, proc, risked>>
  BY <1>1, Claiming, Zenon
<1>3. PICK batch : worker' = [worker EXCEPT ![h].batch = batch,
                                            ![h].pc = IF batch = {} THEN "loop" ELSE "launch"]
  BY <1>2, Zenon
<1>4. /\ worker'[h].pc \in {"loop", "launch"} /\ worker'[h].k = worker[h].k
      /\ worker'[h].items = worker[h].items /\ worker'[h].cur = worker[h].cur
      /\ \A x \in Host \ {h} : worker'[x] = worker[x]
  BY <1>1, <1>3, Zenon DEF Types, WorkerState
<1>5. \A j \in Job : /\ job'[j].lease = job[j].lease \/ job'[j].lease = LeaseOf(h)
                     /\ job[j].status \in {"uncertain", "missed"} =>
                           job'[j].status \in {"uncertain", "missed"}
  <2>1. CASE job' = job /\ taken = {}
    BY <2>1, Zenon
  <2>2. ASSUME job' = [j \in Job |-> ClaimOutcome(h, j, taken)], NEW j \in Job
        PROVE  /\ job'[j].lease = job[j].lease \/ job'[j].lease = LeaseOf(h)
               /\ job[j].status \in {"uncertain", "missed"} =>
                     job'[j].status \in {"uncertain", "missed"}
    <3>1. job'[j] = ClaimOutcome(h, j, taken)
      BY <2>2, Zenon
    <3>2. j \in taken => job[j].status = "pending"
      BY <1>2, Zenon DEF Due
    <3>3. QED
      BY <1>1, <1>2, <3>1, <3>2, Outcome
  <2>3. QED
    BY <1>2, <2>1, <2>2, Zenon
<1>6. Leases'
  <2>1. ASSUME NEW j \in Job, job'[j].lease # None
        PROVE  job'[j].lease[2] <= worker'[job'[j].lease[1]].k
    <3>1. CASE job'[j].lease = LeaseOf(h)
      <4>1. job'[j].lease[1] = h /\ job'[j].lease[2] = worker[h].k /\ worker[h].k \in Nat
        BY <1>1, <3>1 DEF LeaseOf, WorkerState
      <4>2. QED
        BY <1>4, <4>1
    <3>2. CASE job'[j].lease = job[j].lease
      <4>1. job[j].lease \in LeaseId
        BY <1>1, <2>1, <3>2, Zenon DEF Types, JobState
      <4>2. job[j].lease[1] \in Host
        BY <4>1, Zenon DEF LeaseId
      <4>3. QED
        BY <1>4, <2>1, <3>2, <4>2, ZenonT(30) DEF Leases
    <3>3. QED
      BY <1>5, <3>1, <3>2, Zenon
  <2>2. ASSUME NEW x \in Host, worker'[x].pc = "record"
        PROVE  worker'[x].items = {} /\ \A j \in Job : job'[j].lease # <<x, worker'[x].k>>
    <3>1. x # h
      BY <1>4, <2>2, Zenon
    <3>2. worker'[x] = worker[x] /\ \A j \in Job : job[j].lease # <<x, worker[x].k>>
      BY <1>4, <2>2, <3>1, Zenon DEF Leases, LeaseOf
    <3>3. LeaseOf(h) # <<x, worker[x].k>>
      BY <3>1, Zenon DEF LeaseOf
    <3>4. QED
      BY <1>5, <2>2, <3>2, <3>3, Zenon DEF Leases
  <2>3. QED
    BY <2>1, <2>2, Zenon DEF Leases, LeaseOf
<1>7. FlagsStay
  BY <1>2, <1>5, Zenon DEF FlagsStay, Group
<1>8. Watches(h)
  BY <1>2, <1>4, Zenon DEF Watches, Supervised
<1>9. QED
  BY <1>4, <1>6, <1>7, <1>8, FlagsHold, Zenon

\* A command that was just spawned is supervised.
LEMMA SpawnKeepsFlags ==
    ASSUME LaunchInv, LaunchInv', Leases, Flagged, NEW h \in Host, Spawn(h)
    PROVE  Leases' /\ Flagged'
<1> DEFINE g0 == GroupOf(worker[h].cur)
<1>1. Types /\ Types' /\ InOrder(h) /\ worker[h].pc = "spawn" /\ UNCHANGED <<job, risked>>
  BY Zenon DEF LaunchInv, Spawn, ledger, owner
<1>2. PICK pc \in {"mark", "reap", "failed"} :
        /\ Goto(h, pc)
        /\ proc' = proc \/ proc' = [proc EXCEPT ![g0] = [state |-> "running", host |-> h]]
  BY Zenon DEF Spawn, GroupOf
<1>3. /\ worker'[h].pc = pc /\ worker'[h].k = worker[h].k /\ worker'[h].items = worker[h].items
      /\ worker'[h].cur = worker[h].cur /\ \A x \in Host \ {h} : worker'[x] = worker[x]
  BY <1>1, <1>2, Zenon DEF Goto, Types, WorkerState
<1>4. Supervised(h)' = Supervised(h) /\ g0 \in Supervised(h)
  BY <1>1, <1>3, Zenon DEF Supervised, InOrder, Launching, GroupOf
<1>5. g0 \in Group /\ \A g \in Group \ {g0} : proc'[g] = proc[g]
  <2>1. g0 \in Group
    BY <1>1, Starting, Zenon DEF Launching
  <2> HIDE DEF g0
  <2>2. QED
    BY <1>1, <1>2, <2>1, Zenon DEF Types
<1>6. LeasesStay
  BY <1>1, <1>3, Zenon DEF LeasesStay
<1>7. Flagged'
  <2> SUFFICES ASSUME NEW g \in Group, NEW x \in Host, proc'[g].state = "running", proc'[g].host = x,
                      g \notin Supervised(x)', worker'[x].pc # "off", g[1] \notin risked'
               PROVE  \/ job'[g[1]].status \in {"uncertain", "missed"}
                      \/ worker'[x].pc = "record" /\ \E y \in worker'[x].plan : y[1] = g[1]
    BY Zenon DEF Flagged
  <2> HIDE DEF g0
  <2>1. CASE proc'[g] # proc[g]
    <3>1. g = g0 /\ proc'[g].host = h
      BY <1>1, <1>2, <1>5, <2>1 DEF Types
    <3>2. QED
      BY <1>4, <3>1, Zenon
  <2>2. CASE proc'[g] = proc[g] /\ x = h
    BY <1>1, <1>4, <2>2, Zenon DEF Flagged
  <2>3. CASE proc'[g] = proc[g] /\ x # h
    <3>1. worker'[x] = worker[x] /\ Supervised(x)' = Supervised(x)
      BY <1>3, <2>3, Zenon DEF Supervised
    <3>2. QED
      BY <1>1, <2>3, <3>1, ZenonT(30) DEF Flagged
  <2>4. QED
    BY <2>1, <2>2, <2>3, Zenon
<1>8. QED
  BY <1>1, <1>6, <1>7, LeasesHold, Zenon

\* A command that is reaped stays supervised.
LEMMA ReapingKeepsFlags ==
    ASSUME LaunchInv, LaunchInv', Leases, Flagged, NEW h \in Host, worker[h].pc \in {"mark", "reap"},
           NEW pc \in {"abort", "failed"}, Goto(h, pc),
           proc' = Reaped(GroupOf(worker[h].cur)), UNCHANGED <<job, risked>>
    PROVE  Leases' /\ Flagged'
<1>1. Types /\ Types' /\ worker[h] \in WorkerState /\ InOrder(h)
  BY Zenon DEF LaunchInv, Types
<1>2. GroupOf(worker[h].cur) \in Group
  BY <1>1, Starting, Zenon DEF Launching
<1>3. /\ worker'[h].pc = pc /\ worker'[h].k = worker[h].k
      /\ worker'[h].items = worker[h].items /\ worker'[h].cur = worker[h].cur
      /\ \A x \in Host \ {h} : worker'[x] = worker[x]
  BY <1>1, Zenon DEF Goto, Types, WorkerState
<1>4. \A g \in Group : proc'[g].state = "running" => proc'[g] = proc[g]
  BY <1>1, <1>2 DEF Reaped, Types, ProcState
<1>5. SteadyMove(h)
  BY <1>1, <1>3, <1>4, Zenon DEF SteadyMove
<1>6. QED
  BY <1>1, <1>5, Steady, Zenon

\* A command without a pump is reaped.
LEMMA ReapKeepsFlags ==
    ASSUME LaunchInv, LaunchInv', Leases, Flagged, NEW h \in Host, ReapLaunch(h)
    PROVE  Leases' /\ Flagged'
BY ReapingKeepsFlags, Zenon DEF ReapLaunch, GroupOf, ledger, owner

\* A command that is marked as running stays supervised; it replaces an earlier command of its
\* job only if the owner accepted the risk.
LEMMA MarkKeepsFlags ==
    ASSUME LaunchInv, LaunchInv', Leases, Flagged, NEW h \in Host, MarkRunning(h)
    PROVE  Leases' /\ Flagged'
<1> DEFINE c == worker[h].cur
           kept == res[c.job].status = "active" /\ job[c.job].status = "claimed" /\ job[c.job].n = c.n
           item == [job |-> c.job, n |-> c.n, end |-> c.end, reason |-> None, asked |-> "no",
                    outcome |-> None]
           items == {i \in worker[h].items : i.job # c.job} \cup {item}
<1>1. /\ Types /\ Types' /\ worker[h] \in WorkerState /\ InOrder(h) /\ worker[h].pc = "mark"
      /\ risked' = risked
  BY Zenon DEF LaunchInv, Types, MarkRunning, owner
<1>2. c \in Claim /\ GroupOf(c) \in Group /\ c # None /\ c.job \in Job /\ c.n \in 1 .. MaxClaims
  BY <1>1, Starting, Zenon DEF Launching, InOrder, Claim
<1>3. CASE kept
  <2>1. job' = [job EXCEPT ![c.job].status = "running"] /\ NextClaim(h, items) /\ proc' = proc
    BY <1>3, Zenon DEF MarkRunning
  <2>2. item \in Item /\ GroupOf(item) = GroupOf(c)
    BY <1>2, Zenon DEF Claim, Item, GroupOf
  <2> HIDE DEF item
  <2>3. items \in SUBSET Item
    BY <1>1, <2>2, Zenon DEF WorkerState
  <2>4. /\ worker'[h].pc \notin Launching /\ worker'[h].cur = None /\ worker'[h].items = items
        /\ \A x \in Host \ {h} : worker'[x] = worker[x]
    BY <1>1, <2>1, <2>3, NextUp, Zenon
  <2>5. worker'[h].k = worker[h].k /\ worker'[h].pc \in {"loop", "launch"}
    BY <1>1, <2>1, Zenon DEF NextClaim, Types, WorkerState
  <2>6. \A j \in Job : /\ job'[j].lease = job[j].lease
                       /\ job[j].status \in {"uncertain", "missed"} => job'[j] = job[j]
    BY <1>1, <1>2, <1>3, <2>1, Zenon DEF Types, JobState
  <2>7. FlagsStay /\ LeasesStay
    BY <1>1, <2>1, <2>4, <2>5, <2>6, Zenon DEF FlagsStay, LeasesStay, Group
  <2>8. ASSUME NEW g \in Group, g \in Supervised(h), proc'[g].state = "running", g[1] \notin risked'
        PROVE  g \in Supervised(h)'
    <3>1. Supervised(h)' = {GroupOf(i) : i \in items}
      BY <2>4, Zenon DEF Supervised, GroupOf
    <3>2. Supervised(h) = {GroupOf(i) : i \in worker[h].items} \cup {GroupOf(c)}
      BY <1>2, Zenon DEF Supervised, GroupOf
    <3>3. GroupOf(c) \in Supervised(h)'
      BY <2>2, <3>1, Zenon
    <3>4. CASE g[1] = c.job
      <4>1. g = GroupOf(c)
        BY <1>1, <1>2, <1>3, <2>1, <2>8, <3>4, Tokens, Zenon
      <4>2. QED
        BY <3>3, <4>1, Zenon
    <3>5. CASE g[1] # c.job
      <4>1. GroupOf(c)[1] = c.job
        BY Zenon DEF GroupOf
      <4>2. PICK i \in worker[h].items : g = GroupOf(i)
        BY <2>8, <3>2, <3>5, <4>1, Zenon
      <4>3. i.job # c.job
        BY <3>5, <4>2, Zenon DEF GroupOf
      <4>4. QED
        BY <3>1, <4>2, <4>3, Zenon
    <3>6. QED
      BY <3>4, <3>5, Zenon
  <2>9. Watches(h)
    BY <1>1, <2>8, Zenon DEF Watches
  <2>10. QED
    BY <1>1, <2>4, <2>7, <2>9, FlagsHold, LeasesHold, Zenon
<1>4. CASE ~kept
  BY <1>1, <1>4, ReapingKeepsFlags, Zenon DEF MarkRunning, GroupOf
<1>5. QED
  BY <1>3, <1>4, Zenon

\* A launch that is given up leaves no running command.
LEMMA GiveUpKeepsFlags ==
    ASSUME LaunchInv, LaunchInv', Leases, Flagged, NEW h \in Host, AbortClaim(h) \/ LaunchFailed(h)
    PROVE  Leases' /\ Flagged'
<1> DEFINE c == worker[h].cur
<1>1. /\ Types /\ Types' /\ worker[h] \in WorkerState /\ InOrder(h)
      /\ worker[h].pc \in {"abort", "failed"} /\ UNCHANGED <<proc, risked>>
      /\ NextClaim(h, worker[h].items)
  BY Zenon DEF LaunchInv, Types, AbortClaim, LaunchFailed, owner
<1>2. /\ c \in Claim /\ GroupOf(c) \in Group /\ c # None /\ c.job \in Job /\ c.n \in 1 .. MaxClaims
      /\ proc[GroupOf(c)].state # "running"
  BY <1>1, Starting, Zenon DEF Launching, InOrder, Claim
<1>3. /\ worker'[h].pc \in {"loop", "launch"} /\ worker'[h].k = worker[h].k
      /\ worker'[h].items = worker[h].items /\ worker'[h].cur = None
      /\ \A x \in Host \ {h} : worker'[x] = worker[x]
  BY <1>1, Zenon DEF NextClaim, Types, WorkerState
<1>4. PICK status :
        \/ job' = job
        \/ job[c.job].n = c.n /\ job' = [job EXCEPT ![c.job].status = status]
  BY Zenon DEF AbortClaim, LaunchFailed
<1>5. \A j \in Job : /\ job'[j].lease = job[j].lease
                     /\ job'[j] = job[j] \/ (j = c.job /\ job[j].n = c.n)
  BY <1>1, <1>2, <1>4 DEF Types, JobState
<1>6. \A g \in Group : proc[g].state = "running" /\ g[1] \notin risked => job'[g[1]] = job[g[1]]
  <2> SUFFICES ASSUME NEW g \in Group, proc[g].state = "running", g[1] \notin risked,
                      job'[g[1]] # job[g[1]]
               PROVE  FALSE
    BY Zenon
  <2>1. g[1] = c.job /\ job[c.job].n = c.n
    BY <1>5, Zenon DEF Group
  <2>2. g = GroupOf(c)
    BY <1>2, <2>1, Tokens, Zenon
  <2>3. QED
    BY <1>2, <2>2, Zenon
<1>7. FlagsStay /\ LeasesStay
  BY <1>1, <1>3, <1>5, <1>6, Zenon DEF FlagsStay, LeasesStay
<1>8. Watches(h)
  <2>1. \A g \in Supervised(h) : g = GroupOf(c) \/ g \in Supervised(h)'
    BY <1>3, Zenon DEF Supervised, GroupOf
  <2>2. QED
    BY <1>1, <1>2, <2>1, Zenon DEF Watches
<1>9. QED
  BY <1>1, <1>3, <1>7, <1>8, FlagsHold, LeasesHold, Zenon

\* The stronger invariant holds of every behaviour, too.
THEOREM AlwaysOrphanInv == Spec => []OrphanInv
<1>1. Init => Leases /\ Flagged
  <2> SUFFICES ASSUME Init PROVE Leases /\ Flagged
    BY Zenon
  <2>1. \A g \in Group : proc[g].state = "none"
    BY Zenon DEF Init
  <2>2. \A j \in Job : job[j].lease = None
    BY Zenon DEF Init, NewJob
  <2>3. \A h \in Host : worker[h].pc = "off"
    BY Zenon DEF Init, NoWorker
  <2>4. QED
    BY <2>1, <2>2, <2>3, Zenon DEF Leases, Flagged
<1>2. LaunchInv /\ LaunchInv' /\ Leases /\ Flagged /\ [Next]_vars => Leases' /\ Flagged'
  <2> SUFFICES ASSUME LaunchInv, LaunchInv', Leases, Flagged, [Next]_vars PROVE Leases' /\ Flagged'
    BY Zenon
  <2>1. ASSUME NEW h \in Host, Step(h) PROVE Leases' /\ Flagged'
    BY <2>1, StartKeepsFlags, RecordKeepsFlags, SteadySteps, CompleteKeepsFlags, ClaimKeepsFlags,
       SpawnKeepsFlags, ReapKeepsFlags, MarkKeepsFlags, GiveUpKeepsFlags, Zenon DEF Step
  <2>2. ASSUME NEW h \in Host, GraceElapses(h) \/ StopSignal(h) \/ Crash(h) \/ FatalError(h)
        PROVE  Leases' /\ Flagged'
    BY <2>2, SteadySteps, SignalKeepsFlags, Zenon
  <2>3. CASE \/ OtherBooking \/ Tick
             \/ \E j \in Job : Cancel(j) \/ \E e \in Ends : EditEnd(j, e)
             \/ \E j \in Job, accept \in BOOLEAN : Retry(j, accept)
             \/ \E g \in Group : Exit(g)
    BY <2>3, LedgerKeepsFlags, Zenon DEF LaunchInv
  <2>4. CASE UNCHANGED vars
    BY <2>4, Zenon DEF vars, Leases, Flagged, LeaseOf, Supervised
  <2>5. QED
    BY <2>1, <2>2, <2>3, <2>4, Zenon DEF Next
<1>3. QED
  BY <1>1, <1>2, AlwaysLaunchInv, PTL DEF Spec, OrphanInv

\* A command that lost its worker is flagged as uncertain or missed by the time its host's next
\* worker has recorded its decisions, so that only an owner who accepts the risk can retry it.
THEOREM NoSilentOrphans == Spec => []OrphansAreFlagged
<1>1. OrphanInv => OrphansAreFlagged
  <2> SUFFICES ASSUME OrphanInv, NEW g \in Group, NEW h \in Host,
                      proc[g] = [state |-> "running", host |-> h], g \notin Supervised(h),
                      worker[h].pc \notin {"off", "record"}, g[1] \notin risked
               PROVE  job[g[1]].status \in {"uncertain", "missed"}
    BY Zenon DEF OrphansAreFlagged
  <2>1. proc[g].state = "running" /\ proc[g].host = h
    OBVIOUS
  <2>2. QED
    BY <2>1, Zenon DEF OrphanInv, Flagged
<1>2. QED
  BY <1>1, AlwaysOrphanInv, PTL
=============================================================================
