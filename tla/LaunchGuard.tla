---------------------------- MODULE LaunchGuard ----------------------------
(***************************************************************************)
(* The live launch guard (launch_guard.py, usage.py, worker.py) together   *)
(* with the memory admission of scheduler.py and the capacities of         *)
(* advisor.py that it has to agree with.  A booking without explicit GPUs  *)
(* takes GPUs on which its units and memory fit.  A worker pass loads the  *)
(* ledger, samples the devices, decides for each due job, records the      *)
(* decisions, claims what may start and starts it; bookings,               *)
(* cancellations, other processes and the clock interleave with every      *)
(* step.                                                                   *)
(*                                                                         *)
(* Memory is counted in whole shares of a device, utilization in percent.  *)
(* A sample is what snapshot() returns: for each GPU how much of its       *)
(* telemetry works, its utilization, the processes on it and the memory    *)
(* that none of them has (the driver's).                                   *)
(***************************************************************************)
EXTENDS Integers, Sequences, FiniteSets, FiniteSetsExt, Functions, SequencesExt

CONSTANTS
    Owner,          \* the user of the worker; users are numbers above 0 (0 is root)
    Devices,        \* the GPU indices
    Memory,         \* memory of a device
    MemoryReserve,  \* shared_memory_reserve_mb
    BusyMemory,     \* used memory that counts as activity
    ShareSlots,     \* max_shared_users
    Wishes,         \* requests: [uid, mode, units, memory, count, from, to]; memory 0: undeclared
    Strangers,      \* processes this worker did not start: [gpu, uid, container, memory, job |-> 0]
    Samplings,      \* what the devices may report: [capability, util, driver], functions of the GPU
    Sharers,        \* users who may reach the container runtime
    Amounts,        \* memory a running command may come to use
    Parallel,       \* worker_max_parallel
    LastTime, MaxWishes

VARIABLES
    time,           \* the clock
    booked,         \* the reservations of the ledger, in order of creation
    procs,          \* the processes on the devices; job is the booking, 0 for a stranger
    pass            \* the pass of the owner's worker

guardVars == <<time, booked, procs, pass>>

System == -1        \* the owner of display and driver processes
Unowned == -2       \* the owner of a process whose UID could not be read

MemoryOf(ps) == FoldSet(LAMBDA p, n : n + p.memory, 0, ps)

-----------------------------------------------------------------------------
(* Samples: capability "none" reports nothing, "smi" no processes,         *)
(* "anonymous" no stable identifier, "nvml" everything.                    *)

On(s, g) == {p \in s.procs : p.gpu = g}
UsedMemory(s, g) == MemoryOf(On(s, g)) + s.driver[g]

(* The processes of a device that do not belong to the system. *)
Rows(s, g) ==
    {p \in On(s, g) : s.capability[g] \in {"anonymous", "nvml"} /\ p.uid # System}

LiveState(s, g) ==
    IF s.capability[g] = "none" THEN "unknown"
    ELSE IF Rows(s, g) # {} \/ s.util[g] >= 10 \/ UsedMemory(s, g) >= BusyMemory
         THEN "busy" ELSE "idle"

-----------------------------------------------------------------------------
(* Admission. *)

Usable == Max({0, Memory - MemoryReserve})

Inferred(units) == Max({1, (Usable * units) \div ShareSlots})

Share(b) == IF b.memory = 0 THEN Inferred(b.units) ELSE b.memory

Active(bs, at) == {i \in DOMAIN bs : bs[i].status = "active" /\ bs[i].to > at}

Overlap(bs, is, g, from, to) ==
    {i \in is : g \in Range(bs[i].gpus) /\ bs[i].from < to /\ from < bs[i].to}

(* One device can take the request: alone, or within units and memory at    *)
(* every instant.  Memory is tested only where the advice knows a capacity. *)
Available(bs, w, s, g) ==
    LET live == Active(bs, w.from)
        near == Overlap(bs, live, g, w.from, w.to)
        at(t) == Overlap(bs, near, g, t, t + 1)
        units(t) == FoldSet(LAMBDA i, n : n + bs[i].units, 0, at(t))
        memory(t) == FoldSet(LAMBDA i, n : n + Share(bs[i]), 0, at(t))
    IN  IF w.mode = "exclusive" THEN near = {}
        ELSE /\ \A i \in near : bs[i].mode # "exclusive"
             /\ \A t \in w.from .. w.to - 1 :
                    /\ units(t) + w.units <= ShareSlots
                    /\ s.capability[g] # "none" => memory(t) + Share(w) <= Usable

(* The GPUs that a request may be given: the code takes the best by priority, *)
(* load and pressure, the model any.                                          *)
Assignments(bs, w, s) == Injection(1 .. w.count, {g \in Devices : Available(bs, w, s, g)})

Sampled(r) == [capability |-> r.capability, util |-> r.util, driver |-> r.driver, procs |-> procs]

Lapsed(bs) ==
    [i \in DOMAIN bs |->
        IF bs[i].status = "active" /\ bs[i].to <= time
        THEN [bs[i] EXCEPT !.status = "expired",
                           !.job = CASE @ \in {"pending", "claimed"} -> "missed"
                                     [] @ = "running"                -> "uncertain"
                                     [] OTHER                        -> @]
        ELSE bs[i]]

(* Booking with a command; `checked' remembers that every capacity was known. *)
BookCommand(w) ==
    /\ Len(booked) < MaxWishes
    /\ time <= w.from
    /\ \E r \in Samplings : \E gpus \in Assignments(Lapsed(booked), w, Sampled(r)) :
           booked' = Append(Lapsed(booked),
               [uid |-> w.uid, mode |-> w.mode, units |-> w.units, memory |-> w.memory,
                from |-> w.from, to |-> w.to, gpus |-> gpus,
                status |-> "active", job |-> "pending", key |-> <<>>,
                checked |-> \A k \in 1 .. w.count : r.capability[gpus[k]] # "none"])
    /\ UNCHANGED <<time, procs, pass>>

Cancel(i) ==
    /\ Lapsed(booked)[i].status = "active"
    /\ booked' = [Lapsed(booked) EXCEPT ![i].status = "cancelled",
                                         ![i].job = IF @ = "pending" THEN "cancelled" ELSE @]
    /\ UNCHANGED <<time, procs, pass>>

-----------------------------------------------------------------------------
(* Classification and the decision. *)

Current(bs, now) == {i \in Active(bs, now) : bs[i].from <= now}

(* A root process of a container belongs to the one user with a reservation *)
(* on the device who may reach the runtime; with several it has no owner.   *)
ContainerClass(p, bs, now) ==
    LET owners == {bs[i].uid : i \in {j \in Current(bs, now) : p.gpu \in Range(bs[j].gpus)}}
                    \intersect Sharers
    IN  CASE Cardinality(owners) = 1 -> "ok"
          [] Cardinality(owners) > 1 -> "unknown"
          [] OTHER                   -> "unreserved"

Classify(p, bs, now) ==
    LET own == {i \in Current(bs, now) : bs[i].uid = p.uid}
    IN  IF p.uid = Unowned THEN "unknown"
        ELSE IF \E i \in own : p.gpu \in Range(bs[i].gpus) THEN "ok"
        ELSE IF p.uid = 0 /\ p.container THEN ContainerClass(p, bs, now)
        ELSE IF own # {} THEN "wrong-gpu" ELSE "unreserved"

\* Mutant: the reserve is taken from what is already without it.
HeadroomTwice(s, g) == Max({0, Usable - UsedMemory(s, g) - MemoryReserve})

Headroom(s, g) == Max({0, Memory - UsedMemory(s, g) - MemoryReserve})

(* Why booking b may not start on device g, "" when it may. *)
Obstacle(b, g, s, bs, now) ==
    LET rows == Rows(s, g)
        needed == IF b.mode = "exclusive" THEN b.memory ELSE Share(b)
        alone == b.mode = "exclusive"
        tests == << <<"telemetry", s.capability[g] = "none">>,
                    <<"process-telemetry", s.capability[g] = "smi">>,
                    <<"stable-identifier", s.capability[g] = "anonymous">>,
                    <<"process", \E p \in rows : Classify(p, bs, now) # "ok">>,
                    <<"exclusive-process", alone /\ rows # {}>>,
                    <<"vram", Headroom(s, g) < needed>>,
                    <<"busy", LiveState(s, g) = "busy" /\ (alone \/ rows = {})>> >>
        hits == SelectSeq(tests, LAMBDA t : t[2])
    IN  IF hits = <<>> THEN "" ELSE hits[1][1]

(* The first obstacle in the order of the assignment; <<>> when ready. *)
Assess(b, s, bs, now) ==
    LET bad == SelectSeq(b.gpus, LAMBDA g : Obstacle(b, g, s, bs, now) # "")
    IN  IF bad = <<>> THEN <<>> ELSE <<bad[1], Obstacle(b, bad[1], s, bs, now)>>

-----------------------------------------------------------------------------
(* A pass of the worker. *)

AtRest == [step |-> "rest", now |-> 0, view |-> <<>>, verdict |-> <<>>, claims |-> {},
           lawful |-> {}]

Due(bs, now) == {i \in Current(bs, now) : bs[i].uid = Owner /\ bs[i].job = "pending"}

(* Sharers keep to what they booked: every process on the GPUs of booking i *)
(* is of a user with current reservations there and uses no more than those *)
(* other than i allow, there is room for the driver's memory in what they   *)
(* allow together, and all were admitted with known capacities.  Reserva-   *)
(* tions are those of this moment that the pass has seen, and seen begun.   *)
Lawful(i, s) ==
    \A g \in Range(booked[i].gpus) :
        LET here == {j \in Current(booked, time) \intersect Current(pass.view, pass.now) :
                         g \in Range(booked[j].gpus)}
            shares(us) == FoldSet(LAMBDA j, n : n + Share(booked[j]), 0,
                                  {j \in here \ {i} : booked[j].uid \in us})
        IN  /\ s.capability[g] = "nvml" /\ s.util[g] = 0
            /\ \A j \in here : booked[j].checked
            /\ \A p \in On(s, g) :
                   /\ \E j \in here : booked[j].uid = p.uid
                   /\ MemoryOf({q \in On(s, g) : q.uid = p.uid}) <= shares({p.uid})
            /\ UsedMemory(s, g) <= shares({p.uid : p \in On(s, g)})

LoadLedger ==
    /\ pass.step = "rest"
    /\ pass' =
           [AtRest EXCEPT !.now = time, !.view = booked,
                          !.step = IF Due(booked, time) = {} THEN "claim" ELSE "sample"]
    /\ UNCHANGED <<time, booked, procs>>

Sample ==
    /\ pass.step = "sample"
    /\ \E r \in Samplings :
         LET s == Sampled(r)
             bs == pass.view
             due == Due(bs, pass.now)
         IN  pass' = [pass EXCEPT
                !.step = "record", !.view = <<>>,
                !.verdict = [i \in due |-> Assess(bs[i], s, bs, pass.now)],
                !.lawful = {i \in due \intersect Current(booked, time) :
                                bs[i].mode = "shared" /\ Lawful(i, s)}]
    /\ UNCHANGED <<time, booked, procs>>

(* A job still pending keeps the reason it waits for, or loses it. *)
Record ==
    /\ pass.step = "record"
    /\ booked' = [i \in DOMAIN booked |->
           IF i \in DOMAIN pass.verdict /\ booked[i].job = "pending"
           THEN [booked[i] EXCEPT !.key = pass.verdict[i]] ELSE booked[i]]
    /\ pass' = [pass EXCEPT !.step = "claim", !.lawful = {}]
    /\ UNCHANGED <<time, procs>>

Eligible == {i \in DOMAIN pass.verdict : pass.verdict[i] = <<>>}

(* What a claiming transaction finds of a pending job of the user. *)
Overtaken(b, now) ==
    IF b.status = "cancelled" THEN [b EXCEPT !.job = "cancelled"]
    ELSE IF b.status = "expired" \/ b.to <= now
         THEN [b EXCEPT !.status = "expired", !.job = "missed"] ELSE b

(* The oldest eligible jobs, as many as the worker may still run. *)
Claim ==
    LET now == pass.now
        own == {i \in DOMAIN booked : booked[i].uid = Owner /\ booked[i].job = "pending"}
        ready == own \intersect Eligible \intersect Current(booked, now)
        room == Parallel - Cardinality({p.job : p \in {q \in procs : q.job # 0}})
        first(i) == Cardinality({j \in ready : \/ booked[j].from < booked[i].from
                                               \/ booked[j].from = booked[i].from /\ j < i})
        claims == {i \in ready : first(i) < room}
    IN  /\ pass.step = "claim"
        /\ booked' = IF room <= 0 THEN booked
                     ELSE [i \in DOMAIN booked |->
                              IF i \in claims THEN [booked[i] EXCEPT !.job = "claimed", !.key = <<>>]
                              ELSE IF i \in own THEN Overtaken(booked[i], now) ELSE booked[i]]
        /\ pass' = IF claims = {} THEN AtRest
                   ELSE [AtRest EXCEPT !.step = "start", !.claims = claims]
        /\ UNCHANGED <<time, procs>>

(* The next claim is started on its GPUs, unless it is no longer launchable. *)
Launch ==
    /\ pass.step = "start"
    /\ LET i == Min(pass.claims)
           rest == pass.claims \ {i}
           launchable == booked[i].status = "active" /\ booked[i].job = "claimed"
                           /\ booked[i].to > time
       IN  /\ booked' = [booked EXCEPT ![i].job =
                  IF launchable THEN "running" ELSE IF @ = "claimed" THEN "cancelled" ELSE @]
           /\ procs' = procs \union {[gpu |-> g, uid |-> Owner, container |-> FALSE, memory |-> 0, job |-> i] :
                                       g \in IF launchable THEN Range(booked[i].gpus) ELSE {}}
           /\ pass' = IF rest = {} THEN AtRest ELSE [pass EXCEPT !.claims = rest]
    /\ UNCHANGED time

-----------------------------------------------------------------------------
(* The machine: time passes, commands use memory and end, strangers come    *)
(* and go.                                                                  *)

Advance == time < LastTime /\ time' = time + 1 /\ UNCHANGED <<booked, procs, pass>>

Allocate(p, n) ==
    /\ p.job # 0 /\ n # p.memory
    /\ n + MemoryOf({q \in procs \ {p} : q.gpu = p.gpu}) <= Memory
    /\ procs' = (procs \ {p}) \union {[p EXCEPT !.memory = n]}
    /\ UNCHANGED <<time, booked, pass>>

Exit(i) ==
    /\ \E p \in procs : p.job = i
    /\ procs' = {p \in procs : p.job # i}
    /\ booked' = [booked EXCEPT ![i].job = IF @ = "running" THEN "done" ELSE @]
    /\ UNCHANGED <<time, pass>>

Visit(p) ==
    /\ \A q \in procs : q.job # 0
    /\ p.memory + MemoryOf({q \in procs : q.gpu = p.gpu}) <= Memory
    /\ procs' = procs \union {p}
    /\ UNCHANGED <<time, booked, pass>>

Leave ==
    /\ \E p \in procs : p.job = 0
    /\ procs' = {p \in procs : p.job # 0}
    /\ UNCHANGED <<time, booked, pass>>

GuardInit ==
    /\ time = 0 /\ booked = <<>> /\ procs = {}
    /\ pass = AtRest

GuardNext ==
    \/ \E w \in Wishes : BookCommand(w)
    \/ \E i \in DOMAIN booked : Cancel(i) \/ Exit(i)
    \/ LoadLedger \/ Sample \/ Record \/ Claim \/ Launch
    \/ \E p \in procs, n \in Amounts : Allocate(p, n)
    \/ \E p \in Strangers : Visit(p)
    \/ Leave
    \/ Advance

-----------------------------------------------------------------------------
(* Properties. *)

(* The guard and the admission agree: when every sharer of the GPUs keeps   *)
(* within what it booked, a due shared job is let start and not left to     *)
(* wait for memory, although the pass has loaded the ledger before it       *)
(* sampled the devices and reservations have ended in between.  (One made   *)
(* or begun in between does not count: its processes pass for strangers     *)
(* until the next pass.)                                                    *)
WithinShareNeverWaits ==
    pass.step = "record" => \A i \in pass.lawful : pass.verdict[i] = <<>>
=============================================================================
