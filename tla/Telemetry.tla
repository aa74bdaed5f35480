----------------------------- MODULE Telemetry -----------------------------
(***************************************************************************)
(* Usage telemetry of one node: the monitor (bk/monitor.py) and the        *)
(* partitioned store that it writes (bk/usage_store.py).                   *)
(*                                                                         *)
(* Time is counted in rollup windows.  A day of a tier is a plain file     *)
(* that is appended to and, once the day is over, a gzip file with a       *)
(* metadata file beside it.  Maintenance derives the coarser tiers, seals  *)
(* plain files and applies retention; it runs inside the monitor's cycle   *)
(* or as `bk u maintain`, both under usage.lock.  A kill may come between  *)
(* any two writes; power losses are left out.                              *)
(***************************************************************************)
EXTENDS Integers, Sequences, FiniteSets, SequencesExt

CONSTANTS
    None,
    Process,        \* GPU processes that may come and go
    PerDay,         \* rollup windows per day
    TopTier,        \* tiers: 0 events, 1 minute, 2..TopTier derived
    KeepDays,       \* retention in days per tier, 0 for ever
    Legacy,         \* windows of the pre-versioned rollup file
    Newer,          \* windows whose records carry fields that this release does not know
    MaxNow, MaxFailures, MaxRuns, MaxEvents    \* bounds

Events == 0
Minute == 1
Day(w) == w \div PerDay
Days == 0 .. Day(MaxNow)

VARIABLES
    now,
    part,         \* files per tier and day
    state,        \* state.json: the processes last seen
    journal,      \* state-transition.json
    marker,       \* migrations/legacy-v1.json exists
    mon,          \* the process that holds usage.lock
    starts, cli, crashes, faults,
    flushed,      \* history: windows appended to the minute tier
    late,         \* history: those appended after the day was derived
    logged        \* history: events of finished state transitions

telemetry == <<now, part, state, journal, marker, mon, starts, cli, crashes, faults,
               flushed, late, logged>>
counters == <<starts, cli, crashes, faults>>
ghosts == <<flushed, late, logged>>

-----------------------------------------------------------------------------
(* Partitions.                                                             *)

NoFiles == [plain |-> None, gz |-> None, meta |-> None]
Exists(t, d) == part[t][d].plain # None \/ part[t][d].gz # None

\* _read_jsonl of each path of a day: a gzip file needs metadata that agrees with it.
Readable(t, d) ==
    LET f == part[t][d] IN f.gz # None => f.meta = f.gz

Plain(f) == IF f.plain = None THEN <<>> ELSE f.plain
Closed(f) == IF f.gz = None THEN <<>> ELSE f.gz
Contents(f) == Plain(f) \o Closed(f)

Key(r) == r.w

AllRecords(s) == s

\* _records_for_day: of the records with one key the first is taken.
FirstOfEach(s) ==
    LET first == {i \in DOMAIN s : \A j \in 1 .. i - 1 : Key(s[j]) # Key(s[i])}
    IN  [n \in 1 .. Cardinality(first) |->
            s[CHOOSE i \in first : Cardinality({j \in first : j <= i}) = n]]

RecordsForDay(t, d) == FirstOfEach(Contents(part[t][d]))

Put(t, d, f) == part' = [part EXCEPT ![t][d] = f]

\* _validate_append_target: a gzip file and its metadata exist together.
Appendable(t, d) == (part[t][d].gz = None) = (part[t][d].meta = None)

\* _append_event_partition: events whose id the day's files hold are left out.
NewEvents(d, evs) ==
    SetToSeq(evs \ ToSet(Contents(part[Events][d])))

\* _append_jsonl: the records of one call follow what the plain file holds.
AppendJsonl(f, recs) == IF recs = <<>> THEN f ELSE [f EXCEPT !.plain = Plain(f) \o recs]

-----------------------------------------------------------------------------
Off == [pc |-> "off", at |-> 0, unsafe |-> {}, seen |-> {}, back |-> "off", prev |-> {},
        todo |-> {}, buf |-> {}, due |-> 0, gen |-> 0, task |-> <<>>]

TelemetryInit ==
    /\ now = 0
    /\ part = [t \in 0 .. TopTier |-> [d \in Days |-> NoFiles]]
    /\ state = {} /\ journal = None /\ marker = FALSE
    /\ mon = Off
    /\ starts = 0 /\ cli = 0 /\ crashes = 0 /\ faults = 0
    /\ flushed = {} /\ late = {} /\ logged = {}

\* The clock.  A cycle uses the time of its sample throughout, so the clock moves between
\* cycles.
Tick ==
    /\ mon.pc \in {"off", "idle"} /\ now < MaxNow
    /\ now' = now + 1
    /\ UNCHANGED <<part, state, journal, marker, mon, counters, ghosts>>

-----------------------------------------------------------------------------
(* Maintenance: mon.pc is generate, meta, seal, sealmeta, drop, remove or  *)
(* dropmeta; mon.back is where it returns to.                              *)

Quiet == UNCHANGED <<now, state, journal, marker, counters, ghosts>>
Goto(pc) == mon' = [mon EXCEPT !.pc = pc]

\* The first of a set of tuples of equal length, in the order of the loops.
First(S) ==
    CHOOSE x \in S : \A y \in S \ {x} :
        \E i \in DOMAIN x : x[i] < y[i] /\ \A j \in 1 .. i - 1 : x[j] = y[j]

\* Of the records of a day, which _records_for_day decodes without loss.
Compactable(t, d) == \A r \in ToSet(Contents(part[t][d])) : r.w \notin Newer

\* maintain(): partitions that cannot be read, or not be compacted without loss, are
\* neither derived from nor removed.
Maintain(back, at) ==
    [mon EXCEPT !.pc = "generate", !.back = back, !.at = at, !.seen = {},
        !.unsafe = {<<t, d>> \in (Minute .. TopTier - 1) \X Days :
                       d < Day(at) /\ Exists(t, d) /\ ~(Readable(t, d) /\ Compactable(t, d))}]

\* Coarser partitions that are still to be derived.
ToDerive ==
    {<<t, d, k>> \in (Minute .. TopTier - 1) \X Days \X (Minute .. TopTier) :
        /\ k > t /\ d < Day(mon.at)
        /\ Exists(t, d) /\ Readable(t, d) /\ RecordsForDay(t, d) # <<>> /\ Compactable(t, d)
        /\ ~Exists(k, d)}

\* The first half of _write_closed_partition: the gzip file is renamed into place.
Derive ==
    /\ mon.pc = "generate"
    /\ IF ToDerive = {} THEN Goto("seal") /\ UNCHANGED part
       ELSE LET x == First(ToDerive) IN
            /\ Put(x[3], x[2], [NoFiles EXCEPT !.gz = RecordsForDay(x[1], x[2])])
            /\ mon' = [mon EXCEPT !.pc = "meta", !.task = <<x[3], x[2]>>]
    /\ Quiet

\* Its second half: the metadata.
WriteMeta ==
    /\ mon.pc \in {"meta", "sealmeta"}
    /\ LET t == mon.task[1]  d == mon.task[2] IN
       Put(t, d, [part[t][d] EXCEPT !.meta = part[t][d].gz])
    /\ Goto(IF mon.pc = "meta" THEN "generate" ELSE "drop")
    /\ Quiet

ToSeal == {<<t, d>> \in ((0 .. TopTier) \X Days) \ mon.seen :
              d < Day(mon.at) /\ part[t][d].plain # None}

\* _seal_partition.
Seal ==
    /\ mon.pc = "seal"
    /\ IF ToSeal = {} THEN Goto("remove") /\ UNCHANGED part
       ELSE LET x == First(ToSeal)
                f == part[x[1]][x[2]]
                me == [mon EXCEPT !.seen = @ \cup {x}, !.task = x]
            IN  IF f.gz # None /\ f.meta # None
                THEN /\ mon' = [me EXCEPT !.pc = IF f.meta = f.plain THEN "drop" ELSE "seal"]
                     /\ UNCHANGED part
                ELSE /\ mon' = [me EXCEPT !.pc = "sealmeta"]
                     /\ Put(x[1], x[2], [f EXCEPT !.gz = f.plain])
    /\ Quiet

\* The plain file of a sealed partition.
DropPlain ==
    /\ mon.pc = "drop"
    /\ Put(mon.task[1], mon.task[2], [part[mon.task[1]][mon.task[2]] EXCEPT !.plain = None])
    /\ Goto("seal")
    /\ Quiet

\* _valid_partition_exists: a plain file, or a gzip file that its metadata verifies.
ValidPartition(t, d) == Exists(t, d) /\ (part[t][d].plain # None \/ Readable(t, d))

SafeUnverified(t, d) == \A k \in t + 1 .. TopTier : Exists(k, d)

\* _safe_to_remove_tier.
SafeToRemove(t, d) == t = Events \/ \A k \in t + 1 .. TopTier : ValidPartition(k, d)

Expired(t, d, at) == KeepDays[t] # 0 /\ (d + 1 + KeepDays[t]) * PerDay <= at

\* Retention: paths to unlink, 0 for the plain file and 1 for the gzip file.
ToRemove ==
    {<<t, d, g>> \in (0 .. TopTier) \X Days \X {0, 1} :
        /\ Expired(t, d, mon.at) /\ <<t, d>> \notin mon.unsafe
        /\ IF g = 0 THEN part[t][d].plain # None ELSE part[t][d].gz # None
        /\ SafeToRemove(t, d)}

RemoveExpired ==
    /\ mon.pc = "remove"
    /\ IF ToRemove = {}
       THEN mon' = (IF mon.back = "off" THEN Off ELSE [mon EXCEPT !.pc = mon.back]) /\ UNCHANGED part
       ELSE LET x == First(ToRemove)
                f == part[x[1]][x[2]]
            IN  IF x[3] = 0
                THEN Put(x[1], x[2], [f EXCEPT !.plain = None]) /\ UNCHANGED mon
                ELSE /\ Put(x[1], x[2], [f EXCEPT !.gz = None])
                     /\ mon' = [mon EXCEPT !.pc = "dropmeta", !.task = x]
    /\ Quiet

DropMeta ==
    /\ mon.pc = "dropmeta"
    /\ Put(mon.task[1], mon.task[2], [part[mon.task[1]][mon.task[2]] EXCEPT !.meta = None])
    /\ Goto("remove")
    /\ Quiet

-----------------------------------------------------------------------------
(* The monitor.                                                            *)

StartUnrecovered ==
    /\ mon = Off /\ starts + cli < MaxRuns
    /\ starts' = starts + 1
    /\ mon' = [Off EXCEPT !.gen = starts', !.pc = "idle", !.prev = state]
    /\ UNCHANGED <<now, part, state, journal, marker, cli, crashes, faults, ghosts>>

\* run_monitor and UsageMonitor.__init__: load_state replays a journal first, and fails
\* if the day of its events cannot be appended to.
Start ==
    /\ mon = Off /\ starts + cli < MaxRuns
    /\ starts' = starts + 1
    /\ mon' = LET me == [Off EXCEPT !.gen = starts'] IN
              IF journal = None THEN [me EXCEPT !.pc = "idle", !.prev = state]
              ELSE IF Appendable(Events, Day(journal.at))
                   THEN [me EXCEPT !.pc = "append", !.back = "idle"] ELSE Off
    /\ UNCHANGED <<now, part, state, journal, marker, cli, crashes, faults, ghosts>>

\* collect() begins: maintenance first, every 24 hours.
Collect ==
    /\ mon.pc = "idle" /\ now \notin mon.buf      \* bound: one cycle a window
    /\ mon' = IF now >= mon.due
              THEN [Maintain("commit", now) EXCEPT !.due = now + PerDay]
              ELSE [mon EXCEPT !.pc = "commit", !.at = now]
    /\ UNCHANGED part /\ Quiet

\* _state_events and _event: a start for each process that appeared, a stop for each
\* that is gone.
StateEvents(seen) ==
    {[w |-> mon.at, g |-> mon.gen, p |-> p, up |-> p \in seen] :
        p \in (seen \ mon.prev) \cup (mon.prev \ seen)}

\* commit_state_transition up to its journal.
Commit(seen) ==
    /\ mon.pc = "commit"
    /\ seen = mon.prev \/ Cardinality(logged) < MaxEvents
    /\ IF seen = mon.prev THEN Goto("flush") /\ UNCHANGED journal
       ELSE /\ journal' = [at |-> mon.at, procs |-> seen, evs |-> StateEvents(seen)]
            /\ mon' = [mon EXCEPT !.pc = "append", !.back = "flush"]
    /\ UNCHANGED <<now, part, state, marker, counters, ghosts>>

\* append_events of the journalled events.
AppendEvents ==
    /\ mon.pc = "append"
    /\ LET d == Day(journal.at)
           f == part[Events][d]
       IN  IF Appendable(Events, d)
           THEN /\ Put(Events, d, AppendJsonl(f, NewEvents(d, journal.evs)))
                /\ Goto("save")
           ELSE UNCHANGED part /\ Goto("fail")
    /\ Quiet

\* save_state.
SaveState ==
    /\ mon.pc = "save"
    /\ state' = journal.procs
    /\ Goto("unlink")
    /\ UNCHANGED <<now, part, journal, marker, counters, ghosts>>

\* The end of commit_state_transition and of _recover_state_transition.
UnlinkJournal ==
    /\ mon.pc = "unlink"
    /\ journal' = None /\ logged' = logged \cup journal.evs
    /\ mon' = [mon EXCEPT !.pc = mon.back, !.prev = state]
    /\ UNCHANGED <<now, part, state, marker, counters, flushed, late>>

\* append_rollups, one day of it: the windows of the first day are written, and the others
\* are left for the next step.  me is the monitor with what is recorded so far.
AppendRollups(me, todo) ==
    LET W == {w \in todo : \A v \in todo : Day(w) <= Day(v)}
        d == Day(CHOOSE w \in W : TRUE)
        new == SetToSortSeq(W, LAMBDA x, y : x < y)
        rest == todo \ W
    IN  /\ Put(Minute, d, AppendJsonl(part[Minute][d],
                                     [i \in DOMAIN new |-> [w |-> new[i], g |-> mon.gen]]))
        /\ flushed' = flushed \cup W
        /\ late' = late \cup {w \in W : \E k \in Minute + 1 .. TopTier : Exists(k, d)}
        /\ mon' = IF rest # {} THEN [me EXCEPT !.pc = "more", !.todo = rest]
                  ELSE IF me.back = "off" THEN Off
                  ELSE [me EXCEPT !.pc = "idle", !.todo = {}, !.buf = {mon.at}]
        /\ UNCHANGED logged

AppendMore ==
    /\ mon.pc = "more"
    /\ AppendRollups(mon, mon.todo)
    /\ UNCHANGED <<now, state, journal, marker, counters>>

\* The days are validated before any is written.
Writable(W) == \A w \in W : Appendable(Minute, Day(w))

\* _record_groups: windows that ended before this sample are ready, its own stays in
\* memory.
ReadyWindows == {w \in mon.buf : w < mon.at}

\* flush_rollups: windows leave memory once all of them are written.
Flush ==
    /\ mon.pc = "flush"
    /\ LET me == [mon EXCEPT !.buf = @ \cup {mon.at}, !.back = "idle"] IN
       IF ReadyWindows # {} /\ Writable(ReadyWindows) THEN AppendRollups(me, ReadyWindows)
       ELSE /\ mon' = [me EXCEPT !.pc = IF ReadyWindows = {} THEN "idle" ELSE "fail"]
            /\ UNCHANGED <<part, ghosts>>
    /\ UNCHANGED <<now, state, journal, marker, counters>>

\* close() after a signal, and _close_failed_monitor after an error: every window in
\* memory is written, the current one as partial, if the store lets it.
Close ==
    /\ mon.pc \in {"idle", "fail"}
    /\ \/ mon.buf # {} /\ Writable(mon.buf) /\ AppendRollups([mon EXCEPT !.back = "off"], mon.buf)
       \/ /\ mon.pc = "fail" \/ mon.buf = {} \/ ~Writable(mon.buf)
          /\ mon' = Off
          /\ UNCHANGED <<part, ghosts>>
    /\ UNCHANGED <<now, state, journal, marker, counters>>

\* abort() after a change of policy: what is in memory is discarded.
Abort ==
    /\ mon.pc = "idle"
    /\ mon' = Off
    /\ UNCHANGED part /\ Quiet

-----------------------------------------------------------------------------
\* `bk u maintain --yes`.
CliMaintain ==
    /\ mon = Off /\ starts + cli < MaxRuns
    /\ cli' = cli + 1
    /\ mon' = Maintain("off", now)
    /\ UNCHANGED <<now, part, state, journal, marker, starts, crashes, faults, ghosts>>

\* migrate_legacy (`bk u migrate --yes`) begins.
CliMigrate ==
    /\ mon = Off /\ starts + cli < MaxRuns /\ ~marker /\ Legacy # {}
    /\ cli' = cli + 1
    /\ mon' = [Off EXCEPT !.pc = "merge"]
    /\ UNCHANGED <<now, part, state, journal, marker, starts, crashes, faults, ghosts>>

\* _merge_plain_partition for each day, then the marker.  A closed day ends the migration.
Merge ==
    /\ mon.pc = "merge"
    /\ LET days == {Day(w) : w \in Legacy} \ mon.seen IN
       IF days = {}
       THEN marker' = TRUE /\ mon' = Off /\ UNCHANGED <<part, ghosts>>
       ELSE LET d == CHOOSE x \in days : \A y \in days : x <= y
                f == part[Minute][d]
                old == Reverse(FirstOfEach(Reverse(Plain(f))))
                new == {w \in Legacy : Day(w) = d /\ \A i \in DOMAIN old : Key(old[i]) # w}
            IN  IF f.gz # None THEN mon' = Off /\ UNCHANGED <<part, marker, ghosts>>
                ELSE /\ Put(Minute, d, [f EXCEPT !.plain =
                                 old \o SetToSeq({[w |-> w, g |-> 0] : w \in new})])
                     /\ flushed' = flushed \cup new
                     /\ late' = late \cup {w \in new : \E k \in Minute + 1 .. TopTier : Exists(k, d)}
                     /\ mon' = [mon EXCEPT !.seen = @ \cup {d}]
                     /\ UNCHANGED <<marker, logged>>
    /\ UNCHANGED <<now, state, journal, counters>>

-----------------------------------------------------------------------------
(* Failures.                                                               *)

\* An I/O error.  Maintenance inside a cycle is put off; elsewhere the process gives up,
\* the monitor after close() unless it was closing already.
Fault ==
    /\ mon.pc \notin {"off", "idle", "fail"} /\ crashes + faults < MaxFailures
    /\ faults' = faults + 1
    /\ mon' = IF mon.back = "commit" /\ mon.pc \notin {"commit", "append", "save", "unlink", "flush", "more"}
              THEN [mon EXCEPT !.pc = "commit"]
              ELSE IF mon.gen = 0 \/ (mon.pc = "more" /\ mon.back = "off") THEN Off
              ELSE [mon EXCEPT !.pc = "fail",
                               !.buf = IF mon.pc = "flush" THEN @ \cup {mon.at} ELSE @]
    /\ UNCHANGED <<now, part, state, journal, marker, starts, cli, crashes, ghosts>>

\* The process is killed.
Crash ==
    /\ mon # Off /\ crashes + faults < MaxFailures
    /\ crashes' = crashes + 1
    /\ mon' = Off
    /\ UNCHANGED <<now, part, state, journal, marker, starts, cli, faults, ghosts>>

TelemetryNext ==
    \/ Tick \/ Start \/ Collect \/ (\E seen \in SUBSET Process : Commit(seen)) \/ AppendEvents
    \/ SaveState \/ UnlinkJournal \/ Flush \/ AppendMore \/ Close \/ Abort
    \/ CliMaintain \/ CliMigrate \/ Merge
    \/ Derive \/ WriteMeta \/ Seal \/ DropPlain \/ RemoveExpired \/ DropMeta
    \/ Fault \/ Crash

-----------------------------------------------------------------------------
\* The windows that a reader finds in a tier: a gzip file counts if its metadata agrees.
Windows(t, d) ==
    {r.w : r \in ToSet(IF Readable(t, d) THEN Contents(part[t][d]) ELSE Plain(part[t][d]))}

\* Every window that was written to the minute tier is, in each tier, either counted, or
\* still held by a finer tier, or past the retention of that tier: no order of sealing,
\* deriving, retention, kills and I/O errors loses it.  (Windows written after their day
\* was derived are exempt.)
HistoryKept ==
    \A w \in flushed \ late : \A k \in Minute .. TopTier :
        \/ \E t \in Minute .. k : w \in Windows(t, Day(w))
        \/ Expired(k, Day(w), now)

\* No derived partition counts a window twice, although files are appended to again after
\* errors and a day may be found both open and closed.
CountedOnce ==
    \A k \in Minute + 1 .. TopTier, d \in Days :
        LET s == Contents(part[k][d]) IN \A i, j \in DOMAIN s : s[i].w = s[j].w => i = j

\* Once no transition is pending, the event history explains state.json: the processes it
\* lists are those whose last event is a start, and no event of a transition is missing
\* while it is retained.
StateExplained ==
    /\ \A e \in logged :
          \/ e \in ToSet(Contents(part[Events][Day(e.w)]))
          \/ Expired(Events, Day(e.w), now)
    /\ journal = None => \A p \in Process :
          Cardinality({e \in logged : e.p = p /\ e.up}) - Cardinality({e \in logged : e.p = p /\ ~e.up})
              = (IF p \in state THEN 1 ELSE 0)
=============================================================================
