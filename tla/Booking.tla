------------------------------ MODULE Booking ------------------------------
(***************************************************************************)
(* Admission of reservations: bk/scheduler.py over the ledger document.    *)
(*                                                                         *)
(* Every write is one store transaction (see LedgerStore), so an operation *)
(* is one action; an operation that raises BookingError leaves the ledger  *)
(* as it was and is not an action.  The clock is read once when the        *)
(* mutator starts and again inside find_earliest_slot: an action that      *)
(* places a reservation starts at clock and ends at clock'.                *)
(*                                                                         *)
(* Times are ticks, Slot of them to a booking slot.  A signature is the    *)
(* request it hashes.  Requests without gpu_memory_capacity_mb are         *)
(* modelled (the memory check is then skipped), Gpu is the set of enabled  *)
(* GPUs, and jobs are left to the Worker module.                           *)
(***************************************************************************)
EXTENDS Integers, Sequences, FiniteSets, FiniteSetsExt

CONSTANTS
    Uid, Gpu,
    OpId,          \* operation ids that clients choose
    None,          \* an absent field; an operation id the server generates
    Slot,          \* ticks of a booking slot (slot_minutes)
    MaxShared,     \* max_shared_users
    MaxDuration,   \* max_booking_duration_hours
    Horizon,       \* booking_horizon_days
    QueueSearch,   \* queue_search_hours
    Retention,     \* ledger_retention_days; 0 keeps records for ever
    Blackouts,     \* booking_blackouts, pairs <<start, end>>
    EditLimit,     \* MAX_EDIT_OPERATIONS_PER_RESERVATION
    MaxReservations,  \* bound: reservations ever created
    MaxTime,       \* bound: the clock
    Drift,         \* bound: ticks that pass inside one mutator
    Requests, EditRequests   \* what clients ask for

Mode == {"shared", "exclusive"}

\* count GPUs out of gpus; named GPUs are the caller's preferred ones.
IsPick(k) ==
    /\ k.gpus \subseteq Gpu /\ k.count \in Nat \ {0} /\ k.count <= Cardinality(k.gpus)
    /\ k.named \in BOOLEAN
    /\ k.named => k.count = Cardinality(k.gpus)

IsDuration(d) == d \in Nat \ {0} /\ d % Slot = 0

\* The checks add_booking and edit_booking make before the transaction begins.
IsBookingRequest(q) ==
    /\ IsPick(q.pick) /\ q.mode \in Mode /\ q.start \in Nat /\ IsDuration(q.duration)
    /\ q.units \in IF q.mode = "shared" THEN 1 .. MaxShared ELSE {None}
    /\ q.queue \in BOOLEAN

IsEditRequest(q) ==
    /\ q.pick # None => IsPick(q.pick)
    /\ q.mode \in Mode \cup {None} /\ q.units \in (1 .. MaxShared) \cup {None}
    /\ q.start \in Nat \cup {None}
    /\ q.duration # None => IsDuration(q.duration)
    /\ q.queue \in BOOLEAN

ASSUME BookingAssumption ==
    /\ Slot \in Nat \ {0} /\ MaxShared \in Nat \ {0}
    /\ {MaxDuration, Horizon, QueueSearch, Retention, EditLimit} \subseteq Nat
    /\ {MaxReservations, MaxTime, Drift} \subseteq Nat
    /\ \A b \in Blackouts : b[1] \in Nat /\ b[2] \in Nat /\ b[1] < b[2]
    /\ IsFiniteSet(Gpu)
    /\ \A q \in Requests : IsBookingRequest(q)
    /\ \A q \in EditRequests : IsEditRequest(q)

VARIABLES
    clock,
    res,         \* the reservations of the ledger, by order of creation
    wrote,       \* history: writes applied per <<uid, operation id>>
    forgotten    \* history: operation ids of purged records

vars == <<clock, res, wrote, forgotten>>

-----------------------------------------------------------------------------
Id == 1 .. MaxReservations

NoReservation ==
    [status |-> "unused", uid |-> None, gpus |-> {}, mode |-> None, units |-> None,
     start |-> 0, end |-> 0, op |-> None, sig |-> None,
     cancelOp |-> None, edits |-> <<>>]

Init ==
    /\ clock = 0
    /\ res = [i \in Id |-> NoReservation]
    /\ wrote = [k \in Uid \X OpId |-> 0]
    /\ forgotten = {}

-----------------------------------------------------------------------------
(* granularity.py, and the interval tests of the scheduler.                *)

Floor(t) == t - (t % Slot)
Ceil(t) == IF t % Slot = 0 THEN t ELSE Floor(t) + Slot

\* normalize_queue_start: a start that has passed becomes the current slice.
QueueStart(t, now) == IF t <= now THEN Floor(now) ELSE Ceil(t)

Overlaps(s1, e1, s2, e2) == s1 < e2 /\ s2 < e1

\* ReservationIndex.from_ledger and list_active.
Live(rs, t) == {i \in Id : rs[i].status = "active" /\ rs[i].end > t}

\* ReservationIndex.overlapping.
Overlapping(rs, t, g, s, e) ==
    {i \in Live(rs, t) : g \in rs[i].gpus /\ Overlaps(rs[i].start, rs[i].end, s, e)}

\* Mutant: only a start inside a blackout is refused.
PolicyConflictAtStart(s, e, now) ==
    \/ e - s > MaxDuration
    \/ e > now + Horizon
    \/ \E b \in Blackouts : b[1] <= s /\ s < b[2]

\* booking_policy_conflict.
PolicyConflict(s, e, now) ==
    \/ e - s > MaxDuration
    \/ e > now + Horizon
    \/ \E b \in Blackouts : Overlaps(s, e, b[1], b[2])

\* The sum of w[i] over all ids.
Total(w) ==
    LET t[n \in 0 .. MaxReservations] == IF n = 0 THEN 0 ELSE t[n - 1] + w[n]
    IN  t[MaxReservations]

UnitsOf(rs, S) == Total([i \in Id |-> IF i \in S THEN rs[i].units ELSE 0])

\* _shared_capacity_units_in_spans.
UsedUnits(rs, spans, left, right) ==
    UnitsOf(rs, {i \in spans : /\ rs[i].mode = "shared"
                               /\ Overlaps(left, right, rs[i].start, rs[i].end)})

\* Mutant: an exclusive request looks only for exclusive neighbours.
AvailableBesideShared(rs, t, g, s, e, mode, units) ==
    \A i \in Overlapping(rs, t, g, s, e) : rs[i].mode = "shared"

\* Mutant: capacity is tested at the start of the request alone.
AvailableAtStart(rs, t, g, s, e, mode, units) ==
    LET spans == Overlapping(rs, t, g, s, e) IN
    \/ mode = "exclusive" /\ spans = {}
    \/ /\ mode = "shared"
       /\ \A i \in spans : rs[i].mode # "exclusive"
       /\ UsedUnits(rs, spans, s, s + 1) + units <= MaxShared

\* _availability_detail_indexed: the interval is cut where a span begins or ends.
Available(rs, t, g, s, e, mode, units) ==
    LET spans == Overlapping(rs, t, g, s, e)
        points == {s, e} \cup {Max({s, rs[i].start}) : i \in spans}
                         \cup {Min({e, rs[i].end}) : i \in spans}
        next(p) == Min({r \in points : r > p})
    IN  \/ mode = "exclusive" /\ spans = {}
        \/ /\ mode = "shared"
           /\ \A i \in spans : rs[i].mode # "exclusive"
           /\ \A p \in points \ {Max(points)} :
                UsedUnits(rs, spans, p, next(p)) + units <= MaxShared

-----------------------------------------------------------------------------
(* find_earliest_slot for the reservations rs at time now.                 *)

FreeGpus(rs, now, k, mode, units, s, e) ==
    {g \in k.gpus : Available(rs, now, g, s, e, mode, units)}

\* _gpus_at_start finds enough GPUs and the policy allows the interval.
Fits(rs, now, k, mode, units, s, e) ==
    /\ ~PolicyConflict(s, e, now)
    /\ Cardinality(FreeGpus(rs, now, k, mode, units, s, e)) >= k.count

SearchUntil(s, now) == Min({s + QueueSearch, now + Horizon})

\* Mutant: only exclusive reservations free a slot when they end.
CandidateStartsExclusive(rs, now, s) ==
    {Ceil(s)}
      \cup {c \in {Ceil(rs[i].end) : i \in {j \in Live(rs, now) : rs[j].mode = "exclusive"}} :
              s <= c /\ c <= SearchUntil(s, now)}
      \cup {Ceil(b[2]) : b \in {x \in Blackouts : s <= x[2] /\ x[2] <= SearchUntil(s, now)}}

\* _candidate_starts_from_index, and the ends of blackouts.
CandidateStarts(rs, now, s) ==
    {Ceil(s)}
      \cup {c \in {Ceil(rs[i].end) : i \in Live(rs, now)} : s <= c /\ c <= SearchUntil(s, now)}
      \cup {Ceil(b[2]) : b \in {x \in Blackouts : s <= x[2] /\ x[2] <= SearchUntil(s, now)}}

\* The start that find_earliest_slot returns, as a set of at most one element.
EarliestStart(rs, now, k, mode, units, s, d, queue) ==
    LET begin == QueueStart(s, now)
        starts == {c \in IF queue THEN CandidateStarts(rs, now, begin) ELSE {s} :
                       Fits(rs, now, k, mode, units, c, c + d)}
    IN  {c \in starts : \A x \in starts : c <= x}

\* <<start, gpus>> pairs: the caller's order and scores may favour any free GPUs.
Placements(rs, now, k, mode, units, s, d, queue) ==
    UNION {{c} \X kSubset(k.count, FreeGpus(rs, now, k, mode, units, c, c + d)) :
              c \in EarliestStart(rs, now, k, mode, units, s, d, queue)}

-----------------------------------------------------------------------------
(* Maintenance at the beginning of a mutator.                              *)

\* A record that is no longer active keeps what retention and replay read: end
\* becomes the time that retention counts from (end_at, or updated_at of a
\* cancelled record); where it was placed no longer matters.
Retired(r, status, at) == [r EXCEPT !.status = status, !.end = at, !.start = 0, !.gpus = {}]

\* _expire_old_reservations.
Expire(rs, now) ==
    [i \in Id |-> IF rs[i].status = "active" /\ rs[i].end <= now
                  THEN Retired(rs[i], "expired", rs[i].end) ELSE rs[i]]

Purgeable(r, now) ==
    Retention > 0 /\ r.status \in {"expired", "cancelled"} /\ r.end <= now - Retention

\* _maintain_ledger: expire, then drop what the retention window no longer covers.
Maintain(rs, now) ==
    LET x == Expire(rs, now)
    IN  [i \in Id |-> IF Purgeable(x[i], now)
                      THEN [NoReservation EXCEPT !.status = "purged"] ELSE x[i]]

\* The operation ids that a record remembers, with its owner.
Remembered(r) ==
    {r.uid} \X (({r.op, r.cancelOp} \cup {r.edits[n].op : n \in DOMAIN r.edits}) \ {None})

Forget(rs, kept) ==
    forgotten' = forgotten \cup UNION {Remembered(rs[i]) : i \in {j \in Id :
                    kept[j].status = "purged" /\ rs[j].status # "purged"}}

\* _find_applied_operation: <<action, reservation, signature>>.
Applied(rs, u, o) ==
    {<<"create", i, rs[i].sig>> : i \in {j \in Id : rs[j].uid = u /\ rs[j].op = o}}
      \cup {<<"cancel", i, None>> : i \in {j \in Id : rs[j].uid = u /\ rs[j].cancelOp = o}}
      \cup {<<"edit", x[1], rs[x[1]].edits[x[2]].sig>> :
              x \in {y \in Id \X (1 .. EditLimit) :
                       /\ rs[y[1]].uid = u /\ y[2] \in DOMAIN rs[y[1]].edits
                       /\ rs[y[1]].edits[y[2]].op = o}}

\* Mutant: a lookup that finds nothing.
HitsNone(rs, u, o) == {}

Hits(rs, u, o) == IF o = None THEN {} ELSE Applied(rs, u, o)

CountWrite(u, o) ==
    wrote' = IF o = None THEN wrote ELSE [wrote EXCEPT ![<<u, o>>] = @ + 1]

\* utc_now() again, inside find_earliest_slot.
LaterClock == clock' \in clock .. clock + Drift /\ clock' <= MaxTime

-----------------------------------------------------------------------------
(* add_booking.                                                            *)

\* _request_share_units.
ShareUnits(mode, units) == IF mode = "exclusive" THEN MaxShared ELSE units

\* _create_operation_signature: a queued request may name any start.
CreateSignature(q) ==
    [q EXCEPT !.start = IF q.queue THEN None ELSE q.start]

\* _same_request_metadata, for reservations without a job.
SameRequestMetadata(r, units) == r.mode = "shared" => r.units = units

\* _find_exact_duplicate and _find_auto_duplicate.
Duplicates(rs, u, q, s) ==
    {i \in Live(rs, s) :
        /\ rs[i].uid = u /\ rs[i].mode = q.mode
        /\ IF q.pick.named THEN rs[i].gpus = q.pick.gpus
                           ELSE Cardinality(rs[i].gpus) = q.pick.count
        /\ SameRequestMetadata(rs[i], ShareUnits(q.mode, q.units))
        /\ rs[i].start = s /\ rs[i].end = s + q.duration}

FreshId(i) == res[i].status = "unused" /\ \A j \in Id : j < i => res[j].status # "unused"

\* The booking that find_earliest_slot allows becomes an active record.
Place(rs, u, q, o, s) ==
    /\ s >= Floor(clock)
    /\ LaterClock
    /\ \E i \in Id, p \in Placements(rs, clock', q.pick, q.mode, ShareUnits(q.mode, q.units),
                                     s, q.duration, q.queue) :
        /\ FreshId(i)
        /\ res' = [rs EXCEPT ![i] =
             [NoReservation EXCEPT
                !.status = "active", !.uid = u, !.gpus = p[2], !.mode = q.mode,
                !.units = q.units, !.start = p[1], !.end = p[1] + q.duration,
                !.op = o, !.sig = IF o = None THEN None ELSE CreateSignature(q)]]
    /\ CountWrite(u, o)

AddBooking(u, q, o) ==
  \E rs \in {Maintain(res, clock)} :
    LET s == IF q.queue THEN QueueStart(q.start, clock) ELSE q.start
        hits == Hits(rs, u, o)
        twins == IF q.queue THEN {} ELSE Duplicates(rs, u, q, s)
    IN  /\ ~q.queue => q.start % Slot = 0 /\ ~PolicyConflict(s, s + q.duration, clock)
        /\ \/ /\ \E h \in hits : /\ h[1] = "create" /\ h[3] = CreateSignature(q)
                                 /\ SameRequestMetadata(rs[h[2]], ShareUnits(q.mode, q.units))
              /\ res' = rs /\ UNCHANGED <<clock, wrote>>
           \/ hits = {} /\ twins # {} /\ res' = rs /\ UNCHANGED <<clock, wrote>>
           \/ hits = {} /\ twins = {} /\ Place(rs, u, q, o, s)
        /\ Forget(res, rs)

-----------------------------------------------------------------------------
(* edit_booking.                                                           *)

\* _append_edit_history, with the fields that the edit changes.
Rewrite(rs, u, i, o, q, new) ==
    /\ Len(rs[i].edits) < EditLimit
    /\ res' = [rs EXCEPT ![i] = [new EXCEPT
                 !.edits = Append(@, [op |-> o, sig |-> IF o = None THEN None ELSE <<i, q>>])]]
    /\ CountWrite(u, o)

Without(rs, i) == [rs EXCEPT ![i] = NoReservation]

\* The extension of a started reservation needs its own GPUs from the current end.
ExtendsFreely(rs, i, end) ==
    LET from == Max({Ceil(clock), rs[i].end})
        own == [gpus |-> rs[i].gpus, count |-> Cardinality(rs[i].gpus), named |-> TRUE]
        units == IF rs[i].mode = "shared" THEN rs[i].units ELSE 1
    IN  /\ LaterClock
        /\ ~PolicyConflict(from, end, clock)
        /\ Placements(Without(rs, i), clock', own, rs[i].mode, units, from, end - from, FALSE) # {}

\* _edit_started_reservation: only the end may change, and not into the past.
EditStarted(rs, u, i, o, q) ==
    LET end == rs[i].start + q.duration IN
    /\ q.pick = None /\ q.mode = None /\ q.units = None /\ q.start = None /\ ~q.queue
    /\ q.duration # None
    /\ end >= Ceil(clock) /\ end > clock
    /\ IF end > rs[i].end THEN ExtendsFreely(rs, i, end) ELSE UNCHANGED clock
    /\ Rewrite(rs, u, i, o, q, [rs[i] EXCEPT !.end = end])

\* The start that an edit asks for, raised to the next slot when it may queue.
AskedStart(q, r) ==
    LET t == IF q.start = None THEN r.start ELSE q.start
    IN  IF q.queue THEN Max({QueueStart(t, clock), Ceil(clock)}) ELSE t

EditStartAllowed(q, s) ==
    /\ q.start # None => q.start >= clock
    /\ ~q.queue => s % Slot = 0 /\ s >= Ceil(clock)

StoredUnits(mode, units) == IF mode = "shared" THEN units ELSE None

\* A reservation that has not started is placed anew, its own record aside.
EditFuture(rs, u, i, o, q) ==
    LET r == rs[i]
        s == AskedStart(q, r)
        mode == IF q.mode = None THEN r.mode ELSE q.mode
        units == IF q.units # None THEN q.units
                 ELSE IF mode = "shared" /\ r.mode = "shared" THEN r.units
                 ELSE ShareUnits(mode, 1)
        d == IF q.duration = None THEN r.end - r.start ELSE q.duration
        pick == IF q.pick = None
                THEN [gpus |-> r.gpus, count |-> Cardinality(r.gpus), named |-> TRUE] ELSE q.pick
    IN  /\ mode = "exclusive" => q.units = None
        /\ EditStartAllowed(q, s)
        /\ q.queue \/ ~PolicyConflict(s, s + d, clock)
        /\ LaterClock
        /\ \E p \in Placements(Without(rs, i), clock', pick, mode, units, s, d, q.queue) :
            Rewrite(rs, u, i, o, q,
                [r EXCEPT !.gpus = p[2], !.mode = mode, !.start = p[1], !.end = p[1] + d,
                          !.units = StoredUnits(mode, units)])

\* Mutant: a reservation that begins at this instant has not started.
StartedBefore(r) == r.start < clock

Started(r) == r.start <= clock

EditBooking(u, i, q, o) ==
  \E rs \in {Maintain(res, clock)} :
    LET hits == Hits(rs, u, o)
    IN  /\ \/ /\ <<"edit", i, <<i, q>>>> \in hits
              /\ res' = rs /\ UNCHANGED <<clock, wrote>>
           \/ /\ hits = {} /\ rs[i].status = "active" /\ rs[i].uid = u
              /\ IF Started(rs[i]) THEN EditStarted(rs, u, i, o, q)
                                ELSE EditFuture(rs, u, i, o, q)
        /\ Forget(res, rs)

-----------------------------------------------------------------------------
(* Cancellation by the owner and by the administrator.                     *)

Cancelled(rs, i, o) ==
    [rs EXCEPT ![i] = [Retired(@, "cancelled", clock) EXCEPT !.cancelOp = o]]

CancelBooking(u, i, o) ==
    LET rs == Expire(res, clock)
        hits == Hits(rs, u, o)
    IN  /\ \/ <<"cancel", i, None>> \in hits /\ res' = rs /\ UNCHANGED wrote
           \/ /\ hits = {} /\ rs[i].status = "active" /\ rs[i].uid = u
              /\ res' = Cancelled(rs, i, o)
              /\ CountWrite(u, o)
        /\ UNCHANGED <<clock, forgotten>>

CancelBookingAsAdmin(i) ==
    LET rs == Maintain(res, clock)
    IN  /\ rs[i].status = "active"
        /\ res' = Cancelled(rs, i, None)
        /\ Forget(res, rs)
        /\ UNCHANGED <<clock, wrote>>

Tick ==
    /\ clock < MaxTime /\ clock' = clock + 1
    /\ UNCHANGED <<res, wrote, forgotten>>

Next ==
    \/ \E u \in Uid, o \in OpId \cup {None} :
        \/ \E q \in Requests : AddBooking(u, q, o)
        \/ \E i \in Id, q \in EditRequests : EditBooking(u, i, q, o)
        \/ \E i \in Id : CancelBooking(u, i, o)
    \/ \E i \in Id : CancelBookingAsAdmin(i)
    \/ Tick

Spec == Init /\ [][Next]_vars

-----------------------------------------------------------------------------

\* Two live reservations that share a GPU overlap only if both are shared, however
\* bookings, edits, extensions, cancellations and expiry interleave, and although
\* the clock moves while a mutator runs.
ExclusiveAlone ==
    \A i, j \in Live(res, clock) :
        /\ i # j /\ res[i].gpus \cap res[j].gpus # {}
        /\ "exclusive" \in {res[i].mode, res[j].mode}
        => ~Overlaps(res[i].start, res[i].end, res[j].start, res[j].end)

\* At every instant the live shared reservations of a GPU use at most
\* max_shared_users units, although admission only tests segments of the request.
SharedFits ==
    \A g \in Gpu, t \in 0 .. MaxTime + Horizon :
        UnitsOf(res, {i \in Live(res, clock) :
                        /\ g \in res[i].gpus /\ res[i].mode = "shared"
                        /\ res[i].start <= t /\ t < res[i].end}) <= MaxShared

\* An operation id is applied at most once as long as the ledger retains the
\* record of its first application, whichever kind of write it is retried as.
OncePerOperation == \A k \in Uid \X OpId : k \in forgotten \/ wrote[k] <= 1

\* find_earliest_slot tries only the ends of reservations and blackouts, yet no
\* other slot boundary of the search window admits the request earlier; a start it
\* finds beyond the window follows a blackout that ends inside it.
QueueFindsEarliest ==
    \A q \in Requests :
        LET units == ShareUnits(q.mode, q.units)
            begin == QueueStart(q.start, clock)
            until == SearchUntil(begin, clock)
            every == {c \in begin .. until :
                        c % Slot = 0 /\ Fits(res, clock, q.pick, q.mode, units, c, c + q.duration)}
            found == EarliestStart(res, clock, q.pick, q.mode, units, q.start, q.duration, TRUE)
        IN  /\ every # {} => found = {c \in every : \A x \in every : c <= x}
            /\ every = {} => \A c \in found : \E b \in Blackouts : b[2] <= until /\ c = Ceil(b[2])

\* Once a reservation has begun, no operation moves its start or changes its GPUs,
\* mode or share, and none ends it before the present.
ElapsedIsImmutable ==
    [][\A i \in Id :
        {res[i].status, res'[i].status} = {"active"} /\ res[i].start <= clock =>
            /\ res'[i].start = res[i].start /\ res'[i].gpus = res[i].gpus
            /\ res'[i].mode = res[i].mode /\ res'[i].units = res[i].units
            /\ res'[i].end >= Min({res[i].end, clock})]_vars

\* No live reservation overlaps an administrator blackout, however it was edited.
BlackoutsStayClear ==
    \A i \in Live(res, clock), b \in Blackouts :
        ~Overlaps(res[i].start, res[i].end, b[1], b[2])

\* GUIDE.md: an identical retry of a create returns the original reservation, as
\* long as the ledger retains it.
RetryReturnsOriginal ==
    \A i \in Id :
        res[i].sig # None => SameRequestMetadata(res[i], ShareUnits(res[i].sig.mode, res[i].sig.units))
=============================================================================
