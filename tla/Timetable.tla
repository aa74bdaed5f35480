------------------------------ MODULE Timetable ------------------------------
(***************************************************************************)
(* What the interactive front ends see of the ledger: the reservations in  *)
(* their listed order, the searches of scheduler.py, and the transactions  *)
(* that create, edit and cancel.  The programs of all other sessions, of   *)
(* the same user or another, appear as transactions committed in between.  *)
(* `screen` is what the user was last shown as the thing about to be       *)
(* written, `deed` is the last write together with what it was shown as.   *)
(* Booking.tla models the transactions themselves in full.                 *)
(***************************************************************************)
EXTENDS Integers, Sequences, FiniteSets, SequencesExt, TLC

CONSTANTS
    Myself,         \* the user at the terminal
    Cards,          \* the enabled GPUs
    CardSlots,      \* max_shared_users
    Slice,          \* clock ticks in a booking slice
    Closures,       \* blackouts <<from, to>>
    Horizon, Reach, \* booking_horizon_days and queue_search_hours, in ticks
    Ledgers,        \* ledgers to begin with
    Bookings,       \* what the other sessions book
    LastMoment, MaxElsewhere    \* bounds

VARIABLES
    moment,
    plan,           \* reservations [uid, from, to, gpus, mode, live, op]; the index is the id
    screen,
    deed,
    elsewhere       \* number of transactions of other sessions

timetable == <<moment, plan, screen, deed, elsewhere>>

NoClaim == <<>>
Terms(from, to, gpus, mode) == [from |-> from, to |-> to, gpus |-> gpus, mode |-> mode]
ClaimId(i) == [id |-> i]

Floor(t) == (t \div Slice) * Slice
Ceil(t) == Floor(t + Slice - 1)
Larger(a, b) == IF a < b THEN b ELSE a

Alive(i) == plan[i].live /\ moment < plan[i].to

(* list_active: by start, end and id. *)
ListedBefore(i, j) ==
    \/ plan[i].from < plan[j].from
    \/ plan[i].from = plan[j].from /\ plan[i].to < plan[j].to
    \/ plan[i].from = plan[j].from /\ plan[i].to = plan[j].to /\ i < j

Listing ==
    LET alive == {i \in DOMAIN plan : Alive(i)}
    IN [k \in 1 .. Cardinality(alive) |->
           CHOOSE i \in alive : Cardinality({j \in alive : ListedBefore(j, i)}) = k - 1]

OwnListing == SelectSeq(Listing, LAMBDA i : plan[i].uid = Myself)

(* The reservation `skip` is left out, 0 for none. *)
FitsOn(skip, g, from, to, mode) ==
    LET near == {i \in DOMAIN plan \ {skip} :
                    Alive(i) /\ g \in plan[i].gpus /\ plan[i].from < to /\ from < plan[i].to}
        usersAt(t) == {i \in near : plan[i].from <= t /\ t < plan[i].to}
    IN IF mode = "exclusive" THEN near = {}
       ELSE /\ \A i \in near : plan[i].mode = "shared"
            /\ \A t \in from .. to - 1 : Cardinality(usersAt(t)) < CardSlots

Permitted(from, to) ==
    /\ to <= moment + Horizon
    /\ \A c \in Closures : to <= c[1] \/ c[2] <= from

(* Every choice the allocator may make among the cards that are free. *)
CardsAt(skip, count, from, len, mode, pool) ==
    {s \in SUBSET {g \in pool : FitsOn(skip, g, from, from + len, mode)} : Cardinality(s) = count}

Placed(skip, count, from, len, mode, pool) ==
    IF Permitted(from, from + len)
    THEN {Terms(from, from + len, s, mode) : s \in CardsAt(skip, count, from, len, mode, pool)}
    ELSE {}

QueueStart(t) == IF t <= moment THEN Floor(moment) ELSE Ceil(t)

EndsWithin(skip, from, until) ==
    {e \in {Ceil(plan[i].to) : i \in {j \in DOMAIN plan \ {skip} : Alive(j)}} :
        from <= e /\ e <= until}
    \cup {Ceil(c[2]) : c \in {d \in Closures : from <= d[2] /\ d[2] <= until}}

SearchEnd(from) == IF Reach < moment + Horizon - from THEN from + Reach ELSE moment + Horizon

(* The start that fits and is nearest to the target, the earlier of two. *)
FirstOf(target, starts, skip, count, len, mode, pool) ==
    LET found == {s \in starts : Placed(skip, count, s, len, mode, pool) # {}}
        away(s) == IF s < target THEN target - s ELSE s - target
        nearer(s, r) == away(s) < away(r) \/ (away(s) = away(r) /\ s < r)
    IN IF found = {} THEN {}
       ELSE Placed(skip, count, CHOOSE s \in found : \A r \in found \ {s} : nearer(s, r),
                   len, mode, pool)

EarliestSlot(skip, count, want, len, mode, pool) ==
    LET from == QueueStart(want)
    IN FirstOf(from, {from} \cup EndsWithin(skip, from, SearchEnd(from)),
               skip, count, len, mode, pool)

NearestSlot(skip, count, want, len, mode, pool) ==
    LET lower == Floor(moment)
        target == IF Ceil(want) < lower THEN lower ELSE Ceil(want)
        until == SearchEnd(target)
        befores == {Floor(plan[i].from - len) : i \in {j \in DOMAIN plan \ {skip} : Alive(j)}}
    IN FirstOf(target,
               {lower, target} \cup EndsWithin(skip, lower, until)
                   \cup {s \in befores : lower <= s /\ s <= until},
               skip, count, len, mode, pool)

(* The end of a started reservation moves: the added part has to be free. *)
EndMayMove(i, to) ==
    /\ Ceil(moment) <= to /\ moment < to
    /\ to > plan[i].to =>
          LET from == IF plan[i].to < Ceil(moment) THEN Ceil(moment) ELSE plan[i].to
          IN /\ Permitted(from, to)
             /\ \A g \in plan[i].gpus : FitsOn(i, g, from, to, plan[i].mode)

(* An edit request is a record of the fields it changes: some of from,     *)
(* length, mode, gpus, count, avoid (excluded GPUs) and queue.             *)
Asked(change, field, kept) == IF field \in DOMAIN change THEN change[field] ELSE kept

(* Before its start a reservation is placed anew, its own record left out: *)
(* on its own GPUs unless the request names, counts or excludes some, and  *)
(* with `queue` at the first start that fits.                              *)
Replaced(i, change) ==
    LET r == plan[i]
        from == Asked(change, "from", r.from)
        len == Asked(change, "length", r.to - r.from)
        mode == Asked(change, "mode", r.mode)
        auto == DOMAIN change \cap {"gpus", "count", "avoid"} # {}
        named == Asked(change, "gpus", IF auto THEN {} ELSE r.gpus)
        avoided == Asked(change, "avoid", {})
        count == Asked(change, "count", Cardinality(IF named = {} THEN r.gpus ELSE named))
        pool == IF named = {} THEN Cards \ avoided ELSE named
    IN IF \/ Floor(len) # len
          \/ "from" \in DOMAIN change /\ from < moment
          \/ named # {} /\ (Cardinality(named) # count \/ named \cap avoided # {})
       THEN {}
       ELSE IF "queue" \in DOMAIN change
       THEN EarliestSlot(i, count, Larger(from, Ceil(moment)), len, mode, pool)
       ELSE IF Floor(from) = from /\ Ceil(moment) <= from
       THEN Placed(i, count, from, len, mode, pool) ELSE {}

(* What edit_booking may write for a user: after the start only the end    *)
(* moves.                                                                  *)
Edited(uid, i, change) ==
    LET r == plan[i]
    IN IF ~(Alive(i) /\ r.uid = uid) THEN {}
       ELSE IF moment < r.from
       THEN {[r EXCEPT !.from = s.from, !.to = s.to, !.gpus = s.gpus, !.mode = s.mode] :
                s \in Replaced(i, change)}
       ELSE {[r EXCEPT !.to = to] :
                to \in {t \in {r.from + Asked(change, "length", 0)} :
                          /\ DOMAIN change = {"length"}
                          /\ Floor(t - r.from) = t - r.from /\ EndMayMove(i, t)}}

CancelAllowed(i) == Alive(i) /\ plan[i].uid = Myself

TermsOf(r) == Terms(r.from, r.to, r.gpus, r.mode)

Reservation(uid, claim) ==
    [uid |-> uid, from |-> claim.from, to |-> claim.to, gpus |-> claim.gpus, mode |-> claim.mode,
     live |-> TRUE, op |-> "none"]

AddAllowed(claim) ==
    /\ Floor(moment) <= claim.from /\ Floor(claim.from) = claim.from
    /\ claim \in Placed(0, Cardinality(claim.gpus), claim.from, claim.to - claim.from, claim.mode,
                        claim.gpus)

(* add_booking with an exact start: a request that repeats an active       *)
(* reservation of its owner is answered with that reservation.             *)
Repeats(uid, from, to, mode, sets) ==
    {i \in DOMAIN plan : /\ Permitted(from, to) /\ Alive(i) /\ plan[i].uid = uid
                         /\ plan[i].gpus \in sets
                         /\ TermsOf(plan[i]) = Terms(from, to, plan[i].gpus, mode)}

Repeated(i) == [id |-> i, ledger |-> plan]
Created(claim) ==
    [id |-> Len(plan) + 1, ledger |-> Append(plan, Reservation(Myself, claim))]

Added(claim) ==
    LET again == Repeats(Myself, claim.from, claim.to, claim.mode, {claim.gpus})
    IN IF again # {} THEN {Repeated(i) : i \in again}
       ELSE IF AddAllowed(claim) THEN {Created(claim)} ELSE {}

(* All that a claim may speak of, but for `avoid` (GPUs not to be used)    *)
(* and `earliest` (a start not to be preceded).                            *)
Written(i, r) ==
    TermsOf(r) @@ [id |-> i, length |-> r.to - r.from, count |-> Cardinality(r.gpus)]

Deed(claim, i, ledger) ==
    /\ plan' = ledger
    /\ deed' = [claim |-> claim, done |-> Written(i, ledger[i])]

TimetableInit ==
    /\ moment = 0
    /\ plan \in Ledgers
    /\ screen = NoClaim
    /\ deed = [claim |-> NoClaim, done |-> NoClaim]
    /\ elsewhere = 0

Elsewhere ==
    /\ elsewhere < MaxElsewhere
    /\ elsewhere' = elsewhere + 1
    /\ UNCHANGED <<moment, screen, deed>>

BookElsewhere ==
    /\ Elsewhere
    /\ \E b \in Bookings :
          /\ Repeats(b.uid, b.from, b.to, b.mode, {b.gpus}) = {} /\ AddAllowed(TermsOf(b))
          /\ plan' = Append(plan, b)

CancelElsewhere ==
    /\ Elsewhere
    /\ \E i \in DOMAIN plan :
          /\ Alive(i)
          /\ plan' = [plan EXCEPT ![i].live = FALSE]

EditElsewhere ==
    /\ Elsewhere
    /\ \E i \in DOMAIN plan : \E change \in {[from |-> plan[i].from + Slice],
                                             [length |-> plan[i].to - plan[i].from + Slice]} :
          \E r \in Edited(plan[i].uid, i, change) : plan' = [plan EXCEPT ![i] = r]

TimePasses ==
    /\ moment < LastMoment
    /\ moment' = moment + 1
    /\ UNCHANGED <<plan, screen, deed, elsewhere>>

Environment == BookElsewhere \/ CancelElsewhere \/ EditElsewhere \/ TimePasses

(* What a front end writes agrees with what its user was last shown, in    *)
(* every term that the front end submits: the editor's frame at the moment *)
(* of Enter, the id in a delete prompt, an offered slot, every field of a  *)
(* reviewed change, the mode, length, number and named GPUs of a reviewed  *)
(* booking, and the reservation that an earlier attempt of the same        *)
(* operation id was answered with.  A request that may queue starts no     *)
(* earlier than asked, uses none of the GPUs it excludes, and starts when  *)
(* its review said unless the ledger or the slice of the clock has changed *)
(* since.  Three things on the screen are not kept: which GPUs a guided    *)
(* booking was reviewed with when none were named, its start once another  *)
(* session has written, and a typed number once the list has changed.      *)
WrittenAsShown ==
    LET shown == deed.claim
        wrote == deed.done
    IN /\ \A f \in DOMAIN shown \ {"avoid", "earliest"} : wrote[f] = shown[f]
       /\ "avoid" \in DOMAIN shown => wrote.gpus \cap shown.avoid = {}
       /\ "earliest" \in DOMAIN shown => shown.earliest <= wrote.from
=============================================================================
