----------------------------- MODULE MCBooking -----------------------------
(***************************************************************************)
(* Booking on a small instance, for TLC: requests that differ in one thing *)
(* at a time.                                                              *)
(***************************************************************************)
EXTENDS Booking, TLC

CONSTANTS
    BlackoutStart, BlackoutEnd,
    Starts, Lengths   \* starts and durations that requests name

MCBlackouts == {<<BlackoutStart, BlackoutEnd>>}

Named(gpus) == [gpus |-> gpus, count |-> Cardinality(gpus), named |-> TRUE]
AnyOf(n) == [gpus |-> Gpu, count |-> n, named |-> FALSE]

Ask(picks, starts, queue) ==
    {q \in [pick : picks, mode : Mode, units : {1, None}, start : starts, duration : Lengths,
            queue : {queue}] : q.units = None <=> q.mode = "exclusive"}

MCRequests ==
    Ask({AnyOf(1)}, Starts, FALSE) \cup Ask({AnyOf(Cardinality(Gpu))}, {2}, FALSE)
      \cup Ask({Named({g}) : g \in Gpu}, {0}, TRUE)

NoChange ==
    [pick |-> None, mode |-> None, units |-> None, start |-> None, duration |-> None,
     queue |-> FALSE]

MCEditRequests ==
    {[NoChange EXCEPT !.pick = Named({g})] : g \in Gpu}
      \cup {[NoChange EXCEPT !.mode = m] : m \in Mode}
      \cup {[NoChange EXCEPT !.units = MaxShared]}
      \cup {[NoChange EXCEPT !.start = s, !.queue = b] : s \in {4}, b \in BOOLEAN}
      \cup {[NoChange EXCEPT !.duration = d] : d \in {2, 4}}

\* Users, GPUs and operation ids are interchangeable.
Symmetry == Permutations(Uid) \cup Permutations(Gpu) \cup Permutations(OpId)
=============================================================================
