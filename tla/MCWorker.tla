------------------------------ MODULE MCWorker ------------------------------
(***************************************************************************)
(* Worker on a small instance, for TLC.                                    *)
(***************************************************************************)
EXTENDS Worker, TLC

CONSTANTS StartTime, EndTime

MCStart == [j \in Job |-> StartTime]
MCEnd == [j \in Job |-> EndTime]

\* Jobs and hosts are interchangeable.
Symmetry == Permutations(Job) \cup Permutations(Host)
=============================================================================
