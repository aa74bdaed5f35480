------------------------------ MODULE MCBroker ------------------------------
(***************************************************************************)
(* Broker on a small instance: two commands of one user, the administrator *)
(* (so that every operation is open to both), beside another user's job.   *)
(***************************************************************************)
EXTENDS Broker, TLC

MCUidOf == [c \in Client |-> Root]

Symmetry == Permutations(Client)
=============================================================================
