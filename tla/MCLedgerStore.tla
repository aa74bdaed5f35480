---------------------------- MODULE MCLedgerStore ----------------------------
(***************************************************************************)
(* Constants of the model-checking runs of LedgerStore.                    *)
(***************************************************************************)
EXTENDS LedgerStore, TLC

\* The events of a batch differ in length, in every transaction alike.
MCSize == [e \in Event |-> e[2]]

Symmetry == Permutations(Proc) \cup Permutations(Txn)
=============================================================================
