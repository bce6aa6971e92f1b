---------------------------- MODULE MCWorkerFleet ----------------------------
(* Small instances of WorkerFleet for TLC. *)
EXTENDS WorkerFleet, TLC

\* Every run belongs to the one store; the runs share a cart, or each has its own.
OneStore == [r \in Run |-> CHOOSE s \in Store : TRUE]
OneCart == [r \in Run |-> CHOOSE k \in Cart : TRUE]
OwnCart == CHOOSE f \in [Run -> Cart] : \A q, r \in Run : q # r => f[q] # f[r]

AllActions == OPERATOR_ACTION

\* Runs are interchangeable where all of them submit, and their carts are all
\* different or all the same.
Interchangeable == Permutations(Worker) \cup Permutations(Slot)
AllInterchangeable == Interchangeable \cup Permutations(Run)

\* Bound of run store: one of the store's two runs is claimed a second time.
FewClaims == \A q, r \in Run : q # r => Len(attempts[q]) + Len(attempts[r]) <= 3
=============================================================================
