------------------------------ MODULE OrderOnce ------------------------------
(***************************************************************************)
(* What a store owner is promised of an execution run, whatever happens to *)
(* its row: only a worker that has it in hand places its order, the order  *)
(* is placed once, and a run whose order was placed is never taken in hand *)
(* again.  Module WorkerFleet implements this.                             *)
(***************************************************************************)
EXTENDS Naturals

CONSTANTS Run, Worker, NoWorker

VARIABLES
  asked,    \* runs that were asked for
  orders,   \* how often the order of each run was placed
  holder    \* the worker that has the run in hand

vars == <<asked, orders, holder>>

Init ==
  /\ asked = {}
  /\ orders = [r \in Run |-> 0]
  /\ holder = [r \in Run |-> NoWorker]

Ask(r) ==
  /\ asked' = asked \cup {r}
  /\ UNCHANGED <<orders, holder>>

Take(w, r) ==
  /\ r \in asked
  /\ orders[r] = 0
  /\ holder[r] = NoWorker
  /\ holder' = [holder EXCEPT ![r] = w]
  /\ UNCHANGED <<asked, orders>>

PutDown(r) ==
  /\ holder' = [holder EXCEPT ![r] = NoWorker]
  /\ UNCHANGED <<asked, orders>>

\* The holder of a timed-out stage may put the run down with its last click.
Place(r) ==
  /\ orders[r] = 0
  /\ holder[r] # NoWorker
  /\ orders' = [orders EXCEPT ![r] = 1]
  /\ holder' \in {holder, [holder EXCEPT ![r] = NoWorker]}
  /\ UNCHANGED asked

Next ==
  \E r \in Run :
    \/ Ask(r)
    \/ \E w \in Worker : Take(w, r)
    \/ PutDown(r)
    \/ Place(r)

Spec == Init /\ [][Next]_vars
=============================================================================
