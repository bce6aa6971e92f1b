------------------------------- MODULE MCPhone -------------------------------
(***************************************************************************)
(* The phone's side of an order on small instances, in one state space:    *)
(* how its cart is filled (PhoneCart), how it is checked and placed        *)
(* (ScannerOrders), and the requests that follow when other routes write   *)
(* to the same cart (CartOrders).  They share no state: each behaviour     *)
(* moves the one its focus names.                                          *)
(***************************************************************************)
EXTENDS MCCartOrders, ScannerOrders, PhoneCart

CONSTANTS fifth, bucket, rare

\* A split-case bottle of which a case is a big line by its price; a 20-pack of minis that
\* goes by six packs; and a size that no rule knows.
Known(size, bottles, pack, price) ==
  [size_ml |-> size, case_size |-> bottles, pack_count |-> pack, price |-> price]
FewFacts == {Known(750, 12, 0, 50), Known(50, 120, 20, 17), Known(700, 0, 0, 1)}
OneAda == [p \in Product |-> "221"]

VARIABLE focus

phoneVars == <<focus, vars, scannerVars, phoneCartVars>>

Focus(part) == focus = part

MCInit ==
  /\ focus \in {"cart", "carts", "scanner"}
  /\ Init /\ ScannerInit /\ PhoneCartInit
  /\ Focus("scanner") \/ items = NoContent
  /\ Focus("cart") \/ \A p \in Product : catalog[p].price = 50

MCNext ==
  /\ UNCHANGED focus
  /\ \/ Focus("cart") /\ PhoneCartNext /\ UNCHANGED <<vars, scannerVars>>
     \/ Focus("carts") /\ Next /\ UNCHANGED <<scannerVars, phoneCartVars>>
     \/ Focus("scanner") /\ ScannerNext /\ UNCHANGED <<vars, phoneCartVars>>

AllInterchangeable ==
  Interchangeable \cup Permutations(Content) \cup Permutations(Run) \cup Permutations(Call)

\* The type invariants of the three parts, of the one that moves: the lines and the question
\* that is open; the requests; the calls, the tracked run and the green check.
PhoneTypeOK ==
  /\ Focus("cart") => PhoneCartTypeOK
  /\ Focus("carts") => CartTypeOK
  /\ Focus("scanner") => ScannerTypeOK

MCSpec == MCInit /\ [][MCNext]_phoneVars
=============================================================================
