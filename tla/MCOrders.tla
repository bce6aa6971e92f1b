------------------------------- MODULE MCOrders -------------------------------
(***************************************************************************)
(* An order's stretches on small instances, in one state space: the       *)
(* catalog it is made from (PriceBook) and the barcodes that find a product *)
(* in it (UpcMappings), from the phone to the run (CartOrders), from the   *)
(* run to MILO's cart and the Checkout click (SubmitPipeline), from MILO's *)
(* list of orders to the store's (PlacedOrders).  They share no state: each behaviour moves the one its  *)
(* focus names, while the others stay where they began.                    *)
(***************************************************************************)
EXTENDS MCCartOrders, SubmitPipeline, PlacedOrders, PriceBook, MCUpcMappings

CONSTANT low

VARIABLE focus

orderVars == <<focus, vars, pipelineVars, placedVars, bookVars, upcVars>>

Quantity(r, g) == [c \in Code |-> IF c = rum THEN r ELSE g]

\* Two of one thing, or one of each; gin may be in MILO's cart already.
MCRequests == {Quantity(2, 0), Quantity(1, 1)}
MCLeftovers == {Quantity(0, 0), Quantity(0, 2)}

\* A validation; a live submit that tries the node engine first and may fall back to the
\* light path; and a rehearsal.
Rehearsal == [validateOnly |-> FALSE, live |-> FALSE, node |-> TRUE, light |-> FALSE]
MCWays ==
  {[validateOnly |-> TRUE, live |-> FALSE, node |-> FALSE, light |-> FALSE],
   [validateOnly |-> FALSE, live |-> TRUE, node |-> TRUE, light |-> TRUE],
   Rehearsal}

Focus(part) == focus = part

\* No price is like another, so that the first one may be any.
MCInit ==
  /\ focus \in {"catalog", "barcodes", "carts", "pipeline", "placed"}
  /\ Init /\ PipelineInit /\ PlacedInit /\ PriceBookInit /\ UpcInit
  /\ \A r \in Row : catalog[r].here => Focus("catalog") /\ catalog[r].price = low
  /\ (\E m \in Sku : itemUpc[m] # {}) => Focus("barcodes")
  /\ Focus("pipeline") \/ <<want, active, oos, way>> = <<Quantity(2, 0), Nothing, {}, Rehearsal>>

MCNext ==
  /\ UNCHANGED focus
  /\ \/ Focus("carts") /\ Next /\ UNCHANGED <<pipelineVars, placedVars, bookVars, upcVars>>
     \/ Focus("pipeline") /\ PipelineNext /\ UNCHANGED <<vars, placedVars, bookVars, upcVars>>
     \/ Focus("placed") /\ PlacedNext /\ UNCHANGED <<vars, pipelineVars, bookVars, upcVars>>
     \/ Focus("catalog") /\ PriceBookNext
        /\ UNCHANGED <<vars, pipelineVars, placedVars, upcVars>>
     \/ Focus("barcodes") /\ UpcNext
        /\ UNCHANGED <<vars, pipelineVars, placedVars, bookVars>>

BothInterchangeable == Interchangeable \cup Permutations(Worker)

\* The type invariants of the five parts, of the one that moves: callers, runs and carts;
\* the stages and MILO's cart; the rows of MILO's orders; the jobs and the catalogue; the
\* mappings, their reviews and the requests that write them.
OrdersTypeOK ==
  /\ Focus("carts") => CartTypeOK
  /\ Focus("pipeline") => PipelineTypeOK
  /\ Focus("placed") => PlacedTypeOK
  /\ Focus("catalog") => PriceBookTypeOK
  /\ Focus("barcodes") => UpcTypeOK

MCSpec == MCInit /\ [][MCNext]_orderVars
=============================================================================
