---------------------------- MODULE OrdersProofs ----------------------------
(***************************************************************************)
(* The stretches of an order in one state space (MCOrders), for any values *)
(* of the constants: a behaviour of the composition is a behaviour of each *)
(* stretch, so that what is proved of a stretch holds in it.               *)
(***************************************************************************)
EXTENDS MCOrders, CartOrdersProofs, MiloProofs, CatalogProofs

\* The composition implements each of its parts: where one moves, the others stutter.
THEOREM OrdersImplementParts ==
  MCSpec => Spec /\ PipelineSpec /\ PlacedSpec /\ PriceBookSpec /\ UpcSpec
<1>1. MCInit => Init /\ PipelineInit /\ PlacedInit /\ PriceBookInit /\ UpcInit
  BY DEF MCInit
<1>2. [MCNext]_orderVars =>
        /\ [Next]_vars /\ [PipelineNext]_pipelineVars /\ [PlacedNext]_placedVars
        /\ [PriceBookNext]_bookVars /\ [UpcNext]_upcVars
  BY DEF MCNext, orderVars
<1> QED
  BY <1>1, <1>2, PTL DEF MCSpec, Spec, PipelineSpec, PlacedSpec, PriceBookSpec, UpcSpec

\* Carts and requests, MILO's cart, MILO's orders, the catalog and the barcodes stay
\* well-formed in the composition.
THEOREM OrdersTypeCorrect == MCSpec => []OrdersTypeOK
<1>1. CartTypeOK /\ PipelineTypeOK /\ PlacedTypeOK /\ PriceBookTypeOK /\ UpcTypeOK
        => OrdersTypeOK
  BY DEF OrdersTypeOK
<1> QED
  BY <1>1, OrdersImplementParts, CartTypeCorrect, PipelineTypeCorrect, PlacedTypeCorrect,
     PriceBookTypeCorrect, UpcTypeCorrect, PTL
=============================================================================
