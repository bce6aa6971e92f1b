---------------------------- MODULE MCUpcMappings ----------------------------
(* A small instance of UpcMappings for TLC. *)
EXTENDS UpcMappings, TLC

CONSTANTS upc, ean

\* The register or the scanner has the barcode of one product in two forms.
OneCanonical == [b \in Barcode |-> upc]

UpcInterchangeable == Permutations(Sku) \cup Permutations(Slot)
=============================================================================
