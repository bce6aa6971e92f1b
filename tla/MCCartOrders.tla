---------------------------- MODULE MCCartOrders ----------------------------
(* Small instances of CartOrders for TLC: two bottles, by the piece. *)
EXTENDS CartOrders, TLC

CONSTANTS rum, gin

Just(bottles) == [b \in Bottle |-> IF b \in bottles THEN 1 ELSE 0]

\* Gin may be ordered only with rum.  Phones want gin, or both; other clients may
\* leave rum.
GinOrBoth == {Just({gin}), Just({rum, gin})}
RumOrGin == {Just({rum}), Just({gin})}
NotGinAlone == Lines \ {Just({gin})}

Interchangeable == Permutations(Caller)
=============================================================================
