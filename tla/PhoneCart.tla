------------------------------- MODULE PhoneCart -------------------------------
(***************************************************************************)
(* The cart as its owner fills it (hooks/useCart.ts and the surfaces that  *)
(* write to it), and the three judges of its quantities: what the phone    *)
(* offers (lib/mlcc-ordering-rules.ts), what the API accepts               *)
(* (mlcc/milo-ordering-rules.js, lib/cart-validation.js), and what Stage 3 *)
(* of the browser engine types (add-items-to-cart.js), which applies the   *)
(* API's rules to facts of its own.                                        *)
(*                                                                         *)
(* A line keeps the facts its product had when it was added; the API and   *)
(* Stage 3 read them from mlcc_items.                                      *)
(***************************************************************************)
EXTENDS Naturals, FiniteSetsExt

CONSTANTS
  Product,      \* codes of mlcc_items
  AdaOf,        \* the distributor of a code
  Limited,      \* codes of the 70000 series
  Facts,        \* what mlcc_items may say of a code (0: not known)
  Wishes,       \* bound: quantities that are asked for without a picker
  MaxOffered,   \* maxN of generateValidQuantities, 500 in the code
  MaxTouches,   \* bound: changes of the cart
  Nothing       \* no add waits for an answer

FactRecords == [size_ml : Nat, case_size : Nat, pack_count : Nat, price : Nat]

ASSUME PhoneCartAssumption ==
  /\ AdaOf \in [Product -> STRING]
  /\ Limited \subseteq Product
  /\ Facts \subseteq FactRecords
  /\ Wishes \subseteq Nat \ {0}
  /\ {MaxOffered, MaxTouches} \subseteq Nat

VARIABLES
  catalog,      \* mlcc_items
  lines,        \* lk-scanner-cart-v1
  saved,        \* lk-scanner-saved-v1
  pendingAdd,   \* the add that the dialog asks about
  touches

phoneCartVars == <<catalog, lines, saved, pendingAdd, touches>>

-----------------------------------------------------------------------------
(* The ordering rules *)

BIG_LINE_QTY == 24
BIG_LINE_DOLLARS == 500
ADA_MINIMUM_ML == 9000

\* SPLIT_CASE_RULES_BY_SIZE_ML: sizes in the table, and their splits; the last one is
\* the full case.  The phone's table has the same entries.
Tabled == {1750, 1000, 750, 375, 200, 100, 50}
Splits(size) ==
  CASE size = 1750          -> {1, 3, 6}
    [] size \in {1000, 750} -> {1, 3, 6, 12}
    [] size = 375           -> {3, 6, 12, 24}
    [] size = 200           -> {12, 24}
    [] OTHER                -> {}

\* case_size counts bottles, and a pack is ordered as one.
PackAware(f) == f.pack_count > 1 /\ f.case_size > 0 /\ f.case_size % f.pack_count = 0
FullCase(f) == IF PackAware(f) THEN f.case_size \div f.pack_count ELSE f.case_size
WholeCases(q, f) == FullCase(f) > 0 /\ q % FullCase(f) = 0

\* Mutant: the largest split short of a case counts as the case.
OfferedHalfCases(p, f) ==
  LET UpTo(step) == {n \in 1..MaxOffered : n % step = 0} IN
  IF p \in Limited \/ (f.size_ml \in Tabled /\ Splits(f.size_ml) = {})
    THEN {n \in 1..MaxOffered : WholeCases(n, f)}
  ELSE IF f.size_ml \notin Tabled THEN {}
  ELSE Splits(f.size_ml) \cup UpTo(6)

\* generateValidQuantities: what steppers and pickers offer.  Nothing is offered where the
\* size has no rule or the case is not known: quantities are free there.
Offered(p, f) ==
  LET UpTo(step) == {n \in 1..MaxOffered : n % step = 0} IN
  IF p \in Limited \/ (f.size_ml \in Tabled /\ Splits(f.size_ml) = {})
    THEN {n \in 1..MaxOffered : WholeCases(n, f)}
  ELSE IF f.size_ml \notin Tabled THEN {}
  ELSE Splits(f.size_ml) \cup UpTo(Max(Splits(f.size_ml)))

\* validateQuantityForSize
Accepts(p, f, q) ==
  /\ p \notin Limited
  /\ f.size_ml \in Tabled =>
       IF Splits(f.size_ml) = {} THEN WholeCases(q, f)
       ELSE q \in Splits(f.size_ml) \/ q % Max(Splits(f.size_ml)) = 0

\* The volume of a line: a pack counts with all its bottles.
Volume(f, q) == f.size_ml * q * (IF f.pack_count > 1 THEN f.pack_count ELSE 1)

InCart == {p \in Product : lines[p].quantity > 0}

\* validateAdaMinimums, and groupedByAda's meetsMinimum, over what each line is said to be.
MeetsMinimum(p, says) ==
  MapThenSumSet(LAMBDA r : Volume(says[r], lines[r].quantity),
                {r \in InCart : AdaOf[r] = AdaOf[p]}) >= ADA_MINIMUM_ML

\* validateCart
Passes(says) ==
  \A p \in InCart : Accepts(p, says[p], lines[p].quantity) /\ MeetsMinimum(p, says)

\* What Stage 3 applies them to: the worker's mlccLookup reads pack_count and its
\* answer leaves it out, and normalizePayloadItemsForRpaStages has none.
LookedUp == [p \in Product |-> [catalog[p] EXCEPT !.pack_count = 0]]

-----------------------------------------------------------------------------
(* The cart *)

\* picked is history: the quantity is one that a stepper or a picker offered.
CartLines == [quantity : Nat, facts : FactRecords, picked : BOOLEAN]
NoFacts == [size_ml |-> 0, case_size |-> 0, pack_count |-> 0, price |-> 0]
NoLine == [quantity |-> 0, facts |-> NoFacts, picked |-> FALSE]

\* The type invariant.  A line that is there has a quantity: there is none of zero.
PhoneCartTypeOK ==
  /\ catalog \in [Product -> Facts]
  /\ lines \in [Product -> CartLines]
  /\ saved \in [Product -> CartLines]
  /\ pendingAdd = Nothing \/ pendingAdd \in [product : Product, line : CartLines]
  /\ touches \in 0..MaxTouches
  /\ \A p \in Product : \A line \in {lines[p], saved[p]} :
       line.quantity = 0 => line = NoLine

PhoneCartInit ==
  /\ catalog \in [Product -> Facts]
  /\ lines = [p \in Product |-> NoLine]
  /\ saved = [p \in Product |-> NoLine]
  /\ pendingAdd = Nothing
  /\ touches = 0

Touch == touches < MaxTouches /\ touches' = touches + 1

\* The dialog covers the page: only what is awaited elsewhere happens under it.
AtHand == pendingAdd = Nothing

\* A product that has a line keeps its facts, and the quantities add up.
Merged(old, new) ==
  IF old.quantity = 0 THEN new
  ELSE [old EXCEPT !.quantity = @ + new.quantity, !.picked = FALSE]

LineOf(p, q, picked) == [quantity |-> q, facts |-> catalog[p], picked |-> picked]

\* addItem
Adds(p, new) == lines' = [lines EXCEPT ![p] = Merged(@, new)]

\* addGuardVerdict: more of what is in the cart, or a big line, is asked about first.
Trips(p, new) ==
  \/ lines[p].quantity > 0
  \/ new.quantity >= BIG_LINE_QTY
  \/ new.quantity * new.facts.price >= BIG_LINE_DOLLARS

\* addItemGuarded.  A question that is open is forgotten for the new one.
AddItemGuarded(p, new) ==
  IF Trips(p, new)
    THEN pendingAdd' = [product |-> p, line |-> new] /\ UNCHANGED lines
    ELSE Adds(p, new) /\ UNCHANGED pendingAdd

\* ProductCard: its stepper and its picker offer quantities, or any will do.
AddFromCard(p) ==
  LET offered == Offered(p, catalog[p]) IN
  /\ AtHand
  /\ Touch
  /\ \E q \in IF offered = {} THEN Wishes ELSE offered :
       AddItemGuarded(p, LineOf(p, q, offered # {}))
  /\ UNCHANGED <<catalog, saved>>

\* InventoryPage.reorder: the product is fetched first.
Reorder(p) ==
  /\ Touch
  /\ \E q \in Wishes : AddItemGuarded(p, LineOf(p, q, FALSE))
  /\ UNCHANGED <<catalog, saved>>

\* Mutant: a case is asked for whatever the catalogue says of it.
CaseAnyway(p) == TRUE

\* initialQty: the suggestion counts when it is positive.
CaseSuggested(p) == catalog[p].case_size > 0

\* ResolvedOrderCard.addAll, each row in turn: what is in the cart gets the row's quantity,
\* the rest is added, and the last row that trips is the one that is asked about.  A row
\* asks for what was said, or for "a case", which the assistant takes for case_size.
AddAll(chosen) ==
  /\ AtHand
  /\ Touch
  /\ \E q \in Wishes, asCases \in SUBSET chosen :
       LET Row(p) == LineOf(p, IF p \in asCases THEN catalog[p].case_size ELSE q, FALSE)
           tripping == {p \in chosen \ InCart : Trips(p, Row(p))}
       IN /\ \A p \in asCases : CaseSuggested(p)
          /\ lines' = [p \in Product |->
                         CASE p \in chosen \cap InCart ->
                                [lines[p] EXCEPT !.quantity = Row(p).quantity, !.picked = FALSE]
                           [] p \in chosen \ (InCart \cup tripping) -> Row(p)
                           [] OTHER -> lines[p]]
          /\ IF tripping = {} THEN UNCHANGED pendingAdd
             ELSE \E p \in tripping : pendingAdd' = [product |-> p, line |-> Row(p)]
  /\ UNCHANGED <<catalog, saved>>

\* A template, an earlier order or a pasted list: addItem for each line, after an await.
LoadList(listed) ==
  /\ Touch
  /\ \E q \in Wishes :
       lines' = [p \in Product |->
                   IF p \in listed THEN Merged(lines[p], LineOf(p, q, FALSE)) ELSE lines[p]]
  /\ UNCHANGED <<catalog, saved, pendingAdd>>

\* confirmPendingAdd
ConfirmAdd ==
  /\ ~AtHand
  /\ Adds(pendingAdd.product, pendingAdd.line)
  /\ pendingAdd' = Nothing
  /\ UNCHANGED <<catalog, saved, touches>>

\* cancelPendingAdd, or the page is reloaded: the question is not kept.
CancelAdd ==
  /\ ~AtHand
  /\ pendingAdd' = Nothing
  /\ UNCHANGED <<catalog, lines, saved, touches>>

\* Mutant: one more or one less, whatever the product.
SteppedByOne(line, offered, up) ==
  IF up THEN line.quantity + 1 ELSE Max({1, line.quantity - 1})

\* stepLineQuantity
Stepped(line, offered, up) ==
  LET above == {n \in offered : n > line.quantity}
      below == {n \in offered : n < line.quantity}
  IN CASE offered = {} /\ up  -> line.quantity + 1
       [] offered = {} /\ ~up -> Max({1, line.quantity - 1})
       [] above # {} /\ up    -> Min(above)
       [] below # {} /\ ~up   -> Max(below)
       [] OTHER               -> IF up THEN Max(offered) ELSE Min(offered)

\* incrementQuantity, decrementQuantity; at the smallest quantity "-" is disabled.
StepLine(p, up) ==
  LET offered == Offered(p, lines[p].facts)
      smallest == IF offered = {} THEN 1 ELSE Min(offered)
  IN
  /\ AtHand
  /\ Touch
  /\ p \in InCart
  /\ up \/ lines[p].quantity > smallest
  /\ lines' = [lines EXCEPT ![p].quantity = Stepped(lines[p], offered, up),
                            ![p].picked = offered # {}]
  /\ UNCHANGED <<catalog, saved, pendingAdd>>

\* updateQuantity, with one of the quantities the line's picker shows.
PickQuantity(p) ==
  /\ AtHand
  /\ Touch
  /\ p \in InCart
  /\ \E q \in Offered(p, lines[p].facts) :
       lines' = [lines EXCEPT ![p].quantity = q, ![p].picked = TRUE]
  /\ UNCHANGED <<catalog, saved, pendingAdd>>

SaveForLater(p) ==
  /\ AtHand
  /\ Touch
  /\ p \in InCart
  /\ saved' = [saved EXCEPT ![p] = Merged(@, lines[p])]
  /\ lines' = [lines EXCEPT ![p] = NoLine]
  /\ UNCHANGED <<catalog, pendingAdd>>

MoveSavedToCart(p) ==
  /\ AtHand
  /\ Touch
  /\ saved[p].quantity > 0
  /\ Adds(p, saved[p])
  /\ saved' = [saved EXCEPT ![p] = NoLine]
  /\ UNCHANGED <<catalog, pendingAdd>>

RemoveSaved(p) ==
  /\ AtHand
  /\ saved[p].quantity > 0
  /\ saved' = [saved EXCEPT ![p] = NoLine]
  /\ UNCHANGED <<catalog, lines, pendingAdd, touches>>

\* removeItem: a line, or what a check found out of stock.
RemoveItem(p) ==
  /\ AtHand
  /\ p \in InCart
  /\ lines' = [lines EXCEPT ![p] = NoLine]
  /\ UNCHANGED <<catalog, saved, pendingAdd, touches>>

\* clearCart: Clear cart, or an order that was placed has landed.
ClearCart ==
  /\ lines' = [p \in Product |-> NoLine]
  /\ UNCHANGED <<catalog, saved, pendingAdd, touches>>

\* A price book is ingested.
CatalogChanges(p) ==
  /\ Touch
  /\ \E f \in Facts \ {catalog[p]} : catalog' = [catalog EXCEPT ![p] = f]
  /\ UNCHANGED <<lines, saved, pendingAdd>>

PhoneCartNext ==
  \/ \E p \in Product :
       \/ AddFromCard(p) \/ Reorder(p) \/ PickQuantity(p) \/ SaveForLater(p)
       \/ MoveSavedToCart(p) \/ RemoveSaved(p) \/ RemoveItem(p) \/ CatalogChanges(p)
       \/ \E up \in BOOLEAN : StepLine(p, up)
  \/ \E chosen \in (SUBSET Product) \ {{}} : AddAll(chosen) \/ LoadList(chosen)
  \/ ConfirmAdd \/ CancelAdd \/ ClearCart

PhoneCartSpec == PhoneCartInit /\ [][PhoneCartNext]_phoneCartVars

-----------------------------------------------------------------------------
(* Properties *)

\* Nothing but the price has changed since the line was added.
Fresh(p) == [lines[p].facts EXCEPT !.price = 0] = [catalog[p] EXCEPT !.price = 0]

\* A quantity that a stepper or a picker put into the cart is one the API accepts, after
\* any sequence of merges, parkings and steps, as long as the catalogue says of the
\* product what it said when the line was added.  (Of the 70000 series the phone offers
\* full cases, and the API accepts nothing.)
PickedIsAccepted ==
  \A p \in InCart \ Limited :
    lines[p].picked /\ Fresh(p) => Accepts(p, catalog[p], lines[p].quantity)

\* The phone's copy of the rules says of a cart what the API says: when each line's picker
\* knows the rule, every quantity is one of its and every distributor's minimum is met on
\* screen exactly when validateCart passes the cart.
ScreenSpeaksForApi ==
  (\A p \in InCart : /\ p \notin Limited /\ Fresh(p)
                     /\ Offered(p, lines[p].facts) # {} /\ lines[p].quantity <= MaxOffered)
    => ((\A p \in InCart : /\ lines[p].quantity \in Offered(p, lines[p].facts)
                           /\ MeetsMinimum(p, [r \in Product |-> lines[r].facts]))
          <=> Passes(catalog))

\* A cart the API accepts is one Stage 3 types.  milo-ordering-rules.js:116-125 says that
\* multi-pack products are ordered per pack and that its case math is pack-aware.
AcceptedIsTyped == Passes(catalog) => Passes(LookedUp)
=============================================================================
