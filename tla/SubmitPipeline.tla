---------------------------- MODULE SubmitPipeline ----------------------------
(***************************************************************************)
(* What one RPA run does to the store's cart at MILO: Stage 3              *)
(* (rpa/stages/add-items-to-cart.js), Stage 4 (rpa/stages/validate-cart.js)*)
(* the comparison before the Checkout click (workers/execution-worker.js)  *)
(* and the engine that does the same with HTTP calls                       *)
(* (rpa/engine/engine-api.js).                                             *)
(*                                                                         *)
(* MILO is not part of the repository.  Whatever the code defends against  *)
(* may happen: rows of the quick-add form that appear late or never, lines *)
(* that are dropped, clamped, found out of stock or demoted by Validate, a *)
(* cart page that is painted late, and another person at the same cart.    *)
(***************************************************************************)
EXTENDS Naturals

CONSTANTS
  Code,         \* products of MILO
  Requests,     \* orders: a quantity for each code, 0 for what is not ordered
  Ways,         \* what kinds of runs there are, and what is switched on
  Leftovers,    \* what the cart may hold before the run
  MaxLine,      \* bound: quantity of a line of MILO's cart
  BatchSize,    \* items typed before Add all to Cart
  TypeAttempts, \* times a code is typed (PER_ITEM_ADD_ATTEMPTS)
  MaxTouches,   \* bound: changes another person makes to the cart
  NoCode,       \* no item is being typed
  NoOrder       \* nothing was ordered

Quantities == [Code -> 0..MaxLine]
Nothing == [c \in Code |-> 0]
CodesOf(lines) == {c \in Code : lines[c] > 0}

\* One way a run may proceed.
AllWays == [validateOnly : BOOLEAN,   \* runType is validate_only
            live : BOOLEAN,           \* stage5Mode is submit
            node : BOOLEAN,           \* the node engine is tried first
            light : BOOLEAN]          \* LK_RPA_LIGHT_VALIDATE

ASSUME PipelineAssumption ==
  /\ Ways \subseteq AllWays
  /\ \A w \in Ways : w.validateOnly => ~w.live
  /\ MaxLine \in Nat \ {0}
  /\ Requests \subseteq Quantities \ {Nothing}
  /\ Leftovers \subseteq Quantities
  /\ BatchSize \in Nat \ {0}
  /\ TypeAttempts \in Nat \ {0}
  /\ MaxTouches \in Nat
  /\ NoCode \notin Code
  /\ NoOrder \notin Quantities

VARIABLES
  want,         \* what the run asks for
  way,          \* how the run may proceed
  step,         \* where the pipeline is
  active,       \* MILO: lines of the cart
  oos,          \* MILO: codes in the cart's Out of stock section
  form,         \* the quick-add form: rows shown and rows yet to appear, for each code
  typing,       \* the loop over the items
  stage3,       \* what Stage 3 has found out
  stage4,       \* what Stage 4, or the engine, has read
  ordered,      \* MILO: the order that was placed
  touches,      \* changes another person has made
  history       \* what the properties compare with

asked == <<want, way>>
milo == <<active, oos>>
found == <<stage3, stage4>>
pipelineVars == <<asked, step, milo, form, typing, found, ordered, touches, history>>

Steps == {"choosing", "lightReading", "clearing", "typing", "awaitingRow",
          "verifying", "validating", "rereading", "comparing", "checkout",
          "engineClearing", "engineAdding", "enginePricing", "engineChecked",
          "refused", "reported", "rehearsed", "ordered"}

\* A run that has ended.
Ended == {"refused", "reported", "rehearsed", "ordered"}

Forms == [rows : [Code -> Nat], late : [Code -> Nat]]

Typings ==
  [todo : SUBSET Code,             \* items not typed yet
   code : Code \cup {NoCode},      \* the item being typed
   attempt : 0..TypeAttempts,
   before : [Code -> Nat],         \* rows shown before the last attempt
   batch : 0..BatchSize]           \* items typed since the last Add all

\* added is itemsAdded, rejected is itemsRejected.
Stage3 == [added : SUBSET Code, rejected : SUBSET Code]

\* ada is adaOrders, gone is outOfStockItems, can is canCheckout.
Stage4 == [ada : Quantities, gone : SUBSET Code, seen : SUBSET Code,
           blessed : BOOLEAN, can : BOOLEAN]

Unread == [ada |-> Nothing, gone |-> {}, seen |-> {}, blessed |-> FALSE, can |-> FALSE]
NotTyping == [todo |-> {}, code |-> NoCode, attempt |-> 0, before |-> Nothing, batch |-> 0]
NoForm == [rows |-> Nothing, late |-> Nothing]

\* touched: codes another person changed since the pipeline last read the cart.
\* unpainted: codes the first read of Stage 4 did not see although they were there.
\* demoted: codes Validate took out of the active cart.
Histories == [touched : SUBSET Code, unpainted : SUBSET Code, demoted : SUBSET Code]

\* The type invariant; an order was placed exactly at the step after the click.
PipelineTypeOK ==
  /\ want \in Requests
  /\ way \in AllWays
  /\ step \in Steps
  /\ active \in Quantities
  /\ oos \in SUBSET Code
  /\ form \in Forms
  /\ typing \in Typings
  /\ stage3 \in Stage3
  /\ stage4 \in Stage4
  /\ ordered \in Quantities \cup {NoOrder}
  /\ touches \in 0..MaxTouches
  /\ history \in Histories
  /\ ordered # NoOrder <=> step = "ordered"

\* The cart may hold what an earlier run or another person left in it.
PipelineInit ==
  /\ want \in Requests
  /\ way \in Ways
  /\ step = "choosing"
  /\ active \in Leftovers
  /\ oos \in SUBSET Code
  /\ \A c \in oos : active[c] = 0
  /\ form = NoForm
  /\ typing = NotTyping
  /\ stage3 = [added |-> {}, rejected |-> {}]
  /\ stage4 = Unread
  /\ ordered = NoOrder
  /\ touches = 0
  /\ history = [touched |-> {}, unpainted |-> {}, demoted |-> {}]

-----------------------------------------------------------------------------
(* MILO *)

AskedFor(c) == want[c]
Requested == CodesOf(want)
InCart == CodesOf(active) \cup oos
AtMost(n) == IF n > MaxLine THEN MaxLine ELSE n

\* A page shows some of the rows that are there: the table may be painted late.
Painted == SUBSET InCart

\* The codes of lines, as a page with only these rows painted shows them.
Shown(painted) == [c \in Code |-> IF c \in painted THEN active[c] ELSE 0]

\* Lines are put into the cart.  Each is added to what is there, set to another
\* quantity, put into the Out of stock section, or dropped.
Receive(lines) ==
  \E merged, clamped, out \in SUBSET CodesOf(lines) :
    /\ merged \cap clamped = {} /\ out \cap (merged \cup clamped) = {}
    /\ \E q \in 1..MaxLine :
         active' = [c \in Code |-> IF c \in merged THEN AtMost(active[c] + lines[c])
                                   ELSE IF c \in clamped THEN q
                                   ELSE IF c \in out THEN 0 ELSE active[c]]
    /\ oos' = (oos \cup out) \ (merged \cup clamped)

\* Another person, another phone, or the Stage 3 of a run that was given up changes a line.
Touch ==
  /\ step \notin Ended
  /\ touches < MaxTouches
  /\ \E c \in Code, q \in 0..MaxLine :
       /\ active' = [active EXCEPT ![c] = q]
       /\ oos' = oos \ {c}
       /\ history' = [history EXCEPT !.touched = @ \cup {c}]
  /\ touches' = touches + 1
  /\ UNCHANGED <<asked, step, form, typing, found, ordered>>

\* An error at a step before the click: the run is finalized as failed.
Refuse ==
  /\ step \notin Ended
  /\ step' = "refused"
  /\ UNCHANGED <<asked, milo, form, typing, found, ordered, touches, history>>

-----------------------------------------------------------------------------
(* Which engine, and the short cut *)

\* The node engine comes first; a login that is blocked falls back to the browser.
ChooseEngine ==
  /\ step = "choosing"
  /\ \/ /\ way.node
        /\ step' = "engineClearing"
        /\ UNCHANGED way
     \/ /\ way' = [way EXCEPT !.node = FALSE]
        /\ step' = IF way.light THEN "lightReading" ELSE "clearing"
  /\ UNCHANGED <<want, milo, form, typing, found, ordered, touches, history>>

\* cartExactlyMatchesRequest: the same codes with the same quantities, nothing else.
ExactlyMatches(lines) == lines = want

\* A cart that matches already is neither cleared nor filled; whatever else the read
\* says, and when it fails, the pipeline goes on as without it.
LightRead ==
  /\ step = "lightReading"
  /\ \E painted \in Painted :
       \/ /\ ExactlyMatches(Shown(painted)) /\ painted \cap oos = {}
          /\ stage3' = [stage3 EXCEPT !.added = Requested]
          /\ step' = "validating"
       \/ /\ ~(ExactlyMatches(Shown(painted)) /\ painted \cap oos = {})
          /\ step' = "clearing"
          /\ UNCHANGED stage3
  /\ UNCHANGED <<asked, milo, form, typing, stage4, ordered, touches, history>>

-----------------------------------------------------------------------------
(* Stage 3: clear, type, add, verify *)

\* Clearing is skipped when a link or a button is not found.
ClearCart ==
  /\ step = "clearing"
  /\ \/ active' = Nothing /\ oos' = {}
     \/ UNCHANGED milo
  /\ typing' = [NotTyping EXCEPT !.todo = Requested]
  /\ step' = "typing"
  /\ UNCHANGED <<asked, form, found, ordered, touches, history>>

\* The code and the quantity are typed; the row appears when MILO has found the item.
TypeItem(c) ==
  /\ step = "typing"
  /\ c \in typing.todo
  /\ typing.batch < BatchSize
  /\ typing' = [typing EXCEPT !.code = c, !.attempt = 1, !.before = form.rows]
  /\ form' = [form EXCEPT !.late[c] = @ + 1]
  /\ step' = "awaitingRow"
  /\ UNCHANGED <<asked, milo, found, ordered, touches, history>>

\* MILO shows a row, however late, as long as the form is open.
RowAppears(c) ==
  /\ step \in {"typing", "awaitingRow"}
  /\ form.late[c] > 0
  /\ form' = [form EXCEPT !.rows[c] = @ + 1, !.late[c] = @ - 1]
  /\ UNCHANGED <<asked, step, milo, typing, found, ordered, touches, history>>

NextItem ==
  /\ typing' = [typing EXCEPT !.todo = @ \ {typing.code}, !.code = NoCode,
                              !.attempt = 0, !.before = Nothing, !.batch = @ + 1]
  /\ step' = "typing"

\* Another row than before is taken for the item's; after the wait, the item's own row.
RowSeen == form.rows # typing.before \/ form.rows[typing.code] > 0

AcceptItem ==
  /\ step = "awaitingRow"
  /\ RowSeen
  /\ stage3' = [stage3 EXCEPT !.added = @ \cup {typing.code}]
  /\ NextItem
  /\ UNCHANGED <<asked, milo, form, stage4, ordered, touches, history>>

\* No row in time: the item is typed again unless its row is there by now.
Retype ==
  /\ step = "awaitingRow"
  /\ typing.attempt < TypeAttempts
  /\ form.rows[typing.code] = 0
  /\ typing' = [typing EXCEPT !.attempt = @ + 1, !.before = form.rows]
  /\ form' = [form EXCEPT !.late[typing.code] = @ + 1]
  /\ UNCHANGED <<asked, step, milo, found, ordered, touches, history>>

RejectItem ==
  /\ step = "awaitingRow"
  /\ typing.attempt = TypeAttempts
  /\ stage3' = [stage3 EXCEPT !.rejected = @ \cup {typing.code}]
  /\ NextItem
  /\ UNCHANGED <<asked, milo, form, stage4, ordered, touches, history>>

\* The rows of a batch are put into the cart, and the form is empty again.
AddAll ==
  /\ step = "typing"
  /\ typing.batch > 0
  /\ typing.batch = BatchSize \/ typing.todo = {}
  /\ Receive([c \in Code |-> form.rows[c] * AskedFor(c)])
  /\ form' = [form EXCEPT !.rows = Nothing]
  /\ typing' = [typing EXCEPT !.batch = 0]
  /\ step' = IF typing.todo # {} THEN "typing"
             ELSE IF stage3.added = {} THEN "refused" ELSE "verifying"
  /\ UNCHANGED <<asked, found, ordered, touches, history>>

\* Only what the cart page shows with the quantity that was asked for counts as added.
Verified(shown) == {c \in stage3.added : shown[c] = AskedFor(c)}

VerifyCart ==
  /\ step = "verifying"
  /\ \E painted \in Painted :
       LET verified == Verified(Shown(painted))
       IN /\ stage3' = [added |-> verified,
                        rejected |-> stage3.rejected \cup (stage3.added \ verified)]
          /\ step' = IF verified = {} THEN "refused" ELSE "validating"
  /\ UNCHANGED <<asked, milo, form, typing, stage4, ordered, touches, history>>

-----------------------------------------------------------------------------
(* Stage 4: Validate, and what the page says then *)

\* MILO takes lines out of the active cart; some appear as out of stock.
Demote(lost, out) ==
  /\ active' = [c \in Code |-> IF c \in lost THEN 0 ELSE active[c]]
  /\ oos' = oos \cup out

\* An order is possible with lines, no rule broken, and nothing out of stock.
CanCheckout(s4) == s4.ada # Nothing /\ s4.blessed /\ s4.gone = {}

\* Stage 4 judged by what it read alone.
JudgedAsRead(s4) == [s4 EXCEPT !.can = CanCheckout(s4)]

\* What Stage 3 verified and Stage 4 does not see is reported as demoted.
Judged(s4) ==
  LET gone == s4.gone \cup (stage3.added \ s4.seen)
  IN [s4 EXCEPT !.gone = gone, !.can = CanCheckout([s4 EXCEPT !.gone = gone])]

\* Validate is clicked and the page read once; it is read again when an item is missing.
ValidateCart ==
  /\ step = "validating"
  /\ \E lost \in SUBSET CodesOf(active), blessed \in BOOLEAN : \E out \in SUBSET lost :
       /\ Demote(lost, out)
       /\ \E painted \in SUBSET ((CodesOf(active) \ lost) \cup oos \cup out) :
            LET s4 == [ada |-> [c \in Code |-> IF c \in painted \ lost THEN active[c] ELSE 0],
                       gone |-> (oos \cup out) \cap painted, seen |-> painted,
                       blessed |-> blessed, can |-> FALSE]
            IN /\ \/ stage3.added \subseteq painted /\ step' = "comparing" /\ stage4' = Judged(s4)
                  \/ ~(stage3.added \subseteq painted) /\ step' = "rereading" /\ stage4' = s4
               /\ history' = [touched |-> {}, demoted |-> lost,
                              unpainted |-> ((CodesOf(active) \ lost) \cup oos \cup out) \ painted]
  /\ UNCHANGED <<asked, form, typing, stage3, ordered, touches>>

\* The second read only widens what was seen, or fails.
RereadCart ==
  /\ step = "rereading"
  /\ \E painted \in Painted :
       stage4' = Judged([stage4 EXCEPT !.seen = @ \cup painted])
  /\ step' = "comparing"
  /\ UNCHANGED <<asked, milo, form, typing, stage3, ordered, touches, history>>

-----------------------------------------------------------------------------
(* After Stage 4 *)

\* A validate_only run reports what it found.
ReportVerdict ==
  /\ step \in {"comparing", "engineChecked"}
  /\ way.validateOnly
  /\ step' = "reported"
  /\ UNCHANGED <<asked, milo, form, typing, found, ordered, touches, history>>

\* What Stage 3 verified, whatever Stage 4 read.
ComparedAsAdded == [c \in Code |-> IF c \in stage3.added THEN AskedFor(c) ELSE 0]

\* The cart that is compared with the order before a live submit: what Stage 4 read, or
\* what Stage 3 verified when that is empty.
Compared ==
  IF stage4.ada # Nothing THEN stage4.ada
  ELSE [c \in Code |-> IF c \in stage3.added THEN AskedFor(c) ELSE 0]

CompareCart ==
  /\ step = "comparing"
  /\ ~way.validateOnly
  /\ step' = IF way.live /\ ~ExactlyMatches(Compared) THEN "refused" ELSE "checkout"
  /\ UNCHANGED <<asked, milo, form, typing, found, ordered, touches, history>>

\* Stage 5 refuses a cart that cannot be checked out, and stops there unless it is live.
Rehearse ==
  /\ step \in {"checkout", "engineChecked"}
  /\ ~way.validateOnly
  /\ ~way.live \/ ~stage4.can
  /\ step' = IF stage4.can THEN "rehearsed" ELSE "refused"
  /\ UNCHANGED <<asked, milo, form, typing, found, ordered, touches, history>>

\* The Checkout click orders whatever the cart holds at this moment.
ClickCheckout ==
  /\ step = "checkout"
  /\ way.live /\ stage4.can
  /\ active # Nothing
  /\ ordered' = active
  /\ step' = "ordered"
  /\ UNCHANGED <<asked, milo, form, typing, found, touches, history>>

-----------------------------------------------------------------------------
(* The engine: the same with calls instead of clicks *)

\* A cart that could not be cleared is not built upon.
EngineClear ==
  /\ step = "engineClearing"
  /\ active' = Nothing
  /\ oos' = {}
  /\ step' = "engineAdding"
  /\ UNCHANGED <<asked, form, typing, found, ordered, touches, history>>

\* Codes are resolved through cached product ids, which may be other products' by now.
EngineAdd ==
  /\ step = "engineAdding"
  /\ \E lines \in {want} \cup Requests : Receive(lines)
  /\ step' = "enginePricing"
  /\ UNCHANGED <<asked, form, typing, found, ordered, touches, history>>

\* Stock and rules are asked for, and the priced cart must be the order.
EnginePrice ==
  /\ step = "enginePricing"
  /\ \E lost \in SUBSET CodesOf(active), blessed \in BOOLEAN, gone \in SUBSET Requested :
       \E out \in SUBSET lost :
         /\ Demote(lost, out)
         /\ LET s4 == [ada |-> active', gone |-> gone, seen |-> CodesOf(active'),
                       blessed |-> blessed, can |-> FALSE]
            IN stage4' = [s4 EXCEPT !.can = CanCheckout(s4)]
         /\ step' = IF ExactlyMatches(active') THEN "engineChecked" ELSE "refused"
         /\ history' = [touched |-> {}, unpainted |-> {}, demoted |-> lost]
  /\ UNCHANGED <<asked, form, typing, stage3, ordered, touches>>

\* The POST names the lines it orders: those of the priced cart.
PostCheckout ==
  /\ step = "engineChecked"
  /\ way.live /\ stage4.can
  /\ ordered' = stage4.ada
  /\ step' = "ordered"
  /\ UNCHANGED <<asked, milo, form, typing, found, touches, history>>

PipelineNext ==
  \/ Touch \/ Refuse \/ ChooseEngine \/ LightRead \/ ClearCart
  \/ \E c \in Code : TypeItem(c) \/ RowAppears(c)
  \/ AcceptItem \/ Retype \/ RejectItem \/ AddAll \/ VerifyCart
  \/ ValidateCart \/ RereadCart \/ ReportVerdict \/ CompareCart \/ Rehearse \/ ClickCheckout
  \/ EngineClear \/ EngineAdd \/ EnginePrice \/ PostCheckout

PipelineSpec == PipelineInit /\ [][PipelineNext]_pipelineVars

-----------------------------------------------------------------------------
(* Properties *)

\* A live order is, line for line, the order that was asked for, however the form, MILO
\* and the page misbehave (addItemsToCart, validateCartOnMilo, the boundary comparison).
\* Where it may differ: the browser's click orders what the cart holds by then, so a line
\* that another person changed after Stage 4 read the cart, or a line nobody asked for
\* that was not painted yet, goes unseen.  The engine orders what it compared.
OrdersWhatWasAsked ==
  ordered # NoOrder =>
    \A c \in Code :
      \/ ordered[c] = AskedFor(c)
      \/ ~way.node /\ (c \in history.touched \/ (AskedFor(c) = 0 /\ c \in history.unpainted))

\* An item that Stage 3 reported as added and MILO took out at Validate never goes with
\* the verdict that the cart can be checked out (the demotion detection of Stage 4).
\* Where it may: an item that the first read did not see, and the second finds out of
\* stock, counts as seen; and an item that another person put back.
DemotionsBlockCheckout ==
  step = "reported" /\ stage4.can =>
    stage3.added \cap history.demoted \subseteq history.touched \cup history.unpainted
=============================================================================
