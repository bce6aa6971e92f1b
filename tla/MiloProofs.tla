------------------------------ MODULE MiloProofs ------------------------------
(***************************************************************************)
(* What holds at MILO's site.  SubmitPipeline: of a run's way through      *)
(* MILO's cart, for any number of codes, any requests, leftovers and       *)
(* limits, and however MILO, the page and other people behave.             *)
(* PlacedOrders: of a store's orders and their rows, for any number of     *)
(* workers, submits, syncs, taps and edits, wherever a write fails or a    *)
(* process dies.  The two share no state.                                  *)
(***************************************************************************)
EXTENDS SubmitPipeline, PlacedOrders, FiniteSetTheorems, SequenceTheorems, WellFoundedInduction,
        TLAPS

-----------------------------------------------------------------------------
(* SubmitPipeline *)


BrowserSteps == {"lightReading", "clearing", "typing", "awaitingRow", "verifying",
                 "validating", "rereading", "comparing", "checkout"}
EngineSteps == {"choosing", "engineClearing", "engineAdding", "enginePricing", "engineChecked"}
ReadSteps == {"rereading", "comparing", "checkout"}

\* The loop over the items: an item is in hand exactly where its row is awaited, and there
\* is room for it in the batch.
TypingInHand ==
  step = "awaitingRow" => typing.code \in Code /\ typing.batch < BatchSize

\* The node engine's runs have left the browser's steps, and Stage 3 never ran for them.
EnginesApart ==
  /\ step \in BrowserSteps => ~way.node
  /\ step \in EngineSteps => stage3.added = {}

\* What Stage 4 read is what is in the cart, but for what was touched or not painted.
ReadIsCart ==
  step \in ReadSteps =>
    \A c \in Code : \/ active[c] = stage4.ada[c]
                    \/ c \in history.touched
                    \/ c \in history.unpainted /\ stage4.ada[c] = 0

\* A cart that can be checked out has lines and nothing out of stock.
VerdictHolds == stage4.can => stage4.ada # Nothing /\ stage4.gone = {}

\* What is compared with the order equals it where an order is possible.
ComparedIsAsked ==
  /\ step = "checkout" /\ way.live => Compared = want
  /\ step = "engineChecked" => stage4.ada = want

\* What Validate took out and Stage 3 had added: it was touched, or not painted, or is
\* known to be gone, or is not in the cart for the second read to find.
DemotedTold ==
  /\ step = "rereading" =>
       \A c \in stage3.added \cap history.demoted :
         \/ c \in history.touched \cup history.unpainted \cup stage4.gone
         \/ c \notin stage4.seen \cup InCart
  /\ step \in {"comparing", "engineChecked", "reported"} /\ stage4.can =>
       stage3.added \cap history.demoted \subseteq history.touched \cup history.unpainted

PipelineInv ==
  /\ PipelineTypeOK
  /\ TypingInHand
  /\ EnginesApart
  /\ ReadIsCart
  /\ VerdictHolds
  /\ ComparedIsAsked
  /\ DemotedTold
  /\ OrdersWhatWasAsked

-----------------------------------------------------------------------------
(* Values *)

\* Nothing is a cart, and a page shows a cart.
LEMMA CartValues ==
  ASSUME PipelineTypeOK
  PROVE  /\ Nothing \in Quantities
         /\ want \in Quantities /\ want # Nothing
         /\ active \in Quantities
         /\ \A painted : Shown(painted) \in Quantities
<1>1. 0 \in 0..MaxLine
  BY PipelineAssumption
<1> QED
  BY <1>1, PipelineAssumption DEF PipelineTypeOK, Nothing, Quantities, Shown

\* Adding to a line never exceeds MILO's limit.
LEMMA AtMostType ==
  ASSUME NEW n \in Nat
  PROVE  AtMost(n) \in 0..MaxLine
  BY PipelineAssumption DEF AtMost

\* Whatever lines are put into a cart, it is a cart afterwards.
LEMMA ReceiveType ==
  ASSUME PipelineTypeOK, NEW lines \in [Code -> Nat], Receive(lines)
  PROVE  active' \in Quantities /\ oos' \in SUBSET Code
<1>1. PICK merged, clamped, out \in SUBSET CodesOf(lines) :
        /\ \E q \in 1..MaxLine :
             active' = [c \in Code |-> IF c \in merged THEN AtMost(active[c] + lines[c])
                                       ELSE IF c \in clamped THEN q
                                       ELSE IF c \in out THEN 0 ELSE active[c]]
        /\ oos' = (oos \cup out) \ (merged \cup clamped)
  BY DEF Receive
<1>2. PICK q \in 1..MaxLine :
        active' = [c \in Code |-> IF c \in merged THEN AtMost(active[c] + lines[c])
                                  ELSE IF c \in clamped THEN q
                                  ELSE IF c \in out THEN 0 ELSE active[c]]
  BY <1>1
<1>3. \A c \in Code : active[c] \in 0..MaxLine /\ active[c] \in Nat /\ lines[c] \in Nat
  BY PipelineAssumption DEF PipelineTypeOK, Quantities
<1>4. \A c \in Code : AtMost(active[c] + lines[c]) \in 0..MaxLine
  <2> TAKE c \in Code
  <2>1. active[c] + lines[c] \in Nat
    BY <1>3
  <2> QED
    BY <2>1, AtMostType
<1>5. q \in 0..MaxLine /\ 0 \in 0..MaxLine
  BY <1>2, PipelineAssumption
<1>6. active' \in Quantities
  BY <1>2, <1>3, <1>4, <1>5 DEF Quantities
<1>7. out \subseteq Code
  BY DEF CodesOf
<1> QED
  BY <1>1, <1>6, <1>7 DEF PipelineTypeOK

\* Validate leaves a cart.
LEMMA DemoteType ==
  ASSUME PipelineTypeOK, NEW lost \in SUBSET Code, NEW out \in SUBSET lost, Demote(lost, out)
  PROVE  active' \in Quantities /\ oos' \in SUBSET Code
<1>1. 0 \in 0..MaxLine
  BY PipelineAssumption
<1> QED
  BY <1>1 DEF Demote, PipelineTypeOK, Quantities

\* The verdict adds to what is gone and decides nothing else of what was read.
LEMMA JudgedType ==
  ASSUME NEW s4 \in Stage4, stage3 \in Stage3
  PROVE  /\ Judged(s4) \in Stage4
         /\ Judged(s4).ada = s4.ada
         /\ Judged(s4).gone = s4.gone \cup (stage3.added \ s4.seen)
         /\ Judged(s4).can => Judged(s4).ada # Nothing /\ Judged(s4).gone = {}
<1> DEFINE gone == s4.gone \cup (stage3.added \ s4.seen)
           told == [s4 EXCEPT !.gone = gone]
<1>1. gone \in SUBSET Code
  BY DEF Stage3, Stage4
<1>2. told \in Stage4 /\ told.ada = s4.ada /\ told.gone = gone
  BY <1>1 DEF Stage4
<1>3. CanCheckout(told) \in BOOLEAN /\ (CanCheckout(told) => s4.ada # Nothing /\ gone = {})
  BY <1>2 DEF CanCheckout
<1>4. Judged(s4) = [s4 EXCEPT !.gone = gone, !.can = CanCheckout(told)]
  BY DEF Judged
<1>5. /\ Judged(s4) \in Stage4
      /\ Judged(s4).ada = s4.ada /\ Judged(s4).gone = gone
      /\ Judged(s4).can = CanCheckout(told)
  BY <1>1, <1>3, <1>4 DEF Stage4
<1> QED
  BY <1>3, <1>5

-----------------------------------------------------------------------------
(* Steps before the cart is read *)

\* The parts that speak of what was read, and of the order.
OrderParts ==
  /\ ReadIsCart
  /\ VerdictHolds
  /\ ComparedIsAsked
  /\ DemotedTold
  /\ OrdersWhatWasAsked

\* Until the cart is read, and when a run ends without an order, they hold for lack of one.
LEMMA CalmStep ==
  ASSUME PipelineInv, UNCHANGED <<want, stage4, ordered, history>>, ordered = NoOrder,
         step' \notin ReadSteps \cup {"engineChecked", "reported"}
  PROVE  OrderParts'
<1>1. ReadIsCart' /\ ComparedIsAsked' /\ DemotedTold'
  BY DEF ReadIsCart, ComparedIsAsked, DemotedTold, ReadSteps
<1>2. VerdictHolds' /\ OrdersWhatWasAsked'
  BY DEF PipelineInv, VerdictHolds, OrdersWhatWasAsked
<1> QED
  BY <1>1, <1>2 DEF OrderParts

\* Before its click a run has ordered nothing.
LEMMA NothingOrderedYet ==
  ASSUME PipelineTypeOK, step \notin Ended
  PROVE  ordered = NoOrder
  BY DEF PipelineTypeOK, Ended

\* Another person's change of a line is remembered.
LEMMA TouchStep ==
  ASSUME PipelineInv, Touch
  PROVE  PipelineInv'
<1>1. PICK c \in Code, q \in 0..MaxLine :
        /\ active' = [active EXCEPT ![c] = q]
        /\ oos' = oos \ {c}
        /\ history' = [history EXCEPT !.touched = @ \cup {c}]
  BY DEF Touch
<1>2. touches' \in 0..MaxTouches
  BY PipelineAssumption DEF Touch, PipelineInv, PipelineTypeOK
<1>3. active' \in Quantities /\ oos' \in SUBSET Code
  BY <1>1 DEF PipelineInv, PipelineTypeOK, Quantities
<1>4. /\ history' \in Histories
      /\ history'.touched = history.touched \cup {c}
      /\ history'.unpainted = history.unpainted
      /\ history'.demoted = history.demoted
  BY <1>1 DEF PipelineInv, PipelineTypeOK, Histories
<1>5. PipelineTypeOK'
  BY <1>2, <1>3, <1>4 DEF Touch, PipelineInv, PipelineTypeOK, asked, found
<1>6. TypingInHand' /\ EnginesApart' /\ VerdictHolds' /\ ComparedIsAsked'
  BY DEF Touch, PipelineInv, TypingInHand, EnginesApart, VerdictHolds, ComparedIsAsked,
         Compared, AskedFor, ExactlyMatches, asked, found
<1>7. \A d \in Code \ {c} : active'[d] = active[d] /\ (d \in InCart' => d \in InCart)
  BY <1>1 DEF InCart, CodesOf, PipelineInv, PipelineTypeOK, Quantities
<1>8. ReadIsCart'
  BY <1>4, <1>7 DEF Touch, PipelineInv, ReadIsCart, asked, found
<1>9. DemotedTold'
  BY <1>4, <1>7 DEF Touch, PipelineInv, PipelineTypeOK, Stage3, DemotedTold, asked, found
<1>10. OrdersWhatWasAsked'
  BY NothingOrderedYet DEF Touch, PipelineInv, OrdersWhatWasAsked
<1> QED
  BY <1>5, <1>6, <1>8, <1>9, <1>10 DEF PipelineInv

\* A run that is refused has ordered nothing.
LEMMA RefuseStep ==
  ASSUME PipelineInv, Refuse
  PROVE  PipelineInv'
<1>1. OrderParts'
  BY CalmStep, NothingOrderedYet DEF Refuse, PipelineInv, asked, found, ReadSteps
<1>2. PipelineTypeOK' /\ TypingInHand' /\ EnginesApart'
  BY DEF Refuse, PipelineInv, PipelineTypeOK, TypingInHand, EnginesApart, Steps, Ended,
         BrowserSteps, EngineSteps, asked, milo, found
<1> QED
  BY <1>1, <1>2 DEF PipelineInv, OrderParts

LEMMA ChooseEngineStep ==
  ASSUME PipelineInv, ChooseEngine
  PROVE  PipelineInv'
<1>1. OrderParts'
  BY CalmStep, NothingOrderedYet DEF ChooseEngine, PipelineInv, found, ReadSteps, Ended
<1>2. way' \in AllWays
  BY DEF ChooseEngine, PipelineInv, PipelineTypeOK, AllWays
<1>3. PipelineTypeOK'
  BY <1>2 DEF ChooseEngine, PipelineInv, PipelineTypeOK, Steps, milo, found
<1>4. TypingInHand' /\ EnginesApart'
  BY DEF ChooseEngine, PipelineInv, PipelineTypeOK, AllWays, TypingInHand, EnginesApart,
         BrowserSteps, EngineSteps, found
<1> QED
  BY <1>1, <1>3, <1>4 DEF PipelineInv, OrderParts

LEMMA LightReadStep ==
  ASSUME PipelineInv, LightRead
  PROVE  PipelineInv'
<1>1. OrderParts'
  BY CalmStep, NothingOrderedYet DEF LightRead, PipelineInv, asked, ReadSteps, Ended
<1>2. stage3' \in Stage3
  BY DEF LightRead, PipelineInv, PipelineTypeOK, Stage3, Requested, CodesOf
<1>3. PipelineTypeOK'
  BY <1>2 DEF LightRead, PipelineInv, PipelineTypeOK, Steps, asked, milo
<1>4. TypingInHand' /\ EnginesApart'
  BY DEF LightRead, PipelineInv, TypingInHand, EnginesApart, BrowserSteps, EngineSteps, asked
<1> QED
  BY <1>1, <1>3, <1>4 DEF PipelineInv, OrderParts

LEMMA ClearCartStep ==
  ASSUME PipelineInv, ClearCart
  PROVE  PipelineInv'
<1>1. OrderParts'
  BY CalmStep, NothingOrderedYet DEF ClearCart, PipelineInv, asked, found, ReadSteps, Ended
<1>2. typing' \in Typings
  BY PipelineAssumption
     DEF ClearCart, NotTyping, Typings, Nothing, Requested, CodesOf
<1>3. PipelineTypeOK'
  BY <1>2, CartValues DEF ClearCart, PipelineInv, PipelineTypeOK, Steps, asked, milo, found
<1>4. TypingInHand' /\ EnginesApart'
  BY DEF ClearCart, PipelineInv, TypingInHand, EnginesApart, BrowserSteps, EngineSteps,
         asked, found
<1> QED
  BY <1>1, <1>3, <1>4 DEF PipelineInv, OrderParts

LEMMA TypeItemStep ==
  ASSUME PipelineInv, NEW c \in Code, TypeItem(c)
  PROVE  PipelineInv'
<1>1. OrderParts'
  BY CalmStep, NothingOrderedYet DEF TypeItem, PipelineInv, asked, found, ReadSteps, Ended
<1>2. form \in Forms /\ typing \in Typings
  BY DEF PipelineInv, PipelineTypeOK
<1>3. form' \in Forms
  BY <1>2 DEF TypeItem, Forms
<1>4. typing' \in Typings /\ typing'.code = c /\ typing'.batch = typing.batch
  <2>1. typing' = [typing EXCEPT !.code = c, !.attempt = 1, !.before = form.rows]
    BY DEF TypeItem
  <2>2. form.rows \in [Code -> Nat] /\ 1 \in 0..TypeAttempts
    BY <1>2, PipelineAssumption DEF Forms
  <2> QED
    BY <1>2, <2>1, <2>2 DEF Typings
<1>5. PipelineTypeOK'
  BY <1>3, <1>4 DEF TypeItem, PipelineInv, PipelineTypeOK, Steps, asked, milo, found
<1>6. TypingInHand' /\ EnginesApart'
  BY <1>4 DEF TypeItem, PipelineInv, TypingInHand, EnginesApart, BrowserSteps, EngineSteps,
         asked, found
<1> QED
  BY <1>1, <1>5, <1>6 DEF PipelineInv, OrderParts

LEMMA RowAppearsStep ==
  ASSUME PipelineInv, NEW c \in Code, RowAppears(c)
  PROVE  PipelineInv'
<1>1. OrderParts'
  BY CalmStep, NothingOrderedYet DEF RowAppears, PipelineInv, asked, found, ReadSteps, Ended
<1>2. form \in Forms /\ form.late[c] > 0
  BY DEF RowAppears, PipelineInv, PipelineTypeOK
<1>3. form' \in Forms
  <2>1. /\ form.rows \in [Code -> Nat] /\ form.late \in [Code -> Nat]
        /\ form.rows[c] + 1 \in Nat /\ form.late[c] - 1 \in Nat
    BY <1>2 DEF Forms
  <2>2. form' = [form EXCEPT !.rows = [form.rows EXCEPT ![c] = form.rows[c] + 1],
                             !.late = [form.late EXCEPT ![c] = form.late[c] - 1]]
    BY <1>2 DEF RowAppears, Forms
  <2> QED
    BY <1>2, <2>1, <2>2 DEF Forms
<1>4. PipelineTypeOK'
  BY <1>3 DEF RowAppears, PipelineInv, PipelineTypeOK, asked, milo, found
<1>5. TypingInHand' /\ EnginesApart'
  BY DEF RowAppears, PipelineInv, TypingInHand, EnginesApart, asked, found
<1> QED
  BY <1>1, <1>4, <1>5 DEF PipelineInv, OrderParts

\* The loop goes on with an item that was accepted or rejected.
LEMMA NextItemStep ==
  ASSUME PipelineInv, step = "awaitingRow", NextItem, stage3' \in Stage3,
         UNCHANGED <<asked, milo, form, stage4, ordered, touches, history>>
  PROVE  PipelineInv'
<1>1. OrderParts'
  BY CalmStep, NothingOrderedYet DEF NextItem, PipelineInv, asked, ReadSteps, Ended
<1>2. typing \in Typings /\ typing.batch < BatchSize
  BY DEF PipelineInv, PipelineTypeOK, TypingInHand
<1>3. typing' \in Typings
  <2>1. typing' = [typing EXCEPT !.todo = typing.todo \ {typing.code}, !.code = NoCode,
                                 !.attempt = 0, !.before = Nothing, !.batch = typing.batch + 1]
    BY <1>2 DEF NextItem, Typings
  <2>2. typing.batch + 1 \in 0..BatchSize /\ 0 \in 0..TypeAttempts
    BY <1>2, PipelineAssumption DEF Typings
  <2>3. Nothing \in [Code -> Nat]
    BY DEF Nothing
  <2> QED
    BY <1>2, <2>1, <2>2, <2>3 DEF Typings
<1>4. PipelineTypeOK'
  BY <1>3 DEF NextItem, PipelineInv, PipelineTypeOK, Steps, asked, milo
<1>5. TypingInHand' /\ EnginesApart'
  BY DEF NextItem, PipelineInv, TypingInHand, EnginesApart, BrowserSteps, EngineSteps, asked
<1> QED
  BY <1>1, <1>4, <1>5 DEF PipelineInv, OrderParts

LEMMA ItemStep ==
  ASSUME PipelineInv, AcceptItem \/ RejectItem
  PROVE  PipelineInv'
<1>1. stage3 \in Stage3 /\ typing.code \in Code
  BY DEF AcceptItem, RejectItem, PipelineInv, PipelineTypeOK, TypingInHand
<1>2. stage3' \in Stage3
  BY <1>1 DEF AcceptItem, RejectItem, Stage3
<1> QED
  BY <1>2, NextItemStep DEF AcceptItem, RejectItem

LEMMA RetypeStep ==
  ASSUME PipelineInv, Retype
  PROVE  PipelineInv'
<1>1. OrderParts'
  BY CalmStep, NothingOrderedYet DEF Retype, PipelineInv, asked, found, ReadSteps, Ended
<1>2. form \in Forms /\ typing \in Typings /\ typing.code \in Code /\ typing.batch < BatchSize
  BY DEF Retype, PipelineInv, PipelineTypeOK, TypingInHand
<1>3. form' \in Forms
  BY <1>2 DEF Retype, Forms
<1>4. typing' \in Typings /\ typing'.code = typing.code /\ typing'.batch = typing.batch
  <2>1. typing' = [typing EXCEPT !.attempt = typing.attempt + 1, !.before = form.rows]
    BY <1>2 DEF Retype, Typings
  <2>2. form.rows \in [Code -> Nat] /\ typing.attempt + 1 \in 0..TypeAttempts
    BY <1>2, PipelineAssumption DEF Retype, Forms, Typings
  <2> QED
    BY <1>2, <2>1, <2>2 DEF Typings
<1>5. PipelineTypeOK'
  BY <1>3, <1>4 DEF Retype, PipelineInv, PipelineTypeOK, asked, milo, found
<1>6. TypingInHand' /\ EnginesApart'
  BY <1>2, <1>4 DEF Retype, PipelineInv, TypingInHand, EnginesApart, asked, found
<1> QED
  BY <1>1, <1>5, <1>6 DEF PipelineInv, OrderParts

LEMMA AddAllStep ==
  ASSUME PipelineInv, AddAll
  PROVE  PipelineInv'
<1>1. OrderParts'
  BY CalmStep, NothingOrderedYet DEF AddAll, PipelineInv, asked, found, ReadSteps, Ended
<1> DEFINE lines == [c \in Code |-> form.rows[c] * AskedFor(c)]
<1>2. \A c \in Code : form.rows[c] \in Nat /\ AskedFor(c) \in Nat
  BY CartValues, PipelineAssumption
     DEF PipelineInv, PipelineTypeOK, Forms, AskedFor, Quantities
<1>3. lines \in [Code -> Nat]
  <2>1. \A m, n \in Nat : m * n \in Nat
    OBVIOUS
  <2> QED
    BY <1>2, <2>1
<1>4. active' \in Quantities /\ oos' \in SUBSET Code
  BY <1>3, ReceiveType DEF AddAll, PipelineInv
<1>5. form' \in Forms
  BY DEF AddAll, PipelineInv, PipelineTypeOK, Forms, Nothing
<1>6. typing' \in Typings
  BY PipelineAssumption DEF AddAll, PipelineInv, PipelineTypeOK, Typings
<1>7. step' \in {"typing", "refused", "verifying"}
  BY DEF AddAll
<1>8. PipelineTypeOK'
  BY <1>4, <1>5, <1>6, <1>7
     DEF AddAll, PipelineInv, PipelineTypeOK, Steps, asked, found
<1>9. TypingInHand' /\ EnginesApart'
  BY <1>7 DEF AddAll, PipelineInv, TypingInHand, EnginesApart, BrowserSteps, EngineSteps,
              asked, found
<1> QED
  BY <1>1, <1>8, <1>9 DEF PipelineInv, OrderParts

LEMMA VerifyCartStep ==
  ASSUME PipelineInv, VerifyCart
  PROVE  PipelineInv'
<1>1. OrderParts'
  BY CalmStep, NothingOrderedYet DEF VerifyCart, PipelineInv, asked, ReadSteps, Ended
<1>2. stage3' \in Stage3
  BY DEF VerifyCart, Verified, PipelineInv, PipelineTypeOK, Stage3
<1>3. PipelineTypeOK'
  BY <1>2 DEF VerifyCart, PipelineInv, PipelineTypeOK, Steps, asked, milo
<1>4. TypingInHand' /\ EnginesApart'
  BY DEF VerifyCart, PipelineInv, TypingInHand, EnginesApart, BrowserSteps, EngineSteps, asked
<1> QED
  BY <1>1, <1>3, <1>4 DEF PipelineInv, OrderParts

-----------------------------------------------------------------------------
(* Stage 4 and what follows it *)

LEMMA ValidateCartStep ==
  ASSUME PipelineInv, ValidateCart
  PROVE  PipelineInv'
<1> DEFINE Reads(lost, blessed, out, painted) ==
      LET s4 == [ada |-> [c \in Code |-> IF c \in painted \ lost THEN active[c] ELSE 0],
                 gone |-> (oos \cup out) \cap painted, seen |-> painted,
                 blessed |-> blessed, can |-> FALSE]
      IN /\ \/ stage3.added \subseteq painted /\ step' = "comparing" /\ stage4' = Judged(s4)
            \/ ~(stage3.added \subseteq painted) /\ step' = "rereading" /\ stage4' = s4
         /\ history' = [touched |-> {}, demoted |-> lost,
                        unpainted |-> ((CodesOf(active) \ lost) \cup oos \cup out) \ painted]
<1>a. PICK lost \in SUBSET CodesOf(active), blessed \in BOOLEAN : \E out \in SUBSET lost :
        /\ Demote(lost, out)
        /\ \E painted \in SUBSET ((CodesOf(active) \ lost) \cup oos \cup out) :
             Reads(lost, blessed, out, painted)
  BY DEF ValidateCart
<1>b. PICK out \in SUBSET lost :
        /\ Demote(lost, out)
        /\ \E painted \in SUBSET ((CodesOf(active) \ lost) \cup oos \cup out) :
             Reads(lost, blessed, out, painted)
  BY <1>a
<1>1. PICK painted \in SUBSET ((CodesOf(active) \ lost) \cup oos \cup out) :
        Demote(lost, out) /\ Reads(lost, blessed, out, painted)
  BY <1>b
<1> DEFINE s4 == [ada |-> [c \in Code |-> IF c \in painted \ lost THEN active[c] ELSE 0],
                  gone |-> (oos \cup out) \cap painted, seen |-> painted,
                  blessed |-> blessed, can |-> FALSE]
           unpainted == ((CodesOf(active) \ lost) \cup oos \cup out) \ painted
<1>2. /\ lost \subseteq Code /\ out \subseteq Code /\ painted \subseteq Code
      /\ oos \subseteq Code /\ unpainted \subseteq Code
  BY DEF CodesOf, PipelineInv, PipelineTypeOK
<1>3. s4 \in Stage4
  BY <1>2, CartValues DEF PipelineInv, Stage4, Quantities, Nothing
<1>4. /\ stage4' \in Stage4 /\ stage4'.ada = s4.ada
      /\ stage4'.can => stage4'.ada # Nothing /\ stage4'.gone = {}
      /\ s4.gone \subseteq stage4'.gone
  <2>1. stage3 \in Stage3
    BY DEF PipelineInv, PipelineTypeOK
  <2>2. stage4' = Judged(s4) \/ stage4' = s4
    BY <1>1
  <2>3. /\ Judged(s4) \in Stage4 /\ Judged(s4).ada = s4.ada
        /\ Judged(s4).gone = s4.gone \cup (stage3.added \ s4.seen)
        /\ Judged(s4).can => Judged(s4).ada # Nothing /\ Judged(s4).gone = {}
    BY <1>3, <2>1, JudgedType
  <2>4. s4.can = FALSE
    OBVIOUS
  <2> HIDE DEF s4
  <2> QED
    BY <1>3, <2>2, <2>3, <2>4
<1>5. /\ history' \in Histories
      /\ history'.touched = {} /\ history'.demoted = lost /\ history'.unpainted = unpainted
  BY <1>1, <1>2 DEF Histories
<1>6. active' \in Quantities /\ oos' \in SUBSET Code
  BY <1>1, <1>2, DemoteType DEF PipelineInv
<1>7. step = "validating" /\ step' \in {"comparing", "rereading"}
  BY <1>1 DEF ValidateCart
<1>8. PipelineTypeOK'
  BY <1>4, <1>5, <1>6, <1>7 DEF ValidateCart, PipelineInv, PipelineTypeOK, Steps, asked
<1>9. TypingInHand' /\ EnginesApart'
  BY <1>7 DEF ValidateCart, PipelineInv, TypingInHand, EnginesApart, BrowserSteps,
              EngineSteps, asked
<1>10. ReadIsCart'
  <2>1. ASSUME NEW c \in Code
        PROVE  active'[c] = s4.ada[c] \/ (c \in unpainted /\ s4.ada[c] = 0)
    <3>1. active'[c] = IF c \in lost THEN 0 ELSE active[c]
      BY <1>1 DEF Demote
    <3>2. s4.ada[c] = IF c \in painted \ lost THEN active[c] ELSE 0
      OBVIOUS
    <3>3. c \in CodesOf(active) \/ active[c] = 0
      BY CartValues, PipelineAssumption DEF CodesOf, PipelineInv, Quantities
    <3> QED
      BY <3>1, <3>2, <3>3
  <2> QED
    BY <1>4, <1>5, <2>1 DEF ReadIsCart
<1>11. VerdictHolds' /\ ComparedIsAsked'
  BY <1>4, <1>7 DEF VerdictHolds, ComparedIsAsked
<1>12. DemotedTold'
  <2>1. stage3' = stage3
    BY DEF ValidateCart
  <2>2. InCart' = CodesOf(active') \cup oos \cup out
    BY <1>1 DEF InCart, Demote
  <2>3. lost \cap CodesOf(active') = {}
    BY <1>1, <1>2 DEF Demote, CodesOf
  <2>4. CASE step' = "comparing"
    <3>1. stage3.added \subseteq painted
      BY <1>1, <2>4
    <3>2. stage3.added \cap lost \subseteq s4.gone
      BY <3>1
    <3> QED
      BY <1>4, <1>5, <2>1, <2>4, <3>2 DEF DemotedTold
  <2>5. CASE step' = "rereading"
    <3>1. stage4'.seen = painted /\ stage4'.gone = (oos \cup out) \cap painted
      BY <1>1, <2>5
    <3>2. ASSUME NEW c \in stage3.added \cap lost
          PROVE  \/ c \in unpainted \cup stage4'.gone
                 \/ c \notin stage4'.seen \cup InCart'
      BY <2>2, <2>3, <3>1
    <3> QED
      BY <1>5, <2>1, <2>5, <3>2 DEF DemotedTold
  <2> QED
    BY <1>7, <2>4, <2>5
<1>13. OrdersWhatWasAsked'
  BY <1>7, NothingOrderedYet DEF ValidateCart, PipelineInv, OrdersWhatWasAsked, Ended
<1> QED
  BY <1>8, <1>9, <1>10, <1>11, <1>12, <1>13 DEF PipelineInv

LEMMA RereadCartStep ==
  ASSUME PipelineInv, RereadCart
  PROVE  PipelineInv'
<1>1. PICK painted \in Painted :
        stage4' = Judged([stage4 EXCEPT !.seen = stage4.seen \cup painted])
  BY DEF RereadCart
<1> DEFINE s4 == [stage4 EXCEPT !.seen = stage4.seen \cup painted]
<1>2. painted \subseteq InCart /\ InCart \subseteq Code
  BY DEF Painted, InCart, CodesOf, PipelineInv, PipelineTypeOK
<1>3. /\ s4 \in Stage4 /\ s4.ada = stage4.ada /\ s4.gone = stage4.gone
      /\ s4.seen = stage4.seen \cup painted
  BY <1>2 DEF PipelineInv, PipelineTypeOK, Stage4
<1>4. /\ stage4' \in Stage4 /\ stage4'.ada = stage4.ada
      /\ stage4'.gone = stage4.gone \cup (stage3.added \ (stage4.seen \cup painted))
      /\ stage4'.can => stage4'.ada # Nothing /\ stage4'.gone = {}
  BY <1>1, <1>3, JudgedType DEF PipelineInv, PipelineTypeOK
<1>5. step = "rereading" /\ step' = "comparing"
      /\ UNCHANGED <<asked, milo, form, typing, stage3, ordered, touches, history>>
  BY DEF RereadCart
<1>6. PipelineTypeOK' /\ TypingInHand' /\ EnginesApart'
  BY <1>4, <1>5 DEF PipelineInv, PipelineTypeOK, TypingInHand, EnginesApart, Steps,
                    BrowserSteps, EngineSteps, asked, milo
<1>7. ReadIsCart'
  BY <1>4, <1>5 DEF PipelineInv, ReadIsCart, ReadSteps, milo
<1>8. VerdictHolds' /\ ComparedIsAsked'
  BY <1>4, <1>5 DEF VerdictHolds, ComparedIsAsked
<1>9. DemotedTold'
  BY <1>2, <1>4, <1>5 DEF PipelineInv, DemotedTold
<1>10. OrdersWhatWasAsked'
  BY <1>5, NothingOrderedYet DEF PipelineInv, OrdersWhatWasAsked, Ended
<1> QED
  BY <1>6, <1>7, <1>8, <1>9, <1>10 DEF PipelineInv

LEMMA ReportVerdictStep ==
  ASSUME PipelineInv, ReportVerdict
  PROVE  PipelineInv'
<1>1. PipelineTypeOK' /\ TypingInHand' /\ EnginesApart'
  BY DEF ReportVerdict, PipelineInv, PipelineTypeOK, TypingInHand, EnginesApart, Steps,
         BrowserSteps, EngineSteps, asked, milo, found
<1>2. ReadIsCart' /\ VerdictHolds' /\ ComparedIsAsked' /\ DemotedTold'
  BY DEF ReportVerdict, PipelineInv, ReadIsCart, VerdictHolds, ComparedIsAsked, DemotedTold,
         ReadSteps, asked, milo, found
<1>3. OrdersWhatWasAsked'
  BY NothingOrderedYet DEF ReportVerdict, PipelineInv, OrdersWhatWasAsked, Ended
<1> QED
  BY <1>1, <1>2, <1>3 DEF PipelineInv

LEMMA CompareCartStep ==
  ASSUME PipelineInv, CompareCart
  PROVE  PipelineInv'
<1>1. /\ step = "comparing" /\ step' \in {"refused", "checkout"}
      /\ step' = "checkout" /\ way.live => Compared = want
      /\ UNCHANGED <<asked, milo, form, typing, found, ordered, touches, history>>
  BY DEF CompareCart, ExactlyMatches
<1>2. PipelineTypeOK' /\ TypingInHand' /\ EnginesApart'
  BY <1>1 DEF PipelineInv, PipelineTypeOK, TypingInHand, EnginesApart, Steps,
              BrowserSteps, EngineSteps, asked, milo, found
<1>3. Compared' = Compared
  BY <1>1 DEF Compared, AskedFor, asked, found
<1>4. ReadIsCart' /\ VerdictHolds' /\ ComparedIsAsked' /\ DemotedTold'
  BY <1>1, <1>3 DEF PipelineInv, ReadIsCart, VerdictHolds, ComparedIsAsked, DemotedTold,
                    ReadSteps, asked, milo, found
<1>5. OrdersWhatWasAsked'
  BY <1>1, NothingOrderedYet DEF PipelineInv, OrdersWhatWasAsked, Ended
<1> QED
  BY <1>2, <1>4, <1>5 DEF PipelineInv

LEMMA RehearseStep ==
  ASSUME PipelineInv, Rehearse
  PROVE  PipelineInv'
<1>1. OrderParts'
  BY CalmStep, NothingOrderedYet DEF Rehearse, PipelineInv, asked, found, ReadSteps, Ended
<1>2. PipelineTypeOK' /\ TypingInHand' /\ EnginesApart'
  BY DEF Rehearse, PipelineInv, PipelineTypeOK, TypingInHand, EnginesApart, Steps,
         BrowserSteps, EngineSteps, asked, milo, found
<1> QED
  BY <1>1, <1>2 DEF PipelineInv, OrderParts

\* The click orders the cart, which is what was read, which is what was asked for.
LEMMA ClickCheckoutStep ==
  ASSUME PipelineInv, ClickCheckout
  PROVE  PipelineInv'
<1>1. /\ step = "checkout" /\ step' = "ordered" /\ ordered' = active
      /\ way.live /\ stage4.can
      /\ UNCHANGED <<asked, milo, form, typing, found, touches, history>>
  BY DEF ClickCheckout
<1>2. PipelineTypeOK' /\ TypingInHand' /\ EnginesApart'
  <2>1. active # NoOrder
    BY PipelineAssumption DEF PipelineInv, PipelineTypeOK
  <2> QED
    BY <1>1, <2>1 DEF PipelineInv, PipelineTypeOK, TypingInHand, EnginesApart, Steps,
                      BrowserSteps, EngineSteps, asked, milo, found
<1>3. ReadIsCart' /\ VerdictHolds' /\ ComparedIsAsked' /\ DemotedTold'
  BY <1>1 DEF PipelineInv, ReadIsCart, VerdictHolds, ComparedIsAsked, DemotedTold,
              ReadSteps, found
<1>4. stage4.ada = want
  BY <1>1 DEF PipelineInv, VerdictHolds, ComparedIsAsked, Compared
<1>5. ~way.node
  BY <1>1 DEF PipelineInv, EnginesApart, BrowserSteps
<1>6. OrdersWhatWasAsked'
  BY <1>1, <1>4, <1>5
     DEF PipelineInv, ReadIsCart, ReadSteps, OrdersWhatWasAsked, AskedFor, asked
<1> QED
  BY <1>2, <1>3, <1>6 DEF PipelineInv

-----------------------------------------------------------------------------
(* The engine *)

LEMMA EngineClearStep ==
  ASSUME PipelineInv, EngineClear
  PROVE  PipelineInv'
<1>1. OrderParts'
  BY CalmStep, NothingOrderedYet DEF EngineClear, PipelineInv, asked, found, ReadSteps, Ended
<1>2. PipelineTypeOK' /\ TypingInHand' /\ EnginesApart'
  BY CartValues DEF EngineClear, PipelineInv, PipelineTypeOK, TypingInHand, EnginesApart,
                    Steps, BrowserSteps, EngineSteps, asked, found
<1> QED
  BY <1>1, <1>2 DEF PipelineInv, OrderParts

LEMMA EngineAddStep ==
  ASSUME PipelineInv, EngineAdd
  PROVE  PipelineInv'
<1>1. OrderParts'
  BY CalmStep, NothingOrderedYet DEF EngineAdd, PipelineInv, asked, found, ReadSteps, Ended
<1>2. PICK lines \in {want} \cup Requests : Receive(lines)
  BY DEF EngineAdd
<1>3. lines \in [Code -> Nat]
  BY CartValues, PipelineAssumption DEF PipelineInv, Quantities
<1>4. active' \in Quantities /\ oos' \in SUBSET Code
  BY <1>2, <1>3, ReceiveType DEF PipelineInv
<1>5. PipelineTypeOK' /\ TypingInHand' /\ EnginesApart'
  BY <1>4 DEF EngineAdd, PipelineInv, PipelineTypeOK, TypingInHand, EnginesApart,
              Steps, BrowserSteps, EngineSteps, asked, found
<1> QED
  BY <1>1, <1>5 DEF PipelineInv, OrderParts

LEMMA EnginePriceStep ==
  ASSUME PipelineInv, EnginePrice
  PROVE  PipelineInv'
<1> DEFINE Reads(lost, blessed, gone, out) ==
      /\ Demote(lost, out)
      /\ LET s4 == [ada |-> active', gone |-> gone, seen |-> CodesOf(active'),
                    blessed |-> blessed, can |-> FALSE]
         IN stage4' = [s4 EXCEPT !.can = CanCheckout(s4)]
      /\ step' = IF ExactlyMatches(active') THEN "engineChecked" ELSE "refused"
      /\ history' = [touched |-> {}, unpainted |-> {}, demoted |-> lost]
<1>a. PICK lost \in SUBSET CodesOf(active), blessed \in BOOLEAN, gone \in SUBSET Requested :
        \E out \in SUBSET lost : Reads(lost, blessed, gone, out)
  BY DEF EnginePrice
<1>1. PICK out \in SUBSET lost : Reads(lost, blessed, gone, out)
  BY <1>a
<1>2. /\ lost \subseteq Code /\ gone \subseteq Code
      /\ step = "enginePricing" /\ step' \in {"engineChecked", "refused"}
      /\ step' = "engineChecked" => active' = want
      /\ UNCHANGED <<asked, form, typing, stage3, ordered, touches>>
  BY <1>1 DEF EnginePrice, CodesOf, Requested, ExactlyMatches
<1>3. active' \in Quantities /\ oos' \in SUBSET Code
  BY <1>1, <1>2, DemoteType DEF PipelineInv
<1>4. /\ stage4' \in Stage4 /\ stage4'.ada = active'
      /\ stage4'.can => stage4'.ada # Nothing /\ stage4'.gone = {}
  BY <1>1, <1>2, <1>3 DEF CanCheckout, Stage4, CodesOf
<1>5. history' \in Histories
  BY <1>1, <1>2 DEF Histories
<1>6. PipelineTypeOK' /\ TypingInHand' /\ EnginesApart'
  BY <1>2, <1>3, <1>4, <1>5
     DEF PipelineInv, PipelineTypeOK, TypingInHand, EnginesApart, Steps, BrowserSteps,
         EngineSteps, asked
<1>7. ReadIsCart' /\ VerdictHolds'
  BY <1>2, <1>4 DEF ReadIsCart, VerdictHolds, ReadSteps
<1>8. ComparedIsAsked'
  BY <1>2, <1>4 DEF ComparedIsAsked, asked
<1>9. DemotedTold'
  BY <1>2 DEF PipelineInv, EnginesApart, EngineSteps, DemotedTold
<1>10. OrdersWhatWasAsked'
  BY <1>2, NothingOrderedYet DEF PipelineInv, OrdersWhatWasAsked, Ended
<1> QED
  BY <1>6, <1>7, <1>8, <1>9, <1>10 DEF PipelineInv

LEMMA PostCheckoutStep ==
  ASSUME PipelineInv, PostCheckout
  PROVE  PipelineInv'
<1>1. /\ step = "engineChecked" /\ step' = "ordered" /\ ordered' = stage4.ada
      /\ UNCHANGED <<asked, milo, form, typing, found, touches, history>>
  BY DEF PostCheckout
<1>2. stage4.ada = want /\ want \in Quantities /\ want # NoOrder
  BY <1>1, CartValues, PipelineAssumption DEF PipelineInv, ComparedIsAsked
<1>3. PipelineTypeOK' /\ TypingInHand' /\ EnginesApart'
  BY <1>1, <1>2 DEF PipelineInv, PipelineTypeOK, TypingInHand, EnginesApart, Steps,
                    BrowserSteps, EngineSteps, asked, milo, found
<1>4. ReadIsCart' /\ VerdictHolds' /\ ComparedIsAsked' /\ DemotedTold'
  BY <1>1 DEF PipelineInv, ReadIsCart, VerdictHolds, ComparedIsAsked, DemotedTold,
              ReadSteps, found
<1>5. OrdersWhatWasAsked'
  BY <1>1, <1>2 DEF OrdersWhatWasAsked, AskedFor, asked
<1> QED
  BY <1>3, <1>4, <1>5 DEF PipelineInv

-----------------------------------------------------------------------------
(* Theorems *)

\* The invariant holds in every initial state.
LEMMA PipelineInvInitially ==
  ASSUME PipelineInit
  PROVE  PipelineInv
<1>1. stage4.can = FALSE /\ ordered = NoOrder /\ step = "choosing" /\ stage3.added = {}
  BY DEF PipelineInit, Unread
<1>2. NoForm \in Forms /\ Nothing \in Quantities /\ Nothing \in [Code -> Nat]
  BY PipelineAssumption DEF NoForm, Forms, Nothing, Quantities
<1>3. NotTyping \in Typings
  BY <1>2, PipelineAssumption DEF NotTyping, Typings
<1>4. Unread \in Stage4
  BY <1>2 DEF Unread, Stage4
<1>5. stage3 \in Stage3 /\ history \in Histories
  BY DEF PipelineInit, Stage3, Histories
<1>6. PipelineTypeOK
  BY <1>1, <1>2, <1>3, <1>4, <1>5, PipelineAssumption
     DEF PipelineInit, PipelineTypeOK, Steps
<1>7. TypingInHand /\ EnginesApart /\ ReadIsCart /\ VerdictHolds /\ ComparedIsAsked
  BY <1>1 DEF TypingInHand, EnginesApart, BrowserSteps, ReadIsCart, ReadSteps,
              VerdictHolds, ComparedIsAsked
<1>8. DemotedTold /\ OrdersWhatWasAsked
  BY <1>1 DEF DemotedTold, OrdersWhatWasAsked
<1> QED
  BY <1>6, <1>7, <1>8 DEF PipelineInv

\* Every step keeps it.
LEMMA PipelineInvKept ==
  ASSUME PipelineInv, [PipelineNext]_pipelineVars
  PROVE  PipelineInv'
<1>1. CASE UNCHANGED pipelineVars
  BY <1>1 DEF pipelineVars, asked, milo, found, PipelineInv, PipelineTypeOK, TypingInHand,
       EnginesApart, ReadIsCart, VerdictHolds, ComparedIsAsked, Compared, AskedFor,
       DemotedTold, InCart, CodesOf, OrdersWhatWasAsked
<1>2. ASSUME NEW c \in Code, TypeItem(c) \/ RowAppears(c) PROVE PipelineInv'
  BY <1>2, TypeItemStep, RowAppearsStep
<1>3. CASE Touch \/ Refuse \/ ChooseEngine \/ LightRead \/ ClearCart
  BY <1>3, TouchStep, RefuseStep, ChooseEngineStep, LightReadStep, ClearCartStep
<1>4. CASE AcceptItem \/ Retype \/ RejectItem \/ AddAll \/ VerifyCart
  BY <1>4, ItemStep, RetypeStep, AddAllStep, VerifyCartStep
<1>5. CASE ValidateCart \/ RereadCart \/ ReportVerdict \/ CompareCart \/ Rehearse \/ ClickCheckout
  BY <1>5, ValidateCartStep, RereadCartStep, ReportVerdictStep, CompareCartStep,
     RehearseStep, ClickCheckoutStep
<1>6. CASE EngineClear \/ EngineAdd \/ EnginePrice \/ PostCheckout
  BY <1>6, EngineClearStep, EngineAddStep, EnginePriceStep, PostCheckoutStep
<1> QED
  BY <1>1, <1>2, <1>3, <1>4, <1>5, <1>6 DEF PipelineNext

LEMMA PipelineInvAlways == PipelineSpec => []PipelineInv
<1> QED
  BY PipelineInvInitially, PipelineInvKept, PTL DEF PipelineSpec

\* The cart, the form and what the stages report stay well-formed for any codes, limits
\* and requests; an order exists exactly after the click or the POST.
THEOREM PipelineTypeCorrect == PipelineSpec => []PipelineTypeOK
<1>1. PipelineInv => PipelineTypeOK
  BY DEF PipelineInv
<1> QED
  BY <1>1, PipelineInvAlways, PTL

\* Whatever rows appear late, whatever MILO merges, clamps, drops or demotes and however
\* the page is painted, a live run orders the lines it was asked for, but for what another
\* person changed after the last read or what that read was not shown.
THEOREM LiveOrdersMatch == PipelineSpec => []OrdersWhatWasAsked
<1>1. PipelineInv => OrdersWhatWasAsked
  BY DEF PipelineInv
<1> QED
  BY <1>1, PipelineInvAlways, PTL

\* No verdict that the cart can be checked out passes over a demoted item, but for one
\* that was not painted at first or was put back.
THEOREM DemotionsAreTold == PipelineSpec => []DemotionsBlockCheckout
<1>1. PipelineInv => DemotionsBlockCheckout
  BY DEF PipelineInv, DemotedTold, DemotionsBlockCheckout
<1> QED
  BY <1>1, PipelineInvAlways, PTL

-----------------------------------------------------------------------------
(* PlacedOrders *)

SubmitPoints == {"polling", "persisting"}
SyncsAt == {"fetching", "reading", "updating", "stamping"}

HandRecords ==
  [at : HandPoints, submit : Submit \cup {NoSubmit}, path : Paths, old : SUBSET Nat,
   chosen : Nat, stamp : Nat, fetched : Views, todo : SUBSET Nat, imports : SUBSET Nat]

HandsTyped == hands \in [Worker -> HandRecords]

\* What the owner saw when he tapped, that a row shows it, and that a list does.
WantedListed(i) == i \in DOMAIN past.wanted /\ past.wanted[i] # Unsynced
Fresh(i) == \E k \in RowsOf(i) : rows[k].synced # Unsynced /\ rows[k].synced >= past.wanted[i]
Covers(h, i) == i \in DOMAIN h.fetched /\ h.fetched[i] # Unsynced /\ h.fetched[i] >= past.wanted[i]

\* A submit in hand: it is not reported yet and has no row; the orders it may take for its
\* own are its own, unless it is mixed; the rows are of orders that it leaves out.
SubmitOK(v) ==
  hands[v].at \in SubmitPoints =>
    /\ hands[v].submit \in Submit /\ report[hands[v].submit] = "dispatched"
    /\ hands[v].submit \notin past.mixed =>
         \A i \in 1..Len(orders) : i \notin hands[v].old => orders[i].by = hands[v].submit
    /\ hands[v].at = "persisting" =>
         hands[v].chosen \in 1..Len(orders) /\ hands[v].chosen \notin hands[v].old
    /\ ~past.twoWriters /\ past.mixed = {} =>
         \A k \in 1..Len(rows) : rows[k].conf \in hands[v].old

\* A sync in hand: it is newer than the last one that ended; what it fetched covers what
\* the owner saw, if it began after the tap; and what is not fresh yet is still to be done.
SyncOK(v) ==
  hands[v].at \in SyncsAt =>
    /\ ~past.twoSyncs => asks.last < hands[v].stamp
    /\ hands[v].at # "fetching" /\ hands[v].stamp >= asks.requested =>
         \A i \in DOMAIN past.wanted : WantedListed(i) => Covers(hands[v], i)
    /\ hands[v].at = "updating" =>
         /\ \A k \in hands[v].todo :
              /\ k \in 1..Len(rows) /\ rows[k].conf \in DOMAIN hands[v].fetched
              /\ hands[v].fetched[rows[k].conf] # Unsynced
         /\ hands[v].imports \subseteq FetchedListed(v)
         /\ ~past.twoWriters => \A i \in hands[v].imports : RowsOf(i) = {}
         /\ hands[v].stamp >= asks.requested /\ ~past.spoiled /\ ~past.twoSyncs =>
              \A i \in DOMAIN past.wanted : WantedListed(i) =>
                \/ i \in hands[v].imports
                \/ \E k \in hands[v].todo : rows[k].conf = i
                \/ Fresh(i)
    /\ hands[v].at = "stamping" =>
         (hands[v].stamp >= asks.requested /\ ~past.spoiled /\ ~past.twoSyncs =>
            \A i \in DOMAIN past.wanted : WantedListed(i) => Fresh(i))

SubmitsInHand == \A v \in Worker : SubmitOK(v)
SyncsInHand == \A v \in Worker : SyncOK(v)

\* Who is at work besides whom, and for whom.
Alone ==
  \A u, v \in Worker :
    /\ hands[u].submit # NoSubmit => hands[u].at \in SubmitPoints
    /\ hands[u].submit # NoSubmit /\ hands[u].submit = hands[v].submit => u = v
    /\ ~past.twoWriters /\ hands[u].at # "idle" /\ hands[v].at # "idle" => u = v
    /\ ~past.twoSyncs /\ hands[u].at \in SyncsAt /\ hands[v].at \in SyncsAt => u = v

\* A row of a submit's is written when the submit is reported; no order has two rows.
RowsOfSubmits ==
  \A k \in 1..Len(rows) : rows[k].by \in Submit => report[rows[k].by] = "confirmed"
RowsApart ==
  ~past.twoWriters /\ past.mixed = {} =>
    \A j, k \in 1..Len(rows) : rows[j].conf = rows[k].conf => j = k

\* What the owner saw has not gone since; the clock is ahead of what was read from it.
WantedSeen ==
  /\ \A i \in DOMAIN past.wanted :
       /\ i \in 1..Len(orders)
       /\ past.wanted[i] # Unsynced => orders[i].listed /\ orders[i].edits >= past.wanted[i]
  /\ asks.requested <= asks.now /\ asks.last <= asks.now

PlacedInv ==
  /\ PlacedTypeOK
  /\ HandsTyped
  /\ SubmitsInHand
  /\ SyncsInHand
  /\ Alone
  /\ RowsOfSubmits
  /\ RowsApart
  /\ WantedSeen
  /\ FreshWhenServed
  /\ ConfirmationIsOwn

-----------------------------------------------------------------------------
(* Finite sets of numbers *)

LEMMA LeastOf ==
  ASSUME NEW K \in SUBSET Nat, K # {}
  PROVE  \E k \in K : \A j \in K : k <= j
<1>1. PICK k \in K : \A j \in K : ~(<<j, k>> \in OpToRel(<, Nat))
  BY NatLessThanWellFounded, WFMin
<1>2. \A j \in K : ~(j < k)
  BY <1>1 DEF OpToRel
<1> QED
  BY <1>2

LEMMA MinOf ==
  ASSUME NEW K \in SUBSET Nat, K # {}
  PROVE  Min(K) \in K /\ \A j \in K : Min(K) <= j
BY LeastOf DEF Min

LEMMA MaxOf ==
  ASSUME NEW n \in Nat, NEW K \in SUBSET (1..n), K # {}
  PROVE  Max(K) \in K
<1> DEFINE D == {d \in 0..n : n - d \in K}
<1>1. D \in SUBSET Nat /\ D # {}
  <2>1. PICK k \in K : k \in 1..n
    OBVIOUS
  <2>2. n - k \in 0..n /\ n - (n - k) = k
    BY <2>1
  <2>3. n - k \in D
    BY <2>1, <2>2
  <2>4. D \subseteq Nat
    OBVIOUS
  <2> HIDE DEF D
  <2> QED
    BY <2>3, <2>4
<1>2. PICK d \in D : \A e \in D : d <= e
  BY <1>1, LeastOf
<1>3. n - d \in K /\ \A j \in K : n - d >= j
  <2>1. \A j \in K : n - j \in D
    OBVIOUS
  <2> QED
    BY <1>2, <2>1
<1> QED
  BY <1>3 DEF Max

\* A finite set is numbered through: each of its elements once.
LEMMA SetToSeqOf ==
  ASSUME NEW S, IsFiniteSet(S)
  PROVE  /\ Cardinality(S) \in Nat
         /\ SetToSeq(S) \in [1..Cardinality(S) -> S]
         /\ \A m, n \in 1..Cardinality(S) : SetToSeq(S)[m] = SetToSeq(S)[n] => m = n
         /\ \A x \in S : \E n \in 1..Cardinality(S) : SetToSeq(S)[n] = x
<1> DEFINE N == 1..Cardinality(S)
<1>1. Cardinality(S) \in Nat /\ \E f \in [N -> S] : IsInjective(f)
  BY FS_CardinalityType DEF ExistsBijection, Bijection, Injection
<1>2. SetToSeq(S) \in [N -> S] /\ IsInjective(SetToSeq(S))
  BY <1>1 DEF SetToSeq
<1>3. \A m, n \in N : SetToSeq(S)[m] = SetToSeq(S)[n] => m = n
  BY <1>2 DEF IsInjective
<1>4. SetToSeq(S) \in Injection(N, S)
  BY <1>2 DEF Injection
<1>5. Cardinality(N) = Cardinality(S)
  BY <1>1, FS_Interval
<1>6. SetToSeq(S) \in Surjection(N, S)
  BY <1>4, <1>5, FS_Injection
<1>7. \A x \in S : \E n \in N : SetToSeq(S)[n] = x
  BY <1>6 DEF Surjection
<1> QED
  BY <1>1, <1>2, <1>3, <1>7

LEMMA AtMostOne ==
  ASSUME NEW S, \A x, y \in S : x = y
  PROVE  Cardinality(S) <= 1
<1>1. CASE S = {}
  BY <1>1, FS_EmptySet
<1>2. CASE S # {}
  <2>1. PICK x \in S : TRUE
    BY <1>2
  <2>2. S = {x}
    BY <2>1
  <2> QED
    BY <2>2, FS_Singleton
<1> QED
  BY <1>1, <1>2

LEMMA OneRowImplied ==
  ASSUME PlacedInv
  PROVE  OneRowPerOrder
<1>1. SUFFICES ASSUME ~past.twoWriters, past.mixed = {}, NEW i \in 1..Len(orders)
               PROVE  Cardinality(RowsOf(i)) <= 1
  BY DEF OneRowPerOrder
<1>2. \A x, y \in RowsOf(i) : x = y
  BY <1>1 DEF PlacedInv, RowsApart, RowsOf
<1> QED
  BY <1>2, AtMostOne

-----------------------------------------------------------------------------
(* MILO, and the owner's tap *)

LEMMA OrdersType ==
  ASSUME PlacedInv
  PROVE  /\ orders \in Seq(MiloOrders) /\ Len(orders) \in Nat
         /\ \A i \in 1..Len(orders) :
              /\ orders[i] \in MiloOrders /\ orders[i].listed \in BOOLEAN
              /\ orders[i].edits \in 0..MaxRevisions /\ orders[i].edits \in Nat
<1>1. orders \in Seq(MiloOrders) /\ Len(orders) \in Nat
  BY DEF PlacedInv, PlacedTypeOK
<1>2. \A i \in 1..Len(orders) : orders[i] \in MiloOrders
  BY <1>1
<1>3. 0..MaxRevisions \subseteq Nat
  BY PlacedOrdersAssumption
<1> QED
  BY <1>1, <1>2, <1>3 DEF MiloOrders

\* The clock and what was read from it.
LEMMA AsksType ==
  ASSUME PlacedInv
  PROVE  /\ asks \in Asks /\ asks.now \in Nat /\ asks.requested \in Nat /\ asks.last \in Nat
         /\ \A v \in Worker : hands[v].stamp \in 0..asks.now
BY DEF PlacedInv, PlacedTypeOK, Asks

LEMMA OrderByHandStep ==
  ASSUME PlacedInv, OrderByHand
  PROVE  PlacedInv'
<1> DEFINE o == [by |-> NoSubmit, listed |-> TRUE, edits |-> 0]
           taken == {hands[w].submit : w \in Worker} \ {NoSubmit}
<1>1. /\ orders' = Append(orders, o) /\ past' = [past EXCEPT !.mixed = past.mixed \cup taken]
      /\ UNCHANGED <<rows, asks, hands, report>>
  BY DEF OrderByHand
<1>2. o \in MiloOrders /\ taken \subseteq Submit
  BY PlacedOrdersAssumption DEF MiloOrders, PlacedInv, HandsTyped, HandRecords
<1>3. /\ orders' \in Seq(MiloOrders) /\ Len(orders') = Len(orders) + 1 /\ Len(orders) \in Nat
      /\ \A i \in 1..Len(orders) : orders'[i] = orders[i]
      /\ orders'[Len(orders) + 1] = o
  BY <1>1, <1>2 DEF PlacedInv, PlacedTypeOK
<1>4. /\ past' \in Pasts /\ past'.mixed = past.mixed \cup taken /\ past'.wanted = past.wanted
      /\ past'.spoiled = past.spoiled /\ past'.twoSyncs = past.twoSyncs
      /\ past'.twoWriters = past.twoWriters
  BY <1>1, <1>2 DEF PlacedInv, PlacedTypeOK, Pasts
<1>5. PlacedTypeOK' /\ HandsTyped'
  BY <1>1, <1>3, <1>4 DEF PlacedInv, PlacedTypeOK, HandsTyped
<1>6. SubmitsInHand'
  <2>1. SUFFICES ASSUME NEW v \in Worker, SubmitOK(v), hands[v].at \in SubmitPoints
                 PROVE  SubmitOK(v)'
    BY <1>1 DEF PlacedInv, SubmitsInHand, SubmitOK
  <2>2. hands[v].submit \in taken
    BY <2>1, PlacedOrdersAssumption DEF SubmitOK
  <2> QED
    BY <1>1, <1>3, <1>4, <2>1, <2>2 DEF SubmitOK
<1>7. SyncsInHand'
  BY <1>1, <1>4 DEF PlacedInv, SyncsInHand, SyncOK, WantedListed, Covers, Fresh, RowsOf, FetchedListed
<1>8. Alone' /\ RowsOfSubmits' /\ RowsApart' /\ FreshWhenServed'
  BY <1>1, <1>4
     DEF PlacedInv, Alone, RowsOfSubmits, RowsApart, FreshWhenServed, RowsOf, Pending
<1>9. WantedSeen'
  BY <1>1, <1>3, <1>4 DEF PlacedInv, WantedSeen
<1>10. ConfirmationIsOwn'
  BY <1>1, <1>3, <1>4 DEF PlacedInv, PlacedTypeOK, ConfirmationIsOwn
<1> QED
  BY <1>5, <1>6, <1>7, <1>8, <1>9, <1>10 DEF PlacedInv

\* An order that shows, or is edited, stays the order it was, and what was seen of it holds.
LEMMA OrderChangesKeep ==
  ASSUME PlacedInv, NEW i \in 1..Len(orders), NEW o \in MiloOrders,
         orders' = [orders EXCEPT ![i] = o], o.by = orders[i].by,
         orders[i].listed => o.listed, o.edits >= orders[i].edits,
         UNCHANGED <<rows, asks, hands, report, past>>
  PROVE  PlacedInv'
<1>a. o.edits \in Nat
  BY PlacedOrdersAssumption DEF MiloOrders
<1>b. /\ orders' \in Seq(MiloOrders) /\ Len(orders') = Len(orders) /\ Len(orders) \in Nat
      /\ orders'[i] = o
      /\ \A j \in 1..Len(orders) : j # i => orders'[j] = orders[j]
  BY OrdersType
<1>1. /\ orders' \in Seq(MiloOrders) /\ Len(orders') = Len(orders) /\ Len(orders) \in Nat
      /\ \A j \in 1..Len(orders) : /\ orders'[j].by = orders[j].by
                                   /\ orders[j].listed => orders'[j].listed
                                   /\ orders'[j].edits >= orders[j].edits
                                   /\ orders'[j].edits \in Nat /\ orders[j].edits \in Nat
  <2>1. \A j \in 1..Len(orders) : orders[j].edits \in Nat
    BY OrdersType
  <2> QED
    BY <1>a, <1>b, <2>1
<1>2. PlacedTypeOK' /\ HandsTyped'
  BY <1>1 DEF PlacedInv, PlacedTypeOK, HandsTyped
<1>3. SubmitsInHand'
  BY <1>1 DEF PlacedInv, SubmitsInHand, SubmitOK
<1>4. SyncsInHand'
  BY DEF PlacedInv, SyncsInHand, SyncOK, WantedListed, Covers, Fresh, RowsOf, FetchedListed
<1>5. Alone' /\ RowsOfSubmits' /\ RowsApart' /\ FreshWhenServed'
  BY DEF PlacedInv, Alone, RowsOfSubmits, RowsApart, FreshWhenServed, RowsOf, Pending
<1>6. WantedSeen'
  <2>1. ASSUME NEW j \in DOMAIN past.wanted
        PROVE  past.wanted[j] \in Nat
    BY <2>1, PlacedOrdersAssumption
       DEF PlacedInv, PlacedTypeOK, Pasts, Views, Unsynced
  <2> QED
    BY <1>1, <2>1 DEF PlacedInv, WantedSeen
<1>7. ConfirmationIsOwn'
  BY <1>1 DEF PlacedInv, PlacedTypeOK, ConfirmationIsOwn
<1> QED
  BY <1>2, <1>3, <1>4, <1>5, <1>6, <1>7 DEF PlacedInv

LEMMA OrderIsListedStep ==
  ASSUME PlacedInv, NEW i \in 1..Len(orders), OrderIsListed(i)
  PROVE  PlacedInv'
<1> DEFINE o == [orders[i] EXCEPT !.listed = TRUE]
<1>1. orders[i] \in MiloOrders /\ orders[i].edits \in Nat
  BY OrdersType
<1>2. o \in MiloOrders /\ o.by = orders[i].by /\ o.listed /\ o.edits = orders[i].edits
  BY <1>1 DEF MiloOrders
<1>3. orders' = [orders EXCEPT ![i] = o] /\ UNCHANGED <<rows, asks, hands, report, past>>
  BY DEF OrderIsListed
<1>4. o.edits >= orders[i].edits
  BY <1>1, <1>2
<1> HIDE DEF o
<1> QED
  BY <1>2, <1>3, <1>4, OrderChangesKeep

LEMMA OrderIsEditedStep ==
  ASSUME PlacedInv, NEW i \in 1..Len(orders), OrderIsEdited(i)
  PROVE  PlacedInv'
<1> DEFINE o == [orders[i] EXCEPT !.edits = orders[i].edits + 1]
<1>1. /\ orders[i] \in MiloOrders /\ orders[i].edits \in Nat
      /\ orders[i].edits < MaxRevisions /\ orders[i].listed
  BY OrdersType DEF OrderIsEdited
<1>2. orders[i].edits + 1 \in 0..MaxRevisions
  BY <1>1, PlacedOrdersAssumption
<1>3. /\ o \in MiloOrders /\ o.by = orders[i].by /\ o.listed = orders[i].listed
      /\ o.edits = orders[i].edits + 1
  BY <1>1, <1>2 DEF MiloOrders
<1>4. orders' = [orders EXCEPT ![i] = o] /\ UNCHANGED <<rows, asks, hands, report, past>>
  BY DEF OrderIsEdited
<1>5. o.edits >= orders[i].edits
  BY <1>1, <1>3
<1> HIDE DEF o
<1> QED
  BY <1>1, <1>3, <1>4, <1>5, OrderChangesKeep

\* The list as it is has one entry for each order.
LEMMA ViewType ==
  ASSUME PlacedInv
  PROVE  /\ View \in Views /\ DOMAIN View = 1..Len(orders) /\ Len(View) = Len(orders)
         /\ \A i \in 1..Len(orders) : View[i] # Unsynced =>
              orders[i].listed /\ View[i] = orders[i].edits
         /\ \A i \in 1..Len(orders) : orders[i].listed =>
              View[i] = orders[i].edits /\ View[i] # Unsynced
<1>1. Len(orders) \in Nat
  BY OrdersType
<1>2. \A i \in 1..Len(orders) : orders[i].edits \in 0..MaxRevisions /\ orders[i].listed \in BOOLEAN
  BY OrdersType
<1>3. Unsynced \in Nat /\ 0..MaxRevisions \subseteq 0..Unsynced /\ Unsynced \notin 0..MaxRevisions
  BY PlacedOrdersAssumption DEF Unsynced
<1>4. View \in [1..Len(orders) -> 0..Unsynced]
  BY <1>2, <1>3 DEF View
<1>5. View \in Views /\ Len(View) = Len(orders)
  <2>1. View \in Seq(0..Unsynced)
    BY <1>1, <1>4, SeqDef
  <2> QED
    BY <1>1, <1>4, <2>1, LenProperties DEF Views
<1> QED
  BY <1>2, <1>3, <1>4, <1>5 DEF View

LEMMA TapSyncStep ==
  ASSUME PlacedInv, TapSync
  PROVE  PlacedInv'
<1>1. /\ asks' = [asks EXCEPT !.now = asks.now + 1, !.requested = asks.now + 1]
      /\ past' = [past EXCEPT !.taps = past.taps + 1, !.spoiled = FALSE, !.wanted = View]
      /\ past.taps < MaxTaps /\ UNCHANGED <<orders, rows, hands, report>>
  BY DEF TapSync
<1>2. /\ asks \in Asks /\ asks' \in Asks /\ asks'.now = asks.now + 1
      /\ asks'.requested = asks.now + 1 /\ asks'.last = asks.last
  <2>1. asks \in Asks /\ asks.now + 1 \in Nat
    BY AsksType
  <2> QED
    BY <1>1, <2>1 DEF Asks
<1>a. past \in Pasts /\ past.taps + 1 \in 0..MaxTaps
  BY <1>1, PlacedOrdersAssumption DEF PlacedInv, PlacedTypeOK, Pasts
<1>3. /\ past' \in Pasts /\ past'.mixed = past.mixed /\ past'.wanted = View
      /\ past'.twoSyncs = past.twoSyncs /\ past'.twoWriters = past.twoWriters
  BY <1>1, <1>a, ViewType DEF Pasts
<1>4. \A v \in Worker : hands[v].stamp \in 0..asks.now /\ asks.now \in Nat
  BY AsksType
<1>5. PlacedTypeOK' /\ HandsTyped'
  BY <1>1, <1>2, <1>3, <1>4 DEF PlacedInv, PlacedTypeOK, HandsTyped
<1>6. SubmitsInHand'
  BY <1>1, <1>3 DEF PlacedInv, SubmitsInHand, SubmitOK
<1>7. SyncsInHand'
  <2>1. \A v \in Worker : ~(hands'[v].stamp >= asks'.requested)
    BY <1>1, <1>2, <1>4
  <2> QED
    BY <1>1, <1>2, <1>3, <2>1 DEF PlacedInv, SyncsInHand, SyncOK, RowsOf, FetchedListed
<1>8. Alone' /\ RowsOfSubmits' /\ RowsApart'
  BY <1>1, <1>3 DEF PlacedInv, Alone, RowsOfSubmits, RowsApart
<1>9. FreshWhenServed'
  <2>1. asks.last <= asks.now /\ asks.now \in Nat /\ asks.last \in Nat
    BY <1>2 DEF PlacedInv, WantedSeen, Asks
  <2>2. Pending'
    BY <1>2, <2>1 DEF Pending
  <2> QED
    BY <2>2 DEF FreshWhenServed
<1>10. WantedSeen'
  <2>1. \A i \in 1..Len(orders) : orders[i].edits \in Nat
    BY OrdersType
  <2> QED
    BY <1>1, <1>2, <1>3, <2>1, ViewType DEF PlacedInv, WantedSeen, Asks
<1>11. ConfirmationIsOwn'
  BY <1>1, <1>3 DEF PlacedInv, ConfirmationIsOwn
<1> QED
  BY <1>5, <1>6, <1>7, <1>8, <1>9, <1>10, <1>11 DEF PlacedInv

-----------------------------------------------------------------------------
(* Hands *)

LEMMA HandType ==
  ASSUME PlacedInv, NEW v \in Worker
  PROVE  /\ hands[v] \in HandRecords
         /\ hands[v].path \in Paths /\ hands[v].old \subseteq Nat
         /\ hands[v].chosen \in Nat /\ hands[v].stamp \in Nat
         /\ hands[v].fetched \in Views /\ hands[v].todo \subseteq Nat /\ hands[v].imports \subseteq Nat
         /\ hands[v].at \in HandPoints /\ hands[v].submit \in Submit \cup {NoSubmit}
BY DEF PlacedInv, HandsTyped, HandRecords

LEMMA FreeType ==
  /\ Free \in HandRecords /\ Free.at = "idle" /\ Free.submit = NoSubmit
  /\ Free.path = "none" /\ Free.old = {} /\ Free.chosen = 0 /\ Free.stamp = 0 /\ Free.fetched = <<>>
  /\ Free.todo = {} /\ Free.imports = {}
<1>1. <<>> \in Views /\ "idle" \in HandPoints
  BY EmptySeq DEF Views, HandPoints
<1> QED
  BY <1>1 DEF Free, HandRecords, Paths

\* One hand moves.
LEMMA HandMoves ==
  ASSUME PlacedInv, NEW w \in Worker, NEW h \in HandRecords, Goes(w, h)
  PROVE  /\ HandsTyped' /\ hands'[w] = h
         /\ \A v \in Worker : v # w => hands'[v] = hands[v]
BY DEF PlacedInv, HandsTyped, Goes

\* The type invariant, where the orders, the rows and the clock only grow.
LEMMA TypeMoves ==
  ASSUME PlacedInv, NEW w \in Worker, NEW h \in HandRecords, Goes(w, h),
         orders' \in Seq(MiloOrders), Len(orders') >= Len(orders),
         rows' \in Seq(Rows), Len(rows') >= Len(rows),
         \A k \in 1..Len(rows') : rows'[k].conf \in 1..Len(orders'),
         asks' \in Asks, asks'.now >= asks.now,
         report' \in [Submit -> Reports],
         past' \in Pasts,
         h.old \subseteq 1..Len(orders'), h.chosen <= Len(orders'), h.stamp <= asks'.now,
         Len(h.fetched) <= Len(orders'), h.todo \subseteq 1..Len(rows'),
         h.imports \subseteq 1..Len(orders')
  PROVE  PlacedTypeOK' /\ HandsTyped'
<1>1. /\ HandsTyped' /\ hands'[w] = h /\ DOMAIN hands' = Worker
      /\ \A v \in Worker : v # w => hands'[v] = hands[v]
  BY HandMoves DEF HandsTyped
<1>2. /\ Len(orders) \in Nat /\ Len(orders') \in Nat /\ Len(rows) \in Nat /\ Len(rows') \in Nat
      /\ asks.now \in Nat /\ asks'.now \in Nat
  BY AsksType DEF PlacedInv, PlacedTypeOK, Asks
<1>3. ASSUME NEW v \in Worker
      PROVE  /\ hands'[v].at \in HandPoints
             /\ hands'[v].submit \in Submit \cup {NoSubmit}
             /\ hands'[v].path \in Paths /\ hands'[v].old \subseteq 1..Len(orders')
             /\ hands'[v].chosen \in 0..Len(orders')
             /\ hands'[v].stamp \in 0..asks'.now
             /\ hands'[v].fetched \in Views /\ Len(hands'[v].fetched) <= Len(orders')
             /\ hands'[v].todo \subseteq 1..Len(rows')
             /\ hands'[v].imports \subseteq 1..Len(orders')
  <2>1. CASE v = w
    <3>1. hands'[v] = h
      BY <1>1, <2>1
    <3>2. /\ h.at \in HandPoints /\ h.submit \in Submit \cup {NoSubmit} /\ h.fetched \in Views
          /\ h.path \in Paths /\ h.chosen \in Nat /\ h.stamp \in Nat
      BY DEF HandRecords
    <3>3. /\ h.old \subseteq 1..Len(orders') /\ h.chosen \in 0..Len(orders')
          /\ h.stamp \in 0..asks'.now
      BY <1>2, <3>2
    <3> QED
      BY <3>1, <3>2, <3>3
  <2>2. CASE v # w
    <3>1. /\ hands[v].at \in HandPoints /\ hands[v].submit \in Submit \cup {NoSubmit}
          /\ hands[v].path \in Paths
          /\ hands[v].old \subseteq 1..Len(orders) /\ hands[v].chosen \in 0..Len(orders)
          /\ hands[v].stamp \in 0..asks.now
          /\ hands[v].fetched \in Views /\ Len(hands[v].fetched) <= Len(orders)
          /\ Len(hands[v].fetched) \in Nat
          /\ hands[v].todo \subseteq 1..Len(rows) /\ hands[v].imports \subseteq 1..Len(orders)
      BY DEF PlacedInv, PlacedTypeOK, Views
    <3>2. 1..Len(rows) \subseteq 1..Len(rows') /\ 1..Len(orders) \subseteq 1..Len(orders')
      BY <1>2
    <3>3. hands'[v] = hands[v]
      BY <1>1, <2>2
    <3>4. /\ hands[v].old \subseteq 1..Len(orders') /\ hands[v].chosen \in 0..Len(orders')
          /\ hands[v].stamp \in 0..asks'.now /\ Len(hands[v].fetched) <= Len(orders')
      <4>1. hands[v].old \subseteq 1..Len(orders')
        BY <3>1, <3>2
      <4>2. hands[v].chosen \in 0..Len(orders')
        BY <1>2, <3>1
      <4>3. hands[v].stamp \in 0..asks'.now
        BY <1>2, <3>1
      <4>4. Len(hands[v].fetched) <= Len(orders')
        BY <1>2, <3>1
      <4> QED
        BY <4>1, <4>2, <4>3, <4>4
    <3>5. hands[v].todo \subseteq 1..Len(rows') /\ hands[v].imports \subseteq 1..Len(orders')
      BY <3>1, <3>2
    <3> QED
      BY <3>1, <3>3, <3>4, <3>5
  <2> QED
    BY <2>1, <2>2
<1> QED
  BY <1>1, <1>3 DEF PlacedTypeOK

\* What a hand says of its submit or its sync, where only another hand moves.
LEMMA OtherHands ==
  ASSUME PlacedInv, NEW w \in Worker, NEW h \in HandRecords, Goes(w, h),
         UNCHANGED <<orders, rows, asks, past>>,
         \A s \in Submit : report'[s] = report[s] \/ s = hands[w].submit,
         NEW v \in Worker, v # w
  PROVE  SubmitOK(v)' /\ SyncOK(v)'
<1>1. hands'[v] = hands[v]
  BY HandMoves
<1>2. SyncOK(v)'
  BY <1>1 DEF PlacedInv, SyncsInHand, SyncOK, WantedListed, Covers, Fresh, RowsOf, FetchedListed
<1>3. ASSUME hands[v].at \in SubmitPoints
      PROVE  hands[v].submit \in Submit /\ report'[hands[v].submit] = report[hands[v].submit]
  <2>1. hands[v].submit \in Submit
    BY <1>3 DEF PlacedInv, SubmitsInHand, SubmitOK
  <2>2. hands[v].submit # hands[w].submit
    BY <2>1, PlacedOrdersAssumption DEF PlacedInv, Alone
  <2> QED
    BY <2>1, <2>2
<1>4. SubmitOK(v)'
  BY <1>1, <1>3 DEF PlacedInv, SubmitsInHand, SubmitOK
<1> QED
  BY <1>2, <1>4

\* What a step of one hand leaves as it was, where it changes no order and no row.
LEMMA OthersKeep ==
  ASSUME PlacedInv, UNCHANGED <<orders, rows, asks, past>>,
         \A s \in Submit : report'[s] = report[s] \/ report[s] = "dispatched",
         \A s \in Submit \ past.mixed :
           report'[s] = "confirmed" => \E i \in 1..Len(orders) : orders[i].by = s
  PROVE  RowsOfSubmits' /\ RowsApart' /\ WantedSeen' /\ FreshWhenServed' /\ ConfirmationIsOwn'
<1>1. RowsOfSubmits'
  BY DEF PlacedInv, RowsOfSubmits
<1>2. RowsApart' /\ WantedSeen' /\ FreshWhenServed'
  BY DEF PlacedInv, RowsApart, WantedSeen, FreshWhenServed, RowsOf, Pending
<1>3. ConfirmationIsOwn'
  BY DEF PlacedInv, ConfirmationIsOwn
<1> QED
  BY <1>1, <1>2, <1>3

\* The numbers that hold of everything there is.
LEMMA StoreType ==
  ASSUME PlacedInv
  PROVE  /\ orders \in Seq(MiloOrders) /\ Len(orders) \in Nat
         /\ rows \in Seq(Rows) /\ Len(rows) \in Nat
         /\ asks \in Asks /\ asks.now \in Nat
         /\ past \in Pasts
         /\ report \in [Submit -> Reports]
         /\ \A k \in 1..Len(rows) : rows[k].conf \in 1..Len(orders)
BY AsksType DEF PlacedInv, PlacedTypeOK

\* A hand that is emptied, and nothing else but what its submit is reported as.
LEMMA HandEmptied ==
  ASSUME PlacedInv, NEW w \in Worker, Goes(w, Free), UNCHANGED <<orders, rows, asks, past>>,
         report' \in [Submit -> Reports],
         \A s \in Submit : report'[s] = report[s] \/ s = hands[w].submit,
         \A s \in Submit \ past.mixed :
           report'[s] = "confirmed" => \E i \in 1..Len(orders) : orders[i].by = s
  PROVE  PlacedInv'
<1>1. hands'[w] = Free /\ \A v \in Worker : v # w => hands'[v] = hands[v]
  BY FreeType, HandMoves
<1>2. PlacedTypeOK' /\ HandsTyped'
  <2>1. Len(Free.fetched) = 0
    BY FreeType, EmptySeq
  <2> QED
    BY <2>1, FreeType, StoreType, TypeMoves
<1>3. SubmitOK(w)' /\ SyncOK(w)'
  BY <1>1, FreeType DEF SubmitOK, SyncOK, SubmitPoints, SyncsAt
<1>4. SubmitsInHand' /\ SyncsInHand'
  BY <1>3, FreeType, OtherHands DEF SubmitsInHand, SyncsInHand
<1>5. Alone'
  BY <1>1, FreeType DEF PlacedInv, Alone, SubmitPoints, SyncsAt
<1>6. \A s \in Submit : report'[s] = report[s] \/ report[s] = "dispatched"
  BY PlacedOrdersAssumption DEF PlacedInv, Alone, SubmitsInHand, SubmitOK
<1> QED
  BY <1>2, <1>4, <1>5, <1>6, OthersKeep DEF PlacedInv

-----------------------------------------------------------------------------
(* A submit *)

LEMMA AbortStep ==
  ASSUME PlacedInv, NEW w \in Worker, Abort(w)
  PROVE  PlacedInv'
<1>1. /\ Goes(w, Free) /\ UNCHANGED <<orders, rows, asks, past>>
      /\ report' = [s \in Submit |-> IF s = hands[w].submit THEN "unconfirmed" ELSE report[s]]
  BY DEF Abort
<1>2. \A s \in Submit \ past.mixed :
        report'[s] = "confirmed" => \E i \in 1..Len(orders) : orders[i].by = s
  BY <1>1 DEF PlacedInv, ConfirmationIsOwn
<1> QED
  BY <1>1, <1>2, StoreType, HandEmptied DEF Reports

LEMMA SettleWithoutRowStep ==
  ASSUME PlacedInv, NEW w \in Worker, SettleWithoutRow(w)
  PROVE  PlacedInv'
<1>1. PICK outcome \in SettlesAs(w) : report' = [report EXCEPT ![hands[w].submit] = outcome]
  BY DEF SettleWithoutRow
<1>2. Goes(w, Free) /\ UNCHANGED <<orders, rows, asks, past>>
  BY DEF SettleWithoutRow
<1>3. /\ outcome \in Reports
      /\ outcome = "confirmed" => \E i \in 1..Len(orders) : orders[i].by = hands[w].submit
  BY DEF SettlesAs, Reports
<1>4. /\ report' \in [Submit -> Reports]
      /\ \A s \in Submit : report'[s] = report[s] \/ s = hands[w].submit
  BY <1>1, <1>3, StoreType
<1>5. \A s \in Submit \ past.mixed :
        report'[s] = "confirmed" => \E i \in 1..Len(orders) : orders[i].by = s
  BY <1>1, <1>3, StoreType DEF PlacedInv, ConfirmationIsOwn
<1> QED
  BY <1>2, <1>4, <1>5, HandEmptied

\* A hand that goes on, and nothing else.
LEMMA HandGoesOn ==
  ASSUME PlacedInv, NEW w \in Worker, NEW h \in HandRecords, Goes(w, h),
         UNCHANGED <<orders, rows, asks, report, past>>,
         h.old \subseteq 1..Len(orders), h.chosen <= Len(orders), h.stamp <= asks.now,
         Len(h.fetched) <= Len(orders), h.todo \subseteq 1..Len(rows),
         h.imports \subseteq 1..Len(orders),
         h.at \in SubmitPoints => hands[w].at \in SubmitPoints,
         h.at \in SyncsAt => hands[w].at \in SyncsAt,
         hands[w].at # "idle",
         h.submit = hands[w].submit, h.submit # NoSubmit => h.at \in SubmitPoints,
         SubmitOK(w)', SyncOK(w)'
  PROVE  PlacedInv'
<1>1. hands'[w] = h /\ \A v \in Worker : v # w => hands'[v] = hands[v]
  BY HandMoves
<1>2. PlacedTypeOK' /\ HandsTyped'
  BY StoreType, TypeMoves
<1>3. SubmitsInHand' /\ SyncsInHand'
  BY OtherHands DEF SubmitsInHand, SyncsInHand
<1>4. Alone'
  BY <1>1 DEF PlacedInv, Alone
<1>5. \A s \in Submit \ past.mixed :
        report'[s] = "confirmed" => \E i \in 1..Len(orders) : orders[i].by = s
  BY DEF PlacedInv, ConfirmationIsOwn
<1> QED
  BY <1>2, <1>3, <1>4, <1>5, OthersKeep DEF PlacedInv

LEMMA FindConfirmationStep ==
  ASSUME PlacedInv, NEW w \in Worker, FindConfirmation(w)
  PROVE  PlacedInv'
<1>1. /\ hands[w].at = "polling" /\ Candidates(w) # {}
      /\ \E c \in FirstOf(w) : Goes(w, [hands[w] EXCEPT !.at = "persisting", !.chosen = c])
      /\ UNCHANGED <<orders, rows, asks, report, past>>
  BY DEF FindConfirmation, Hand
<1>2. PICK c \in FirstOf(w) : Goes(w, [hands[w] EXCEPT !.at = "persisting", !.chosen = c])
  BY <1>1
<1> DEFINE h == [hands[w] EXCEPT !.at = "persisting", !.chosen = c]
<1>a. Goes(w, h)
  BY <1>2
<1>3. Candidates(w) \in SUBSET (1..Len(orders)) /\ Len(orders) \in Nat
  BY StoreType DEF Candidates, Listed
<1>4. c \in 1..Len(orders) /\ c \notin hands[w].old /\ c \in Nat
  <2>1. c \in Candidates(w)
    BY <1>1, <1>3, MaxOf DEF FirstOf
  <2> QED
    BY <1>3, <2>1 DEF Candidates
<1>5. /\ h \in HandRecords /\ h.at = "persisting" /\ h.chosen = c
      /\ h.submit = hands[w].submit /\ h.path = hands[w].path
      /\ h.old = hands[w].old /\ h.stamp = hands[w].stamp
      /\ h.fetched = hands[w].fetched /\ h.todo = hands[w].todo /\ h.imports = hands[w].imports
  BY <1>4, HandType DEF HandRecords, HandPoints
<1> HIDE DEF h
<1>6. hands'[w] = h
  BY <1>a, <1>5, HandMoves
<1>7. SubmitOK(w)'
  BY <1>1, <1>4, <1>5, <1>6 DEF PlacedInv, SubmitsInHand, SubmitOK, SubmitPoints
<1>8. SyncOK(w)'
  BY <1>5, <1>6 DEF SyncOK, SyncsAt
<1>9. /\ hands[w].old \subseteq 1..Len(orders) /\ hands[w].stamp <= asks.now
      /\ Len(hands[w].fetched) <= Len(orders) /\ hands[w].todo \subseteq 1..Len(rows)
      /\ hands[w].imports \subseteq 1..Len(orders)
  BY StoreType DEF PlacedInv, PlacedTypeOK
<1> QED
  BY <1>1, <1>a, <1>4, <1>5, <1>7, <1>8, <1>9, HandGoesOn DEF SubmitPoints, SyncsAt

\* What a sync in one hand says, where another hand begins and no row changes.
LEMMA SyncKept ==
  ASSUME PlacedInv, NEW v \in Worker, hands'[v] = hands[v], UNCHANGED rows,
         asks'.requested = asks.requested, asks'.last = asks.last,
         past'.wanted = past.wanted, past'.spoiled = past.spoiled,
         past.twoSyncs => past'.twoSyncs, past.twoWriters => past'.twoWriters
  PROVE  SyncOK(v)'
<1>1. \A i : WantedListed(i)' = WantedListed(i)
  BY DEF WantedListed
<1>2. \A i : Fresh(i)' = Fresh(i)
  BY DEF Fresh, RowsOf
<1>3. \A i : Covers(hands[v], i)' = Covers(hands[v], i)
  BY DEF Covers
<1>4. FetchedListed(v)' = FetchedListed(v) /\ \A i : RowsOf(i)' = RowsOf(i)
  BY DEF FetchedListed, RowsOf
<1>5. hands[v].at \in SyncsAt => SyncOK(v)
  BY DEF PlacedInv, SyncsInHand
<1>6. ASSUME hands[v].at \in SyncsAt
      PROVE  /\ ~past'.twoSyncs => asks'.last < hands[v].stamp
             /\ hands[v].at # "fetching" /\ hands[v].stamp >= asks.requested =>
                  \A i \in DOMAIN past.wanted : WantedListed(i) => Covers(hands[v], i)
  BY <1>5, <1>6 DEF SyncOK
<1>7. ASSUME hands[v].at = "updating"
      PROVE  /\ \A k \in hands[v].todo :
                  /\ k \in 1..Len(rows) /\ rows[k].conf \in DOMAIN hands[v].fetched
                  /\ hands[v].fetched[rows[k].conf] # Unsynced
             /\ hands[v].imports \subseteq FetchedListed(v)
             /\ ~past'.twoWriters => \A i \in hands[v].imports : RowsOf(i) = {}
             /\ hands[v].stamp >= asks.requested /\ ~past.spoiled /\ ~past'.twoSyncs =>
                  \A i \in DOMAIN past.wanted : WantedListed(i) =>
                    \/ i \in hands[v].imports
                    \/ \E k \in hands[v].todo : rows[k].conf = i
                    \/ Fresh(i)
  BY <1>5, <1>7 DEF SyncOK, SyncsAt
<1>8. ASSUME hands[v].at = "stamping"
      PROVE  hands[v].stamp >= asks.requested /\ ~past.spoiled /\ ~past'.twoSyncs =>
               \A i \in DOMAIN past.wanted : WantedListed(i) => Fresh(i)
  BY <1>5, <1>8 DEF SyncOK, SyncsAt
<1>9. DOMAIN past'.wanted = DOMAIN past.wanted
  OBVIOUS
<1> QED
  BY <1>1, <1>2, <1>3, <1>4, <1>6, <1>7, <1>8, <1>9 DEF SyncOK

LEMMA DispatchSubmitStep ==
  ASSUME PlacedInv, NEW w \in Worker, NEW s \in Submit, DispatchSubmit(w, s)
  PROVE  PlacedInv'
<1> DEFINE o == [by |-> s, listed |-> FALSE, edits |-> 0]
           busy == {hands[v].submit : v \in Worker} \ {NoSubmit}
           earlier == 1..Len(orders)
<1>0. PICK path \in {"browser", "engine"} : \E old \in LeavesOut(path, earlier) :
        /\ Goes(w, [Free EXCEPT !.at = "polling", !.submit = s, !.path = path, !.old = old])
        /\ past' = [past EXCEPT !.twoWriters = past.twoWriters \/ Others(w) # {},
                                !.mixed = past.mixed \cup {x \in {s} : old # earlier} \cup busy]
  BY DEF DispatchSubmit
<1>1. PICK old \in LeavesOut(path, earlier) :
        /\ Goes(w, [Free EXCEPT !.at = "polling", !.submit = s, !.path = path, !.old = old])
        /\ past' = [past EXCEPT !.twoWriters = past.twoWriters \/ Others(w) # {},
                                !.mixed = past.mixed \cup {x \in {s} : old # earlier} \cup busy]
  BY <1>0
<1> DEFINE h == [Free EXCEPT !.at = "polling", !.submit = s, !.path = path, !.old = old]
<1>2. /\ hands[w].at = "idle" /\ report[s] = "none"
      /\ report' = [report EXCEPT ![s] = "dispatched"]
      /\ orders' = Append(orders, o) \/ orders' = orders
      /\ UNCHANGED <<rows, asks>>
  BY DEF DispatchSubmit, Hand
<1>3. Len(orders) \in Nat /\ old \subseteq earlier /\ old \subseteq Nat
  BY StoreType DEF LeavesOut
<1>4. /\ h \in HandRecords /\ h.at = "polling" /\ h.submit = s /\ h.path = path /\ h.old = old
      /\ h.chosen = 0 /\ h.stamp = 0 /\ h.fetched = <<>> /\ h.todo = {} /\ h.imports = {}
  BY <1>3, FreeType DEF HandRecords, HandPoints, Paths
<1>a. Goes(w, h)
  BY <1>1
<1> HIDE DEF h
<1>5. hands'[w] = h /\ \A v \in Worker : v # w => hands'[v] = hands[v]
  BY <1>a, <1>4, HandMoves
<1>6. o \in MiloOrders /\ o.by = s
  BY PlacedOrdersAssumption DEF MiloOrders
<1> HIDE DEF o
<1>7. /\ orders' \in Seq(MiloOrders) /\ Len(orders') >= Len(orders) /\ Len(orders') \in Nat
      /\ \A j \in 1..Len(orders) : j \in 1..Len(orders') /\ orders'[j] = orders[j]
      /\ \A j \in 1..Len(orders') : j > Len(orders) => orders'[j].by = s
  <2>1. CASE orders' = Append(orders, o)
    <3>1. /\ orders' \in Seq(MiloOrders) /\ Len(orders') = Len(orders) + 1
          /\ \A j \in 1..Len(orders) : orders'[j] = orders[j]
          /\ orders'[Len(orders) + 1] = o
      BY <1>6, <2>1, StoreType
    <3>2. \A j \in 1..Len(orders') : j > Len(orders) => j = Len(orders) + 1
      BY <1>3, <3>1
    <3> QED
      BY <1>3, <1>6, <3>1, <3>2
  <2>2. CASE orders' = orders
    BY <1>3, <2>2, StoreType
  <2> QED
    BY <1>2, <2>1, <2>2
<1>8. /\ past' \in Pasts /\ past'.wanted = past.wanted /\ past'.spoiled = past.spoiled
      /\ past'.twoSyncs = past.twoSyncs /\ past.mixed \subseteq past'.mixed
      /\ past'.twoWriters = (past.twoWriters \/ Others(w) # {})
      /\ busy \subseteq past'.mixed
      /\ s \notin past'.mixed => old = earlier
  <2> DEFINE m == past.mixed \cup {x \in {s} : old # earlier} \cup busy
             t == past.twoWriters \/ Others(w) # {}
  <2>1. past \in Pasts /\ m \in SUBSET Submit /\ t \in BOOLEAN
    BY StoreType, HandType DEF Pasts
  <2>2. past.mixed \subseteq m /\ busy \subseteq m /\ (s \notin m => old = earlier)
    OBVIOUS
  <2>3. past' = [past EXCEPT !.twoWriters = t, !.mixed = m]
    BY <1>1
  <2>4. t = (past.twoWriters \/ Others(w) # {})
    OBVIOUS
  <2> HIDE DEF m, t
  <2>5. /\ past' \in Pasts /\ past'.wanted = past.wanted /\ past'.spoiled = past.spoiled
        /\ past'.twoSyncs = past.twoSyncs /\ past'.mixed = m /\ past'.twoWriters = t
    BY <2>1, <2>3 DEF Pasts
  <2> QED
    BY <2>2, <2>4, <2>5
<1> HIDE DEF busy
<1>9. ASSUME NEW v \in Worker, hands[v].at \in SubmitPoints
      PROVE  /\ hands[v].submit \in Submit /\ hands[v].submit # s /\ hands[v].submit \in busy
             /\ report'[hands[v].submit] = "dispatched"
  <2>1. hands[v].submit \in Submit /\ report[hands[v].submit] = "dispatched"
    BY <1>9 DEF PlacedInv, SubmitsInHand, SubmitOK
  <2>2. hands[v].submit # s
    BY <1>2, <2>1
  <2> QED
    BY <1>2, <2>1, <2>2, StoreType, PlacedOrdersAssumption DEF busy
<1>10. PlacedTypeOK' /\ HandsTyped'
  <2>1. Len(<<>>) = 0
    OBVIOUS
  <2>2. /\ rows' \in Seq(Rows) /\ Len(rows') >= Len(rows) /\ asks' \in Asks /\ asks'.now >= asks.now
        /\ \A k \in 1..Len(rows') : rows'[k].conf \in 1..Len(orders')
    BY <1>2, <1>7, StoreType
  <2>3. report' \in [Submit -> Reports]
    BY <1>2, StoreType DEF Reports
  <2>4. /\ h.old \subseteq 1..Len(orders') /\ h.chosen <= Len(orders') /\ h.stamp <= asks'.now
        /\ Len(h.fetched) <= Len(orders') /\ h.todo \subseteq 1..Len(rows')
        /\ h.imports \subseteq 1..Len(orders')
    BY <1>2, <1>3, <1>4, <1>7, <2>1, StoreType
  <2> QED
    BY <1>a, <1>4, <1>7, <1>8, <2>2, <2>3, <2>4, TypeMoves
<1>11. SubmitsInHand'
  <2>1. SubmitOK(w)'
    <3>1. report'[s] = "dispatched"
      BY <1>2, StoreType
    <3>2. ASSUME s \notin past'.mixed
          PROVE  \A j \in 1..Len(orders') : j \notin old => orders'[j].by = s
      BY <1>3, <1>7, <1>8, <3>2
    <3>3. ASSUME past'.mixed = {}
          PROVE  \A k \in 1..Len(rows') : rows'[k].conf \in old
      BY <1>2, <1>3, <1>8, <3>3, StoreType
    <3> QED
      BY <1>4, <1>5, <3>1, <3>2, <3>3 DEF SubmitOK
  <2>2. ASSUME NEW v \in Worker, v # w, hands[v].at \in SubmitPoints
        PROVE  SubmitOK(v)'
    <3>1. /\ hands[v].at = "persisting" =>
               hands[v].chosen \in 1..Len(orders) /\ hands[v].chosen \notin hands[v].old
          /\ past.mixed = {} /\ ~past.twoWriters =>
               \A k \in 1..Len(rows) : rows[k].conf \in hands[v].old
      BY <2>2 DEF PlacedInv, SubmitsInHand, SubmitOK
    <3>2. hands[v].submit \in past'.mixed
      BY <1>8, <1>9, <2>2
    <3> QED
      BY <1>5, <1>7, <1>9, <2>2, <3>1, <3>2 DEF SubmitOK
  <2>3. \A v \in Worker : v # w => SubmitOK(v)'
    BY <1>5, <2>2 DEF SubmitOK
  <2> QED
    BY <2>1, <2>3 DEF SubmitsInHand
<1>12. SyncsInHand'
  <2>1. SyncOK(w)'
    BY <1>4, <1>5 DEF SyncOK, SyncsAt
  <2>2. \A v \in Worker : v # w => SyncOK(v)'
    BY <1>2, <1>5, <1>8, SyncKept
  <2> QED
    BY <2>1, <2>2 DEF SyncsInHand
<1>13. Alone'
  <2>1. ~past'.twoWriters => \A v \in Worker : v # w => hands[v].at = "idle"
    BY <1>8 DEF Others
  <2>2. \A v \in Worker : v # w => hands[v].submit # s
    BY <1>9, PlacedOrdersAssumption DEF PlacedInv, Alone
  <2> QED
    BY <1>4, <1>5, <1>8, <2>1, <2>2 DEF PlacedInv, Alone, SubmitPoints, SyncsAt
<1>14. RowsOfSubmits' /\ RowsApart'
  BY <1>2, <1>8, StoreType DEF PlacedInv, RowsOfSubmits, RowsApart
<1>15. WantedSeen'
  BY <1>2, <1>7, <1>8 DEF PlacedInv, WantedSeen
<1>16. FreshWhenServed'
  BY <1>2, <1>8 DEF PlacedInv, FreshWhenServed, RowsOf, Pending
<1>17. ConfirmationIsOwn'
  <2>1. \A r \in Submit : report'[r] = "confirmed" => report[r] = "confirmed"
    BY <1>2, StoreType
  <2>2. \A r \in Submit \ past'.mixed : r \notin past.mixed
    BY <1>8
  <2> QED
    <3>1. ASSUME NEW r \in Submit \ past'.mixed, report'[r] = "confirmed"
          PROVE  \E j \in 1..Len(orders') : orders'[j].by = r
      <4>1. PICK j \in 1..Len(orders) : orders[j].by = r
        BY <2>1, <2>2, <3>1 DEF PlacedInv, ConfirmationIsOwn
      <4> QED
        BY <1>7, <4>1
    <3>2. ASSUME NEW k \in 1..Len(rows), rows[k].by \in Submit \ past'.mixed
          PROVE  orders'[rows[k].conf].by = rows[k].by
      <4>1. orders[rows[k].conf].by = rows[k].by
        BY <2>2, <3>2 DEF PlacedInv, ConfirmationIsOwn
      <4>2. rows[k].conf \in 1..Len(orders)
        BY StoreType
      <4> QED
        BY <1>7, <4>1, <4>2
    <3> QED
      BY <1>2, <3>1, <3>2 DEF ConfirmationIsOwn
<1> QED
  BY <1>10, <1>11, <1>12, <1>13, <1>14, <1>15, <1>16, <1>17 DEF PlacedInv

\* Where rows are added and none is changed, what is fresh stays fresh.
LEMMA RowsGrow ==
  ASSUME PlacedInv, rows' \in Seq(Rows), Len(rows') >= Len(rows),
         \A k \in 1..Len(rows) : rows'[k] = rows[k],
         UNCHANGED <<asks, past>>
  PROVE  (\A i : Fresh(i) => Fresh(i)') /\ FreshWhenServed'
<1>1. \A i : \A k \in RowsOf(i) : k \in RowsOf(i)' /\ rows'[k] = rows[k]
  BY StoreType DEF RowsOf
<1>2. \A i : Fresh(i) => Fresh(i)'
  BY <1>1 DEF Fresh
<1>3. FreshWhenServed'
  BY <1>1 DEF PlacedInv, FreshWhenServed, Pending
<1> QED
  BY <1>2, <1>3

\* And a sync in another hand goes on as it was, where it is not alone.
LEMMA RowsGrowOther ==
  ASSUME PlacedInv, rows' \in Seq(Rows), Len(rows') >= Len(rows),
         \A k \in 1..Len(rows) : rows'[k] = rows[k],
         UNCHANGED <<asks, past>>,
         NEW w \in Worker, hands[w].at # "idle",
         NEW v \in Worker, v # w, hands'[v] = hands[v]
  PROVE  SyncOK(v)'
<1>1. \A i : Fresh(i) => Fresh(i)'
  BY RowsGrow
<1>2. CASE hands[v].at \notin SyncsAt
  BY <1>2 DEF SyncOK
<1>3. CASE hands[v].at \in SyncsAt
  <2>1. past.twoWriters /\ SyncOK(v)
    BY <1>3 DEF PlacedInv, Alone, SyncsAt, SyncsInHand
  <2>2. hands[v].at = "updating" =>
          \A k \in hands[v].todo : k \in 1..Len(rows) /\ k \in 1..Len(rows') /\ rows'[k] = rows[k]
    BY <1>3, <2>1, StoreType DEF SyncOK
  <2>3. \A i : WantedListed(i)' = WantedListed(i) /\ Covers(hands[v], i)' = Covers(hands[v], i)
    BY DEF WantedListed, Covers
  <2>4. FetchedListed(v)' = FetchedListed(v)
    BY DEF FetchedListed
  <2>5. ASSUME hands'[v].at = "stamping", hands'[v].stamp >= asks'.requested,
               ~past'.spoiled, ~past'.twoSyncs, NEW i \in DOMAIN past'.wanted, WantedListed(i)'
        PROVE  Fresh(i)'
    BY <1>1, <1>3, <2>1, <2>3, <2>5 DEF SyncOK
  <2>6. ASSUME hands'[v].at = "updating", hands'[v].stamp >= asks'.requested,
               ~past'.spoiled, ~past'.twoSyncs, NEW i \in DOMAIN past'.wanted, WantedListed(i)'
        PROVE  i \in hands'[v].imports \/ (\E k \in hands'[v].todo : rows'[k].conf = i) \/ Fresh(i)'
    BY <1>1, <1>3, <2>1, <2>2, <2>3, <2>6 DEF SyncOK
  <2>7. ASSUME hands'[v].at = "updating"
        PROVE  /\ \A k \in hands'[v].todo :
                    /\ k \in 1..Len(rows') /\ rows'[k].conf \in DOMAIN hands'[v].fetched
                    /\ hands'[v].fetched[rows'[k].conf] # Unsynced
               /\ hands'[v].imports \subseteq FetchedListed(v)'
    BY <1>3, <2>1, <2>2, <2>4, <2>7 DEF SyncOK
  <2>8. /\ ~past'.twoSyncs => asks'.last < hands'[v].stamp
        /\ hands'[v].at # "fetching" /\ hands'[v].stamp >= asks'.requested =>
             \A i \in DOMAIN past'.wanted : WantedListed(i)' => Covers(hands[v], i)'
    BY <1>3, <2>1, <2>3 DEF SyncOK
  <2> QED
    BY <2>1, <2>5, <2>6, <2>7, <2>8 DEF SyncOK, Covers
<1> QED
  BY <1>2, <1>3

LEMMA PersistConfirmationStep ==
  ASSUME PlacedInv, NEW w \in Worker, PersistConfirmation(w)
  PROVE  PlacedInv'
<1> DEFINE x == hands[w].submit
           c == hands[w].chosen
           r == [conf |-> c, by |-> x, synced |-> Unsynced]
           own == {i \in 1..Len(rows) : rows[i].by = x}
<1>1. /\ hands[w].at = "persisting" /\ Goes(w, Free)
      /\ report' = [report EXCEPT ![x] = "confirmed"]
      /\ UNCHANGED <<orders, asks, past>>
      /\ UpsertRow(w) \/ UNCHANGED rows
  BY DEF PersistConfirmation, Hand
<1>2. /\ x \in Submit /\ report[x] = "dispatched" /\ c \in 1..Len(orders) /\ c \notin hands[w].old
      /\ x \notin past.mixed => orders[c].by = x
      /\ ~past.twoWriters /\ past.mixed = {} => \A k \in 1..Len(rows) : rows[k].conf \in hands[w].old
  BY <1>1 DEF PlacedInv, SubmitsInHand, SubmitOK, SubmitPoints
<1>3. \A s \in Submit \ past.mixed :
        report'[s] = "confirmed" => \E i \in 1..Len(orders) : orders[i].by = s
  BY <1>1, <1>2, StoreType DEF PlacedInv, ConfirmationIsOwn
<1>4. report' \in [Submit -> Reports]
  BY <1>1, StoreType DEF Reports
<1>5. \A s \in Submit : report'[s] = report[s] \/ s = x
  BY <1>1, StoreType
<1>6. CASE UNCHANGED rows
  BY <1>1, <1>3, <1>4, <1>5, <1>6, HandEmptied
<1>7. CASE UpsertRow(w)
  <2>1. own = {}
    BY <1>2 DEF PlacedInv, RowsOfSubmits
  <2>2. rows' = Append(rows, r)
    BY <1>7, <2>1 DEF UpsertRow
  <2>3. r \in Rows /\ r.conf = c /\ r.by = x
    BY <1>2, StoreType, PlacedOrdersAssumption DEF Rows, Unsynced
  <2> HIDE DEF r, own
  <2>4. /\ rows' \in Seq(Rows) /\ Len(rows') = Len(rows) + 1 /\ Len(rows) \in Nat
        /\ \A k \in 1..Len(rows) : rows'[k] = rows[k]
        /\ rows'[Len(rows) + 1] = r
    BY <2>2, <2>3, StoreType
  <2>5. \A k \in 1..Len(rows') : k \in 1..Len(rows) \/ k = Len(rows) + 1
    BY <2>4
  <2>6. hands'[w] = Free /\ \A v \in Worker : v # w => hands'[v] = hands[v]
    BY <1>1, FreeType, HandMoves
  <2> HIDE DEF x, c
  <2>7. PlacedTypeOK' /\ HandsTyped'
    <3>1. \A k \in 1..Len(rows') : rows'[k].conf \in 1..Len(orders')
      BY <1>1, <1>2, <2>3, <2>4, <2>5, StoreType
    <3>2. Len(Free.fetched) = 0
      BY FreeType
    <3>3. /\ orders' \in Seq(MiloOrders) /\ Len(orders') >= Len(orders) /\ Len(rows') >= Len(rows)
          /\ asks' \in Asks /\ asks'.now >= asks.now /\ past' \in Pasts
      BY <1>1, <2>4, StoreType
    <3>4. /\ Free.old \subseteq 1..Len(orders') /\ Free.chosen <= Len(orders')
          /\ Free.stamp <= asks'.now /\ Len(Free.fetched) <= Len(orders')
          /\ Free.todo \subseteq 1..Len(rows') /\ Free.imports \subseteq 1..Len(orders')
      BY <1>1, <3>2, FreeType, StoreType
    <3> QED
      BY <1>1, <1>4, <2>4, <3>1, <3>3, <3>4, FreeType, TypeMoves
  <2>8. ASSUME NEW v \in Worker, v # w, hands[v].at \in SubmitPoints
        PROVE  SubmitOK(v)'
    <3>1. /\ hands[v].submit \in Submit /\ report[hands[v].submit] = "dispatched"
          /\ hands[v].submit # x /\ past.twoWriters
      BY <1>1, <1>2, <2>8, PlacedOrdersAssumption
         DEF PlacedInv, SubmitsInHand, SubmitOK, Alone, SubmitPoints, x
    <3>2. report'[hands[v].submit] = "dispatched"
      BY <1>5, <3>1
    <3> QED
      BY <1>1, <2>6, <2>8, <3>1, <3>2 DEF PlacedInv, SubmitsInHand, SubmitOK
  <2>9. SubmitsInHand'
    BY <2>6, <2>8, FreeType DEF SubmitsInHand, SubmitOK, SubmitPoints
  <2>10. SyncsInHand'
    <3>1. SyncOK(w)'
      BY <2>6, FreeType DEF SyncOK, SyncsAt
    <3>2. \A v \in Worker : v # w => SyncOK(v)'
      BY <1>1, <2>4, <2>6, RowsGrowOther
    <3> QED
      BY <3>1, <3>2 DEF SyncsInHand
  <2>11. Alone'
    BY <1>1, <2>6, FreeType DEF PlacedInv, Alone, SubmitPoints, SyncsAt
  <2>12. RowsOfSubmits'
    <3>1. report'[x] = "confirmed"
      BY <1>1, <1>2, StoreType DEF x
    <3> QED
      BY <1>2, <1>5, <2>3, <2>4, <2>5, <3>1 DEF PlacedInv, RowsOfSubmits
  <2>13. RowsApart'
    <3>1. SUFFICES ASSUME ~past.twoWriters, past.mixed = {}
                   PROVE  \A j, k \in 1..Len(rows') : rows'[j].conf = rows'[k].conf => j = k
      BY <1>1 DEF RowsApart
    <3>2. \A k \in 1..Len(rows) : rows[k].conf # c
      BY <1>2, <3>1
    <3> QED
      BY <2>3, <2>4, <2>5, <3>1, <3>2 DEF PlacedInv, RowsApart
  <2>14. WantedSeen' /\ FreshWhenServed'
    BY <1>1, <2>4, RowsGrow DEF PlacedInv, WantedSeen
  <2>15. ConfirmationIsOwn'
    BY <1>1, <1>2, <1>3, <2>3, <2>4, <2>5 DEF PlacedInv, ConfirmationIsOwn
  <2> QED
    BY <2>7, <2>9, <2>10, <2>11, <2>12, <2>13, <2>14, <2>15 DEF PlacedInv
<1> QED
  BY <1>1, <1>6, <1>7

-----------------------------------------------------------------------------
(* A sync *)

LEMMA StartOrderSyncStep ==
  ASSUME PlacedInv, NEW w \in Worker, StartOrderSync(w)
  PROVE  PlacedInv'
<1> DEFINE h == [Free EXCEPT !.at = "fetching", !.stamp = asks.now + 1]
           t == past.twoWriters \/ Others(w) # {}
           u == past.twoSyncs \/ \E v \in Others(w) : Syncing(v)
<1>1. /\ hands[w].at = "idle" /\ asks' = [asks EXCEPT !.now = asks.now + 1]
      /\ Goes(w, h) /\ past' = [past EXCEPT !.twoWriters = t, !.twoSyncs = u]
      /\ UNCHANGED <<orders, rows, report>>
  BY DEF StartOrderSync, Hand
<1>2. /\ asks' \in Asks /\ asks'.now = asks.now + 1 /\ asks.now \in Nat
      /\ asks'.requested = asks.requested /\ asks'.last = asks.last
  <2>1. asks \in Asks /\ asks.now + 1 \in Nat
    BY AsksType
  <2> QED
    BY <1>1, <2>1 DEF Asks
<1>3. /\ h \in HandRecords /\ h.at = "fetching" /\ h.submit = NoSubmit /\ h.old = {}
      /\ h.chosen = 0 /\ h.stamp = asks.now + 1 /\ h.fetched = <<>> /\ h.todo = {} /\ h.imports = {}
  <2>1. Free \in HandRecords /\ "fetching" \in HandPoints /\ asks.now + 1 \in Nat
    BY <1>2, FreeType DEF HandPoints
  <2>2. h \in HandRecords
    BY <2>1 DEF HandRecords
  <2> QED
    BY <2>1, <2>2, FreeType DEF HandRecords
<1>4. t \in BOOLEAN /\ u \in BOOLEAN
  BY StoreType DEF Pasts
<1>5. /\ ~t => (\A v \in Worker : v # w => hands[v].at = "idle")
      /\ ~u => (\A v \in Worker : v # w /\ hands[v].submit = NoSubmit => hands[v].at = "idle")
      /\ (past.twoWriters => t) /\ (past.twoSyncs => u)
  BY DEF Others, Syncing
<1> HIDE DEF h, t, u
<1>6. hands'[w] = h /\ \A v \in Worker : v # w => hands'[v] = hands[v]
  BY <1>1, <1>3, HandMoves
<1>7. /\ past' \in Pasts /\ past'.wanted = past.wanted /\ past'.spoiled = past.spoiled
      /\ past'.mixed = past.mixed /\ past'.twoWriters = t /\ past'.twoSyncs = u
  BY <1>1, <1>4, StoreType DEF Pasts
<1>8. PlacedTypeOK' /\ HandsTyped'
  <2>1. Len(<<>>) = 0
    OBVIOUS
  <2>2. /\ orders' \in Seq(MiloOrders) /\ Len(orders') >= Len(orders) /\ Len(rows') >= Len(rows)
        /\ rows' \in Seq(Rows) /\ asks'.now >= asks.now
        /\ \A k \in 1..Len(rows') : rows'[k].conf \in 1..Len(orders')
        /\ report' \in [Submit -> Reports]
    BY <1>1, <1>2, StoreType
  <2>3. /\ h.old \subseteq 1..Len(orders') /\ h.chosen <= Len(orders') /\ h.stamp <= asks'.now
        /\ Len(h.fetched) <= Len(orders') /\ h.todo \subseteq 1..Len(rows')
        /\ h.imports \subseteq 1..Len(orders')
    BY <1>1, <1>2, <1>3, <2>1, StoreType
  <2> QED
    BY <1>1, <1>2, <1>3, <1>7, <2>2, <2>3, TypeMoves
<1>9. SubmitsInHand'
  BY <1>1, <1>3, <1>5, <1>6, <1>7 DEF PlacedInv, SubmitsInHand, SubmitOK, SubmitPoints
<1>10. SyncsInHand'
  <2>1. SyncOK(w)'
    <3>1. asks'.last < h.stamp
      BY <1>2, <1>3, AsksType DEF PlacedInv, WantedSeen
    <3> QED
      BY <1>3, <1>6, <3>1 DEF SyncOK
  <2>2. \A v \in Worker : v # w => SyncOK(v)'
    <3>1. rows' = rows /\ asks'.requested = asks.requested /\ asks'.last = asks.last
      BY <1>1, <1>2
    <3>2. (past.twoSyncs => past'.twoSyncs) /\ (past.twoWriters => past'.twoWriters)
      BY <1>7 DEF t, u
    <3> QED
      BY <1>6, <1>7, <3>1, <3>2, SyncKept
  <2> QED
    BY <2>1, <2>2 DEF SyncsInHand
<1>11. Alone'
  <2>1. \A v \in Worker : hands[v].at \in SyncsAt => hands[v].submit = NoSubmit
    BY DEF PlacedInv, Alone, SubmitPoints, SyncsAt
  <2> QED
    BY <1>1, <1>3, <1>5, <1>6, <1>7, <2>1 DEF PlacedInv, Alone, SubmitPoints, SyncsAt
<1>12. RowsOfSubmits' /\ RowsApart' /\ ConfirmationIsOwn'
  <2>1. past.twoWriters => past'.twoWriters
    BY <1>7 DEF t, u
  <2>2. RowsApart'
    BY <1>1, <1>7, <2>1 DEF PlacedInv, RowsApart
  <2>3. RowsOfSubmits' /\ ConfirmationIsOwn'
    BY <1>1, <1>7 DEF PlacedInv, RowsOfSubmits, ConfirmationIsOwn
  <2> QED
    BY <2>2, <2>3
<1>13. WantedSeen'
  BY <1>1, <1>2, <1>7, AsksType DEF PlacedInv, WantedSeen
<1>14. FreshWhenServed'
  <2>1. past.twoSyncs => past'.twoSyncs
    BY <1>7 DEF t, u
  <2>2. \A i : RowsOf(i)' = RowsOf(i)
    BY <1>1 DEF RowsOf
  <2>3. Pending' = Pending
    BY <1>2 DEF Pending
  <2> QED
    BY <1>1, <1>2, <1>7, <2>1, <2>2, <2>3 DEF PlacedInv, FreshWhenServed
<1> QED
  BY <1>8, <1>9, <1>10, <1>11, <1>12, <1>13, <1>14 DEF PlacedInv

\* What a list covers when the owner's view is older than it.
LEMMA FetchOrdersStep ==
  ASSUME PlacedInv, NEW w \in Worker, FetchOrders(w)
  PROVE  PlacedInv'
<1> DEFINE h == [hands[w] EXCEPT !.at = "reading", !.fetched = View]
<1>1. /\ hands[w].at = "fetching" /\ Goes(w, h)
      /\ UNCHANGED <<orders, rows, asks, report, past>>
  BY DEF FetchOrders, Hand
<1>2. /\ h \in HandRecords /\ h.at = "reading" /\ h.fetched = View
      /\ h.submit = hands[w].submit /\ h.path = hands[w].path
      /\ h.old = hands[w].old /\ h.stamp = hands[w].stamp
      /\ h.chosen = hands[w].chosen /\ h.todo = hands[w].todo /\ h.imports = hands[w].imports
  BY ViewType, HandType DEF HandRecords, HandPoints
<1> HIDE DEF h
<1>3. hands'[w] = h
  BY <1>1, <1>2, HandMoves
<1>4. \A i \in DOMAIN past.wanted : WantedListed(i) => Covers(h, i)
  <2>1. ASSUME NEW i \in DOMAIN past.wanted, past.wanted[i] # Unsynced
        PROVE  i \in 1..Len(orders) /\ orders[i].listed /\ orders[i].edits >= past.wanted[i]
    BY <2>1 DEF PlacedInv, WantedSeen
  <2> QED
    BY <1>2, <2>1, ViewType DEF WantedListed, Covers
<1>5. SubmitOK(w)'
  BY <1>2, <1>3 DEF SubmitOK, SubmitPoints
<1>6. SyncOK(w)'
  <2>1. ~past.twoSyncs => asks.last < hands[w].stamp
    BY <1>1 DEF PlacedInv, SyncsInHand, SyncOK, SyncsAt
  <2>2. \A i : WantedListed(i)' = WantedListed(i)
    BY <1>1 DEF WantedListed
  <2>3. \A i : Covers(h, i) => Covers(hands[w], i)'
    BY <1>1, <1>3 DEF Covers
  <2>4. \A i \in DOMAIN past'.wanted : WantedListed(i)' => Covers(hands[w], i)'
    BY <1>1, <1>4, <2>2, <2>3
  <2> QED
    BY <1>1, <1>2, <1>3, <2>1, <2>4 DEF SyncOK
<1>7. /\ hands[w].old \subseteq 1..Len(orders) /\ hands[w].stamp <= asks.now
      /\ hands[w].chosen <= Len(orders) /\ hands[w].todo \subseteq 1..Len(rows)
      /\ hands[w].imports \subseteq 1..Len(orders) /\ Len(View) <= Len(orders)
      /\ hands[w].submit = NoSubmit
  <2>1. hands[w].submit = NoSubmit
    BY <1>1 DEF PlacedInv, Alone, SubmitPoints
  <2>2. /\ hands[w].old \subseteq 1..Len(orders) /\ hands[w].stamp \in 0..asks.now
        /\ hands[w].chosen \in 0..Len(orders) /\ hands[w].todo \subseteq 1..Len(rows)
        /\ hands[w].imports \subseteq 1..Len(orders)
    BY DEF PlacedInv, PlacedTypeOK
  <2> QED
    BY <2>1, <2>2, StoreType, ViewType
<1> QED
  BY <1>1, <1>2, <1>5, <1>6, <1>7, HandGoesOn DEF SubmitPoints, SyncsAt

\* The first row of an order, where it has one.
LEMMA FirstRowOf ==
  ASSUME PlacedInv, NEW i, RowsOf(i) # {}
  PROVE  Min(RowsOf(i)) \in 1..Len(rows) /\ rows[Min(RowsOf(i))].conf = i
<1>1. RowsOf(i) \in SUBSET Nat
  BY StoreType DEF RowsOf
<1>2. Min(RowsOf(i)) \in RowsOf(i)
  BY <1>1, MinOf
<1> QED
  BY <1>2 DEF RowsOf

\* A list that was fetched has the orders up to some number.
LEMMA FetchedType ==
  ASSUME PlacedInv, NEW w \in Worker
  PROVE  /\ hands[w].fetched \in Seq(0..Unsynced) /\ DOMAIN hands[w].fetched \subseteq 1..Len(orders)
         /\ \A i \in DOMAIN hands[w].fetched : hands[w].fetched[i] \in 0..Unsynced
<1>1. hands[w].fetched \in Seq(0..Unsynced) /\ Len(hands[w].fetched) <= Len(orders)
  BY DEF PlacedInv, PlacedTypeOK, Views
<1>2. DOMAIN hands[w].fetched = 1..Len(hands[w].fetched) /\ Len(hands[w].fetched) \in Nat
  BY <1>1
<1> QED
  <2>1. Len(orders) \in Nat
    BY StoreType
  <2>2. 1..Len(hands[w].fetched) \subseteq 1..Len(orders)
    BY <1>1, <1>2, <2>1
  <2>3. \A i \in 1..Len(hands[w].fetched) : hands[w].fetched[i] \in 0..Unsynced
    BY <1>1, ElementOfSeq
  <2> QED
    BY <1>1, <1>2, <2>2, <2>3

LEMMA PlanSyncStep ==
  ASSUME PlacedInv, NEW w \in Worker, PlanSync(w)
  PROVE  PlacedInv'
<1> DEFINE td == FirstRows(Known(w))
           im == FetchedListed(w) \ Known(w)
           h == [hands[w] EXCEPT !.at = "updating", !.todo = td, !.imports = im]
<1>1. /\ hands[w].at = "reading" /\ Goes(w, h)
      /\ UNCHANGED <<orders, rows, asks, report, past>>
  BY DEF PlanSync, Hand
<1>2. \A k \in td : k \in 1..Len(rows) /\ rows[k].conf \in FetchedListed(w)
  BY FirstRowOf DEF FirstRows, Known
<1>3. im \subseteq FetchedListed(w) /\ \A i \in im : RowsOf(i) = {}
  BY DEF Known
<1>4. \A i \in FetchedListed(w) : i \in im \/ \E k \in td : rows[k].conf = i
  BY FirstRowOf DEF FirstRows, Known
<1>5. FetchedListed(w) \subseteq 1..Len(orders)
  BY FetchedType DEF FetchedListed
<1> HIDE DEF td, im
<1>6. td \subseteq 1..Len(rows) /\ im \subseteq 1..Len(orders) /\ td \in SUBSET Nat /\ im \in SUBSET Nat
  BY <1>2, <1>3, <1>5
<1>7. /\ h \in HandRecords /\ h.at = "updating" /\ h.todo = td /\ h.imports = im
      /\ h.submit = hands[w].submit /\ h.path = hands[w].path
      /\ h.old = hands[w].old /\ h.stamp = hands[w].stamp
      /\ h.chosen = hands[w].chosen /\ h.fetched = hands[w].fetched
  BY <1>6, HandType DEF HandRecords, HandPoints
<1> HIDE DEF h
<1>8. hands'[w] = h
  BY <1>1, <1>7, HandMoves
<1>9. SubmitOK(w)'
  BY <1>7, <1>8 DEF SubmitOK, SubmitPoints
<1>10. SyncOK(w)'
  <2>1. /\ ~past.twoSyncs => asks.last < hands[w].stamp
        /\ hands[w].stamp >= asks.requested =>
             \A i \in DOMAIN past.wanted : WantedListed(i) => Covers(hands[w], i)
    BY <1>1 DEF PlacedInv, SyncsInHand, SyncOK, SyncsAt
  <2>2. /\ FetchedListed(w)' = FetchedListed(w) /\ \A i : RowsOf(i)' = RowsOf(i)
        /\ \A i : WantedListed(i)' = WantedListed(i) /\ Covers(hands[w], i)' = Covers(hands[w], i)
    BY <1>1, <1>7, <1>8 DEF FetchedListed, RowsOf, WantedListed, Covers
  <2>3. \A i : Covers(hands[w], i) => i \in FetchedListed(w)
    BY DEF Covers, FetchedListed
  <2>4. \A k \in td : k \in 1..Len(rows) /\ rows[k].conf \in DOMAIN h.fetched
                      /\ h.fetched[rows[k].conf] # Unsynced
    BY <1>2, <1>7 DEF FetchedListed
  <2>5. hands[w].stamp >= asks.requested =>
          \A i \in DOMAIN past.wanted : WantedListed(i) =>
            i \in im \/ \E k \in td : rows[k].conf = i
    BY <1>4, <2>1, <2>3
  <2> QED
    BY <1>1, <1>3, <1>7, <1>8, <2>1, <2>2, <2>4, <2>5 DEF SyncOK
<1>11. /\ hands[w].old \subseteq 1..Len(orders) /\ hands[w].stamp <= asks.now
       /\ hands[w].chosen <= Len(orders) /\ Len(hands[w].fetched) <= Len(orders)
       /\ hands[w].submit = NoSubmit
  <2>1. hands[w].submit = NoSubmit
    BY <1>1 DEF PlacedInv, Alone, SubmitPoints
  <2>2. /\ hands[w].old \subseteq 1..Len(orders) /\ hands[w].stamp \in 0..asks.now
        /\ hands[w].chosen \in 0..Len(orders) /\ Len(hands[w].fetched) <= Len(orders)
    BY DEF PlacedInv, PlacedTypeOK
  <2> QED
    BY <2>1, <2>2, StoreType
<1> QED
  BY <1>1, <1>6, <1>7, <1>9, <1>10, <1>11, HandGoesOn DEF SubmitPoints, SyncsAt

\* A row that is brought up to date shows at least what the owner saw, where the sync
\* began after the tap, and every other row is as it was.
LEMMA UpdateRowStep ==
  ASSUME PlacedInv, NEW w \in Worker, NEW k \in 1..Len(rows), UpdateRow(w, k)
  PROVE  PlacedInv'
<1> DEFINE f == hands[w].fetched[rows[k].conf]
           h == [hands[w] EXCEPT !.todo = hands[w].todo \ {k}]
<1>1. /\ hands[w].at = "updating" /\ k \in hands[w].todo /\ Goes(w, h)
      /\ \/ rows' = [rows EXCEPT ![k].synced = f] /\ UNCHANGED past
         \/ UNCHANGED rows /\ past' = [past EXCEPT !.spoiled = TRUE]
      /\ UNCHANGED <<orders, asks, report>>
  BY DEF UpdateRow, Hand
<1>2. /\ SyncOK(w) /\ hands[w].at \in SyncsAt /\ hands[w].at \notin SubmitPoints
      /\ rows[k].conf \in DOMAIN hands[w].fetched /\ f # Unsynced
  BY <1>1 DEF PlacedInv, SyncsInHand, SyncOK, SyncsAt, SubmitPoints
<1>3. f \in 0..Unsynced
  BY <1>2, FetchedType
<1>4. /\ rows' \in Seq(Rows) /\ Len(rows') = Len(rows)
      /\ \A j \in 1..Len(rows) : /\ rows'[j].conf = rows[j].conf /\ rows'[j].by = rows[j].by
                                 /\ j # k => rows'[j] = rows[j]
      /\ rows' = [rows EXCEPT ![k].synced = f] => rows'[k].synced = f
      /\ rows'[k] = rows[k] \/ rows'[k].synced = f
  <2>1. CASE UNCHANGED rows
    <3>1. rows[k] \in Rows /\ rows \in Seq(Rows)
      BY StoreType
    <3> QED
      BY <2>1, <3>1 DEF Rows
  <2>2. CASE rows' = [rows EXCEPT ![k].synced = f]
    <3>1. rows[k] \in Rows /\ rows \in Seq(Rows)
      BY StoreType
    <3>2. [rows[k] EXCEPT !.synced = f] \in Rows
      BY <1>3, <3>1 DEF Rows
    <3>3. rows' \in Seq(Rows) /\ Len(rows') = Len(rows)
      BY <2>2, <3>1, <3>2
    <3>4. \A j \in 1..Len(rows) : j # k => rows'[j] = rows[j]
      BY <2>2, <3>1
    <3>5. rows'[k].conf = rows[k].conf /\ rows'[k].by = rows[k].by /\ rows'[k].synced = f
      BY <2>2, <3>1 DEF Rows
    <3> QED
      BY <3>3, <3>4, <3>5
  <2> QED
    BY <1>1, <2>1, <2>2
<1>5. /\ past' \in Pasts /\ past'.wanted = past.wanted /\ past'.mixed = past.mixed
      /\ past'.twoWriters = past.twoWriters /\ past'.twoSyncs = past.twoSyncs
      /\ past' = past \/ past'.spoiled
  <2>1. CASE UNCHANGED past
    BY <2>1, StoreType DEF Pasts
  <2>2. CASE past' = [past EXCEPT !.spoiled = TRUE]
    BY <2>2, StoreType DEF Pasts
  <2> QED
    BY <1>1, <2>1, <2>2
<1>6. ~past'.spoiled => ~past.spoiled /\ rows'[k].synced = f
  <2>1. past' = [past EXCEPT !.spoiled = TRUE] => past'.spoiled
    BY StoreType DEF Pasts
  <2> QED
    BY <1>1, <1>4, <2>1
<1> HIDE DEF f
<1>7. /\ h \in HandRecords /\ h.at = "updating" /\ h.todo = hands[w].todo \ {k}
      /\ h.imports = hands[w].imports /\ h.submit = hands[w].submit
      /\ h.path = hands[w].path /\ h.old = hands[w].old
      /\ h.stamp = hands[w].stamp /\ h.chosen = hands[w].chosen /\ h.fetched = hands[w].fetched
  BY <1>1, HandType DEF HandRecords
<1> HIDE DEF h
<1>8. hands'[w] = h /\ \A v \in Worker : v # w => hands'[v] = hands[v]
  BY <1>1, <1>7, HandMoves
<1>9. PlacedTypeOK' /\ HandsTyped'
  <2>1. /\ hands[w].old \subseteq 1..Len(orders) /\ hands[w].chosen \in 0..Len(orders)
        /\ hands[w].stamp \in 0..asks.now /\ Len(hands[w].fetched) <= Len(orders)
        /\ hands[w].todo \subseteq 1..Len(rows) /\ hands[w].imports \subseteq 1..Len(orders)
    BY DEF PlacedInv, PlacedTypeOK
  <2>2. /\ h.old \subseteq 1..Len(orders') /\ h.chosen <= Len(orders') /\ h.stamp <= asks'.now
        /\ Len(h.fetched) <= Len(orders') /\ h.todo \subseteq 1..Len(rows')
        /\ h.imports \subseteq 1..Len(orders')
    BY <1>1, <1>4, <1>7, <2>1, StoreType
  <2>3. /\ orders' \in Seq(MiloOrders) /\ Len(orders') >= Len(orders) /\ Len(rows') >= Len(rows)
        /\ asks' \in Asks /\ asks'.now >= asks.now
        /\ \A j \in 1..Len(rows') : rows'[j].conf \in 1..Len(orders')
        /\ report' \in [Submit -> Reports]
    BY <1>1, <1>4, StoreType
  <2> QED
    BY <1>1, <1>4, <1>5, <1>7, <2>2, <2>3, TypeMoves
<1>10. SubmitsInHand'
  <2>1. SubmitOK(w)'
    BY <1>7, <1>8 DEF SubmitOK, SubmitPoints
  <2>2. \A v \in Worker : v # w => SubmitOK(v)'
    BY <1>1, <1>4, <1>5, <1>8 DEF PlacedInv, SubmitsInHand, SubmitOK
  <2> QED
    BY <2>1, <2>2 DEF SubmitsInHand
<1>11. \A i : RowsOf(i)' = RowsOf(i)
  BY <1>4, StoreType DEF RowsOf
<1>12. /\ \A i : WantedListed(i)' = WantedListed(i)
       /\ \A v \in Worker : hands'[v].fetched = hands[v].fetched
       /\ \A v \in Worker : \A i : Covers(hands[v], i) => Covers(hands[v], i)'
       /\ \A v \in Worker : FetchedListed(v)' = FetchedListed(v)
  <2>1. \A v \in Worker : hands'[v].fetched = hands[v].fetched
    BY <1>7, <1>8
  <2> QED
    BY <1>5, <2>1 DEF WantedListed, Covers, FetchedListed
\* A fresh row stays fresh: it is not written, or what is written covers what was seen.
<1>13. ASSUME NEW i \in DOMAIN past.wanted, WantedListed(i), ~past'.spoiled,
              hands[w].stamp >= asks.requested
       PROVE  (Fresh(i) => Fresh(i)') /\ (rows[k].conf = i => Fresh(i)')
  <2>1. Covers(hands[w], i)
    BY <1>1, <1>2, <1>13 DEF SyncOK
  <2>2. rows[k].conf = i => f >= past.wanted[i]
    BY <2>1 DEF Covers, f
  <2>3. rows[k].conf = i => Fresh(i)'
    <3>1. SUFFICES ASSUME rows[k].conf = i
                   PROVE  Fresh(i)'
      OBVIOUS
    <3>2. k \in RowsOf(i)'
      BY <1>11, <3>1 DEF RowsOf
    <3>3. rows'[k].synced # Unsynced /\ rows'[k].synced >= past'.wanted[i]
      BY <1>2, <1>5, <1>6, <1>13, <2>2, <3>1
    <3> QED
      BY <3>2, <3>3 DEF Fresh, Unsynced
  <2>4. ASSUME NEW j \in RowsOf(i), j # k, rows[j].synced # Unsynced, rows[j].synced >= past.wanted[i]
        PROVE  Fresh(i)'
    <3>1. j \in RowsOf(i)' /\ rows'[j] = rows[j]
      BY <1>4, <1>11, <2>4 DEF RowsOf
    <3> QED
      BY <1>5, <2>4, <3>1 DEF Fresh, Unsynced
  <2>5. k \in RowsOf(i) => rows[k].conf = i
    BY DEF RowsOf
  <2> QED
    BY <2>3, <2>4, <2>5 DEF Fresh
<1>14. SyncsInHand'
  <2>1. SyncOK(w)'
    <3>1. /\ ~past.twoSyncs => asks.last < hands[w].stamp
          /\ hands[w].stamp >= asks.requested =>
               \A i \in DOMAIN past.wanted : WantedListed(i) => Covers(hands[w], i)
          /\ \A j \in hands[w].todo :
               /\ j \in 1..Len(rows) /\ rows[j].conf \in DOMAIN hands[w].fetched
               /\ hands[w].fetched[rows[j].conf] # Unsynced
          /\ hands[w].imports \subseteq FetchedListed(w)
          /\ ~past.twoWriters => \A i \in hands[w].imports : RowsOf(i) = {}
          /\ hands[w].stamp >= asks.requested /\ ~past.spoiled /\ ~past.twoSyncs =>
               \A i \in DOMAIN past.wanted : WantedListed(i) =>
                 \/ i \in hands[w].imports
                 \/ \E j \in hands[w].todo : rows[j].conf = i
                 \/ Fresh(i)
      BY <1>1, <1>2 DEF SyncOK
    <3>2. hands'[w].fetched = hands[w].fetched /\ hands'[w].imports = hands[w].imports
          /\ hands'[w].stamp = hands[w].stamp /\ hands'[w].at = "updating"
          /\ hands'[w].todo = hands[w].todo \ {k}
      BY <1>7, <1>8
    <3>3. \A j \in hands'[w].todo :
            /\ j \in 1..Len(rows') /\ rows'[j].conf \in DOMAIN hands'[w].fetched
            /\ hands'[w].fetched[rows'[j].conf] # Unsynced
      BY <1>4, <3>1, <3>2
    <3>4. ASSUME hands[w].stamp >= asks.requested, ~past'.spoiled, ~past.twoSyncs,
                 NEW i \in DOMAIN past.wanted, WantedListed(i)
          PROVE  i \in hands[w].imports \/ (\E j \in hands'[w].todo : rows'[j].conf = i) \/ Fresh(i)'
      <4>1. CASE Fresh(i)
        BY <1>13, <3>4, <4>1
      <4>2. CASE i \in hands[w].imports
        BY <4>2
      <4>3. ASSUME NEW j \in hands[w].todo, rows[j].conf = i
            PROVE  (\E l \in hands'[w].todo : rows'[l].conf = i) \/ Fresh(i)'
        <5>1. CASE j = k
          BY <1>13, <3>4, <4>3, <5>1
        <5>2. CASE j # k
          BY <1>4, <3>1, <3>2, <4>3, <5>2
        <5> QED
          BY <5>1, <5>2
      <4> QED
        BY <1>6, <3>1, <3>4, <4>1, <4>2, <4>3
    <3>5. ASSUME hands[w].stamp >= asks.requested, NEW i \in DOMAIN past.wanted, WantedListed(i)
          PROVE  Covers(hands[w], i)'
      BY <1>12, <3>1, <3>5
    <3>6. \A i : WantedListed(i)' = WantedListed(i)
      BY <1>12
    <3>7. FetchedListed(w)' = FetchedListed(w)
      BY <1>12
    <3>8. DOMAIN past'.wanted = DOMAIN past.wanted /\ asks' = asks
      BY <1>1, <1>5
    <3> QED
      BY <1>5, <1>11, <3>1, <3>2, <3>3, <3>4, <3>5, <3>6, <3>7, <3>8 DEF SyncOK
  <2>2. ASSUME NEW v \in Worker, v # w
        PROVE  SyncOK(v)'
    <3>1. CASE hands[v].at \notin SyncsAt
      BY <1>8, <2>2, <3>1 DEF SyncOK
    <3>2. CASE hands[v].at \in SyncsAt
      <4>1. past.twoSyncs /\ SyncOK(v)
        BY <1>2, <2>2, <3>2 DEF PlacedInv, Alone, SyncsInHand
      <4>2. hands'[v] = hands[v] /\ asks' = asks /\ DOMAIN past'.wanted = DOMAIN past.wanted
        BY <1>1, <1>5, <1>8, <2>2
      <4>3. hands[v].at # "fetching" /\ hands[v].stamp >= asks.requested =>
              \A i \in DOMAIN past.wanted : WantedListed(i)' => Covers(hands[v], i)'
        BY <1>12, <3>2, <4>1 DEF SyncOK
      <4>4. hands[v].at = "updating" =>
              /\ \A j \in hands[v].todo :
                   /\ j \in 1..Len(rows') /\ rows'[j].conf \in DOMAIN hands[v].fetched
                   /\ hands[v].fetched[rows'[j].conf] # Unsynced
              /\ hands[v].imports \subseteq FetchedListed(v)'
              /\ ~past'.twoWriters => \A i \in hands[v].imports : RowsOf(i)' = {}
        <5>1. hands[v].at = "updating" =>
                /\ \A j \in hands[v].todo :
                     /\ j \in 1..Len(rows) /\ rows[j].conf \in DOMAIN hands[v].fetched
                     /\ hands[v].fetched[rows[j].conf] # Unsynced
                /\ hands[v].imports \subseteq FetchedListed(v)
                /\ ~past.twoWriters => \A i \in hands[v].imports : RowsOf(i) = {}
          BY <3>2, <4>1 DEF SyncOK
        <5> QED
          BY <1>4, <1>5, <1>11, <1>12, <5>1
      <4>5. past'.twoSyncs
        BY <1>5, <4>1
      <4> QED
        BY <4>2, <4>3, <4>4, <4>5 DEF SyncOK
    <3> QED
      BY <3>1, <3>2
  <2> QED
    BY <2>1, <2>2 DEF SyncsInHand
<1>15. Alone'
  BY <1>1, <1>2, <1>5, <1>7, <1>8 DEF PlacedInv, Alone, SyncsAt, SubmitPoints
<1>16. RowsOfSubmits' /\ RowsApart'
  BY <1>1, <1>4, <1>5 DEF PlacedInv, RowsOfSubmits, RowsApart
<1>17. WantedSeen'
  BY <1>1, <1>5 DEF PlacedInv, WantedSeen
<1>18. FreshWhenServed'
  <2>1. SUFFICES ASSUME asks.requested # 0, ~Pending, ~past'.spoiled, ~past'.twoSyncs,
                        NEW i \in DOMAIN past.wanted, past.wanted[i] # Unsynced
                 PROVE  Fresh(i)'
    BY <1>1, <1>5 DEF FreshWhenServed, Pending, Fresh
  <2>2. Fresh(i) /\ WantedListed(i)
    BY <1>5, <1>6, <2>1 DEF PlacedInv, FreshWhenServed, Fresh, WantedListed
  <2>3. hands[w].stamp >= asks.requested
    <3>1. asks.last < hands[w].stamp /\ hands[w].stamp \in Nat
      BY <1>1, <1>2, <1>5, <2>1, HandType DEF SyncOK
    <3> QED
      BY <2>1, <3>1, AsksType DEF Pending
  <2> QED
    BY <1>13, <2>1, <2>2, <2>3
<1>19. ConfirmationIsOwn'
  BY <1>1, <1>4, <1>5 DEF PlacedInv, ConfirmationIsOwn
<1> QED
  BY <1>9, <1>10, <1>14, <1>15, <1>16, <1>17, <1>18, <1>19 DEF PlacedInv

\* The clock is that of the sync's start: what the sync covers is fresh from here on.
LEMMA StampSyncStep ==
  ASSUME PlacedInv, NEW w \in Worker, StampSync(w)
  PROVE  PlacedInv'
<1>1. /\ hands[w].at = "stamping" /\ asks' = [asks EXCEPT !.last = hands[w].stamp]
      /\ Goes(w, Free) /\ UNCHANGED <<orders, rows, report, past>>
  BY DEF StampSync, Hand
<1>2. /\ asks' \in Asks /\ asks'.now = asks.now /\ asks.now \in Nat /\ hands[w].stamp \in 0..asks.now
      /\ asks'.requested = asks.requested /\ asks'.last = hands[w].stamp
  BY <1>1, AsksType DEF Asks
<1>3. hands'[w] = Free /\ \A v \in Worker : v # w => hands'[v] = hands[v]
  BY <1>1, FreeType, HandMoves
<1>4. PlacedTypeOK' /\ HandsTyped'
  <2>1. Len(Free.fetched) = 0
    BY FreeType
  <2>2. /\ orders' \in Seq(MiloOrders) /\ Len(orders') >= Len(orders) /\ Len(rows') >= Len(rows)
        /\ rows' \in Seq(Rows) /\ asks'.now >= asks.now /\ past' \in Pasts
        /\ \A k \in 1..Len(rows') : rows'[k].conf \in 1..Len(orders')
        /\ report' \in [Submit -> Reports]
    BY <1>1, <1>2, StoreType
  <2>3. /\ Free.old \subseteq 1..Len(orders') /\ Free.chosen <= Len(orders')
        /\ Free.stamp <= asks'.now /\ Len(Free.fetched) <= Len(orders')
        /\ Free.todo \subseteq 1..Len(rows') /\ Free.imports \subseteq 1..Len(orders')
    BY <1>1, <1>2, <2>1, FreeType, StoreType
  <2> QED
    BY <1>1, <1>2, <2>2, <2>3, FreeType, TypeMoves
<1>5. SubmitsInHand'
  BY <1>1, <1>3, FreeType DEF PlacedInv, SubmitsInHand, SubmitOK, SubmitPoints
<1>6. SyncsInHand'
  <2>1. SyncOK(w)'
    BY <1>3, FreeType DEF SyncOK, SyncsAt
  <2>2. ASSUME NEW v \in Worker, v # w, hands[v].at \in SyncsAt
        PROVE  past.twoSyncs /\ SyncOK(v)
    BY <1>1, <2>2 DEF PlacedInv, Alone, SyncsAt, SyncsInHand
  <2>3. \A v \in Worker : v # w => SyncOK(v)'
    BY <1>1, <1>2, <1>3, <2>2 DEF SyncOK, WantedListed, Covers, Fresh, RowsOf, FetchedListed
  <2> QED
    BY <2>1, <2>3 DEF SyncsInHand
<1>7. Alone'
  BY <1>1, <1>3, FreeType DEF PlacedInv, Alone, SubmitPoints, SyncsAt
<1>8. RowsOfSubmits' /\ RowsApart' /\ ConfirmationIsOwn'
  BY <1>1 DEF PlacedInv, RowsOfSubmits, RowsApart, ConfirmationIsOwn
<1>9. WantedSeen'
  BY <1>1, <1>2 DEF PlacedInv, WantedSeen
<1>10. FreshWhenServed'
  <2>1. SUFFICES ASSUME ~Pending', ~past.spoiled, ~past.twoSyncs,
                        NEW i \in DOMAIN past.wanted, past.wanted[i] # Unsynced
                 PROVE  Fresh(i)
    BY <1>1 DEF FreshWhenServed, Fresh, RowsOf
  <2>2. hands[w].stamp >= asks.requested
    BY <1>2, <2>1, AsksType DEF Pending
  <2> QED
    BY <1>1, <2>1, <2>2 DEF PlacedInv, SyncsInHand, SyncOK, SyncsAt, WantedListed
<1> QED
  BY <1>4, <1>5, <1>6, <1>7, <1>8, <1>9, <1>10 DEF PlacedInv
\* The rows of the imports: one for each order, in some order of them.
LEMMA ImportedType ==
  ASSUME PlacedInv, NEW w \in Worker, hands[w].at = "updating"
  PROVE  /\ Imported(w) \in Seq(Rows) /\ Len(Imported(w)) \in Nat
         /\ \A n \in 1..Len(Imported(w)) :
              /\ Imported(w)[n].by = NoSubmit /\ Imported(w)[n].conf \in hands[w].imports
              /\ Imported(w)[n].synced = hands[w].fetched[Imported(w)[n].conf]
         /\ \A m, n \in 1..Len(Imported(w)) :
              Imported(w)[m].conf = Imported(w)[n].conf => m = n
         /\ \A i \in hands[w].imports : \E n \in 1..Len(Imported(w)) : Imported(w)[n].conf = i
<1> DEFINE S == hands[w].imports
           q == SetToSeq(S)
           N == Cardinality(S)
           row(n) == [conf |-> q[n], by |-> NoSubmit, synced |-> hands[w].fetched[q[n]]]
<1>1. S \subseteq 1..Len(orders) /\ Len(orders) \in Nat
  BY StoreType DEF PlacedInv, PlacedTypeOK
<1>2. IsFiniteSet(S)
  <2>1. IsFiniteSet(1..Len(orders))
    BY <1>1, FS_Interval
  <2> HIDE DEF S
  <2> QED
    BY <1>1, <2>1, FS_Subset
<1>3. S \subseteq DOMAIN hands[w].fetched
  BY DEF PlacedInv, SyncsInHand, SyncOK, SyncsAt, FetchedListed
<1>4. /\ N \in Nat /\ q \in [1..N -> S]
      /\ \A m, n \in 1..N : q[m] = q[n] => m = n
      /\ \A x \in S : \E n \in 1..N : q[n] = x
  BY <1>2, SetToSeqOf
<1>5. Len(q) = N
  BY <1>4, LenProperties, SeqDef
<1>6. Imported(w) = [n \in 1..N |-> row(n)]
  BY <1>5 DEF Imported
<1>7. \A n \in 1..N : row(n) \in Rows
  <2>1. SUFFICES ASSUME NEW n \in 1..N
                 PROVE  row(n) \in Rows
    OBVIOUS
  <2>2. q[n] \in S /\ q[n] \in Nat
    BY <1>1, <1>4, <2>1
  <2>3. hands[w].fetched[q[n]] \in 0..Unsynced
    BY <1>3, <2>2, FetchedType
  <2> QED
    BY <2>2, <2>3 DEF Rows
<1>8. /\ \A n \in 1..N : row(n).by = NoSubmit /\ row(n).conf = q[n]
      /\ \A n \in 1..N : row(n).synced = hands[w].fetched[q[n]]
  OBVIOUS
<1> HIDE DEF S, q, N, row
<1>9. Imported(w) \in [1..N -> Rows] /\ \A n \in 1..N : Imported(w)[n] = row(n)
  BY <1>6, <1>7
<1>10. Imported(w) \in Seq(Rows) /\ Len(Imported(w)) = N
  BY <1>4, <1>9, LenProperties, SeqDef
<1>11. \A n \in 1..N : q[n] \in S
  BY <1>4
<1> QED
  BY <1>4, <1>8, <1>9, <1>10, <1>11 DEF S

LEMMA ImportRowsStep ==
  ASSUME PlacedInv, NEW w \in Worker, ImportRows(w)
  PROVE  PlacedInv'
<1> DEFINE h == [hands[w] EXCEPT !.at = "stamping"]
<1>1. /\ hands[w].at = "updating" /\ hands[w].todo = {} /\ Goes(w, h)
      /\ \/ rows' = rows \o Imported(w) /\ UNCHANGED past
         \/ UNCHANGED rows /\ past' = [past EXCEPT !.spoiled = TRUE]
      /\ UNCHANGED <<orders, asks, report>>
  BY DEF ImportRows, Hand
<1>2. /\ SyncOK(w) /\ hands[w].at \in SyncsAt /\ hands[w].at \notin SubmitPoints
  BY <1>1 DEF PlacedInv, SyncsInHand, SyncOK, SyncsAt, SubmitPoints
<1>3. /\ h \in HandRecords /\ h.at = "stamping" /\ h.todo = hands[w].todo
      /\ h.imports = hands[w].imports /\ h.submit = hands[w].submit
      /\ h.path = hands[w].path /\ h.old = hands[w].old
      /\ h.stamp = hands[w].stamp /\ h.chosen = hands[w].chosen /\ h.fetched = hands[w].fetched
  BY <1>1, HandType DEF HandRecords, HandPoints
<1> HIDE DEF h
<1>4. hands'[w] = h /\ \A v \in Worker : v # w => hands'[v] = hands[v]
  BY <1>1, <1>3, HandMoves
<1>5. /\ ~past.twoSyncs => asks.last < hands[w].stamp
      /\ hands[w].stamp >= asks.requested =>
           \A i \in DOMAIN past.wanted : WantedListed(i) => Covers(hands[w], i)
      /\ hands[w].imports \subseteq FetchedListed(w)
      /\ ~past.twoWriters => \A i \in hands[w].imports : RowsOf(i) = {}
      /\ hands[w].stamp >= asks.requested /\ ~past.spoiled /\ ~past.twoSyncs =>
           \A i \in DOMAIN past.wanted : WantedListed(i) => i \in hands[w].imports \/ Fresh(i)
  BY <1>1, <1>2 DEF SyncOK
\* What holds of the hands and the orders, however many rows were added.
<1>6. ASSUME past' \in Pasts, past'.wanted = past.wanted, past'.mixed = past.mixed,
             past'.twoWriters = past.twoWriters, past'.twoSyncs = past.twoSyncs,
             rows' \in Seq(Rows), Len(rows') >= Len(rows),
             \A k \in 1..Len(rows') : rows'[k].conf \in 1..Len(orders)
      PROVE  PlacedTypeOK' /\ HandsTyped' /\ SubmitsInHand' /\ Alone' /\ WantedSeen'
  <2>1. PlacedTypeOK' /\ HandsTyped'
    <3>1. /\ hands[w].old \subseteq 1..Len(orders) /\ hands[w].chosen \in 0..Len(orders)
          /\ hands[w].stamp \in 0..asks.now /\ Len(hands[w].fetched) <= Len(orders)
          /\ hands[w].imports \subseteq 1..Len(orders)
      BY DEF PlacedInv, PlacedTypeOK
    <3>2. /\ h.old \subseteq 1..Len(orders') /\ h.chosen <= Len(orders') /\ h.stamp <= asks'.now
          /\ Len(h.fetched) <= Len(orders') /\ h.todo \subseteq 1..Len(rows')
          /\ h.imports \subseteq 1..Len(orders')
      BY <1>1, <1>3, <3>1, StoreType
    <3>3. /\ orders' \in Seq(MiloOrders) /\ Len(orders') >= Len(orders)
          /\ asks' \in Asks /\ asks'.now >= asks.now
          /\ \A j \in 1..Len(rows') : rows'[j].conf \in 1..Len(orders')
          /\ report' \in [Submit -> Reports]
      BY <1>1, <1>6, StoreType
    <3> QED
      BY <1>1, <1>3, <1>6, <3>2, <3>3, TypeMoves
  <2>2. SubmitsInHand'
    <3>1. SubmitOK(w)'
      BY <1>3, <1>4 DEF SubmitOK, SubmitPoints
    <3>2. \A v \in Worker : v # w /\ hands[v].at \in SubmitPoints => past.twoWriters
      BY <1>1 DEF PlacedInv, Alone, SubmitPoints
    <3>3. \A v \in Worker : v # w => SubmitOK(v)'
      BY <1>1, <1>4, <1>6, <3>2 DEF PlacedInv, SubmitsInHand, SubmitOK
    <3> QED
      BY <3>1, <3>3 DEF SubmitsInHand
  <2>3. Alone'
    BY <1>1, <1>3, <1>4, <1>6 DEF PlacedInv, Alone, SyncsAt, SubmitPoints
  <2>4. WantedSeen'
    BY <1>1, <1>6 DEF PlacedInv, WantedSeen
  <2> QED
    BY <2>1, <2>2, <2>3, <2>4
<1>7. CASE UNCHANGED rows /\ past' = [past EXCEPT !.spoiled = TRUE]
  <2>1. /\ past' \in Pasts /\ past'.wanted = past.wanted /\ past'.mixed = past.mixed
        /\ past'.twoWriters = past.twoWriters /\ past'.twoSyncs = past.twoSyncs
        /\ past'.spoiled
    BY <1>7, StoreType DEF Pasts
  <2>2. PlacedTypeOK' /\ HandsTyped' /\ SubmitsInHand' /\ Alone' /\ WantedSeen'
    BY <1>6, <1>7, <2>1, StoreType
  <2>3. SyncsInHand'
    <3>1. SyncOK(w)'
      <4>1. \A i : WantedListed(i)' = WantedListed(i)
        BY <2>1 DEF WantedListed
      <4>2. \A i : Covers(hands[w], i) => Covers(hands[w], i)'
        BY <1>3, <1>4, <2>1 DEF Covers
      <4> QED
        BY <1>1, <1>3, <1>4, <1>5, <2>1, <4>1, <4>2 DEF SyncOK
    <3>2. ASSUME NEW v \in Worker, v # w
          PROVE  SyncOK(v)'
      <4>1. CASE hands[v].at \notin SyncsAt
        BY <1>4, <3>2, <4>1 DEF SyncOK
      <4>2. CASE hands[v].at \in SyncsAt
        <5>1. past.twoSyncs /\ SyncOK(v)
          BY <1>2, <3>2, <4>2 DEF PlacedInv, Alone, SyncsInHand
        <5>2. hands'[v] = hands[v] /\ asks' = asks /\ DOMAIN past'.wanted = DOMAIN past.wanted
          BY <1>1, <1>4, <2>1, <3>2
        <5>3. /\ \A i : WantedListed(i)' = WantedListed(i)
              /\ \A i : Covers(hands[v], i) => Covers(hands[v], i)'
              /\ FetchedListed(v)' = FetchedListed(v) /\ \A i : RowsOf(i)' = RowsOf(i)
          BY <1>7, <2>1, <5>2 DEF WantedListed, Covers, FetchedListed, RowsOf
        <5>4. hands[v].at # "fetching" /\ hands[v].stamp >= asks.requested =>
                \A i \in DOMAIN past.wanted : WantedListed(i)' => Covers(hands[v], i)'
          BY <4>2, <5>1, <5>3 DEF SyncOK
        <5>5. hands[v].at = "updating" =>
                /\ \A k \in hands[v].todo :
                     /\ k \in 1..Len(rows) /\ rows[k].conf \in DOMAIN hands[v].fetched
                     /\ hands[v].fetched[rows[k].conf] # Unsynced
                /\ hands[v].imports \subseteq FetchedListed(v)
                /\ ~past.twoWriters => \A i \in hands[v].imports : RowsOf(i) = {}
          BY <4>2, <5>1 DEF SyncOK
        <5> QED
          BY <1>7, <2>1, <5>1, <5>2, <5>3, <5>4, <5>5 DEF SyncOK
      <4> QED
        BY <4>1, <4>2
    <3> QED
      BY <3>1, <3>2 DEF SyncsInHand
  <2>4. RowsOfSubmits' /\ RowsApart' /\ ConfirmationIsOwn'
    BY <1>1, <1>7, <2>1 DEF PlacedInv, RowsOfSubmits, RowsApart, ConfirmationIsOwn
  <2>5. FreshWhenServed'
    BY <2>1 DEF FreshWhenServed
  <2> QED
    BY <2>2, <2>3, <2>4, <2>5 DEF PlacedInv
<1>8. CASE rows' = rows \o Imported(w) /\ UNCHANGED past
  <2> DEFINE new == Imported(w)
             L == Len(rows)
  <2>1. /\ new \in Seq(Rows) /\ Len(new) \in Nat
        /\ \A n \in 1..Len(new) :
             /\ new[n].by = NoSubmit /\ new[n].conf \in hands[w].imports
             /\ new[n].synced = hands[w].fetched[new[n].conf]
        /\ \A m, n \in 1..Len(new) : new[m].conf = new[n].conf => m = n
        /\ \A i \in hands[w].imports : \E n \in 1..Len(new) : new[n].conf = i
    BY <1>1, ImportedType
  <2> HIDE DEF new
  <2>2. /\ rows' \in Seq(Rows) /\ Len(rows') = L + Len(new) /\ L \in Nat
        /\ \A k \in 1..L : rows'[k] = rows[k]
        /\ \A k \in 1..Len(rows') : k > L => rows'[k] = new[k - L] /\ k - L \in 1..Len(new)
        /\ \A n \in 1..Len(new) : L + n \in 1..Len(rows') /\ rows'[L + n] = new[n]
    <3>1. rows' = rows \o new /\ rows \in Seq(Rows)
      BY <1>8, StoreType DEF new
    <3>2. L \in Nat /\ rows' \in Seq(Rows) /\ Len(rows') = L + Len(new)
      BY <2>1, <3>1
    <3>3. \A k \in 1..Len(rows') : rows'[k] = IF k <= L THEN rows[k] ELSE new[k - L]
      BY <2>1, <3>1, <3>2
    <3>4. \A k \in 1..L : k \in 1..Len(rows') /\ k <= L
      BY <2>1, <3>2
    <3>5. \A k \in 1..Len(rows') : k > L => ~(k <= L) /\ k - L \in 1..Len(new)
      BY <2>1, <3>2
    <3>6. \A n \in 1..Len(new) : L + n \in 1..Len(rows') /\ ~(L + n <= L) /\ (L + n) - L = n
      BY <2>1, <3>2
    <3> QED
      BY <3>2, <3>3, <3>4, <3>5, <3>6
  <2>3. Len(rows') >= L /\ \A k \in 1..Len(rows') : k \in 1..L \/ k > L
    BY <2>1, <2>2
  <2>4. hands[w].imports \subseteq 1..Len(orders)
    BY DEF PlacedInv, PlacedTypeOK
  <2>a. ASSUME NEW k \in 1..Len(rows'), k > L
        PROVE  rows'[k].conf \in hands[w].imports
    <3>1. rows'[k] = new[k - L] /\ k - L \in 1..Len(new)
      BY <2>2, <2>a
    <3>2. new[k - L].conf \in hands[w].imports
      BY <2>1, <3>1
    <3> QED
      BY <3>1, <3>2
  <2>5. \A k \in 1..Len(rows') : rows'[k].conf \in 1..Len(orders)
    <3>1. \A k \in 1..L : rows'[k].conf \in 1..Len(orders)
      BY <2>2, StoreType
    <3> QED
      BY <2>3, <2>4, <2>a, <3>1
  <2>6. PlacedTypeOK' /\ HandsTyped' /\ SubmitsInHand' /\ Alone' /\ WantedSeen'
    <3>1. past' \in Pasts
      BY <1>8, StoreType
    <3> QED
      BY <1>6, <1>8, <2>2, <2>3, <2>5, <3>1
  <2>7. (\A i : Fresh(i) => Fresh(i)') /\ FreshWhenServed'
    BY <1>1, <1>8, <2>2, <2>3, RowsGrow
  <2>8. SyncsInHand'
    <3>1. ASSUME NEW i \in hands[w].imports, Covers(hands[w], i)
          PROVE  Fresh(i)'
      <4>1. PICK n \in 1..Len(new) : new[n].conf = i
        BY <2>1
      <4>2. L + n \in RowsOf(i)' /\ rows'[L + n].synced = hands[w].fetched[i]
        BY <2>1, <2>2, <4>1 DEF RowsOf
      <4> QED
        BY <1>8, <3>1, <4>2 DEF Fresh, Covers
    <3>2. SyncOK(w)'
      <4>1. \A i : WantedListed(i)' = WantedListed(i)
        BY <1>8 DEF WantedListed
      <4>2. \A i : Covers(hands[w], i) => Covers(hands[w], i)'
        BY <1>3, <1>4, <1>8 DEF Covers
      <4>3. hands[w].stamp >= asks.requested /\ ~past.spoiled /\ ~past.twoSyncs =>
              \A i \in DOMAIN past.wanted : WantedListed(i) => Fresh(i)'
        BY <1>5, <2>7, <3>1
      <4> QED
        BY <1>1, <1>3, <1>4, <1>5, <1>8, <4>1, <4>2, <4>3 DEF SyncOK
    <3>3. \A v \in Worker : v # w => SyncOK(v)'
      BY <1>1, <1>4, <1>8, <2>2, <2>3, RowsGrowOther
    <3> QED
      BY <3>2, <3>3 DEF SyncsInHand
  <2>9. RowsOfSubmits'
    BY <1>1, <2>1, <2>2, <2>3, PlacedOrdersAssumption DEF PlacedInv, RowsOfSubmits
  <2>10. RowsApart'
    <3>1. SUFFICES ASSUME ~past.twoWriters, past.mixed = {},
                          NEW j \in 1..Len(rows'), NEW k \in 1..Len(rows'),
                          rows'[j].conf = rows'[k].conf
                   PROVE  j = k
      BY <1>8 DEF RowsApart
    <3>2. \A l \in 1..L : rows[l].conf \notin hands[w].imports
      BY <1>5, <3>1 DEF RowsOf
    <3>3. CASE j \in 1..L /\ k \in 1..L
      BY <2>2, <3>1, <3>3 DEF PlacedInv, RowsApart
    <3>4. CASE j > L /\ k > L
      <4>1. new[j - L].conf = new[k - L].conf /\ j - L \in 1..Len(new) /\ k - L \in 1..Len(new)
        BY <2>2, <3>1, <3>4
      <4>2. j - L = k - L
        BY <2>1, <4>1
      <4> QED
        BY <2>2, <4>2
    <3>6. \A l \in 1..L : rows'[l].conf \notin hands[w].imports
      BY <2>2, <3>2
    <3>7. (j > L) = (k > L)
      BY <2>3, <2>a, <3>1, <3>6
    <3> QED
      BY <2>3, <3>3, <3>4, <3>7
  <2>11. ConfirmationIsOwn'
    BY <1>1, <1>8, <2>1, <2>2, <2>3, PlacedOrdersAssumption DEF PlacedInv, ConfirmationIsOwn
  <2> QED
    BY <2>6, <2>7, <2>8, <2>9, <2>10, <2>11 DEF PlacedInv
<1> QED
  BY <1>1, <1>7, <1>8

-----------------------------------------------------------------------------
(* The theorems *)

LEMMA PlacedInvInitially ==
  ASSUME PlacedInit
  PROVE  PlacedInv
<1>1. \A w \in Worker : hands[w] = Free
  BY DEF PlacedInit
<1>2. /\ orders = <<>> /\ rows = <<>> /\ Len(orders) = 0 /\ Len(rows) = 0
      /\ orders \in Seq(MiloOrders) /\ rows \in Seq(Rows)
  BY EmptySeq DEF PlacedInit
<1>3. past \in Pasts /\ past.wanted = <<>> /\ DOMAIN past.wanted = {} /\ past.mixed = {}
  <2>1. <<>> \in Views /\ 0 \in 0..MaxTaps /\ DOMAIN <<>> = {}
    BY EmptySeq, PlacedOrdersAssumption DEF Views
  <2> QED
    BY <2>1 DEF PlacedInit, Pasts
<1>4. asks \in Asks /\ asks.now = 1 /\ asks.requested = 0 /\ asks.last = 0
  BY DEF PlacedInit, Asks
<1>5. report \in [Submit -> {"none"}]
  BY DEF PlacedInit
<1>6. PlacedTypeOK
  <2>1. DOMAIN hands = Worker
    BY DEF PlacedInit
  <2>2. /\ Free.at \in HandPoints /\ Free.submit \in Submit \cup {NoSubmit} /\ Free.fetched \in Views
        /\ Len(Free.fetched) = 0 /\ Free.path \in Paths
    BY FreeType DEF HandRecords
  <2>3. report \in [Submit -> Reports]
    BY <1>5 DEF Reports
  <2> QED
    BY <1>1, <1>2, <1>3, <1>4, <2>1, <2>2, <2>3, FreeType DEF PlacedTypeOK
<1>7. HandsTyped
  BY FreeType DEF PlacedInit, HandsTyped
<1>8. SubmitsInHand /\ SyncsInHand /\ Alone
  BY <1>1, FreeType
     DEF SubmitsInHand, SyncsInHand, Alone, SubmitOK, SyncOK, SubmitPoints, SyncsAt
<1>9. RowsOfSubmits /\ RowsApart
  BY <1>2 DEF RowsOfSubmits, RowsApart
<1>10. WantedSeen /\ FreshWhenServed
  BY <1>3, <1>4 DEF WantedSeen, FreshWhenServed
<1>11. ConfirmationIsOwn
  BY <1>2, <1>5 DEF ConfirmationIsOwn
<1> QED
  BY <1>6, <1>7, <1>8, <1>9, <1>10, <1>11 DEF PlacedInv

LEMMA PlacedInvStutters ==
  ASSUME PlacedInv, UNCHANGED placedVars
  PROVE  PlacedInv'
<1>1. UNCHANGED <<orders, rows, asks, hands, report, past>>
  BY DEF placedVars
<1>2. PlacedTypeOK' /\ HandsTyped'
  BY <1>1 DEF PlacedInv, PlacedTypeOK, HandsTyped
<1>3. SubmitsInHand'
  BY <1>1 DEF PlacedInv, SubmitsInHand, SubmitOK
<1>4. SyncsInHand'
  BY <1>1, SyncKept DEF SyncsInHand
<1>5. Alone' /\ RowsOfSubmits' /\ RowsApart' /\ WantedSeen' /\ ConfirmationIsOwn'
  BY <1>1 DEF PlacedInv, Alone, RowsOfSubmits, RowsApart, WantedSeen, ConfirmationIsOwn
<1>6. FreshWhenServed'
  BY <1>1 DEF PlacedInv, FreshWhenServed, Pending, RowsOf
<1> QED
  BY <1>2, <1>3, <1>4, <1>5, <1>6 DEF PlacedInv

LEMMA PlacedInvKept ==
  ASSUME PlacedInv, [PlacedNext]_placedVars
  PROVE  PlacedInv'
<1>1. CASE UNCHANGED placedVars
  BY <1>1, PlacedInvStutters
<1>2. CASE PlacedNext
  <2>1. CASE OrderByHand \/ TapSync
    BY <2>1, OrderByHandStep, TapSyncStep
  <2>2. ASSUME NEW i \in 1..Len(orders), OrderIsListed(i) \/ OrderIsEdited(i)
        PROVE  PlacedInv'
    BY <2>2, OrderIsListedStep, OrderIsEditedStep
  <2>3. ASSUME NEW w \in Worker, NEW s \in Submit, DispatchSubmit(w, s)
        PROVE  PlacedInv'
    BY <2>3, DispatchSubmitStep
  <2>4. ASSUME NEW w \in Worker,
               FindConfirmation(w) \/ PersistConfirmation(w) \/ SettleWithoutRow(w) \/ Abort(w)
        PROVE  PlacedInv'
    BY <2>4, FindConfirmationStep, PersistConfirmationStep, SettleWithoutRowStep, AbortStep
  <2>5. ASSUME NEW w \in Worker, StartOrderSync(w) \/ FetchOrders(w) \/ PlanSync(w)
        PROVE  PlacedInv'
    BY <2>5, StartOrderSyncStep, FetchOrdersStep, PlanSyncStep
  <2>6. ASSUME NEW w \in Worker, NEW k \in 1..Len(rows), UpdateRow(w, k)
        PROVE  PlacedInv'
    BY <2>6, UpdateRowStep
  <2>7. ASSUME NEW w \in Worker, ImportRows(w) \/ StampSync(w)
        PROVE  PlacedInv'
    BY <2>7, ImportRowsStep, StampSyncStep
  <2> QED
    BY <1>2, <2>1, <2>2, <2>3, <2>4, <2>5, <2>6, <2>7 DEF PlacedNext
<1> QED
  BY <1>1, <1>2

\* Everything the proofs rest on holds at every step: for any number of workers, submits,
\* taps, syncs and edits.
THEOREM PlacedInvAlways == PlacedSpec => []PlacedInv
BY PlacedInvInitially, PlacedInvKept, PTL DEF PlacedSpec

\* MILO's list, the rows of milo_order_confirmations and what each worker has in hand are
\* as declared.
THEOREM PlacedTypeCorrect == PlacedSpec => []PlacedTypeOK
<1>1. PlacedInv => PlacedTypeOK
  BY DEF PlacedInv
<1> QED
  BY <1>1, PlacedInvAlways, PTL

\* Once the stamp of a sync has passed the owner's tap, every order he saw listed has a row
\* that shows it as it was then or later (runMiloOrderSyncForStore, POST /orders/sync),
\* unless a write failed or two syncs ran at once.
THEOREM TapsAreServedFresh == PlacedSpec => []FreshWhenServed
<1>1. PlacedInv => FreshWhenServed
  BY DEF PlacedInv
<1> QED
  BY <1>1, PlacedInvAlways, PTL

\* An order has one row, whether its submit wrote it or a sync imported it, unless two
\* writers were at work at once (buildSyncPlan, the upsert of the confirmation).
THEOREM OrdersHaveOneRow == PlacedSpec => []OneRowPerOrder
BY OneRowImplied, PlacedInvAlways, PTL

\* A submit that is reported as confirmed by a number has an order at MILO, and its row is of
\* that order, unless another order could pass for its own: for the engine one of the last
\* three minutes (selectOrdersForSubmit), for the browser one of the day
\* (parseOrdersHistoryPage).
THEOREM ConfirmationsAreOwn == PlacedSpec => []ConfirmationIsOwn
<1>1. PlacedInv => ConfirmationIsOwn
  BY DEF PlacedInv
<1> QED
  BY <1>1, PlacedInvAlways, PTL
=============================================================================
