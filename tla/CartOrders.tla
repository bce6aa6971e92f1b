------------------------------ MODULE CartOrders ------------------------------
(***************************************************************************)
(* From the lines on a phone to a row of execution_runs, for one store:    *)
(* the cart routes (routes/cart.routes.js, routes/cart-lifecycle.routes.js)*)
(* and createExecutionRunFromCart (services/execution-run.service.js).     *)
(*                                                                         *)
(* A caller is a request, or a request and the one its client sends next   *)
(* with the cart id it got.  Each is a sequence of database statements     *)
(* without a transaction, so it is split at every await.  A statement that *)
(* answers with an error may have been executed: the client of the         *)
(* database aborts a call after 15 seconds.                                *)
(***************************************************************************)
EXTENDS Naturals, Sequences

CONSTANTS
  Bottle,       \* bottles of the store
  MaxQty,       \* bound: quantity of a bottle in a cart
  Caller,       \* requests served at the same time
  Wanted,       \* contents of the phones' carts
  Legal,        \* contents that pass the MLCC ordering rules
  Uncoded,      \* bottles without an mlcc_code: they cannot be hashed
  MaxCarts,     \* bound: carts created
  MaxEdits      \* bound: requests to the single-item routes and /submit

Lines == [Bottle -> 0..MaxQty]
NoLines == [b \in Bottle |-> 0]
Filled(lines) == {b \in Bottle : lines[b] > 0}

ASSUME CartAssumption ==
  /\ MaxQty \in Nat \ {0}
  /\ Wanted \subseteq Lines \ {NoLines}
  /\ Legal \subseteq Lines
  /\ Uncoded \subseteq Bottle
  /\ MaxCarts \in Nat
  /\ MaxEdits \in Nat

VARIABLES
  carts,        \* carts with their cart_items, in the order of created_at
  runs,         \* execution_runs that are queued or running; no other is looked at
  callers,      \* where each request is, and what it holds
  edits         \* requests to the single-item routes and /submit so far

vars == <<carts, runs, callers, edits>>

-----------------------------------------------------------------------------
(* Rows *)

MODES == {"validate_only", "rpa_run"}

\* carts.status is active (open) or submitted; of validation_status the code only asks
\* whether it is validated.
Carts == [open : BOOLEAN, validated : BOOLEAN, lines : Lines]

\* lines is payload_snapshot.items.
Runs == [run_type : MODES, cart : 1..MaxCarts, lines : Lines]

\* What a request awaits, in the order of the code.
SyncPoints == {"reading", "clearing", "filling", "restoring"}
RunPoints == {"looking", "flagging", "judging", "passing", "failing",
              "building", "matching", "placing", "losing"}
Points == {"idle", "finding", "creating", "synced"}
            \cup SyncPoints \cup RunPoints

Callers ==
  [at : Points,
   does : {"none", "sync"} \cup MODES,
   lines : Lines,               \* what the phone shows
   cart : 0..MaxCarts,          \* the cart it works on
   seen : Lines,                \* cart_items as it has read them
   answer : Lines,              \* lines of the run it was answered with
   alone : BOOLEAN]             \* history: no other request was in progress since its sync

Idle == [at |-> "idle", does |-> "none", lines |-> NoLines, cart |-> 0,
         seen |-> NoLines, answer |-> NoLines, alone |-> FALSE]

HasCart(s) == s.at \notin {"idle", "finding", "creating"}

\* The type invariant: rows and requests are well-formed, a request has a cart exactly
\* from the statement that returned it, and every run has a cart that exists.
CartTypeOK ==
  /\ carts \in Seq(Carts) /\ Len(carts) <= MaxCarts
  /\ runs \in SUBSET Runs
  /\ callers \in [Caller -> Callers]
  /\ edits \in 0..MaxEdits
  /\ \A c \in Caller :
       /\ HasCart(callers[c]) <=> callers[c].cart \in DOMAIN carts
       /\ callers[c].at \in RunPoints => callers[c].does \in MODES
  /\ \A r \in runs : r.cart \in DOMAIN carts

Init ==
  /\ carts = <<>>
  /\ runs = {}
  /\ callers = [c \in Caller |-> Idle]
  /\ edits = 0

-----------------------------------------------------------------------------
(* Requests *)

Cart(c) == carts[callers[c].cart]
Moves(c, point) == callers' = [callers EXCEPT ![c].at = point]

\* The request is over and its client has nothing to go on with.
Leaves(c) == callers' = [callers EXCEPT ![c] = Idle]

\* The request from-cart is over without a run; the client still knows the cart.
Fails(c) ==
  callers' = [callers EXCEPT ![c].at = "synced", ![c].does = "sync", ![c].seen = NoLines]

Refused(c) == IF callers[c].does \in MODES THEN Fails(c) ELSE Leaves(c)

\* A write that succeeds, or that is executed although its answer is an error.
ThenOrRefused(c, point) == Moves(c, point) \/ Refused(c)

\* A request ends with an error, or its machine restarts, at any await.
Drops(c) ==
  /\ callers[c].at \notin {"idle", "synced"}
  /\ Refused(c)
  /\ UNCHANGED <<carts, runs, edits>>

-----------------------------------------------------------------------------
(* The active cart *)

OpenCarts == {k \in DOMAIN carts : carts[k].open}
Newest(k) == \A j \in OpenCarts : j <= k
Writes(c, lines) == carts' = [carts EXCEPT ![callers[c].cart].lines = lines]

\* Any request in progress, or a phone between its sync and its run, disturbs others.
StartSync(c, lines) ==
  /\ callers[c].at = "idle"
  /\ callers' =
       [d \in Caller |->
          IF d = c
            THEN [Idle EXCEPT !.at = "finding", !.does = "sync", !.lines = lines,
                              !.alone = \A e \in Caller : callers[e].at = "idle"]
            ELSE [callers[d] EXCEPT !.alone = FALSE]]
  /\ UNCHANGED <<carts, runs, edits>>

Find(c) ==
  /\ callers[c].at = "finding"
  /\ \/ OpenCarts = {} /\ Moves(c, "creating")
     \/ \E k \in OpenCarts :
          /\ Newest(k)
          /\ callers' = [callers EXCEPT ![c].at = "reading", ![c].cart = k]
  /\ UNCHANGED <<carts, runs, edits>>

NewCart == [open |-> TRUE, validated |-> FALSE, lines |-> NoLines]

\* Two requests that find no active cart make two.
CreateCart(c) ==
  /\ callers[c].at = "creating"
  /\ Len(carts) < MaxCarts
  /\ carts' = Append(carts, NewCart)
  /\ \/ callers' = [callers EXCEPT ![c].at = "reading", ![c].cart = Len(carts) + 1]
     \/ Leaves(c)
  /\ UNCHANGED <<runs, edits>>

-----------------------------------------------------------------------------
(* POST /items/bulk: replace the lines of the active cart *)

ReadPrevious(c) ==
  /\ callers[c].at = "reading"
  /\ callers' = [callers EXCEPT ![c].at = "clearing", ![c].seen = Cart(c).lines]
  /\ UNCHANGED <<carts, runs, edits>>

\* Mutant: the lines are written over the old ones.
ClearNothing(c) ==
  /\ callers[c].at = "clearing"
  /\ ThenOrRefused(c, "filling")
  /\ UNCHANGED <<carts, runs, edits>>

Clear(c) ==
  /\ callers[c].at = "clearing"
  /\ Writes(c, NoLines)
  /\ ThenOrRefused(c, "filling")
  /\ UNCHANGED <<runs, edits>>

\* cart_items_cart_bottle_unique: a batch with a bottle the cart has is refused whole.
Fits(lines, more) == Filled(lines) \cap Filled(more) = {}
With(lines, more) == [b \in Bottle |-> IF more[b] > 0 THEN more[b] ELSE lines[b]]

FallBack(c) ==
  IF callers[c].seen = NoLines THEN Leaves(c) ELSE Moves(c, "restoring")

Fill(c) ==
  /\ callers[c].at = "filling"
  /\ \/ /\ Fits(Cart(c).lines, callers[c].lines)
        /\ Writes(c, With(Cart(c).lines, callers[c].lines))
        /\ \/ callers' = [callers EXCEPT ![c].at = "synced", ![c].seen = NoLines]
           \/ FallBack(c)
     \/ FallBack(c) /\ UNCHANGED carts
  /\ UNCHANGED <<runs, edits>>

Restore(c) ==
  /\ callers[c].at = "restoring"
  /\ Fits(Cart(c).lines, callers[c].seen)
  /\ Writes(c, With(Cart(c).lines, callers[c].seen))
  /\ Leaves(c)
  /\ UNCHANGED <<runs, edits>>

-----------------------------------------------------------------------------
(* The other routes of the cart.  A request finds the newest active cart, or names an
   item of any cart, and then writes without looking at the cart's status again.
   Every cart has been the newest active one, when it was created, so the write may
   come to any cart, and a step here is the write.                              *)

Edits ==
  /\ edits < MaxEdits
  /\ edits' = edits + 1
  /\ callers' = [c \in Caller |-> [callers[c] EXCEPT !.alone = FALSE]]
  /\ UNCHANGED runs

\* POST /items finds no active cart.
OpenCart ==
  /\ Edits
  /\ Len(carts) < MaxCarts
  /\ carts' = Append(carts, NewCart)

\* POST /items: add_cart_item inserts or increments in one statement.
AddItem(k, b) ==
  /\ Edits
  /\ carts[k].lines[b] < MaxQty
  /\ carts' = [carts EXCEPT ![k].lines[b] = @ + 1]

\* PATCH and DELETE /items/:itemId
EditItem(k, b, quantity) ==
  /\ Edits
  /\ carts[k].lines[b] > 0
  /\ carts' = [carts EXCEPT ![k].lines[b] = quantity]

\* DELETE /items
EmptyCart(k) ==
  /\ Edits
  /\ carts' = [carts EXCEPT ![k].lines = NoLines]

\* POST /submit counts the items first.  A cart that is emptied between the count
\* and this step is as one that is emptied after it.
SubmitCart(k) ==
  /\ Edits
  /\ carts[k].lines # NoLines
  /\ carts' = [carts EXCEPT ![k].open = FALSE]

-----------------------------------------------------------------------------
(* createExecutionRunFromCart: closing and judging the cart *)

\* The client that got a cart id asks for a run of it.
Trigger(c, mode) ==
  /\ callers[c].at = "synced"
  /\ callers' = [callers EXCEPT ![c].at = "looking", ![c].does = mode,
                                ![c].seen = NoLines, ![c].answer = NoLines]
  /\ UNCHANGED <<carts, runs, edits>>

\* fetchWithRetry: after 15 seconds the client asks again while c is still served.
TriggerAgain(c, d) ==
  /\ callers[c].at \in RunPoints
  /\ callers[d].at = "idle"
  /\ callers' = [callers EXCEPT ![d] = [callers[c] EXCEPT !.at = "looking",
                                                          !.seen = NoLines]]
  /\ UNCHANGED <<carts, runs, edits>>

ClientLeaves(c) ==
  /\ callers[c].at = "synced"
  /\ Leaves(c)
  /\ UNCHANGED <<carts, runs, edits>>

\* The lookup and the UPDATE that closes an active cart are one step: the UPDATE has
\* the status in its WHERE clause.
CloseCart(c) ==
  /\ callers[c].at = "looking"
  /\ carts' = [carts EXCEPT ![callers[c].cart].open = FALSE]
  /\ ThenOrRefused(c, "flagging")
  /\ UNCHANGED <<runs, edits>>

\* A cart that is validated already is not judged again.
ReadFlag(c) ==
  /\ callers[c].at = "flagging"
  /\ Moves(c, IF Cart(c).validated THEN "building" ELSE "judging")
  /\ UNCHANGED <<carts, runs, edits>>

\* Mutant: the rule engine's answer is taken for its verdict.
AnsweredIsPassed(lines) == {"passing", "failing"}

\* The rule engine may also fail itself, which counts against the cart.
Verdicts(lines) == IF lines \in Legal THEN {"passing", "failing"} ELSE {"failing"}

Judge(c) ==
  /\ callers[c].at = "judging"
  /\ IF Cart(c).lines = NoLines
       THEN Fails(c)
       ELSE \E point \in Verdicts(Cart(c).lines) : Moves(c, point)
  /\ UNCHANGED <<carts, runs, edits>>

RecordPass(c) ==
  /\ callers[c].at = "passing"
  /\ carts' = [carts EXCEPT ![callers[c].cart].validated = TRUE]
  /\ ThenOrRefused(c, "building")
  /\ UNCHANGED <<runs, edits>>

RecordFail(c) ==
  /\ callers[c].at = "failing"
  /\ carts' = [carts EXCEPT ![callers[c].cart].validated = FALSE]
  /\ Fails(c)
  /\ UNCHANGED <<runs, edits>>

-----------------------------------------------------------------------------
(* createExecutionRunFromCart: the snapshot and the run *)

\* computeCartLinesHash is null when a line has no code.
Hashable(lines) == Filled(lines) \cap Uncoded = {}

\* The status columns and the items are read one after the other; nothing reopens a
\* cart, and a verdict given in between is one given after both.
BuildPayload(c) ==
  LET next == IF callers[c].does = "validate_only" /\ Hashable(Cart(c).lines)
                THEN "matching" ELSE "placing"
  IN /\ callers[c].at = "building"
     /\ IF ~Cart(c).open /\ Cart(c).validated /\ Cart(c).lines # NoLines
          THEN callers' = [callers EXCEPT ![c].at = next, ![c].seen = Cart(c).lines]
          ELSE Fails(c)
     /\ UNCHANGED <<carts, runs, edits>>

\* Mutant: any validation in flight will do.
AnyValidation(lines) == {r \in runs : r.run_type = "validate_only"}

\* Active validations with the lines' cart_lines_hash, which is null (and equals
\* nothing) where it cannot be computed.
Twins(lines) ==
  {r \in runs : r.run_type = "validate_only" /\ r.lines = lines /\ Hashable(lines)}

Answers(c, r) ==
  callers' = [callers EXCEPT ![c].at = "synced", ![c].does = "sync",
                             ![c].answer = r.lines]

\* The lookup that fails lets the run be created.
MatchTwin(c) ==
  /\ callers[c].at = "matching"
  /\ \/ \E r \in Twins(callers[c].seen) : Answers(c, r)
     \/ Moves(c, "placing")
  /\ UNCHANGED <<carts, runs, edits>>

CartBusy(k) == \E r \in runs : r.cart = k

\* Mutant: execution_runs_validate_dedupe_idx is missing.
NoDedupeIndex(r) == FALSE

\* execution_runs_validate_dedupe_idx refuses the row.
Duplicate(r) == r.run_type = "validate_only" /\ Twins(r.lines) # {}

\* The lookup of an active run of the cart is decided by the index behind it,
\* execution_runs_one_active_per_cart_idx, which is the older and reported first.
InsertRun(c) ==
  LET s == callers[c]
      new == [run_type |-> s.does, cart |-> s.cart, lines |-> s.seen]
  IN /\ s.at = "placing"
     /\ \/ CartBusy(s.cart) /\ Fails(c) /\ UNCHANGED runs
        \/ ~CartBusy(s.cart) /\ Duplicate(new) /\ Moves(c, "losing") /\ UNCHANGED runs
        \/ /\ ~CartBusy(s.cart) /\ ~Duplicate(new)
           /\ runs' = runs \cup {new}
           /\ Answers(c, new) \/ Fails(c)
     /\ UNCHANGED <<carts, edits>>

\* The winner may have finished since.
FindWinner(c) ==
  /\ callers[c].at = "losing"
  /\ \/ Twins(callers[c].seen) = {} /\ Fails(c)
     \/ \E r \in Twins(callers[c].seen) : Answers(c, r)
  /\ UNCHANGED <<carts, runs, edits>>

\* A worker, the reaper or an operator finishes a run (module ExecutionRuns).
RunEnds(r) ==
  /\ runs' = runs \ {r}
  /\ UNCHANGED <<carts, callers, edits>>

-----------------------------------------------------------------------------
SyncStep(c) ==
  \/ \E lines \in Wanted : StartSync(c, lines)
  \/ Find(c) \/ CreateCart(c)
  \/ ReadPrevious(c) \/ Clear(c) \/ Fill(c) \/ Restore(c)

JudgeStep(c) ==
  \/ CloseCart(c) \/ ReadFlag(c) \/ Judge(c)
  \/ RecordPass(c) \/ RecordFail(c)

RunStep(c) ==
  \/ BuildPayload(c) \/ MatchTwin(c) \/ InsertRun(c) \/ FindWinner(c)

EditStep ==
  \/ OpenCart
  \/ \E k \in DOMAIN carts : EmptyCart(k) \/ SubmitCart(k)
  \/ \E k \in DOMAIN carts, b \in Bottle : AddItem(k, b)
  \/ \E k \in DOMAIN carts, b \in Bottle, quantity \in 0..MaxQty :
       EditItem(k, b, quantity)

ClientStep(c) ==
  \/ \E mode \in MODES : Trigger(c, mode)
  \/ \E d \in Caller : TriggerAgain(c, d)
  \/ ClientLeaves(c)
  \/ Drops(c)

Next ==
  \/ \E c \in Caller :
       SyncStep(c) \/ JudgeStep(c) \/ RunStep(c) \/ ClientStep(c)
  \/ EditStep
  \/ \E r \in runs : RunEnds(r)

Spec == Init /\ [][Next]_vars

-----------------------------------------------------------------------------
(* Properties *)

\* Two checks of the same lines are the same check: however two requests race past
\* the lookup, one content has one active validation (the 7/9 order day made four).
OneValidationPerContent ==
  \A q, r \in runs :
    /\ q.run_type = "validate_only" /\ r.run_type = "validate_only"
    /\ q.lines = r.lines /\ Hashable(r.lines)
    => q = r

\* A wrongly merged check would be a lie: the run a client is answered with was made
\* of the lines its request read, whether created, found, or won by another.
AnswersSpeakOfTheSnapshot ==
  \A c \in Caller : callers[c].answer # NoLines => callers[c].answer = callers[c].seen

\* The INSERT of a run is what a request does next.
Orders(c) == callers[c].at = "placing"

\* What earlier requests left in the active cart (a failed sync, a restore that
\* answered with an error, a cart never ordered) gets into no later run: a phone that
\* meets no other request orders exactly its lines.
ExactWhenAlone ==
  \A c \in Caller : Orders(c) /\ callers[c].alone => callers[c].seen = callers[c].lines

\* The server's rule check is of the lines that are ordered, though the flag is kept
\* on the cart and read again by a second request for the same cart.
LegalWhenAlone ==
  \A c \in Caller : Orders(c) /\ callers[c].alone => callers[c].seen \in Legal

\* What cart.routes.js says of the bulk sync ("clear then insert exactly these lines"):
\* the lines that are ordered are those of one phone, never a mixture of two.
LinesOfOnePhone == \A c \in Caller : Orders(c) => callers[c].seen \in Wanted
=============================================================================
