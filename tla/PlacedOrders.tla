----------------------------- MODULE PlacedOrders -----------------------------
(***************************************************************************)
(* The orders of one store as MILO has them and as milo_order_confirmations*)
(* has them: the rows a submit writes of its own order                     *)
(* (workers/execution-worker.js, rpa/engine/engine-orders.js,              *)
(* services/milo-order-confirmations.service.js) and the rows an order sync*)
(* updates and imports (rpa/engine/engine-order-sync.js), asked for by     *)
(* POST /orders/sync (routes/orders.routes.js).  A submit clicks in the    *)
(* browser and reads the orders page (rpa/stages/checkout.js), which is    *)
(* the default, or posts and polls the list (LK_SUBMIT_ENGINE=api).        *)
(*                                                                         *)
(* The list of orders is MILO's and external: an order shows some time     *)
(* after it was placed, and the distributor edits it later.                *)
(***************************************************************************)
EXTENDS Naturals, SequencesExt

CONSTANTS
  Worker,       \* worker processes
  Submit,       \* the store's live submits
  NoSubmit,     \* an order placed by hand, a row a sync imported, nothing in hand
  MaxHand,      \* bound: orders placed by hand
  MaxRevisions, \* bound: edits of an order
  MaxSyncs,     \* bound: syncs that are started
  MaxTaps       \* bound: taps on Sync

ASSUME PlacedOrdersAssumption ==
  /\ NoSubmit \notin Submit
  /\ MaxHand \in Nat /\ MaxRevisions \in Nat /\ MaxSyncs \in Nat /\ MaxTaps \in Nat

VARIABLES
  orders,       \* MILO: the store's orders, in the order they were placed
  rows,         \* milo_order_confirmations
  asks,         \* order_sync_requested_at, last_order_sync_at and the clock they are read from
  hands,        \* what each worker does
  report,       \* what each submit has been reported as
  past          \* what the properties compare with

placedVars == <<orders, rows, asks, hands, report, past>>

\* An order is listed when GET /users/orders has it.
MiloOrders == [by : Submit \cup {NoSubmit}, listed : BOOLEAN, edits : 0..MaxRevisions]

\* What a row says of the order conf as it is now: nothing yet, or as of some edit.
Unsynced == MaxRevisions + 1
Rows == [conf : Nat, by : Submit \cup {NoSubmit}, synced : 0..Unsynced]

\* old: the orders placed before the dispatch that its readings of the list leave out.
Free == [at |-> "idle", submit |-> NoSubmit, path |-> "none", old |-> {}, chosen |-> 0, stamp |-> 0,
         fetched |-> <<>>, todo |-> {}, imports |-> {}]

Asks == [now : Nat, requested : Nat, last : Nat]

\* The list as it is: the edits of each order, if it is listed.
View == [i \in 1..Len(orders) |-> IF orders[i].listed THEN orders[i].edits ELSE Unsynced]
Views == Seq(0..Unsynced)

\* wanted: the list when the owner tapped last; spoiled: a write of a sync failed since.
\* twoSyncs: two syncs were at work at once; twoWriters: a sync and another sync or a submit.
\* mixed: submits that ran while another order passed for theirs.
Pasts == [wanted : Views, spoiled : BOOLEAN, twoSyncs : BOOLEAN, twoWriters : BOOLEAN,
          mixed : SUBSET Submit, taps : 0..MaxTaps]

\* acknowledged: the run succeeded, and MILO's page showed no number.
Reports == {"none", "dispatched", "confirmed", "acknowledged", "unconfirmed", "failed"}

Paths == {"none", "browser", "engine"}

HandPoints == {"idle", "fetching", "reading", "updating", "stamping",
               "polling", "persisting"}

PlacedTypeOK ==
  /\ orders \in Seq(MiloOrders)
  /\ rows \in Seq(Rows)
  /\ asks \in Asks
  /\ DOMAIN hands = Worker
  /\ \A w \in Worker :
       /\ hands[w].at \in HandPoints
       /\ hands[w].submit \in Submit \cup {NoSubmit}
       /\ hands[w].path \in Paths
       /\ hands[w].old \subseteq 1..Len(orders)
       /\ hands[w].chosen \in 0..Len(orders)
       /\ hands[w].stamp \in 0..asks.now
       /\ hands[w].fetched \in Views /\ Len(hands[w].fetched) <= Len(orders)
       /\ hands[w].todo \subseteq 1..Len(rows)
       /\ hands[w].imports \subseteq 1..Len(orders)
  /\ report \in [Submit -> Reports]
  /\ past \in Pasts
  /\ \A i \in 1..Len(rows) : rows[i].conf \in 1..Len(orders)

PlacedInit ==
  /\ orders = <<>> /\ rows = <<>>
  /\ asks = [now |-> 1, requested |-> 0, last |-> 0]
  /\ hands = [w \in Worker |-> Free]
  /\ report = [s \in Submit |-> "none"]
  /\ past = [wanted |-> <<>>, spoiled |-> FALSE, twoSyncs |-> FALSE, twoWriters |-> FALSE,
             mixed |-> {}, taps |-> 0]

-----------------------------------------------------------------------------
(* MILO *)

\* An order shows on the list with the number it keeps.
Listed == {i \in 1..Len(orders) : orders[i].listed}

OrderByHand ==
  /\ Cardinality({i \in 1..Len(orders) : orders[i].by = NoSubmit}) < MaxHand
  /\ orders' = Append(orders, [by |-> NoSubmit, listed |-> TRUE, edits |-> 0])
  /\ past' = [past EXCEPT !.mixed = @ \cup ({hands[w].submit : w \in Worker} \ {NoSubmit})]
  /\ UNCHANGED <<rows, asks, hands, report>>

OrderIsListed(i) ==
  /\ ~orders[i].listed
  /\ orders' = [orders EXCEPT ![i].listed = TRUE]
  /\ UNCHANGED <<rows, asks, hands, report, past>>

OrderIsEdited(i) ==
  /\ orders[i].listed /\ orders[i].edits < MaxRevisions
  /\ orders' = [orders EXCEPT ![i].edits = @ + 1]
  /\ UNCHANGED <<rows, asks, hands, report, past>>

-----------------------------------------------------------------------------
(* A submit and the row of its order *)

Hand(w, at) == hands[w].at = at
Others(w) == {v \in Worker \ {w} : hands[v].at # "idle"}
Syncing(v) == hands[v].at # "idle" /\ hands[v].submit = NoSubmit
Goes(w, h) == hands' = [hands EXCEPT ![w] = h]

\* The orders before this one that a reading leaves out.  selectOrdersForSubmit takes what
\* was placed no more than 180 s (skewMs) before the POST; parseOrdersHistoryPage takes what
\* was placed on the day of the click, and whatever has a date it cannot read.
LeavesOut(path, earlier) ==
  IF path = "engine" THEN {1..n : n \in 0..Len(orders)} ELSE SUBSET earlier

\* The Checkout click or the POST is dispatched; the order is placed, or it is not.  A submit
\* whose run was given up may still be at work.
DispatchSubmit(w, s) ==
  LET earlier == 1..Len(orders)
  IN /\ Hand(w, "idle") /\ report[s] = "none"
     /\ report' = [report EXCEPT ![s] = "dispatched"]
     /\ \/ orders' = Append(orders, [by |-> s, listed |-> FALSE, edits |-> 0])
        \/ UNCHANGED orders
     /\ \E path \in {"browser", "engine"} : \E old \in LeavesOut(path, earlier) :
          /\ Goes(w, [Free EXCEPT !.at = "polling", !.submit = s, !.path = path, !.old = old])
          /\ past' = [past EXCEPT !.twoWriters = @ \/ Others(w) # {},
                                  !.mixed = @ \cup {x \in {s} : old # earlier}
                                              \cup ({hands[v].submit : v \in Worker} \ {NoSubmit})]
     /\ UNCHANGED <<rows, asks>>

\* Every order on the list, however old.
AllListed(w) == Listed

\* selectOrdersForSubmit, parseOrdersHistoryPage: the listed orders that are recent enough.
Candidates(w) == Listed \ hands[w].old

\* The engine takes the most recent, the browser the first on the page.
FirstOf(w) == IF hands[w].path = "engine" THEN {Max(Candidates(w))} ELSE Candidates(w)

\* A poll of the engine, or one of the browser's readings of the page: after MILO's thanks, as
\* the backstop of a wait that timed out, or the second chance of the worker.
FindConfirmation(w) ==
  /\ Hand(w, "polling") /\ Candidates(w) # {}
  /\ \E i \in FirstOf(w) :
       Goes(w, [hands[w] EXCEPT !.at = "persisting", !.chosen = i])
  /\ UNCHANGED <<orders, rows, asks, report, past>>

\* The row of the run and its distributor is inserted or overwritten; when the write fails
\* the run is a success all the same.
UpsertRow(w) ==
  LET own == {i \in 1..Len(rows) : rows[i].by = hands[w].submit}
      row == [conf |-> hands[w].chosen, by |-> hands[w].submit, synced |-> Unsynced]
  IN rows' = IF own = {} THEN Append(rows, row)
             ELSE [rows EXCEPT ![Min(own)] = [row EXCEPT !.synced = rows[Min(own)].synced]]

PersistConfirmation(w) ==
  /\ Hand(w, "persisting")
  /\ \/ UpsertRow(w)
     \/ UNCHANGED rows
  /\ report' = [report EXCEPT ![hands[w].submit] = "confirmed"]
  /\ Goes(w, Free)
  /\ UNCHANGED <<orders, asks, past>>

\* What a submit is reported as when it takes no order of the list for its own.  The number
\* that the POST answered with, or that MILO's page of the confirmation shows, confirms the
\* order without a row.  In the browser a toast without a word of failure, or the orders
\* page, is enough for a success without a number, and a toast of an error for a failure.
\* The polls and the readings may find nothing.
SettlesAs(w) ==
  {"unconfirmed"}
    \cup {x \in {"confirmed"} : \E i \in 1..Len(orders) : orders[i].by = hands[w].submit}
    \cup {x \in {"acknowledged", "failed"} : hands[w].path = "browser"}

SettleWithoutRow(w) ==
  /\ Hand(w, "polling")
  /\ \E outcome \in SettlesAs(w) :
       report' = [report EXCEPT ![hands[w].submit] = outcome]
  /\ Goes(w, Free)
  /\ UNCHANGED <<orders, rows, asks, past>>

-----------------------------------------------------------------------------
(* A sync *)

Pending == asks.requested > asks.last

\* POST /orders/sync.
TapSync ==
  /\ past.taps < MaxTaps
  /\ asks' = [asks EXCEPT !.now = @ + 1, !.requested = asks.now + 1]
  /\ past' = [past EXCEPT !.taps = @ + 1, !.spoiled = FALSE,
                          !.wanted = View]
  /\ UNCHANGED <<orders, rows, hands, report>>

\* runMiloOrderSyncForStore takes the time before it does anything else.
StartOrderSync(w) ==
  /\ Hand(w, "idle") /\ asks.now - past.taps <= MaxSyncs
  /\ asks' = [asks EXCEPT !.now = @ + 1]
  /\ Goes(w, [Free EXCEPT !.at = "fetching", !.stamp = asks.now + 1])
  /\ past' = [past EXCEPT !.twoWriters = @ \/ Others(w) # {},
                          !.twoSyncs = @ \/ \E v \in Others(w) : Syncing(v)]
  /\ UNCHANGED <<orders, rows, report>>

FetchOrders(w) ==
  /\ Hand(w, "fetching")
  /\ Goes(w, [hands[w] EXCEPT !.at = "reading", !.fetched = View])
  /\ UNCHANGED <<orders, rows, asks, report, past>>

\* buildSyncPlan: the first row with the confirmation number is updated, the orders that
\* have none are imported.
FetchedListed(w) == {i \in DOMAIN hands[w].fetched : hands[w].fetched[i] # Unsynced}
RowsOf(conf) == {k \in 1..Len(rows) : rows[k].conf = conf}

\* Orders known by imported rows only.
KnownImports(w) == {i \in FetchedListed(w) : \E k \in RowsOf(i) : rows[k].by = NoSubmit}

Known(w) == {i \in FetchedListed(w) : RowsOf(i) # {}}
FirstRows(confs) == {Min(RowsOf(i)) : i \in confs}

PlanSync(w) ==
  /\ Hand(w, "reading")
  /\ Goes(w, [hands[w] EXCEPT !.at = "updating",
                              !.todo = FirstRows(Known(w)),
                              !.imports = FetchedListed(w) \ Known(w)])
  /\ UNCHANGED <<orders, rows, asks, report, past>>

\* One UPDATE for each row; one that fails is counted, and the sync goes on.
UpdateRow(w, k) ==
  /\ Hand(w, "updating") /\ k \in hands[w].todo
  /\ \/ rows' = [rows EXCEPT ![k].synced = hands[w].fetched[rows[k].conf]] /\ UNCHANGED past
     \/ UNCHANGED rows /\ past' = [past EXCEPT !.spoiled = TRUE]
  /\ Goes(w, [hands[w] EXCEPT !.todo = @ \ {k}])
  /\ UNCHANGED <<orders, asks, report>>

\* One INSERT for all imports, which fails as a whole.
Imported(w) ==
  LET confs == SetToSeq(hands[w].imports)
  IN [n \in 1..Len(confs) |-> [conf |-> confs[n], by |-> NoSubmit,
                               synced |-> hands[w].fetched[confs[n]]]]

ImportRows(w) ==
  /\ Hand(w, "updating") /\ hands[w].todo = {}
  /\ \/ rows' = rows \o Imported(w) /\ UNCHANGED past
     \/ /\ hands[w].imports # {}
        /\ UNCHANGED rows /\ past' = [past EXCEPT !.spoiled = TRUE]
  /\ Goes(w, [hands[w] EXCEPT !.at = "stamping"])
  /\ UNCHANGED <<orders, asks, report>>

\* The time the sync ends at.
StampAtEnd(w) ==
  /\ Hand(w, "stamping")
  /\ asks' = [asks EXCEPT !.last = asks.now]
  /\ Goes(w, Free)
  /\ UNCHANGED <<orders, rows, report, past>>

\* last_order_sync_at becomes the time the sync started, whatever failed since.
StampSync(w) ==
  /\ Hand(w, "stamping")
  /\ asks' = [asks EXCEPT !.last = hands[w].stamp]
  /\ Goes(w, Free)
  /\ UNCHANGED <<orders, rows, report, past>>

\* The list or the rows cannot be read, the stamp is not written, or the process is gone;
\* a submit it was at stays without a confirmation.
Abort(w) ==
  /\ ~Hand(w, "idle")
  /\ Goes(w, Free)
  /\ report' = [s \in Submit |-> IF s = hands[w].submit THEN "unconfirmed" ELSE report[s]]
  /\ UNCHANGED <<orders, rows, asks, past>>

PlacedNext ==
  \/ OrderByHand \/ TapSync
  \/ \E i \in 1..Len(orders) : OrderIsListed(i) \/ OrderIsEdited(i)
  \/ \E w \in Worker :
       \/ \E s \in Submit : DispatchSubmit(w, s)
       \/ FindConfirmation(w) \/ PersistConfirmation(w) \/ SettleWithoutRow(w)
       \/ StartOrderSync(w) \/ FetchOrders(w) \/ PlanSync(w)
       \/ \E k \in 1..Len(rows) : UpdateRow(w, k)
       \/ ImportRows(w) \/ StampSync(w) \/ Abort(w)

PlacedSpec == PlacedInit /\ [][PlacedNext]_placedVars

-----------------------------------------------------------------------------
(* Properties *)

\* Once a tap is no longer pending, every order MILO listed when the owner tapped has a row
\* that shows it as it was then or later, even when the tap came while a sync was running
\* (POST /orders/sync, the stamp of runMiloOrderSyncForStore).  Where it may not: a write
\* of a row failed, which the stamp ignores, or two syncs ran at once.
FreshWhenServed ==
  asks.requested # 0 /\ ~Pending /\ ~past.spoiled /\ ~past.twoSyncs =>
    \A i \in DOMAIN past.wanted :
      past.wanted[i] # Unsynced =>
        \E k \in RowsOf(i) : rows[k].synced # Unsynced /\ rows[k].synced >= past.wanted[i]

\* No order has two rows (the import of buildSyncPlan, the upsert of a submit), unless two
\* writers were at work at once, of which neither saw the other's row, or a submit could take
\* another order for its own.
OneRowPerOrder ==
  ~past.twoWriters /\ past.mixed = {} =>
    \A i \in 1..Len(orders) : Cardinality(RowsOf(i)) <= 1

\* A submit is reported as confirmed by a number only when MILO has its order, and its row is
\* of that order, unless another order passed for its own: one placed while the submit was at
\* work, or before it within three minutes (selectOrdersForSubmit); in the browser one of the
\* same day or without a date that can be read (parseOrdersHistoryPage, its backstop and the
\* second chance of the worker).
ConfirmationIsOwn ==
  /\ \A s \in Submit \ past.mixed :
       report[s] = "confirmed" => \E i \in 1..Len(orders) : orders[i].by = s
  /\ \A k \in 1..Len(rows) :
       rows[k].by \in Submit \ past.mixed => orders[rows[k].conf].by = rows[k].by
=============================================================================
