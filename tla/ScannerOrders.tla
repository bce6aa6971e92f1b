---------------------------- MODULE ScannerOrders ----------------------------
(***************************************************************************)
(* Check, see, place: how one phone comes to send an order (apps/scanner). *)
(* The cart (hooks/useCart.ts) is checked in the background                *)
(* (hooks/useBackgroundPreValidate.ts) and by taps on Check and Place      *)
(* (components/CartDrawer.tsx, hooks/useSubmission.ts); one run is tracked *)
(* and its result remembered (hooks/useActiveOrder.tsx); a green check     *)
(* unlocks Place for the cart it was made of (lib/place-gate.ts).          *)
(*                                                                         *)
(* A call is a bulk sync and the request for a run that follows it, with   *)
(* the cart they go through on the server.  The server is CartOrders seen  *)
(* from the phone: a request is one step, or is refused.                   *)
(***************************************************************************)
EXTENDS Naturals, FiniteSets

CONSTANTS
  Content,      \* carts the owner may have on screen, as hashCart tells them apart
  NoContent,    \* the empty cart, whose hash is ""
  Run,          \* bound: runs the phone starts
  NoRun,
  Call,         \* bound: calls at a time
  MaxTurns      \* bound: edits, dismissals, closings, reloads and lost answers

ASSUME ScannerAssumption ==
  /\ NoContent \notin Content
  /\ NoRun \notin Run
  /\ MaxTurns \in Nat

VARIABLES
  items,        \* the cart on screen, which localStorage keeps
  due,          \* the background check's debounce timer is set
  cache,        \* result of the last background check
  calls,        \* calls in progress
  asking,       \* the confirmation of Place is on screen
  tracked,      \* lk.activeOrder.v1, and whether its result has come
  green,        \* lk.lastGreenCheck.v1
  started,      \* execution_runs of this phone
  turns         \* how often its owner, or the network, has interfered

scannerVars == <<items, due, cache, calls, asking, tracked, green, started, turns>>

\* sure is history: nothing came in between.  Of a call: no other call was at the
\* server together with it.  Of the confirmation: the cart did not change under it.
Checked == [lines : Content \cup {NoContent}, run : Run \cup {NoRun}, sure : BOOLEAN]
Unchecked == [lines |-> NoContent, run |-> NoRun, sure |-> FALSE]

\* heard: someone waits for the call's end.  own: the page that began it is still open,
\* so that its drawer is busy (isFiring) or the background check finds it (inFlightRef).
\* holds, open, taken: its cart on the server, whether that is the active one, and the
\* run made of it.
CallPoints == {"idle", "syncing", "triggering", "polling"}
Calls ==
  [at : CallPoints, does : {"none", "background", "check", "place"},
   lines : Content \cup {NoContent}, heard : BOOLEAN, own : BOOLEAN, sure : BOOLEAN,
   holds : Content \cup {NoContent}, open : BOOLEAN, taken : Run \cup {NoRun}]
NoCall ==
  [at |-> "idle", does |-> "none", lines |-> NoContent, heard |-> FALSE, own |-> FALSE,
   sure |-> FALSE, holds |-> NoContent, open |-> FALSE, taken |-> NoRun]

Trackings == [run : Run \cup {NoRun}, does : {"none", "check", "place"},
              lines : Content \cup {NoContent}, sure : BOOLEAN, landed : BOOLEAN]
Untracked == [run |-> NoRun, does |-> "none", lines |-> NoContent, sure |-> FALSE,
              landed |-> FALSE]

\* let is history: the phone has let go of the run (see OrdersAreWatched).
Started == [does : {"none", "check", "place"}, lines : Content \cup {NoContent},
            status : {"none", "active", "green", "red", "placed"},
            sure : BOOLEAN, let : BOOLEAN]
NotStarted == [does |-> "none", lines |-> NoContent, status |-> "none", sure |-> FALSE,
               let |-> FALSE]

\* The type invariant.  What has begun has lines, and what is polled,
\* cached or tracked is a run.
ScannerTypeOK ==
  /\ items \in Content \cup {NoContent}
  /\ due \in BOOLEAN
  /\ cache \in Checked
  /\ calls \in [Call -> Calls]
  /\ asking \in [open : BOOLEAN, sure : BOOLEAN]
  /\ tracked \in Trackings
  /\ green \in [lines : Content \cup {NoContent}, sure : BOOLEAN]
  /\ started \in [Run -> Started]
  /\ turns \in 0..MaxTurns
  /\ \A c \in Call :
       /\ calls[c].at # "idle" => calls[c].lines \in Content
       /\ calls[c].at = "polling" => calls[c].taken \in Run
  /\ cache.lines \in Content <=> cache.run \in Run
  /\ tracked.does # "none" <=> tracked.run \in Run

NoGreen == [lines |-> NoContent, sure |-> FALSE]
NotAsking == [open |-> FALSE, sure |-> FALSE]

ScannerInit ==
  /\ items \in Content \cup {NoContent}
  /\ due = (items # NoContent)
  /\ cache = Unchecked
  /\ calls = [c \in Call |-> NoCall]
  /\ asking = NotAsking
  /\ tracked = Untracked
  /\ green = NoGreen
  /\ started = [r \in Run |-> NotStarted]
  /\ turns = 0

Turn == turns < MaxTurns /\ turns' = turns + 1

-----------------------------------------------------------------------------
(* The cart *)

AtServer(c) == calls[c].at \in {"syncing", "triggering"}
IsTap(c) == calls[c].does \in {"check", "place"}

\* A new cart drops the cached result, makes the background check that is under way
\* stale (its generation is over) and sets the timer.
CartBecomes(content) ==
  /\ items' = content
  /\ due' = (content # NoContent)
  /\ cache' = Unchecked
  /\ calls' = [c \in Call |->
                 IF calls[c].own /\ calls[c].does = "background"
                   THEN [calls[c] EXCEPT !.heard = FALSE] ELSE calls[c]]

\* The owner scans, steps, removes or clears, or a template that was asked for arrives.
EditCart ==
  /\ Turn
  /\ \E content \in (Content \cup {NoContent}) \ {items} : CartBecomes(content)
  /\ asking' = [asking EXCEPT !.sure = FALSE]
  /\ UNCHANGED <<tracked, green, started>>

-----------------------------------------------------------------------------
(* The run that is tracked *)

\* orderInFlight, isFiring
InFlight == tracked.run # NoRun /\ ~tracked.landed
Firing == \E c \in Call : IsTap(c) /\ calls[c].own

Forgetting(entry, r) == [entry EXCEPT !.let = @ \/ (r = tracked.run /\ entry.does = "place")]
LetGoOfTracked ==
  [r \in Run |-> Forgetting(started[r], r)]

\* trackOrder, and onClose closes the drawer.  What was tracked is forgotten.
Tracking(r, does, lines, sure) ==
  /\ tracked' = [run |-> r, does |-> does, lines |-> lines, sure |-> sure,
                 landed |-> FALSE]
  /\ asking' = NotAsking

Dismiss ==
  /\ Turn
  /\ tracked.run # NoRun
  /\ tracked' = Untracked
  /\ started' = LetGoOfTracked
  /\ UNCHANGED <<items, due, cache, calls, asking, green>>

Over(r) == started[r].status \notin {"none", "active"}

\* What the poll does with a result: an order that was placed clears the cart, and a
\* check that MILO passed unlocks Place for the lines it was fired with.
PollLands ==
  /\ InFlight /\ Over(tracked.run)
  /\ tracked' = [tracked EXCEPT !.landed = TRUE]
  /\ green' = IF tracked.does = "check" /\ started[tracked.run].status = "green"
                THEN [lines |-> tracked.lines, sure |-> tracked.sure] ELSE green
  /\ \/ started[tracked.run].status = "placed" /\ CartBecomes(NoContent)
        /\ asking' = [asking EXCEPT !.sure = FALSE]
     \/ started[tracked.run].status # "placed" /\ UNCHANGED <<items, due, cache, calls, asking>>
  /\ UNCHANGED <<started, turns>>

\* CHECK_TRUST_WINDOW_MS
GreenExpires ==
  /\ green # NoGreen
  /\ green' = NoGreen
  /\ UNCHANGED <<items, due, cache, calls, asking, tracked, started, turns>>

\* CACHE_FRESH_MS
CacheExpires ==
  /\ cache # Unchecked
  /\ cache' = Unchecked
  /\ UNCHANGED <<items, due, calls, asking, tracked, green, started, turns>>

-----------------------------------------------------------------------------
(* Taps and the background check *)

\* A call begins.  It and whatever is at the server meet.
Begin(c, does, sure) ==
  calls' = [d \in Call |->
    IF d = c
      THEN [NoCall EXCEPT !.at = "syncing", !.does = does, !.lines = items, !.heard = TRUE,
                          !.own = TRUE, !.sure = sure /\ \A e \in Call : ~AtServer(e)]
      ELSE [calls[d] EXCEPT !.sure = @ /\ ~AtServer(d),
                            !.own = @ /\ ~(does = "background" /\ calls[d].does = does)]]

\* The timer fires; the new check takes the place of an older one in inFlightRef.
BackgroundCheck(c) ==
  /\ due /\ items # NoContent
  /\ calls[c].at = "idle"
  /\ due' = FALSE
  /\ Begin(c, "background", TRUE)
  /\ UNCHANGED <<items, cache, asking, tracked, green, started, turns>>

\* canPlaceOrder, but for the rules (see PlaceGate).
CanCheck == ~Firing /\ ~InFlight /\ items # NoContent

\* Check takes the cached result of this cart, or the run of the background check that
\* is checking it, before it begins one of its own.
Latchable == {c \in Call : /\ calls[c].at = "polling" /\ calls[c].own
                           /\ calls[c].lines = items}

LatchOnCache ==
  /\ CanCheck
  /\ cache.lines = items
  /\ Tracking(cache.run, "check", items, cache.sure)
  /\ cache' = Unchecked
  /\ UNCHANGED <<items, due, calls, green, started, turns>>

LatchOnCall ==
  /\ CanCheck
  /\ cache.lines # items
  /\ \E c \in Latchable : Tracking(calls[c].taken, "check", items, calls[c].sure)
  /\ UNCHANGED <<items, due, cache, calls, green, started, turns>>

TapCheck(c) ==
  /\ CanCheck
  /\ cache.lines # items /\ Latchable = {}
  /\ calls[c].at = "idle"
  /\ Begin(c, "check", TRUE)
  /\ UNCHANGED <<items, due, cache, asking, tracked, green, started, turns>>

\* resolvePlaceGate.  The rules' verdict is left out: it only keeps a button from being
\* tapped, and the server refuses what the rules forbid.
PlaceGate == ~Firing /\ ~InFlight /\ items # NoContent /\ green.lines = items

TapPlace ==
  /\ PlaceGate
  /\ ~asking.open
  /\ asking' = [open |-> TRUE, sure |-> green.sure]
  /\ UNCHANGED <<items, due, cache, calls, tracked, green, started, turns>>

\* onConfirm does not ask the gate again, and a submit latches onto nothing.
ConfirmPlace(c) ==
  /\ asking.open /\ items # NoContent
  /\ calls[c].at = "idle"
  /\ Begin(c, "place", asking.sure)
  /\ asking' = NotAsking
  /\ UNCHANGED <<items, due, cache, tracked, green, started, turns>>

\* The drawer is closed, and opened again: the new one is not busy.
CloseDrawer ==
  /\ asking.open \/ Firing
  /\ Turn
  /\ asking' = NotAsking
  /\ calls' = [c \in Call |-> [calls[c] EXCEPT !.own = @ /\ ~IsTap(c)]]
  /\ UNCHANGED <<items, due, cache, tracked, green, started>>

\* Between the cart page and the scanner page: each has a background check of its own.
ChangePage ==
  /\ Turn
  /\ due' = (items # NoContent)
  /\ cache' = Unchecked
  /\ asking' = NotAsking
  /\ calls' = [c \in Call |-> [calls[c] EXCEPT !.own = FALSE]]
  /\ UNCHANGED <<items, tracked, green, started>>

\* Mutant: only a check is polled again.
RehydratedChecks == IF tracked.does = "place" THEN Untracked ELSE [tracked EXCEPT !.landed = FALSE]

\* A run is polled again, even one whose result had come.
Rehydrated == [tracked EXCEPT !.landed = FALSE]

\* The app is killed and opened again.  A run tracked for 30 minutes is dropped.
Reload ==
  /\ Turn
  /\ due' = (items # NoContent)
  /\ cache' = Unchecked
  /\ asking' = NotAsking
  /\ calls' = [c \in Call |-> [calls[c] EXCEPT !.own = FALSE, !.heard = FALSE]]
  /\ \/ tracked' = Rehydrated /\ UNCHANGED started
     \/ tracked' = Untracked /\ started' = LetGoOfTracked
  /\ UNCHANGED <<items, green>>

-----------------------------------------------------------------------------
(* The server *)

\* The sync writes the active cart, whoever else holds it.  A background check that is
\* stale by then ends.
SyncServed(c) ==
  /\ calls[c].at = "syncing"
  /\ calls' = [d \in Call |->
       CASE d = c -> IF calls[c].heard
                       THEN [calls[c] EXCEPT !.at = "triggering", !.holds = calls[c].lines,
                                             !.open = TRUE]
                       ELSE NoCall
         [] d # c /\ calls[d].open -> [calls[d] EXCEPT !.holds = calls[c].lines]
         [] OTHER -> calls[d]]
  /\ UNCHANGED <<items, due, cache, asking, tracked, green, started, turns>>

\* Mutant: the hash is taken when the answer comes.
HashNow(c) == items

\* trackOrder gets the hash of the lines that were on screen at the tap.
HashFired(c) == calls[c].lines

\* The call's cart is closed, for all who hold it; r was made of it.
CartClosed(c, d, r) ==
  IF calls[c].open /\ calls[d].open
    THEN [calls[d] EXCEPT !.open = FALSE, !.taken = r] ELSE calls[d]

\* The answer r comes: a tap is tracked, a background check goes on to poll, and a call
\* that nobody waits for ends.
Answered(c, r, made, all) ==
  /\ calls' = [d \in Call |->
       CASE d # c -> CartClosed(c, d, made)
         [] d = c /\ calls[c].heard /\ ~IsTap(c) ->
              [calls[c] EXCEPT !.at = "polling", !.taken = r, !.open = FALSE]
         [] OTHER -> NoCall]
  /\ \/ /\ calls[c].heard /\ IsTap(c)
        /\ Tracking(r, calls[c].does, HashFired(c), calls[c].sure)
        /\ started' = [s \in Run |-> Forgetting(all[s], s)]
     \/ /\ ~(calls[c].heard /\ IsTap(c))
        /\ started' = all
        /\ UNCHANGED <<tracked, asking>>
  /\ UNCHANGED <<items, due, cache, green, turns>>

\* A check in progress of the same lines: the server answers a check with it.
Twin(c, r) ==
  /\ calls[c].does # "place"
  /\ started[r].does = "check" /\ started[r].status = "active"
  /\ started[r].lines = calls[c].holds

TwinFound(c) ==
  /\ calls[c].at = "triggering"
  /\ \E r \in Run : Twin(c, r) /\ Answered(c, r, NoRun, started)

\* A run of the cart's lines is made, unless one of the same cart is in progress.
RunMade(c) ==
  /\ calls[c].at = "triggering"
  /\ \A r \in Run : ~Twin(c, r)
  /\ calls[c].taken # NoRun => Over(calls[c].taken)
  /\ \E r \in Run :
       /\ started[r].status = "none"
       /\ Answered(c, r, r,
            [started EXCEPT ![r] =
               IF calls[c].does = "place"
                 THEN [does |-> "place", lines |-> calls[c].holds, status |-> "active",
                       sure |-> calls[c].sure, let |-> ~calls[c].heard]
                 ELSE [NotStarted EXCEPT !.does = "check", !.lines = calls[c].holds,
                                         !.status = "active"]])

\* The server refuses, or the stale background check notices before it sends the next.
CallEnds(c) ==
  /\ AtServer(c)
  /\ calls' = [calls EXCEPT ![c] = NoCall]
  /\ UNCHANGED <<items, due, cache, asking, tracked, green, started, turns>>

\* The phone stops waiting for an answer (20 s, 15 s) and shows an error; the request
\* may be served all the same.
GiveUp(c) ==
  /\ Turn
  /\ AtServer(c) /\ calls[c].heard
  /\ calls' = [calls EXCEPT ![c].heard = FALSE, ![c].own = FALSE]
  /\ UNCHANGED <<items, due, cache, asking, tracked, green, started>>

\* fetchWithRetry: the same request is sent again, and the first may be served late.
SendAgain(c, d) ==
  /\ Turn
  /\ AtServer(c) /\ calls[c].heard
  /\ calls[d].at = "idle"
  /\ calls' = [calls EXCEPT ![d] = [calls[c] EXCEPT !.heard = FALSE, !.own = FALSE]]
  /\ UNCHANGED <<items, due, cache, asking, tracked, green, started>>

\* The worker's side of a run.
RunSettles(r) ==
  /\ started[r].status = "active"
  /\ \E status \in {"red", IF started[r].does = "check" THEN "green" ELSE "placed"} :
       started' = [started EXCEPT ![r].status = status]
  /\ UNCHANGED <<items, due, cache, calls, asking, tracked, green, turns>>

\* The background check learns that its run succeeded, which MILO's refusal of the cart
\* may be too, and keeps the result; or it ends for nothing: the run failed, the check is
\* stale, its page is gone, or 16 minutes are over.
BackgroundLands(c) ==
  /\ calls[c].at = "polling"
  /\ \/ /\ calls[c].heard /\ calls[c].own /\ Over(calls[c].taken)
        /\ cache' = [lines |-> calls[c].lines, run |-> calls[c].taken, sure |-> calls[c].sure]
     \/ UNCHANGED cache
  /\ calls' = [calls EXCEPT ![c] = NoCall]
  /\ UNCHANGED <<items, due, asking, tracked, green, started, turns>>

PhoneStep ==
  \/ EditCart \/ Dismiss \/ PollLands \/ GreenExpires \/ CacheExpires
  \/ LatchOnCache \/ LatchOnCall \/ TapPlace \/ CloseDrawer \/ ChangePage \/ Reload

CallStep(c) ==
  \/ BackgroundCheck(c) \/ TapCheck(c) \/ ConfirmPlace(c)
  \/ SyncServed(c) \/ TwinFound(c) \/ RunMade(c) \/ CallEnds(c) \/ GiveUp(c)
  \/ BackgroundLands(c)

ScannerNext ==
  \/ PhoneStep
  \/ \E c \in Call : CallStep(c)
  \/ \E c, d \in Call : SendAgain(c, d)
  \/ \E r \in Run : RunSettles(r)

ScannerSpec == ScannerInit /\ [][ScannerNext]_scannerVars

-----------------------------------------------------------------------------
(* Properties *)

\* You can never send a cart MILO has not blessed (place-gate.ts): a submit, if no other
\* request of the phone came in between and the cart did not change under the
\* confirmation, is of lines that a check has passed, whether that check was tapped,
\* cached, latched onto, shared, or remembered across a reload.
PlacedWasBlessed ==
  \A r \in Run : started[r].does = "place" /\ started[r].sure =>
    \E s \in Run : /\ started[s].does = "check" /\ started[s].status = "green"
                   /\ started[s].lines = started[r].lines

\* While an order is in flight Place is locked.  The phone lets go of one only when its
\* owner dismisses it, its answer was lost, another run's answer overtakes it, or the
\* app is opened more than 30 minutes later: no edit, background check, error of the
\* poll, change of page or reload does.
OrdersAreWatched ==
  \A r \in Run : /\ started[r].does = "place" /\ started[r].status = "active"
                 /\ ~started[r].let
                 => tracked.run = r /\ ~PlaceGate
=============================================================================
