----------------------------- MODULE PhoneProofs -----------------------------
(***************************************************************************)
(* What holds of one phone: of its calls, checks and orders                *)
(* (ScannerOrders), for any carts, any number of runs, and any number of   *)
(* calls, edits, reloads and lost answers; and of the quantities in its    *)
(* cart (PhoneCart), for any products, facts and changes.  The two share   *)
(* no state.                                                               *)
(***************************************************************************)
EXTENDS MCPhone, CartOrdersProofs, WellFoundedInduction

-----------------------------------------------------------------------------
(* ScannerOrders: what is remembered, and what it is sure of *)

\* MILO has passed these lines; r is a check that was made of these lines.
Blessed(content) ==
  \E s \in Run : /\ started[s].does = "check" /\ started[s].status = "green"
                 /\ started[s].lines = content
CheckOf(r, content) ==
  r \in Run /\ started[r].does = "check" /\ started[r].status # "none"
            /\ started[r].lines = content

\* Only a request that has synced has the active cart.  With a call that is sure there
\* are no others at the server but copies of it, so that its cart holds its own lines.
OpenTriggers == \A c \in Call : calls[c].open => calls[c].at = "triggering"
TogetherSame ==
  \A c, d \in Call : AtServer(c) /\ AtServer(d) /\ calls[c].sure =>
    calls[d].sure /\ calls[d].lines = calls[c].lines
HoldsOwn ==
  \A c \in Call : calls[c].at = "triggering" /\ calls[c].sure =>
    calls[c].holds = calls[c].lines

\* What "sure" is sure of, wherever it is kept.
PlacesSure ==
  \A c \in Call : AtServer(c) /\ calls[c].does = "place" /\ calls[c].sure =>
    Blessed(calls[c].lines)
PollsSure ==
  \A c \in Call : calls[c].at = "polling" /\ calls[c].sure =>
    CheckOf(calls[c].taken, calls[c].lines)
GreenSure == green.sure => Blessed(green.lines)
AskingSure == asking.open /\ asking.sure => Blessed(items)
TrackedSure ==
  tracked.does = "check" /\ tracked.sure => CheckOf(tracked.run, tracked.lines)
CacheSure == cache.sure => CheckOf(cache.run, cache.lines)

\* An order in flight is the run that is tracked, and its result has not come.
OnItsWay(entry) == entry.does = "place" /\ entry.status = "active" /\ ~entry.let
Watched == \A r \in Run : OnItsWay(started[r]) => tracked.run = r /\ ~tracked.landed

CallsInv == OpenTriggers /\ TogetherSame /\ HoldsOwn /\ PlacesSure /\ PollsSure
MemoryInv == GreenSure /\ AskingSure /\ TrackedSure /\ CacheSure
OrdersInv == PlacedWasBlessed /\ Watched

ScannerInv == ScannerTypeOK /\ CallsInv /\ MemoryInv /\ OrdersInv

-----------------------------------------------------------------------------
(* Runs only come, and turn out *)

\* A run keeps what it was made of, and a check that MILO has passed stays passed.
Grows ==
  \A r \in Run : started[r].status # "none" =>
    /\ started'[r].does = started[r].does
    /\ started'[r].lines = started[r].lines
    /\ started'[r].status # "none"
    /\ started[r].status = "green" => started'[r].status = "green"

\* What was blessed stays blessed, and a check of these lines stays one.
LEMMA BlessedStays ==
  ASSUME Grows
  PROVE  /\ \A x : Blessed(x) =>
              \E s \in Run : /\ started'[s].does = "check" /\ started'[s].status = "green"
                             /\ started'[s].lines = x
         /\ \A r, x : CheckOf(r, x) =>
              /\ r \in Run /\ started'[r].does = "check" /\ started'[r].status # "none"
              /\ started'[r].lines = x
<1>1. ASSUME NEW x, Blessed(x)
      PROVE  \E s \in Run : /\ started'[s].does = "check" /\ started'[s].status = "green"
                            /\ started'[s].lines = x
  BY <1>1 DEF Grows, Blessed
<1>2. ASSUME NEW r, NEW x, CheckOf(r, x)
      PROVE  /\ r \in Run /\ started'[r].does = "check" /\ started'[r].status # "none"
             /\ started'[r].lines = x
  BY <1>2 DEF Grows, CheckOf
<1> QED
  BY <1>1, <1>2

\* Nothing that is remembered loses its ground because runs come and turn out.
LEMMA RememberedStays ==
  ASSUME Grows
  PROVE  /\ GreenSure /\ UNCHANGED green => GreenSure'
         /\ AskingSure /\ UNCHANGED <<asking, items>> => AskingSure'
         /\ TrackedSure /\ UNCHANGED tracked => TrackedSure'
         /\ CacheSure /\ UNCHANGED cache => CacheSure'
<1>1. GreenSure /\ UNCHANGED green => GreenSure'
  BY BlessedStays DEF GreenSure, Blessed
<1>2. AskingSure /\ UNCHANGED <<asking, items>> => AskingSure'
  BY BlessedStays DEF AskingSure, Blessed
<1>3. TrackedSure /\ UNCHANGED tracked => TrackedSure'
  BY BlessedStays DEF TrackedSure, CheckOf
<1>4. CacheSure /\ UNCHANGED cache => CacheSure'
  BY BlessedStays DEF CacheSure, CheckOf
<1> QED
  BY <1>1, <1>2, <1>3, <1>4

\* What may become of a call without disturbing anything that is said of calls: it goes
\* on, whoever waits for it, it has a check to poll, or it is over.
Goes(c) ==
  \/ /\ calls'[c].at = calls[c].at /\ calls'[c].does = calls[c].does
     /\ calls'[c].lines = calls[c].lines /\ calls'[c].sure = calls[c].sure
     /\ calls'[c].holds = calls[c].holds
     /\ calls[c].at = "polling" => calls'[c].taken = calls[c].taken
     /\ calls'[c].open => calls[c].open
  \/ /\ calls'[c].at = "polling" /\ ~calls'[c].open
     /\ calls'[c].sure => CheckOf(calls[c].taken, calls[c].lines)'
  \/ calls'[c] = NoCall

\* Calls that go on or end disturb nothing that is said of calls.
LEMMA CallsStay ==
  ASSUME CallsInv, Grows, \A c \in Call : Goes(c)
  PROVE  CallsInv'
<1>1. ASSUME NEW c \in Call, calls'[c].at \in {"syncing", "triggering"}
      PROVE  /\ calls'[c].at = calls[c].at /\ calls'[c].does = calls[c].does
             /\ calls'[c].lines = calls[c].lines /\ calls'[c].sure = calls[c].sure
             /\ calls'[c].holds = calls[c].holds
  BY <1>1 DEF Goes, NoCall
<1>2. OpenTriggers'
  BY DEF CallsInv, OpenTriggers, Goes, NoCall
<1>3. TogetherSame'
  BY <1>1 DEF CallsInv, TogetherSame, AtServer
<1>4. HoldsOwn'
  BY <1>1 DEF CallsInv, HoldsOwn
<1>5. PlacesSure'
  <2> SUFFICES ASSUME NEW c \in Call, AtServer(c)', calls'[c].does = "place", calls'[c].sure
               PROVE  Blessed(calls[c].lines)'
    BY DEF PlacesSure
  <2>1. Blessed(calls[c].lines) /\ calls'[c].lines = calls[c].lines
    BY <1>1 DEF CallsInv, PlacesSure, AtServer
  <2> QED
    BY <2>1, BlessedStays DEF Blessed
<1>6. PollsSure'
  <2> SUFFICES ASSUME NEW c \in Call, calls'[c].at = "polling", calls'[c].sure
               PROVE  CheckOf(calls[c].taken, calls[c].lines)'
    BY DEF PollsSure
  <2>1. CASE /\ calls[c].at = "polling" /\ calls[c].sure
             /\ calls'[c].lines = calls[c].lines /\ calls'[c].taken = calls[c].taken
    <3>1. CheckOf(calls[c].taken, calls[c].lines)
      BY <2>1 DEF CallsInv, PollsSure
    <3> QED
      BY <2>1, <3>1, BlessedStays DEF CheckOf
  <2>2. CASE CheckOf(calls[c].taken, calls[c].lines)'
    BY <2>2
  <2> QED
    BY <2>1, <2>2 DEF Goes, NoCall
<1> QED
  BY <1>2, <1>3, <1>4, <1>5, <1>6 DEF CallsInv

\* A step that starts and settles no run, and lets go of none that is in flight.
LEMMA OrdersStay ==
  ASSUME UNCHANGED started
  PROVE  /\ Grows
         /\ PlacedWasBlessed => PlacedWasBlessed'
         /\ Watched /\ UNCHANGED tracked => Watched'
         /\ Watched /\ ~InFlight => Watched'
<1>1. Grows
  BY DEF Grows
<1>2. PlacedWasBlessed => PlacedWasBlessed'
  BY DEF PlacedWasBlessed
<1>3. Watched /\ UNCHANGED tracked => Watched'
  BY DEF Watched
<1>4. Watched /\ ~InFlight => Watched'
  BY ScannerAssumption DEF Watched, InFlight
<1> QED
  BY <1>1, <1>2, <1>3, <1>4

-----------------------------------------------------------------------------
(* ScannerOrders: every step keeps the types *)

\* What the type invariant says of calls alone.
CallsOK ==
  /\ calls \in [Call -> Calls]
  /\ \A c \in Call : /\ calls[c].at # "idle" => calls[c].lines \in Content
                     /\ calls[c].at = "polling" => calls[c].taken \in Run

\* What the type invariant says of the rest.
PhoneOK ==
  /\ items \in Content \cup {NoContent} /\ due \in BOOLEAN
  /\ cache \in Checked /\ (cache.lines \in Content <=> cache.run \in Run)
  /\ asking \in [open : BOOLEAN, sure : BOOLEAN]
  /\ tracked \in Trackings /\ (tracked.does # "none" <=> tracked.run \in Run)
  /\ green \in [lines : Content \cup {NoContent}, sure : BOOLEAN]
RunsOK == started \in [Run -> Started]

\* The type invariant, by what it is about, before a step and after it.
LEMMA TypeParts ==
  /\ ScannerTypeOK <=> CallsOK /\ PhoneOK /\ RunsOK /\ turns \in 0..MaxTurns
  /\ ScannerTypeOK' <=> CallsOK' /\ PhoneOK' /\ RunsOK' /\ turns' \in 0..MaxTurns
BY DEF ScannerTypeOK, CallsOK, PhoneOK, RunsOK

\* The empty values are values, and are told apart from the others.
LEMMA EmptyValues ==
  /\ NoCall \in Calls /\ NoCall.at = "idle"
  /\ Unchecked \in Checked /\ Unchecked.lines \notin Content /\ Unchecked.run \notin Run
  /\ Untracked \in Trackings /\ Untracked.does = "none" /\ Untracked.run \notin Run
  /\ NotAsking \in [open : BOOLEAN, sure : BOOLEAN]
  /\ NoGreen \in [lines : Content \cup {NoContent}, sure : BOOLEAN]
  /\ NotStarted \in Started
BY ScannerAssumption
   DEF NoCall, Calls, CallPoints, Unchecked, Checked, Untracked, Trackings, NotAsking, NoGreen,
       NotStarted, Started

\* A turn is counted.
LEMMA TurnsType ==
  ASSUME turns \in 0..MaxTurns, Turn \/ UNCHANGED turns
  PROVE  turns' \in 0..MaxTurns
BY ScannerAssumption DEF Turn

\* Letting go of a run, or of none, leaves runs what they are.
LEMMA ForgettingType ==
  ASSUME NEW all \in [Run -> Started]
  PROVE  [s \in Run |-> Forgetting(all[s], s)] \in [Run -> Started]
BY DEF Forgetting, Started


\* A call that is marked, moves on or is answered is a call.
LEMMA CallChanges ==
  ASSUME NEW call \in Calls, NEW yes \in BOOLEAN, NEW own \in BOOLEAN,
         NEW x \in Content \cup {NoContent}, NEW r \in Run \cup {NoRun}
  PROVE  /\ [call EXCEPT !.heard = yes] \in Calls
         /\ [call EXCEPT !.own = own] \in Calls
         /\ [call EXCEPT !.holds = x] \in Calls
         /\ [call EXCEPT !.heard = yes, !.own = own] \in Calls
         /\ [call EXCEPT !.own = own, !.heard = yes] \in Calls
         /\ [call EXCEPT !.sure = yes, !.own = own] \in Calls
         /\ [call EXCEPT !.open = FALSE, !.taken = r] \in Calls
         /\ [call EXCEPT !.at = "triggering", !.holds = x, !.open = TRUE] \in Calls
         /\ [call EXCEPT !.at = "polling", !.taken = r, !.open = FALSE] \in Calls
<1>1. {"triggering", "polling"} \subseteq CallPoints /\ {TRUE, FALSE} = BOOLEAN
  BY DEF CallPoints
<1>2. /\ [call EXCEPT !.heard = yes] \in Calls
      /\ [call EXCEPT !.own = own] \in Calls
      /\ [call EXCEPT !.holds = x] \in Calls
  BY DEF Calls
<1>3. /\ [call EXCEPT !.heard = yes, !.own = own] \in Calls
      /\ [call EXCEPT !.own = own, !.heard = yes] \in Calls
      /\ [call EXCEPT !.sure = yes, !.own = own] \in Calls
  BY Zenon DEF Calls
<1>4. [call EXCEPT !.open = FALSE, !.taken = r] \in Calls
  BY Zenon DEF Calls
<1>5. [call EXCEPT !.at = "triggering", !.holds = x, !.open = TRUE] \in Calls
  BY Zenon, <1>1 DEF Calls
<1>6. [call EXCEPT !.at = "polling", !.taken = r, !.open = FALSE] \in Calls
  BY Zenon, <1>1 DEF Calls
<1> QED
  BY <1>2, <1>3, <1>4, <1>5, <1>6

\* A new cart.
LEMMA CartBecomesType ==
  ASSUME ScannerTypeOK, NEW content \in Content \cup {NoContent}, CartBecomes(content)
  PROVE  /\ CallsOK'
         /\ items' \in Content \cup {NoContent} /\ due' \in BOOLEAN /\ cache' = Unchecked
<1>1. \A c \in Call : [calls[c] EXCEPT !.heard = FALSE] \in Calls
  BY CallChanges DEF ScannerTypeOK
<1> QED
  BY <1>1 DEF ScannerTypeOK, CallsOK, CartBecomes, Calls

\* A call begins.
LEMMA BeginType ==
  ASSUME ScannerTypeOK, NEW c \in Call, items # NoContent,
         NEW does \in {"background", "check", "place"}, NEW sure \in BOOLEAN,
         Begin(c, does, sure)
  PROVE  CallsOK'
<1> DEFINE alone == sure /\ \A e \in Call : ~AtServer(e)
           begun == [NoCall EXCEPT !.at = "syncing", !.does = does, !.lines = items,
                                   !.heard = TRUE, !.own = TRUE, !.sure = alone]
           met(d) == calls[d].sure /\ ~AtServer(d)
           kept(d) == calls[d].own /\ ~(does = "background" /\ calls[d].does = does)
           meeting(d) == [calls[d] EXCEPT !.sure = met(d), !.own = kept(d)]
<1>1. begun \in Calls /\ begun.lines \in Content /\ begun.at = "syncing"
  <2>1. alone \in BOOLEAN /\ items \in Content
    BY DEF ScannerTypeOK
  <2> HIDE DEF alone
  <2> DEFINE named == [NoCall EXCEPT !.at = "syncing", !.does = does, !.lines = items]
  <2>2. named \in Calls /\ named.lines = items /\ named.at = "syncing"
    BY <2>1, EmptyValues DEF Calls, CallPoints, NoCall
  <2>3. begun = [named EXCEPT !.heard = TRUE, !.own = TRUE, !.sure = alone]
    OBVIOUS
  <2> HIDE DEF begun, named
  <2> QED
    BY <2>1, <2>2, <2>3 DEF Calls
<1>2. ASSUME NEW d \in Call
      PROVE  /\ meeting(d) \in Calls
             /\ meeting(d).at = calls[d].at /\ meeting(d).lines = calls[d].lines
             /\ meeting(d).taken = calls[d].taken
  <2>1. met(d) \in BOOLEAN /\ kept(d) \in BOOLEAN /\ calls[d] \in Calls
    BY DEF ScannerTypeOK, Calls
  <2> HIDE DEF met, kept
  <2>2. meeting(d) \in Calls
    BY <2>1, CallChanges, Zenon
  <2> QED
    BY <2>1, <2>2 DEF Calls
<1>3. calls' = [d \in Call |-> IF d = c THEN begun ELSE meeting(d)]
  BY DEF Begin
<1> HIDE DEF begun, meeting
<1> QED
  BY <1>1, <1>2, <1>3 DEF CallsOK, ScannerTypeOK

\* An answer comes: of a run r, which may be one that this step makes.
LEMMA AnsweredType ==
  ASSUME ScannerTypeOK, OpenTriggers, NEW c \in Call, calls[c].at = "triggering",
         NEW r \in Run, NEW made \in Run \cup {NoRun}, NEW all \in [Run -> Started],
         Answered(c, r, made, all)
  PROVE  ScannerTypeOK'
<1>1. CallsOK'
  <2>1. \A d \in Call : /\ [calls[d] EXCEPT !.open = FALSE, !.taken = made] \in Calls
                        /\ [calls[d] EXCEPT !.at = "polling", !.taken = r, !.open = FALSE] \in Calls
    BY CallChanges DEF ScannerTypeOK
  <2>2. calls' \in [Call -> Calls]
    BY <2>1, EmptyValues DEF Answered, CartClosed, ScannerTypeOK
  <2>3. \A d \in Call : /\ calls'[d].at # "idle" => calls'[d].lines \in Content
                        /\ calls'[d].at = "polling" => calls'[d].taken \in Run
    BY EmptyValues DEF Answered, CartClosed, ScannerTypeOK, Calls, OpenTriggers
  <2> QED
    BY <2>2, <2>3 DEF CallsOK
<1>2. RunsOK'
  BY ForgettingType DEF Answered, RunsOK
<1>3. PhoneOK'
  <2>1. CASE UNCHANGED <<tracked, asking>>
    BY <2>1 DEF Answered, ScannerTypeOK, PhoneOK
  <2>2. CASE IsTap(c) /\ Tracking(r, calls[c].does, HashFired(c), calls[c].sure)
    BY <2>2, EmptyValues
       DEF Answered, ScannerTypeOK, PhoneOK, Tracking, IsTap, HashFired, Trackings, Calls
  <2> QED
    BY <2>1, <2>2 DEF Answered
<1> QED
  BY <1>1, <1>2, <1>3, TypeParts DEF Answered, ScannerTypeOK

\* Every step leaves everything what it is.
LEMMA TypeStep ==
  ASSUME ScannerTypeOK, OpenTriggers, ScannerNext
  PROVE  ScannerTypeOK'
<1> USE TypeParts
<1>1. CASE EditCart
  BY <1>1, CartBecomesType, EmptyValues, TurnsType DEF EditCart, ScannerTypeOK, PhoneOK, RunsOK
<1>2. CASE Dismiss
  BY <1>2, EmptyValues, TurnsType, ForgettingType
     DEF Dismiss, LetGoOfTracked, ScannerTypeOK, CallsOK, PhoneOK, RunsOK
<1>3. CASE PollLands
  <2>1. tracked' \in Trackings /\ (tracked'.does # "none" <=> tracked'.run \in Run)
    BY <1>3 DEF PollLands, ScannerTypeOK, Trackings
  <2>2. green' \in [lines : Content \cup {NoContent}, sure : BOOLEAN]
    BY <1>3 DEF PollLands, ScannerTypeOK, Trackings
  <2>3. CASE CartBecomes(NoContent) /\ asking' = [asking EXCEPT !.sure = FALSE]
    BY <1>3, <2>1, <2>2, <2>3, CartBecomesType, EmptyValues
       DEF PollLands, ScannerTypeOK, PhoneOK, RunsOK
  <2>4. CASE UNCHANGED <<items, due, cache, calls, asking>>
    BY <1>3, <2>1, <2>2, <2>4 DEF PollLands, ScannerTypeOK
  <2> QED
    BY <1>3, <2>3, <2>4 DEF PollLands
<1>4. CASE GreenExpires
  BY <1>4, EmptyValues DEF GreenExpires, ScannerTypeOK, CallsOK, PhoneOK, RunsOK
<1>5. CASE CacheExpires
  BY <1>5, EmptyValues DEF CacheExpires, ScannerTypeOK, CallsOK, PhoneOK, RunsOK
<1>6. CASE LatchOnCache
  BY <1>6, EmptyValues
     DEF LatchOnCache, CanCheck, Tracking, ScannerTypeOK, CallsOK, PhoneOK, RunsOK, Checked,
         Trackings
<1>7. CASE LatchOnCall
  <2> PICK c \in Latchable : Tracking(calls[c].taken, "check", items, calls[c].sure)
    BY <1>7 DEF LatchOnCall
  <2> QED
    BY <1>7, EmptyValues
       DEF LatchOnCall, Latchable, Tracking, ScannerTypeOK, CallsOK, PhoneOK, RunsOK, Calls,
           Trackings
<1>8. CASE TapPlace
  BY <1>8 DEF TapPlace, ScannerTypeOK, CallsOK, PhoneOK, RunsOK
<1>9. CASE CloseDrawer
  <2> DEFINE busy(c) == calls[c].own /\ ~IsTap(c)
  <2>1. \A c \in Call : calls[c] \in Calls /\ busy(c) \in BOOLEAN
    BY DEF ScannerTypeOK, Calls
  <2>2. calls' = [c \in Call |-> [calls[c] EXCEPT !.own = busy(c)]]
    BY <1>9 DEF CloseDrawer
  <2> HIDE DEF busy
  <2>3. CallsOK'
    BY <2>1, <2>2 DEF ScannerTypeOK, CallsOK, Calls
  <2> QED
    BY <1>9, <2>3, EmptyValues, TurnsType DEF CloseDrawer, ScannerTypeOK, PhoneOK, RunsOK
<1>10. CASE ChangePage
  <2>1. \A c \in Call : [calls[c] EXCEPT !.own = FALSE] \in Calls
    BY CallChanges DEF ScannerTypeOK
  <2>2. CallsOK'
    BY <1>10, <2>1 DEF ChangePage, ScannerTypeOK, CallsOK, Calls
  <2> QED
    BY <1>10, <2>2, EmptyValues, TurnsType DEF ChangePage, ScannerTypeOK, PhoneOK, RunsOK
<1>11. CASE Reload
  <2>1. \A c \in Call : [calls[c] EXCEPT !.own = FALSE, !.heard = FALSE] \in Calls
    BY CallChanges DEF ScannerTypeOK
  <2>2. CallsOK'
    BY <1>11, <2>1 DEF Reload, ScannerTypeOK, CallsOK, Calls
  <2>3. RunsOK'
    BY <1>11, ForgettingType DEF Reload, LetGoOfTracked, ScannerTypeOK, RunsOK
  <2>4. tracked' \in Trackings /\ (tracked'.does # "none" <=> tracked'.run \in Run)
    BY <1>11, EmptyValues DEF Reload, Rehydrated, ScannerTypeOK, Trackings
  <2> QED
    BY <1>11, <2>2, <2>3, <2>4, EmptyValues, TurnsType DEF Reload, ScannerTypeOK, PhoneOK
<1>12. ASSUME NEW c \in Call, BackgroundCheck(c)
       PROVE  ScannerTypeOK'
  BY <1>12, BeginType DEF BackgroundCheck, ScannerTypeOK, PhoneOK, RunsOK
<1>13. ASSUME NEW c \in Call, TapCheck(c)
       PROVE  ScannerTypeOK'
  BY <1>13, BeginType DEF TapCheck, CanCheck, ScannerTypeOK, PhoneOK, RunsOK
<1>14. ASSUME NEW c \in Call, ConfirmPlace(c)
       PROVE  ScannerTypeOK'
  BY <1>14, BeginType, EmptyValues DEF ConfirmPlace, ScannerTypeOK, PhoneOK, RunsOK
<1>15. ASSUME NEW c \in Call, SyncServed(c)
       PROVE  ScannerTypeOK'
  <2>1. /\ [calls[c] EXCEPT !.at = "triggering", !.holds = calls[c].lines, !.open = TRUE] \in Calls
        /\ \A d \in Call : [calls[d] EXCEPT !.holds = calls[c].lines] \in Calls
    <3>1. \A d \in Call : calls[d] \in Calls /\ calls[d].lines \in Content \cup {NoContent}
      BY DEF ScannerTypeOK, Calls
    <3> QED
      BY <3>1, CallChanges
  <2>2. calls' \in [Call -> Calls]
    BY <1>15, <2>1, EmptyValues DEF SyncServed, ScannerTypeOK
  <2>3. \A d \in Call : /\ calls'[d].at # "idle" => calls'[d].lines \in Content
                        /\ calls'[d].at = "polling" => calls'[d].taken \in Run
    BY <1>15, EmptyValues DEF SyncServed, ScannerTypeOK, Calls
  <2> QED
    BY <1>15, <2>2, <2>3 DEF SyncServed, ScannerTypeOK, CallsOK, PhoneOK, RunsOK
<1>16. ASSUME NEW c \in Call, TwinFound(c)
       PROVE  ScannerTypeOK'
  BY <1>16, AnsweredType DEF TwinFound, ScannerTypeOK
<1>17. ASSUME NEW c \in Call, RunMade(c)
       PROVE  ScannerTypeOK'
  <2>1. [NotStarted EXCEPT !.does = "check", !.lines = calls[c].holds, !.status = "active"]
          \in Started
    BY DEF ScannerTypeOK, Calls, Started, NotStarted
  <2>2. [does |-> "place", lines |-> calls[c].holds, status |-> "active",
         sure |-> calls[c].sure, let |-> ~calls[c].heard] \in Started
    BY DEF ScannerTypeOK, Calls, Started
  <2> DEFINE entry ==
        IF calls[c].does = "place"
          THEN [does |-> "place", lines |-> calls[c].holds, status |-> "active",
                sure |-> calls[c].sure, let |-> ~calls[c].heard]
          ELSE [NotStarted EXCEPT !.does = "check", !.lines = calls[c].holds,
                                  !.status = "active"]
  <2>3. entry \in Started
    BY <2>1, <2>2
  <2>4. PICK r \in Run : Answered(c, r, r, [started EXCEPT ![r] = entry])
    BY <1>17 DEF RunMade
  <2> HIDE DEF entry
  <2>5. [started EXCEPT ![r] = entry] \in [Run -> Started]
    BY <2>3 DEF ScannerTypeOK
  <2> QED
    BY <1>17, <2>4, <2>5, AnsweredType DEF RunMade
<1>18. ASSUME NEW c \in Call, CallEnds(c)
       PROVE  ScannerTypeOK'
  BY <1>18, EmptyValues DEF CallEnds, ScannerTypeOK, CallsOK, PhoneOK, RunsOK
<1>19. ASSUME NEW c \in Call, GiveUp(c)
       PROVE  ScannerTypeOK'
  <2>1. [calls[c] EXCEPT !.heard = FALSE, !.own = FALSE] \in Calls
    BY CallChanges DEF ScannerTypeOK
  <2>2. CallsOK'
    BY <1>19, <2>1 DEF GiveUp, ScannerTypeOK, CallsOK, Calls
  <2> QED
    BY <1>19, <2>2, TurnsType DEF GiveUp, ScannerTypeOK, PhoneOK, RunsOK
<1>20. ASSUME NEW c \in Call, BackgroundLands(c)
       PROVE  ScannerTypeOK'
  <2>1. CallsOK'
    BY <1>20, EmptyValues DEF BackgroundLands, ScannerTypeOK, CallsOK
  <2>2. cache' \in Checked /\ (cache'.lines \in Content <=> cache'.run \in Run)
    BY <1>20 DEF BackgroundLands, ScannerTypeOK, Calls, Checked
  <2> QED
    BY <1>20, <2>1, <2>2 DEF BackgroundLands, ScannerTypeOK, PhoneOK, RunsOK
<1>21. ASSUME NEW c \in Call, NEW d \in Call, SendAgain(c, d)
       PROVE  ScannerTypeOK'
  <2>1. [calls[c] EXCEPT !.heard = FALSE, !.own = FALSE] \in Calls
    BY CallChanges DEF ScannerTypeOK
  <2>2. CallsOK'
    BY <1>21, <2>1 DEF SendAgain, AtServer, ScannerTypeOK, CallsOK, Calls
  <2> QED
    BY <1>21, <2>2, TurnsType DEF SendAgain, ScannerTypeOK, PhoneOK, RunsOK
<1>22. ASSUME NEW r \in Run, RunSettles(r)
       PROVE  ScannerTypeOK'
  <2>1. RunsOK'
    BY <1>22 DEF RunSettles, ScannerTypeOK, RunsOK, Started
  <2> QED
    BY <1>22, <2>1 DEF RunSettles, ScannerTypeOK, CallsOK, PhoneOK
<1> QED
  BY <1>1, <1>2, <1>3, <1>4, <1>5, <1>6, <1>7, <1>8, <1>9, <1>10, <1>11, <1>12, <1>13, <1>14,
     <1>15, <1>16, <1>17, <1>18, <1>19, <1>20, <1>21, <1>22
     DEF ScannerNext, PhoneStep, CallStep

-----------------------------------------------------------------------------
(* ScannerOrders: every step keeps what is known of calls, checks and orders *)

\* The cart changes, or only who waits for a call does.
LEMMA MarkedCallsGo ==
  ASSUME ScannerTypeOK
  PROVE  /\ \A content : CartBecomes(content) => \A c \in Call : Goes(c)
         /\ CloseDrawer \/ ChangePage \/ Reload => \A c \in Call : Goes(c)
         /\ UNCHANGED calls => \A c \in Call : Goes(c)
<1>1. \A content : CartBecomes(content) => \A c \in Call : Goes(c)
  BY DEF CartBecomes, Goes, ScannerTypeOK, Calls
<1>2. ASSUME CloseDrawer PROVE \A c \in Call : Goes(c)
  BY <1>2 DEF CloseDrawer, Goes, ScannerTypeOK, Calls
<1>3. ASSUME ChangePage PROVE \A c \in Call : Goes(c)
  BY <1>3 DEF ChangePage, Goes, ScannerTypeOK, Calls
<1>4. ASSUME Reload PROVE \A c \in Call : Goes(c)
  BY <1>4 DEF Reload, Goes, ScannerTypeOK, Calls
<1>5. UNCHANGED calls => \A c \in Call : Goes(c)
  BY DEF Goes
<1> QED
  BY <1>1, <1>2, <1>3, <1>4, <1>5

\* A call begins: it is sure only if no other is at the server, and those are not sure
\* from then on.
LEMMA BeginStep ==
  ASSUME ScannerInv, UNCHANGED started, NEW c \in Call, calls[c].at = "idle",
         NEW does, NEW sure, Begin(c, does, sure),
         does = "place" /\ sure => Blessed(items)
  PROVE  CallsInv'
<1> DEFINE begun == calls'[c]
<1>1. /\ begun.at = "syncing" /\ begun.does = does /\ begun.lines = items /\ ~begun.open
      /\ begun.sure => sure /\ \A e \in Call : ~AtServer(e)
  BY DEF Begin, NoCall
<1>2. ASSUME NEW d \in Call, d # c
      PROVE  /\ calls'[d].at = calls[d].at /\ calls'[d].does = calls[d].does
             /\ calls'[d].lines = calls[d].lines /\ calls'[d].holds = calls[d].holds
             /\ calls'[d].taken = calls[d].taken /\ calls'[d].open = calls[d].open
             /\ calls'[d].sure => calls[d].sure /\ ~AtServer(d)
  <2> DEFINE met == calls[d].sure /\ ~AtServer(d)
             kept == calls[d].own /\ ~(does = "background" /\ calls[d].does = does)
  <2>1. calls'[d] = [calls[d] EXCEPT !.sure = met, !.own = kept]
    BY <1>2 DEF Begin
  <2>2. calls[d] \in Calls
    BY DEF ScannerInv, ScannerTypeOK
  <2>3. calls'[d].sure = met
    <3> HIDE DEF met, kept
    <3> QED
      BY <2>1, <2>2 DEF Calls
  <2> QED
    BY <2>1, <2>2, <2>3 DEF Calls
<1> HIDE DEF begun
<1>3. OpenTriggers'
  BY <1>1, <1>2 DEF ScannerInv, CallsInv, OpenTriggers, begun
<1>4. TogetherSame'
  BY <1>1, <1>2 DEF TogetherSame, AtServer, begun
<1>5. HoldsOwn'
  BY <1>1, <1>2 DEF HoldsOwn, AtServer, begun
<1>6. PlacesSure'
  BY <1>1, <1>2 DEF PlacesSure, AtServer, Blessed, begun
<1>7. PollsSure'
  BY <1>1, <1>2 DEF ScannerInv, CallsInv, PollsSure, CheckOf, begun
<1> QED
  BY <1>3, <1>4, <1>5, <1>6, <1>7 DEF CallsInv

\* A sync is served: if a call is sure, whoever else has the active cart has its lines.
LEMMA ListSyncStep ==
  ASSUME ScannerInv, NEW c \in Call, SyncServed(c)
  PROVE  CallsInv'
<1>1. ASSUME NEW d \in Call, calls'[d].at # "idle"
      PROVE  /\ calls'[d].does = calls[d].does /\ calls'[d].lines = calls[d].lines
             /\ calls'[d].sure = calls[d].sure /\ calls'[d].taken = calls[d].taken
             /\ AtServer(d)' => AtServer(d)
             /\ calls'[d].at = "polling" => calls[d].at = "polling"
             /\ calls'[d].open => calls'[d].at = "triggering"
  <2>1. CASE d = c
    BY <1>1, <2>1 DEF SyncServed, AtServer, ScannerInv, ScannerTypeOK, Calls, NoCall
  <2>2. CASE d # c
    BY <1>1, <2>2
       DEF SyncServed, AtServer, ScannerInv, CallsInv, OpenTriggers, ScannerTypeOK, Calls
  <2> QED
    BY <2>1, <2>2
<1>2. OpenTriggers'
  <2>1. \A d \in Call : calls'[d].at = "idle" => ~calls'[d].open
    BY DEF SyncServed, ScannerInv, CallsInv, OpenTriggers, ScannerTypeOK, Calls, NoCall
  <2> QED
    BY <1>1, <2>1 DEF OpenTriggers
<1>3. TogetherSame'
  BY <1>1 DEF ScannerInv, CallsInv, TogetherSame, AtServer
<1>4. HoldsOwn'
  <2> SUFFICES ASSUME NEW d \in Call, calls'[d].at = "triggering", calls'[d].sure
               PROVE  calls'[d].holds = calls[d].lines
    BY <1>1 DEF HoldsOwn
  <2>1. CASE d = c
    BY <2>1 DEF SyncServed, ScannerInv, ScannerTypeOK, Calls, NoCall
  <2>2. CASE d # c /\ calls[d].open
    <3>1. calls[d].sure /\ AtServer(d) /\ AtServer(c)
      BY <1>1, <2>2 DEF SyncServed, AtServer
    <3>2. calls[c].lines = calls[d].lines
      BY <3>1 DEF ScannerInv, CallsInv, TogetherSame
    <3> QED
      BY <2>2, <3>2 DEF SyncServed, ScannerInv, ScannerTypeOK, Calls
  <2>3. CASE d # c /\ ~calls[d].open
    BY <2>3 DEF SyncServed, ScannerInv, CallsInv, HoldsOwn
  <2> QED
    BY <2>1, <2>2, <2>3
<1>5. PlacesSure'
  <2> SUFFICES ASSUME NEW d \in Call, AtServer(d)', calls'[d].does = "place", calls'[d].sure
               PROVE  Blessed(calls[d].lines)'
    BY DEF PlacesSure
  <2> QED
    BY <1>1 DEF SyncServed, ScannerInv, CallsInv, PlacesSure, Blessed, AtServer
<1>6. PollsSure'
  BY <1>1 DEF SyncServed, ScannerInv, CallsInv, PollsSure, CheckOf
<1> QED
  BY <1>2, <1>3, <1>4, <1>5, <1>6 DEF CallsInv

\* A request is sent again: the copy is as sure as the first, and has its lines.
LEMMA SendAgainStep ==
  ASSUME ScannerInv, NEW c \in Call, NEW d \in Call, SendAgain(c, d)
  PROVE  CallsInv'
<1>1. /\ calls'[d].at = calls[c].at /\ calls'[d].does = calls[c].does
      /\ calls'[d].lines = calls[c].lines /\ calls'[d].sure = calls[c].sure
      /\ calls'[d].holds = calls[c].holds /\ calls'[d].open = calls[c].open
      /\ AtServer(c)
  BY DEF SendAgain, ScannerInv, ScannerTypeOK, Calls
<1>2. \A e \in Call : e # d => calls'[e] = calls[e]
  BY DEF SendAgain, ScannerInv, ScannerTypeOK
<1>3. OpenTriggers'
  BY <1>1, <1>2 DEF ScannerInv, CallsInv, OpenTriggers
<1>4. TogetherSame'
  BY <1>1, <1>2 DEF ScannerInv, CallsInv, TogetherSame, AtServer
<1>5. HoldsOwn'
  BY <1>1, <1>2 DEF ScannerInv, CallsInv, HoldsOwn
<1>6. PlacesSure'
  BY <1>1, <1>2 DEF SendAgain, ScannerInv, CallsInv, PlacesSure, Blessed, AtServer
<1>7. PollsSure'
  BY <1>1, <1>2 DEF SendAgain, ScannerInv, CallsInv, PollsSure, CheckOf, AtServer
<1> QED
  BY <1>3, <1>4, <1>5, <1>6, <1>7 DEF CallsInv

\* Letting go of a run changes nothing that the phone knows of it, and a run that the
\* phone tracked and lets go of is not on its way any more.
LEMMA ForgettingKeeps ==
  ASSUME NEW entry \in Started, NEW r
  PROVE  LET e == Forgetting(entry, r)
         IN  /\ e.does = entry.does /\ e.lines = entry.lines
             /\ e.status = entry.status /\ e.sure = entry.sure
             /\ OnItsWay(e) => OnItsWay(entry) /\ r # tracked.run
BY DEF Forgetting, Started, OnItsWay

\* What was tracked is let go of: nothing is on its way after that.
LEMMA LetGoStep ==
  ASSUME ScannerInv, started' = LetGoOfTracked
  PROVE  Grows /\ OrdersInv'
<1>1. \A r \in Run : /\ started'[r].does = started[r].does
                     /\ started'[r].lines = started[r].lines
                     /\ started'[r].status = started[r].status
                     /\ started'[r].sure = started[r].sure
                     /\ OnItsWay(started'[r]) => OnItsWay(started[r]) /\ r # tracked.run
  BY ForgettingKeeps DEF LetGoOfTracked, ScannerInv, ScannerTypeOK
<1>2. PlacedWasBlessed'
  BY <1>1 DEF ScannerInv, OrdersInv, PlacedWasBlessed
<1>3. Watched'
  BY <1>1 DEF ScannerInv, OrdersInv, Watched, OnItsWay
<1> QED
  BY <1>1, <1>2, <1>3 DEF Grows, OrdersInv

\* An answer r comes to c, with all the runs there are then: those there were, and at most
\* one that was not.
LEMMA AnsweredStep ==
  ASSUME ScannerInv, NEW c \in Call, calls[c].at = "triggering",
         NEW r \in Run, NEW made \in Run \cup {NoRun}, NEW all \in [Run -> Started],
         Answered(c, r, made, all),
         \A s \in Run : started[s].status # "none" => all[s] = started[s],
         \A s \in Run : all[s].does = "place" /\ all[s].sure =>
           \E w \in Run : /\ all[w].does = "check" /\ all[w].status = "green"
                          /\ all[w].lines = all[s].lines,
         \A s \in Run : OnItsWay(all[s]) =>
           \/ started[s].status # "none"
           \/ s = r /\ calls[c].heard /\ IsTap(c),
         calls[c].does # "place" /\ calls[c].sure =>
           /\ all[r].does = "check" /\ all[r].status # "none"
           /\ all[r].lines = calls[c].lines
  PROVE  CallsInv' /\ MemoryInv' /\ OrdersInv'
<1>1. \A s \in Run : /\ started'[s].does = all[s].does
                     /\ started'[s].lines = all[s].lines
                     /\ started'[s].status = all[s].status
                     /\ started'[s].sure = all[s].sure
                     /\ OnItsWay(started'[s]) => OnItsWay(all[s])
  BY ForgettingKeeps DEF Answered
<1>2. Grows
  BY <1>1 DEF Grows
<1>3. calls[c].does # "place" /\ calls[c].sure =>
        /\ started'[r].does = "check" /\ started'[r].status # "none"
        /\ started'[r].lines = calls[c].lines
  BY <1>1
<1>4. CallsInv'
  <2>1. ASSUME NEW d \in Call, d # c
        PROVE  Goes(d)
    <3>1. calls'[d] = CartClosed(c, d, made)
      BY <2>1 DEF Answered
    <3>2. /\ calls[d] \in Calls
          /\ calls[d].open => calls[d].at = "triggering"
      BY DEF ScannerInv, ScannerTypeOK, CallsInv, OpenTriggers
    <3> QED
      BY <3>1, <3>2 DEF CartClosed, Goes, Calls
  <2>2. Goes(c)
    <3>1. CASE calls[c].heard /\ ~IsTap(c)
      <4>1. calls'[c] = [calls[c] EXCEPT !.at = "polling", !.taken = r, !.open = FALSE]
        BY <3>1 DEF Answered
      <4>2. calls[c] \in Calls
        BY DEF ScannerInv, ScannerTypeOK
      <4>3. /\ calls'[c].at = "polling" /\ ~calls'[c].open /\ calls'[c].sure = calls[c].sure
            /\ calls'[c].taken = r /\ calls'[c].lines = calls[c].lines
        BY <4>1, <4>2 DEF Calls
      <4> QED
        BY <1>3, <3>1, <4>3 DEF Goes, IsTap, CheckOf
    <3>2. CASE ~(calls[c].heard /\ ~IsTap(c))
      <4>1. calls'[c] = NoCall
        BY <3>2 DEF Answered
      <4> QED
        BY <4>1 DEF Goes
    <3> QED
      BY <3>1, <3>2
  <2> QED
    BY <1>2, <2>1, <2>2, CallsStay DEF ScannerInv
<1>5. MemoryInv'
  <2>1. GreenSure' /\ CacheSure'
    BY <1>2, RememberedStays DEF Answered, ScannerInv, MemoryInv
  <2>2. CASE UNCHANGED <<tracked, asking>>
    BY <1>2, <2>1, <2>2, RememberedStays DEF Answered, ScannerInv, MemoryInv
  <2>3. CASE Tracking(r, calls[c].does, HashFired(c), calls[c].sure)
    <3>1. TrackedSure'
      BY <1>3, <2>3 DEF TrackedSure, Tracking, HashFired, CheckOf
    <3>2. AskingSure'
      BY <2>3 DEF AskingSure, Tracking, NotAsking
    <3> QED
      BY <2>1, <3>1, <3>2 DEF MemoryInv
  <2> QED
    BY <2>2, <2>3 DEF Answered
<1>6. PlacedWasBlessed'
  BY <1>1 DEF PlacedWasBlessed
<1>7. Watched'
  <2> SUFFICES ASSUME NEW s \in Run, OnItsWay(started'[s])
               PROVE  tracked'.run = s /\ ~tracked'.landed
    BY DEF Watched, OnItsWay
  <2>1. OnItsWay(all[s])
    BY <1>1
  <2>2. CASE calls[c].heard /\ IsTap(c)
    <3>1. started'[s] = Forgetting(all[s], s) /\ tracked'.run = r /\ ~tracked'.landed
      BY <2>2 DEF Answered, Tracking
    <3>2. s # tracked.run
      BY <3>1, ForgettingKeeps
    <3>3. started[s].status = "none"
      BY <2>1, <3>2 DEF ScannerInv, OrdersInv, Watched
    <3> QED
      BY <2>1, <3>1, <3>3
  <2>3. CASE ~(calls[c].heard /\ IsTap(c))
    <3>1. UNCHANGED tracked
      BY <2>3 DEF Answered
    <3>2. OnItsWay(started[s])
      BY <2>1, <2>3
    <3> QED
      BY <3>1, <3>2 DEF ScannerInv, OrdersInv, Watched
  <2> QED
    BY <2>2, <2>3
<1> QED
  BY <1>4, <1>5, <1>6, <1>7 DEF OrdersInv

\* A check in progress of the same lines answers: it is a check of the lines sent, for the
\* cart that is checked is the one that was sent if the call is sure.
LEMMA TwinFoundStep ==
  ASSUME ScannerInv, NEW c \in Call, TwinFound(c)
  PROVE  CallsInv' /\ MemoryInv' /\ OrdersInv'
<1> PICK r \in Run : Twin(c, r) /\ Answered(c, r, NoRun, started)
  BY DEF TwinFound
<1>1. \A s \in Run : started[s].does = "place" /\ started[s].sure =>
        \E w \in Run : /\ started[w].does = "check" /\ started[w].status = "green"
                       /\ started[w].lines = started[s].lines
  BY DEF ScannerInv, OrdersInv, PlacedWasBlessed
<1>2. \A s \in Run : OnItsWay(started[s]) => started[s].status # "none"
  BY DEF OnItsWay
<1>3. calls[c].sure => started[r].lines = calls[c].lines
  BY DEF TwinFound, Twin, ScannerInv, CallsInv, HoldsOwn
<1>4. /\ calls[c].at = "triggering" /\ started \in [Run -> Started]
      /\ started[r].does = "check" /\ started[r].status # "none"
      /\ NoRun \in Run \cup {NoRun} /\ Answered(c, r, NoRun, started)
  BY DEF TwinFound, Twin, ScannerInv, ScannerTypeOK
<1> QED
  BY <1>1, <1>2, <1>3, <1>4, AnsweredStep, SMTT(60)

\* A run is made of the cart as the server has it.
LEMMA RunMadeStep ==
  ASSUME ScannerInv, NEW c \in Call, RunMade(c)
  PROVE  CallsInv' /\ MemoryInv' /\ OrdersInv'
<1> DEFINE entry ==
      IF calls[c].does = "place"
        THEN [does |-> "place", lines |-> calls[c].holds, status |-> "active",
              sure |-> calls[c].sure, let |-> ~calls[c].heard]
        ELSE [NotStarted EXCEPT !.does = "check", !.lines = calls[c].holds,
                                !.status = "active"]
<1>1. PICK r \in Run : /\ started[r].status = "none"
                       /\ Answered(c, r, r, [started EXCEPT ![r] = entry])
  BY DEF RunMade
<1>2. /\ entry \in Started /\ entry.status = "active" /\ entry.lines = calls[c].holds
      /\ calls[c].does = "place" => /\ entry.does = "place" /\ entry.sure = calls[c].sure
                                    /\ entry.let = ~calls[c].heard
      /\ calls[c].does # "place" => entry.does = "check"
  BY DEF ScannerInv, ScannerTypeOK, Calls, Started, NotStarted
<1> DEFINE all == [started EXCEPT ![r] = entry]
<1> HIDE DEF entry
<1>3. /\ all \in [Run -> Started] /\ all[r] = entry
      /\ \A s \in Run : s # r => all[s] = started[s]
      /\ \A s \in Run : started[s].status # "none" => all[s] = started[s]
  BY <1>1, <1>2 DEF ScannerInv, ScannerTypeOK
<1>4. Answered(c, r, r, all)
  BY <1>1
<1> HIDE DEF all
<1>5. /\ calls[c].at = "triggering"
      /\ calls[c].sure => calls[c].holds = calls[c].lines
  BY DEF RunMade, ScannerInv, CallsInv, HoldsOwn
<1>6. ASSUME NEW s \in Run, all[s].does = "place", all[s].sure
      PROVE  \E w \in Run : /\ all[w].does = "check" /\ all[w].status = "green"
                            /\ all[w].lines = all[s].lines
  <2>1. Blessed(all[s].lines)
    <3>1. CASE s = r
      <4>1. calls[c].does = "place" /\ calls[c].sure
        BY <1>2, <1>3, <1>6, <3>1
      <4> QED
        BY <1>2, <1>3, <1>5, <3>1, <4>1 DEF ScannerInv, CallsInv, PlacesSure, AtServer
    <3>2. CASE s # r
      BY <1>3, <1>6, <3>2 DEF ScannerInv, OrdersInv, PlacedWasBlessed, Blessed
    <3> QED
      BY <3>1, <3>2
  <2> QED
    BY <2>1, <1>3 DEF Blessed
<1>7. ASSUME NEW s \in Run, OnItsWay(all[s])
      PROVE  \/ started[s].status # "none"
             \/ s = r /\ calls[c].heard /\ IsTap(c)
  <2>1. CASE s = r
    BY <1>2, <1>3, <1>7, <2>1 DEF OnItsWay, IsTap, ScannerInv, ScannerTypeOK, Calls
  <2>2. CASE s # r
    BY <1>3, <1>7, <2>2 DEF OnItsWay
  <2> QED
    BY <2>1, <2>2
<1> QED
  BY <1>2, <1>3, <1>4, <1>5, <1>6, <1>7, AnsweredStep

\* The worker settles a run: it is on its way no longer, and no check loses its green.
LEMMA SettlesStep ==
  ASSUME ScannerInv, NEW r \in Run, RunSettles(r)
  PROVE  CallsInv' /\ MemoryInv' /\ OrdersInv'
<1>1. PICK status \in {"red", "green", "placed"} :
        started' = [started EXCEPT ![r].status = status]
  BY DEF RunSettles
<1>2. /\ started[r].status = "active" /\ started'[r].status = status
      /\ \A s \in Run : /\ started'[s].does = started[s].does
                        /\ started'[s].lines = started[s].lines
                        /\ started'[s].sure = started[s].sure
                        /\ started'[s].let = started[s].let
                        /\ s # r => started'[s].status = started[s].status
  BY <1>1 DEF RunSettles, ScannerInv, ScannerTypeOK, Started
<1>3. Grows
  BY <1>2 DEF Grows
<1>4. CallsInv'
  BY <1>3, CallsStay, MarkedCallsGo DEF RunSettles, ScannerInv
<1>5. MemoryInv'
  BY <1>3, RememberedStays DEF RunSettles, ScannerInv, MemoryInv
<1>6. PlacedWasBlessed'
  BY <1>2, <1>3 DEF ScannerInv, OrdersInv, PlacedWasBlessed, Grows
<1>7. Watched'
  BY <1>2 DEF RunSettles, ScannerInv, OrdersInv, Watched, OnItsWay
<1> QED
  BY <1>4, <1>5, <1>6, <1>7 DEF OrdersInv

\* What starts no run and lets go of none: it is enough to look at what is remembered.
LEMMA MemoryOnlyStep ==
  ASSUME ScannerInv, UNCHANGED started, MemoryInv', CallsInv',
         UNCHANGED tracked \/ ~InFlight
  PROVE  CallsInv' /\ MemoryInv' /\ OrdersInv'
BY OrdersStay DEF ScannerInv, OrdersInv

\* Every step keeps the invariant.
LEMMA InvariantStep ==
  ASSUME ScannerInv, ScannerNext
  PROVE  CallsInv' /\ MemoryInv' /\ OrdersInv'
<1> DEFINE Goal == CallsInv' /\ MemoryInv' /\ OrdersInv'
<1>0. /\ ScannerTypeOK /\ CallsInv /\ MemoryInv /\ OrdersInv
      /\ GreenSure /\ AskingSure /\ TrackedSure /\ CacheSure /\ PollsSure /\ PlacesSure
      /\ UNCHANGED started => Grows
  BY OrdersStay DEF ScannerInv, MemoryInv, CallsInv
<1>a. (\A c \in Call : Goes(c)) /\ Grows => CallsInv'
  BY <1>0, CallsStay
<1>b. ~Unchecked.sure /\ ~Untracked.sure /\ ~NoGreen.sure /\ ~NotAsking.open
  BY DEF Unchecked, Untracked, NoGreen, NotAsking
<1>1. CASE EditCart
  <2>1. PICK content : CartBecomes(content)
    BY <1>1 DEF EditCart
  <2>2. CallsInv'
    BY <1>1, <1>0, <1>a, <2>1, MarkedCallsGo DEF EditCart
  <2>3. AskingSure' /\ CacheSure'
    BY <1>1, <1>b, <2>1 DEF EditCart, CartBecomes, AskingSure, CacheSure, ScannerInv, ScannerTypeOK
  <2>4. GreenSure' /\ TrackedSure'
    BY <1>1, <1>0, RememberedStays DEF EditCart
  <2> QED
    BY <1>1, <2>2, <2>3, <2>4, MemoryOnlyStep DEF EditCart, MemoryInv
<1>2. CASE Dismiss
  <2>1. Grows /\ OrdersInv'
    BY <1>2, LetGoStep DEF Dismiss
  <2>2. CallsInv'
    BY <1>2, <1>a, <2>1, MarkedCallsGo, <1>0 DEF Dismiss
  <2>3. GreenSure' /\ AskingSure' /\ CacheSure'
    BY <1>2, <1>0, <2>1, RememberedStays DEF Dismiss
  <2>4. TrackedSure'
    BY <1>2, <1>b DEF Dismiss, TrackedSure
  <2> QED
    BY <2>1, <2>2, <2>3, <2>4 DEF MemoryInv
<1>3. CASE PollLands
  <2>1. UNCHANGED started /\ Grows
    BY <1>3, <1>0 DEF PollLands
  <2>2. TrackedSure'
    BY <1>3, <1>0, <2>1 DEF PollLands, TrackedSure, CheckOf, ScannerTypeOK, Trackings
  <2>3. GreenSure'
    <3>1. CASE UNCHANGED green
      BY <1>0, <2>1, <3>1, RememberedStays
    <3>2. CASE /\ tracked.does = "check" /\ started[tracked.run].status = "green"
               /\ green' = [lines |-> tracked.lines, sure |-> tracked.sure]
      BY <1>0, <2>1, <3>2 DEF TrackedSure, CheckOf, GreenSure, Blessed
    <3> QED
      BY <1>3, <3>1, <3>2 DEF PollLands
  <2>4. CallsInv'
    BY <1>3, <1>0, <1>a, <2>1, MarkedCallsGo DEF PollLands
  <2>5. AskingSure' /\ CacheSure'
    <3>1. CASE CartBecomes(NoContent) /\ asking' = [asking EXCEPT !.sure = FALSE]
      BY <1>0, <1>b, <3>1 DEF CartBecomes, AskingSure, CacheSure, ScannerTypeOK
    <3>2. CASE UNCHANGED <<items, due, cache, calls, asking>>
      BY <1>0, <2>1, <3>2, RememberedStays
    <3> QED
      BY <1>3, <3>1, <3>2 DEF PollLands
  <2>6. OrdersInv'
    <3>1. PlacedWasBlessed'
      BY <1>0, <2>1, OrdersStay DEF OrdersInv
    <3>2. Watched'
      BY <1>0, <1>3, <2>1 DEF PollLands, Over, OrdersInv, Watched, OnItsWay
    <3> QED
      BY <3>1, <3>2 DEF OrdersInv
  <2> QED
    BY <2>2, <2>3, <2>4, <2>5, <2>6 DEF MemoryInv
<1>4. CASE GreenExpires
  <2>1. AskingSure' /\ TrackedSure' /\ CacheSure' /\ CallsInv'
    BY <1>4, <1>0, <1>a, RememberedStays, MarkedCallsGo DEF GreenExpires
  <2>2. GreenSure'
    BY <1>4, <1>b DEF GreenExpires, GreenSure
  <2> QED
    BY <1>4, <2>1, <2>2, MemoryOnlyStep DEF GreenExpires, MemoryInv
<1>5. CASE CacheExpires
  <2>1. GreenSure' /\ AskingSure' /\ TrackedSure' /\ CallsInv'
    BY <1>5, <1>0, <1>a, RememberedStays, MarkedCallsGo DEF CacheExpires
  <2>2. CacheSure'
    BY <1>5, <1>b DEF CacheExpires, CacheSure
  <2> QED
    BY <1>5, <2>1, <2>2, MemoryOnlyStep DEF CacheExpires, MemoryInv
<1>6. CASE LatchOnCache
  <2>1. GreenSure' /\ CallsInv'
    BY <1>6, <1>0, <1>a, RememberedStays, MarkedCallsGo DEF LatchOnCache
  <2>2. AskingSure' /\ CacheSure'
    BY <1>6, <1>b DEF LatchOnCache, Tracking, AskingSure, CacheSure
  <2>3. TrackedSure'
    BY <1>6, <1>0 DEF LatchOnCache, Tracking, TrackedSure, CacheSure, CheckOf
  <2> QED
    BY <1>6, <2>1, <2>2, <2>3, MemoryOnlyStep DEF LatchOnCache, CanCheck, MemoryInv
<1>7. CASE LatchOnCall
  <2>1. PICK c \in Latchable : Tracking(calls[c].taken, "check", items, calls[c].sure)
    BY <1>7 DEF LatchOnCall
  <2>2. GreenSure' /\ CacheSure' /\ CallsInv'
    BY <1>7, <1>0, <1>a, RememberedStays, MarkedCallsGo DEF LatchOnCall
  <2>3. AskingSure'
    BY <1>b, <2>1 DEF Tracking, AskingSure
  <2>4. TrackedSure'
    BY <1>7, <1>0, <2>1 DEF LatchOnCall, Latchable, Tracking, TrackedSure, PollsSure, CheckOf
  <2> QED
    BY <1>7, <2>2, <2>3, <2>4, MemoryOnlyStep DEF LatchOnCall, CanCheck, MemoryInv
<1>8. CASE TapPlace
  <2>1. GreenSure' /\ TrackedSure' /\ CacheSure' /\ CallsInv'
    BY <1>8, <1>0, <1>a, RememberedStays, MarkedCallsGo DEF TapPlace
  <2>2. AskingSure'
    BY <1>8, <1>0 DEF TapPlace, PlaceGate, AskingSure, GreenSure, Blessed
  <2> QED
    BY <1>8, <2>1, <2>2, MemoryOnlyStep DEF TapPlace, MemoryInv
<1>9. CASE CloseDrawer
  <2>1. GreenSure' /\ TrackedSure' /\ CacheSure' /\ CallsInv'
    BY <1>9, <1>0, <1>a, RememberedStays, MarkedCallsGo DEF CloseDrawer
  <2>2. AskingSure'
    BY <1>9, <1>b DEF CloseDrawer, AskingSure
  <2> QED
    BY <1>9, <2>1, <2>2, MemoryOnlyStep DEF CloseDrawer, MemoryInv
<1>10. CASE ChangePage
  <2>1. GreenSure' /\ TrackedSure' /\ CallsInv'
    BY <1>10, <1>0, <1>a, RememberedStays, MarkedCallsGo DEF ChangePage
  <2>2. AskingSure' /\ CacheSure'
    BY <1>10, <1>b DEF ChangePage, AskingSure, CacheSure
  <2> QED
    BY <1>10, <2>1, <2>2, MemoryOnlyStep DEF ChangePage, MemoryInv
<1>11. CASE Reload
  <2>1. AskingSure' /\ CacheSure'
    BY <1>11, <1>b DEF Reload, AskingSure, CacheSure
  <2>2. CASE tracked' = Rehydrated /\ UNCHANGED started
    <3>1. Grows
      BY <1>0, <2>2
    <3>2. GreenSure' /\ CallsInv'
      BY <1>11, <1>0, <1>a, <3>1, RememberedStays, MarkedCallsGo DEF Reload
    <3>3. TrackedSure'
      BY <1>0, <2>2 DEF Rehydrated, TrackedSure, CheckOf, ScannerTypeOK, Trackings
    <3>4. PlacedWasBlessed'
      BY <1>0, <2>2, OrdersStay DEF OrdersInv
    <3>5. Watched'
      BY <1>0, <2>2 DEF Rehydrated, OrdersInv, Watched, ScannerTypeOK, Trackings
    <3> QED
      BY <2>1, <3>2, <3>3, <3>4, <3>5 DEF MemoryInv, OrdersInv
  <2>3. CASE tracked' = Untracked /\ started' = LetGoOfTracked
    <3>1. Grows /\ OrdersInv'
      BY <2>3, LetGoStep
    <3>2. GreenSure' /\ CallsInv'
      BY <1>11, <1>0, <1>a, <3>1, RememberedStays, MarkedCallsGo DEF Reload
    <3>3. TrackedSure'
      BY <1>b, <2>3 DEF TrackedSure
    <3> QED
      BY <2>1, <3>1, <3>2, <3>3 DEF MemoryInv
  <2> QED
    BY <1>11, <2>2, <2>3 DEF Reload
<1>12. ASSUME NEW c \in Call, BackgroundCheck(c)
       PROVE  Goal
  <2>1. CallsInv'
    BY <1>12, BeginStep DEF BackgroundCheck
  <2>2. MemoryInv'
    BY <1>12, <1>0, RememberedStays DEF BackgroundCheck, MemoryInv
  <2> QED
    BY <1>12, <2>1, <2>2, MemoryOnlyStep DEF BackgroundCheck
<1>13. ASSUME NEW c \in Call, TapCheck(c)
       PROVE  Goal
  <2>1. CallsInv'
    BY <1>13, BeginStep DEF TapCheck
  <2>2. MemoryInv'
    BY <1>13, <1>0, RememberedStays DEF TapCheck, MemoryInv
  <2> QED
    BY <1>13, <2>1, <2>2, MemoryOnlyStep DEF TapCheck
<1>14. ASSUME NEW c \in Call, ConfirmPlace(c)
       PROVE  Goal
  <2>1. CallsInv'
    BY <1>14, <1>0, BeginStep DEF ConfirmPlace, AskingSure
  <2>2. GreenSure' /\ TrackedSure' /\ CacheSure'
    BY <1>14, <1>0, RememberedStays DEF ConfirmPlace
  <2>3. AskingSure'
    BY <1>14, <1>b DEF ConfirmPlace, AskingSure
  <2> QED
    BY <1>14, <2>1, <2>2, <2>3, MemoryOnlyStep DEF ConfirmPlace, MemoryInv
<1>15. ASSUME NEW c \in Call, SyncServed(c)
       PROVE  Goal
  <2>1. CallsInv'
    BY <1>15, ListSyncStep
  <2>2. MemoryInv'
    BY <1>15, <1>0, RememberedStays DEF SyncServed, MemoryInv
  <2> QED
    BY <1>15, <2>1, <2>2, MemoryOnlyStep DEF SyncServed
<1>16. ASSUME NEW c \in Call, TwinFound(c)
       PROVE  Goal
  BY <1>16, TwinFoundStep
<1>17. ASSUME NEW c \in Call, RunMade(c)
       PROVE  Goal
  BY <1>17, RunMadeStep
<1>18. ASSUME NEW c \in Call, CallEnds(c)
       PROVE  Goal
  <2>1. \A d \in Call : Goes(d)
    BY <1>18, <1>0 DEF CallEnds, Goes, ScannerTypeOK
  <2>2. CallsInv' /\ MemoryInv'
    BY <1>18, <1>0, <1>a, <2>1, RememberedStays DEF CallEnds, MemoryInv
  <2> QED
    BY <1>18, <2>2, MemoryOnlyStep DEF CallEnds
<1>19. ASSUME NEW c \in Call, GiveUp(c)
       PROVE  Goal
  <2>1. \A d \in Call : Goes(d)
    BY <1>19, <1>0 DEF GiveUp, Goes, ScannerTypeOK, Calls
  <2>2. CallsInv' /\ MemoryInv'
    BY <1>19, <1>0, <1>a, <2>1, RememberedStays DEF GiveUp, MemoryInv
  <2> QED
    BY <1>19, <2>2, MemoryOnlyStep DEF GiveUp
<1>20. ASSUME NEW c \in Call, BackgroundLands(c)
       PROVE  Goal
  <2>1. \A d \in Call : Goes(d)
    BY <1>20, <1>0 DEF BackgroundLands, Goes, ScannerTypeOK
  <2>2. CallsInv' /\ GreenSure' /\ AskingSure' /\ TrackedSure'
    BY <1>20, <1>0, <1>a, <2>1, RememberedStays DEF BackgroundLands
  <2>3. CacheSure'
    BY <1>20, <1>0, RememberedStays DEF BackgroundLands, PollsSure, CacheSure, CheckOf
  <2> QED
    BY <1>20, <2>2, <2>3, MemoryOnlyStep DEF BackgroundLands, MemoryInv
<1>21. ASSUME NEW c \in Call, NEW d \in Call, SendAgain(c, d)
       PROVE  Goal
  <2>1. CallsInv'
    BY <1>21, SendAgainStep
  <2>2. MemoryInv'
    BY <1>21, <1>0, RememberedStays DEF SendAgain, MemoryInv
  <2> QED
    BY <1>21, <2>1, <2>2, MemoryOnlyStep DEF SendAgain
<1>22. ASSUME NEW r \in Run, RunSettles(r)
       PROVE  Goal
  BY <1>22, SettlesStep
<1> QED
  BY <1>1, <1>2, <1>3, <1>4, <1>5, <1>6, <1>7, <1>8, <1>9, <1>10, <1>11, <1>12, <1>13, <1>14,
     <1>15, <1>16, <1>17, <1>18, <1>19, <1>20, <1>21, <1>22
     DEF ScannerNext, PhoneStep, CallStep

-----------------------------------------------------------------------------
(* ScannerOrders: theorems *)

\* In the beginning nothing is remembered, called or ordered.
LEMMA ScannerInitially ==
  ScannerInit => ScannerInv
<1> SUFFICES ASSUME ScannerInit PROVE ScannerInv
  OBVIOUS
<1>1. ScannerTypeOK
  <2>1. CallsOK
    BY EmptyValues DEF ScannerInit, CallsOK
  <2>2. PhoneOK /\ RunsOK
    BY EmptyValues DEF ScannerInit, PhoneOK, RunsOK
  <2>3. turns \in 0..MaxTurns
    BY ScannerAssumption DEF ScannerInit
  <2> QED
    BY <2>1, <2>2, <2>3, TypeParts
<1>2. CallsInv
  BY DEF ScannerInit, NoCall, CallsInv, OpenTriggers, TogetherSame, HoldsOwn, PlacesSure,
         PollsSure, AtServer
<1>3. MemoryInv
  BY DEF ScannerInit, MemoryInv, GreenSure, AskingSure, TrackedSure, CacheSure, NoGreen,
         NotAsking, Untracked, Unchecked
<1>4. OrdersInv
  BY DEF ScannerInit, NotStarted, OrdersInv, PlacedWasBlessed, Watched, OnItsWay
<1> QED
  BY <1>1, <1>2, <1>3, <1>4 DEF ScannerInv

\* The strengthened invariant: what each call, latch, cached result, green check and open
\* confirmation is sure of, and the order in flight.
THEOREM ScannerSound == ScannerSpec => []ScannerInv
<1>1. ScannerInit => ScannerInv
  BY ScannerInitially
<1>2. ScannerInv /\ [ScannerNext]_scannerVars => ScannerInv'
  <2> SUFFICES ASSUME ScannerInv, [ScannerNext]_scannerVars
               PROVE  ScannerInv'
    OBVIOUS
  <2>1. CASE ScannerNext
    BY <2>1, TypeStep, InvariantStep DEF ScannerInv, CallsInv
  <2>2. CASE UNCHANGED scannerVars
    <3>1. Grows /\ OrdersInv'
      BY <2>2, OrdersStay DEF scannerVars, ScannerInv, OrdersInv
    <3>2. CallsInv'
      BY <2>2, <3>1, CallsStay, MarkedCallsGo DEF scannerVars, ScannerInv
    <3>3. MemoryInv'
      BY <2>2, <3>1, RememberedStays DEF scannerVars, ScannerInv, MemoryInv
    <3>4. ScannerTypeOK'
      BY <2>2 DEF scannerVars, ScannerInv, ScannerTypeOK
    <3> QED
      BY <3>1, <3>2, <3>3, <3>4 DEF ScannerInv
  <2> QED
    BY <2>1, <2>2
<1> QED
  BY <1>1, <1>2, PTL DEF ScannerSpec

\* The phone's state keeps its types (useActiveOrder, useBackgroundPreValidate): what is
\* polled, cached or tracked is a run, whatever is lost, reloaded or answered late.
THEOREM ScannerTypeCorrect == ScannerSpec => []ScannerTypeOK
<1>1. ScannerInv => ScannerTypeOK
  BY DEF ScannerInv
<1> QED
  BY <1>1, ScannerSound, PTL

\* You can never send a cart MILO has not blessed (place-gate.ts), for any carts and
\* however many calls, edits and reloads there are.
THEOREM PlacesAreBlessed == ScannerSpec => []PlacedWasBlessed
<1>1. ScannerInv => PlacedWasBlessed
  BY DEF ScannerInv, OrdersInv
<1> QED
  BY <1>1, ScannerSound, PTL

\* While an order that the phone has not let go of is in flight it is the one that is
\* tracked, and Place is locked (useActiveOrder, resolvePlaceGate).
THEOREM OrdersStayWatched == ScannerSpec => []OrdersAreWatched
<1>1. ScannerInv => OrdersAreWatched
  <2> SUFFICES ASSUME ScannerInv, NEW r \in Run, OnItsWay(started[r])
               PROVE  tracked.run = r /\ ~PlaceGate
    BY DEF OrdersAreWatched, OnItsWay
  <2>1. tracked.run = r /\ ~tracked.landed
    BY DEF ScannerInv, OrdersInv, Watched
  <2> QED
    BY <2>1, ScannerAssumption DEF PlaceGate, InFlight
<1> QED
  BY <1>1, ScannerSound, PTL

-----------------------------------------------------------------------------
(* PhoneCart: lines, wherever they are *)

\* A line of p: a quantity that was picked is one that is offered for what the line knows
\* of p, and a line without a quantity is none.
Chosen(p, line) == line.picked => line.quantity \in Offered(p, line.facts)
LineOfProduct(p, line) ==
  line \in CartLines /\ (line.quantity = 0 => line = NoLine) /\ Chosen(p, line)

\* So are all lines, in the cart, put aside, or asked about.
LinesChosen ==
  lines \in [Product -> CartLines] /\ \A p \in Product : LineOfProduct(p, lines[p])
SavedChosen ==
  saved \in [Product -> CartLines] /\ \A p \in Product : LineOfProduct(p, saved[p])
AskedChosen ==
  pendingAdd # Nothing =>
    /\ pendingAdd \in [product : Product, line : CartLines]
    /\ LineOfProduct(pendingAdd.product, pendingAdd.line) /\ pendingAdd.line.quantity > 0

PhoneCartInv ==
  /\ catalog \in [Product -> Facts] /\ touches \in 0..MaxTouches
  /\ LinesChosen /\ SavedChosen /\ AskedChosen

-----------------------------------------------------------------------------
(* Numbers *)

\* A set of numbers that is not empty has a least one, for "less than" is well-founded.
LEMMA LeastNumber ==
  ASSUME NEW S \in SUBSET Nat, S # {}
  PROVE  \E x \in S : \A y \in S : x <= y
<1> DEFINE less == OpToRel(<, Nat)
<1>1. PICK x \in S : \A y \in S : <<y, x>> \notin less
  <2>1. IsWellFoundedOn(less, Nat)
    BY NatLessThanWellFounded
  <2> HIDE DEF less
  <2> QED
    BY <2>1, WFMin
<1>2. \A y \in S : ~(y < x)
  BY <1>1 DEF OpToRel
<1> QED
  BY <1>2

\* It is Min, and a bounded set has a greatest, which is Max.
LEMMA Extremes ==
  ASSUME NEW S \in SUBSET Nat, S # {}
  PROVE  /\ Min(S) \in S
         /\ \A n \in Nat : (\A x \in S : x <= n) => Max(S) \in S
<1>1. Min(S) \in S
  BY LeastNumber DEF Min
<1>2. ASSUME NEW n \in Nat, \A x \in S : x <= n
      PROVE  Max(S) \in S
  <2> DEFINE T == {m \in 0..n : n - m \in S}
  <2>1. T \in SUBSET Nat /\ \A x \in S : n - x \in T
    BY <1>2
  <2>2. PICK m \in T : \A k \in T : m <= k
    <3> HIDE DEF T
    <3> QED
      BY <2>1, LeastNumber
  <2>3. n - m \in S
    OBVIOUS
  <2>4. \A y \in S : n - m >= y
    <3> TAKE y \in S
    <3>1. m <= n - y
      BY <2>1, <2>2
    <3> QED
      BY <1>2, <3>1
  <2> QED
    BY <2>3, <2>4 DEF Max
<1> QED
  BY <1>1, <1>2

-----------------------------------------------------------------------------
(* Quantities and lines *)

\* What is offered is a bounded set of positive quantities.
LEMMA OfferedNumbers ==
  ASSUME NEW p, NEW f
  PROVE  /\ Offered(p, f) \subseteq Nat \ {0}
         /\ \E n \in Nat : \A q \in Offered(p, f) : q <= n
<1>1. Splits(f.size_ml) \subseteq 1..24
  BY DEF Splits
<1>2. MaxOffered \in Nat
  BY PhoneCartAssumption
<1>3. Offered(p, f) \subseteq (1..24) \cup (1..MaxOffered)
  BY <1>1 DEF Offered
<1>4. \A q \in Offered(p, f) : q <= MaxOffered + 24
  BY <1>2, <1>3
<1> QED
  BY <1>2, <1>3, <1>4

\* A step from a quantity leads to another, an offered one if there are any.
LEMMA StepsAreOffered ==
  ASSUME NEW line \in CartLines, line.quantity > 0, NEW offered \in SUBSET (Nat \ {0}),
         NEW n \in Nat, \A q \in offered : q <= n, NEW up \in BOOLEAN
  PROVE  /\ Stepped(line, offered, up) \in Nat \ {0}
         /\ offered # {} => Stepped(line, offered, up) \in offered
<1>1. line.quantity \in Nat
  BY DEF CartLines
<1> DEFINE above == {q \in offered : q > line.quantity}
           below == {q \in offered : q < line.quantity}
<1>2. /\ above # {} => Min(above) \in offered
      /\ below # {} => Max(below) \in offered
      /\ offered # {} => Max(offered) \in offered /\ Min(offered) \in offered
  <2>1. above \in SUBSET Nat /\ below \in SUBSET Nat /\ offered \in SUBSET Nat
    OBVIOUS
  <2>2. above # {} => Min(above) \in above
    BY <2>1, Extremes
  <2>3. below # {} => Max(below) \in below
    BY <2>1, Extremes
  <2>4. offered # {} => Max(offered) \in offered /\ Min(offered) \in offered
    BY <2>1, Extremes
  <2> QED
    BY <2>2, <2>3, <2>4
<1>3. Max({1, line.quantity - 1}) \in Nat \ {0}
  <2> DEFINE two == {1, line.quantity - 1}
  <2>1. two \in SUBSET Nat /\ two # {} /\ \A x \in two : x <= line.quantity
    BY <1>1
  <2>2. Max(two) \in two /\ \A x \in two : Max(two) >= x
    <3>1. Max(two) \in two
      <4> HIDE DEF two
      <4> QED
        BY <1>1, <2>1, Extremes
    <3>2. \E x \in two : \A y \in two : x >= y
      BY <1>1
    <3> QED
      BY <3>1, <3>2 DEF Max
  <2> QED
    BY <1>1, <2>2
<1> HIDE DEF above, below
<1>4. Stepped(line, offered, up) =
        CASE offered = {} /\ up  -> line.quantity + 1
          [] offered = {} /\ ~up -> Max({1, line.quantity - 1})
          [] above # {} /\ up    -> Min(above)
          [] below # {} /\ ~up   -> Max(below)
          [] OTHER               -> IF up THEN Max(offered) ELSE Min(offered)
  BY DEF Stepped, above, below
<1> QED
  BY <1>1, <1>2, <1>3, <1>4 DEF above, below

\* A new line of p, with what the catalogue says of it.
LEMMA NewLine ==
  ASSUME PhoneCartInv, NEW p \in Product, NEW q \in Nat \ {0}, NEW picked \in BOOLEAN,
         picked => q \in Offered(p, catalog[p])
  PROVE  LineOfProduct(p, LineOf(p, q, picked)) /\ LineOf(p, q, picked).quantity = q
<1>1. catalog[p] \in FactRecords
  BY PhoneCartAssumption DEF PhoneCartInv
<1> QED
  BY <1>1 DEF LineOfProduct, LineOf, CartLines, Chosen

\* So is one that was not picked.
LEMMA UnpickedLine ==
  ASSUME PhoneCartInv, NEW p \in Product, NEW q \in Nat \ {0}
  PROVE  LineOfProduct(p, LineOf(p, q, FALSE)) /\ LineOf(p, q, FALSE).quantity > 0
<1>1. catalog[p] \in FactRecords
  BY PhoneCartAssumption DEF PhoneCartInv
<1> QED
  BY <1>1 DEF LineOfProduct, LineOf, CartLines, Chosen

\* Lines are merged into a line.
LEMMA MergedLine ==
  ASSUME NEW p \in Product, NEW old, NEW new, LineOfProduct(p, old), LineOfProduct(p, new),
         new.quantity > 0
  PROVE  LineOfProduct(p, Merged(old, new)) /\ Merged(old, new).quantity > 0
<1>1. CASE old.quantity = 0
  BY <1>1 DEF Merged
<1>2. CASE old.quantity # 0
  <2> DEFINE sum == old.quantity + new.quantity
  <2>1. sum \in Nat /\ sum > 0
    BY <1>2 DEF LineOfProduct, CartLines
  <2>2. Merged(old, new) = [old EXCEPT !.quantity = sum, !.picked = FALSE]
    BY <1>2 DEF Merged
  <2> HIDE DEF sum
  <2>3. Merged(old, new) \in CartLines
    BY <2>1, <2>2, Zenon DEF LineOfProduct, CartLines
  <2>4. Merged(old, new).quantity = sum /\ ~Merged(old, new).picked
    BY <2>2 DEF LineOfProduct, CartLines
  <2> QED
    BY <2>1, <2>3, <2>4 DEF LineOfProduct, Chosen
<1> QED
  BY <1>1, <1>2

\* No line is a line of any product.
LEMMA NoLineOfProduct ==
  \A p : LineOfProduct(p, NoLine)
BY DEF LineOfProduct, NoLine, NoFacts, CartLines, FactRecords, Chosen

\* A product's line gets another quantity, which is picked or not.
LEMMA LineChanged ==
  ASSUME NEW p, NEW line, LineOfProduct(p, line), NEW q \in Nat \ {0}, NEW picked \in BOOLEAN,
         picked => q \in Offered(p, line.facts)
  PROVE  LineOfProduct(p, [line EXCEPT !.quantity = q, !.picked = picked])
<1> DEFINE new == [line EXCEPT !.quantity = q, !.picked = picked]
<1>1. new \in CartLines
  BY Zenon DEF LineOfProduct, CartLines
<1>2. new.quantity = q /\ new.picked = picked /\ new.facts = line.facts
  BY DEF LineOfProduct, CartLines
<1> HIDE DEF new
<1>3. LineOfProduct(p, new)
  BY <1>1, <1>2 DEF LineOfProduct, Chosen
<1> QED
  BY <1>3 DEF new

\* One product's line is replaced.
LEMMA OneLineChanges ==
  ASSUME PhoneCartInv, NEW p \in Product, NEW new, LineOfProduct(p, new)
  PROVE  /\ lines' = [lines EXCEPT ![p] = new] => LinesChosen'
         /\ saved' = [saved EXCEPT ![p] = new] => SavedChosen'
BY DEF PhoneCartInv, LinesChosen, SavedChosen, LineOfProduct, Chosen

-----------------------------------------------------------------------------
(* Steps of the cart *)

\* An add puts a line in, or asks about it.
LEMMA GuardedAdd ==
  ASSUME PhoneCartInv, NEW p \in Product, NEW new, LineOfProduct(p, new), new.quantity > 0,
         AddItemGuarded(p, new)
  PROVE  LinesChosen' /\ AskedChosen'
<1>1. CASE Trips(p, new)
  <2>1. new \in CartLines
    BY DEF LineOfProduct
  <2> QED
    BY <1>1, <2>1 DEF AddItemGuarded, PhoneCartInv, LinesChosen, AskedChosen
<1>2. CASE ~Trips(p, new)
  <2>1. LineOfProduct(p, Merged(lines[p], new))
    BY MergedLine DEF PhoneCartInv, LinesChosen
  <2>2. lines' = [lines EXCEPT ![p] = Merged(lines[p], new)]
    BY <1>2 DEF AddItemGuarded, Adds
  <2>3. LinesChosen'
    BY <2>1, <2>2, OneLineChanges
  <2> QED
    BY <1>2, <2>3 DEF AddItemGuarded, PhoneCartInv, AskedChosen
<1> QED
  BY <1>1, <1>2

\* Every change of the cart, or of the catalogue, keeps lines what they are.
LEMMA CartStep ==
  ASSUME PhoneCartInv, PhoneCartNext
  PROVE  PhoneCartInv'
<1> DEFINE Goal == PhoneCartInv'
<1>0. /\ LinesChosen /\ SavedChosen /\ AskedChosen
      /\ \A p \in Product : LineOfProduct(p, lines[p]) /\ LineOfProduct(p, saved[p])
      /\ \A p \in Product : lines[p] \in CartLines /\ saved[p] \in CartLines
  BY DEF PhoneCartInv, LinesChosen, SavedChosen
<1>t. Touch \/ UNCHANGED touches => touches' \in 0..MaxTouches
  BY PhoneCartAssumption DEF Touch, PhoneCartInv
<1>w. \A q \in Wishes : q \in Nat \ {0}
  BY PhoneCartAssumption
<1>c. UNCHANGED catalog => catalog' \in [Product -> Facts]
  BY DEF PhoneCartInv
<1>l. /\ UNCHANGED lines => LinesChosen'
      /\ UNCHANGED saved => SavedChosen'
      /\ UNCHANGED pendingAdd => AskedChosen'
  BY <1>0 DEF LinesChosen, SavedChosen, AskedChosen
<1>1. ASSUME NEW p \in Product, AddFromCard(p)
      PROVE  Goal
  <2> DEFINE offered == Offered(p, catalog[p])
  <2>1. PICK q \in IF offered = {} THEN Wishes ELSE offered :
          AddItemGuarded(p, LineOf(p, q, offered # {}))
    BY <1>1 DEF AddFromCard
  <2>2. q \in Nat \ {0} /\ (offered # {} => q \in offered)
    BY <1>w, OfferedNumbers
  <2>3. LineOfProduct(p, LineOf(p, q, offered # {})) /\ LineOf(p, q, offered # {}).quantity > 0
    <3> DEFINE picked == offered # {}
    <3>1. picked \in BOOLEAN /\ (picked => q \in Offered(p, catalog[p]))
      BY <2>2
    <3> HIDE DEF picked
    <3>2. LineOfProduct(p, LineOf(p, q, picked)) /\ LineOf(p, q, picked).quantity = q
      BY <2>2, <3>1, NewLine
    <3> QED
      BY <2>2, <3>2 DEF picked
  <2> HIDE DEF offered
  <2>4. LinesChosen' /\ AskedChosen'
    BY <2>1, <2>3, GuardedAdd
  <2> QED
    BY <1>1, <1>t, <1>c, <1>l, <2>4 DEF AddFromCard, PhoneCartInv
<1>2. ASSUME NEW p \in Product, Reorder(p)
      PROVE  Goal
  <2>1. PICK q \in Wishes : AddItemGuarded(p, LineOf(p, q, FALSE))
    BY <1>2 DEF Reorder
  <2>2. LineOfProduct(p, LineOf(p, q, FALSE)) /\ LineOf(p, q, FALSE).quantity > 0
    BY <1>w, UnpickedLine
  <2>3. LinesChosen' /\ AskedChosen'
    BY <2>1, <2>2, GuardedAdd
  <2> QED
    BY <1>2, <1>t, <1>c, <1>l, <2>3 DEF Reorder, PhoneCartInv
<1>3. ASSUME NEW p \in Product, PickQuantity(p)
      PROVE  Goal
  <2>1. PICK q \in Offered(p, lines[p].facts) :
          lines' = [lines EXCEPT ![p].quantity = q, ![p].picked = TRUE]
    BY <1>3 DEF PickQuantity
  <2>2. lines' = [lines EXCEPT ![p] = [lines[p] EXCEPT !.quantity = q, !.picked = TRUE]]
    BY <1>0, <2>1 DEF LinesChosen
  <2>3. q \in Nat \ {0}
    BY <2>1, OfferedNumbers
  <2>4. LinesChosen'
    BY <1>0, <2>1, <2>2, <2>3, LineChanged, OneLineChanges
  <2> QED
    BY <1>3, <1>t, <1>c, <1>l, <2>4 DEF PickQuantity, PhoneCartInv
<1>4. ASSUME NEW p \in Product, NEW up \in BOOLEAN, StepLine(p, up)
      PROVE  Goal
  <2> DEFINE offered == Offered(p, lines[p].facts)
             picked == offered # {}
             q == Stepped(lines[p], offered, up)
  <2>1. lines' = [lines EXCEPT ![p].quantity = q, ![p].picked = picked]
    BY <1>4 DEF StepLine
  <2>2. q \in Nat \ {0} /\ (picked => q \in offered) /\ picked \in BOOLEAN
    <3>1. lines[p].quantity > 0
      BY <1>4 DEF StepLine, InCart
    <3>2. offered \in SUBSET (Nat \ {0}) /\ \E n \in Nat : \A x \in offered : x <= n
      BY OfferedNumbers
    <3> HIDE DEF offered
    <3> QED
      BY <1>0, <3>1, <3>2, StepsAreOffered
  <2> HIDE DEF q, picked
  <2>3. lines' = [lines EXCEPT ![p] = [lines[p] EXCEPT !.quantity = q, !.picked = picked]]
    BY <1>0, <2>1 DEF LinesChosen
  <2>4. LinesChosen'
    BY <1>0, <2>2, <2>3, LineChanged, OneLineChanges
  <2> QED
    BY <1>4, <1>t, <1>c, <1>l, <2>4 DEF StepLine, PhoneCartInv
<1>5. ASSUME NEW p \in Product, SaveForLater(p)
      PROVE  Goal
  <2>1. LineOfProduct(p, Merged(saved[p], lines[p]))
    BY <1>0, <1>5, MergedLine DEF SaveForLater, InCart
  <2>2. LinesChosen' /\ SavedChosen'
    BY <1>5, <2>1, OneLineChanges, NoLineOfProduct DEF SaveForLater
  <2> QED
    BY <1>5, <1>t, <1>c, <1>l, <2>2 DEF SaveForLater, PhoneCartInv
<1>6. ASSUME NEW p \in Product, MoveSavedToCart(p)
      PROVE  Goal
  <2>1. LineOfProduct(p, Merged(lines[p], saved[p]))
    BY <1>0, <1>6, MergedLine DEF MoveSavedToCart
  <2>2. LinesChosen' /\ SavedChosen'
    BY <1>6, <2>1, OneLineChanges, NoLineOfProduct DEF MoveSavedToCart, Adds
  <2> QED
    BY <1>6, <1>t, <1>c, <1>l, <2>2 DEF MoveSavedToCart, PhoneCartInv
<1>7. ASSUME NEW p \in Product, RemoveSaved(p) \/ RemoveItem(p)
      PROVE  Goal
  <2>1. LinesChosen' /\ SavedChosen'
    BY <1>7, <1>l, OneLineChanges, NoLineOfProduct DEF RemoveSaved, RemoveItem
  <2> QED
    BY <1>7, <1>t, <1>c, <1>l, <2>1 DEF RemoveSaved, RemoveItem, PhoneCartInv
<1>8. ASSUME NEW p \in Product, CatalogChanges(p)
      PROVE  Goal
  BY <1>8, <1>t, <1>l DEF CatalogChanges, PhoneCartInv
<1>9. ASSUME NEW chosen \in (SUBSET Product) \ {{}}, AddAll(chosen)
      PROVE  Goal
  <2>1. PICK q \in Wishes, asCases \in SUBSET chosen :
          LET Row(p) == LineOf(p, IF p \in asCases THEN catalog[p].case_size ELSE q, FALSE)
              tripping == {p \in chosen \ InCart : Trips(p, Row(p))}
          IN /\ \A p \in asCases : CaseSuggested(p)
             /\ lines' = [p \in Product |->
                            CASE p \in chosen \cap InCart ->
                                   [lines[p] EXCEPT !.quantity = Row(p).quantity, !.picked = FALSE]
                              [] p \in chosen \ (InCart \cup tripping) -> Row(p)
                              [] OTHER -> lines[p]]
             /\ IF tripping = {} THEN UNCHANGED pendingAdd
                ELSE \E p \in tripping : pendingAdd' = [product |-> p, line |-> Row(p)]
    BY <1>9 DEF AddAll
  <2> DEFINE row(p) == LineOf(p, IF p \in asCases THEN catalog[p].case_size ELSE q, FALSE)
             tripping == {p \in chosen \ InCart : Trips(p, row(p))}
  <2>2. ASSUME NEW p \in Product
        PROVE  LineOfProduct(p, row(p)) /\ row(p).quantity \in Nat \ {0}
    <3> DEFINE n == IF p \in asCases THEN catalog[p].case_size ELSE q
    <3>1. n \in Nat \ {0}
      <4>1. catalog[p] \in FactRecords
        BY PhoneCartAssumption DEF PhoneCartInv
      <4>2. p \in asCases => catalog[p].case_size > 0
        BY <2>1 DEF CaseSuggested
      <4> QED
        BY <1>w, <4>1, <4>2 DEF FactRecords
    <3> HIDE DEF n
    <3>2. LineOfProduct(p, LineOf(p, n, FALSE)) /\ LineOf(p, n, FALSE).quantity = n
      BY <3>1, UnpickedLine DEF LineOf
    <3> QED
      BY <3>1, <3>2 DEF n
  <2>3. /\ lines' = [p \in Product |->
                       CASE p \in chosen \cap InCart ->
                              [lines[p] EXCEPT !.quantity = row(p).quantity, !.picked = FALSE]
                         [] p \in chosen \ (InCart \cup tripping) -> row(p)
                         [] OTHER -> lines[p]]
        /\ \/ UNCHANGED pendingAdd
           \/ \E p \in tripping : pendingAdd' = [product |-> p, line |-> row(p)]
    BY <2>1
  <2>4. tripping \subseteq Product
    OBVIOUS
  <2> HIDE DEF row, tripping
  <2>5. \A p \in Product : LineOfProduct(p, lines'[p])
    BY <1>0, <2>2, <2>3, LineChanged
  <2>6. LinesChosen'
    BY <2>3, <2>5 DEF LinesChosen, LineOfProduct
  <2>7. AskedChosen'
    <3>1. CASE UNCHANGED pendingAdd
      BY <1>l, <3>1
    <3>2. ASSUME NEW p \in tripping, pendingAdd' = [product |-> p, line |-> row(p)]
          PROVE  AskedChosen'
      BY <2>2, <2>4, <3>2 DEF AskedChosen, LineOfProduct
    <3> QED
      BY <2>3, <3>1, <3>2
  <2> QED
    BY <1>9, <1>t, <1>c, <1>l, <2>6, <2>7 DEF AddAll, PhoneCartInv
<1>10. ASSUME NEW listed \in (SUBSET Product) \ {{}}, LoadList(listed)
       PROVE  Goal
  <2>1. PICK q \in Wishes :
          lines' = [p \in Product |->
                      IF p \in listed THEN Merged(lines[p], LineOf(p, q, FALSE)) ELSE lines[p]]
    BY <1>10 DEF LoadList
  <2>2. \A p \in Product : LineOfProduct(p, LineOf(p, q, FALSE)) /\ LineOf(p, q, FALSE).quantity > 0
    BY <1>w, UnpickedLine
  <2>3. \A p \in Product : LineOfProduct(p, lines'[p])
    BY <1>0, <2>1, <2>2, MergedLine
  <2>4. LinesChosen'
    BY <2>1, <2>3 DEF LinesChosen, LineOfProduct
  <2> QED
    BY <1>10, <1>t, <1>c, <1>l, <2>4 DEF LoadList, PhoneCartInv
<1>11. CASE ConfirmAdd
  <2>1. /\ pendingAdd.product \in Product
        /\ LineOfProduct(pendingAdd.product, pendingAdd.line) /\ pendingAdd.line.quantity > 0
    BY <1>0, <1>11 DEF ConfirmAdd, AtHand, AskedChosen
  <2>2. LinesChosen'
    BY <1>0, <1>11, <2>1, MergedLine, OneLineChanges DEF ConfirmAdd, Adds
  <2> QED
    BY <1>11, <1>t, <1>c, <1>l, <2>2 DEF ConfirmAdd, PhoneCartInv, AskedChosen
<1>12. CASE CancelAdd
  BY <1>12, <1>t, <1>c, <1>l DEF CancelAdd, PhoneCartInv, AskedChosen
<1>13. CASE ClearCart
  <2>1. NoLine \in CartLines
    BY NoLineOfProduct DEF LineOfProduct
  <2>2. LinesChosen'
    BY <1>13, <2>1, NoLineOfProduct DEF ClearCart, LinesChosen
  <2> QED
    BY <1>13, <1>t, <1>c, <1>l, <2>2 DEF ClearCart, PhoneCartInv
<1> QED
  BY <1>1, <1>2, <1>3, <1>4, <1>5, <1>6, <1>7, <1>8, <1>9, <1>10, <1>11, <1>12, <1>13
     DEF PhoneCartNext

\* Lines are chosen in every state.
LEMMA CartSound == PhoneCartSpec => []PhoneCartInv
<1>1. PhoneCartInit => PhoneCartInv
  <2>1. NoLine \in CartLines
    BY NoLineOfProduct DEF LineOfProduct
  <2> QED
    BY <2>1, NoLineOfProduct, PhoneCartAssumption
       DEF PhoneCartInit, PhoneCartInv, LinesChosen, SavedChosen, AskedChosen
<1>2. PhoneCartInv /\ [PhoneCartNext]_phoneCartVars => PhoneCartInv'
  <2>1. PhoneCartInv /\ UNCHANGED phoneCartVars => PhoneCartInv'
    BY DEF phoneCartVars, PhoneCartInv, LinesChosen, SavedChosen, AskedChosen
  <2> QED
    BY <2>1, CartStep
<1> QED
  BY <1>1, <1>2, PTL DEF PhoneCartSpec

-----------------------------------------------------------------------------
(* PhoneCart: theorems *)

\* A line that is fresh knows of its product what the catalogue says, but for the price.
LEMMA FreshFacts ==
  ASSUME PhoneCartInv, NEW p \in Product, Fresh(p)
  PROVE  /\ lines[p].facts.size_ml = catalog[p].size_ml
         /\ lines[p].facts.case_size = catalog[p].case_size
         /\ lines[p].facts.pack_count = catalog[p].pack_count
<1>1. lines[p].facts \in FactRecords /\ catalog[p] \in FactRecords
  BY PhoneCartAssumption DEF PhoneCartInv, LinesChosen, CartLines
<1> DEFINE old == [lines[p].facts EXCEPT !.price = 0]
           new == [catalog[p] EXCEPT !.price = 0]
<1>2. /\ old.size_ml = lines[p].facts.size_ml /\ old.case_size = lines[p].facts.case_size
      /\ old.pack_count = lines[p].facts.pack_count
      /\ new.size_ml = catalog[p].size_ml /\ new.case_size = catalog[p].case_size
      /\ new.pack_count = catalog[p].pack_count
  BY <1>1 DEF FactRecords
<1>3. old = new
  BY DEF Fresh
<1> HIDE DEF old, new
<1> QED
  BY <1>2, <1>3

\* The cart, what is put aside and what is asked about stay well-formed (useCart.ts): no
\* merge, step or list leaves a line without a quantity.
THEOREM PhoneCartTypeCorrect == PhoneCartSpec => []PhoneCartTypeOK
<1>1. PhoneCartInv => PhoneCartTypeOK
  BY DEF PhoneCartInv, PhoneCartTypeOK, LinesChosen, SavedChosen, AskedChosen, LineOfProduct
<1> QED
  BY <1>1, CartSound, PTL

\* What a stepper or a picker put into the cart is what the API accepts (generateValidQuantities
\* against validateQuantityForSize), for any products, facts and sequence of changes.
THEOREM PickedStaysAccepted == PhoneCartSpec => []PickedIsAccepted
<1>1. PhoneCartInv => PickedIsAccepted
  <2> SUFFICES ASSUME PhoneCartInv, NEW p \in InCart \ Limited, lines[p].picked, Fresh(p)
               PROVE  Accepts(p, catalog[p], lines[p].quantity)
    BY DEF PickedIsAccepted
  <2>1. p \in Product /\ lines[p].quantity \in Offered(p, lines[p].facts)
    BY DEF InCart, PhoneCartInv, LinesChosen, LineOfProduct, Chosen
  <2>2. /\ lines[p].facts.size_ml = catalog[p].size_ml
        /\ lines[p].facts.case_size = catalog[p].case_size
        /\ lines[p].facts.pack_count = catalog[p].pack_count
    BY <2>1, FreshFacts
  <2> QED
    BY <2>1, <2>2 DEF Offered, Accepts, WholeCases, FullCase, PackAware
<1> QED
  BY <1>1, CartSound, PTL

\* A distributor's minimum is the same sum wherever the volumes of the lines are the same.
LEMMA MinimumSame ==
  ASSUME NEW p, NEW one, NEW other,
         \A r \in InCart : Volume(one[r], lines[r].quantity) = Volume(other[r], lines[r].quantity)
  PROVE  MeetsMinimum(p, one) <=> MeetsMinimum(p, other)
<1> DEFINE S == {r \in InCart : AdaOf[r] = AdaOf[p]}
           volume(says, r) == Volume(says[r], lines[r].quantity)
           Sum(says, h) == [s \in SUBSET S |->
                              IF s = {} THEN 0
                              ELSE LET r == CHOOSE r \in s : TRUE
                                   IN  volume(says, r) + h[s \ {r}]]
<1>1. \A says : MeetsMinimum(p, says) <=> (CHOOSE h : h = Sum(says, h))[S] >= ADA_MINIMUM_ML
  BY DEF MeetsMinimum, MapThenSumSet, MapThenFoldSet
<1>2. \A h : Sum(one, h) = Sum(other, h)
  <2> HIDE DEF S, volume
  <2>1. \A s \in SUBSET S : s # {} => (CHOOSE r \in s : TRUE) \in S
    OBVIOUS
  <2>2. \A r \in S : volume(one, r) = volume(other, r)
    BY DEF S, volume
  <2> QED
    BY <2>1, <2>2
<1> HIDE DEF Sum, S
<1>3. (CHOOSE h : h = Sum(one, h)) = (CHOOSE h : h = Sum(other, h))
  BY <1>2
<1> QED
  BY <1>1, <1>3

\* The phone's copy of the rules speaks for the API's (groupedByAda and
\* generateValidQuantities against validateCart), for any products and facts.
THEOREM PhoneSpeaksForApi == PhoneCartSpec => []ScreenSpeaksForApi
<1>1. PhoneCartInv => ScreenSpeaksForApi
  <2> DEFINE onScreen == [r \in Product |-> lines[r].facts]
  <2> SUFFICES ASSUME PhoneCartInv,
                      \A p \in InCart : /\ p \notin Limited /\ Fresh(p)
                                        /\ Offered(p, lines[p].facts) # {}
                                        /\ lines[p].quantity <= MaxOffered
               PROVE  (\A p \in InCart : /\ lines[p].quantity \in Offered(p, lines[p].facts)
                                         /\ MeetsMinimum(p, onScreen))
                        <=> Passes(catalog)
    BY DEF ScreenSpeaksForApi
  <2>1. ASSUME NEW p \in InCart
        PROVE  /\ onScreen[p] = lines[p].facts
               /\ lines[p].facts.size_ml = catalog[p].size_ml
               /\ lines[p].facts.case_size = catalog[p].case_size
               /\ lines[p].facts.pack_count = catalog[p].pack_count
    BY <2>1, FreshFacts DEF InCart
  <2>2. ASSUME NEW p \in InCart
        PROVE  lines[p].quantity \in Offered(p, lines[p].facts)
                 <=> Accepts(p, catalog[p], lines[p].quantity)
    <3>1. lines[p].quantity \in 1..MaxOffered
      BY PhoneCartAssumption DEF InCart, PhoneCartInv, LinesChosen, CartLines
    <3> QED
      BY <2>1, <3>1 DEF Offered, Accepts, WholeCases, FullCase, PackAware
  <2>3. \A p : MeetsMinimum(p, onScreen) <=> MeetsMinimum(p, catalog)
    <3>1. \A r \in InCart : Volume(onScreen[r], lines[r].quantity)
                              = Volume(catalog[r], lines[r].quantity)
      BY <2>1 DEF Volume
    <3> HIDE DEF onScreen
    <3> QED
      BY <3>1, MinimumSame
  <2> HIDE DEF onScreen
  <2> QED
    BY <2>2, <2>3 DEF Passes
<1> QED
  BY <1>1, CartSound, PTL
-----------------------------------------------------------------------------
(* The phone and its requests in one state space (MCPhone) *)

\* The composition implements each of its parts: where one moves, the others stutter.
THEOREM PhoneImplementsParts == MCSpec => Spec /\ ScannerSpec /\ PhoneCartSpec
<1>1. MCInit => Init /\ ScannerInit /\ PhoneCartInit
  BY DEF MCInit
<1>2. [MCNext]_phoneVars =>
        [Next]_vars /\ [ScannerNext]_scannerVars /\ [PhoneCartNext]_phoneCartVars
  BY DEF MCNext, phoneVars
<1> QED
  BY <1>1, <1>2, PTL DEF MCSpec, Spec, ScannerSpec, PhoneCartSpec

\* The phone's cart, its calls and checks, and the requests that follow stay well-formed in
\* the composition.
THEOREM PhoneTypeCorrect == MCSpec => []PhoneTypeOK
<1>1. PhoneCartTypeOK /\ CartTypeOK /\ ScannerTypeOK => PhoneTypeOK
  BY DEF PhoneTypeOK
<1> QED
  BY <1>1, PhoneImplementsParts, PhoneCartTypeCorrect, CartTypeCorrect, ScannerTypeCorrect,
     PTL

=============================================================================
