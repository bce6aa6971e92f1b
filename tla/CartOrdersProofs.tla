--------------------------- MODULE CartOrdersProofs ---------------------------
(***************************************************************************)
(* What holds of carts, requests and their runs for any number of bottles, *)
(* contents, carts and concurrent requests, whichever statements fail.     *)
(***************************************************************************)
EXTENDS CartOrders, SequenceTheorems, TLAPS

\* What a request's record says of itself when there are n carts.  An answer is in the
\* hands of a client only, and it was made from what the request had read.
Sound(s, n) ==
  /\ IF HasCart(s) THEN s.cart \in 1..n ELSE s.cart = 0
  /\ s.at \in RunPoints <=> s.does \in MODES
  /\ s.answer # NoLines => s.at = "synced" /\ s.answer = s.seen

CallersSound == \A c \in Caller : Sound(callers[c], Len(carts))

CartInv ==
  /\ CartTypeOK
  /\ CallersSound
  /\ OneValidationPerContent

\* A step of one request that leaves it sound.
StepOf(c) ==
  \E s \in Callers : Sound(s, Len(carts)) /\ callers' = [callers EXCEPT ![c] = s]

-----------------------------------------------------------------------------
(* Values *)

\* No lines are lines, an idle request is sound, and a new cart is a cart.
LEMMA Values ==
  /\ NoLines \in Lines
  /\ Idle \in Callers
  /\ \A n \in Nat : Sound(Idle, n)
  /\ NewCart \in Carts
<1>1. NoLines \in Lines
  BY CartAssumption DEF NoLines, Lines
<1>2. Idle \in Callers
  BY <1>1, CartAssumption DEF Idle, Callers, Points
<1>3. \A n \in Nat : Sound(Idle, n)
  BY DEF Idle, Sound, HasCart, RunPoints, MODES
<1> QED
  BY <1>1, <1>2, <1>3 DEF NewCart, Carts

\* The parts of the invariant as the steps below use them.
LEMMA Typed ==
  ASSUME CartInv
  PROVE  /\ Len(carts) \in Nat
         /\ DOMAIN carts = 1..Len(carts)
         /\ \A k \in DOMAIN carts : carts[k] \in Carts /\ carts[k].lines \in Lines
         /\ \A c \in Caller : callers[c] \in Callers /\ Sound(callers[c], Len(carts))
<1>1. carts \in Seq(Carts)
  BY DEF CartInv, CartTypeOK
<1>2. Len(carts) \in Nat /\ DOMAIN carts = 1..Len(carts)
  BY <1>1, LenProperties
<1>3. \A k \in DOMAIN carts : carts[k] \in Carts
  BY <1>1, <1>2, ElementOfSeq
<1>4. \A cart \in Carts : cart.lines \in Lines
  BY DEF Carts
<1>5. \A c \in Caller : callers[c] \in Callers /\ Sound(callers[c], Len(carts))
  BY DEF CartInv, CartTypeOK, CallersSound
<1> QED
  BY <1>2, <1>3, <1>4, <1>5

\* A request that has a cart has one that exists.
LEMMA CartExists ==
  ASSUME CartInv, NEW c \in Caller, HasCart(callers[c])
  PROVE  /\ callers[c].cart \in DOMAIN carts
         /\ Cart(c) \in Carts
         /\ Cart(c).lines \in Lines
  BY Typed DEF Sound, Cart

\* A batch of lines written over other lines gives lines.
LEMMA WithType ==
  ASSUME NEW a \in Lines, NEW b \in Lines
  PROVE  With(a, b) \in Lines
  BY DEF With, Lines

-----------------------------------------------------------------------------
(* What steps change *)

\* A sound step of one request that adds no cart and no run keeps the invariant.
LEMMA StepKeeps ==
  ASSUME CartInv, NEW c \in Caller, StepOf(c),
         carts' \in Seq(Carts), Len(carts') = Len(carts),
         UNCHANGED <<runs, edits>>
  PROVE  CartInv'
<1>1. PICK s \in Callers : Sound(s, Len(carts)) /\ callers' = [callers EXCEPT ![c] = s]
  BY DEF StepOf
<1>2. callers' \in [Caller -> Callers]
  BY <1>1 DEF CartInv, CartTypeOK
<1>3. \A d \in Caller : Sound(callers'[d], Len(carts'))
  BY <1>1, <1>2 DEF CartInv, CartTypeOK, CallersSound
<1>4. Len(carts) \in Nat /\ DOMAIN carts' = 1..Len(carts') /\ DOMAIN carts = 1..Len(carts)
  BY LenProperties, Typed
<1>5. \A d \in Caller :
        /\ HasCart(callers'[d]) <=> callers'[d].cart \in DOMAIN carts'
        /\ callers'[d].at \in RunPoints => callers'[d].does \in MODES
  BY <1>3, <1>4 DEF Sound
<1>6. CartTypeOK'
  BY <1>2, <1>4, <1>5 DEF CartInv, CartTypeOK, HasCart
<1> QED
  BY <1>3, <1>6 DEF CartInv, CallersSound, OneValidationPerContent, Sound, HasCart

\* A cart that is overwritten by a cart.
LEMMA CartWritten ==
  ASSUME CartInv, NEW k \in DOMAIN carts, NEW cart \in Carts,
         carts' = [carts EXCEPT ![k] = cart]
  PROVE  carts' \in Seq(Carts) /\ Len(carts') = Len(carts)
  BY Typed, ExceptSeq DEF CartInv, CartTypeOK

\* Lines that are written to the cart of a request.
LEMMA LinesWritten ==
  ASSUME CartInv, NEW c \in Caller, HasCart(callers[c]), NEW lines \in Lines,
         Writes(c, lines)
  PROVE  carts' \in Seq(Carts) /\ Len(carts') = Len(carts)
<1> DEFINE cart == [Cart(c) EXCEPT !.lines = lines]
<1>1. cart \in Carts
  BY CartExists DEF Carts
<1>2. carts' = [carts EXCEPT ![callers[c].cart] = cart]
  BY CartExists, Typed DEF Writes, Cart
<1> QED
  BY <1>1, <1>2, CartExists, CartWritten

\* A request goes from one point to another, which both have a cart or not, both
\* belong to a run or not, and neither of which is the client's.
LEMMA MovesSoundly ==
  ASSUME CartInv, NEW c \in Caller, NEW point \in Points, Moves(c, point),
         callers[c].at \in RunPoints <=> point \in RunPoints,
         HasCart(callers[c]) <=> point \notin {"idle", "finding", "creating"},
         callers[c].at # "synced"
  PROVE  StepOf(c)
<1> DEFINE s == [callers[c] EXCEPT !.at = point]
<1>1. s \in Callers
  BY Typed DEF Callers
<1>2. Sound(s, Len(carts))
  BY Typed DEF Sound, HasCart, Callers
<1>3. callers' = [callers EXCEPT ![c] = s]
  BY DEF Moves
<1> QED
  BY <1>1, <1>2, <1>3 DEF StepOf

LEMMA LeavesSoundly ==
  ASSUME CartInv, NEW c \in Caller, Leaves(c)
  PROVE  StepOf(c)
  BY Values, Typed DEF Leaves, StepOf

\* A run was refused: the client is left with its cart and no answer.
LEMMA FailsSoundly ==
  ASSUME CartInv, NEW c \in Caller, callers[c].at \in RunPoints, Fails(c)
  PROVE  StepOf(c)
<1> DEFINE s == [callers[c] EXCEPT !.at = "synced", !.does = "sync", !.seen = NoLines]
<1>1. s \in Callers
  BY Typed, Values DEF Callers, Points
<1>2. Sound(s, Len(carts))
  BY Typed DEF Sound, HasCart, Callers, RunPoints, MODES
<1>3. callers' = [callers EXCEPT ![c] = s]
  BY DEF Fails
<1> QED
  BY <1>1, <1>2, <1>3 DEF StepOf

LEMMA RefusedSoundly ==
  ASSUME CartInv, NEW c \in Caller, Refused(c)
  PROVE  StepOf(c)
  BY FailsSoundly, LeavesSoundly, Typed DEF Refused, Sound

\* A run was answered that has the lines the request has read.
LEMMA AnswersSoundly ==
  ASSUME CartInv, NEW c \in Caller, callers[c].at \in RunPoints,
         NEW r, r.lines = callers[c].seen, Answers(c, r)
  PROVE  StepOf(c)
<1> DEFINE s == [callers[c] EXCEPT !.at = "synced", !.does = "sync", !.answer = r.lines]
<1>1. s \in Callers
  BY Typed DEF Callers, Points
<1>2. Sound(s, Len(carts))
  BY Typed DEF Sound, HasCart, Callers, RunPoints, MODES
<1>3. callers' = [callers EXCEPT ![c] = s]
  BY DEF Answers
<1> QED
  BY <1>1, <1>2, <1>3 DEF StepOf

\* Steps of one request that leave the rows alone.
LEMMA QuietStep ==
  ASSUME CartInv, NEW c \in Caller, StepOf(c), UNCHANGED <<carts, runs, edits>>
  PROVE  CartInv'
  BY StepKeeps DEF CartInv, CartTypeOK

\* That somebody is no longer alone is no matter here.
LEMMA OthersDisturbed ==
  ASSUME NEW s \in Callers, NEW n \in Nat, Sound(s, n)
  PROVE  /\ [s EXCEPT !.alone = FALSE] \in Callers
         /\ Sound([s EXCEPT !.alone = FALSE], n)
  BY DEF Callers, Sound, HasCart

-----------------------------------------------------------------------------
(* Bulk syncs *)

\* POST /items/bulk arrives.
LEMMA StartSyncStep ==
  ASSUME CartInv, NEW c \in Caller, NEW lines \in Wanted, StartSync(c, lines)
  PROVE  CartInv'
<1> DEFINE s == [Idle EXCEPT !.at = "finding", !.does = "sync", !.lines = lines,
                             !.alone = \A e \in Caller : callers[e].at = "idle"]
<1>1. s \in Callers /\ Sound(s, Len(carts))
  BY Values, CartAssumption
     DEF Idle, Callers, Points, Sound, HasCart, RunPoints, MODES
<1>2. \A d \in Caller :
        callers'[d] = IF d = c THEN s ELSE [callers[d] EXCEPT !.alone = FALSE]
  BY DEF StartSync
<1>3. \A d \in Caller : callers'[d] \in Callers /\ Sound(callers'[d], Len(carts))
  <2> HIDE DEF s
  <2> SUFFICES ASSUME NEW d \in Caller
               PROVE  callers'[d] \in Callers /\ Sound(callers'[d], Len(carts))
    OBVIOUS
  <2>1. CASE d = c
    BY <1>1, <1>2, <2>1
  <2>2. CASE d # c
    <3>1. callers[d] \in Callers /\ Sound(callers[d], Len(carts)) /\ Len(carts) \in Nat
      BY Typed
    <3>2. callers'[d] = [callers[d] EXCEPT !.alone = FALSE]
      BY <1>2, <2>2
    <3> QED
      BY <3>1, <3>2, OthersDisturbed
  <2> QED
    BY <2>1, <2>2
<1>4. callers' \in [Caller -> Callers]
  BY <1>3 DEF StartSync
<1>5. UNCHANGED <<carts, runs, edits>>
  BY DEF StartSync
<1>6. \A d \in Caller :
        /\ HasCart(callers'[d]) <=> callers'[d].cart \in DOMAIN carts
        /\ callers'[d].at \in RunPoints => callers'[d].does \in MODES
  BY <1>3, Typed DEF Sound
<1> QED
  BY <1>3, <1>4, <1>5, <1>6
     DEF CartInv, CartTypeOK, CallersSound, OneValidationPerContent, Sound, HasCart

LEMMA FindStep ==
  ASSUME CartInv, NEW c \in Caller, Find(c)
  PROVE  CartInv'
<1>1. callers[c].at = "finding" /\ UNCHANGED <<carts, runs, edits>>
  BY DEF Find
<1>2. CASE Moves(c, "creating")
  <2>1. StepOf(c)
    BY <1>1, <1>2, MovesSoundly DEF Points, RunPoints, HasCart
  <2> QED
    BY <1>1, <2>1, QuietStep
<1>3. ASSUME NEW k \in OpenCarts,
             callers' = [callers EXCEPT ![c].at = "reading", ![c].cart = k]
      PROVE  CartInv'
  <2> DEFINE s == [callers[c] EXCEPT !.at = "reading", !.cart = k]
  <2>1. k \in 1..Len(carts) /\ k \in 0..MaxCarts
    BY Typed, CartAssumption DEF OpenCarts, CartInv, CartTypeOK
  <2>2. s \in Callers
    BY <2>1, Typed DEF Callers, Points, SyncPoints
  <2>3. Sound(s, Len(carts))
    BY <1>1, <2>1, Typed DEF Sound, HasCart, Callers, RunPoints
  <2>4. StepOf(c)
    BY <1>3, <2>2, <2>3 DEF StepOf
  <2> QED
    BY <1>1, <2>4, QuietStep
<1> QED
  BY <1>2, <1>3 DEF Find

\* A cart more: whoever had a cart has it still.
LEMMA CartAppended ==
  ASSUME CartInv, Len(carts) < MaxCarts, carts' = Append(carts, NewCart),
         NEW f \in [Caller -> Callers], callers' = f, runs' = runs, edits' \in 0..MaxEdits,
         \A d \in Caller : Sound(f[d], Len(carts) + 1)
  PROVE  CartInv'
<1>1. /\ carts' \in Seq(Carts)
      /\ Len(carts') = Len(carts) + 1
  BY Values, AppendProperties DEF CartInv, CartTypeOK
<1>2. Len(carts') <= MaxCarts /\ DOMAIN carts' = 1..Len(carts) + 1
  BY <1>1, LenProperties, Typed, CartAssumption
<1>3. \A d \in Caller :
        /\ HasCart(callers'[d]) <=> callers'[d].cart \in DOMAIN carts'
        /\ callers'[d].at \in RunPoints => callers'[d].does \in MODES
  BY <1>2, Typed DEF Sound
<1>4. \A r \in runs : r.cart \in DOMAIN carts'
  BY <1>2, Typed DEF CartInv, CartTypeOK
<1>5. CartTypeOK'
  BY <1>1, <1>2, <1>3, <1>4 DEF CartInv, CartTypeOK, HasCart
<1>6. CallersSound'
  BY <1>1 DEF CallersSound, Sound, HasCart
<1> QED
  BY <1>5, <1>6 DEF CartInv, OneValidationPerContent

\* What is sound with n carts is sound with one more.
LEMMA SoundLater ==
  ASSUME NEW s, NEW n \in Nat, Sound(s, n)
  PROVE  Sound(s, n + 1)
  BY DEF Sound

LEMMA CreateCartStep ==
  ASSUME CartInv, NEW c \in Caller, CreateCart(c)
  PROVE  CartInv'
<1>1. /\ callers[c].at = "creating"
      /\ Len(carts) < MaxCarts
      /\ carts' = Append(carts, NewCart)
      /\ UNCHANGED <<runs, edits>>
  BY DEF CreateCart
<1> DEFINE s == [callers[c] EXCEPT !.at = "reading", !.cart = Len(carts) + 1]
<1>2. s \in Callers
  <2>1. Len(carts) + 1 \in 0..MaxCarts
    BY <1>1, Typed, CartAssumption
  <2> QED
    BY <2>1, Typed DEF Callers, Points, SyncPoints
<1>3. Sound(s, Len(carts) + 1)
  BY <1>1, Typed DEF Sound, HasCart, Callers, RunPoints
<1>4. PICK t \in {s, Idle} : callers' = [callers EXCEPT ![c] = t]
  BY DEF CreateCart, Leaves
<1>5. t \in Callers /\ Sound(t, Len(carts) + 1)
  BY <1>2, <1>3, Values, Typed
<1>6. callers' \in [Caller -> Callers]
  BY <1>4, <1>5 DEF CartInv, CartTypeOK
<1>7. \A d \in Caller : Sound(callers'[d], Len(carts) + 1)
  BY <1>4, <1>5, SoundLater, Typed DEF CartInv, CartTypeOK
<1> QED
  BY <1>1, <1>6, <1>7, CartAppended DEF CartInv, CartTypeOK

LEMMA ReadPreviousStep ==
  ASSUME CartInv, NEW c \in Caller, ReadPrevious(c)
  PROVE  CartInv'
<1> DEFINE s == [callers[c] EXCEPT !.at = "clearing", !.seen = Cart(c).lines]
<1>1. callers[c].at = "reading" /\ callers' = [callers EXCEPT ![c] = s]
  BY DEF ReadPrevious
<1>2. s \in Callers
  BY <1>1, Typed, CartExists DEF Callers, Points, SyncPoints, HasCart
<1>3. Sound(s, Len(carts))
  BY <1>1, Typed DEF Sound, HasCart, Callers, RunPoints
<1> QED
  BY <1>1, <1>2, <1>3, QuietStep DEF StepOf, ReadPrevious

LEMMA ClearStep ==
  ASSUME CartInv, NEW c \in Caller, Clear(c)
  PROVE  CartInv'
<1>1. callers[c].at = "clearing" /\ UNCHANGED <<runs, edits>>
  BY DEF Clear
<1>2. carts' \in Seq(Carts) /\ Len(carts') = Len(carts)
  BY <1>1, LinesWritten, Values DEF Clear, HasCart
<1>3. Moves(c, "filling") => StepOf(c)
  BY <1>1, MovesSoundly DEF Points, SyncPoints, RunPoints, HasCart
<1>4. StepOf(c)
  BY <1>3, RefusedSoundly DEF Clear, ThenOrRefused
<1> QED
  BY <1>1, <1>2, <1>4, StepKeeps

LEMMA FillStep ==
  ASSUME CartInv, NEW c \in Caller, Fill(c)
  PROVE  CartInv'
<1>1. callers[c].at = "filling" /\ UNCHANGED <<runs, edits>>
  BY DEF Fill
<1>2. carts' \in Seq(Carts) /\ Len(carts') = Len(carts)
  <2>1. Writes(c, With(Cart(c).lines, callers[c].lines)) \/ UNCHANGED carts
    BY DEF Fill
  <2>2. Cart(c).lines \in Lines /\ callers[c].lines \in Lines
    BY <1>1, CartExists, Typed DEF HasCart, Callers
  <2>3. With(Cart(c).lines, callers[c].lines) \in Lines
    BY <2>2, WithType
  <2> QED
    BY <1>1, <2>1, <2>3, LinesWritten DEF HasCart, CartInv, CartTypeOK
<1>3. FallBack(c) => StepOf(c)
  BY <1>1, MovesSoundly, LeavesSoundly
     DEF FallBack, Points, SyncPoints, RunPoints, HasCart
<1>4. ASSUME callers' = [callers EXCEPT ![c].at = "synced", ![c].seen = NoLines]
      PROVE  StepOf(c)
  <2> DEFINE s == [callers[c] EXCEPT !.at = "synced", !.seen = NoLines]
  <2>1. s \in Callers
    BY Typed, Values DEF Callers, Points
  <2>2. Sound(s, Len(carts))
    BY <1>1, Typed DEF Sound, HasCart, Callers, RunPoints
  <2> QED
    BY <1>4, <2>1, <2>2 DEF StepOf
<1>5. StepOf(c)
  BY <1>3, <1>4 DEF Fill
<1> QED
  BY <1>1, <1>2, <1>5, StepKeeps

LEMMA RestoreStep ==
  ASSUME CartInv, NEW c \in Caller, Restore(c)
  PROVE  CartInv'
<1>1. /\ callers[c].at = "restoring"
      /\ Writes(c, With(Cart(c).lines, callers[c].seen))
      /\ Leaves(c)
      /\ UNCHANGED <<runs, edits>>
  BY DEF Restore
<1>2. Cart(c).lines \in Lines /\ callers[c].seen \in Lines
  BY <1>1, CartExists, Typed DEF HasCart, Callers
<1>3. carts' \in Seq(Carts) /\ Len(carts') = Len(carts)
  BY <1>1, <1>2, WithType, LinesWritten DEF HasCart
<1> QED
  BY <1>1, <1>3, LeavesSoundly, StepKeeps

-----------------------------------------------------------------------------
(* The other routes *)

\* Every request is sound still when the other routes were used.
LEMMA EditDisturbs ==
  ASSUME CartInv, Edits
  PROVE  /\ callers' \in [Caller -> Callers]
         /\ \A d \in Caller : Sound(callers'[d], Len(carts))
<1>1. ASSUME NEW d \in Caller
      PROVE  callers'[d] \in Callers /\ Sound(callers'[d], Len(carts))
  <2>1. callers[d] \in Callers /\ Sound(callers[d], Len(carts)) /\ Len(carts) \in Nat
    BY Typed
  <2>2. callers'[d] = [callers[d] EXCEPT !.alone = FALSE]
    BY DEF Edits
  <2> QED
    BY <2>1, <2>2, OthersDisturbed
<1> QED
  BY <1>1 DEF Edits

\* Whatever a request of the other routes does to a cart.
LEMMA EditKeeps ==
  ASSUME CartInv, Edits, carts' \in Seq(Carts), Len(carts') = Len(carts)
  PROVE  CartInv'
<1>1. \A d \in Caller : Sound(callers'[d], Len(carts'))
  BY EditDisturbs
<1>2. callers' \in [Caller -> Callers] /\ runs' = runs /\ edits' \in 0..MaxEdits
  BY EditDisturbs, CartAssumption DEF Edits, CartInv, CartTypeOK
<1>3. DOMAIN carts' = DOMAIN carts /\ DOMAIN carts = 1..Len(carts) /\ Len(carts) \in Nat
  BY LenProperties, Typed
<1>4. \A d \in Caller :
        /\ HasCart(callers'[d]) <=> callers'[d].cart \in DOMAIN carts'
        /\ callers'[d].at \in RunPoints => callers'[d].does \in MODES
  BY <1>1, <1>3 DEF Sound
<1> QED
  BY <1>1, <1>2, <1>3, <1>4
     DEF CartInv, CartTypeOK, CallersSound, OneValidationPerContent, Sound, HasCart

LEMMA OpenCartStep ==
  ASSUME CartInv, OpenCart
  PROVE  CartInv'
<1>1. callers' \in [Caller -> Callers]
  BY EditDisturbs DEF OpenCart
<1>2. \A d \in Caller : Sound(callers'[d], Len(carts) + 1)
  BY EditDisturbs, SoundLater, Typed DEF OpenCart
<1>3. edits' \in 0..MaxEdits
  BY CartAssumption DEF OpenCart, Edits, CartInv, CartTypeOK
<1> QED
  BY <1>1, <1>2, <1>3, CartAppended DEF OpenCart, Edits

\* POST /items, PATCH and DELETE of items, and /submit write a cart.
LEMMA EditStepKeeps ==
  ASSUME CartInv, EditStep
  PROVE  CartInv'
<1>1. \A k \in DOMAIN carts, cart \in Carts :
        Edits /\ carts' = [carts EXCEPT ![k] = cart] => CartInv'
  BY CartWritten, EditKeeps
<1>2. CASE OpenCart
  BY <1>2, OpenCartStep
<1>3. ASSUME NEW k \in DOMAIN carts, EmptyCart(k) PROVE CartInv'
  <2>1. [carts[k] EXCEPT !.lines = NoLines] \in Carts
    BY Typed, Values DEF Carts
  <2>2. carts' = [carts EXCEPT ![k] = [carts[k] EXCEPT !.lines = NoLines]]
    BY <1>3 DEF EmptyCart
  <2> QED
    BY <1>1, <1>3, <2>1, <2>2 DEF EmptyCart
<1>4. ASSUME NEW k \in DOMAIN carts, SubmitCart(k) PROVE CartInv'
  <2>1. [carts[k] EXCEPT !.open = FALSE] \in Carts
    BY Typed DEF Carts
  <2>2. carts' = [carts EXCEPT ![k] = [carts[k] EXCEPT !.open = FALSE]]
    BY <1>4 DEF SubmitCart
  <2> QED
    BY <1>1, <1>4, <2>1, <2>2 DEF SubmitCart
<1>5. \A k \in DOMAIN carts, b \in Bottle, q \in 0..MaxQty :
        [carts[k] EXCEPT !.lines = [carts[k].lines EXCEPT ![b] = q]] \in Carts
  BY Typed DEF Carts, Lines
<1>6. ASSUME NEW k \in DOMAIN carts, NEW b \in Bottle, AddItem(k, b) PROVE CartInv'
  <2> DEFINE q == carts[k].lines[b] + 1
  <2>1. q \in 0..MaxQty
    <3>1. carts[k].lines[b] \in 0..MaxQty
      BY Typed DEF Lines
    <3> QED
      BY <1>6, <3>1, CartAssumption DEF AddItem
  <2>2. carts' = [carts EXCEPT ![k] =
                    [carts[k] EXCEPT !.lines = [carts[k].lines EXCEPT ![b] = q]]]
    BY <1>6 DEF AddItem
  <2> QED
    BY <1>1, <1>5, <1>6, <2>1, <2>2 DEF AddItem
<1>7. ASSUME NEW k \in DOMAIN carts, NEW b \in Bottle, NEW q \in 0..MaxQty,
             EditItem(k, b, q)
      PROVE  CartInv'
  <2>1. carts' = [carts EXCEPT ![k] =
                    [carts[k] EXCEPT !.lines = [carts[k].lines EXCEPT ![b] = q]]]
    BY <1>7 DEF EditItem
  <2> QED
    BY <1>1, <1>5, <1>7, <2>1 DEF EditItem
<1> QED
  BY <1>2, <1>3, <1>4, <1>6, <1>7 DEF EditStep

-----------------------------------------------------------------------------
(* Clients *)

LEMMA TriggerStep ==
  ASSUME CartInv, NEW c \in Caller, NEW mode \in MODES, Trigger(c, mode)
  PROVE  CartInv'
<1> DEFINE s == [callers[c] EXCEPT !.at = "looking", !.does = mode,
                                   !.seen = NoLines, !.answer = NoLines]
<1>1. callers[c].at = "synced" /\ callers' = [callers EXCEPT ![c] = s]
  BY DEF Trigger
<1>2. s \in Callers
  BY Typed, Values DEF Callers, Points, RunPoints
<1>3. Sound(s, Len(carts))
  BY <1>1, Typed DEF Sound, HasCart, Callers, RunPoints
<1> QED
  BY <1>1, <1>2, <1>3, QuietStep DEF StepOf, Trigger

LEMMA TriggerAgainStep ==
  ASSUME CartInv, NEW c \in Caller, NEW d \in Caller, TriggerAgain(c, d)
  PROVE  CartInv'
<1> DEFINE s == [callers[c] EXCEPT !.at = "looking", !.seen = NoLines]
<1>1. callers[c].at \in RunPoints /\ callers' = [callers EXCEPT ![d] = s]
  BY DEF TriggerAgain
<1>2. s \in Callers
  BY Typed, Values DEF Callers, Points, RunPoints
<1>3. Sound(s, Len(carts))
  BY <1>1, Typed DEF Sound, HasCart, Callers, RunPoints
<1> QED
  BY <1>1, <1>2, <1>3, QuietStep DEF StepOf, TriggerAgain

LEMMA ClientStepKeeps ==
  ASSUME CartInv, NEW c \in Caller, ClientStep(c)
  PROVE  CartInv'
<1>1. ClientLeaves(c) => CartInv'
  BY LeavesSoundly, QuietStep DEF ClientLeaves
<1>2. Drops(c) => CartInv'
  BY RefusedSoundly, QuietStep DEF Drops
<1> QED
  BY <1>1, <1>2, TriggerStep, TriggerAgainStep DEF ClientStep

-----------------------------------------------------------------------------
(* Judging a cart *)

\* Between two points of the request from-cart.
LEMMA RunMoves ==
  ASSUME CartInv, NEW c \in Caller, callers[c].at \in RunPoints,
         NEW point \in RunPoints, Moves(c, point)
  PROVE  StepOf(c)
<1>1. /\ point \in Points
      /\ point \notin {"idle", "finding", "creating"}
      /\ HasCart(callers[c]) /\ callers[c].at # "synced"
  BY DEF Points, RunPoints, HasCart
<1> QED
  BY <1>1, MovesSoundly

LEMMA CloseCartStep ==
  ASSUME CartInv, NEW c \in Caller, CloseCart(c)
  PROVE  CartInv'
<1> DEFINE cart == [Cart(c) EXCEPT !.open = FALSE]
<1>1. callers[c].at = "looking" /\ callers[c].at \in RunPoints /\ HasCart(callers[c])
  BY DEF CloseCart, RunPoints, HasCart
<1>2. cart \in Carts
  BY <1>1, CartExists DEF Carts
<1>3. carts' = [carts EXCEPT ![callers[c].cart] = cart]
  BY DEF CloseCart, Cart
<1>4. carts' \in Seq(Carts) /\ Len(carts') = Len(carts)
  BY <1>1, <1>2, <1>3, CartExists, CartWritten
<1>5. StepOf(c)
  BY <1>1, RunMoves, RefusedSoundly DEF CloseCart, ThenOrRefused, RunPoints
<1> QED
  BY <1>4, <1>5, StepKeeps DEF CloseCart

LEMMA ReadFlagStep ==
  ASSUME CartInv, NEW c \in Caller, ReadFlag(c)
  PROVE  CartInv'
<1>1. StepOf(c)
  BY RunMoves DEF ReadFlag, RunPoints
<1> QED
  BY <1>1, QuietStep DEF ReadFlag

LEMMA JudgeKeeps ==
  ASSUME CartInv, NEW c \in Caller, Judge(c)
  PROVE  CartInv'
<1>1. callers[c].at \in RunPoints
  BY DEF Judge, RunPoints
<1>2. \A lines : Verdicts(lines) \subseteq RunPoints
  BY DEF Verdicts, RunPoints
<1>3. StepOf(c)
  BY <1>1, <1>2, RunMoves, FailsSoundly DEF Judge
<1> QED
  BY <1>3, QuietStep DEF Judge

LEMMA RecordPassStep ==
  ASSUME CartInv, NEW c \in Caller, RecordPass(c)
  PROVE  CartInv'
<1> DEFINE cart == [Cart(c) EXCEPT !.validated = TRUE]
<1>1. callers[c].at = "passing" /\ callers[c].at \in RunPoints /\ HasCart(callers[c])
  BY DEF RecordPass, RunPoints, HasCart
<1>2. cart \in Carts
  BY <1>1, CartExists DEF Carts
<1>3. carts' = [carts EXCEPT ![callers[c].cart] = cart]
  BY DEF RecordPass, Cart
<1>4. carts' \in Seq(Carts) /\ Len(carts') = Len(carts)
  BY <1>1, <1>2, <1>3, CartExists, CartWritten
<1>5. StepOf(c)
  BY <1>1, RunMoves, RefusedSoundly DEF RecordPass, ThenOrRefused, RunPoints
<1> QED
  BY <1>4, <1>5, StepKeeps DEF RecordPass

LEMMA RecordFailStep ==
  ASSUME CartInv, NEW c \in Caller, RecordFail(c)
  PROVE  CartInv'
<1> DEFINE cart == [Cart(c) EXCEPT !.validated = FALSE]
<1>1. callers[c].at \in RunPoints /\ HasCart(callers[c])
  BY DEF RecordFail, RunPoints, HasCart
<1>2. cart \in Carts
  BY <1>1, CartExists DEF Carts
<1>3. carts' = [carts EXCEPT ![callers[c].cart] = cart]
  BY DEF RecordFail, Cart
<1>4. carts' \in Seq(Carts) /\ Len(carts') = Len(carts)
  BY <1>1, <1>2, <1>3, CartExists, CartWritten
<1>5. StepOf(c)
  BY <1>1, FailsSoundly DEF RecordFail
<1> QED
  BY <1>4, <1>5, StepKeeps DEF RecordFail

-----------------------------------------------------------------------------
(* The run *)

LEMMA BuildPayloadStep ==
  ASSUME CartInv, NEW c \in Caller, BuildPayload(c)
  PROVE  CartInv'
<1>1. callers[c].at = "building" /\ callers[c].at \in RunPoints /\ HasCart(callers[c])
  BY DEF BuildPayload, RunPoints, HasCart
<1>2. ASSUME NEW next \in {"matching", "placing"},
             callers' = [callers EXCEPT ![c].at = next, ![c].seen = Cart(c).lines]
      PROVE  StepOf(c)
  <2> DEFINE s == [callers[c] EXCEPT !.at = next, !.seen = Cart(c).lines]
  <2>1. s \in Callers
    BY <1>1, Typed, CartExists DEF Callers, Points, RunPoints
  <2>2. Sound(s, Len(carts))
    BY <1>1, Typed DEF Sound, HasCart, Callers, RunPoints
  <2> QED
    BY <1>2, <2>1, <2>2 DEF StepOf
<1>3. StepOf(c)
  BY <1>1, <1>2, FailsSoundly DEF BuildPayload
<1> QED
  BY <1>3, QuietStep DEF BuildPayload

\* A twin has the lines it was looked up with.
LEMMA TwinsMatch ==
  ASSUME NEW lines, NEW r \in Twins(lines)
  PROVE  r.lines = lines
  BY DEF Twins

LEMMA MatchTwinStep ==
  ASSUME CartInv, NEW c \in Caller, MatchTwin(c)
  PROVE  CartInv'
<1>1. callers[c].at \in RunPoints
  BY DEF MatchTwin, RunPoints
<1>2. \A r \in Twins(callers[c].seen) : Answers(c, r) => StepOf(c)
  BY <1>1, TwinsMatch, AnswersSoundly
<1>3. Moves(c, "placing") => StepOf(c)
  BY <1>1, RunMoves DEF RunPoints
<1> QED
  BY <1>2, <1>3, QuietStep DEF MatchTwin

LEMMA FindWinnerStep ==
  ASSUME CartInv, NEW c \in Caller, FindWinner(c)
  PROVE  CartInv'
<1>1. callers[c].at \in RunPoints
  BY DEF FindWinner, RunPoints
<1>2. \A r \in Twins(callers[c].seen) : Answers(c, r) => StepOf(c)
  BY <1>1, TwinsMatch, AnswersSoundly
<1>3. Fails(c) => StepOf(c)
  BY <1>1, FailsSoundly
<1> QED
  BY <1>2, <1>3, QuietStep DEF FindWinner

\* A row that the index accepts is the only validation of its lines.
LEMMA IndexKeeps ==
  ASSUME OneValidationPerContent, NEW new, ~Duplicate(new), runs' = runs \cup {new}
  PROVE  OneValidationPerContent'
<1>1. \A r \in runs :
        ~ /\ new.run_type = "validate_only" /\ r.run_type = "validate_only"
          /\ r.lines = new.lines /\ Hashable(new.lines)
  BY DEF Duplicate, Twins
<1>2. \A q, r \in runs \cup {new} :
        /\ q.run_type = "validate_only" /\ r.run_type = "validate_only"
        /\ q.lines = r.lines /\ Hashable(r.lines)
        => q = r
  BY <1>1 DEF OneValidationPerContent
<1> QED
  BY <1>2 DEF OneValidationPerContent

LEMMA InsertRunStep ==
  ASSUME CartInv, NEW c \in Caller, InsertRun(c)
  PROVE  CartInv'
<1> DEFINE new == [run_type |-> callers[c].does, cart |-> callers[c].cart,
                   lines |-> callers[c].seen]
<1>1. /\ callers[c].at \in RunPoints
      /\ HasCart(callers[c])
      /\ UNCHANGED <<carts, edits>>
  BY DEF InsertRun, RunPoints, HasCart
<1>2. Answers(c, new) => StepOf(c)
  BY <1>1, AnswersSoundly
<1>3. StepOf(c)
  BY <1>1, <1>2, FailsSoundly, RunMoves DEF InsertRun, RunPoints
<1>4. CASE UNCHANGED runs
  BY <1>1, <1>3, <1>4, QuietStep
<1>5. CASE ~Duplicate(new) /\ runs' = runs \cup {new}
  <2>1. new \in Runs /\ new.cart \in DOMAIN carts
    <3>1. callers[c].cart \in DOMAIN carts
      BY <1>1, CartExists
    <3>2. callers[c].does \in MODES /\ callers[c].seen \in Lines
      BY <1>1, Typed DEF Sound, Callers
    <3>3. callers[c].cart \in 1..MaxCarts
      BY <3>1, Typed, CartAssumption DEF CartInv, CartTypeOK
    <3> QED
      BY <3>1, <3>2, <3>3 DEF Runs
  <2>2. PICK s \in Callers : Sound(s, Len(carts)) /\ callers' = [callers EXCEPT ![c] = s]
    BY <1>3 DEF StepOf
  <2>3. \A d \in Caller : Sound(callers'[d], Len(carts))
    BY <2>2 DEF CartInv, CartTypeOK, CallersSound
  <2>4. \A d \in Caller :
          /\ HasCart(callers'[d]) <=> callers'[d].cart \in DOMAIN carts
          /\ callers'[d].at \in RunPoints => callers'[d].does \in MODES
    BY <2>3, Typed DEF Sound
  <2>5. callers' \in [Caller -> Callers]
    BY <2>2 DEF CartInv, CartTypeOK
  <2>6. runs' \in SUBSET Runs /\ \A r \in runs' : r.cart \in DOMAIN carts
    BY <1>5, <2>1 DEF CartInv, CartTypeOK
  <2>7. CartTypeOK'
    BY <1>1, <2>4, <2>5, <2>6 DEF CartInv, CartTypeOK, HasCart
  <2>8. CallersSound'
    BY <1>1, <2>3 DEF CallersSound, Sound, HasCart
  <2> QED
    BY <1>5, <2>7, <2>8, IndexKeeps DEF CartInv
<1> QED
  BY <1>4, <1>5 DEF InsertRun

\* A run ends.
LEMMA RunEndsStep ==
  ASSUME CartInv, NEW r \in runs, RunEnds(r)
  PROVE  CartInv'
  BY DEF RunEnds, CartInv, CartTypeOK, CallersSound, OneValidationPerContent, Sound, HasCart

-----------------------------------------------------------------------------
(* The invariant and its theorems *)

LEMMA InvInitially == Init => CartInv
<1> SUFFICES ASSUME Init PROVE CartInv
  OBVIOUS
<1>1. carts \in Seq(Carts) /\ Len(carts) = 0 /\ DOMAIN carts = {}
  BY EmptySeq DEF Init
<1>2. \A c \in Caller : Sound(callers[c], Len(carts)) /\ callers[c] = Idle
  BY <1>1, Values DEF Init
<1>3. callers \in [Caller -> Callers]
  BY Values DEF Init
<1>4. \A c \in Caller : ~HasCart(callers[c]) /\ callers[c].at \notin RunPoints
  BY <1>2 DEF Idle, HasCart, RunPoints
<1>5. CartTypeOK
  BY <1>1, <1>3, <1>4, CartAssumption DEF CartTypeOK, Init
<1> QED
  BY <1>2, <1>5 DEF CartInv, CallersSound, OneValidationPerContent, Init

LEMMA InvKept == CartInv /\ [Next]_vars => CartInv'
<1> SUFFICES ASSUME CartInv, [Next]_vars PROVE CartInv'
  OBVIOUS
<1>1. CASE UNCHANGED vars
  BY <1>1 DEF vars, CartInv, CartTypeOK, CallersSound, OneValidationPerContent,
              Sound, HasCart
<1>2. ASSUME NEW c \in Caller, SyncStep(c) PROVE CartInv'
  BY <1>2, StartSyncStep, FindStep, CreateCartStep, ReadPreviousStep, ClearStep,
     FillStep, RestoreStep DEF SyncStep
<1>3. ASSUME NEW c \in Caller, JudgeStep(c) PROVE CartInv'
  BY <1>3, CloseCartStep, ReadFlagStep, JudgeKeeps, RecordPassStep, RecordFailStep
     DEF JudgeStep
<1>4. ASSUME NEW c \in Caller, RunStep(c) PROVE CartInv'
  BY <1>4, BuildPayloadStep, MatchTwinStep, InsertRunStep, FindWinnerStep DEF RunStep
<1>5. CASE EditStep
  BY <1>5, EditStepKeeps
<1>6. ASSUME NEW r \in runs, RunEnds(r) PROVE CartInv'
  BY <1>6, RunEndsStep
<1> QED
  BY <1>1, <1>2, <1>3, <1>4, <1>5, <1>6, ClientStepKeeps DEF Next

\* The invariant's parts hold always.
LEMMA InvAlways == Spec => []CartInv
<1> QED
  BY InvInitially, InvKept, PTL DEF Spec

\* Rows and requests stay well-formed, and a request has a cart exactly from the
\* statement that returned it, whichever statements fail or are executed unseen.
THEOREM CartTypeCorrect == Spec => []CartTypeOK
<1>1. CartInv => CartTypeOK
  BY DEF CartInv
<1> QED
  BY <1>1, InvAlways, PTL

\* However many requests race past the lookup, the lines of a cart have one
\* validation in flight (createExecutionRunFromCart and its unique index).
THEOREM OneCheckPerContent == Spec => []OneValidationPerContent
<1>1. CartInv => OneValidationPerContent
  BY DEF CartInv
<1> QED
  BY <1>1, InvAlways, PTL

\* No client is answered with a run of other lines than its request read, whether the
\* run was created, found by the lookup, or won by another request.
THEOREM NoWrongMerge == Spec => []AnswersSpeakOfTheSnapshot
<1>1. CartInv => AnswersSpeakOfTheSnapshot
  BY DEF CartInv, CallersSound, Sound, AnswersSpeakOfTheSnapshot
<1> QED
  BY <1>1, InvAlways, PTL
-----------------------------------------------------------------------------
(* A request that meets no other *)

\* A request that has synced: its client knows the cart, or a run of it is being made.
HasSynced(s) == s.at = "synced" \/ s.at \in RunPoints

\* With a request that met no other there are only its own repetitions.
AloneTogether ==
  \A c, d \in Caller : callers[c].alone /\ callers[d].at # "idle" =>
    /\ callers[d].alone
    /\ d # c => /\ HasSynced(callers[c]) /\ HasSynced(callers[d])
                /\ callers[d].cart = callers[c].cart /\ callers[d].lines = callers[c].lines

\* Its cart has not been judged when its lines are written, is empty before they are, and
\* has them from then on; a verdict is of them, and so is what it has read.
AsWanted(s, cart) ==
  /\ s.at \in SyncPoints => ~cart.validated
  /\ s.at = "filling" => cart.lines = NoLines
  /\ HasSynced(s) =>
       /\ cart.lines = s.lines
       /\ cart.validated \/ s.at = "passing" => s.lines \in Legal
       /\ s.at \in {"matching", "placing", "losing"} => s.seen = s.lines /\ s.lines \in Legal
CartsAsWanted ==
  \A c \in Caller : callers[c].alone /\ HasCart(callers[c]) => AsWanted(callers[c], Cart(c))

\* A cart is judged after it has been closed.
PastClosing == RunPoints \ {"looking"}
ClosedFirst ==
  /\ \A k \in DOMAIN carts : carts[k].validated => ~carts[k].open
  /\ \A c \in Caller : callers[c].at \in PastClosing => ~Cart(c).open

AloneInv == ClosedFirst /\ AloneTogether /\ CartsAsWanted

\* What a request becomes in a step of its own: it is over, or keeps its lines and, once it
\* has synced, its cart.
Becomes(s, t) ==
  \/ t.at = "idle" /\ ~t.alone
  \/ /\ t.at # "idle" /\ t.alone = s.alone /\ t.lines = s.lines
     /\ HasSynced(s) => HasSynced(t) /\ t.cart = s.cart

\* What a request that has synced may do to carts: close its own, or judge it.
Judges(s) ==
  \A k \in DOMAIN carts :
    /\ carts'[k].lines = carts[k].lines
    /\ k # s.cart => carts'[k] = carts[k]
    /\ carts'[k].validated => carts[k].validated \/ ~s.alone \/ s.lines \in Legal

\* Carts are not opened again, nor judged while they are open.
StaysClosed ==
  /\ \A k \in DOMAIN carts : k \in DOMAIN carts' /\ (carts'[k].open => carts[k].open)
  /\ \A k \in DOMAIN carts' : carts'[k].validated => ~carts'[k].open

\* A step of one request keeps the invariant of the others, and its own if it is as wanted.
LEMMA StepAlone ==
  ASSUME CartInv, AloneInv, NEW c \in Caller, callers[c].at # "idle",
         NEW t, callers' = [callers EXCEPT ![c] = t], Becomes(callers[c], t),
         HasSynced(callers[c]) => Judges(callers[c]), StaysClosed,
         t.at \in PastClosing => ~carts'[t.cart].open,
         t.alone /\ HasCart(t) => AsWanted(t, carts'[t.cart])
  PROVE  AloneInv'
<1>1. callers'[c] = t /\ \A d \in Caller \ {c} : callers'[d] = callers[d]
  BY DEF CartInv, CartTypeOK
<1>2. AloneTogether'
  <2> SUFFICES ASSUME NEW x \in Caller, NEW y \in Caller,
                      callers'[x].alone, callers'[y].at # "idle"
               PROVE  /\ callers'[y].alone
                      /\ y # x => /\ HasSynced(callers'[x]) /\ HasSynced(callers'[y])
                                  /\ callers'[y].cart = callers'[x].cart
                                  /\ callers'[y].lines = callers'[x].lines
    BY DEF AloneTogether, HasSynced
  <2>1. CASE x # c /\ y # c
    BY <1>1, <2>1 DEF AloneInv, AloneTogether
  <2>2. CASE x = c /\ y = c
    BY <2>2
  <2>3. CASE x = c /\ y # c
    BY <1>1, <2>3 DEF AloneInv, AloneTogether, Becomes
  <2>4. CASE x # c /\ y = c
    BY <1>1, <2>4 DEF AloneInv, AloneTogether, Becomes
  <2> QED
    BY <2>1, <2>2, <2>3, <2>4
<1>3. CartsAsWanted'
  <2> SUFFICES ASSUME NEW d \in Caller, callers'[d].alone, HasCart(callers'[d])
               PROVE  AsWanted(callers'[d], carts'[callers'[d].cart])
    BY DEF CartsAsWanted, AsWanted, HasCart, HasSynced, Cart
  <2>1. CASE d = c
    BY <1>1, <2>1
  <2>2. CASE d # c
    <3>1. /\ callers[c].alone /\ HasSynced(callers[c]) /\ HasSynced(callers[d])
          /\ callers[d].cart = callers[c].cart /\ callers[d].lines = callers[c].lines
      BY <1>1, <2>2 DEF AloneInv, AloneTogether
    <3>2. AsWanted(callers[d], Cart(d)) /\ callers[d].cart \in DOMAIN carts
      BY <1>1, <2>2, CartExists DEF AloneInv, CartsAsWanted
    <3>3. Judges(callers[c]) /\ callers[d].at \notin SyncPoints /\ callers[d].at # "filling"
      BY <3>1 DEF HasSynced, SyncPoints, RunPoints
    <3> QED
      BY <1>1, <2>2, <3>1, <3>2, <3>3 DEF AsWanted, Judges, Cart
  <2> QED
    BY <2>1, <2>2
<1>4. ClosedFirst'
  <2>1. \A d \in Caller : callers'[d].at \in PastClosing => ~carts'[callers'[d].cart].open
    <3> SUFFICES ASSUME NEW d \in Caller, callers'[d].at \in PastClosing, d # c
                 PROVE  ~carts'[callers'[d].cart].open
      BY <1>1
    <3>1. HasCart(callers[d]) /\ ~Cart(d).open
      BY <1>1 DEF AloneInv, ClosedFirst, PastClosing, RunPoints, HasCart
    <3> QED
      BY <1>1, <3>1, CartExists DEF StaysClosed, Cart
  <2> QED
    BY <2>1 DEF ClosedFirst, StaysClosed, Cart, PastClosing, RunPoints
<1> QED
  BY <1>2, <1>3, <1>4 DEF AloneInv

\* The same, when no cart is written.
LEMMA QuietAlone ==
  ASSUME CartInv, AloneInv, NEW c \in Caller, callers[c].at # "idle", UNCHANGED carts,
         NEW t, callers' = [callers EXCEPT ![c] = t], Becomes(callers[c], t),
         t.at \in PastClosing => ~carts[t.cart].open,
         t.alone /\ HasCart(t) => AsWanted(t, carts[t.cart])
  PROVE  AloneInv'
<1>1. Judges(callers[c]) /\ StaysClosed
  BY DEF AloneInv, ClosedFirst, Judges, StaysClosed
<1> QED
  BY <1>1, StepAlone

\* A request that is over.
LEMMA LeavesAlone ==
  ASSUME CartInv, AloneInv, NEW c \in Caller, callers[c].at # "idle", Leaves(c),
         HasSynced(callers[c]) => Judges(callers[c]), StaysClosed
  PROVE  AloneInv'
<1>1. Becomes(callers[c], Idle) /\ ~Idle.alone /\ Idle.at \notin PastClosing
  BY DEF Becomes, Idle, PastClosing, RunPoints
<1> QED
  BY <1>1, StepAlone DEF Leaves

\* What a request from-cart knows when it is alone.
LEMMA RunAsWanted ==
  ASSUME CartInv, AloneInv, NEW c \in Caller, callers[c].at \in RunPoints
  PROVE  /\ callers[c].at # "idle" /\ HasSynced(callers[c]) /\ HasCart(callers[c])
         /\ callers[c].cart \in DOMAIN carts
         /\ callers[c].at \in PastClosing => ~Cart(c).open
         /\ callers[c].alone => AsWanted(callers[c], Cart(c))
<1>1. callers[c].at # "idle" /\ HasSynced(callers[c]) /\ HasCart(callers[c])
  BY DEF RunPoints, HasSynced, HasCart
<1> QED
  BY <1>1, CartExists DEF AloneInv, CartsAsWanted, ClosedFirst

\* A request that is left with its cart, or answered with a run.
LEMMA ComesBack ==
  ASSUME CartInv, AloneInv, NEW c \in Caller, callers[c].at \in RunPoints,
         NEW t, t.at = "synced", t.alone = callers[c].alone, t.lines = callers[c].lines,
         t.cart = callers[c].cart, callers' = [callers EXCEPT ![c] = t],
         Judges(callers[c]), StaysClosed
  PROVE  AloneInv'
<1>1. Becomes(callers[c], t)
  BY DEF Becomes, HasSynced
<1>2. ASSUME t.alone PROVE AsWanted(t, carts'[t.cart])
  BY <1>2, RunAsWanted DEF AsWanted, Judges, HasSynced, SyncPoints, Cart
<1>3. t.at \notin PastClosing
  BY DEF PastClosing, RunPoints
<1> QED
  BY <1>1, <1>2, <1>3, RunAsWanted, StepAlone

LEMMA FailsAlone ==
  ASSUME CartInv, AloneInv, NEW c \in Caller, callers[c].at \in RunPoints, Fails(c),
         Judges(callers[c]), StaysClosed
  PROVE  AloneInv'
<1> DEFINE t == [callers[c] EXCEPT !.at = "synced", !.does = "sync", !.seen = NoLines]
<1>1. /\ t.at = "synced" /\ t.alone = callers[c].alone
      /\ t.lines = callers[c].lines /\ t.cart = callers[c].cart
  BY Typed DEF Callers
<1>2. callers' = [callers EXCEPT ![c] = t]
  BY DEF Fails
<1> QED
  BY <1>1, <1>2, ComesBack

LEMMA AnswersAlone ==
  ASSUME CartInv, AloneInv, NEW c \in Caller, callers[c].at \in RunPoints,
         NEW r, Answers(c, r), UNCHANGED carts
  PROVE  AloneInv'
<1> DEFINE t == [callers[c] EXCEPT !.at = "synced", !.does = "sync", !.answer = r.lines]
<1>1. /\ t.at = "synced" /\ t.alone = callers[c].alone
      /\ t.lines = callers[c].lines /\ t.cart = callers[c].cart
  BY Typed DEF Callers
<1>2. callers' = [callers EXCEPT ![c] = t]
  BY DEF Answers
<1>3. Judges(callers[c]) /\ StaysClosed
  BY DEF AloneInv, ClosedFirst, Judges, StaysClosed
<1> QED
  BY <1>1, <1>2, <1>3, ComesBack

LEMMA RefusedAlone ==
  ASSUME CartInv, AloneInv, NEW c \in Caller, callers[c].at # "idle", Refused(c),
         HasSynced(callers[c]) => Judges(callers[c]), StaysClosed
  PROVE  AloneInv'
<1>1. CASE callers[c].does \in MODES
  <2>1. callers[c].at \in RunPoints /\ HasSynced(callers[c])
    BY <1>1, Typed DEF Sound, HasSynced
  <2> QED
    BY <1>1, <2>1, FailsAlone DEF Refused
<1>2. CASE callers[c].does \notin MODES
  BY <1>2, LeavesAlone DEF Refused
<1> QED
  BY <1>1, <1>2

\* From one point of a request to another.
LEMMA MovesAlone ==
  ASSUME CartInv, AloneInv, NEW c \in Caller, callers[c].at # "idle",
         NEW point \in Points \ {"idle"}, Moves(c, point),
         HasSynced(callers[c]) => point \in RunPoints /\ Judges(callers[c]), StaysClosed,
         point \in PastClosing => ~carts'[callers[c].cart].open,
         callers[c].alone /\ point \notin {"finding", "creating"} =>
           AsWanted([callers[c] EXCEPT !.at = point], carts'[callers[c].cart])
  PROVE  AloneInv'
<1> DEFINE t == [callers[c] EXCEPT !.at = point]
<1>1. /\ t.at = point /\ t.alone = callers[c].alone
      /\ t.lines = callers[c].lines /\ t.cart = callers[c].cart
  BY Typed DEF Callers
<1>2. Becomes(callers[c], t)
  BY <1>1 DEF Becomes, HasSynced
<1>3. callers' = [callers EXCEPT ![c] = t]
  BY DEF Moves
<1>4. t.alone /\ HasCart(t) => AsWanted(t, carts'[t.cart])
  BY <1>1 DEF HasCart
<1>5. t.at \in PastClosing => ~carts'[t.cart].open
  BY <1>1
<1> HIDE DEF t
<1> QED
  BY <1>2, <1>3, <1>4, <1>5, StepAlone

\* When the cart of a request is overwritten, with the lines it had or by a request that
\* has not synced, no cart is opened.
LEMMA CartRewritten ==
  ASSUME CartInv, AloneInv, NEW c \in Caller, HasCart(callers[c]), NEW cart,
         carts' = [carts EXCEPT ![callers[c].cart] = cart],
         cart.open => Cart(c).open, cart.validated => ~cart.open
  PROVE  /\ StaysClosed
         /\ carts'[callers[c].cart] = cart
         /\ (/\ cart.lines = Cart(c).lines
             /\ cart.validated => Cart(c).validated \/ ~callers[c].alone
                                    \/ callers[c].lines \in Legal)
              => Judges(callers[c])
<1>1. callers[c].cart \in DOMAIN carts /\ DOMAIN carts' = DOMAIN carts
  BY CartExists
<1>2. carts'[callers[c].cart] = cart
  BY <1>1
<1>3. \A k \in DOMAIN carts : k # callers[c].cart => carts'[k] = carts[k]
  OBVIOUS
<1>4. StaysClosed
  BY <1>1, <1>2, <1>3 DEF StaysClosed, AloneInv, ClosedFirst, Cart
<1> QED
  BY <1>1, <1>2, <1>3, <1>4 DEF Judges, Cart

\* A request that writes lines to its cart while it syncs.
LEMMA SyncWrites ==
  ASSUME CartInv, AloneInv, NEW c \in Caller, callers[c].at \in SyncPoints,
         NEW lines \in Lines, Writes(c, lines)
  PROVE  /\ StaysClosed
         /\ callers[c].at # "idle" /\ HasCart(callers[c]) /\ ~HasSynced(callers[c])
         /\ carts'[callers[c].cart].lines = lines
         /\ callers[c].alone => ~carts'[callers[c].cart].validated
<1> DEFINE cart == [Cart(c) EXCEPT !.lines = lines]
<1>1. callers[c].at # "idle" /\ HasCart(callers[c]) /\ ~HasSynced(callers[c])
  BY DEF SyncPoints, RunPoints, HasCart, HasSynced
<1>2. /\ cart.open = Cart(c).open /\ cart.validated = Cart(c).validated
      /\ cart.lines = lines
  BY <1>1, CartExists DEF Carts
<1>3. carts' = [carts EXCEPT ![callers[c].cart] = cart]
  BY <1>1, CartExists DEF Writes, Cart
<1>4. cart.validated => ~cart.open
  BY <1>1, <1>2, CartExists DEF AloneInv, ClosedFirst, Cart
<1>5. StaysClosed /\ carts'[callers[c].cart] = cart
  <2> HIDE DEF cart
  <2> QED
    BY <1>1, <1>2, <1>3, <1>4, CartRewritten
<1>6. callers[c].alone => ~Cart(c).validated
  BY <1>1 DEF AloneInv, CartsAsWanted, AsWanted
<1> QED
  BY <1>1, <1>2, <1>5, <1>6

LEMMA StartSyncAlone ==
  ASSUME CartInv, AloneInv, NEW c \in Caller, NEW lines \in Wanted, StartSync(c, lines)
  PROVE  AloneInv'
<1> DEFINE s == [Idle EXCEPT !.at = "finding", !.does = "sync", !.lines = lines,
                             !.alone = \A e \in Caller : callers[e].at = "idle"]
<1>1. \A d \in Caller :
        callers'[d] = IF d = c THEN s ELSE [callers[d] EXCEPT !.alone = FALSE]
  BY DEF StartSync
<1>2. s.at = "finding" /\ (s.alone => \A e \in Caller : callers[e].at = "idle")
  BY DEF Idle
<1> HIDE DEF s
<1>3. \A d \in Caller \ {c} : /\ ~callers'[d].alone
                              /\ callers'[d].at = callers[d].at
                              /\ callers'[d].cart = callers[d].cart
  BY <1>1, Typed DEF Callers
<1>4. callers'[c].at = "finding"
  BY <1>1, <1>2
<1>5. AloneTogether'
  BY <1>1, <1>2, <1>3, <1>4 DEF AloneTogether
<1>6. CartsAsWanted'
  BY <1>3, <1>4 DEF CartsAsWanted, HasCart
<1>7. ClosedFirst'
  BY <1>3, <1>4 DEF StartSync, AloneInv, ClosedFirst, Cart, PastClosing, RunPoints
<1> QED
  BY <1>5, <1>6, <1>7 DEF AloneInv

LEMMA FindAlone ==
  ASSUME CartInv, AloneInv, NEW c \in Caller, Find(c)
  PROVE  AloneInv'
<1>1. /\ callers[c].at = "finding" /\ callers[c].at # "idle" /\ ~HasSynced(callers[c])
      /\ UNCHANGED carts
  BY DEF Find, HasSynced, RunPoints
<1>2. CASE Moves(c, "creating")
  <2>1. "creating" \in Points \ {"idle"} /\ "creating" \notin PastClosing
    BY DEF Points, PastClosing, RunPoints
  <2>2. StaysClosed
    BY <1>1 DEF AloneInv, ClosedFirst, StaysClosed
  <2> QED
    BY <1>1, <1>2, <2>1, <2>2, MovesAlone
<1>3. ASSUME NEW k \in OpenCarts,
             callers' = [callers EXCEPT ![c].at = "reading", ![c].cart = k]
      PROVE  AloneInv'
  <2> DEFINE t == [callers[c] EXCEPT !.at = "reading", !.cart = k]
  <2>1. /\ t.at = "reading" /\ t.alone = callers[c].alone
        /\ t.lines = callers[c].lines /\ t.cart = k
    BY Typed DEF Callers
  <2>2. Becomes(callers[c], t)
    BY <1>1, <2>1 DEF Becomes
  <2>3. ~carts[k].validated
    BY DEF OpenCarts, AloneInv, ClosedFirst
  <2>4. AsWanted(t, carts[t.cart])
    BY <2>1, <2>3 DEF AsWanted, HasSynced, RunPoints
  <2>5. t.at \notin PastClosing
    BY <2>1 DEF PastClosing, RunPoints
  <2>6. callers' = [callers EXCEPT ![c] = t]
    BY <1>3
  <2> HIDE DEF t
  <2> QED
    BY <1>1, <2>2, <2>4, <2>5, <2>6, QuietAlone
<1> QED
  BY <1>2, <1>3 DEF Find

\* A cart more: the others are as they were.
LEMMA AppendedAlone ==
  ASSUME CartInv, AloneInv, carts' = Append(carts, NewCart)
  PROVE  /\ \A k \in DOMAIN carts : k \in DOMAIN carts' /\ carts'[k] = carts[k]
         /\ carts'[Len(carts) + 1] = NewCart
         /\ StaysClosed
<1>1. carts \in Seq(Carts) /\ NewCart \in Carts
  BY Values DEF CartInv, CartTypeOK
<1>2. DOMAIN carts' = 1..Len(carts) + 1 /\ DOMAIN carts = 1..Len(carts) /\ Len(carts) \in Nat
  BY <1>1, AppendProperties, LenProperties
<1>3. \A k \in 1..Len(carts) : k \in DOMAIN carts' /\ carts'[k] = carts[k]
  BY <1>1, <1>2, AppendProperties
<1>4. carts'[Len(carts) + 1] = NewCart
  BY <1>1, AppendProperties
<1>5. \A k \in DOMAIN carts' : k \in DOMAIN carts \/ k = Len(carts) + 1
  BY <1>2
<1> QED
  BY <1>2, <1>3, <1>4, <1>5 DEF StaysClosed, AloneInv, ClosedFirst, NewCart

LEMMA CreateCartAlone ==
  ASSUME CartInv, AloneInv, NEW c \in Caller, CreateCart(c)
  PROVE  AloneInv'
<1>1. /\ callers[c].at # "idle" /\ ~HasSynced(callers[c])
      /\ carts' = Append(carts, NewCart)
  BY DEF CreateCart, HasSynced, RunPoints
<1>2. StaysClosed /\ carts'[Len(carts) + 1] = NewCart
  BY <1>1, AppendedAlone
<1>3. CASE Leaves(c)
  BY <1>1, <1>2, <1>3, LeavesAlone
<1>4. CASE callers' = [callers EXCEPT ![c].at = "reading", ![c].cart = Len(carts) + 1]
  <2> DEFINE t == [callers[c] EXCEPT !.at = "reading", !.cart = Len(carts) + 1]
  <2>1. /\ t.at = "reading" /\ t.alone = callers[c].alone
        /\ t.lines = callers[c].lines /\ t.cart = Len(carts) + 1
    BY Typed DEF Callers
  <2>2. Becomes(callers[c], t)
    BY <1>1, <2>1 DEF Becomes
  <2>3. AsWanted(t, carts'[t.cart])
    BY <1>2, <2>1 DEF AsWanted, HasSynced, RunPoints, NewCart
  <2>4. t.at \notin PastClosing
    BY <2>1 DEF PastClosing, RunPoints
  <2>5. callers' = [callers EXCEPT ![c] = t]
    BY <1>4
  <2> HIDE DEF t
  <2> QED
    BY <1>1, <1>2, <2>2, <2>3, <2>4, <2>5, StepAlone
<1> QED
  BY <1>3, <1>4 DEF CreateCart

LEMMA ReadPreviousAlone ==
  ASSUME CartInv, AloneInv, NEW c \in Caller, ReadPrevious(c)
  PROVE  AloneInv'
<1> DEFINE t == [callers[c] EXCEPT !.at = "clearing", !.seen = Cart(c).lines]
<1>1. /\ callers[c].at = "reading" /\ callers[c].at # "idle" /\ ~HasSynced(callers[c])
      /\ HasCart(callers[c]) /\ callers[c].at \in SyncPoints /\ UNCHANGED carts
  BY DEF ReadPrevious, HasSynced, HasCart, SyncPoints, RunPoints
<1>2. /\ t.at = "clearing" /\ t.alone = callers[c].alone
      /\ t.lines = callers[c].lines /\ t.cart = callers[c].cart
  BY Typed DEF Callers
<1>3. Becomes(callers[c], t)
  BY <1>1, <1>2 DEF Becomes
<1>4. t.alone => AsWanted(t, carts[t.cart])
  BY <1>1, <1>2 DEF AloneInv, CartsAsWanted, AsWanted, HasSynced, RunPoints, Cart
<1>5. t.at \notin PastClosing
  BY <1>2 DEF PastClosing, RunPoints
<1>6. callers' = [callers EXCEPT ![c] = t]
  BY DEF ReadPrevious
<1> HIDE DEF t
<1> QED
  BY <1>1, <1>3, <1>4, <1>5, <1>6, QuietAlone

LEMMA ClearAlone ==
  ASSUME CartInv, AloneInv, NEW c \in Caller, Clear(c)
  PROVE  AloneInv'
<1>1. callers[c].at \in SyncPoints /\ Writes(c, NoLines) /\ NoLines \in Lines
  BY Values DEF Clear, SyncPoints
<1>2. /\ StaysClosed
      /\ callers[c].at # "idle" /\ HasCart(callers[c]) /\ ~HasSynced(callers[c])
      /\ carts'[callers[c].cart].lines = NoLines
      /\ callers[c].alone => ~carts'[callers[c].cart].validated
  BY <1>1, SyncWrites
<1>3. CASE Moves(c, "filling")
  <2> DEFINE t == [callers[c] EXCEPT !.at = "filling"]
  <2>1. t.at = "filling"
    BY Typed DEF Callers
  <2>2. callers[c].alone => AsWanted(t, carts'[callers[c].cart])
    BY <1>2, <2>1 DEF AsWanted, HasSynced, RunPoints
  <2>3. "filling" \in Points \ {"idle"} /\ "filling" \notin PastClosing
    BY DEF Points, SyncPoints, PastClosing, RunPoints
  <2> QED
    BY <1>2, <1>3, <2>2, <2>3, MovesAlone
<1>4. CASE Refused(c)
  BY <1>2, <1>4, RefusedAlone
<1> QED
  BY <1>3, <1>4 DEF Clear, ThenOrRefused

\* What is written over no lines is what is wanted.
LEMMA WithNothing ==
  ASSUME NEW lines \in Lines
  PROVE  With(NoLines, lines) = lines
<1>1. \A b \in Bottle : lines[b] \in Nat
  BY CartAssumption DEF Lines
<1>2. \A n \in Nat : ~(n > 0) => n = 0
  OBVIOUS
<1>3. \A b \in Bottle : ~(lines[b] > 0) => lines[b] = 0
  BY <1>1, <1>2
<1> QED
  BY <1>3 DEF With, NoLines, Lines

\* A sync that fails after its cart was cleared: it restores, or leaves.
LEMMA FallBackAlone ==
  ASSUME CartInv, AloneInv, NEW c \in Caller, callers[c].at = "filling", FallBack(c),
         StaysClosed, callers[c].alone => ~carts'[callers[c].cart].validated
  PROVE  AloneInv'
<1>1. callers[c].at # "idle" /\ ~HasSynced(callers[c])
  BY DEF HasSynced, RunPoints
<1>2. CASE Leaves(c)
  BY <1>1, <1>2, LeavesAlone
<1>3. CASE Moves(c, "restoring")
  <2> DEFINE t == [callers[c] EXCEPT !.at = "restoring"]
  <2>1. t.at = "restoring"
    BY Typed DEF Callers
  <2>2. callers[c].alone => AsWanted(t, carts'[callers[c].cart])
    BY <2>1 DEF AsWanted, HasSynced, RunPoints
  <2>3. "restoring" \in Points \ {"idle"} /\ "restoring" \notin PastClosing
    BY DEF Points, SyncPoints, PastClosing, RunPoints
  <2> QED
    BY <1>1, <1>3, <2>2, <2>3, MovesAlone
<1> QED
  BY <1>2, <1>3 DEF FallBack

LEMMA FillAlone ==
  ASSUME CartInv, AloneInv, NEW c \in Caller, Fill(c)
  PROVE  AloneInv'
<1> DEFINE filled == With(Cart(c).lines, callers[c].lines)
<1>1. /\ callers[c].at = "filling" /\ callers[c].at \in SyncPoints
      /\ HasCart(callers[c])
      /\ callers[c].lines \in Lines /\ Cart(c).lines \in Lines
  BY Typed, CartExists DEF Fill, SyncPoints, HasCart, Callers
<1>2. CASE FallBack(c) /\ UNCHANGED carts
  <2>1. StaysClosed
    BY <1>2 DEF AloneInv, ClosedFirst, StaysClosed
  <2>2. callers[c].alone => ~carts'[callers[c].cart].validated
    BY <1>1, <1>2 DEF AloneInv, CartsAsWanted, AsWanted, Cart
  <2> QED
    BY <1>1, <1>2, <2>1, <2>2, FallBackAlone
<1>3. CASE Writes(c, filled)
  <2>1. filled \in Lines
    BY <1>1, WithType
  <2> HIDE DEF filled
  <2>2. /\ StaysClosed
        /\ callers[c].at # "idle" /\ ~HasSynced(callers[c])
        /\ carts'[callers[c].cart].lines = filled
        /\ callers[c].alone => ~carts'[callers[c].cart].validated
    BY <1>1, <1>3, <2>1, SyncWrites
  <2>3. CASE FallBack(c)
    BY <1>1, <2>2, <2>3, FallBackAlone
  <2>4. CASE callers' = [callers EXCEPT ![c].at = "synced", ![c].seen = NoLines]
    <3> DEFINE t == [callers[c] EXCEPT !.at = "synced", !.seen = NoLines]
    <3>1. /\ t.at = "synced" /\ t.alone = callers[c].alone
          /\ t.lines = callers[c].lines /\ t.cart = callers[c].cart
      BY Typed DEF Callers
    <3>2. Becomes(callers[c], t)
      BY <2>2, <3>1 DEF Becomes
    <3>3. callers[c].alone => filled = callers[c].lines
      BY <1>1, WithNothing DEF filled, AloneInv, CartsAsWanted, AsWanted
    <3>4. t.alone => AsWanted(t, carts'[t.cart])
      BY <2>2, <3>1, <3>3 DEF AsWanted, SyncPoints
    <3>5. t.at \notin PastClosing
      BY <3>1 DEF PastClosing, RunPoints
    <3>6. callers' = [callers EXCEPT ![c] = t]
      BY <2>4
    <3> HIDE DEF t
    <3> QED
      BY <2>2, <3>2, <3>4, <3>5, <3>6, StepAlone
  <2> QED
    BY <1>2, <2>3, <2>4 DEF Fill, filled
<1> QED
  BY <1>2, <1>3 DEF Fill

LEMMA RestoreAlone ==
  ASSUME CartInv, AloneInv, NEW c \in Caller, Restore(c)
  PROVE  AloneInv'
<1>1. /\ callers[c].at \in SyncPoints /\ HasCart(callers[c]) /\ Leaves(c)
      /\ Writes(c, With(Cart(c).lines, callers[c].seen))
  BY DEF Restore, SyncPoints, HasCart
<1>2. With(Cart(c).lines, callers[c].seen) \in Lines
  BY <1>1, CartExists, Typed, WithType DEF Callers
<1>3. StaysClosed /\ callers[c].at # "idle" /\ ~HasSynced(callers[c])
  BY <1>1, <1>2, SyncWrites
<1> QED
  BY <1>1, <1>3, LeavesAlone

\* The other routes disturb everybody, and open or judge no cart.
LEMMA EditAlone ==
  ASSUME CartInv, AloneInv, Edits, StaysClosed
  PROVE  AloneInv'
<1>1. \A d \in Caller : /\ ~callers'[d].alone
                        /\ callers'[d].at = callers[d].at
                        /\ callers'[d].cart = callers[d].cart
  BY Typed DEF Edits, Callers
<1>2. ASSUME NEW d \in Caller, callers'[d].at \in PastClosing
      PROVE  ~carts'[callers'[d].cart].open
  <2>1. HasCart(callers[d]) /\ ~Cart(d).open
    BY <1>1, <1>2 DEF AloneInv, ClosedFirst, PastClosing, RunPoints, HasCart
  <2> QED
    BY <1>1, <2>1, CartExists DEF StaysClosed, Cart
<1>3. ClosedFirst'
  BY <1>2 DEF ClosedFirst, StaysClosed, Cart, PastClosing, RunPoints
<1> QED
  BY <1>1, <1>3 DEF AloneInv, AloneTogether, CartsAsWanted

LEMMA EditStepAlone ==
  ASSUME CartInv, AloneInv, EditStep
  PROVE  AloneInv'
<1>1. ASSUME NEW k \in DOMAIN carts, NEW cart, carts' = [carts EXCEPT ![k] = cart], Edits,
             cart.open => carts[k].open, cart.validated = carts[k].validated
      PROVE  AloneInv'
  <2>1. StaysClosed
    BY <1>1 DEF StaysClosed, AloneInv, ClosedFirst
  <2> QED
    BY <1>1, <2>1, EditAlone
<1>2. CASE OpenCart
  BY <1>2, AppendedAlone, EditAlone DEF OpenCart
<1>3. \A k \in DOMAIN carts, new \in Lines :
        /\ [carts[k] EXCEPT !.lines = new].open = carts[k].open
        /\ [carts[k] EXCEPT !.lines = new].validated = carts[k].validated
  BY Typed DEF Carts
<1>4. ASSUME NEW k \in DOMAIN carts, NEW new, Edits,
             carts' = [carts EXCEPT ![k] = [carts[k] EXCEPT !.lines = new]]
      PROVE  AloneInv'
  <2> DEFINE cart == [carts[k] EXCEPT !.lines = new]
  <2>1. cart.open = carts[k].open /\ cart.validated = carts[k].validated
    BY Typed DEF Carts
  <2>2. carts' = [carts EXCEPT ![k] = cart]
    BY <1>4
  <2> HIDE DEF cart
  <2> QED
    BY <1>1, <1>4, <2>1, <2>2
<1>5. ASSUME NEW k \in DOMAIN carts, EmptyCart(k) PROVE AloneInv'
  BY <1>4, <1>5 DEF EmptyCart
<1>6. ASSUME NEW k \in DOMAIN carts, NEW b \in Bottle, AddItem(k, b) PROVE AloneInv'
  <2> DEFINE new == [carts[k].lines EXCEPT ![b] = carts[k].lines[b] + 1]
  <2>1. carts' = [carts EXCEPT ![k] = [carts[k] EXCEPT !.lines = new]] /\ Edits
    BY <1>6 DEF AddItem
  <2> QED
    BY <1>4, <2>1
<1>7. ASSUME NEW k \in DOMAIN carts, NEW b \in Bottle, NEW q \in 0..MaxQty,
             EditItem(k, b, q)
      PROVE  AloneInv'
  <2> DEFINE new == [carts[k].lines EXCEPT ![b] = q]
  <2>1. carts' = [carts EXCEPT ![k] = [carts[k] EXCEPT !.lines = new]] /\ Edits
    BY <1>7 DEF EditItem
  <2> QED
    BY <1>4, <2>1
<1>8. ASSUME NEW k \in DOMAIN carts, SubmitCart(k) PROVE AloneInv'
  <2> DEFINE cart == [carts[k] EXCEPT !.open = FALSE]
  <2>1. ~cart.open /\ cart.validated = carts[k].validated
    BY Typed DEF Carts
  <2>2. carts' = [carts EXCEPT ![k] = cart] /\ Edits
    BY <1>8 DEF SubmitCart
  <2> HIDE DEF cart
  <2> QED
    BY <1>1, <2>1, <2>2
<1> QED
  BY <1>2, <1>5, <1>6, <1>7, <1>8 DEF EditStep

LEMMA TriggerAlone ==
  ASSUME CartInv, AloneInv, NEW c \in Caller, NEW mode \in MODES, Trigger(c, mode)
  PROVE  AloneInv'
<1> DEFINE t == [callers[c] EXCEPT !.at = "looking", !.does = mode,
                                   !.seen = NoLines, !.answer = NoLines]
<1>1. /\ callers[c].at = "synced" /\ callers[c].at # "idle" /\ HasSynced(callers[c])
      /\ HasCart(callers[c]) /\ UNCHANGED carts
  BY DEF Trigger, HasSynced, HasCart
<1>2. /\ t.at = "looking" /\ t.alone = callers[c].alone
      /\ t.lines = callers[c].lines /\ t.cart = callers[c].cart
  BY Typed DEF Callers
<1>3. callers' = [callers EXCEPT ![c] = t]
  BY DEF Trigger
<1> HIDE DEF t
<1>4. Becomes(callers[c], t)
  BY <1>2 DEF Becomes, HasSynced, RunPoints
<1>5. t.alone => AsWanted(t, carts[t.cart])
  BY <1>1, <1>2 DEF AloneInv, CartsAsWanted, AsWanted, SyncPoints, Cart
<1>6. t.at \notin PastClosing
  BY <1>2 DEF PastClosing
<1> QED
  BY <1>1, <1>3, <1>4, <1>5, <1>6, QuietAlone

\* The same request once more: it has the lines and the cart of the first.
LEMMA TriggerAgainAlone ==
  ASSUME CartInv, AloneInv, NEW c \in Caller, NEW d \in Caller, TriggerAgain(c, d)
  PROVE  AloneInv'
<1> DEFINE t == [callers[c] EXCEPT !.at = "looking", !.seen = NoLines]
<1>1. /\ callers[c].at \in RunPoints /\ callers[d].at = "idle" /\ c # d
      /\ UNCHANGED carts
  BY DEF TriggerAgain, RunPoints
<1>2. /\ t.at = "looking" /\ t.alone = callers[c].alone
      /\ t.lines = callers[c].lines /\ t.cart = callers[c].cart
  BY Typed DEF Callers
<1>3. callers'[d] = t /\ \A e \in Caller \ {d} : callers'[e] = callers[e]
  BY DEF TriggerAgain, CartInv, CartTypeOK
<1> HIDE DEF t
<1>4. HasSynced(t) /\ HasSynced(callers[c]) /\ HasCart(callers[c])
      /\ callers[c].at # "idle" /\ t.at # "idle" /\ t.at \notin PastClosing
  BY <1>1, <1>2, RunAsWanted DEF HasSynced, RunPoints, PastClosing
<1>5. AloneTogether'
  <2> SUFFICES ASSUME NEW x \in Caller, NEW y \in Caller,
                      callers'[x].alone, callers'[y].at # "idle"
               PROVE  /\ callers'[y].alone
                      /\ y # x => /\ HasSynced(callers'[x]) /\ HasSynced(callers'[y])
                                  /\ callers'[y].cart = callers'[x].cart
                                  /\ callers'[y].lines = callers'[x].lines
    BY DEF AloneTogether, HasSynced
  <2>1. CASE x # d /\ y # d
    BY <1>3, <2>1 DEF AloneInv, AloneTogether
  <2>2. CASE x = d /\ y = d
    BY <2>2
  <2>3. CASE x = d /\ y # d
    <3>1. CASE y = c
      BY <1>2, <1>3, <1>4, <2>3, <3>1
    <3>2. CASE y # c
      BY <1>2, <1>3, <1>4, <2>3, <3>2 DEF AloneInv, AloneTogether
    <3> QED
      BY <3>1, <3>2
  <2>4. CASE x # d /\ y = d
    <3>1. CASE x = c
      BY <1>2, <1>3, <1>4, <2>4, <3>1
    <3>2. CASE x # c
      BY <1>2, <1>3, <1>4, <2>4, <3>2 DEF AloneInv, AloneTogether
    <3> QED
      BY <3>1, <3>2
  <2> QED
    BY <2>1, <2>2, <2>3, <2>4
<1>6. CartsAsWanted'
  <2> SUFFICES ASSUME NEW e \in Caller, callers'[e].alone, HasCart(callers'[e])
               PROVE  AsWanted(callers'[e], carts[callers'[e].cart])
    BY <1>1 DEF CartsAsWanted, AsWanted, HasCart, HasSynced, Cart
  <2>1. CASE e # d
    BY <1>3, <2>1 DEF AloneInv, CartsAsWanted, Cart
  <2>2. CASE e = d
    <3>1. AsWanted(callers[c], Cart(c))
      BY <1>1, <1>2, <1>3, <2>2, RunAsWanted
    <3> QED
      BY <1>2, <1>3, <1>4, <2>2, <3>1 DEF AsWanted, SyncPoints, Cart
  <2> QED
    BY <2>1, <2>2
<1>7. ClosedFirst'
  BY <1>1, <1>3, <1>4 DEF AloneInv, ClosedFirst, Cart, PastClosing, RunPoints
<1> QED
  BY <1>5, <1>6, <1>7 DEF AloneInv

LEMMA ClientStepAlone ==
  ASSUME CartInv, AloneInv, NEW c \in Caller, ClientStep(c)
  PROVE  AloneInv'
<1>1. UNCHANGED carts => Judges(callers[c]) /\ StaysClosed
  BY DEF AloneInv, ClosedFirst, Judges, StaysClosed
<1>2. ClientLeaves(c) => AloneInv'
  BY <1>1, LeavesAlone DEF ClientLeaves
<1>3. Drops(c) => AloneInv'
  BY <1>1, RefusedAlone DEF Drops
<1> QED
  BY <1>2, <1>3, TriggerAlone, TriggerAgainAlone DEF ClientStep

\* Between two points of the request from-cart.
LEMMA RunMovesAlone ==
  ASSUME CartInv, AloneInv, NEW c \in Caller, callers[c].at \in RunPoints,
         NEW point \in RunPoints, Moves(c, point), Judges(callers[c]), StaysClosed,
         point \in PastClosing => ~carts'[callers[c].cart].open,
         callers[c].alone /\ point = "passing" => callers[c].lines \in Legal,
         callers[c].alone /\ point \in {"matching", "placing", "losing"} =>
           callers[c].seen = callers[c].lines /\ callers[c].lines \in Legal
  PROVE  AloneInv'
<1> DEFINE t == [callers[c] EXCEPT !.at = point]
<1>1. /\ t.at = point /\ t.alone = callers[c].alone /\ t.seen = callers[c].seen
      /\ t.lines = callers[c].lines /\ t.cart = callers[c].cart
  BY Typed DEF Callers
<1>2. point \in Points \ {"idle"} /\ point \notin SyncPoints /\ point # "filling"
  BY DEF Points, RunPoints, SyncPoints
<1>3. ASSUME callers[c].alone PROVE AsWanted(t, carts'[callers[c].cart])
  <2> HIDE DEF t
  <2>1. callers[c].cart \in DOMAIN carts /\ AsWanted(callers[c], Cart(c))
        /\ HasSynced(callers[c])
    BY <1>3, RunAsWanted
  <2> QED
    BY <1>1, <1>2, <1>3, <2>1 DEF AsWanted, Judges, Cart
<1> QED
  BY <1>2, <1>3, RunAsWanted, MovesAlone

LEMMA CloseCartAlone ==
  ASSUME CartInv, AloneInv, NEW c \in Caller, CloseCart(c)
  PROVE  AloneInv'
<1> DEFINE cart == [Cart(c) EXCEPT !.open = FALSE]
<1>1. callers[c].at = "looking" /\ callers[c].at \in RunPoints
  BY DEF CloseCart, RunPoints
<1>2. callers[c].at # "idle" /\ HasCart(callers[c])
  BY <1>1, RunAsWanted
<1>3. ~cart.open /\ cart.validated = Cart(c).validated /\ cart.lines = Cart(c).lines
  BY <1>2, CartExists DEF Carts
<1>4. carts' = [carts EXCEPT ![callers[c].cart] = cart]
  BY DEF CloseCart, Cart
<1> HIDE DEF cart
<1>5. StaysClosed /\ Judges(callers[c]) /\ carts'[callers[c].cart] = cart
  BY <1>2, <1>3, <1>4, CartRewritten
<1>6. Moves(c, "flagging") => AloneInv'
  BY <1>1, <1>3, <1>5, RunMovesAlone DEF RunPoints
<1> QED
  BY <1>2, <1>5, <1>6, RefusedAlone DEF CloseCart, ThenOrRefused

\* A step of from-cart that writes no cart.
LEMMA QuietRun ==
  ASSUME CartInv, AloneInv, NEW c \in Caller, callers[c].at \in PastClosing, UNCHANGED carts
  PROVE  /\ callers[c].at \in RunPoints
         /\ Judges(callers[c]) /\ StaysClosed
         /\ ~carts'[callers[c].cart].open
         /\ callers[c].alone => AsWanted(callers[c], Cart(c)) /\ HasSynced(callers[c])
  BY RunAsWanted DEF AloneInv, ClosedFirst, Judges, StaysClosed, Cart, PastClosing

LEMMA ReadFlagAlone ==
  ASSUME CartInv, AloneInv, NEW c \in Caller, ReadFlag(c)
  PROVE  AloneInv'
<1>1. callers[c].at \in PastClosing /\ UNCHANGED carts
  BY DEF ReadFlag, PastClosing, RunPoints
<1>2. PICK point \in {"building", "judging"} : Moves(c, point)
  BY DEF ReadFlag
<1> QED
  BY <1>1, <1>2, QuietRun, RunMovesAlone DEF RunPoints

LEMMA JudgeAlone ==
  ASSUME CartInv, AloneInv, NEW c \in Caller, Judge(c)
  PROVE  AloneInv'
<1>1. callers[c].at \in PastClosing /\ UNCHANGED carts
  BY DEF Judge, PastClosing, RunPoints
<1>2. CASE Fails(c)
  BY <1>1, <1>2, QuietRun, FailsAlone
<1>3. ASSUME NEW point \in Verdicts(Cart(c).lines), Moves(c, point) PROVE AloneInv'
  <2>1. point \in {"passing", "failing"} /\ (point = "passing" => Cart(c).lines \in Legal)
    BY DEF Verdicts
  <2>2. callers[c].alone => Cart(c).lines = callers[c].lines
    BY <1>1, QuietRun DEF AsWanted
  <2> QED
    BY <1>1, <1>3, <2>1, <2>2, QuietRun, RunMovesAlone DEF RunPoints
<1> QED
  BY <1>2, <1>3 DEF Judge

LEMMA RecordPassAlone ==
  ASSUME CartInv, AloneInv, NEW c \in Caller, RecordPass(c)
  PROVE  AloneInv'
<1> DEFINE cart == [Cart(c) EXCEPT !.validated = TRUE]
<1>1. /\ callers[c].at = "passing" /\ callers[c].at \in RunPoints
      /\ callers[c].at \in PastClosing
  BY DEF RecordPass, RunPoints, PastClosing
<1>2. /\ callers[c].at # "idle" /\ HasCart(callers[c]) /\ HasSynced(callers[c])
      /\ ~Cart(c).open
      /\ callers[c].alone => callers[c].lines \in Legal
  BY <1>1, RunAsWanted DEF AsWanted
<1>3. cart.open = Cart(c).open /\ cart.lines = Cart(c).lines
  BY <1>2, CartExists DEF Carts
<1>4. carts' = [carts EXCEPT ![callers[c].cart] = cart]
  BY DEF RecordPass, Cart
<1> HIDE DEF cart
<1>5. StaysClosed /\ Judges(callers[c]) /\ carts'[callers[c].cart] = cart
  BY <1>2, <1>3, <1>4, CartRewritten
<1>6. Moves(c, "building") => AloneInv'
  BY <1>1, <1>2, <1>3, <1>5, RunMovesAlone DEF RunPoints
<1> QED
  BY <1>2, <1>5, <1>6, RefusedAlone DEF RecordPass, ThenOrRefused

LEMMA RecordFailAlone ==
  ASSUME CartInv, AloneInv, NEW c \in Caller, RecordFail(c)
  PROVE  AloneInv'
<1> DEFINE cart == [Cart(c) EXCEPT !.validated = FALSE]
<1>1. callers[c].at \in RunPoints
  BY DEF RecordFail, RunPoints
<1>2. HasCart(callers[c])
  BY <1>1, RunAsWanted
<1>3. ~cart.validated /\ cart.open = Cart(c).open /\ cart.lines = Cart(c).lines
  BY <1>2, CartExists DEF Carts
<1>4. carts' = [carts EXCEPT ![callers[c].cart] = cart]
  BY DEF RecordFail, Cart
<1> HIDE DEF cart
<1>5. StaysClosed /\ Judges(callers[c])
  BY <1>2, <1>3, <1>4, CartRewritten
<1> QED
  BY <1>1, <1>5, FailsAlone DEF RecordFail

LEMMA BuildPayloadAlone ==
  ASSUME CartInv, AloneInv, NEW c \in Caller, BuildPayload(c)
  PROVE  AloneInv'
<1>1. callers[c].at \in PastClosing /\ UNCHANGED carts
  BY DEF BuildPayload, PastClosing, RunPoints
<1>2. CASE Fails(c)
  BY <1>1, <1>2, QuietRun, FailsAlone
<1>3. ASSUME NEW next \in {"matching", "placing"}, Cart(c).validated,
             callers' = [callers EXCEPT ![c].at = next, ![c].seen = Cart(c).lines]
      PROVE  AloneInv'
  <2> DEFINE t == [callers[c] EXCEPT !.at = next, !.seen = Cart(c).lines]
  <2>1. /\ t.at = next /\ t.alone = callers[c].alone /\ t.seen = Cart(c).lines
        /\ t.lines = callers[c].lines /\ t.cart = callers[c].cart
    BY Typed DEF Callers
  <2>2. callers' = [callers EXCEPT ![c] = t]
    BY <1>3
  <2> HIDE DEF t
  <2>3. t.at \in RunPoints /\ t.at # "idle" /\ HasSynced(t)
        /\ t.at \notin SyncPoints /\ t.at # "filling" /\ t.at # "passing"
    BY <2>1 DEF RunPoints, HasSynced, SyncPoints
  <2>4. Becomes(callers[c], t)
    BY <2>1, <2>3 DEF Becomes
  <2>5. ASSUME t.alone PROVE AsWanted(t, carts[t.cart])
    <3>1. AsWanted(callers[c], Cart(c)) /\ HasSynced(callers[c])
      BY <1>1, <2>1, <2>5, QuietRun
    <3> QED
      BY <1>3, <2>1, <2>3, <3>1 DEF AsWanted, Cart
  <2>6. ~carts[t.cart].open /\ callers[c].at # "idle"
    BY <1>1, <2>1, QuietRun, RunAsWanted DEF Cart
  <2> QED
    BY <1>1, <2>2, <2>4, <2>5, <2>6, QuietAlone
<1> QED
  BY <1>2, <1>3 DEF BuildPayload

\* The lookups and the INSERT write no cart, and go on with what was read.
LEMMA InsertAlone ==
  ASSUME CartInv, AloneInv, NEW c \in Caller,
         MatchTwin(c) \/ InsertRun(c) \/ FindWinner(c)
  PROVE  AloneInv'
<1>1. /\ callers[c].at \in {"matching", "placing", "losing"}
      /\ callers[c].at \in PastClosing /\ UNCHANGED carts
  BY DEF MatchTwin, InsertRun, FindWinner, PastClosing, RunPoints
<1>2. callers[c].alone =>
        callers[c].seen = callers[c].lines /\ callers[c].lines \in Legal
  BY <1>1, QuietRun DEF AsWanted
<1>3. CASE Fails(c)
  BY <1>1, <1>3, QuietRun, FailsAlone
<1>4. ASSUME NEW r, Answers(c, r) PROVE AloneInv'
  BY <1>1, <1>4, QuietRun, AnswersAlone
<1>5. ASSUME NEW point \in {"placing", "losing"}, Moves(c, point) PROVE AloneInv'
  BY <1>1, <1>2, <1>5, QuietRun, RunMovesAlone DEF RunPoints
<1> QED
  BY <1>3, <1>4, <1>5 DEF MatchTwin, InsertRun, FindWinner

LEMMA AloneInitially == Init => AloneInv
<1> SUFFICES ASSUME Init PROVE AloneInv
  OBVIOUS
<1>1. DOMAIN carts = {}
  BY EmptySeq DEF Init
<1>2. \A c \in Caller : callers[c].at = "idle" /\ ~callers[c].alone
  BY DEF Init, Idle
<1> QED
  BY <1>1, <1>2 DEF AloneInv, ClosedFirst, AloneTogether, CartsAsWanted,
                    PastClosing, RunPoints

LEMMA AloneKept == CartInv /\ AloneInv /\ [Next]_vars => AloneInv'
<1> SUFFICES ASSUME CartInv, AloneInv, [Next]_vars PROVE AloneInv'
  OBVIOUS
<1>1. CASE UNCHANGED <<carts, callers>>
  BY <1>1 DEF AloneInv, ClosedFirst, AloneTogether, CartsAsWanted, AsWanted, HasSynced,
              HasCart, Cart
<1>2. ASSUME NEW c \in Caller, SyncStep(c) PROVE AloneInv'
  BY <1>2, StartSyncAlone, FindAlone, CreateCartAlone, ReadPreviousAlone, ClearAlone,
     FillAlone, RestoreAlone DEF SyncStep
<1>3. ASSUME NEW c \in Caller, JudgeStep(c) PROVE AloneInv'
  BY <1>3, CloseCartAlone, ReadFlagAlone, JudgeAlone, RecordPassAlone, RecordFailAlone
     DEF JudgeStep
<1>4. ASSUME NEW c \in Caller, RunStep(c) PROVE AloneInv'
  BY <1>4, BuildPayloadAlone, InsertAlone DEF RunStep
<1>5. CASE EditStep
  BY <1>5, EditStepAlone
<1> QED
  BY <1>1, <1>2, <1>3, <1>4, <1>5, ClientStepAlone DEF Next, RunEnds, vars

LEMMA AloneAlways == Spec => []AloneInv
<1> QED
  BY InvAlways, AloneInitially, AloneKept, PTL DEF Spec

\* A phone that meets no other request orders exactly its lines (POST /items/bulk and
\* from-cart), whatever earlier requests left in the active cart, for any bottles, carts
\* and contents, and however often a statement fails or the phone asks again.
THEOREM AloneOrdersExactly == Spec => []ExactWhenAlone
<1>1. CartInv /\ AloneInv => ExactWhenAlone
  <2> SUFFICES ASSUME CartInv, AloneInv, NEW c \in Caller, Orders(c), callers[c].alone
               PROVE  callers[c].seen = callers[c].lines
    BY DEF ExactWhenAlone
  <2>1. callers[c].at = "placing" /\ callers[c].at \in RunPoints
    BY DEF Orders, RunPoints
  <2> QED
    BY <2>1, RunAsWanted DEF AsWanted
<1> QED
  BY <1>1, InvAlways, AloneAlways, PTL

\* Its lines are ones that the ordering rules pass (the verdict from-cart reads and
\* records on the cart), although the cart keeps the verdict between its requests.
THEOREM AloneOrdersLegally == Spec => []LegalWhenAlone
<1>1. CartInv /\ AloneInv => LegalWhenAlone
  <2> SUFFICES ASSUME CartInv, AloneInv, NEW c \in Caller, Orders(c), callers[c].alone
               PROVE  callers[c].seen \in Legal
    BY DEF LegalWhenAlone
  <2>1. callers[c].at = "placing" /\ callers[c].at \in RunPoints
    BY DEF Orders, RunPoints
  <2> QED
    BY <2>1, RunAsWanted DEF AsWanted
<1> QED
  BY <1>1, InvAlways, AloneAlways, PTL
=============================================================================
