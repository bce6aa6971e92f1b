---------------------------- MODULE OrderSyncLoop ----------------------------
(***************************************************************************)
(* The idle tick that decides which stores' orders are synced and when     *)
(* (workers/order-sync-loop.js).  What one sync does to a store's rows is  *)
(* PlacedOrders; when the loop of the worker comes to a tick is            *)
(* WorkerProcess.                                                          *)
(*                                                                         *)
(* A read of stores or confirmations that fails ends a tick without an     *)
(* effect, as no step does here.                                           *)
(***************************************************************************)
EXTENDS FiniteSets, Naturals

CONSTANTS
  Shop,         \* stores
  Broken,       \* stores without MILO credentials the loop can use
  NoStore,      \* no sync is at work
  STORES_READ,  \* stores read in a tick, of those that ever asked
  MAX_STORES_PER_TICK,
  MaxWakes      \* bound: taps and cadences that come round

ASSUME SyncLoopAssumption ==
  /\ IsFiniteSet(Shop)
  /\ Broken \subseteq Shop
  /\ NoStore \notin Shop
  /\ STORES_READ \in Nat \ {0} /\ MAX_STORES_PER_TICK \in Nat \ {0}
  /\ MaxWakes \in Nat

VARIABLES
  everAsked,    \* stores with an order_sync_requested_at
  pending,      \* ... newer than their last_order_sync_at
  due,          \* stores with recent orders, not synced for SYNC_EVERY_MS
  throttled,    \* before nextScheduledScanAtMs
  batch,        \* stores this tick has still to sync
  syncing,      \* the store whose sync is at work
  again,        \* its owner has tapped since the sync started
  wakes         \* taps and cadences so far

loopVars == <<everAsked, pending, due, throttled, batch, syncing, again, wakes>>

SyncLoopTypeOK ==
  /\ pending \subseteq everAsked /\ everAsked \subseteq Shop
  /\ due \subseteq Shop
  /\ throttled \in BOOLEAN /\ again \in BOOLEAN
  /\ batch \subseteq Shop /\ Cardinality(batch) <= MAX_STORES_PER_TICK
  /\ syncing \in (Shop \ Broken) \cup {NoStore}
  /\ wakes \in 0..MaxWakes
  /\ again => syncing \in pending

SyncLoopInit ==
  /\ everAsked \in SUBSET Shop /\ pending = {}
  /\ due = {}
  /\ throttled = FALSE
  /\ batch = {} /\ syncing = NoStore /\ again = FALSE
  /\ wakes = 0

\* One more than the limit, where there are more.
FirstAndOneMore(stores, limit) ==
  {first \in SUBSET stores :
     Cardinality(first) = IF Cardinality(stores) <= limit THEN Cardinality(stores) ELSE limit + 1}

\* The first ones of a read in no particular order.
FirstOf(stores, limit) ==
  {first \in SUBSET stores :
     Cardinality(first) = IF Cardinality(stores) < limit THEN Cardinality(stores) ELSE limit}

\* The owner taps Sync.
Tap(s) ==
  /\ wakes < MaxWakes
  /\ wakes' = wakes + 1
  /\ everAsked' = everAsked \cup {s} /\ pending' = pending \cup {s}
  /\ again' = (again \/ syncing = s)
  /\ UNCHANGED <<due, throttled, batch, syncing>>

\* Six hours since the last sync of a store that has ordered lately.
ComesRound(s) ==
  /\ wakes < MaxWakes /\ s \notin due
  /\ wakes' = wakes + 1
  /\ due' = due \cup {s}
  /\ UNCHANGED <<everAsked, pending, throttled, batch, syncing, again>>

MinutePasses ==
  /\ throttled
  /\ throttled' = FALSE
  /\ UNCHANGED <<everAsked, pending, due, batch, syncing, again, wakes>>

TickMayStart == batch = {} /\ syncing = NoStore

\* One store that asked in a tick.
RequestedOneAtATime ==
  UNION {FirstOf(read \cap pending, 1) : read \in FirstOf(everAsked, STORES_READ)}

\* findRequestedSyncStores reads a number of stores and then wakes which are pending.
RequestedStores ==
  UNION {FirstOf(read \cap pending, MAX_STORES_PER_TICK) : read \in FirstOf(everAsked, STORES_READ)}

\* Stores that asked come first; a tick that finds one does not scan.
TickRequested ==
  /\ TickMayStart
  /\ \E found \in RequestedStores \ {{}} : batch' = found
  /\ UNCHANGED <<everAsked, pending, due, throttled, syncing, again, wakes>>

\* A scan that forgets the cadence.
DueRequested == FirstOf(pending, MAX_STORES_PER_TICK)

\* findDueSyncStores: syncDueVerdict is requested or scheduled.
DueStores == FirstOf(pending \cup due, MAX_STORES_PER_TICK)

TickScheduled ==
  /\ TickMayStart
  /\ {} \in RequestedStores
  /\ ~throttled
  /\ throttled' = TRUE
  /\ \E found \in DueStores : batch' = found
  /\ UNCHANGED <<everAsked, pending, due, syncing, again, wakes>>

\* A store without credentials is passed over and stays as it is.
PassOver(s) ==
  /\ syncing = NoStore /\ s \in batch \cap Broken
  /\ batch' = batch \ {s}
  /\ UNCHANGED <<everAsked, pending, due, throttled, syncing, again, wakes>>

BeginSync(s) ==
  /\ syncing = NoStore /\ s \in batch \ Broken
  /\ batch' = batch \ {s}
  /\ syncing' = s /\ again' = FALSE
  /\ UNCHANGED <<everAsked, pending, due, throttled, wakes>>

SyncOver ==
  /\ syncing # NoStore
  /\ syncing' = NoStore /\ again' = FALSE
  /\ UNCHANGED <<everAsked, throttled, batch, wakes>>

\* The stamp is the time the sync started: a later tap stays pending.
SyncSucceeds ==
  /\ SyncOver
  /\ pending' = IF again THEN pending ELSE pending \ {syncing}
  /\ due' = due \ {syncing}

SyncFails ==
  /\ SyncOver
  /\ UNCHANGED <<pending, due>>

StoreSyncEnds == SyncSucceeds \/ SyncFails

SyncLoopNext ==
  \/ MinutePasses \/ TickRequested \/ TickScheduled \/ StoreSyncEnds
  \/ \E s \in Shop : Tap(s) \/ ComesRound(s) \/ PassOver(s) \/ BeginSync(s)

SyncLoopSpec == SyncLoopInit /\ [][SyncLoopNext]_loopVars

\* The worker is idle again and again, time passes, and MILO does not refuse for ever.
SyncLoopFairness ==
  /\ WF_loopVars(MinutePasses)
  /\ WF_loopVars(TickRequested \/ TickScheduled)
  /\ WF_loopVars(\E s \in Shop : PassOver(s) \/ BeginSync(s))
  /\ WF_loopVars(StoreSyncEnds)
  /\ SF_loopVars(SyncSucceeds)

-----------------------------------------------------------------------------
(* Properties *)

\* Owners who tap are served in the end, whatever syncs fail before, a tap during a running
\* sync included.  Where they may not be: so many stores without credentials have tapped
\* that they fill a tick; or more stores have ever asked than a tick reads, in no order and
\* before the filter, and such a store is found instead, or such stores fill the scan
\* (findRequestedSyncStores, findDueSyncStores).
TapServed ==
  pending \ Broken # {} ~>
    \/ pending \ Broken = {}
    \/ Cardinality(pending \cap Broken) >= MAX_STORES_PER_TICK
    \/ /\ Cardinality(everAsked) > STORES_READ
       /\ pending \cap Broken # {} \/ Cardinality(due \cap Broken) >= MAX_STORES_PER_TICK

\* Stores with recent orders are synced every six hours although nobody taps.  Where they
\* may not be: a store without credentials has tapped, because each tick then finds that
\* store again and never comes to the scan; or such stores fill the scan.
ScheduledServed ==
  due \ Broken # {} ~>
    \/ due \ Broken = {}
    \/ pending \cap Broken # {}
    \/ Cardinality(due \cap Broken) >= MAX_STORES_PER_TICK
=============================================================================
