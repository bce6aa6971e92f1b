# A TLA+ model of the ordering pipeline of liquor-kings

A store owner scans bottles into a cart and orders them from the state's
distributor site (MILO/MLCC). The order is an *execution run*: a row that the
API writes, a worker claims and drives through a browser (or a direct HTTP
client) up to one click that nobody can take back, the Checkout click on MILO.
The specifications here are about that row and that click: what happens to a
run when handlers, workers, users, operators, the reaper and the clock all
write it, and workers crash, stall and lose answers in between.

## Inventory

The state lives in Postgres (Supabase). The API runs on two machines and keeps
no state of its own beyond throttles. N worker daemons poll it.

| Part | State | Operations | Hard behaviour | What makes it correct |
|---|---|---|---|---|
| Run table, `execution-run.service.js` | `execution_runs`, `execution_run_attempts`, two partial unique indexes | create, claim, heartbeat, status report, operator actions, reap, recover | read-decide-write without a lock, two API machines | one running run per store, one active run per cart, bounded retries, no re-queue after a click |
| Run creation, `createExecutionRunFromCart` | cart status and verdict, run row | from-cart, cart-reset | a dozen awaits without a transaction, retried requests, de-duplicated validations | one check per content; the snapshot is what the phone showed and the rules allow |
| RPA worker, `execution-worker.js` | the run being processed | claim, Stages 1 to 5, keepalives, tripwire, reports | lost answers, a stage that is silent, timeouts that stop nothing, crash between click and report | at most one click per run, one checkout per store, truth about the click |
| Worker process, `run-rpa-worker.js`, `loop-watchdog.js` | last tick, consecutive login failures, signals | claim loop, idle sync, dead-man exit, watchdog, two-signal shutdown | an await that hangs, exit during a run, stages whose limits exceed the watchdog's | a wedged worker restarts, a slow one only where its limits allow it, the queue is served |
| Stages 1 to 4, `rpa/stages/*` | the MILO cart | login, navigate, add items, validate | retries inside a stage, a dirty cart, rows and pages that appear late | what is ordered is what was asked for |
| Checkout stage, `rpa/stages/checkout.js` | the point-of-no-return marker | checkout, timeout, reading of the orders page | a rejected promise whose work goes on, other orders on the page | a clicked run is never presented as a plain failure, a receipt is of its own order |
| Session manager, `rpa-session-manager.js` | one held browser session | acquire, attach, release, close | reuse across runs, idle limit, a login given up while its browser starts | its own store's session, no browser is leaked |
| MILO node engine, `rpa/engine/*` | a token cache, a client | validate, submit, poll for confirmations | an answer after the dispatch is lost | confirmations belong to this submit |
| Order sync, `order-sync-loop.js`, `engine-order-sync.js` | `stores` sync columns, `milo_order_confirmations` | tick, requested sync, plan, update, import, stamp | a tap during a sync, two workers, stores that cannot be synced | a tap is served, a served list is fresh, one row per order |
| Cart lifecycle, `cart.routes.js`, `cart-lifecycle.routes.js` | `carts`, `cart_items` | bulk sync, add, change, clear, submit | clear and insert in two statements, restore after a failure, two phones | the active cart is what one phone shows |
| Scanner client, `apps/scanner` | cart, background result, tracked run, last green check | edit, check, place, confirm, dismiss, reload, change page | late and lost answers, retried requests, results remembered across reloads | what is placed was checked; an order in flight locks Place |
| Cart on the phone, `useCart.ts` | lines with their product's facts, saved lines, an open question | add, merge, step, pick, load a list, save for later | facts that are old, quantities that add up, adds after an await | what a picker put there is accepted |
| Ordering rules, `milo-ordering-rules.js` and the phone's copy | none (pure) | nine litre minimum, split cases, packs | boundaries, three sources of facts | phone, API and Stage 3 agree |
| Failure classification | none (pure) | retryable or not | the deny list must win | no submit-side code is retried |
| Operator admin | none of its own | the five operator actions | acts on what it last saw | refused when the run moved on |
| Price book | books, items | schedule, ingest, skip what is known | overlapping and retried ingests | no correction is lost |
| Barcodes, `upc-mappings.js`, `nrs-import.service.js` | `upc_mappings`, `mlcc_items.upc`, reviews, audits | scan, confirm, flag, import, resolve, skip | writes nobody waits for, matches and imports that take long, failed reads | what a person chose stays, what is flagged is forgotten |
| Templates, billing, inventory, push, assistant, authentication | rows | single-row reads and writes | little | not modelled |

The parts interact through the run row. The scanner's API call creates it, the
worker's API calls claim, beat and finalize it, `claim-next` also runs the
reaper, "Start over" and operator actions write it, and the worker reads the
table directly once, for the duplicate-submit tripwire.

## Modules

* `ExecutionRuns`: the table and every handler that writes it.
* `WorkerFleet`: extends it with the workers and MILO's Checkout, the operators
  and the users.
* `OrderOnce`: the promise made of a run, without rows, requests or answers;
  `WorkerFleet` implements it.
* `CartOrders`: what comes before, from the lines on a phone to the row: the cart
  routes and `createExecutionRunFromCart`.
* `ScannerOrders`: before that, one phone: the cart on screen, the background check,
  Check and Place, the run that is tracked.
* `PhoneCart`: how that cart is filled, and the ordering rules as the phone, the API and
  Stage 3 apply them.
* `PriceBook`: the catalogue everything above reads: how it is ingested and kept.
* `UpcMappings`: how a barcode comes to stand for a product of that catalogue.
* `SubmitPipeline`: what a run does to MILO's cart from Stage 3 to the click.
* `WorkerProcess`: the process around the runs: claim loop, browsers and logins, the
  held session, dead-man switch, watchdog, signals.
* `OrderSyncLoop`: which stores a worker's idle tick syncs.
* `PlacedOrders`: MILO's list of a store's orders and the store's copy of it, which
  submits and syncs write.
* `MCWorkerFleet`, `MCCartOrders`, `MCUpcMappings`, `MCPhone`, `MCOrders`,
  `MCServices`: the small instances TLC checks. The last three hold three to five
  modules that share no state, and combine their type invariants into one
  (`PhoneTypeOK`, `OrdersTypeOK`, `ServicesTypeOK`); see Bounds.
* `WorkerFleetProofs` (table and fleet), `FleetOwnershipProofs` (the refinement, and
  whose a run is), `CartOrdersProofs`, `MiloProofs` (`SubmitPipeline` and
  `PlacedOrders`), `CatalogProofs` (`PriceBook` and `UpcMappings`),
  `WorkerProcessProofs` (with `OrderSyncLoop` and `MCServices`), `PhoneProofs` (with
  `MCPhone`), `OrdersProofs` (`MCOrders`): theorems, proved for all instances.

The modules meet at the run. `ScannerOrders`' call is two requests of `CartOrders`,
whose INSERT is `ExecutionRuns.CreateRun`; `WorkerFleet`'s `working` to `validating` are
`SubmitPipeline` in detail, inside one iteration of `WorkerProcess`; the click of both
is `PlacedOrders.DispatchSubmit`; and `WorkerProcess`' `syncing` is a tick of
`OrderSyncLoop`, each of whose syncs is one of `PlacedOrders`. `PhoneCart`'s lines are
what `ScannerOrders` knows as a content and `CartOrders` judges, and its facts are rows
that `PriceBook` writes. Only
`WorkerFleet` and `ExecutionRuns` are composed state by state, and `OrderOnce` refined.
The others keep, of their neighbour, what their own properties tell apart, which the
sections below name.

### How ExecutionRuns corresponds to the code

A row keeps the columns the handlers decide on. `progress_stage` is reduced to
the only question asked of it (does it match `SUBMIT_STAGE_RE`, which of the
stages the worker writes is only `rpa_checkout`); `failure_type` to the answer
of `isRetryableFailureType`; `failure_details` to `submit_clicked`; the age of
`heartbeat_at` to the thresholds it is compared with: 0 is fresh, 1 over 90 s,
2 over 3 minutes, 3 over 15 minutes. `HeartbeatAges` is the clock.

A handler that reads, decides and later writes is split where it awaits. The
read occupies a *slot* (a request in flight) with the patch it has computed
(`BeginStatusUpdate`, `BeginHeartbeat`, `BeginOperatorAction`); `Write` applies
the patch to whatever the row is by then, as `applyExecutionRunPatch` does: an
UPDATE by id with no condition on the status. Closing the attempt row
(`CloseAttempt`) and inserting it (`InsertAttempt`) are further steps, and
`FailCall` ends a handler between any two of them. `Claim`, `Reap` and
`Recover` are single UPDATEs with their conditions in the WHERE clause and so
are single steps. The unique indexes `execution_runs_one_active_per_cart_idx`
and `one_running_run_per_store` are guards of every write they constrain.
`CreateRun` is the handler's check and INSERT; two simultaneous creations are
decided by the index, so one step shows both.

Abstracted: free-text columns, evidence, `execution_run_operator_actions` (an
append-only log), the metadata of an attempt, the reading of the queue in
`claimNextQueuedExecutionRun` (its prefilter and order are advisory: the
conditional UPDATE decides, so any queued run may be claimed), and columns an
older database may lack. The two statements of `finalizeOpenExecutionRunAttempt`
(find the open attempt, update it) are one step. Cart-reset runs have no cart;
they would be runs with carts of their own.

### How WorkerFleet corresponds to the code

A worker is at a point of `processOneRpaRun`. `working` stands for Stages 1 and 2, and
for the node engine until its tripwire; `adding` is Stage 3 (or the clearing of a cart
reset), `entering` awaits the heartbeat that begins Stage 4, `validating` is Stage 4;
`cleared` is past the tripwire; `arming` awaits the `rpa_checkout` heartbeat; `armed` is
inside `checkoutOnMilo` before the click; `clicked` past it. An awaited call is a slot
that names its `waiter`:
`HandlerStep` delivers the answer, `HandlerFails` an error, and
`WorkerGivesUp` is the worker's 20 s timeout, after which the API still serves
the request. Keepalives have no waiter. No stage's timeout stops what
the stage was doing; only the `finally` of `processOneRpaRun`, after the report, closes
the browser. `StageTimesOut` is Stage 5's `withTimeout` rejecting at 420 s; `loose`
remembers that `run()` goes on, and `LateClick` is what it may still do. The timeouts of
Stages 3 and 4 are retryable reports like others, and `stray` remembers that their
coroutine goes on (`MayStray`): the run is queued again, and may be claimed by another
worker, while the first one's stage still types and clicks in MILO's cart. It never
clicks Checkout, which no code of Stages 3 and 4 does. `ReportsFrom` lists what the worker may
report from each point, one operator for each (`ReportsFromStages` to
`ReportsAfterClick`); the node engine's catch-all after a click is `again`.
`dispatched`, `rejected` and `old` are history: clicks, MILO's rejections, and
the runs that left the tripwire's 30 minute window.

`SilenceAllowed` says when heartbeats may be missing. Stages 1, 2 and 4 and the node
engine beat at least every 20 s, so a living worker there is never silent for 90 s.
Stage 3 has no keepalive: it beats at its start and for items that MILO accepts, and an
item that MILO rejects may take 54 s and sends nothing (`add-items-to-cart.js` 1256), nor
does `clearMiloCart`. So at `adding` (and at `entering`, until the beat of Stage 4 is
written) a run may age past Start over's 90 s and the reaper's 3 minutes while its
worker is at work; both may take it. It does not come to 15 minutes, since Stage 3 ends
within 10. Stage 5 has no keepalive in the browser but ends, with its scrape, within 9
minutes, so it stays below 15. A timed-out Stage 5 outlives its stage by its report
only, 20 s, so that a run claimed after it has been written cannot be 90 s old by then
(`OutlivedBy`). `WorkersStall` lifts all this: a worker (or its network) may then be
silent for any time.

### What OrderOnce promises

Three variables: the runs that were `asked` for, the `orders` placed for each,
and the `holder` that has a run in hand. A worker may take a run that was asked
for, that nobody holds and whose order has not been placed; only a run that is
held may have its order placed, once; a run may be put down at any time. The
mapping reads `asked` off the rows, `orders` off the clicks, and the holder off
the workers (`Holder`): whoever has the run in hand and may come to click its Checkout,
the timed-out Stage 5 coroutine included. A stray of Stage 3 or 4 has been reported, and
holds nothing: it disturbs the cart of whoever takes the run next, which is
`SubmitPipeline`'s `Touch`. The row's own idea of its owner (`status`,
`worker_id`) is not part of it. That is the point: rows and owners disagree
whenever an answer is late, and the promise is kept nevertheless.

Not modelled in the fleet: the choice of engine and session (`WorkerProcess`), what is
in the MILO cart (`SubmitPipeline`), and cart resets' own clicks. A worker's graceful
shutdown is a worker that stays idle.

### How CartOrders corresponds to the code

One store, its carts in the order they were created, the lines of each (a
quantity per bottle), and the runs that are queued or running, since the code
looks at no other. A cart keeps the two columns the code decides on: whether it
is active and whether it is validated. Who ends a run, and when, is the business
of `ExecutionRuns`; here `RunEnds` may take any run away at any time.

`ExecutionRuns.CreateRun` is the same INSERT seen from the other side. There a
run is a row with a store and a cart and no content; here it is its snapshot, and
the row's further life is left out.

A caller is a request in progress, or a client between its two requests, when it
holds a cart id and nothing of it is on the server (`synced`). A request is split
at every await whose interleaving matters:

| Code | Points |
|---|---|
| `POST /items/bulk` | `finding`, `creating`, `reading`, `clearing`, `filling`, `restoring` |
| from-cart, the cart | `looking`, `flagging`, `judging`, `passing`, `failing` |
| from-cart, the run | `building`, `matching`, `placing`, `losing` |

Four pairs of statements are one step. The lookup and the UPDATE that closes an
active cart: the UPDATE has the status in its WHERE clause. The check for an
active run of the cart and the INSERT: the unique index decides. The reads of the
payload: nothing reopens a cart, and a verdict given between the reads of the
status and the items is one given after both. The payload and the readiness gate,
which builds it a second time: it looks only at whether each line has an item, a
refusal.

A statement may fail, and its request then ends (`Drops`), goes back (`FallBack`,
`Refused`) or, at the lookup of a twin, goes on. A statement may also be executed
although the request gets an error, because the database client aborts after 15
seconds; so each write is a choice between going on and being refused. It is
executed before the request gets its error at the latest. The client asks again
after its own timeout while the first request is still served (`TriggerAgain`);
a repeated sync is another `StartSync` with the same lines.

The routes for single items and `/submit` are one step each, their write, which
may come to any cart: they look the cart up first, or name the item, and do not
look at the cart's status when they write. `MaxEdits` bounds them.

`alone` is history: no other request was in progress, and no other client held a
cart id, since this client's sync began.

### How ScannerOrders corresponds to the code

One phone, its cart as `hashCart` tells carts apart, and a few *calls*. A call is the
pair of requests that every check and every submit sends, the bulk sync (`syncing`) and
the request for a run (`triggering`), and for a background check the polling that
follows. `heard` says that something on the phone waits for its end, `own` that the page
that began it is still open: `isFiring` of the drawer and `inFlightRef` of the hook live
and die with their component, which is why a reopened drawer is not busy. The 800 ms
debounce is `due`; a generation that is over is a background call no longer `heard`. The
server is `CartOrders` seen from here: the active cart that several calls may `hold`
(a later sync overwrites what an earlier one put there, `SyncServed`), the check in
progress that answers a second one of the same lines (`TwinFound`), one run per cart in
progress. `tracked`, `green` and `items` survive `Reload`, as localStorage does.

`sure` and `let` are history: no other call was at the server together with this one and
the cart did not change under the confirmation; the phone has let go of this run.
What the cart holds is `PhoneCart`. The result sheet is left out, and so are
`startValidate` and `startSubmit` of `useSubmission.ts`, which no screen calls.

What the model shows and the properties therefore except: a sync that is served late can
make the green hash speak of other lines than MILO checked; a lost from-cart answer
leaves a submit that nobody tracks, and Place unlocked; dismissing an order in flight
stops the poll, so that the cart is not cleared when it lands, although the comment at
`useActiveOrder.tsx` 284 to 294 has any placed run clear the cart; the confirmation does
not ask the gate again when it is tapped; and a run that had landed is polled again after
a reload, and clears a cart that was filled since.

### How PhoneCart corresponds to the code

A line is a quantity and the facts its product had when it was added; merging keeps the
older facts (`addItem`). Each surface is an action: a card with its picker, a list that
the assistant resolved (`AddAll`), a template, an earlier order or a pasted list
(`LoadList`), a reorder from the inventory, steppers, pickers, parking and its return.
`Offered` is `generateValidQuantities` of the phone, `Accepts` and `Passes` are
`validateQuantityForSize` and `validateCart` of the API, and `LookedUp` is what Stage 3
knows when it applies the same functions. `CatalogChanges` is a price book. `picked` is
history: the quantity was one that a picker or a stepper showed.

Codes are taken to be unique (`mlcc_items` is unique on code and distributor, and
`updateQuantity` and `removeItem` go by the code). Left out are a resolved list that
names one product twice, products that were fetched without a case size (only when the
fetch of a family fails), the live check of the rules with its request numbers, and the
100 ms before the lines are saved.

What the model shows and the properties except: of the 70000 series the phone offers full
cases and the API accepts nothing; a full-case size without a known case is free on the
phone and refused by the API; "+" above the last quantity offered lowers the line; a
question that is open is forgotten for the next one, so that `addAll` keeps the last of
its big lines while its receipt names them all; and for "a case" of a multi-pack the
assistant suggests the case in bottles (`assistant.js` 883 and 931), which the API
accepts as twenty times the packs.

### How PriceBook corresponds to the code

The publications of MLCC as versions in order: full books, between-book lists, and the
TXT with the UPCs. `ledger` is `mlcc_price_book_runs`, what the daily check and
`POST /check-updates` skip. A *job* is an ingest or an enrichment in progress, of the
cron or by hand: it downloads, reads the rows in chunks, writes each chunk (which may
fail, or be written although an error came back) and then its ledger row. A row is its
price, its earlier price, its UPC and the book it shows. Other columns and parsing
are left out. A full book lists every row, which a product that was
withdrawn would not be; the reading in chunks of 500 is one step per chunk of writes.

`witness` is history: former prices, UPCs that were given, TXT chunks sent and books begun
out of order. They show: a full book that is
ingested again (after `complete_with_errors`, by force, or by hand) undoes the corrections
of the lists in between, and the ledger says that these are in the catalogue; a TXT whose
chunks failed is entered in the ledger all the same, although the comment at
`mlcc-price-book-scheduler.js` 139 to 141 says that rows are written on success only; rows
inserted after their TXT stay without UPC until the next one; and a UPC that is given or
taken away between an ingest's read and its write is lost.

### How UpcMappings corresponds to the code

`mappings` is `upc_mappings`, `itemUpc` the column `mlcc_items.upc`, `reviews`
`nrs_ambiguous_review`, and `audits` says whether `upc_match_audit` has a row, which is
also written without waiting. A *task* is a request, or a write nobody waits for, between
two of its statements: `Scan`, `FetchItem`, `ReadLocal` and `Score` are
`priceBookUpcHandler`; `UpsertRead` and `UpsertWrite` are `upsertUpcMapping`, whoever
calls it; `Flag` to `FlagDelete` the flag; `ImportRow` to `QueueReview` one row of
`runNrsImport`; `Resolve` and `SkipReview` the review. `Abandon` is an error, or a row
that is gone, where that ends the task, and a restart. A barcode has two forms, since a
scan looks for the normalized one and the others use the one they are given; so a
confirmation, or an imported row, under another form is kept and never found, and a flag
of one is refused for want of an audit. External services, the scores, names and the
choice between items with one barcode are any outcome.

`promised` is history: what the last request that met no other task of its barcode
brought about. `ChoicesStay` holds of it until a read of the database fails; a request in
between may take a choice away in every way `VerifiedStays` excludes.

### How SubmitPipeline corresponds to the code

One run and MILO's cart: `active` lines, the codes in the out-of-stock section, and the
quick-add `form`. MILO is external, so whatever the code defends against is a choice: a
row that appears after the item was typed a second time (`RowAppears`), lines merged,
clamped, dropped or demoted (`Receive`, `Demote`), a table of which only some rows are
painted (`Painted`), anyone else at the same cart (`Touch`): a person, or a worker whose
Stage 3 or 4 was given up or whose run was taken from it, and which still types there. The steps are those of
`addItemsToCart` (clear, type in batches, verify), `validateCartOnMilo` (Validate, read,
read again when an item is missing), the comparison and the two guards before Stage 5;
`EngineClear` to `PostCheckout` are the same with HTTP calls. `Refuse` is an error at
any step before the click. The light path skips Stage 3 when the cart already matches.

`history` holds what the properties except: lines changed since the pipeline last read
the cart, and lines that the first read did not see. Both holes are real: a leftover that
is painted late is ordered, since the second read of Stage 4 only widens what was seen
and not what is compared, and an item it finds out of stock counts as seen. A row typed
twice is taken care of: the comparison refuses the doubled quantity. The engine's cached
product ids may name other products by now, and the priced cart is compared.

### How WorkerProcess corresponds to the code

`at` is where the loop of `main` awaits, the stage of the run included. Time is `age`,
seconds since the loop was last at its top; a run with `lines` other than 0 is a slow one
of a cart of so many lines, which takes, in each stage, all the time the stage allows
itself, and an await that hangs is over the limit at once. Stage 3 allows itself
120 s and 4 s for each line, at least 240 s and at most 600 s (`AddingLimit`).
`browsers` are the machine's Chromium processes: `launching` until `launchChromium`
resolves, `abandoned` when the attempt that launched one was given up, which closes it
as soon as it is there (the zombie seal). `session` is what the run drives, `held` what
the session manager keeps, `managed` and `reused` are the flags of the session handle.
`Dispose` is the finally block, with the dead-man counter, of a run that ended or threw.

Two consequences for a reader. Only a claimed run moves the counter of login failures, so
idle polls do not reset it; a validation by the node engine or a run that ended before its
login does, although neither logged in. And the limits of the five stages of a small cart
add up to 26 minutes while the watchdog allows an iteration 20; Stages 1 to 4 add up to
19. A submit whose stages all take what they may is therefore ended in Stage 5, perhaps
after the click. Above 30 lines Stage 3 takes more than its minimum, and Stages 1 to 4
too exceed the 20 minutes: with the 84 lines that the comment above Stage 3's budget
tells of, they add up to 22.6. So a run in which nothing hangs can be ended in Stage 4,
although `loop-watchdog.js` 21 to 24 calls its limit "deliberately far above any
legitimate iteration" and says that a submit on a big cart finishes inside 10 minutes.
`WatchdogEndsWhatHangs` says that there are no other such cases. A page-engine
validation (`LK_ORDER_ENGINE=api`) leaves a session that Stage 2 never navigated, and the
next run reuses it.

### How OrderSyncLoop corresponds to the code

`maybeRunOrderSyncTick`: the stores that asked (`RequestedStores`), or, at most once a
minute, those that are due (`DueStores`), a batch of them one after the other, each
synced, failed or passed over. `findRequestedSyncStores` reads 50 stores that ever asked,
in no order, and filters them afterwards; `STORES_READ` is that 50. A store without usable
credentials (`Broken`) is passed over and stays as it is: when its owner has tapped, each
tick finds it again and never comes to the scheduled scan. `ScheduledServed` and
`TapServed` name that and the other conditions under which service is not promised.

### How PlacedOrders corresponds to the code

MILO's orders in the order they were placed, each listed some time later and edited by
the distributor, and the rows of `milo_order_confirmations`. Workers do either of two
things. A submit dispatches and looks for its own order among those MILO lists, on one of
two `path`s, which differ in what their reading leaves out (`old`, see `LeavesOut`) and
in what they take of the rest (`FirstOf`):

* in the `browser`, the default, `parseOrdersHistoryPage` leaves out the orders that it
  can date and that were placed on another day, and takes the first of the others on the
  page, one for each distributor (`checkout.js` 612 to 627; all of the page when the
  session has no distributors). It reads after MILO's thanks, when the wait for
  them ran out (the backstop, 935 to 963), and once more from the worker
  (`execution-worker.js` 3405 to 3475). An order of this morning, by hand or of another
  run, passes for the submit's own, is persisted as its row and reported as its success;
  one of last week does if its date cannot be read.
* by the `engine` (`LK_SUBMIT_ENGINE=api`), `selectOrdersForSubmit` takes the most recent
  order placed no more than three minutes before the POST.

Then it upserts its row, whose failure is logged only. `SettleWithoutRow` is every other
end: a number that the POST answers with or that MILO's own page of the confirmation
shows, which is taken to be that of the order just placed; a toast or the orders page
without any number, which the browser reports as success (`acknowledged`); a toast of an
error, which it reports as failure; and nothing. A sync takes the time, fetches, reads the
rows, plans (`FirstRows`, `Known`), updates row by row, imports in one INSERT and stamps
the time it started at; a failed write is counted and the stamp written all the same. A
row's content is the edit of the order it shows (`synced`). A submit is of one
distributor; with several, each has an order and a row of its own.

`past` is history: which causes, outside a single sync's or submit's reach, have come up.
`mixed` are the submits to whose reading another order was open: one placed while the
submit was at work, or earlier and not left out. Of those the rows and the report may be
wrong, and the properties except them; the comment above `parseOrdersHistoryPage` (436 to
439) promises a comparison of the totals that the code does not make. For the browser the
exception covers every order but the first that a store places on a day, as long as all
dates of the page can be read. A sync beside a submit,
or beside a sync of the other worker, may write a second row of one order.

## Runs

| Run | Instance | What it shows |
|---|---|---|
| `fleet` | 1 run, 2 workers, 3 slots, all hazards, all operator actions | `DispatchedOncePerRun`, `DispatchedNeverRequeued`, `OnlyStraysOverlap`, `RetriesBounded`, `RetryNowNeverOffered`, and the refinement `KeepsPromise` (532 thousand states) |
| `store` | 2 submits of one store, 2 workers, 2 slots, crashes, a silent Stage 3, timeouts of Stages 3 to 5 | `OneRunningPerStore`, `CheckoutOwnsRun`, `OneCheckoutPerStore`, `NoClickAfterAmbiguousDeath` (1.5 million states) |
| `orders` | the catalogue, its barcodes and three stretches of an order: `PriceBook` with 1 row, 2 jobs, 2 publications, 3 requests, 2 prices; `UpcMappings` with 2 forms of one barcode, 2 products, 2 tasks at a time, 3 requests; `CartOrders` with 2 bottles, 2 contents (one of them illegal when alone), 2 requests at a time, 2 carts, no edits; `SubmitPipeline` with 2 codes, 2 requests, 2 leftovers, 3 ways; `PlacedOrders` with 2 workers, 1 submit, 1 order by hand, 1 edit, 1 sync, 1 tap | `OrdersTypeOK`; `SkipsAreSound`, `UpcsSurvive`, `PriceMemory`; `ChoicesStay`, `FlagsForget`; `OneValidationPerContent`, `AnswersSpeakOfTheSnapshot`; `OrdersWhatWasAsked`, `DemotionsBlockCheckout`; `FreshWhenServed`, `OneRowPerOrder`, `ConfirmationIsOwn` (1.42 million states) |
| `services` | `WorkerFleet` with a submit and a validation, 1 worker, 1 slot, crashes, reordered beats; `WorkerProcess` with 2 accounts, 2 browsers, 3 runs queued, 2 login attempts, a slow cart of 84 lines or none slow, both switches off or on; `OrderSyncLoop` with 4 stores, 2 of them without credentials, 3 read and 2 synced in a tick | `ServicesTypeOK`; `RunsSettle`; `OwnSession`, `NoBrowserLeaks`, `DeadManSwitch`, `WatchdogEndsWhatHangs`, `StopsWhenAsked`, `QueueServed`; `TapServed`, `ScheduledServed` (238 thousand states) |
| `edits` | the phone's side: `PhoneCart` with 3 products, 3 facts, 3 touches; `ScannerOrders` with 2 contents, 2 runs, 2 calls, 2 turns; `CartOrders` on 1 cart, with 2 requests of the other routes | `PhoneTypeOK`; `PickedIsAccepted`, `ScreenSpeaksForApi`; `PlacedWasBlessed`, `OrdersAreWatched`; `ExactWhenAlone`, `LegalWhenAlone` (1.07 million states) |
| `packs` | as `edits` | violates `AcceptedIsTyped` |
| `verified` | `UpcMappings` as in `orders` | violates `VerifiedStays` |
| `mixed_lines` | 2 bottles, 2 contents without a common bottle, no edits | violates `LinesOfOnePhone` |
| `truth_rule` | Stage 5 may time out | violates `FailedMeansNotOrdered` |
| `cancel_race` | operators cancel | violates `SucceededStaysSucceeded` |
| `same_store` | operators cancel, two runs of a store | violates `OneDriverPerStore` |
| `tripwire` | operators mark for review, crashes | violates `NoClickAfterAmbiguousDeath` |

What passes. However badly the calls of one run race, its Checkout is clicked at
most once and no pending write can put it back into the queue afterwards. That
holds although the handlers do not lock, because a retryable report is never
sent after the click, the worker that sent it is not going to click any more, and
`retry_now` is never offered. A Stage 3 or 4 that outlives its retryable timeout is the
one thing that acts in MILO beside the worker that has the run (`OnlyStraysOverlap`).
`RetryNowNeverOffered` is the unobvious part:
`retry_now` does not look at `submit_clicked`, and is harmless only because every
retryable failure with retries left has been re-queued automatically.

What fails, and what it shows of the code (`findings` in PROJECT.json has the
lines):

1. `truth_rule`: the Stage 5 timeout can fire before the click and the click
   happen after it; the run is presented as failed. `FailuresAreTrue` proves that
   no report does so in any other way.
2. `cancel_race`: a cancel decided on a running row overwrites `succeeded`. The
   same lost update lets the node engine's second report turn `succeeded` into
   `submitted_unconfirmed`.
3. `same_store`: an operator's cancel frees the store while the first worker is
   still in its cart. Two drivers of one cart come about without operators as well: Start
   over or the reaper takes the run of a silent Stage 3, and a coroutine outlives its
   timeout. So `OneDriverPerStore` is in no passing run; what holds instead is
   `CheckoutOwnsRun` and `OneCheckoutPerStore`, and that the comparison in front of the
   click refuses the cart the two have made (`OrdersWhatWasAsked`).
4. `tripwire`: marking a slow checkout for review destroys the stage that the
   reaper and the tripwire depend on.
5. `mixed_lines`: two bulk syncs of the active cart interleave their clears and
   inserts, and an order is made of both phones' lines. When the two contents
   share a bottle the unique index refuses the second insert instead, and the
   restore decides what stays.
6. `packs`: the worker's lookup drops the pack count, so Stage 3 counts bottles and
   refuses a full case of a multi-pack that the phone offers and the API accepts.
7. `verified`: an import overwrites a mapping that a user confirmed after the import
   had found the barcode unmapped. A scan deletes or replaces a confirmed mapping when
   one of its reads fails.

`ExactWhenAlone` and `LegalWhenAlone` are the passing counterpart of `mixed_lines`:
whatever earlier requests left in the cart, failed statements included, a phone
that meets no other request orders exactly its lines, and only if the rules allow
them. With another request in progress neither holds, which is `mixed_lines`.
`OneValidationPerContent` and `AnswersSpeakOfTheSnapshot` hold under every race.

The properties of the other modules are of the same kind: what the code achieves, with
the exceptions it leaves spelt out in the property. A submit is of lines that a check has
passed (`PlacedWasBlessed`) and keeps Place locked (`OrdersAreWatched`); what is ordered
is what was asked for, line for line (`OrdersWhatWasAsked`); a verdict that the cart can
be checked out hides no demotion (`DemotionsBlockCheckout`); a confirmation is the
submit's own where no other order passes for it, a served tap means a fresh list, an
order has one row; no browser and no session is lost or lent, and the process ends when
it must and, but for what its stages' limits allow, not before; what the
pickers put into a cart the API accepts (`PickedIsAccepted`), and a screen that shows no
fault is right about it (`ScreenSpeaksForApi`); a book that is skipped is in the
catalogue, a UPC that was found stays, and the price remembered was one; what a person chose for a barcode stays
until a person changes it (`ChoicesStay`), and a flag leaves nothing of the match
(`FlagsForget`). A condition
in such a property tells of the code as much as its conclusion does: it names a case,
met while checking, in which nothing in the code keeps the promise.

The passing properties of `store` are stated with some of those causes switched off
(no operator actions, beats in order, no stage silent for longer than the code lets it
be). They say that the design holds under crashes, lost answers, a Stage 3 that is reaped
alive and stages that outlive their timeouts, and the violation runs say which added
cause breaks it. `NoClickAfterAmbiguousDeath` appears in both kinds of run for that
reason.

### Bounds and why they are enough

`MaxRetries = 1` (the code's default is 2) lets a retry happen and be refused.
`MaxAttempts` bounds the claims of one run: 2 in the fleet, which the retry
limit implies there. In `store` one of the two runs may be claimed twice (`FewClaims`);
without that bound it has 3 million states and passes alone in under three minutes. `Slot` is
the number of requests served at the same time: three are a late write, a write
that overtakes it, and an operator's action. Two workers suffice for every
conflict the properties speak of, since each is between two parties. Runs,
workers and slots are symmetric where they play the same part. `services`, which
checks liveness, uses no symmetry. In `CartOrders` the two contents overlap in one bottle and differ in
the other, so that inserts are both refused and accepted; two carts are one that
is closed and one that is active, or two active ones; two requests are two
phones, a phone and its own retry, or a sync and a run. In `edits` one cart is
enough, since what matters is a write that comes to it before the sync and one
that comes after it was judged. Every bottle has a code in these runs
(`Uncoded`); a bottle without one only takes its cart out of the
de-duplication, and the theorems do not assume it. `CHECK_DEADLOCK FALSE`: with all runs finalized the system
rests.

`MCOrders`, `MCServices` and `MCPhone` hold modules that share no state and no action.
Their runs check them in one state space without multiplying it: `focus`, chosen at the
start, says whose steps a behaviour takes, and the others stay in one initial state. A
property of one module is thereby checked on all behaviours of its own specification.

* `UpcMappings`: three requests are what makes a choice possible (an import that queues a
  review, a scan that leaves an audit), the choice, and what comes after; a task of a
  scan and the deletion it does not wait for are two. Products are interchangeable, and
  two of them tell a mapping that was replaced from one that was kept.
* `SubmitPipeline`: two of one thing, or one of each, is what the quantities can get
  wrong; the leftover is of the other code; `BatchSize = 1` puts an Add all between two
  items, `TypeAttempts = 2` (3 in the code) is a first try and a retry, and `MaxTouches =
  1` a person who changes one line, at any moment.
* `PlacedOrders`: a sync and a submit on two workers, an order by hand before the
  submit or beside it, an edit of either, and a tap at any moment of the sync. Two syncs,
  or two submits at once, are too many states beside the other modules; the theorems
  cover any number of both.
* `PriceBook`: two jobs are two ingests that overlap, or an ingest and an enrichment, two
  publications a full book and a correction of it, three requests the daily check, an
  ingest by hand and a scan. With two rows, so two chunks, and one job it passes alone
  (446 thousand states).
* `PhoneCart`: a bottle with splits whose case is a big line by its price, a 20-pack of
  minis that goes by six packs, a size without a rule; one product is of the 70000
  series. Three touches are an add, a merge and a step, or a parking, a price book and a
  return. `MaxOffered` is 24 (500 in the code): above it there are only more multiples.
  One distributor, so that lines share a minimum.
* `WorkerProcess`: three arrivals are what the dead-man's threshold needs, two accounts
  make a held session somebody else's, two browsers a launch beside a held one. A cart of
  84 lines is ended by the watchdog in Stage 4; that one of 30 is not was checked with
  `Lines = {30, 84}` (315 thousand states, passes in 4 minutes), and is proved.
* `OrderSyncLoop`: four stores are more than a tick reads, and the two broken ones fill
  a tick; three wakes are a tap, another one during its sync, and a cadence.
* `ScannerOrders`: two calls are two requests that race, two runs a check and the submit
  of it, or two checks; two turns are an edit and a lost answer, or any other pair of
  interferences.

### Fairness

`FairFleetSpec` assumes weak fairness of a handler's next step (`bounded-fetch`
bounds a database call at 15 s, so a handler proceeds or fails), of the reaper
for an idle worker (every poll of `claim-next`, at most once a minute), and of
the clock, and strong fairness of a worker's progress: every stage has a budget,
every API call a 20 s timeout, and an idle worker polls. It is strong because the
slots, which keepalives share with the worker's awaited calls, are scarce in the
model only. Crashes, users and operators are not fair. `RunsSettle` then says that a created run
ends, even if a worker crashes again and again, as long as one polls.

`WorkerFairness` assumes that the process goes on: an await is answered, times out, or,
when it hangs, is seen by the watchdog's interval, which does not depend on it; and the
machine starts the process again when it exits (Fly's restart policy). Strong fairness of
`ClaimRun` says that an API that is asked again and again answers now and then. Signals,
hanging awaits and arrivals are not fair. `SyncLoopFairness` assumes that ticks come (the
worker is idle again and again), that time passes, and, strongly, that a sync that is
tried again and again succeeds some time. `MCFairness` is these two and that of
`FairFleetSpec` together; a behaviour moves one part, so the others' are met vacuously.

## Proofs

The first part of `WorkerFleetProofs` proves for any number of runs, stores, carts,
workers and requests, and any `MaxRetries`, that every behaviour of the table keeps

* `TypeCorrect`: `TypeOK`
* `RetriesStayBounded`: `RetriesBounded`
* `StoresRunOneAtATime`: `OneRunningPerStore`
* `CartsHaveOneActiveRun`: `OneActivePerCart`, which no run checks, since the guard of
  every write states it; it is part of the inductive invariant

The argument is the inductive invariant `TableInv`, the conjunction of the four.
They need each other: a write is admitted by an index for the row it yields, so
the type invariant has to say that a pending patch yields a row; and
`RetriesBounded` is inductive only because it also bounds the count that any
pending patch is about to write, which was computed from an older row. The
lemmas follow the handlers: what a patch is (`StatusPatchType`,
`OperatorPatchType`, `BeatPatchType`, `PatchedType`), that beginning a request
disturbs nothing (`BeginKeepsInv`), that a row written under the indexes keeps
both uniqueness properties (`IndexesKept`, `RowReplaced`), and one lemma per
remaining step. The assumptions are the named ones of `ExecutionRuns`: runs have
a store and a cart, the bounds are naturals, and the markers `NoWorker`,
`NoRun` and `Keep` are not values of what they stand beside.

The rest of `WorkerFleetProofs` proves of `FleetSpec`, for any number of runs, workers and
requests and with any of the hazards switched on,

* `FleetTypeCorrect`: `FleetTypeOK`
* `OneClickPerRun`: `DispatchedOncePerRun`
* `NoRequeueAfterClick`: `DispatchedNeverRequeued`
* `OnlyStraysMeet`: `OnlyStraysOverlap`
* `RetryNowUnreachable`: `RetryNowNeverOffered`

The argument is about a token, the right to come to the click of a run. It lies in the row
while the run is queued, in the claim's answer while that is on its way to a
worker that still waits, with the worker that has it in hand (`InHand`), and in a patch
that will queue the run again. A stray has given it away: it acts in the cart without it.
`OneToken` says that there is never a second one,
`TokenGoneAfterClick` that there is none after the click. The other conjuncts of
the invariant `FleetInv` are what these two need:

* `AnswersFit`: an answer reaches a worker only at the point that waits for it,
  so that a late one does not create a second driver.
* `PointsTell`: what a worker's point says about the click. A report from past
  the click is never retryable, and a worker that is due to report again has
  clicked.
* `RetriesUsedUp`: a retryable failure is final only when its retries are used
  up. Otherwise `retry_now` would create a token. It is inductive only together
  with what it says of pending patches: a patch that counts a retry is one that
  queues, and it was computed from the count the row still has, because whoever
  computed it held the token.
* `SlotsTidy`, `NothingBeforeCreation`, `AttestedMeansDispatched`: a freed slot
  leaves no patch behind, nothing refers to a run that does not exist yet, and
  `submit_clicked` is never attested without a click.

The proof has one lemma per action. Most steps create no token, and
`NobodyGains` shows once that such a step keeps `FleetInv`; `RequestBegins`
does so for requests that begin. The token moves in five steps: `ClaimStep` (row
to answer), `HandOverStep` (answer to worker), `FinalizeRunStep` (worker to
patch), `WriteStep` (patch to row) and `ClickStep` (gone); `CreateStep` makes it.

`FleetOwnershipProofs` proves `FleetKeepsPromise`, `FleetSpec => KeepsPromise`. Since
one worker has a run in hand, `Holder`'s CHOOSE has no choice (`HolderHolds`). A step
changes one worker at most and a worker has one run at most, so a step that
gives nobody a run is a stutter or puts one down (`PutDownStep`). What remains is
`TakeStep`, `PlaceStep` and `AskStep`, whose guards are `OneToken` and
`TokenGoneAfterClick` read through the mapping.

It also proves what ties a worker to the row of its run, again for any number of runs,
workers and requests, crashes and lost answers included:

* `CheckoutsOwnTheirRuns`: `CheckoutOwnsRun`, if `Undisturbed`
* `StoresHaveOneCheckout`: `OneCheckoutPerStore`, if `Undisturbed`
* `TripwireHoldsBack`: `NoClickAfterAmbiguousDeath`, if `Undisturbed`
* `FailuresAreTrue`: if `~StagesTimeOut`, a clicked run that shows as failed was rejected
  by MILO or has been reaped

`Undisturbed` says that beats are not reordered, that no worker stalls, and that
operators take no action on a run (`retry_now` excepted, which
`RetryNowUnreachable` shows to be never offered). It leaves Stage 3 its silence, in which
Start over and the reaper may take the run, and every stage its timeouts. The conditions
are those of the passing run `store`. They are needed: `same_store` and `tripwire` show
what a single operator action does. `WorkersStall` stands for a blocked event loop, which
the reaper cannot tell from a crash.

The invariant `OwnInv` says what the row of a run in hand is (`DriversOwn`): that worker's
if it is still running, and fresh while the worker beats; from `arming` on it is running,
because the awaited beats that lead there are refused a worker that has lost its run; and
once the checkout is marked it is not yet old enough to reap. It says as much of a run
whose claim is being answered (`ClaimsOwn`). It is
inductive only with what may be about to overwrite that row: a pending patch is a beat,
which touches the stage, or a report, which ends or queues the run (`PatchesPlain`), and
a report that ends a run comes when nobody drives it or is going to (`EndsAreLast`,
`LastReport`, `WaitersFit`). From the beat that marks the checkout on no other stage is
going to be written, which is why a silent worker is reaped late (`OnlyCheckoutBeats`).
`TripInv` adds that a run that was clicked, or that a loose coroutine may yet click,
stays marked as at checkout even when it is reaped (`CommittedAtCheckout`), so that the
tripwire's query finds it; that a loose coroutine is gone before its run can be reaped
or another run of its store grows old (`LooseApart`); and that a worker past the tripwire,
or its loose coroutine, knows of every death that still counts (`TripwireHolds`): a death
after its read would be one of another running run of the store, which the index
excludes. TLC checked both on the instance of `store`, without `FewClaims`.

`FailuresAreTrue` is what is left of `FailedMeansNotOrdered`, which `truth_rule` refutes,
with every other hazard at work: crashes, stalls, lost answers, reordered beats and
operators. It says that a timeout is the only way in which a report calls a
clicked run failed that MILO did not reject; what the reaper fails carries
`LK_RUN_REAPED`, as the tripwire expects. Its invariant `TruthInv` says that a failure
is the last that is said of a run (`FailuresAreLast`): once it is reported, or about to
be written, nobody has or is going to get the right to click (`TokenGone`), and if the
run was clicked for, MILO has rejected it already. TLC checked it on the instance of `fleet` without
`StagesTimeOut`.

`CartOrdersProofs` proves of `CartOrders`, for any number of bottles, contents,
carts and concurrent requests,

* `CartTypeCorrect`: `CartTypeOK`
* `OneCheckPerContent`: `OneValidationPerContent`
* `NoWrongMerge`: `AnswersSpeakOfTheSnapshot`
* `AloneOrdersExactly`: `ExactWhenAlone`
* `AloneOrdersLegally`: `LegalWhenAlone`

The invariant `CartInv` adds `Sound` to them, what a request's record says of
itself: no cart before the statement that returns it and one that exists
afterwards, a mode exactly within from-cart, and an answer only in the hands of a
client. Without the last, a request that reads the cart again would change what
its old answer is compared with. Most steps change one request and no number of
rows, which is `StepKeeps`; `MovesSoundly`, `FailsSoundly` and `AnswersSoundly`
are the ways a request goes on.

The last two need `AloneInv` beside it. A request that met no other is alone with its own
repetitions, which have its lines and its cart (`AloneTogether`), so that whoever else
writes a cart at that time writes its own verdict. From the clearing on, the cart of such
a request is what it should be: not judged while lines are written, empty before they are,
and equal to the phone's lines after (`CartsAsWanted`). Whatever an earlier request left
behind is gone by then, its verdict included, because the sync takes an open cart and a
cart is judged only after it has been closed (`ClosedFirst`).

`MiloProofs` proves of `SubmitPipeline`, for any codes, quantities, batch size
and number of attempts,

* `PipelineTypeCorrect`: `PipelineTypeOK`
* `LiveOrdersMatch`: `OrdersWhatWasAsked`
* `DemotionsAreTold`: `DemotionsBlockCheckout`

`PipelineInv` follows the cart through the stages: the item in hand while one is typed
(`TypingInHand`), the engine's points apart from the browser's (`EnginesApart`), what was
read is the cart unless something changed it since (`ReadIsCart`), a verdict speaks of
what was read (`VerdictHolds`), a comparison that passed says that what was read is what
was asked for (`ComparedIsAsked`), and an item demoted since Stage 3 is among those told
(`DemotedTold`).

`WorkerProcessProofs` proves of `WorkerProcess`, for any number of sessions, accounts,
claims and attempts,

* `WorkerTypeCorrect`: `WorkerTypeOK`
* `RunsDriveTheirOwn`: `OwnSession`
* `BrowsersHaveOwners`: `NoBrowserLeaks`
* `DeadManCounts`: `DeadManSwitch`
* `WatchdogSparesTheSlow`: `WatchdogEndsWhatHangs`

`WorkerInv` says where a browser can be (`SessionInHand`, `HeldWarm`, `LoginInHand`), that
the counter is the length of the trailing streak of failed logins (`StreakCounts`), and
that a slow run's age is bounded by the limits of the stages behind it, for any number of
lines (`AgeBounded`). `WatchdogSparesTheSlow` is that bound against `WedgeLimit`: it is
exceeded in Stage 5, and in Stage 4 exactly when `AddingLimit` exceeds its minimum.
Of `OrderSyncLoop` the module proves `SyncLoopTypeCorrect` (`SyncLoopTypeOK`), for any
stores: a tick reads no more of them than it may, and syncs stores that it read
(`TicksFindStores`). The rest of the loop is liveness.

`MiloProofs` proves of `PlacedOrders`, for any number of orders, workers, submits,
syncs and taps,

* `PlacedTypeCorrect`: `PlacedTypeOK`
* `TapsAreServedFresh`: `FreshWhenServed`
* `OrdersHaveOneRow`: `OneRowPerOrder`
* `ConfirmationsAreOwn`: `ConfirmationIsOwn`

`PlacedInv` adds what a worker's hand holds at each point (`HandsTyped`, `SubmitsInHand`,
`SyncsInHand`), that a lone sync read the rows as they still are (`Alone`), whose row a
submit wrote (`RowsOfSubmits`, by either reading), that without an excepted history rows are of different
orders (`RowsApart`), and that what the tapper could see is in the list the sync fetched
(`WantedSeen`).

`PhoneProofs` proves of `ScannerOrders`, for any contents and any number of runs, calls,
edits and reloads,

* `ScannerTypeCorrect`: `ScannerTypeOK`
* `PlacesAreBlessed`: `PlacedWasBlessed`
* `OrdersStayWatched`: `OrdersAreWatched`

and of `PhoneCart`, for any products, facts and quantities,

* `PhoneCartTypeCorrect`: `PhoneCartTypeOK`
* `PickedStaysAccepted`: `PickedIsAccepted`
* `PhoneSpeaksForApi`: `ScreenSpeaksForApi`

`ScannerInv` says what "sure" is sure of, wherever the phone keeps it. Calls at the server
beside one that is sure are its repetitions (`TogetherSame`), so the active cart holds its
own lines when the run is made of it (`HoldsOwn`). A call that places, the remembered green
check and the open confirmation are of lines that a check has passed (`PlacesSure`,
`GreenSure`, `AskingSure`), and what is polled, tracked or cached is a check of the lines
it is kept for (`PollsSure`, `TrackedSure`, `CacheSure`). Runs keep what they were made of
and a check that was passed stays passed (`Grows`), so a step only has to show what it
remembers anew. `Watched` is `OrdersAreWatched` in terms of the tracked run.

`PhoneCartInv` says that a quantity that was picked is one that is offered for what its
line knows of the product, in the cart, among the lines saved for later and in the question
that is open (`LinesChosen`, `SavedChosen`, `AskedChosen`). The rest is arithmetic: what the
phone offers, by its splits, cases and packs, is what the API accepts, and the litres of a
distributor, a sum over lines, are the same for both, since the two rules differ in nothing
but where they read the facts. That a set of sizes has a least one, which the rules ask for,
comes from the well-foundedness of the naturals.

`CatalogProofs` proves of `PriceBook`, for any rows, kinds of books, jobs and requests,

* `PriceBookTypeCorrect`: `PriceBookTypeOK`
* `SkipsStaySound`: `SkipsAreSound`
* `UpcsStay`: `UpcsSurvive`
* `PricesAreFormer`: `PriceMemory`

An ingest writes back what it read some time ago, so `BookInv` is about its copies: they
hold prices that the row has had (`PricesRemembered`) and the UPC given last, unless the
row is among those that were raced (`UpcsKnown`). Skipping a book whose number is in the
ledger is sound because of `InOrder`: while books are ingested in their order and one at
a time, the newest one begun is the one at work, no row is of a newer one, and a row it
has left behind is not overwritten by an older one. TXT files write without a
comparison, and need none (`TxtsSent`). And of `UpcMappings`, for any barcodes, products
and requests,

* `UpcTypeCorrect`: `UpcTypeOK`
* `ChosenStays`: `ChoicesStay`
* `FlaggedIsForgotten`: `FlagsForget`

A step is about one barcode, so `UpcInv` is a conjunction over barcodes. It follows what
happens to one while nothing else is under way for it: a resolution's mapping is still
what it wrote when it marks the review, and no item has the barcode of a flag that has
cleared them (`AloneFits`); what is under way for a barcode with a choice is not about
to write its mapping (`ChoiceFits`); and nothing is under way for a barcode that was
cleared (`FlagFits`). What one barcode's step can do to another is to take it from the
item that gets the first (`OneUpc`). TLC checked `BookInv` with two rows, two jobs, two
publications and three requests (3.7 million states), and `UpcInv` with three slots and
five arrivals (1.9 million), before they were proved.

`OrdersImplementParts`, `PhoneImplementsParts` and `ServicesImplementParts` say that a
behaviour of `MCOrders`, `MCPhone` or `MCServices` is one of each of its parts, since the
others stutter where one moves. What is proved of a part, for any constants, holds in the
composition that the runs check, and `OrdersTypeCorrect` (`OrdersTypeOK`),
`PhoneTypeCorrect` (`PhoneTypeOK`) and `ServicesTypeCorrect` (`ServicesTypeOK`) follow.

What `ConfirmationsAreOwn` and `OrdersHaveOneRow` say of overlapping submits (a run that
was given up and its successor) is proved only; run `orders` has one submit. The only
assumptions are the conditions above and the named ones of the modules: bounds are naturals, markers such
as `NoRun` are not values of what they stand beside, and what a constant's comment says of
it, for instance that no run is both a submit and a preview.

Only model-checked: `OneDriverPerStore` and the other properties that a run violates, and
`RunsSettle`, `StopsWhenAsked`, `QueueServed`, `TapServed` and
`ScheduledServed`, which need fairness. Every
other property of a run is stated by a theorem.

## Plan

What is left, in this order, each with its runs and mutants:

1. The cart reset's run creation and the gate that downgrades a submit, beside
   `CartOrders`; the attempts table's invariant, in `ExecutionRuns`.
2. Failure classification as an operator, against the codes the stages throw.
3. Proofs: the safety that the temporal properties rest on (who is waiting for what,
   while something is left to do), and the invariants of what 1 and 2 add.

## Not modelled

Presentation, language-model features, catalogue search, photos, push messages,
authentication and cryptography: no shared state whose order matters. The
components listed as `not_modelled` in PROJECT.json name the reason or the plan.

The hand-recorded verdicts of `cart-state.service.js` cannot be reached: the
`POST /:storeId/validate` of `cart.routes.js` is mounted before the one of
`cart-lifecycle.routes.js`, so no cart is ever `pending`, and a verdict is
recorded for a pending cart only. Its execution columns gate no run.
