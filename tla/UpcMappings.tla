------------------------------ MODULE UpcMappings ------------------------------
(***************************************************************************)
(* How a barcode comes to stand for a product: scans, confirmations and    *)
(* flags (routes/price-book.routes.js, mlcc/mlcc-upc-audit.js), the import *)
(* of a register's export (services/nrs-import.service.js) and its review  *)
(* by operators (routes/nrs-review.routes.js) all write upc_mappings,      *)
(* mostly through lib/upc-mappings.js, a statement at a time and without a *)
(* transaction; some of the writes nobody waits for (void ...).            *)
(*                                                                         *)
(* A scan looks its barcode up in the form of normalizeUpc, Canonical; the *)
(* others use it as the phone or the export has it.  The services that     *)
(* know barcodes, and the matching of names, are external: any outcome.    *)
(* Counts of scans, dates and what a scan answers are left out.            *)
(***************************************************************************)
EXTENDS Naturals, FiniteSets

CONSTANTS
  Barcode,      \* barcodes as they are written
  Canonical,    \* normalizeUpc
  Sku,          \* codes of mlcc_items
  NoSku,
  Slot,         \* requests and writes that nobody waits for, at a time
  MaxArrived      \* bound: requests

ASSUME UpcMappingsAssumption ==
  /\ Barcode # {}
  /\ Canonical \in [Barcode -> Barcode]
  /\ \A b \in Barcode : Canonical[Canonical[b]] = Canonical[b]
  /\ NoSku \notin Sku
  /\ MaxArrived \in Nat

VARIABLES
  mappings,     \* upc_mappings, by upc
  itemUpc,      \* mlcc_items.upc, by code: the barcodes it is (none or one)
  audits,       \* upc_match_audit: whether the barcode has a row, or is to get one
  reviews,      \* nrs_ambiguous_review, by upc
  tasks,        \* what is going on
  promised,     \* what the last request that met no other left behind
  arrived

upcVars == <<mappings, itemUpc, audits, reviews, tasks, promised, arrived>>

Sources == {"none", "auto_high_score", "user_confirmed", "operator_review", "nrs_import"}
Mappings == [code : Sku \cup {NoSku}, source : Sources, flags : 0..1]
Unmapped == [code |-> NoSku, source |-> "none", flags |-> 0]
Mapped(b) == mappings[b].code # NoSku
Carriers(b) == {m \in Sku : b \in itemUpc[m]}

TaskPoints == {"idle", "item", "local", "external", "upsert", "update", "insert", "delete",
               "clearing", "counting", "flagging", "deleting", "matching", "importing",
               "queueing", "marking", "skipping"}

\* flags: flag_count as it was read.  alone: no other task of the barcode so far.
Tasks == [at : TaskPoints, upc : Barcode, code : Sku \cup {NoSku}, source : Sources,
          flags : 0..1, alone : BOOLEAN]
Task(point, b) == [at |-> point, upc |-> b, code |-> NoSku, source |-> "none",
                   flags |-> 0, alone |-> TRUE]
IdleTask == Task("idle", CHOOSE b \in Barcode : TRUE)
Upsert(b, m, source) == [Task("upsert", b) EXCEPT !.code = m, !.source = source]

Statuses == {"none", "pending", "resolved", "skipped"}
Reviews == [status : Statuses, to : Sku \cup {NoSku}]

\* A mapping that a person chose, no mapping and no item, or nothing.
Promises == [kind : {"nothing", "chosen", "cleared"}, code : Sku \cup {NoSku},
             source : Sources]
NoPromise == [kind |-> "nothing", code |-> NoSku, source |-> "none"]

UpcTypeOK ==
  /\ mappings \in [Barcode -> Mappings]
  /\ \A b \in Barcode : Mapped(b) <=> mappings[b].source # "none"
  /\ itemUpc \in [Sku -> SUBSET Barcode]
  /\ \A m \in Sku : Cardinality(itemUpc[m]) <= 1
  /\ audits \in [Barcode -> {"none", "queued", "there"}]
  /\ reviews \in [Barcode -> Reviews]
  /\ tasks \in [Slot -> Tasks]
  /\ promised \in [Barcode -> Promises]
  /\ arrived \in 0..MaxArrived

\* Barcodes that MLCC's price book gave an item, which the migration copied.
UpcInit ==
  /\ itemUpc \in [Sku -> {{}} \cup {{b} : b \in {Canonical[c] : c \in Barcode}}]
  /\ mappings \in [Barcode -> Mappings]
  /\ \A b \in Barcode : mappings[b] \in
       IF Carriers(b) = {} THEN {Unmapped}
       ELSE {[code |-> m, source |-> "auto_high_score", flags |-> 0] : m \in Carriers(b)}
  /\ audits = [b \in Barcode |-> "none"]
  /\ reviews = [b \in Barcode |-> [status |-> "none", to |-> NoSku]]
  /\ tasks = [t \in Slot |-> IdleTask]
  /\ promised = [b \in Barcode |-> NoPromise]
  /\ arrived = 0

-----------------------------------------------------------------------------
(* Tasks *)

At(t, point) == tasks[t].at = point
Of(b) == {t \in Slot : tasks[t].at # "idle" /\ tasks[t].upc = b}
Reaches(t, point) == tasks' = [tasks EXCEPT ![t].at = point]
Ends(t) == tasks' = [tasks EXCEPT ![t] = IdleTask]

\* After t has become `was`, a task of b begins in another slot; they are no longer alone.
Begins(t, task, was) ==
  tasks' = [s \in Slot |->
              IF s = t THEN [task EXCEPT !.alone = Of(task.upc) = {}]
              ELSE IF s \in Of(task.upc) THEN [was[s] EXCEPT !.alone = FALSE]
              ELSE was[s]]

\* What a request that begins leaves of the promises: a scan or an import keeps what a
\* person chose; a confirmation, a flag or a review is another choice.
Keeps(b) ==
  IF promised[b].kind = "chosen" THEN promised ELSE [promised EXCEPT ![b] = NoPromise]
Forgets(b) == [promised EXCEPT ![b] = NoPromise]

Arrives(t, task, promises) ==
  /\ arrived < MaxArrived /\ arrived' = arrived + 1
  /\ At(t, "idle") /\ Begins(t, task, tasks)
  /\ promised' = promises

AuditQueued(b) ==
  audits' = [audits EXCEPT ![b] = IF @ = "there" THEN "there" ELSE "queued"]

\* logUpcMatchAudit's row, sooner or later.
AuditLands(b) ==
  /\ audits[b] = "queued"
  /\ audits' = [audits EXCEPT ![b] = "there"]
  /\ UNCHANGED <<mappings, itemUpc, reviews, tasks, promised, arrived>>

\* A statement fails or finds its row gone where that ends the request, or the API is
\* restarted.
Abandon(t) ==
  /\ ~At(t, "idle")
  /\ Ends(t)
  /\ UNCHANGED <<mappings, itemUpc, audits, reviews, promised, arrived>>

-----------------------------------------------------------------------------
(* Scans *)

\* getUpcMapping; an error is no mapping.
Scan(t, b) ==
  LET k == Canonical[b] IN
  /\ \/ Mapped(k) /\ Arrives(t, Task("item", k), Keeps(k))
     \/ Arrives(t, Task("local", k), IF Mapped(k) THEN Forgets(k) ELSE Keeps(k))
  /\ UNCHANGED <<mappings, itemUpc, audits, reviews>>

\* The item of the mapping is the answer.  Items are never deleted, so that the mapping
\* loses its row only to an error, and nobody waits for the deletion.
FetchItem(t) ==
  LET k == tasks[t].upc IN
  /\ At(t, "item")
  /\ \/ Ends(t) /\ AuditQueued(k) /\ UNCHANGED promised
     \/ /\ \E s \in Slot :
             At(s, "idle") /\ Begins(s, Task("delete", k), [tasks EXCEPT ![t].at = "local"])
        /\ promised' = Forgets(k)
        /\ UNCHANGED audits
  /\ UNCHANGED <<mappings, itemUpc, reviews, arrived>>

DeleteLands(t) ==
  /\ At(t, "delete")
  /\ mappings' = [mappings EXCEPT ![tasks[t].upc] = Unmapped]
  /\ Ends(t)
  /\ UNCHANGED <<itemUpc, audits, reviews, promised, arrived>>

ReadLocal(t) ==
  LET k == tasks[t].upc IN
  /\ At(t, "local")
  /\ IF Carriers(k) # {} THEN Ends(t) /\ AuditQueued(k)
     ELSE Reaches(t, "external") /\ UNCHANGED audits
  /\ UNCHANGED <<mappings, itemUpc, reviews, promised, arrived>>

\* respondWithScoredUpcMatch: a match of high quality writes the item's barcode, and then
\* the mapping; other matches are answers only.  A barcode nobody knows leaves no audit:
\* that is Abandon.
Score(t) ==
  LET k == tasks[t].upc IN
  /\ At(t, "external")
  /\ AuditQueued(k)
  /\ \/ Ends(t) /\ UNCHANGED itemUpc
     \/ \E m \in Sku :
          /\ itemUpc' = [itemUpc EXCEPT ![m] = {k}]
          /\ tasks' = [tasks EXCEPT ![t] = [Upsert(k, m, "auto_high_score") EXCEPT
                                              !.alone = tasks[t].alone]]
  /\ UNCHANGED <<mappings, reviews, promised, arrived>>

-----------------------------------------------------------------------------
(* upsertUpcMapping *)

UpsertRead(t) ==
  /\ At(t, "upsert")
  /\ Reaches(t, IF Mapped(tasks[t].upc) THEN "update" ELSE "insert")
  /\ UNCHANGED <<mappings, itemUpc, audits, reviews, promised, arrived>>

Chosen(t) == [kind |-> "chosen", code |-> tasks[t].code, source |-> tasks[t].source]
Promise(t, promise) ==
  IF tasks[t].alone THEN [promised EXCEPT ![tasks[t].upc] = promise] ELSE promised

\* An UPDATE finds the row, an INSERT finds none: upc is unique.
UpsertWrite(t) ==
  LET b == tasks[t].upc IN
  /\ tasks[t].at = IF Mapped(b) THEN "update" ELSE "insert"
  /\ mappings' = [mappings EXCEPT ![b] =
                    [code |-> tasks[t].code, source |-> tasks[t].source, flags |-> 0]]
  /\ IF tasks[t].source = "operator_review" THEN Reaches(t, "marking") ELSE Ends(t)
  /\ IF tasks[t].source = "user_confirmed" THEN promised' = Promise(t, Chosen(t))
     ELSE UNCHANGED promised
  /\ UNCHANGED <<itemUpc, audits, reviews, arrived>>

\* POST /upc/:upc/confirm, which answers before the mapping is written.
Confirm(t, b, m) ==
  /\ Arrives(t, Upsert(b, m, "user_confirmed"), Forgets(b))
  /\ UNCHANGED <<mappings, itemUpc, audits, reviews>>

-----------------------------------------------------------------------------
(* Flags: priceBookUpcFlagHandler *)

\* flagUpcMatchAsIncorrect refuses a barcode without an audit.
Flag(t, b) ==
  /\ audits[b] = "there"
  /\ Arrives(t, Task("clearing", b), Forgets(b))
  /\ UNCHANGED <<mappings, itemUpc, audits, reviews>>

\* Mutant: the item keeps the barcode.
NoneCleared(b) == itemUpc
ClearedItems(b) == [m \in Sku |-> itemUpc[m] \ {b}]

ClearItems(t) ==
  /\ At(t, "clearing")
  /\ itemUpc' = ClearedItems(tasks[t].upc)
  /\ Reaches(t, "counting")
  /\ UNCHANGED <<mappings, audits, reviews, promised, arrived>>

\* flagUpcMappingAsIncorrect reads the row; without one, or with an error, it is over.
CountFlags(t) ==
  LET b == tasks[t].upc IN
  /\ At(t, "counting")
  /\ \/ /\ Mapped(b)
        /\ tasks' = [tasks EXCEPT ![t].at = "flagging", ![t].flags = mappings[b].flags]
     \/ Reaches(t, "deleting")
  /\ UNCHANGED <<mappings, itemUpc, audits, reviews, promised, arrived>>

\* The second flag deletes; the first one is counted, if its row is still there.
WriteFlag(t) ==
  LET b == tasks[t].upc IN
  /\ At(t, "flagging")
  /\ \/ mappings' = [mappings EXCEPT ![b] =
                       IF ~Mapped(b) \/ tasks[t].flags = 1 THEN Unmapped
                       ELSE [@ EXCEPT !.flags = 1]]
     \/ UNCHANGED mappings
  /\ Reaches(t, "deleting")
  /\ UNCHANGED <<itemUpc, audits, reviews, promised, arrived>>

\* deleteUpcMapping, awaited; the answer is 200 also when it failed, which is Abandon.
FlagDelete(t) ==
  LET b == tasks[t].upc IN
  /\ At(t, "deleting")
  /\ mappings' = [mappings EXCEPT ![b] = Unmapped]
  /\ promised' = Promise(t, [NoPromise EXCEPT !.kind = "cleared"])
  /\ Ends(t)
  /\ UNCHANGED <<itemUpc, audits, reviews, arrived>>

-----------------------------------------------------------------------------
(* The import of a register's export: one of its rows *)

\* Mutant: what is mapped is imported again.
NewAnyway(b) == TRUE
New(b) == ~Mapped(b)

Import(b, m) == [Task("importing", b) EXCEPT !.code = m, !.source = "nrs_import"]

\* Tier 1 takes the item that has the barcode, if it is not mapped; the rows without one
\* wait until the catalog is loaded.
ImportRow(t, b) ==
  /\ IF Carriers(b) = {} THEN Arrives(t, Task("matching", b), Keeps(b))
     ELSE New(b) /\ \E m \in Carriers(b) : Arrives(t, Import(b, m), Keeps(b))
  /\ UNCHANGED <<mappings, itemUpc, audits, reviews>>

\* Tier 2 matches names: a row that matches one item is imported if it is not mapped, one
\* that matches several waits for an operator whether it is mapped or not, and others are
\* passed over, which is Abandon.
MatchName(t) ==
  LET b == tasks[t].upc IN
  /\ At(t, "matching")
  /\ \/ New(b) /\ \E m \in Sku :
          tasks' = [tasks EXCEPT ![t] = [Import(b, m) EXCEPT !.alone = tasks[t].alone]]
     \/ Reaches(t, "queueing")
  /\ UNCHANGED <<mappings, itemUpc, audits, reviews, promised, arrived>>

\* upsert with onConflict upc: whatever is there by now is overwritten.
ImportWrite(t) ==
  /\ At(t, "importing")
  /\ mappings' = [mappings EXCEPT ![tasks[t].upc].code = tasks[t].code,
                                  ![tasks[t].upc].source = tasks[t].source]
  /\ Ends(t)
  /\ UNCHANGED <<itemUpc, audits, reviews, promised, arrived>>

\* A row that an operator has resolved or skipped is pending again.
QueueReview(t) ==
  /\ At(t, "queueing")
  /\ reviews' = [reviews EXCEPT ![tasks[t].upc].status = "pending"]
  /\ Ends(t)
  /\ UNCHANGED <<mappings, itemUpc, audits, promised, arrived>>

-----------------------------------------------------------------------------
(* Operators' reviews *)

Resolve(t, b, m) ==
  /\ reviews[b].status = "pending"
  /\ Arrives(t, Upsert(b, m, "operator_review"), Forgets(b))
  /\ UNCHANGED <<mappings, itemUpc, audits, reviews>>

\* The mapping was written.
MarkResolved(t) ==
  /\ At(t, "marking")
  /\ reviews' = [reviews EXCEPT ![tasks[t].upc] =
                   [status |-> "resolved", to |-> tasks[t].code]]
  /\ promised' = Promise(t, Chosen(t))
  /\ Ends(t)
  /\ UNCHANGED <<mappings, itemUpc, audits, arrived>>

SkipReview(t, b) ==
  /\ reviews[b].status = "pending"
  /\ Arrives(t, Task("skipping", b), Keeps(b))
  /\ UNCHANGED <<mappings, itemUpc, audits, reviews>>

MarkSkipped(t) ==
  /\ At(t, "skipping")
  /\ reviews' = [reviews EXCEPT ![tasks[t].upc].status = "skipped"]
  /\ Ends(t)
  /\ UNCHANGED <<mappings, itemUpc, audits, promised, arrived>>

-----------------------------------------------------------------------------
(* Specification *)

\* The TXT of MLCC's price book (PriceBook) gives an item its barcode.
GiveBarcode(m, b) ==
  /\ arrived < MaxArrived /\ arrived' = arrived + 1
  /\ Canonical[b] = b
  /\ itemUpc' = [itemUpc EXCEPT ![m] = {b}]
  /\ tasks' = [s \in Slot |-> IF s \in Of(b) THEN [tasks[s] EXCEPT !.alone = FALSE]
                             ELSE tasks[s]]
  /\ promised' = Keeps(b)
  /\ UNCHANGED <<mappings, audits, reviews>>

Request(t, b) ==
  \/ Scan(t, b) \/ Flag(t, b) \/ ImportRow(t, b) \/ SkipReview(t, b)
  \/ \E m \in Sku : Confirm(t, b, m) \/ Resolve(t, b, m)

UpcNext ==
  \/ \E b \in Barcode : AuditLands(b) \/ \E m \in Sku : GiveBarcode(m, b)
  \/ \E t \in Slot :
       \/ \E b \in Barcode : Request(t, b)
       \/ FetchItem(t) \/ DeleteLands(t) \/ ReadLocal(t) \/ Score(t)
       \/ UpsertRead(t) \/ UpsertWrite(t)
       \/ ClearItems(t) \/ CountFlags(t) \/ WriteFlag(t) \/ FlagDelete(t)
       \/ MatchName(t) \/ ImportWrite(t) \/ QueueReview(t)
       \/ MarkResolved(t) \/ MarkSkipped(t)
       \/ Abandon(t)

UpcSpec == UpcInit /\ [][UpcNext]_upcVars

-----------------------------------------------------------------------------
(* Properties *)

\* What a user confirmed or an operator resolved, while nothing else was under way for the
\* barcode, stays until a person flags it or chooses again: no scan takes it away unless a
\* read of the database fails, no later import does, and neither does a review that is
\* queued again or skipped.  Nor does a resolution differ from its mapping
\* (runNrsImport, "so we don't overwrite blindly"; priceBookUpcHandler).
ChoicesStay ==
  \A b \in Barcode : promised[b].kind = "chosen" =>
    /\ mappings[b].code = promised[b].code /\ mappings[b].source = promised[b].source
    /\ promised[b].source = "operator_review" => reviews[b].to = promised[b].code

\* "Match flagged; next scan will re-match from scratch" (priceBookUpcFlagHandler): after a
\* flag that met nothing else there is neither a mapping nor an item with the barcode until
\* the next request.
FlagsForget ==
  \A b \in Barcode : promised[b].kind = "cleared" =>
    ~Mapped(Canonical[b]) /\ Carriers(Canonical[b]) = {}

\* "Verified mappings are immutable without operator action."
ByPerson(t) ==
  \/ tasks[t].source \in {"user_confirmed", "operator_review"}
  \/ tasks[t].at \in {"flagging", "deleting"}

VerifiedStays ==
  [][\A b \in Barcode :
       mappings[b].source = "user_confirmed" /\ mappings'[b] # mappings[b] =>
         \E t \in Slot : tasks'[t] # tasks[t] /\ tasks[t].upc = b /\ ByPerson(t)]_upcVars
=============================================================================
