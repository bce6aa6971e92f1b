------------------------------- MODULE PriceBook -------------------------------
(***************************************************************************)
(* How MLCC's publications come into the catalog mlcc_items: the daily     *)
(* check (mlcc/mlcc-price-book-scheduler.js, POST /price-book/check-updates*)
(* of routes/price-book.routes.js), ingests by hand (POST /price-book/     *)
(* ingest), the ingest itself (mlcc/mlcc-price-book-ingestor.js) and the   *)
(* UPCs of the price book's TXT (mlcc/mlcc-price-book-upc-enrichment.js).  *)
(*                                                                         *)
(* MLCC's page is external.  A publication is found by its URL, which names*)
(* one file, so that it is a number here; a check skips what its ledger,   *)
(* the completed rows of mlcc_price_book_runs, says is in the catalog.     *)
(***************************************************************************)
EXTENDS Naturals, FiniteSets, SequencesExt

CONSTANTS
  Row,          \* rows of mlcc_items, by code and ADA
  Lists,        \* kinds of between-book lists (BETWEEN_BOOK_CHECKS)
  Price,
  NoPrice,
  Job,          \* ticks and requests at a time
  MaxPublished, \* bound: publications
  MaxRequests   \* bound: checks, requests by hand, and UPCs found or flagged

Kinds == {"full", "upc_txt"} \cup Lists

ASSUME PriceBookAssumption ==
  /\ Lists \cap {"full", "upc_txt"} = {}
  /\ NoPrice \notin Price
  /\ MaxPublished \in Nat /\ MaxRequests \in Nat

VARIABLES
  books,        \* MLCC: what was published, in order
  ledger,       \* for each kind, the book of the last run with status complete
  catalog,      \* mlcc_items
  jobs,         \* ticks of the cron and requests in progress
  witness,      \* what the properties compare with
  requests      \* how many there have been

bookVars == <<books, ledger, catalog, jobs, witness, requests>>

\* A book gives its rows a price, a TXT gives them UPCs.
Books == {b \in [kind : Kinds, listed : SUBSET Row, price : Price \cup {NoPrice}] :
            b.price = NoPrice <=> b.kind = "upc_txt"}

\* from: the book that wrote the row last, 0 for one before; was: previous_licensee_price.
Upcs == {"none", "book", "scan"}
Items == [here : BOOLEAN, price : Price \cup {NoPrice}, was : Price \cup {NoPrice},
          from : 0..MaxPublished, upc : Upcs]
Absent == [here |-> FALSE, price |-> NoPrice, was |-> NoPrice, from |-> 0, upc |-> "none"]

\* seen: existingByCodeAda, as far as it is still needed.  todo: rows whose chunk is to
\* come.  missed: chunkUpsertErrors > 0.  kept: the TXT's ledger is to be written.
JobPoints == {"idle", "fetching", "upserting", "fetchingTxt", "applying"}
Jobs == [at : JobPoints, book : 0..MaxPublished, seen : [Row -> Items], todo : SUBSET Row,
         missed : BOOLEAN, kept : BOOLEAN]
NoJob == [at |-> "idle", book |-> 0, seen |-> [r \in Row |-> Absent], todo |-> {},
          missed |-> FALSE, kept |-> FALSE]

\* former: prices a row has had.  given: the UPC that a TXT, a scan or a flag gave last, and
\* raced: when an ingest had read the row before and was still to write it.  sent: the
\* newest TXT whose chunk with the row was sent.  begun: the newest book begun.
\* disordered: a book was begun after a later one, or beside another.
Witnesses == [former : [Row -> SUBSET Price], given : [Row -> Upcs], raced : SUBSET Row,
              sent : [Row -> 0..MaxPublished],
              begun : 0..MaxPublished, disordered : BOOLEAN]

PriceBookTypeOK ==
  /\ books \in Seq(Books) /\ Len(books) <= MaxPublished
  /\ ledger \in [Kinds -> 0..Len(books)]
  /\ catalog \in [Row -> Items]
  /\ jobs \in [Job -> Jobs]
  /\ witness \in Witnesses
  /\ requests \in 0..MaxRequests
  /\ \A j \in Job : jobs[j].at \notin {"idle", "fetchingTxt"} =>
                      jobs[j].book \in 1..Len(books)
  /\ \A k \in Kinds : ledger[k] # 0 => books[ledger[k]].kind = k

\* The catalog before: some of the rows, with a price and perhaps a UPC.
PriceBookInit ==
  /\ books = <<>>
  /\ ledger = [k \in Kinds |-> 0]
  /\ \E here \in SUBSET Row, upc \in {"none", "scan"}, price \in Price :
       catalog = [r \in Row |-> IF r \in here THEN [Absent EXCEPT !.here = TRUE, !.price = price,
                                                                 !.upc = upc]
                                ELSE Absent]
  /\ jobs = [j \in Job |-> NoJob]
  /\ witness = [former |-> [r \in Row |-> {catalog[r].price} \ {NoPrice}],
                given |-> [r \in Row |-> catalog[r].upc],
                raced |-> {}, sent |-> [r \in Row |-> 0],
                begun |-> 0, disordered |-> FALSE]
  /\ requests = 0

-----------------------------------------------------------------------------
(* MLCC *)

Published(kind) == Max({0} \cup {p \in 1..Len(books) : books[p].kind = kind})

\* A full book lists every row; a between-book list some, and a TXT may lag behind.
Publish ==
  /\ Len(books) < MaxPublished
  /\ \E b \in Books :
       /\ b.listed # {}
       /\ b.kind = "full" => b.listed = Row
       /\ books' = Append(books, b)
  /\ UNCHANGED <<ledger, catalog, jobs, witness, requests>>

-----------------------------------------------------------------------------
(* The check *)

Again == requests < MaxRequests /\ requests' = requests + 1
Does(j, job) == jobs' = [jobs EXCEPT ![j] = job]

\* The book on the page is another one than that of the kind's last complete run.
News(k) == Published(k) # 0 /\ ledger[k] # Published(k)

Ingesting(i) == jobs[i].at \in {"fetching", "upserting"}
Orderly(j, p) == ~witness.disordered /\ p >= witness.begun /\ \A i \in Job \ {j} : ~Ingesting(i)
Begun(j, p) ==
  witness' = [witness EXCEPT !.begun = IF Orderly(j, p) THEN p ELSE 0,
                             !.disordered = ~Orderly(j, p)]

\* POST /price-book/check-updates checks the full book, the lists and the TXT.  Since each
\* check may find nothing, or fail, what ticks do is any sequence of single checks.
\* ingestMlccPriceBook begins with a run whose status is processing.
IngestNew(j, k) ==
  /\ Again
  /\ jobs[j].at = "idle" /\ k # "upc_txt"
  /\ News(k)
  /\ Does(j, [NoJob EXCEPT !.at = "fetching", !.book = Published(k)])
  /\ Begun(j, Published(k))
  /\ UNCHANGED <<books, ledger, catalog>>

\* checkAndRunUpcEnrichmentIfTxtChanged writes nothing before the TXT has been applied.
EnrichNew(j) ==
  /\ Again
  /\ jobs[j].at = "idle"
  /\ News("upc_txt")
  /\ Does(j, [NoJob EXCEPT !.at = "fetchingTxt", !.kept = TRUE])
  /\ UNCHANGED <<books, ledger, catalog, witness>>

\* POST /price-book/enrich-upcs.
EnrichByHand(j) ==
  /\ Again
  /\ jobs[j].at = "idle"
  /\ Does(j, [NoJob EXCEPT !.at = "fetchingTxt"])
  /\ UNCHANGED <<books, ledger, catalog, witness>>

\* POST /price-book/ingest with the URL of any full book, or a check that is forced.
IngestByHand(j, p) ==
  /\ Again
  /\ jobs[j].at = "idle" /\ books[p].kind = "full"
  /\ Does(j, [NoJob EXCEPT !.at = "fetching", !.book = p])
  /\ Begun(j, p)
  /\ UNCHANGED <<books, ledger, catalog>>

-----------------------------------------------------------------------------
(* The ingest *)

\* The file is downloaded, and the rows it lists are read as they are now; since no two of
\* them are compared, it does not matter that 500 codes are read at a time.
ReadExisting(j) ==
  /\ jobs[j].at = "fetching"
  /\ Does(j, [jobs[j] EXCEPT !.at = "upserting",
                             !.seen = [r \in Row |-> IF r \in books[jobs[j].book].listed
                                                    THEN catalog[r] ELSE Absent],
                             !.todo = books[jobs[j].book].listed])
  /\ UNCHANGED <<books, ledger, catalog, witness, requests>>

\* Mutants: the memory is the price that was read; a book has no UPCs.
AlwaysOutgoing(existing, price) ==
  IF ~existing.here THEN NoPrice ELSE existing.price
KeptUpcFresh(existing) == "none"

\* nextPreviousLicenseePrice.
PreviousPrice(existing, price) ==
  IF ~existing.here THEN NoPrice
  ELSE IF existing.price # price THEN existing.price ELSE existing.was

KeptUpc(existing) == existing.upc

UpsertItem(j, r) ==
  LET existing == jobs[j].seen[r]
      price == books[jobs[j].book].price
  IN /\ catalog' = [catalog EXCEPT ![r] =
                      [here |-> TRUE, price |-> price, was |-> PreviousPrice(existing, price),
                       from |-> jobs[j].book, upc |-> KeptUpc(existing)]]
     /\ witness' = [witness EXCEPT !.former[r] = @ \cup {price}]

\* A chunk is written, or an error comes back although it may have been; after a network
\* error it is tried again (once, which is as good as often), and what fails in the end is
\* counted.
ChunkOver(j, r, missed) ==
  Does(j, [jobs[j] EXCEPT !.todo = @ \ {r}, !.seen[r] = Absent, !.missed = @ \/ missed])

UpsertChunk(j, r) ==
  /\ jobs[j].at = "upserting" /\ r \in jobs[j].todo
  /\ \/ UpsertItem(j, r) /\ ChunkOver(j, r, FALSE)
     \/ UpsertItem(j, r) /\ UNCHANGED jobs
     \/ (UpsertItem(j, r) \/ UNCHANGED <<catalog, witness>>) /\ ChunkOver(j, r, TRUE)
  /\ UNCHANGED <<books, ledger, requests>>

\* Mutant: a run with errors is complete.
CompleteAnyhow(job) == TRUE

\* status is complete, or complete_with_errors, which no ledger counts.
Complete(job) == ~job.missed

\* Mutant: the runs of all kinds are one ledger.
OneLedger(job) == "full"

LedgerOf(job) == books[job.book].kind

\* After a full book its UPCs are fetched again.
RecordIngest(j) ==
  /\ jobs[j].at = "upserting" /\ jobs[j].todo = {}
  /\ \/ Complete(jobs[j]) /\ ledger' = [ledger EXCEPT ![LedgerOf(jobs[j])] = jobs[j].book]
     \/ UNCHANGED ledger
  /\ Does(j, IF books[jobs[j].book].kind = "full" THEN [NoJob EXCEPT !.at = "fetchingTxt"]
             ELSE NoJob)
  /\ UNCHANGED <<books, catalog, witness, requests>>

\* The run cannot be inserted, the download, the parse, the row count or a read fails, or
\* the machine is stopped.
JobEnds(j) ==
  /\ jobs[j].at # "idle"
  /\ Does(j, NoJob)
  /\ UNCHANGED <<books, ledger, catalog, witness, requests>>

-----------------------------------------------------------------------------
(* UPCs *)

\* A dedicated write of a UPC.
Reading(r) == \E i \in Job : jobs[i].at = "upserting" /\ r \in jobs[i].todo
Given(r, upc) ==
  [witness EXCEPT !.given[r] = upc,
                  !.raced = IF Reading(r) THEN @ \cup {r} ELSE @ \ {r}]

\* runUpcEnrichment looks for the newest TXT itself; by hand any may be given.
FetchTxt(j, p) ==
  /\ jobs[j].at = "fetchingTxt"
  /\ books[p].kind = "upc_txt"
  /\ jobs[j].kept => p = Published("upc_txt")
  /\ Does(j, [jobs[j] EXCEPT !.at = "applying", !.book = p, !.todo = books[p].listed])
  /\ UNCHANGED <<books, ledger, catalog, witness, requests>>

\* bulk_update_mlcc_upcs writes the rows that are there.  A chunk that fails is noted in
\* the answer, and the enrichment is a success all the same.
ApplyChunk(j, r) ==
  /\ jobs[j].at = "applying" /\ r \in jobs[j].todo
  /\ Does(j, [jobs[j] EXCEPT !.todo = @ \ {r}])
  /\ LET sent == [witness.sent EXCEPT ![r] = Max({@, jobs[j].book})]
     IN \/ /\ catalog[r].here
           /\ catalog' = [catalog EXCEPT ![r].upc = "book"]
           /\ witness' = [Given(r, "book") EXCEPT !.sent = sent]
        \/ /\ witness' = [witness EXCEPT !.sent = sent]
           /\ UNCHANGED catalog
  /\ UNCHANGED <<books, ledger, requests>>

\* Only the check of the TXT keeps a ledger of it, on success.
FinishTxt(j) ==
  /\ jobs[j].at = "applying" /\ jobs[j].todo = {}
  /\ \/ jobs[j].kept /\ ledger' = [ledger EXCEPT !["upc_txt"] = jobs[j].book]
     \/ UNCHANGED ledger
  /\ Does(j, NoJob)
  /\ UNCHANGED <<books, catalog, witness, requests>>

\* A scan that matches with high confidence keeps its UPC; a match that is flagged as
\* incorrect loses it.
TouchUpc(r) ==
  /\ Again /\ catalog[r].here
  /\ \E upc \in {"none", "scan"} \ {catalog[r].upc} :
       /\ catalog' = [catalog EXCEPT ![r].upc = upc]
       /\ witness' = Given(r, upc)
  /\ UNCHANGED <<books, ledger, jobs>>

JobStep(j) ==
  \/ \E k \in Kinds : IngestNew(j, k)
  \/ \E p \in 1..Len(books) : IngestByHand(j, p) \/ FetchTxt(j, p)
  \/ EnrichNew(j) \/ EnrichByHand(j)
  \/ ReadExisting(j) \/ RecordIngest(j) \/ JobEnds(j) \/ FinishTxt(j)
  \/ \E r \in Row : UpsertChunk(j, r) \/ ApplyChunk(j, r)

PriceBookNext ==
  \/ Publish
  \/ \E j \in Job : JobStep(j)
  \/ \E r \in Row : TouchUpc(r)

PriceBookSpec == PriceBookInit /\ [][PriceBookNext]_bookVars

-----------------------------------------------------------------------------
(* Properties *)

\* What a check passes over as "already ingested" is in the catalog: every row of the book
\* has its price or a later book's, and every row of the TXT was sent
\* (getLastCompletedIngestUrl, complete_with_errors).  Where it may not be: a book was
\* begun after a later one, or beside another.  A full book that is ingested again, as
\* after an error, undoes the corrections of the lists that are in the ledger by then.
Skipped(k) == ledger[k] # 0 /\ ledger[k] = Published(k)
SkipsAreSound ==
  \A k \in Kinds : Skipped(k) =>
    \A r \in books[ledger[k]].listed :
      IF k = "upc_txt" THEN witness.sent[r] >= ledger[k]
      ELSE catalog[r].from >= ledger[k] \/ witness.disordered

\* A UPC that a TXT or a scan gave a row stays, and one that was flagged as incorrect does
\* not come back, however many books come in: an ingest writes the UPC it has read, which
\* is another one only if the UPC was given between its read and its write.
UpcsSurvive ==
  \A r \in Row : catalog[r].upc # witness.given[r] => r \in witness.raced

\* "The number shown is still always a real former shelf price" (nextPreviousLicenseePrice),
\* and never the current one, however ingests overlap and chunks are written twice.
PriceMemory ==
  \A r \in Row : catalog[r].was # NoPrice =>
    catalog[r].was \in witness.former[r] /\ catalog[r].was # catalog[r].price
=============================================================================
