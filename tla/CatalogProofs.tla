---------------------------- MODULE CatalogProofs ----------------------------
(***************************************************************************)
(* What the catalogue and the barcodes promise, for any number of rows,    *)
(* kinds of books, jobs, barcodes, products and requests.                  *)
(*                                                                         *)
(* PriceBook: an ingest writes what it read some time ago, so the argument *)
(* is about what its copies still have in common with the rows, and about  *)
(* the order in which books are begun.                                     *)
(*                                                                         *)
(* UpcMappings: a step is about one barcode, so that the invariant is one  *)
(* of each barcode, and the argument about the tasks that meet there.      *)
(***************************************************************************)
EXTENDS PriceBook, UpcMappings, FiniteSetTheorems, SequenceTheorems, WellFoundedInduction, TLAPS

-----------------------------------------------------------------------------
(* The price book: the invariant *)

\* A book that is ingested gives prices, one whose chunks are applied gives UPCs.
JobsFit ==
  \A j \in Job :
    /\ Ingesting(j) => books[jobs[j].book].kind # "upc_txt"
    /\ jobs[j].at = "applying" => books[jobs[j].book].kind = "upc_txt"

\* A row, in the catalog or as an ingest has read it, has had its prices.
Remembered(former, item) ==
  /\ item.here => item.price \in former
  /\ item.was # NoPrice => item.was \in former /\ item.was # item.price

PricesRemembered ==
  \A r \in Row :
    /\ Remembered(witness.former[r], catalog[r])
    /\ \A j \in Job : Remembered(witness.former[r], jobs[j].seen[r])

\* What an ingest is going to write is the UPC given last, or there was a race.
UpcsKnown ==
  /\ UpcsSurvive
  /\ \A j \in Job, r \in Row :
       /\ jobs[j].at = "upserting" /\ r \in jobs[j].todo
       /\ jobs[j].seen[r].upc # witness.given[r]
       => r \in witness.raced

\* The rows of a TXT are sent one by one.
TxtsSent ==
  /\ \A j \in Job : jobs[j].at = "applying" =>
       \A r \in books[jobs[j].book].listed \ jobs[j].todo : witness.sent[r] >= jobs[j].book
  /\ ledger["upc_txt"] # 0 =>
       \A r \in books[ledger["upc_txt"]].listed : witness.sent[r] >= ledger["upc_txt"]

\* While books are ingested in their order and one at a time, the newest one begun is the
\* one at work, and what is done stays done.
OneAtATime ==
  \A j \in Job : Ingesting(j) =>
    /\ jobs[j].book = witness.begun
    /\ \A i \in Job \ {j} : ~Ingesting(i)

NoneNewer ==
  /\ \A r \in Row : catalog[r].from <= witness.begun
  /\ \A k \in Kinds \ {"upc_txt"} : ledger[k] <= witness.begun

Written(j) ==
  \A r \in books[jobs[j].book].listed \ jobs[j].todo : catalog[r].from >= jobs[j].book

LedgersHold ==
  \A k \in Kinds \ {"upc_txt"} : ledger[k] # 0 =>
    \A r \in books[ledger[k]].listed : catalog[r].from >= ledger[k]

InOrder ==
  ~witness.disordered =>
    /\ OneAtATime
    /\ NoneNewer
    /\ \A j \in Job : jobs[j].at = "upserting" /\ ~jobs[j].missed => Written(j)
    /\ LedgersHold

BookInv ==
  /\ PriceBookTypeOK
  /\ JobsFit
  /\ PricesRemembered
  /\ UpcsKnown
  /\ TxtsSent
  /\ InOrder

-----------------------------------------------------------------------------
(* The newest publication of a kind *)

\* A set of numbers that is bounded and not empty has a greatest one, which is Max.
LEMMA GreatestNumber ==
  ASSUME NEW n \in Nat, NEW S \in SUBSET (0..n), S # {}
  PROVE  Max(S) \in S /\ \A x \in S : Max(S) >= x
<1> DEFINE less == OpToRel(<, Nat)
           T == {m \in 0..n : n - m \in S}
<1>1. T \in SUBSET Nat /\ T # {} /\ \A x \in S : n - x \in T
  <2>1. \A x \in S : n - x \in 0..n /\ n - (n - x) = x
    OBVIOUS
  <2>2. \A x \in S : n - x \in T
    BY <2>1
  <2>3. PICK x \in S : TRUE
    OBVIOUS
  <2>4. T # {}
    BY <2>2, <2>3
  <2>5. T \in SUBSET Nat
    OBVIOUS
  <2> QED
    BY <2>2, <2>4, <2>5
<1>2. PICK m \in T : \A k \in T : <<k, m>> \notin less
  <2>1. IsWellFoundedOn(less, Nat)
    BY NatLessThanWellFounded
  <2> HIDE DEF less, T
  <2> QED
    BY <1>1, <2>1, WFMin
<1>3. \A k \in T : ~(k < m)
  BY <1>1, <1>2 DEF OpToRel
<1>4. n - m \in S
  OBVIOUS
<1>5. ASSUME NEW y \in S
      PROVE  n - m >= y
  <2>1. ~(n - y < m)
    BY <1>1, <1>3
  <2> QED
    BY <2>1
<1>6. \E x \in S : \A y \in S : x >= y
  BY <1>4, <1>5
<1> QED
  BY <1>6 DEF Max

\* Published(k) is the number of a book of kind k, or 0.
LEMMA PublishedIsNewest ==
  ASSUME PriceBookTypeOK, NEW k
  PROVE  /\ Published(k) \in 0..Len(books)
         /\ Published(k) # 0 => Published(k) \in 1..Len(books) /\ books[Published(k)].kind = k
<1> DEFINE S == {0} \cup {p \in 1..Len(books) : books[p].kind = k}
<1>1. Len(books) \in Nat
  BY DEF PriceBookTypeOK
<1>2. S \in SUBSET (0..Len(books)) /\ S # {}
  BY <1>1
<1>3. Max(S) \in S
  <2> HIDE DEF S
  <2> QED
    BY <1>1, <1>2, GreatestNumber
<1> QED
  BY <1>1, <1>3 DEF Published

-----------------------------------------------------------------------------
(* Types *)

\* The shapes of the variables' parts.
LEMMA BookShapes ==
  ASSUME PriceBookTypeOK
  PROVE  /\ Len(books) \in 0..MaxPublished /\ books \in Seq(Books)
         /\ \A p \in 1..Len(books) : books[p] \in Books /\ p \in 0..MaxPublished
         /\ \A r \in Row : catalog[r] \in Items
         /\ \A j \in Job : jobs[j] \in Jobs
         /\ "upc_txt" \in Kinds /\ "full" \in Kinds
  BY PriceBookAssumption DEF PriceBookTypeOK, Kinds

LEMMA ConstantTypes == NoJob \in Jobs /\ Absent \in Items
  BY PriceBookAssumption DEF NoJob, Jobs, Absent, Items, Upcs, JobPoints

\* The state before anything is published is well-formed.
LEMMA BookInitType == PriceBookInit => PriceBookTypeOK
<1> SUFFICES ASSUME PriceBookInit PROVE PriceBookTypeOK
  OBVIOUS
<1>1. books \in Seq(Books) /\ Len(books) = 0
  BY DEF PriceBookInit
<1>2. ledger \in [Kinds -> 0..Len(books)] /\ \A k \in Kinds : ledger[k] = 0
  BY <1>1 DEF PriceBookInit
<1>3. catalog \in [Row -> Items]
  <2>1. PICK here \in SUBSET Row, upc \in {"none", "scan"}, price \in Price :
          catalog = [r \in Row |-> IF r \in here
                                  THEN [Absent EXCEPT !.here = TRUE, !.price = price,
                                                      !.upc = upc]
                                  ELSE Absent]
    BY DEF PriceBookInit
  <2> DEFINE item == [Absent EXCEPT !.here = TRUE, !.price = price, !.upc = upc]
  <2>2. item \in Items
    BY ConstantTypes DEF Items, Upcs
  <2> HIDE DEF item
  <2> QED
    BY <2>1, <2>2, ConstantTypes DEF item
<1>4. jobs \in [Job -> Jobs] /\ \A j \in Job : jobs[j].at = "idle"
  BY ConstantTypes DEF PriceBookInit, NoJob
<1>5. witness \in Witnesses
  <2>1. \A r \in Row : /\ {catalog[r].price} \ {NoPrice} \in SUBSET Price
                       /\ catalog[r].upc \in Upcs
    BY <1>3 DEF Items
  <2> QED
    BY <2>1, PriceBookAssumption DEF PriceBookInit, Witnesses
<1> QED
  BY <1>1, <1>2, <1>3, <1>4, <1>5, PriceBookAssumption DEF PriceBookInit, PriceBookTypeOK

-----------------------------------------------------------------------------
(* What a step writes *)

\* A book begins, in order or not.
LEMMA BegunWrites ==
  ASSUME PriceBookTypeOK, NEW j, NEW p \in 0..MaxPublished, Begun(j, p)
  PROVE  /\ witness' \in Witnesses
         /\ witness'.former = witness.former /\ witness'.given = witness.given
         /\ witness'.raced = witness.raced /\ witness'.sent = witness.sent
         /\ witness'.begun = IF Orderly(j, p) THEN p ELSE 0
         /\ witness'.disordered = ~Orderly(j, p)
<1>1. witness \in Witnesses /\ Orderly(j, p) \in BOOLEAN
  BY DEF PriceBookTypeOK, Orderly
<1> DEFINE begun == IF Orderly(j, p) THEN p ELSE 0
<1>2. begun \in 0..MaxPublished
  BY PriceBookAssumption
<1>3. witness' = [witness EXCEPT !.begun = begun, !.disordered = ~Orderly(j, p)]
  BY DEF Begun
<1> HIDE DEF begun
<1>4. /\ witness' \in Witnesses
      /\ witness'.former = witness.former /\ witness'.given = witness.given
      /\ witness'.raced = witness.raced /\ witness'.sent = witness.sent
      /\ witness'.begun = begun /\ witness'.disordered = ~Orderly(j, p)
  BY <1>1, <1>2, <1>3 DEF Witnesses
<1> QED
  BY <1>4 DEF begun

\* An ingest writes one row and remembers its price.
LEMMA UpsertWrites ==
  ASSUME PriceBookTypeOK, JobsFit, NEW j \in Job, NEW r \in Row, jobs[j].at = "upserting",
         UpsertItem(j, r)
  PROVE  LET price == books[jobs[j].book].price
             seen == jobs[j].seen[r]
         IN /\ catalog' \in [Row -> Items] /\ witness' \in Witnesses /\ price \in Price
            /\ catalog'[r].here /\ catalog'[r].price = price
            /\ catalog'[r].was = PreviousPrice(seen, price)
            /\ catalog'[r].from = jobs[j].book /\ catalog'[r].upc = seen.upc
            /\ witness'.former[r] = witness.former[r] \cup {price}
            /\ \A q \in Row : q # r => /\ catalog'[q] = catalog[q]
                                       /\ witness'.former[q] = witness.former[q]
            /\ witness'.given = witness.given /\ witness'.raced = witness.raced
            /\ witness'.sent = witness.sent /\ witness'.begun = witness.begun
            /\ witness'.disordered = witness.disordered
<1> DEFINE price == books[jobs[j].book].price
           seen == jobs[j].seen[r]
           item == [here |-> TRUE, price |-> price, was |-> PreviousPrice(seen, price),
                    from |-> jobs[j].book, upc |-> KeptUpc(seen)]
<1>1. jobs[j] \in Jobs /\ jobs[j].book \in 1..Len(books) /\ seen \in Items
  BY BookShapes DEF PriceBookTypeOK, Jobs
<1>2. price \in Price
  BY <1>1, BookShapes DEF JobsFit, Ingesting, Books
<1>3. item \in Items
  <2>1. PreviousPrice(seen, price) \in Price \cup {NoPrice} /\ KeptUpc(seen) \in Upcs
    BY <1>1 DEF PreviousPrice, KeptUpc, Items
  <2>2. jobs[j].book \in 0..MaxPublished
    BY <1>1 DEF Jobs
  <2> HIDE DEF price, seen
  <2> QED
    BY <1>2, <2>1, <2>2 DEF Items
<1>4. catalog' = [catalog EXCEPT ![r] = item]
  BY DEF UpsertItem
<1>5. /\ item.here /\ item.price = price /\ item.was = PreviousPrice(seen, price)
      /\ item.from = jobs[j].book /\ item.upc = seen.upc
  BY DEF KeptUpc
<1>6. /\ catalog' \in [Row -> Items] /\ catalog'[r] = item
      /\ \A q \in Row : q # r => catalog'[q] = catalog[q]
  <2> HIDE DEF item
  <2> QED
    BY <1>3, <1>4 DEF PriceBookTypeOK
<1>7. witness' = [witness EXCEPT !.former[r] = witness.former[r] \cup {price}]
  BY DEF UpsertItem
<1>8. /\ witness' \in Witnesses
      /\ witness'.former[r] = witness.former[r] \cup {price}
      /\ \A q \in Row : q # r => witness'.former[q] = witness.former[q]
      /\ witness'.given = witness.given /\ witness'.raced = witness.raced
      /\ witness'.sent = witness.sent /\ witness'.begun = witness.begun
      /\ witness'.disordered = witness.disordered
  <2>1. witness \in Witnesses
    BY DEF PriceBookTypeOK
  <2> HIDE DEF price
  <2> QED
    BY <1>2, <1>7, <2>1 DEF Witnesses
<1> HIDE DEF item, price, seen
<1>9. /\ catalog'[r].here /\ catalog'[r].price = price
      /\ catalog'[r].was = PreviousPrice(seen, price)
      /\ catalog'[r].from = jobs[j].book /\ catalog'[r].upc = seen.upc
  BY <1>5, <1>6
<1> QED
  BY <1>2, <1>6, <1>8, <1>9 DEF price, seen

\* A row gets or loses its UPC.
LEMMA GivenWrites ==
  ASSUME PriceBookTypeOK, NEW r \in Row, NEW upc \in Upcs
  PROVE  /\ Given(r, upc) \in Witnesses
         /\ Given(r, upc).former = witness.former
         /\ Given(r, upc).given[r] = upc
         /\ \A q \in Row : q # r => Given(r, upc).given[q] = witness.given[q]
         /\ Reading(r) => Given(r, upc).raced = witness.raced \cup {r}
         /\ ~Reading(r) => Given(r, upc).raced = witness.raced \ {r}
         /\ Given(r, upc).sent = witness.sent
         /\ Given(r, upc).begun = witness.begun
         /\ Given(r, upc).disordered = witness.disordered
<1> DEFINE raced == IF Reading(r) THEN witness.raced \cup {r} ELSE witness.raced \ {r}
<1>1. witness \in Witnesses
  BY DEF PriceBookTypeOK
<1>2. Given(r, upc) = [witness EXCEPT !.given[r] = upc, !.raced = raced]
  BY DEF Given
<1>3. raced \in SUBSET Row
  BY <1>1 DEF Witnesses
<1> HIDE DEF raced
<1> DEFINE g == Given(r, upc)
<1>4. /\ g.former = witness.former
      /\ g.given = [witness.given EXCEPT ![r] = upc]
      /\ g.raced = raced /\ g.sent = witness.sent
      /\ g.begun = witness.begun /\ g.disordered = witness.disordered
  BY <1>1, <1>2 DEF Witnesses
<1>5. witness.given \in [Row -> Upcs]
  BY <1>1 DEF Witnesses
<1>6. /\ g.given \in [Row -> Upcs] /\ g.given[r] = upc
      /\ \A q \in Row : q # r => g.given[q] = witness.given[q]
  BY <1>4, <1>5
<1>7. g \in Witnesses
  <2>1. g = [former |-> g.former, given |-> g.given, raced |-> g.raced, sent |-> g.sent,
             begun |-> g.begun, disordered |-> g.disordered]
    BY <1>1, <1>2 DEF Witnesses
  <2> HIDE DEF g
  <2> QED
    BY <1>1, <1>3, <1>4, <1>6, <2>1 DEF Witnesses
<1> QED
  BY <1>4, <1>6, <1>7 DEF raced

\* A row of a TXT is sent.
Resent(w, j, r) == [w EXCEPT !.sent = [witness.sent EXCEPT ![r] = Max({@, jobs[j].book})]]

LEMMA SentWrites ==
  ASSUME PriceBookTypeOK, NEW j \in Job, NEW r \in Row, NEW w \in Witnesses,
         w.sent = witness.sent
  PROVE  LET new == Resent(w, j, r)
         IN /\ new \in Witnesses
            /\ new.former = w.former /\ new.given = w.given /\ new.raced = w.raced
            /\ new.begun = w.begun /\ new.disordered = w.disordered
            /\ new.sent[r] >= jobs[j].book
            /\ \A q \in Row : new.sent[q] >= witness.sent[q] /\ new.sent[q] \in Nat
<1> DEFINE new == Resent(w, j, r)
<1> DEFINE both == {witness.sent[r], jobs[j].book}
           sent == [witness.sent EXCEPT ![r] = Max(both)]
<1>1. witness.sent \in [Row -> 0..MaxPublished] /\ jobs[j].book \in 0..MaxPublished
  BY BookShapes DEF PriceBookTypeOK, Witnesses, Jobs
<1>2. Max(both) \in both /\ \A x \in both : Max(both) >= x
  <2>1. both \in SUBSET (0..MaxPublished) /\ both # {}
    BY <1>1
  <2> HIDE DEF both
  <2> QED
    BY <2>1, GreatestNumber, PriceBookAssumption
<1>3. /\ Max(both) \in 0..MaxPublished
      /\ Max(both) >= witness.sent[r] /\ Max(both) >= jobs[j].book
  BY <1>1, <1>2
<1> HIDE DEF both
<1>4. /\ sent \in [Row -> 0..MaxPublished]
      /\ sent[r] >= jobs[j].book
      /\ \A q \in Row : sent[q] >= witness.sent[q] /\ sent[q] \in Nat
  BY <1>1, <1>3, PriceBookAssumption
<1>5. new = [w EXCEPT !.sent = sent]
  BY DEF both, Resent
<1> HIDE DEF sent, new
<1>6. /\ new \in Witnesses
      /\ new.former = w.former /\ new.given = w.given /\ new.raced = w.raced
      /\ new.begun = w.begun /\ new.disordered = w.disordered /\ new.sent = sent
  BY <1>4, <1>5 DEF Witnesses
<1> QED
  BY <1>4, <1>6 DEF new

\* A job that may be anybody's: its book is of the kind that its point works on.
FitJob(job) ==
  /\ job \in Jobs
  /\ job.at \notin {"idle", "fetchingTxt"} => job.book \in 1..Len(books)
  /\ job.at \in {"fetching", "upserting"} => books[job.book].kind # "upc_txt"
  /\ job.at = "applying" => books[job.book].kind = "upc_txt"

\* Every job is one, and so is none.
LEMMA JobsAreFit ==
  ASSUME PriceBookTypeOK, JobsFit
  PROVE  FitJob(NoJob) /\ \A j \in Job : FitJob(jobs[j])
<1>1. NoJob.at = "idle"
  BY DEF NoJob
<1> QED
  BY <1>1, ConstantTypes, BookShapes DEF FitJob, JobsFit, Ingesting, PriceBookTypeOK

\* A step that gives a job another fit state keeps the types.
LEMMA JobStepTyped ==
  ASSUME PriceBookTypeOK, JobsFit, NEW j \in Job, NEW job, FitJob(job), Does(j, job),
         UNCHANGED books,
         UNCHANGED ledger
           \/ \E k \in Kinds, p \in 1..Len(books) :
                books[p].kind = k /\ ledger' = [ledger EXCEPT ![k] = p],
         catalog' \in [Row -> Items], witness' \in Witnesses, requests' \in 0..MaxRequests
  PROVE  PriceBookTypeOK' /\ JobsFit'
<1>1. jobs' = [jobs EXCEPT ![j] = job] /\ jobs \in [Job -> Jobs]
  BY DEF Does, PriceBookTypeOK
<1>2. jobs' \in [Job -> Jobs] /\ \A i \in Job : FitJob(jobs'[i])
  BY <1>1, JobsAreFit DEF FitJob
<1>3. ledger' \in [Kinds -> 0..Len(books)] /\ \A k \in Kinds : ledger'[k] # 0 =>
        books[ledger'[k]].kind = k
  <2>1. /\ ledger \in [Kinds -> 0..Len(books)] /\ Len(books) \in Nat
        /\ \A k \in Kinds : ledger[k] # 0 => books[ledger[k]].kind = k
    BY DEF PriceBookTypeOK
  <2>2. CASE UNCHANGED ledger
    BY <2>1, <2>2
  <2>3. CASE \E k \in Kinds, p \in 1..Len(books) :
               books[p].kind = k /\ ledger' = [ledger EXCEPT ![k] = p]
    BY <2>1, <2>3
  <2> QED
    BY <2>2, <2>3
<1> QED
  BY <1>2, <1>3 DEF PriceBookTypeOK, JobsFit, Ingesting, FitJob

\* A job begins at a book, or at the TXT.
AtBook(p) == [NoJob EXCEPT !.at = "fetching", !.book = p]
AtTxt == [NoJob EXCEPT !.at = "fetchingTxt"]
AtNewTxt == [NoJob EXCEPT !.at = "fetchingTxt", !.kept = TRUE]

LEMMA BeginningsFit ==
  ASSUME PriceBookTypeOK
  PROVE  /\ \A p \in 1..Len(books) : books[p].kind # "upc_txt" => FitJob(AtBook(p))
         /\ \A p \in 1..Len(books) : /\ AtBook(p).at = "fetching" /\ AtBook(p).book = p
                                     /\ AtBook(p).seen = NoJob.seen
         /\ FitJob(AtTxt) /\ AtTxt.at = "fetchingTxt" /\ AtTxt.seen = NoJob.seen
         /\ FitJob(AtNewTxt) /\ AtNewTxt.at = "fetchingTxt" /\ AtNewTxt.seen = NoJob.seen
<1>1. NoJob \in Jobs
  BY ConstantTypes
<1>2. ASSUME NEW p \in 1..Len(books)
      PROVE  /\ books[p].kind # "upc_txt" => FitJob(AtBook(p))
             /\ AtBook(p).at = "fetching" /\ AtBook(p).book = p
             /\ AtBook(p).seen = NoJob.seen
  <2>1. p \in 0..MaxPublished
    BY BookShapes
  <2> QED
    BY <1>1, <2>1 DEF FitJob, Jobs, JobPoints, AtBook
<1>3. FitJob(AtTxt) /\ AtTxt.at = "fetchingTxt" /\ AtTxt.seen = NoJob.seen
  BY <1>1 DEF FitJob, Jobs, JobPoints, AtTxt
<1>4. FitJob(AtNewTxt) /\ AtNewTxt.at = "fetchingTxt" /\ AtNewTxt.seen = NoJob.seen
  BY <1>1 DEF FitJob, Jobs, JobPoints, AtNewTxt
<1> QED
  BY <1>2, <1>3, <1>4

\* A job reads the rows of its book, takes up the TXT's, and ticks one off.
HavingRead(j) ==
  [jobs[j] EXCEPT !.at = "upserting",
                  !.seen = [r \in Row |-> IF r \in books[jobs[j].book].listed THEN catalog[r]
                                         ELSE Absent],
                  !.todo = books[jobs[j].book].listed]

LEMMA ReadingFits ==
  ASSUME PriceBookTypeOK, JobsFit, NEW j \in Job, jobs[j].at = "fetching"
  PROVE  LET job == HavingRead(j)
         IN /\ FitJob(job)
            /\ job.at = "upserting" /\ job.book = jobs[j].book
            /\ job.missed = jobs[j].missed
            /\ job.todo = books[jobs[j].book].listed
            /\ \A r \in Row : job.seen[r] =
                 IF r \in books[jobs[j].book].listed THEN catalog[r] ELSE Absent
<1> DEFINE job == HavingRead(j)
           seen == [r \in Row |-> IF r \in books[jobs[j].book].listed THEN catalog[r]
                                 ELSE Absent]
           listed == books[jobs[j].book].listed
<1>1. seen \in [Row -> Items] /\ listed \in SUBSET Row
  BY BookShapes, ConstantTypes DEF PriceBookTypeOK, Books
<1>2. job = [jobs[j] EXCEPT !.at = "upserting", !.seen = seen, !.todo = listed]
  BY DEF HavingRead
<1>3. \A r \in Row : seen[r] = IF r \in listed THEN catalog[r] ELSE Absent
  OBVIOUS
<1> HIDE DEF job, seen, listed
<1>4. /\ FitJob(job)
      /\ job.at = "upserting" /\ job.book = jobs[j].book /\ job.missed = jobs[j].missed
      /\ job.todo = listed /\ job.seen = seen
  BY <1>1, <1>2, JobsAreFit DEF FitJob, Jobs, JobPoints
<1> QED
  BY <1>3, <1>4 DEF listed, job

TakenUp(j, p) == [jobs[j] EXCEPT !.at = "applying", !.book = p, !.todo = books[p].listed]

LEMMA TakingUpFits ==
  ASSUME PriceBookTypeOK, JobsFit, NEW j \in Job, NEW p \in 1..Len(books)
  PROVE  LET job == TakenUp(j, p)
         IN /\ books[p].kind = "upc_txt" => FitJob(job)
            /\ job.at = "applying" /\ job.book = p /\ job.todo = books[p].listed
            /\ job.seen = jobs[j].seen
<1>1. books[p].listed \in SUBSET Row /\ p \in 0..MaxPublished
  BY BookShapes DEF Books
<1> QED
  BY <1>1, JobsAreFit DEF FitJob, Jobs, JobPoints, TakenUp

\* The jobs of ChunkOver and of ApplyChunk.
TickedOff(job, r, missed) ==
  [job EXCEPT !.todo = @ \ {r}, !.seen[r] = Absent, !.missed = @ \/ missed]
TickedTxt(job, r) == [job EXCEPT !.todo = @ \ {r}]

LEMMA TickingOffFits ==
  ASSUME PriceBookTypeOK, JobsFit, NEW j \in Job, NEW r \in Row, NEW missed
  PROVE  LET job == TickedOff(jobs[j], r, missed)
         IN /\ missed \in BOOLEAN => FitJob(job)
            /\ job.at = jobs[j].at /\ job.book = jobs[j].book
            /\ job.todo = jobs[j].todo \ {r} /\ job.missed = (jobs[j].missed \/ missed)
            /\ \A q \in Row : job.seen[q] = IF q = r THEN Absent ELSE jobs[j].seen[q]
<1>1. jobs[j] \in Jobs /\ FitJob(jobs[j])
  BY BookShapes, JobsAreFit
<1> DEFINE seen == [jobs[j].seen EXCEPT ![r] = Absent]
           todo == jobs[j].todo \ {r}
           miss == jobs[j].missed \/ missed
           job == TickedOff(jobs[j], r, missed)
<1>2. /\ seen \in [Row -> Items] /\ todo \in SUBSET Row
      /\ missed \in BOOLEAN => miss \in BOOLEAN
      /\ \A q \in Row : seen[q] = IF q = r THEN Absent ELSE jobs[j].seen[q]
  BY <1>1, ConstantTypes DEF Jobs
<1>3. job = [jobs[j] EXCEPT !.todo = todo, !.seen = seen, !.missed = miss]
  BY <1>1 DEF Jobs, TickedOff
<1> HIDE DEF job, seen, todo, miss
<1>4. /\ missed \in BOOLEAN => FitJob(job)
      /\ job.at = jobs[j].at /\ job.book = jobs[j].book
      /\ job.todo = todo /\ job.seen = seen /\ job.missed = miss
  BY <1>1, <1>2, <1>3 DEF FitJob, Jobs
<1> QED
  BY <1>2, <1>4 DEF job, todo, miss

LEMMA TickingTxtFits ==
  ASSUME PriceBookTypeOK, JobsFit, NEW j \in Job, NEW r \in Row
  PROVE  LET job == TickedTxt(jobs[j], r)
         IN /\ FitJob(job)
            /\ job.at = jobs[j].at /\ job.book = jobs[j].book /\ job.seen = jobs[j].seen
            /\ job.todo = jobs[j].todo \ {r} /\ job.missed = jobs[j].missed
<1>1. jobs[j] \in Jobs /\ FitJob(jobs[j])
  BY BookShapes, JobsAreFit
<1> QED
  BY <1>1 DEF FitJob, Jobs, TickedTxt

\* Every step keeps the shapes and the jobs at their kinds of books.
LEMMA BookTypeKept ==
  ASSUME PriceBookTypeOK, JobsFit, [PriceBookNext]_bookVars
  PROVE  PriceBookTypeOK' /\ JobsFit'
<1>1. /\ books \in Seq(Books) /\ catalog \in [Row -> Items] /\ jobs \in [Job -> Jobs]
      /\ witness \in Witnesses /\ requests \in 0..MaxRequests
  BY DEF PriceBookTypeOK
<1>2. ASSUME Again
      PROVE  requests' \in 0..MaxRequests
  BY <1>1, <1>2, PriceBookAssumption DEF Again
<1>3. CASE UNCHANGED bookVars
  BY <1>3 DEF bookVars, PriceBookTypeOK, JobsFit, Ingesting
<1>4. CASE Publish
  <2>1. PICK b \in Books : books' = Append(books, b)
    BY <1>4 DEF Publish
  <2>2. /\ books' \in Seq(Books) /\ Len(books') = Len(books) + 1 /\ Len(books) \in Nat
        /\ \A p \in 1..Len(books) : books'[p] = books[p]
    BY <1>1, <2>1, AppendProperties
  <2>3. Len(books') <= MaxPublished
    BY <1>4, <2>2, PriceBookAssumption DEF Publish
  <2>4. UNCHANGED <<ledger, catalog, jobs, witness, requests>>
    BY <1>4 DEF Publish
  <2>5. /\ ledger' \in [Kinds -> 0..Len(books')]
        /\ \A k \in Kinds : ledger'[k] # 0 => books'[ledger'[k]].kind = k
    BY <2>2, <2>4 DEF PriceBookTypeOK
  <2>6. \A j \in Job : jobs[j].at \notin {"idle", "fetchingTxt"} =>
          jobs[j].book \in 1..Len(books') /\ books'[jobs[j].book] = books[jobs[j].book]
    BY <2>2 DEF PriceBookTypeOK
  <2>7. JobsFit'
    BY <2>4, <2>6 DEF JobsFit, Ingesting
  <2> QED
    BY <1>1, <2>2, <2>3, <2>4, <2>5, <2>6, <2>7 DEF PriceBookTypeOK
<1>5. ASSUME NEW j \in Job, NEW k \in Kinds, IngestNew(j, k)
      PROVE  PriceBookTypeOK' /\ JobsFit'
  <2>1. Published(k) \in 1..Len(books) /\ books[Published(k)].kind # "upc_txt"
    BY <1>5, PublishedIsNewest DEF IngestNew, News
  <2>2. witness' \in Witnesses
    BY <1>5, <2>1, BookShapes, BegunWrites DEF IngestNew
  <2>3. Does(j, AtBook(Published(k))) /\ UNCHANGED <<books, ledger, catalog>>
    BY <1>5 DEF IngestNew, AtBook
  <2> QED
    BY <1>1, <1>2, <1>5, <2>1, <2>2, <2>3, BeginningsFit, JobStepTyped DEF IngestNew
<1>6. ASSUME NEW j \in Job, NEW p \in 1..Len(books), IngestByHand(j, p)
      PROVE  PriceBookTypeOK' /\ JobsFit'
  <2>1. books[p].kind # "upc_txt"
    BY <1>6 DEF IngestByHand
  <2>2. witness' \in Witnesses
    BY <1>6, BookShapes, BegunWrites DEF IngestByHand
  <2>3. Does(j, AtBook(p)) /\ UNCHANGED <<books, ledger, catalog>>
    BY <1>6 DEF IngestByHand, AtBook
  <2> QED
    BY <1>1, <1>2, <1>6, <2>1, <2>2, <2>3, BeginningsFit, JobStepTyped DEF IngestByHand
<1>7. ASSUME NEW j \in Job, EnrichNew(j) \/ EnrichByHand(j)
      PROVE  PriceBookTypeOK' /\ JobsFit'
  <2>1. /\ Does(j, AtNewTxt) \/ Does(j, AtTxt)
        /\ requests' \in 0..MaxRequests /\ UNCHANGED <<books, ledger, catalog, witness>>
    BY <1>2, <1>7 DEF EnrichNew, EnrichByHand, AtNewTxt, AtTxt
  <2> QED
    BY <1>1, <2>1, BeginningsFit, JobStepTyped
<1>8. ASSUME NEW j \in Job, ReadExisting(j)
      PROVE  PriceBookTypeOK' /\ JobsFit'
  <2>1. /\ Does(j, HavingRead(j)) /\ jobs[j].at = "fetching"
        /\ UNCHANGED <<books, ledger, catalog, witness, requests>>
    BY <1>8 DEF ReadExisting, HavingRead
  <2> QED
    BY <1>1, <2>1, ReadingFits, JobStepTyped
<1>9. ASSUME NEW j \in Job, NEW r \in Row, UpsertChunk(j, r)
      PROVE  PriceBookTypeOK' /\ JobsFit'
  <2>1. /\ jobs[j].at = "upserting"
        /\ UNCHANGED <<books, ledger, requests>>
        /\ UpsertItem(j, r) \/ UNCHANGED <<catalog, witness>>
        /\ (\E missed \in BOOLEAN : ChunkOver(j, r, missed)) \/ UNCHANGED jobs
    BY <1>9 DEF UpsertChunk
  <2>2. catalog' \in [Row -> Items] /\ witness' \in Witnesses
    BY <1>1, <2>1, UpsertWrites
  <2>3. CASE UNCHANGED jobs
    <3>1. jobs' = [jobs EXCEPT ![j] = jobs[j]]
      BY <1>1, <2>3
    <3> QED
      BY <1>1, <2>1, <2>2, <3>1, JobsAreFit, JobStepTyped DEF Does
  <2>4. ASSUME NEW missed \in BOOLEAN, ChunkOver(j, r, missed)
        PROVE  PriceBookTypeOK' /\ JobsFit'
    <3>1. FitJob(TickedOff(jobs[j], r, missed)) /\ Does(j, TickedOff(jobs[j], r, missed))
      BY <2>4, TickingOffFits DEF ChunkOver, TickedOff
    <3> QED
      BY <1>1, <2>1, <2>2, <3>1, JobStepTyped
  <2> QED
    BY <2>1, <2>3, <2>4
<1>10. ASSUME NEW j \in Job, RecordIngest(j)
       PROVE  PriceBookTypeOK' /\ JobsFit'
  <2>1. jobs[j].book \in 1..Len(books) /\ books[jobs[j].book].kind \in Kinds
    BY <1>10, BookShapes DEF RecordIngest, PriceBookTypeOK, Books
  <2>2. Does(j, AtTxt) \/ Does(j, NoJob)
    BY <1>10 DEF RecordIngest, AtTxt
  <2>3. \/ UNCHANGED ledger
        \/ \E k \in Kinds, p \in 1..Len(books) :
             books[p].kind = k /\ ledger' = [ledger EXCEPT ![k] = p]
    BY <1>10, <2>1 DEF RecordIngest, LedgerOf
  <2>4. UNCHANGED <<books, catalog, witness, requests>>
    BY <1>10 DEF RecordIngest
  <2> QED
    BY <1>1, <2>2, <2>3, <2>4, BeginningsFit, JobsAreFit, JobStepTyped
<1>11. ASSUME NEW j \in Job, JobEnds(j)
       PROVE  PriceBookTypeOK' /\ JobsFit'
  BY <1>1, <1>11, JobsAreFit, JobStepTyped DEF JobEnds
<1>12. ASSUME NEW j \in Job, NEW p \in 1..Len(books), FetchTxt(j, p)
       PROVE  PriceBookTypeOK' /\ JobsFit'
  <2>1. /\ Does(j, TakenUp(j, p)) /\ books[p].kind = "upc_txt"
        /\ UNCHANGED <<books, ledger, catalog, witness, requests>>
    BY <1>12 DEF FetchTxt, TakenUp
  <2> QED
    BY <1>1, <2>1, TakingUpFits, JobStepTyped
<1>13. ASSUME NEW j \in Job, NEW r \in Row, ApplyChunk(j, r)
       PROVE  PriceBookTypeOK' /\ JobsFit'
  <2>1. catalog' \in [Row -> Items]
    <3>1. [catalog[r] EXCEPT !.upc = "book"] \in Items
      BY <1>1 DEF Items, Upcs
    <3>2. \/ catalog' = [catalog EXCEPT ![r] = [catalog[r] EXCEPT !.upc = "book"]]
          \/ UNCHANGED catalog
      BY <1>1, <1>13 DEF ApplyChunk
    <3> QED
      BY <1>1, <3>1, <3>2
  <2>2. witness' \in Witnesses
    <3>1. Given(r, "book") \in Witnesses /\ Given(r, "book").sent = witness.sent
      BY GivenWrites DEF Upcs
    <3>2. witness' = Resent(Given(r, "book"), j, r) \/ witness' = Resent(witness, j, r)
      BY <1>13 DEF ApplyChunk, Resent
    <3> QED
      BY <1>1, <3>1, <3>2, SentWrites
  <2> QED
    <3>1. /\ FitJob(TickedTxt(jobs[j], r)) /\ Does(j, TickedTxt(jobs[j], r))
          /\ UNCHANGED <<books, ledger, requests>>
      BY <1>13, TickingTxtFits DEF ApplyChunk, TickedTxt
    <3> QED
      BY <1>1, <2>1, <2>2, <3>1, JobStepTyped
<1>14. ASSUME NEW j \in Job, FinishTxt(j)
       PROVE  PriceBookTypeOK' /\ JobsFit'
  <2>1. jobs[j].book \in 1..Len(books) /\ books[jobs[j].book].kind = "upc_txt"
    BY <1>14 DEF FinishTxt, PriceBookTypeOK, JobsFit
  <2> QED
    BY <1>1, <1>14, <2>1, BookShapes, JobsAreFit, JobStepTyped DEF FinishTxt
<1>15. ASSUME NEW r \in Row, TouchUpc(r)
       PROVE  PriceBookTypeOK' /\ JobsFit'
  <2>1. PICK upc \in {"none", "scan"} :
          catalog' = [catalog EXCEPT ![r].upc = upc] /\ witness' = Given(r, upc)
    BY <1>15 DEF TouchUpc
  <2>2. catalog' \in [Row -> Items]
    <3>1. [catalog[r] EXCEPT !.upc = upc] \in Items
      BY <1>1 DEF Items, Upcs
    <3> QED
      BY <1>1, <2>1, <3>1
  <2>3. witness' \in Witnesses
    BY <2>1, GivenWrites DEF Upcs
  <2>4. requests' \in 0..MaxRequests /\ UNCHANGED <<books, ledger, jobs>>
    BY <1>2, <1>15 DEF TouchUpc
  <2> QED
    BY <1>1, <2>2, <2>3, <2>4 DEF PriceBookTypeOK, JobsFit, Ingesting
<1> QED
  BY <1>3, <1>4, <1>5, <1>6, <1>7, <1>8, <1>9, <1>10, <1>11, <1>12, <1>13, <1>14, <1>15
  DEF PriceBookNext, JobStep

-----------------------------------------------------------------------------
(* Steps, in the terms of the invariant *)

OthersStay(j) == \A i \in Job : i # j => jobs'[i] = jobs[i]

\* A ledger is written by a job that is done with its book.
LedgerStep(j) ==
  \/ UNCHANGED ledger
  \/ /\ jobs[j].at = "applying" \/ (jobs[j].at = "upserting" /\ ~jobs[j].missed)
     /\ jobs[j].todo = {}
     /\ ledger' = [ledger EXCEPT ![books[jobs[j].book].kind] = jobs[j].book]

\* A book is begun, in order or not, or none is.
BegunStep(j) ==
  \/ /\ jobs'[j].at # "fetching"
     /\ witness'.begun = witness.begun /\ witness'.disordered = witness.disordered
  \/ \E p \in 1..Len(books) :
       /\ UNCHANGED ledger
       /\ jobs'[j].at = "fetching" /\ jobs'[j].book = p
       /\ witness'.begun = IF Orderly(j, p) THEN p ELSE 0
       /\ witness'.disordered = ~Orderly(j, p)

\* A job is over, or begins with nothing in hand.
FreshStep(j) ==
  /\ OthersStay(j)
  /\ LedgerStep(j) /\ BegunStep(j)
  /\ jobs'[j].at \in {"idle", "fetching", "fetchingTxt"}
  /\ \A r \in Row : jobs'[j].seen[r] = Absent
  /\ UNCHANGED <<books, catalog>>
  /\ witness'.former = witness.former /\ witness'.given = witness.given
  /\ witness'.raced = witness.raced /\ witness'.sent = witness.sent

\* A row gets or loses its UPC, and nothing else.
UpcWritten(r) ==
  /\ \A q \in Row : /\ catalog'[q].here = catalog[q].here
                    /\ catalog'[q].price = catalog[q].price
                    /\ catalog'[q].was = catalog[q].was
                    /\ catalog'[q].from = catalog[q].from
                    /\ q # r => /\ catalog'[q] = catalog[q]
                                /\ witness'.given[q] = witness.given[q]
  /\ witness'.given[r] = catalog'[r].upc
  /\ Reading(r) => witness'.raced = witness.raced \cup {r}
  /\ ~Reading(r) => witness'.raced = witness.raced \ {r}

NoUpcWritten == catalog' = catalog /\ witness'.given = witness.given
                /\ witness'.raced = witness.raced

\* What neither writes.
PricesStay ==
  /\ witness'.former = witness.former
  /\ witness'.begun = witness.begun
  /\ witness'.disordered = witness.disordered

LEMMA BeginIsFresh ==
  ASSUME PriceBookTypeOK, JobsFit, NEW j \in Job, NEW p \in 1..Len(books),
         Does(j, AtBook(p)), Begun(j, p), UNCHANGED <<books, ledger, catalog>>
  PROVE  FreshStep(j)
<1>1. \A r \in Row : NoJob.seen[r] = Absent
  BY DEF NoJob
<1>2. jobs'[j] = AtBook(p) /\ OthersStay(j)
  BY DEF Does, OthersStay, PriceBookTypeOK
<1>3. p \in 0..MaxPublished
  BY BookShapes
<1> QED
  BY <1>1, <1>2, <1>3, BeginningsFit, BegunWrites DEF FreshStep, LedgerStep, BegunStep

LEMMA FreshSteps ==
  ASSUME PriceBookTypeOK, JobsFit, NEW j \in Job,
         \/ \E k \in Kinds : IngestNew(j, k)
         \/ \E p \in 1..Len(books) : IngestByHand(j, p)
         \/ EnrichNew(j) \/ EnrichByHand(j) \/ RecordIngest(j) \/ JobEnds(j) \/ FinishTxt(j)
  PROVE  FreshStep(j)
<1>1. ASSUME NEW k \in Kinds, IngestNew(j, k)
      PROVE  FreshStep(j)
  <2>1. Published(k) \in 1..Len(books)
    BY <1>1, PublishedIsNewest DEF IngestNew, News
  <2>2. Does(j, AtBook(Published(k)))
    BY <1>1 DEF IngestNew, AtBook
  <2> QED
    BY <1>1, <2>1, <2>2, BeginIsFresh DEF IngestNew
<1>2. ASSUME NEW p \in 1..Len(books), IngestByHand(j, p)
      PROVE  FreshStep(j)
  <2>1. Does(j, AtBook(p))
    BY <1>2 DEF IngestByHand, AtBook
  <2> QED
    BY <1>2, <2>1, BeginIsFresh DEF IngestByHand
<1>3. ASSUME NEW job, job.at \in {"idle", "fetchingTxt"}, job.seen = NoJob.seen,
             Does(j, job), LedgerStep(j), UNCHANGED <<books, catalog, witness>>
      PROVE  FreshStep(j)
  <2>1. jobs'[j] = job /\ OthersStay(j)
    BY <1>3 DEF Does, OthersStay, PriceBookTypeOK
  <2>2. \A r \in Row : NoJob.seen[r] = Absent
    BY DEF NoJob
  <2> QED
    BY <1>3, <2>1, <2>2 DEF FreshStep, BegunStep
<1>4. NoJob.at = "idle"
  BY DEF NoJob
<1>5. ASSUME EnrichNew(j) \/ EnrichByHand(j) \/ RecordIngest(j) \/ JobEnds(j) \/ FinishTxt(j)
      PROVE  FreshStep(j)
  <2>1. /\ Does(j, AtNewTxt) \/ Does(j, AtTxt) \/ Does(j, NoJob)
        /\ UNCHANGED <<books, catalog, witness>>
    BY <1>5
    DEF EnrichNew, EnrichByHand, RecordIngest, JobEnds, FinishTxt, AtNewTxt, AtTxt
  <2>2. LedgerStep(j)
    <3>1. CASE RecordIngest(j)
      BY <3>1 DEF RecordIngest, LedgerStep, Complete, LedgerOf
    <3>2. CASE FinishTxt(j)
      BY <3>2 DEF FinishTxt, LedgerStep, JobsFit
    <3> QED
      BY <1>5, <3>1, <3>2 DEF EnrichNew, EnrichByHand, JobEnds, LedgerStep
  <2> QED
    BY <1>3, <1>4, <2>1, <2>2, BeginningsFit
<1> QED
  BY <1>1, <1>2, <1>5

LEMMA ReadStep ==
  ASSUME PriceBookTypeOK, JobsFit, NEW j \in Job, ReadExisting(j)
  PROVE  LET listed == books[jobs[j].book].listed
         IN /\ OthersStay(j)
            /\ jobs[j].at = "fetching"
            /\ jobs'[j].at = "upserting" /\ jobs'[j].book = jobs[j].book
            /\ jobs'[j].missed = jobs[j].missed /\ jobs'[j].todo = listed
            /\ \A r \in Row : jobs'[j].seen[r] = IF r \in listed THEN catalog[r] ELSE Absent
            /\ UNCHANGED <<books, ledger, catalog, witness>>
<1>1. /\ Does(j, HavingRead(j)) /\ jobs[j].at = "fetching"
      /\ UNCHANGED <<books, ledger, catalog, witness>>
  BY DEF ReadExisting, HavingRead
<1>2. jobs'[j] = HavingRead(j) /\ OthersStay(j)
  BY <1>1 DEF Does, OthersStay, PriceBookTypeOK
<1> QED
  BY <1>1, <1>2, ReadingFits

LEMMA FetchStep ==
  ASSUME PriceBookTypeOK, JobsFit, NEW j \in Job, NEW p \in 1..Len(books), FetchTxt(j, p)
  PROVE  /\ OthersStay(j)
         /\ jobs'[j].at = "applying" /\ jobs'[j].book = p /\ jobs'[j].todo = books[p].listed
         /\ jobs'[j].seen = jobs[j].seen
         /\ UNCHANGED <<books, ledger, catalog, witness>>
<1>1. Does(j, TakenUp(j, p)) /\ UNCHANGED <<books, ledger, catalog, witness>>
  BY DEF FetchTxt, TakenUp
<1>2. jobs'[j] = TakenUp(j, p) /\ OthersStay(j)
  BY <1>1 DEF Does, OthersStay, PriceBookTypeOK
<1> QED
  BY <1>1, <1>2, TakingUpFits

\* A chunk of an ingest: the row is written or not, and ticked off, as missed or not, or
\* to be tried again.
LEMMA ChunkStep ==
  ASSUME PriceBookTypeOK, JobsFit, NEW j \in Job, NEW r \in Row, UpsertChunk(j, r)
  PROVE  /\ OthersStay(j) /\ UNCHANGED <<books, ledger>>
         /\ jobs[j].at = "upserting" /\ r \in jobs[j].todo
         /\ jobs'[j].at = "upserting" /\ jobs'[j].book = jobs[j].book
         /\ UpsertItem(j, r) \/ UNCHANGED <<catalog, witness>>
         /\ \/ jobs'[j] = jobs[j]
            \/ /\ jobs'[j].todo = jobs[j].todo \ {r}
               /\ \A q \in Row : jobs'[j].seen[q] = IF q = r THEN Absent ELSE jobs[j].seen[q]
               /\ jobs'[j].missed \/ (jobs'[j].missed = jobs[j].missed /\ UpsertItem(j, r))
<1>1. /\ jobs[j].at = "upserting" /\ r \in jobs[j].todo
      /\ UNCHANGED <<books, ledger>>
      /\ \/ UpsertItem(j, r) /\ ChunkOver(j, r, FALSE)
         \/ UpsertItem(j, r) /\ UNCHANGED jobs
         \/ (UpsertItem(j, r) \/ UNCHANGED <<catalog, witness>>) /\ ChunkOver(j, r, TRUE)
  BY DEF UpsertChunk
<1>2. ASSUME NEW missed, ChunkOver(j, r, missed)
      PROVE  OthersStay(j) /\ jobs'[j] = TickedOff(jobs[j], r, missed)
  BY <1>2 DEF ChunkOver, Does, TickedOff, OthersStay, PriceBookTypeOK
<1>3. ASSUME NEW missed, missed \in BOOLEAN, ChunkOver(j, r, missed),
             UpsertItem(j, r) \/ UNCHANGED <<catalog, witness>>, missed \/ UpsertItem(j, r)
      PROVE  /\ OthersStay(j)
             /\ jobs'[j].at = "upserting" /\ jobs'[j].book = jobs[j].book
             /\ jobs'[j].todo = jobs[j].todo \ {r}
             /\ \A q \in Row : jobs'[j].seen[q] = IF q = r THEN Absent ELSE jobs[j].seen[q]
             /\ jobs'[j].missed \/ (jobs'[j].missed = jobs[j].missed /\ UpsertItem(j, r))
  <2>1. jobs[j].missed \in BOOLEAN
    BY BookShapes DEF Jobs
  <2>2. OthersStay(j) /\ jobs'[j] = TickedOff(jobs[j], r, missed)
    BY <1>2, <1>3
  <2> QED
    BY <1>1, <1>3, <2>1, <2>2, TickingOffFits
<1>4. CASE UpsertItem(j, r) /\ UNCHANGED jobs
  <2>1. jobs'[j] = jobs[j] /\ OthersStay(j)
    BY <1>4 DEF OthersStay
  <2> QED
    BY <1>1, <1>4, <2>1
<1>5. CASE UpsertItem(j, r) /\ ChunkOver(j, r, FALSE)
  <2>1. \E missed \in BOOLEAN : ChunkOver(j, r, missed)
    <3> WITNESS FALSE \in BOOLEAN
    <3> QED
      BY <1>5
  <2> QED
    BY <1>1, <1>3, <1>5, <2>1
<1>6. CASE (UpsertItem(j, r) \/ UNCHANGED <<catalog, witness>>) /\ ChunkOver(j, r, TRUE)
  <2>1. \E missed \in BOOLEAN : missed /\ ChunkOver(j, r, missed)
    <3> WITNESS TRUE \in BOOLEAN
    <3> QED
      BY <1>6
  <2> QED
    BY <1>1, <1>3, <1>6, <2>1
<1> QED
  BY <1>1, <1>4, <1>5, <1>6

LEMMA ApplyStep ==
  ASSUME PriceBookTypeOK, JobsFit, NEW j \in Job, NEW r \in Row, ApplyChunk(j, r)
  PROVE  /\ OthersStay(j) /\ UNCHANGED <<books, ledger>>
         /\ jobs[j].at = "applying"
         /\ jobs'[j].at = "applying" /\ jobs'[j].book = jobs[j].book
         /\ jobs'[j].todo = jobs[j].todo \ {r} /\ jobs'[j].seen = jobs[j].seen
         /\ UpcWritten(r) \/ NoUpcWritten
         /\ PricesStay
         /\ \A q \in Row : catalog'[q].from = catalog[q].from
         /\ witness'.sent[r] >= jobs[j].book
         /\ \A q \in Row : witness'.sent[q] >= witness.sent[q] /\ witness'.sent[q] \in Nat
<1>1. /\ jobs[j].at = "applying" /\ UNCHANGED <<books, ledger>>
      /\ Does(j, TickedTxt(jobs[j], r))
  BY DEF ApplyChunk, TickedTxt
<1>2. OthersStay(j) /\ jobs'[j] = TickedTxt(jobs[j], r)
  BY <1>1 DEF Does, OthersStay, PriceBookTypeOK
<1>3. witness \in Witnesses /\ catalog \in [Row -> Items]
  BY DEF PriceBookTypeOK
<1>4. CASE /\ catalog' = [catalog EXCEPT ![r].upc = "book"]
           /\ witness' = Resent(Given(r, "book"), j, r)
  <2>1. "book" \in Upcs
    BY DEF Upcs
  <2> DEFINE g == Given(r, "book")
  <2>2. /\ g \in Witnesses /\ g.former = witness.former /\ g.given[r] = "book"
        /\ \A q \in Row : q # r => g.given[q] = witness.given[q]
        /\ Reading(r) => g.raced = witness.raced \cup {r}
        /\ ~Reading(r) => g.raced = witness.raced \ {r}
        /\ g.sent = witness.sent /\ g.begun = witness.begun
        /\ g.disordered = witness.disordered
    BY <2>1, GivenWrites
  <2> HIDE DEF g
  <2>3. /\ witness'.former = g.former /\ witness'.given = g.given /\ witness'.raced = g.raced
        /\ witness'.begun = g.begun /\ witness'.disordered = g.disordered
        /\ witness'.sent[r] >= jobs[j].book
        /\ \A q \in Row : witness'.sent[q] >= witness.sent[q] /\ witness'.sent[q] \in Nat
    BY <1>4, <2>2, SentWrites DEF g
  <2>4. /\ catalog'[r].upc = "book"
        /\ \A q \in Row : /\ catalog'[q].here = catalog[q].here
                          /\ catalog'[q].price = catalog[q].price
                          /\ catalog'[q].was = catalog[q].was
                          /\ catalog'[q].from = catalog[q].from
                          /\ q # r => catalog'[q] = catalog[q]
    BY <1>3, <1>4 DEF Items
  <2> QED
    BY <1>1, <1>2, <2>2, <2>3, <2>4, TickingTxtFits DEF UpcWritten, PricesStay
<1>5. CASE UNCHANGED catalog /\ witness' = Resent(witness, j, r)
  <2>1. /\ witness'.former = witness.former /\ witness'.given = witness.given
        /\ witness'.raced = witness.raced
        /\ witness'.begun = witness.begun /\ witness'.disordered = witness.disordered
        /\ witness'.sent[r] >= jobs[j].book
        /\ \A q \in Row : witness'.sent[q] >= witness.sent[q] /\ witness'.sent[q] \in Nat
    BY <1>3, <1>5, SentWrites
  <2> QED
    BY <1>1, <1>2, <1>5, <2>1, TickingTxtFits DEF NoUpcWritten, PricesStay
<1> QED
  BY <1>4, <1>5 DEF ApplyChunk, Resent

LEMMA GivingStep ==
  ASSUME PriceBookTypeOK, NEW r \in Row, TouchUpc(r)
  PROVE  /\ UpcWritten(r) /\ PricesStay /\ UNCHANGED <<books, ledger, jobs>>
         /\ witness'.sent = witness.sent
         /\ \A q \in Row : catalog'[q].from = catalog[q].from
<1>1. PICK upc \in {"none", "scan"} :
        /\ catalog' = [catalog EXCEPT ![r].upc = upc] /\ witness' = Given(r, upc)
        /\ UNCHANGED <<books, ledger, jobs>>
  BY DEF TouchUpc
<1>2. upc \in Upcs /\ catalog \in [Row -> Items]
  BY DEF Upcs, PriceBookTypeOK
<1>3. /\ catalog'[r].upc = upc
      /\ \A q \in Row : /\ catalog'[q].here = catalog[q].here
                        /\ catalog'[q].price = catalog[q].price
                        /\ catalog'[q].was = catalog[q].was
                        /\ catalog'[q].from = catalog[q].from
                        /\ q # r => catalog'[q] = catalog[q]
  BY <1>1, <1>2 DEF Items
<1> QED
  BY <1>1, <1>2, <1>3, GivenWrites DEF UpcWritten, PricesStay

\* Steps that say nothing of rows.
LEMMA OtherSteps ==
  ASSUME PriceBookTypeOK, JobsFit, [PriceBookNext]_bookVars
  PROVE  \/ UNCHANGED bookVars
         \/ Publish
         \/ \E j \in Job :
              \/ FreshStep(j) \/ ReadExisting(j)
              \/ \E p \in 1..Len(books) : FetchTxt(j, p)
              \/ \E r \in Row : UpsertChunk(j, r) \/ ApplyChunk(j, r)
         \/ \E r \in Row : TouchUpc(r)
<1>1. ASSUME NEW j \in Job, JobStep(j)
      PROVE  \/ FreshStep(j) \/ ReadExisting(j)
             \/ \E p \in 1..Len(books) : FetchTxt(j, p)
             \/ \E r \in Row : UpsertChunk(j, r) \/ ApplyChunk(j, r)
  BY <1>1, FreshSteps DEF JobStep
<1> QED
  BY <1>1 DEF PriceBookNext

-----------------------------------------------------------------------------
(* Prices *)

\* The copies that ingests hold remember as the rows do.
LEMMA PricesKept ==
  ASSUME PriceBookTypeOK, JobsFit, PricesRemembered, [PriceBookNext]_bookVars
  PROVE  PricesRemembered'
<1>1. Remembered({}, Absent) /\ \A former : Remembered(former, Absent)
  BY DEF Remembered, Absent
<1>2. CASE UNCHANGED bookVars \/ Publish
  BY <1>2 DEF bookVars, Publish, PricesRemembered
<1>3. ASSUME NEW j \in Job, FreshStep(j)
      PROVE  PricesRemembered'
  BY <1>1, <1>3 DEF FreshStep, OthersStay, PricesRemembered
<1>4. ASSUME NEW j \in Job, ReadExisting(j)
      PROVE  PricesRemembered'
  BY <1>1, <1>4, ReadStep DEF OthersStay, PricesRemembered
<1>5. ASSUME NEW j \in Job, NEW p \in 1..Len(books), FetchTxt(j, p)
      PROVE  PricesRemembered'
  BY <1>5, FetchStep DEF OthersStay, PricesRemembered
<1>6. ASSUME NEW j \in Job, NEW r \in Row, UpsertChunk(j, r)
      PROVE  PricesRemembered'
  <2>1. \A q \in Row, i \in Job :
          jobs'[i].seen[q] = jobs[i].seen[q] \/ jobs'[i].seen[q] = Absent
    BY <1>6, ChunkStep DEF OthersStay
  <2>2. CASE UNCHANGED <<catalog, witness>>
    BY <1>1, <2>1, <2>2 DEF PricesRemembered
  <2>3. CASE UpsertItem(j, r)
    <3> DEFINE price == books[jobs[j].book].price
               seen == jobs[j].seen[r]
    <3>1. /\ price \in Price
          /\ catalog'[r].here /\ catalog'[r].price = price
          /\ catalog'[r].was = PreviousPrice(seen, price)
          /\ witness'.former[r] = witness.former[r] \cup {price}
          /\ \A q \in Row : q # r => /\ catalog'[q] = catalog[q]
                                     /\ witness'.former[q] = witness.former[q]
      BY <1>6, <2>3, ChunkStep, UpsertWrites
    <3>2. Remembered(witness.former[r], seen)
      BY DEF PricesRemembered
    <3> HIDE DEF price, seen
    <3>3. Remembered(witness'.former[r], catalog'[r])
      BY <3>1, <3>2 DEF Remembered, PreviousPrice
    <3>4. \A item : Remembered(witness.former[r], item) => Remembered(witness'.former[r], item)
      BY <3>1 DEF Remembered
    <3> QED
      BY <1>1, <2>1, <3>1, <3>3, <3>4 DEF PricesRemembered
  <2> QED
    BY <1>6, <2>2, <2>3, ChunkStep
<1>7. ASSUME NEW r \in Row, UpcWritten(r) \/ NoUpcWritten, PricesStay,
             \A i \in Job : jobs'[i].seen = jobs[i].seen
      PROVE  PricesRemembered'
  BY <1>7 DEF UpcWritten, NoUpcWritten, PricesStay, PricesRemembered, Remembered
<1>8. ASSUME NEW j \in Job, NEW r \in Row, ApplyChunk(j, r)
      PROVE  PricesRemembered'
  BY <1>7, <1>8, ApplyStep DEF OthersStay
<1>9. ASSUME NEW r \in Row, TouchUpc(r)
      PROVE  PricesRemembered'
  BY <1>7, <1>9, GivingStep
<1> QED
  BY <1>2, <1>3, <1>4, <1>5, <1>6, <1>8, <1>9, OtherSteps

-----------------------------------------------------------------------------
(* UPCs *)

\* What an ingest holds of a row whose UPC is written meanwhile makes a race.
LEMMA UpcsKept ==
  ASSUME PriceBookTypeOK, JobsFit, UpcsKnown, [PriceBookNext]_bookVars
  PROVE  UpcsKnown'
<1>1. CASE UNCHANGED bookVars \/ Publish
  BY <1>1 DEF bookVars, Publish, UpcsKnown, UpcsSurvive
<1>2. ASSUME NEW j \in Job, FreshStep(j)
      PROVE  UpcsKnown'
  BY <1>2 DEF FreshStep, OthersStay, UpcsKnown, UpcsSurvive
<1>3. ASSUME NEW j \in Job, ReadExisting(j)
      PROVE  UpcsKnown'
  BY <1>3, ReadStep DEF OthersStay, UpcsKnown, UpcsSurvive
<1>4. ASSUME NEW j \in Job, NEW p \in 1..Len(books), FetchTxt(j, p)
      PROVE  UpcsKnown'
  BY <1>4, FetchStep DEF OthersStay, UpcsKnown, UpcsSurvive
<1>5. ASSUME NEW j \in Job, NEW r \in Row, UpsertChunk(j, r)
      PROVE  UpcsKnown'
  <2>1. /\ witness'.given = witness.given /\ witness'.raced = witness.raced
        /\ \A q \in Row : catalog'[q].upc = catalog[q].upc
                          \/ (q = r /\ catalog'[q].upc = jobs[j].seen[r].upc)
    BY <1>5, ChunkStep, UpsertWrites
  <2>2. \A i \in Job, q \in Row :
          jobs'[i].at = "upserting" /\ q \in jobs'[i].todo =>
            /\ jobs[i].at = "upserting" /\ q \in jobs[i].todo
            /\ jobs'[i].seen[q] = jobs[i].seen[q]
    BY <1>5, ChunkStep DEF OthersStay
  <2> QED
    BY <1>5, <2>1, <2>2, ChunkStep DEF UpcsKnown, UpcsSurvive
<1>6. ASSUME NEW r \in Row, UpcWritten(r) \/ NoUpcWritten,
             \A i \in Job : /\ jobs'[i].seen = jobs[i].seen
                            /\ jobs'[i].at = "upserting" => jobs'[i] = jobs[i]
      PROVE  UpcsKnown'
  <2>1. CASE NoUpcWritten
    BY <1>6, <2>1 DEF NoUpcWritten, UpcsKnown, UpcsSurvive
  <2>2. CASE UpcWritten(r)
    <3>1. \A q \in Row : catalog'[q].upc # witness'.given[q] => q \in witness'.raced
      BY <2>2 DEF UpcWritten, UpcsKnown, UpcsSurvive
    <3>2. ASSUME NEW i \in Job, NEW q \in Row, jobs'[i].at = "upserting", q \in jobs'[i].todo,
                 jobs'[i].seen[q].upc # witness'.given[q]
          PROVE  q \in witness'.raced
      <4>1. jobs[i].at = "upserting" /\ q \in jobs[i].todo /\ jobs'[i].seen = jobs[i].seen
        BY <1>6, <3>2
      <4>2. CASE q = r
        BY <2>2, <4>1, <4>2 DEF UpcWritten, Reading
      <4>3. CASE q # r
        BY <2>2, <3>2, <4>1, <4>3 DEF UpcWritten, UpcsKnown
      <4> QED
        BY <4>2, <4>3
    <3> QED
      BY <3>1, <3>2 DEF UpcsKnown, UpcsSurvive
  <2> QED
    BY <1>6, <2>1, <2>2
<1>7. ASSUME NEW j \in Job, NEW r \in Row, ApplyChunk(j, r)
      PROVE  UpcsKnown'
  BY <1>6, <1>7, ApplyStep DEF OthersStay
<1>8. ASSUME NEW r \in Row, TouchUpc(r)
      PROVE  UpcsKnown'
  BY <1>6, <1>8, GivingStep
<1> QED
  BY <1>1, <1>2, <1>3, <1>4, <1>5, <1>7, <1>8, OtherSteps

-----------------------------------------------------------------------------
(* Ledgers *)

\* Books that are published stay as they are.
LEMMA BooksStay ==
  ASSUME PriceBookTypeOK, JobsFit, [PriceBookNext]_bookVars
  PROVE  /\ \A p \in 1..Len(books) : books'[p] = books[p] /\ books[p].listed \in SUBSET Row
         /\ Publish => UNCHANGED <<ledger, catalog, jobs, witness>>
         /\ ~Publish => UNCHANGED books
         /\ \A j \in Job : jobs[j].at \notin {"idle", "fetchingTxt"} =>
              jobs[j].book \in 1..Len(books)
         /\ \A k \in Kinds : ledger[k] # 0 => ledger[k] \in 1..Len(books)
<1>1. ~Publish => UNCHANGED books
  <2>1. ASSUME NEW j \in Job, NEW r \in Row, UpsertChunk(j, r) \/ ApplyChunk(j, r)
        PROVE  UNCHANGED books
    BY <2>1 DEF UpsertChunk, ApplyChunk
  <2>2. ASSUME NEW j \in Job, FreshStep(j) \/ ReadExisting(j)
        PROVE  UNCHANGED books
    BY <2>2 DEF FreshStep, ReadExisting
  <2> QED
    BY <2>1, <2>2, OtherSteps DEF bookVars, FetchTxt, TouchUpc
<1>2. ASSUME Publish
      PROVE  /\ \A p \in 1..Len(books) : books'[p] = books[p]
             /\ UNCHANGED <<ledger, catalog, jobs, witness>>
  BY <1>2, AppendProperties DEF Publish, PriceBookTypeOK
<1>3. \A p \in 1..Len(books) : books[p].listed \in SUBSET Row
  BY BookShapes DEF Books
<1> QED
  BY <1>1, <1>2, <1>3 DEF PriceBookTypeOK

\* Rows of a TXT that are ticked off have been sent.
LEMMA TxtsKept ==
  ASSUME PriceBookTypeOK, JobsFit, TxtsSent, [PriceBookNext]_bookVars
  PROVE  TxtsSent'
<1>1. /\ \A q \in Row : witness.sent[q] \in Nat
      /\ \A j \in Job : jobs[j].book \in Nat
      /\ \A k \in Kinds : ledger[k] \in Nat
      /\ "upc_txt" \in Kinds
  BY BookShapes DEF PriceBookTypeOK, Witnesses, Jobs
<1>2. ASSUME \A q \in Row : witness'.sent[q] >= witness.sent[q] /\ witness'.sent[q] \in Nat,
             \A j \in Job : jobs'[j].at = "applying" =>
               \/ jobs'[j] = jobs[j]
               \/ jobs'[j].book \in 1..Len(books) /\
                  \A r \in books[jobs'[j].book].listed \ jobs'[j].todo :
                    witness'.sent[r] >= jobs'[j].book,
             \/ ledger'["upc_txt"] = ledger["upc_txt"]
             \/ ledger'["upc_txt"] \in 1..Len(books) /\
                \A r \in books[ledger'["upc_txt"]].listed :
                  witness'.sent[r] >= ledger'["upc_txt"]
      PROVE  TxtsSent'
  <2>1. ASSUME NEW j \in Job, jobs'[j].at = "applying",
               NEW r \in books'[jobs'[j].book].listed \ jobs'[j].todo
        PROVE  witness'.sent[r] >= jobs'[j].book
    <3>1. CASE jobs'[j] = jobs[j]
      <4>1. r \in books[jobs[j].book].listed \ jobs[j].todo /\ r \in Row
        BY <2>1, <3>1, BooksStay
      <4>2. witness.sent[r] >= jobs[j].book
        BY <2>1, <3>1, <4>1 DEF TxtsSent
      <4> QED
        BY <1>1, <1>2, <3>1, <4>1, <4>2
    <3>2. CASE jobs'[j] # jobs[j]
      BY <1>2, <2>1, <3>2, BooksStay
    <3> QED
      BY <3>1, <3>2
  <2>2. ASSUME ledger'["upc_txt"] # 0, NEW r \in books'[ledger'["upc_txt"]].listed
        PROVE  witness'.sent[r] >= ledger'["upc_txt"]
    <3>1. CASE ledger'["upc_txt"] = ledger["upc_txt"]
      <4>1. r \in books[ledger["upc_txt"]].listed /\ r \in Row
        BY <1>1, <2>2, <3>1, BooksStay
      <4>2. witness.sent[r] >= ledger["upc_txt"]
        BY <2>2, <3>1, <4>1 DEF TxtsSent
      <4> QED
        BY <1>1, <1>2, <3>1, <4>1, <4>2
    <3>2. CASE ledger'["upc_txt"] # ledger["upc_txt"]
      BY <1>2, <2>2, <3>2, BooksStay
    <3> QED
      BY <3>1, <3>2
  <2> QED
    BY <2>1, <2>2 DEF TxtsSent
<1>3. CASE UNCHANGED bookVars \/ Publish
  BY <1>1, <1>2, <1>3, BooksStay DEF bookVars
<1>4. ASSUME NEW j \in Job, FreshStep(j)
      PROVE  TxtsSent'
  <2>1. \/ ledger'["upc_txt"] = ledger["upc_txt"]
        \/ ledger'["upc_txt"] \in 1..Len(books) /\
           \A r \in books[ledger'["upc_txt"]].listed : witness.sent[r] >= ledger'["upc_txt"]
    <3>1. CASE UNCHANGED ledger
      BY <3>1
    <3>2. CASE jobs[j].at = "upserting" /\ ledger' = [ledger EXCEPT
                                               ![books[jobs[j].book].kind] = jobs[j].book]
      BY <3>2, BookShapes DEF JobsFit, Ingesting, PriceBookTypeOK
    <3>3. CASE /\ jobs[j].at = "applying" /\ jobs[j].todo = {}
               /\ ledger' = [ledger EXCEPT ![books[jobs[j].book].kind] = jobs[j].book]
      <4>1. ledger'["upc_txt"] = jobs[j].book /\ jobs[j].book \in 1..Len(books)
        BY <1>1, <3>3, BooksStay DEF JobsFit, PriceBookTypeOK
      <4>2. \A r \in books[jobs[j].book].listed : witness.sent[r] >= jobs[j].book
        BY <3>3 DEF TxtsSent
      <4> QED
        BY <4>1, <4>2
    <3> QED
      BY <1>4, <3>1, <3>2, <3>3 DEF FreshStep, LedgerStep
  <2>2. \A i \in Job : jobs'[i].at = "applying" => jobs'[i] = jobs[i]
    BY <1>4 DEF FreshStep, OthersStay
  <2>3. \A q \in Row : witness'.sent[q] >= witness.sent[q] /\ witness'.sent[q] \in Nat
    BY <1>1, <1>4 DEF FreshStep
  <2>4. witness'.sent = witness.sent
    BY <1>4 DEF FreshStep
  <2> QED
    BY <1>2, <2>1, <2>2, <2>3, <2>4
<1>5. ASSUME NEW j \in Job, ReadExisting(j)
      PROVE  TxtsSent'
  BY <1>1, <1>2, <1>5, ReadStep DEF OthersStay
<1>6. ASSUME NEW j \in Job, NEW p \in 1..Len(books), FetchTxt(j, p)
      PROVE  TxtsSent'
  BY <1>1, <1>2, <1>6, FetchStep DEF OthersStay
<1>7. ASSUME NEW j \in Job, NEW r \in Row, UpsertChunk(j, r)
      PROVE  TxtsSent'
  <2>1. witness'.sent = witness.sent
    BY <1>7, ChunkStep, UpsertWrites
  <2> QED
    BY <1>1, <1>2, <1>7, <2>1, ChunkStep DEF OthersStay
<1>8. ASSUME NEW j \in Job, NEW r \in Row, ApplyChunk(j, r)
      PROVE  TxtsSent'
  <2>1. /\ jobs[j].at = "applying" /\ jobs'[j].book = jobs[j].book
        /\ jobs'[j].todo = jobs[j].todo \ {r}
        /\ witness'.sent[r] >= jobs[j].book
        /\ \A q \in Row : witness'.sent[q] >= witness.sent[q] /\ witness'.sent[q] \in Nat
        /\ UNCHANGED ledger /\ OthersStay(j)
    BY <1>8, ApplyStep
  <2>2. jobs[j].book \in 1..Len(books) /\ books[jobs[j].book].listed \in SUBSET Row
    BY <2>1, BooksStay
  <2>3. \A q \in books[jobs[j].book].listed \ jobs'[j].todo : witness'.sent[q] >= jobs[j].book
    <3>1. \A q \in books[jobs[j].book].listed \ jobs[j].todo : witness.sent[q] >= jobs[j].book
      BY <2>1 DEF TxtsSent
    <3> QED
      BY <1>1, <2>1, <2>2, <3>1
  <2> QED
    BY <1>2, <2>1, <2>2, <2>3 DEF OthersStay
<1>9. ASSUME NEW r \in Row, TouchUpc(r)
      PROVE  TxtsSent'
  BY <1>1, <1>2, <1>9, GivingStep
<1> QED
  BY <1>3, <1>4, <1>5, <1>6, <1>7, <1>8, <1>9, OtherSteps

\* While nothing is in disorder, the book at work is the newest, so that what it writes is
\* no older than what any ledger of a book names.
LEMMA OrderKept ==
  ASSUME PriceBookTypeOK, JobsFit, InOrder, [PriceBookNext]_bookVars
  PROVE  InOrder'
<1>1. /\ witness.begun \in Nat
      /\ \A q \in Row : catalog[q].from \in Nat
      /\ \A j \in Job : jobs[j].book \in Nat
      /\ \A k \in Kinds : ledger[k] \in Nat
      /\ Len(books) \in Nat
  BY BookShapes DEF PriceBookTypeOK, Witnesses, Items, Jobs
<1>2. CASE UNCHANGED bookVars \/ Publish
  <2>1. /\ UNCHANGED <<ledger, catalog, jobs, witness>>
        /\ \A p \in 1..Len(books) : books'[p] = books[p]
    BY <1>2, BooksStay DEF bookVars
  <2>2. \A j \in Job : jobs[j].at = "upserting" => books'[jobs[j].book] = books[jobs[j].book]
    BY <2>1, BooksStay
  <2>3. \A k \in Kinds : ledger[k] # 0 => books'[ledger[k]] = books[ledger[k]]
    BY <2>1, BooksStay
  <2> QED
    BY <2>1, <2>2, <2>3
    DEF InOrder, OneAtATime, NoneNewer, Written, LedgersHold, Ingesting
<1>3. ASSUME NEW j \in Job, FreshStep(j)
      PROVE  InOrder'
  <2> SUFFICES ASSUME ~witness'.disordered
               PROVE  /\ OneAtATime' /\ NoneNewer' /\ LedgersHold'
                      /\ \A i \in Job : jobs'[i].at = "upserting" /\ ~jobs'[i].missed
                                          => Written(i)'
    BY DEF InOrder
  <2>1. ~witness.disordered /\ UNCHANGED <<books, catalog>>
    BY <1>3 DEF FreshStep, BegunStep, Orderly
  <2>2. OneAtATime /\ NoneNewer /\ LedgersHold
    BY <2>1 DEF InOrder
  <2>3. witness'.begun \in Nat /\ witness'.begun >= witness.begun
    <3>1. CASE witness'.begun = witness.begun
      BY <1>1, <3>1
    <3>2. ASSUME NEW p \in 1..Len(books), witness'.begun = IF Orderly(j, p) THEN p ELSE 0,
                 witness'.disordered = ~Orderly(j, p)
          PROVE  witness'.begun \in Nat /\ witness'.begun >= witness.begun
      <4>1. Orderly(j, p)
        BY <3>2
      <4>2. witness'.begun = p /\ p >= witness.begun
        BY <3>2, <4>1 DEF Orderly
      <4> QED
        BY <1>1, <4>2
    <3> QED
      BY <1>3, <3>1, <3>2 DEF FreshStep, BegunStep
  <2>4. OneAtATime'
    <3>1. \A i \in Job : i # j => jobs'[i] = jobs[i]
      BY <1>3 DEF FreshStep, OthersStay
    <3>2. CASE jobs'[j].at # "fetching" /\ witness'.begun = witness.begun
      <4>1. ~Ingesting(j)'
        BY <1>3, <3>2 DEF FreshStep, Ingesting
      <4> QED
        BY <2>2, <3>1, <3>2, <4>1 DEF OneAtATime, Ingesting
    <3>3. CASE \E p \in 1..Len(books) :
                 /\ jobs'[j].at = "fetching" /\ jobs'[j].book = p
                 /\ witness'.begun = IF Orderly(j, p) THEN p ELSE 0
                 /\ witness'.disordered = ~Orderly(j, p)
      <4>1. jobs'[j].book = witness'.begun /\ \A i \in Job \ {j} : ~Ingesting(i)
        BY <3>3 DEF Orderly
      <4> QED
        BY <3>1, <4>1 DEF OneAtATime, Ingesting
    <3> QED
      BY <1>3, <3>2, <3>3 DEF FreshStep, BegunStep
  <2>5. ASSUME NEW k \in Kinds \ {"upc_txt"}, ledger'[k] # ledger[k]
        PROVE  /\ ledger'[k] = witness.begun /\ ledger'[k] \in 1..Len(books)
               /\ \A r \in books[ledger'[k]].listed : catalog[r].from >= ledger'[k]
    <3>1. /\ jobs[j].at = "applying" \/ (jobs[j].at = "upserting" /\ ~jobs[j].missed)
          /\ jobs[j].todo = {} /\ books[jobs[j].book].kind = k
          /\ ledger'[k] = jobs[j].book
      BY <1>3, <2>5 DEF FreshStep, LedgerStep, PriceBookTypeOK
    <3>2. jobs[j].at = "upserting" /\ ~jobs[j].missed
      BY <3>1 DEF JobsFit
    <3>3. jobs[j].book = witness.begun
      BY <2>2, <3>2 DEF OneAtATime, Ingesting
    <3>4. Written(j)
      BY <2>1, <3>2 DEF InOrder
    <3>5. jobs[j].book \in 1..Len(books)
      BY <3>2, BooksStay
    <3> QED
      BY <3>1, <3>3, <3>4, <3>5 DEF Written
  <2>6. NoneNewer'
    <3>1. \A q \in Row : catalog'[q].from <= witness'.begun
      BY <1>1, <2>1, <2>2, <2>3 DEF NoneNewer
    <3>2. ASSUME NEW k \in Kinds \ {"upc_txt"}
          PROVE  ledger'[k] <= witness'.begun
      BY <1>1, <2>2, <2>3, <2>5 DEF NoneNewer
    <3> QED
      BY <3>1, <3>2 DEF NoneNewer
  <2>7. LedgersHold'
    <3>1. ASSUME NEW k \in Kinds \ {"upc_txt"}, ledger'[k] # 0,
                 NEW r \in books'[ledger'[k]].listed
          PROVE  catalog'[r].from >= ledger'[k]
      BY <2>1, <2>2, <2>5, <3>1 DEF LedgersHold
    <3> QED
      BY <3>1 DEF LedgersHold
  <2>8. ASSUME NEW i \in Job, jobs'[i].at = "upserting", ~jobs'[i].missed
        PROVE  Written(i)'
    <3>1. jobs'[i] = jobs[i]
      BY <1>3, <2>8 DEF FreshStep, OthersStay
    <3>2. Written(i)
      BY <2>1, <2>8, <3>1 DEF InOrder
    <3> QED
      BY <2>1, <3>1, <3>2 DEF Written
  <2> QED
    BY <2>4, <2>6, <2>7, <2>8
\* No step but an ingest's writes a row's book.
<1>4. ASSUME NEW j \in Job, OthersStay(j), UNCHANGED <<books, ledger>>, PricesStay,
             \A q \in Row : catalog'[q].from = catalog[q].from,
             Ingesting(j)' => Ingesting(j) /\ jobs'[j].book = jobs[j].book,
             jobs'[j].at = "upserting" /\ ~jobs'[j].missed =>
               \/ jobs'[j] = jobs[j]
               \/ jobs'[j].todo = books[jobs'[j].book].listed
      PROVE  InOrder'
  <2> SUFFICES ASSUME ~witness.disordered
               PROVE  /\ OneAtATime' /\ NoneNewer' /\ LedgersHold'
                      /\ \A i \in Job : jobs'[i].at = "upserting" /\ ~jobs'[i].missed
                                          => Written(i)'
    BY <1>4 DEF InOrder, PricesStay
  <2>1. /\ OneAtATime /\ NoneNewer /\ LedgersHold
        /\ \A i \in Job : jobs[i].at = "upserting" /\ ~jobs[i].missed => Written(i)
    BY DEF InOrder
  <2>2. OneAtATime'
    BY <1>4, <2>1 DEF OneAtATime, Ingesting, OthersStay, PricesStay
  <2>3. NoneNewer'
    BY <1>4, <2>1 DEF NoneNewer, PricesStay
  <2>4. LedgersHold'
    <3>1. \A k \in Kinds, r \in Row : ledger[k] # 0 /\ r \in books[ledger[k]].listed =>
            catalog'[r].from = catalog[r].from
      BY <1>4
    <3>2. \A k \in Kinds : ledger[k] # 0 => books[ledger[k]].listed \in SUBSET Row
      BY BooksStay
    <3> QED
      BY <1>4, <2>1, <3>1, <3>2 DEF LedgersHold
  <2>5. ASSUME NEW i \in Job, jobs'[i].at = "upserting", ~jobs'[i].missed
        PROVE  Written(i)'
    <3>1. CASE jobs'[i] = jobs[i]
      <4>1. Written(i) /\ books[jobs[i].book].listed \in SUBSET Row
        BY <2>1, <2>5, <3>1, BooksStay
      <4> QED
        BY <1>4, <3>1, <4>1 DEF Written
    <3>2. CASE jobs'[i] # jobs[i]
      BY <1>4, <2>5, <3>2 DEF Written, OthersStay
    <3> QED
      BY <3>1, <3>2
  <2> QED
    BY <2>2, <2>3, <2>4, <2>5
<1>5. ASSUME NEW j \in Job, ReadExisting(j)
      PROVE  InOrder'
  BY <1>4, <1>5, ReadStep DEF PricesStay, Ingesting
<1>6. ASSUME NEW j \in Job, NEW p \in 1..Len(books), FetchTxt(j, p)
      PROVE  InOrder'
  BY <1>4, <1>6, FetchStep DEF PricesStay, Ingesting
<1>7. ASSUME NEW j \in Job, NEW r \in Row, ApplyChunk(j, r)
      PROVE  InOrder'
  BY <1>4, <1>7, ApplyStep DEF Ingesting
<1>8. ASSUME NEW r \in Row, TouchUpc(r)
      PROVE  InOrder'
  <2>1. /\ PricesStay /\ UNCHANGED <<books, ledger, jobs>>
        /\ \A q \in Row : catalog'[q].from = catalog[q].from
    BY <1>8, GivingStep
  <2>2. \A k \in Kinds : ledger[k] # 0 => books[ledger[k]].listed \in SUBSET Row
    BY BooksStay
  <2>3. \A i \in Job : jobs[i].at = "upserting" => books[jobs[i].book].listed \in SUBSET Row
    BY BooksStay
  <2> QED
    BY <2>1, <2>2, <2>3
    DEF InOrder, OneAtATime, NoneNewer, LedgersHold, Written, Ingesting, PricesStay
<1>9. ASSUME NEW j \in Job, NEW r \in Row, UpsertChunk(j, r)
      PROVE  InOrder'
  <2>1. /\ OthersStay(j) /\ UNCHANGED <<books, ledger>>
        /\ jobs[j].at = "upserting" /\ r \in jobs[j].todo
        /\ jobs'[j].at = "upserting" /\ jobs'[j].book = jobs[j].book
    BY <1>9, ChunkStep
  <2>2. CASE UNCHANGED <<catalog, witness>>
    <3>1. jobs'[j] = jobs[j] \/ jobs'[j].missed \/ UpsertItem(j, r)
      BY <1>9, ChunkStep
    <3>2. CASE UpsertItem(j, r)
      <4>1. catalog[r].from = jobs[j].book
        BY <2>1, <2>2, <3>2, UpsertWrites
      <4> QED
        BY <4>1, <2>1, <2>2, <1>9, ChunkStep, BooksStay
        DEF InOrder, OneAtATime, NoneNewer, LedgersHold, Written, Ingesting, OthersStay
    <3>3. CASE jobs'[j] = jobs[j] \/ jobs'[j].missed
      BY <1>4, <2>1, <2>2, <3>3 DEF PricesStay, Ingesting
    <3> QED
      BY <3>1, <3>2, <3>3
  <2>3. CASE UpsertItem(j, r)
    <3> SUFFICES ASSUME ~witness.disordered
                 PROVE  /\ OneAtATime' /\ NoneNewer' /\ LedgersHold'
                        /\ \A i \in Job : jobs'[i].at = "upserting" /\ ~jobs'[i].missed
                                            => Written(i)'
      BY <2>1, <2>3, UpsertWrites DEF InOrder
    <3>1. /\ OneAtATime /\ NoneNewer /\ LedgersHold
          /\ \A i \in Job : jobs[i].at = "upserting" /\ ~jobs[i].missed => Written(i)
      BY DEF InOrder
    <3>2. /\ witness'.begun = witness.begun /\ jobs[j].book = witness.begun
          /\ catalog'[r].from = witness.begun
          /\ \A q \in Row : q # r => catalog'[q] = catalog[q]
      BY <2>1, <2>3, <3>1, UpsertWrites DEF OneAtATime, Ingesting
    <3>3. \A q \in Row : /\ catalog'[q].from \in Nat /\ catalog'[q].from <= witness.begun
                         /\ catalog'[q].from >= catalog[q].from
      BY <1>1, <3>1, <3>2 DEF NoneNewer
    <3>4. OneAtATime'
      BY <2>1, <3>1, <3>2 DEF OneAtATime, Ingesting, OthersStay
    <3>5. NoneNewer'
      BY <2>1, <3>1, <3>2, <3>3 DEF NoneNewer
    <3>6. LedgersHold'
      <4>1. ASSUME NEW k \in Kinds \ {"upc_txt"}, ledger[k] # 0,
                   NEW q \in books[ledger[k]].listed
            PROVE  catalog'[q].from >= ledger[k]
        <5>1. q \in Row /\ catalog[q].from >= ledger[k]
          BY <3>1, <4>1, BooksStay DEF LedgersHold
        <5> QED
          BY <1>1, <3>3, <5>1
      <4> QED
        BY <2>1, <4>1 DEF LedgersHold
    <3>7. ASSUME NEW i \in Job, jobs'[i].at = "upserting", ~jobs'[i].missed
          PROVE  Written(i)'
      <4>1. i = j
        BY <2>1, <3>4, <3>7 DEF OneAtATime, Ingesting
      <4>2. \A q \in books[jobs[j].book].listed \ jobs[j].todo :
              q \in Row /\ catalog'[q].from >= jobs[j].book
        <5>1. ~jobs[j].missed
          BY <1>9, <3>7, <4>1, ChunkStep
        <5>2. Written(j) /\ books[jobs[j].book].listed \in SUBSET Row
          BY <2>1, <3>1, <5>1, BooksStay
        <5> QED
          BY <1>1, <3>2, <3>3, <5>2 DEF Written
      <4>3. jobs'[j].todo = jobs[j].todo \/ jobs'[j].todo = jobs[j].todo \ {r}
        BY <1>9, ChunkStep
      <4>4. catalog'[r].from >= jobs[j].book
        BY <1>1, <3>2
      <4> QED
        BY <2>1, <4>1, <4>2, <4>3, <4>4 DEF Written
    <3> QED
      BY <3>4, <3>5, <3>6, <3>7
  <2> QED
    BY <1>9, <2>2, <2>3, ChunkStep
<1> QED
  BY <1>2, <1>3, <1>5, <1>6, <1>7, <1>8, <1>9, OtherSteps

-----------------------------------------------------------------------------
(* What the price book promises *)

\* Before anything is published no job has anything in hand and no ledger names a book.
LEMMA BookInitially == PriceBookInit => BookInv
<1> SUFFICES ASSUME PriceBookInit PROVE BookInv
  OBVIOUS
<1>1. PriceBookTypeOK
  BY BookInitType
<1>2. /\ \A j \in Job : jobs[j].at = "idle" /\ \A r \in Row : jobs[j].seen[r] = Absent
      /\ \A k \in Kinds : ledger[k] = 0
      /\ "upc_txt" \in Kinds
  BY DEF PriceBookInit, NoJob, Kinds
<1>3. /\ witness.begun = 0
      /\ \A r \in Row : /\ witness.former[r] = {catalog[r].price} \ {NoPrice}
                        /\ witness.given[r] = catalog[r].upc
  BY DEF PriceBookInit
<1>4. \A r \in Row : Remembered(witness.former[r], catalog[r]) /\ catalog[r].from = 0
  <2> SUFFICES ASSUME NEW r \in Row
               PROVE  Remembered(witness.former[r], catalog[r]) /\ catalog[r].from = 0
    OBVIOUS
  <2>1. PICK here \in SUBSET Row, upc \in {"none", "scan"}, price \in Price :
          catalog = [q \in Row |-> IF q \in here
                                  THEN [Absent EXCEPT !.here = TRUE, !.price = price,
                                                      !.upc = upc]
                                  ELSE Absent]
    BY DEF PriceBookInit
  <2>2. /\ catalog[r].here => catalog[r].price = price
        /\ catalog[r].was = NoPrice /\ catalog[r].from = 0
    BY <2>1 DEF Absent
  <2> QED
    BY <1>3, <2>2, PriceBookAssumption DEF Remembered
<1>5. PricesRemembered
  <2>1. \A former : Remembered(former, Absent)
    BY DEF Remembered, Absent
  <2> QED
    BY <1>2, <1>4, <2>1 DEF PricesRemembered
<1>6. JobsFit /\ UpcsKnown /\ TxtsSent
  BY <1>2, <1>3 DEF JobsFit, Ingesting, UpcsKnown, UpcsSurvive, TxtsSent
<1>7. InOrder
  <2>1. \A j \in Job : ~Ingesting(j)
    BY <1>2 DEF Ingesting
  <2>2. \A j \in Job : jobs[j].at # "upserting"
    BY <1>2
  <2> QED
    BY <1>2, <1>3, <1>4, <2>1, <2>2 DEF InOrder, OneAtATime, NoneNewer, LedgersHold
<1> QED
  BY <1>1, <1>5, <1>6, <1>7 DEF BookInv

\* The strengthened invariant: what each ingest has read and is still to write, what each
\* TXT has sent, and the order in which books are begun.
THEOREM BookSound == PriceBookSpec => []BookInv
<1>1. PriceBookInit => BookInv
  BY BookInitially
<1>2. BookInv /\ [PriceBookNext]_bookVars => BookInv'
  BY BookTypeKept, PricesKept, UpcsKept, TxtsKept, OrderKept DEF BookInv
<1> QED
  BY <1>1, <1>2, PTL DEF PriceBookSpec

\* The catalog, the jobs and the ledgers stay well-formed (mlcc-price-book-ingestor.js): a
\* ledger names a publication of its kind, and a job a publication that there is.
THEOREM PriceBookTypeCorrect == PriceBookSpec => []PriceBookTypeOK
<1>1. BookInv => PriceBookTypeOK
  BY DEF BookInv
<1> QED
  BY <1>1, BookSound, PTL

\* What a check passes over as already ingested is in the catalog, but for books begun out
\* of order or beside another (getLastCompletedIngestUrl, complete_with_errors), for any
\* number of ticks, requests, failing chunks and machines that stop.
THEOREM SkipsStaySound == PriceBookSpec => []SkipsAreSound
<1>1. BookInv => SkipsAreSound
  <2> SUFFICES ASSUME BookInv, NEW k \in Kinds, ledger[k] # 0,
                      NEW r \in books[ledger[k]].listed
               PROVE  IF k = "upc_txt" THEN witness.sent[r] >= ledger[k]
                      ELSE catalog[r].from >= ledger[k] \/ witness.disordered
    BY DEF SkipsAreSound, Skipped
  <2>1. CASE k = "upc_txt"
    BY <2>1 DEF BookInv, TxtsSent
  <2>2. CASE k # "upc_txt"
    BY <2>2 DEF BookInv, InOrder, LedgersHold
  <2> QED
    BY <2>1, <2>2
<1> QED
  BY <1>1, BookSound, PTL

\* No ingest takes away the UPC a TXT or a scan gave a row, or brings back one that was
\* flagged, unless it was given while an ingest had the row in hand (existing.upc of
\* upsertItems), however many ingests there are.
THEOREM UpcsStay == PriceBookSpec => []UpcsSurvive
<1>1. BookInv => UpcsSurvive
  BY DEF BookInv, UpcsKnown
<1> QED
  BY <1>1, BookSound, PTL

\* The previous price is a real former price of the row and never its current one
\* (nextPreviousLicenseePrice), for any prices, any ingests that overlap and any chunks
\* that are written twice.
THEOREM PricesAreFormer == PriceBookSpec => []PriceMemory
<1>1. BookInv => PriceMemory
  <2> SUFFICES ASSUME BookInv, NEW r \in Row, catalog[r].was # NoPrice
               PROVE  catalog[r].was \in witness.former[r]
                      /\ catalog[r].was # catalog[r].price
    BY DEF PriceMemory
  <2> QED
    BY DEF BookInv, PricesRemembered, Remembered
<1> QED
  BY <1>1, BookSound, PTL

-----------------------------------------------------------------------------
(* Barcodes: the invariant *)

\* An item has one barcode or none.
OneUpc == \A m \in Sku : itemUpc[m] = {} \/ \E b \in Barcode : itemUpc[m] = {b}

\* Audits, flags and what follows a scan speak of barcodes in their canonical form; what is
\* about to be written is a mapping.
CanonicalPoints ==
  {"item", "local", "external", "clearing", "counting", "flagging", "deleting"}
WritePoints == {"upsert", "update", "insert", "marking", "importing"}
TaskFits(task, b) ==
  /\ task.at \in CanonicalPoints => Canonical[b] = b
  /\ task.at \in WritePoints => task.code \in Sku /\ task.source # "none"
  /\ task.at = "marking" => task.source = "operator_review"

\* A task that has met no other is the only one of its barcode: between an operator's
\* mapping and its mark nothing else is written, and no item has the barcode of a flag that
\* has cleared them.
ClearedPoints == {"counting", "flagging", "deleting"}
Knows(t, b) ==
  /\ tasks[t].at = "marking" => /\ mappings[b].code = tasks[t].code
                                /\ mappings[b].source = tasks[t].source
  /\ tasks[t].at \in ClearedPoints => Carriers(b) = {}
AloneFits(b) == \A t \in Of(b) : tasks[t].alone => Of(b) = {t} /\ Knows(t, b)

\* What is under way for a barcode with a choice writes neither its mapping nor whom its
\* review was resolved to.
HarmlessPoints == {"item", "matching", "queueing", "skipping"}
Honoured(b) ==
  promised[b].kind = "chosen" =>
    /\ promised[b].code \in Sku
    /\ mappings[b].code = promised[b].code /\ mappings[b].source = promised[b].source
    /\ promised[b].source = "operator_review" => reviews[b].to = promised[b].code
ChoiceFits(b) ==
  /\ Honoured(b)
  /\ promised[b].kind = "chosen" => \A t \in Of(b) : tasks[t].at \in HarmlessPoints

\* Nothing is under way for a barcode that a flag has cleared.
Forgotten(b) ==
  promised[b].kind = "cleared" => Canonical[b] = b /\ ~Mapped(b) /\ Carriers(b) = {}
FlagFits(b) == Forgotten(b) /\ (promised[b].kind = "cleared" => Of(b) = {})

BarcodeFits(b) ==
  /\ audits[b] # "none" => Canonical[b] = b
  /\ \A t \in Of(b) : TaskFits(tasks[t], b)
  /\ AloneFits(b)
  /\ ChoiceFits(b)
  /\ FlagFits(b)

UpcInv == UpcTypeOK /\ OneUpc /\ \A b \in Barcode : BarcodeFits(b)

-----------------------------------------------------------------------------
(* What a step leaves alone *)

\* A step is about one barcode; what it does to another is at most to take it from an item
\* that gets the one.
OthersOfUpc(c) ==
  \A s \in Slot :
    \/ tasks'[s] = tasks[s]
    \/ /\ tasks[s].at = "idle" \/ tasks[s].upc = c
       /\ tasks'[s].at = "idle" \/ tasks'[s].upc = c

DataElsewhere(c) ==
  \A b \in Barcode \ {c} :
    /\ mappings'[b] = mappings[b] /\ reviews'[b] = reviews[b]
    /\ promised'[b] = promised[b]
    /\ Carriers(b)' \subseteq Carriers(b)

AuditsFit == \A b \in Barcode : audits[b] # "none" => Canonical[b] = b

LEMMA OthersFit ==
  ASSUME UpcInv, NEW c \in Barcode, OthersOfUpc(c), DataElsewhere(c), AuditsFit',
         NEW b \in Barcode \ {c}
  PROVE  BarcodeFits(b)'
<1>1. Of(b)' = Of(b) /\ \A s \in Of(b) : tasks'[s] = tasks[s]
  BY DEF OthersOfUpc, Of
<1>2. BarcodeFits(b)
  BY DEF UpcInv
<1>3. /\ mappings'[b] = mappings[b] /\ reviews'[b] = reviews[b]
      /\ promised'[b] = promised[b]
      /\ Carriers(b)' \subseteq Carriers(b)
  BY DEF DataElsewhere
<1>4. \A t \in Of(b) : TaskFits(tasks'[t], b)
  BY <1>1, <1>2 DEF BarcodeFits
<1>5. AloneFits(b)'
  BY <1>1, <1>2, <1>3 DEF BarcodeFits, AloneFits, Knows
<1>6. ChoiceFits(b)'
  BY <1>1, <1>2, <1>3 DEF BarcodeFits, ChoiceFits, Honoured
<1>7. FlagFits(b)'
  BY <1>1, <1>2, <1>3 DEF BarcodeFits, FlagFits, Forgotten, Mapped
<1> QED
  BY <1>1, <1>4, <1>5, <1>6, <1>7 DEF BarcodeFits, AuditsFit

\* A task of a barcode takes a step.
TaskMoves(t) ==
  /\ tasks[t].at # "idle"
  /\ \A s \in Slot \ {t} : tasks'[s] = tasks[s]
  /\ \/ tasks'[t].at = "idle"
     \/ tasks'[t].upc = tasks[t].upc /\ tasks'[t].alone = tasks[t].alone

\* Whoever else is under way for the barcode is not alone, so that only what the task itself
\* knows, and what is promised, is to be looked at.
LEMMA MoveFits ==
  ASSUME UpcInv, NEW t \in Slot, TaskMoves(t), NEW c \in Barcode, tasks[t].upc = c,
         DataElsewhere(c), AuditsFit',
         tasks'[t].at # "idle" =>
           /\ TaskFits(tasks'[t], c)
           /\ tasks[t].alone => Knows(t, c)'
           /\ promised'[c].kind = "chosen" => tasks'[t].at \in HarmlessPoints,
         Honoured(c)', Forgotten(c)',
         promised'[c].kind = "chosen" => promised[c].kind = "chosen" \/ tasks[t].alone,
         promised'[c].kind = "cleared" =>
           promised[c].kind = "cleared" \/ (tasks[t].alone /\ tasks'[t].at = "idle")
  PROVE  \A b \in Barcode : BarcodeFits(b)'
<1>1. OthersOfUpc(c)
  BY DEF TaskMoves, OthersOfUpc
<1>2. ASSUME NEW b \in Barcode \ {c}
      PROVE  BarcodeFits(b)'
  BY <1>1, <1>2, OthersFit
<1>3. BarcodeFits(c) /\ t \in Of(c)
  BY DEF UpcInv, TaskMoves, Of
<1>4. /\ Of(c)' \subseteq Of(c)
      /\ t \in Of(c)' <=> tasks'[t].at # "idle"
      /\ \A s \in Of(c)' : s # t => tasks'[s] = tasks[s] /\ ~tasks[s].alone
      /\ tasks[t].alone => Of(c)' \subseteq {t}
  <2>1. /\ Of(c)' \subseteq Of(c)
        /\ t \in Of(c)' <=> tasks'[t].at # "idle"
        /\ \A s \in Of(c)' : s # t => tasks'[s] = tasks[s]
    BY <1>3 DEF TaskMoves, Of
  <2>2. \A s \in Of(c) : tasks[s].alone => Of(c) = {s}
    BY <1>3 DEF BarcodeFits, AloneFits
  <2> QED
    BY <1>3, <2>1, <2>2
<1>5. \A s \in Of(c)' : TaskFits(tasks'[s], c)
  BY <1>3, <1>4 DEF BarcodeFits
<1>6. AloneFits(c)'
  <2> SUFFICES ASSUME NEW s \in Of(c)', tasks'[s].alone
               PROVE  Of(c)' = {s} /\ Knows(s, c)'
    BY DEF AloneFits
  <2>1. s = t
    BY <1>4
  <2> QED
    BY <1>4, <2>1 DEF TaskMoves
<1>7. ChoiceFits(c)'
  BY <1>3, <1>4 DEF BarcodeFits, ChoiceFits
<1>8. FlagFits(c)'
  BY <1>3, <1>4 DEF BarcodeFits, FlagFits
<1>9. BarcodeFits(c)'
  BY <1>5, <1>6, <1>7, <1>8 DEF BarcodeFits, AuditsFit
<1> QED
  BY <1>2, <1>9

-----------------------------------------------------------------------------
(* Tasks that begin *)

\* The shapes of the variables' parts.
LEMMA UpcShapes ==
  ASSUME UpcTypeOK
  PROVE  /\ \A b \in Barcode : mappings[b] \in Mappings /\ reviews[b] \in Reviews
                               /\ promised[b] \in Promises
         /\ \A t \in Slot : tasks[t] \in Tasks /\ tasks[t].upc \in Barcode
         /\ IdleTask \in Tasks /\ IdleTask.at = "idle"
         /\ NoPromise \in Promises /\ NoPromise.kind = "nothing"
         /\ NoSku \notin Sku
<1>1. (CHOOSE b \in Barcode : TRUE) \in Barcode
  BY UpcMappingsAssumption
<1>2. IdleTask \in Tasks /\ IdleTask.at = "idle"
  BY <1>1 DEF IdleTask, Task, Tasks, TaskPoints, Sources
<1> QED
  BY <1>2, UpcMappingsAssumption DEF UpcTypeOK, Tasks, NoPromise, Promises, Sources

\* A task that meets another is no longer alone, and else the same.
Crowded(task, alone) == [task EXCEPT !.alone = alone]

LEMMA CrowdedSame ==
  ASSUME NEW task \in Tasks, NEW alone \in BOOLEAN
  PROVE  /\ Crowded(task, alone) \in Tasks
         /\ Crowded(task, alone).at = task.at /\ Crowded(task, alone).upc = task.upc
         /\ Crowded(task, alone).code = task.code
         /\ Crowded(task, alone).source = task.source
         /\ Crowded(task, alone).alone = alone
  BY DEF Crowded, Tasks

\* What a request leaves of the promise of its barcode.
LEMMA PromisesLeft ==
  ASSUME UpcTypeOK, NEW c \in Barcode, promised' \in {Keeps(c), Forgets(c)}
  PROVE  /\ promised' \in [Barcode -> Promises]
         /\ \A b \in Barcode \ {c} : promised'[b] = promised[b]
         /\ promised'[c] = promised[c] \/ promised'[c].kind = "nothing"
         /\ promised'[c].kind # "cleared"
  BY UpcShapes DEF UpcTypeOK, Keeps, Forgets

\* Where tasks of a barcode meet, nothing that one of them has found out is relied upon, and
\* no flag's promise is left.
LEMMA MeetingFits ==
  ASSUME UpcInv, NEW c \in Barcode, OthersOfUpc(c), UNCHANGED <<mappings, reviews>>,
         \A b \in Barcode \ {c} : Carriers(b)' \subseteq Carriers(b),
         promised' \in {Keeps(c), Forgets(c)}, AuditsFit',
         \A s \in Of(c)' :
           /\ TaskFits(tasks'[s], c)
           /\ tasks'[s].alone => /\ Of(c)' = {s}
                                 /\ tasks'[s].at \notin ClearedPoints \cup {"marking"}
           /\ promised'[c].kind = "chosen" => tasks'[s].at \in HarmlessPoints
  PROVE  \A b \in Barcode : BarcodeFits(b)'
<1>1. /\ \A b \in Barcode \ {c} : promised'[b] = promised[b]
      /\ promised'[c] = promised[c] \/ promised'[c].kind = "nothing"
      /\ promised'[c].kind # "cleared"
  BY PromisesLeft DEF UpcInv
<1>2. ASSUME NEW b \in Barcode \ {c}
      PROVE  BarcodeFits(b)'
  BY <1>1, <1>2, OthersFit DEF DataElsewhere
<1>3. Honoured(c)
  BY DEF UpcInv, BarcodeFits, ChoiceFits
<1>4. AloneFits(c)'
  BY DEF AloneFits, Knows
<1>5. ChoiceFits(c)'
  BY <1>1, <1>3 DEF ChoiceFits, Honoured
<1>6. FlagFits(c)'
  BY <1>1 DEF FlagFits, Forgotten
<1>7. BarcodeFits(c)'
  BY <1>4, <1>5, <1>6 DEF BarcodeFits, AuditsFit
<1> QED
  BY <1>2, <1>7

\* A request that comes: a task of a barcode begins.
LEMMA ArrivalFits ==
  ASSUME UpcInv, NEW t \in Slot, NEW task \in Tasks, NEW c \in Barcode, task.upc = c,
         Arrives(t, task, promised'), promised' \in {Keeps(c), Forgets(c)},
         task.at \notin ClearedPoints \cup {"marking", "idle"}, TaskFits(task, c),
         promised'[c].kind = "chosen" => task.at \in HarmlessPoints,
         UNCHANGED <<mappings, itemUpc, audits, reviews>>
  PROVE  UpcInv'
<1>1. UpcTypeOK /\ OneUpc /\ BarcodeFits(c) /\ AuditsFit
  BY DEF UpcInv, BarcodeFits, AuditsFit
<1>2. tasks[t].at = "idle" /\ arrived' \in 0..MaxArrived
  BY <1>1, UpcMappingsAssumption DEF Arrives, At, UpcTypeOK
<1>3. tasks' = [s \in Slot |-> IF s = t THEN Crowded(task, Of(c) = {})
                              ELSE IF s \in Of(c) THEN Crowded(tasks[s], FALSE)
                              ELSE tasks[s]]
  BY DEF Arrives, Begins, Crowded
<1>4. \A s \in Slot : tasks[s] \in Tasks
  BY <1>1, UpcShapes
<1>5. tasks' \in [Slot -> Tasks]
  BY <1>3, <1>4, CrowdedSame
<1>6. /\ tasks'[t].at = task.at /\ tasks'[t].upc = c
      /\ tasks'[t].code = task.code /\ tasks'[t].source = task.source
      /\ tasks'[t].alone <=> Of(c) = {}
  BY <1>3, CrowdedSame
<1>7. \A s \in Of(c) \ {t} :
        /\ tasks'[s].at = tasks[s].at /\ tasks'[s].upc = c
        /\ tasks'[s].code = tasks[s].code /\ tasks'[s].source = tasks[s].source
        /\ ~tasks'[s].alone
  BY <1>3, <1>4, CrowdedSame DEF Of
<1>8. \A s \in Slot \ {t} : s \notin Of(c) => tasks'[s] = tasks[s]
  BY <1>3
<1>9. t \notin Of(c) /\ Of(c)' = Of(c) \cup {t}
  BY <1>2, <1>6, <1>7, <1>8 DEF Of
<1>10. OthersOfUpc(c)
  BY <1>2, <1>6, <1>7, <1>8 DEF OthersOfUpc, Of
<1>11. \A b \in Barcode \ {c} : Carriers(b)' \subseteq Carriers(b)
  BY DEF Carriers
<1>12. ASSUME NEW s \in Of(c)'
       PROVE  /\ TaskFits(tasks'[s], c)
              /\ tasks'[s].alone => /\ Of(c)' = {s}
                                    /\ tasks'[s].at \notin ClearedPoints \cup {"marking"}
              /\ promised'[c].kind = "chosen" => tasks'[s].at \in HarmlessPoints
  <2>1. CASE s = t
    BY <1>6, <1>9, <2>1 DEF TaskFits
  <2>2. CASE s # t
    <3>1. s \in Of(c) \ {t}
      BY <1>9, <2>2
    <3>2. TaskFits(tasks[s], c)
      BY <1>1, <3>1 DEF BarcodeFits
    <3>3. promised'[c].kind = "chosen" => promised[c].kind = "chosen"
      BY <1>1, PromisesLeft
    <3> QED
      BY <1>1, <1>7, <3>1, <3>2, <3>3 DEF TaskFits, BarcodeFits, ChoiceFits
  <2> QED
    BY <2>1, <2>2
<1>13. \A b \in Barcode : BarcodeFits(b)'
  BY <1>1, <1>10, <1>11, <1>12, MeetingFits DEF AuditsFit
<1>14. UpcTypeOK' /\ OneUpc'
  BY <1>1, <1>2, <1>5, PromisesLeft DEF UpcTypeOK, OneUpc, Mapped
<1> QED
  BY <1>13, <1>14 DEF UpcInv

\* What a task begins with.
LEMMA TaskBegins ==
  ASSUME NEW point \in TaskPoints, NEW b \in Barcode
  PROVE  /\ Task(point, b) \in Tasks
         /\ Task(point, b).at = point /\ Task(point, b).upc = b
  BY DEF Task, Tasks, Sources

\* A task that is to write a mapping.
Writing(point, b, m, source) == [Task(point, b) EXCEPT !.code = m, !.source = source]

LEMMA WritingBegins ==
  ASSUME NEW point \in TaskPoints, NEW b \in Barcode, NEW m \in Sku, NEW source \in Sources
  PROVE  /\ Writing(point, b, m, source) \in Tasks
         /\ Writing(point, b, m, source).at = point /\ Writing(point, b, m, source).upc = b
         /\ Writing(point, b, m, source).code = m
         /\ Writing(point, b, m, source).source = source
<1> DEFINE task == Task(point, b)
<1>1. task \in Tasks /\ task.at = point /\ task.upc = b
  BY TaskBegins
<1>2. Writing(point, b, m, source) = [task EXCEPT !.code = m, !.source = source]
  BY DEF Writing
<1> HIDE DEF task
<1>3. [task EXCEPT !.code = m, !.source = source] \in Tasks
  BY <1>1 DEF Tasks
<1> QED
  BY <1>1, <1>2, <1>3 DEF Tasks

\* What is chosen is mapped.
LEMMA ChosenIsMapped ==
  ASSUME UpcInv, NEW b \in Barcode, promised[b].kind = "chosen"
  PROVE  Mapped(b)
  BY UpcShapes DEF UpcInv, BarcodeFits, ChoiceFits, Honoured, Mapped

LEMMA KeptOrForgotten ==
  ASSUME UpcTypeOK, NEW c \in Barcode
  PROVE  /\ Keeps(c)[c].kind = "chosen" => promised[c].kind = "chosen"
         /\ Forgets(c)[c].kind # "chosen"
  BY UpcShapes DEF UpcTypeOK, Keeps, Forgets

\* A request that comes leaves the invariant as it is.
LEMMA RequestFits ==
  ASSUME UpcInv, NEW t \in Slot, NEW b \in Barcode, Request(t, b)
  PROVE  UpcInv'
<1>1. /\ UpcTypeOK /\ Canonical[b] \in Barcode /\ Canonical[Canonical[b]] = Canonical[b]
      /\ \A m \in Sku : m # NoSku
  BY UpcMappingsAssumption DEF UpcInv
<1>2. CASE Scan(t, b)
  <2> DEFINE k == Canonical[b]
  <2>1. UNCHANGED <<mappings, itemUpc, audits, reviews>>
    BY <1>2 DEF Scan
  <2>2. CASE Mapped(k) /\ Arrives(t, Task("item", k), Keeps(k))
    <3>1. Task("item", k) \in Tasks /\ Task("item", k).at = "item" /\ Task("item", k).upc = k
      BY <1>1, TaskBegins DEF TaskPoints
    <3>2. promised' = Keeps(k) /\ Arrives(t, Task("item", k), promised')
      BY <2>2 DEF Arrives
    <3>3. TaskFits(Task("item", k), k)
      BY <1>1, <3>1 DEF TaskFits, WritePoints
    <3> HIDE DEF k
    <3> QED
      BY <1>1, <2>1, <3>1, <3>2, <3>3, ArrivalFits
      DEF ClearedPoints, HarmlessPoints, k
  <2>3. CASE Arrives(t, Task("local", k), IF Mapped(k) THEN Forgets(k) ELSE Keeps(k))
    <3>1. /\ Task("local", k) \in Tasks
          /\ Task("local", k).at = "local" /\ Task("local", k).upc = k
      BY <1>1, TaskBegins DEF TaskPoints
    <3>2. /\ promised' \in {Keeps(k), Forgets(k)} /\ Arrives(t, Task("local", k), promised')
          /\ Mapped(k) => promised' = Forgets(k)
      BY <2>3 DEF Arrives
    <3>3. TaskFits(Task("local", k), k)
      BY <1>1, <3>1 DEF TaskFits, WritePoints
    <3>4. promised'[k].kind # "chosen"
      BY <1>1, <3>2, ChosenIsMapped, KeptOrForgotten
    <3> HIDE DEF k
    <3> QED
      BY <1>1, <2>1, <3>1, <3>2, <3>3, <3>4, ArrivalFits DEF ClearedPoints, k
  <2> QED
    BY <1>2, <2>2, <2>3 DEF Scan
<1>3. CASE Flag(t, b)
  <2>1. /\ Task("clearing", b) \in Tasks
        /\ Task("clearing", b).at = "clearing" /\ Task("clearing", b).upc = b
    BY TaskBegins DEF TaskPoints
  <2>2. /\ promised' = Forgets(b) /\ Arrives(t, Task("clearing", b), promised')
        /\ UNCHANGED <<mappings, itemUpc, audits, reviews>>
    BY <1>3 DEF Flag, Arrives
  <2>3. TaskFits(Task("clearing", b), b)
    BY <1>3, <2>1 DEF TaskFits, WritePoints, Flag, UpcInv, BarcodeFits
  <2> QED
    BY <1>1, <2>1, <2>2, <2>3, KeptOrForgotten, ArrivalFits DEF ClearedPoints
<1>4. CASE SkipReview(t, b)
  <2>1. /\ Task("skipping", b) \in Tasks
        /\ Task("skipping", b).at = "skipping" /\ Task("skipping", b).upc = b
    BY TaskBegins DEF TaskPoints
  <2>2. /\ promised' = Keeps(b) /\ Arrives(t, Task("skipping", b), promised')
        /\ UNCHANGED <<mappings, itemUpc, audits, reviews>>
    BY <1>4 DEF SkipReview, Arrives
  <2>3. TaskFits(Task("skipping", b), b)
    BY <2>1 DEF TaskFits, WritePoints, CanonicalPoints
  <2> QED
    BY <2>1, <2>2, <2>3, ArrivalFits DEF ClearedPoints, HarmlessPoints
<1>5. ASSUME NEW m \in Sku, NEW point \in {"upsert", "importing"}, NEW source \in Sources,
             source # "none",
             Arrives(t, Writing(point, b, m, source), promised'),
             promised' \in {Keeps(b), Forgets(b)}, promised'[b].kind # "chosen",
             UNCHANGED <<mappings, itemUpc, audits, reviews>>
      PROVE  UpcInv'
  <2> DEFINE task == Writing(point, b, m, source)
  <2>1. /\ task \in Tasks /\ task.at = point /\ task.upc = b
        /\ task.code = m /\ task.source = source
    BY WritingBegins DEF TaskPoints
  <2> HIDE DEF task
  <2>2. TaskFits(task, b)
    BY <1>5, <2>1 DEF TaskFits, CanonicalPoints
  <2> QED
    BY <1>5, <2>1, <2>2, ArrivalFits DEF ClearedPoints, task
<1>6. CASE ImportRow(t, b)
  <2>1. UNCHANGED <<mappings, itemUpc, audits, reviews>>
    BY <1>6 DEF ImportRow
  <2>2. CASE Arrives(t, Task("matching", b), Keeps(b))
    <3>1. /\ Task("matching", b) \in Tasks
          /\ Task("matching", b).at = "matching" /\ Task("matching", b).upc = b
      BY TaskBegins DEF TaskPoints
    <3>2. promised' = Keeps(b) /\ Arrives(t, Task("matching", b), promised')
      BY <2>2 DEF Arrives
    <3>3. TaskFits(Task("matching", b), b)
      BY <3>1 DEF TaskFits, WritePoints, CanonicalPoints
    <3> QED
      BY <2>1, <3>1, <3>2, <3>3, ArrivalFits DEF ClearedPoints, HarmlessPoints
  <2>3. ASSUME NEW m \in Sku, New(b), Arrives(t, Import(b, m), Keeps(b))
        PROVE  UpcInv'
    <3>1. /\ Arrives(t, Writing("importing", b, m, "nrs_import"), promised')
          /\ promised' = Keeps(b)
      BY <2>3 DEF Arrives, Import, Writing
    <3>2. promised'[b].kind # "chosen"
      BY <1>1, <2>3, <3>1, ChosenIsMapped, KeptOrForgotten DEF New
    <3> QED
      BY <1>5, <2>1, <3>1, <3>2 DEF Sources
  <2> QED
    BY <1>6, <2>2, <2>3 DEF ImportRow, Carriers
<1>7. ASSUME NEW m \in Sku, Confirm(t, b, m) \/ Resolve(t, b, m)
      PROVE  UpcInv'
  <2>1. PICK source \in {"user_confirmed", "operator_review"} :
          Arrives(t, Writing("upsert", b, m, source), promised')
    BY <1>7 DEF Confirm, Resolve, Arrives, Upsert, Writing
  <2>2. promised' = Forgets(b) /\ UNCHANGED <<mappings, itemUpc, audits, reviews>>
    BY <1>7 DEF Confirm, Resolve, Arrives
  <2> QED
    BY <1>1, <1>5, <2>1, <2>2, KeptOrForgotten DEF Sources
<1> QED
  BY <1>2, <1>3, <1>4, <1>6, <1>7 DEF Request

-----------------------------------------------------------------------------
(* Tasks that go on *)

\* While a task is under way its barcode has no flag's promise, and no choice either unless
\* the task is harmless.
LEMMA BusyPromises ==
  ASSUME UpcInv, NEW t \in Slot, ~At(t, "idle"), NEW c \in Barcode, tasks[t].upc = c
  PROVE  /\ promised[c].kind # "cleared"
         /\ promised[c].kind = "chosen" => tasks[t].at \in HarmlessPoints
         /\ TaskFits(tasks[t], c) /\ AloneFits(c) /\ t \in Of(c)
         /\ Honoured(c) /\ AuditsFit
<1>1. t \in Of(c)
  BY DEF At, Of
<1> QED
  BY <1>1 DEF UpcInv, BarcodeFits, ChoiceFits, FlagFits, AuditsFit

\* A task is over.
LEMMA EndingFits ==
  ASSUME UpcInv, NEW t \in Slot, ~At(t, "idle"), NEW c \in Barcode, tasks[t].upc = c,
         Ends(t), DataElsewhere(c), AuditsFit', Honoured(c)', Forgotten(c)',
         promised'[c].kind \in {"chosen", "cleared"} =>
           promised'[c].kind = promised[c].kind \/ tasks[t].alone
  PROVE  tasks' \in [Slot -> Tasks] /\ \A b \in Barcode : BarcodeFits(b)'
<1>1. UpcTypeOK
  BY DEF UpcInv
<1>2. /\ tasks' \in [Slot -> Tasks] /\ tasks'[t].at = "idle"
      /\ \A s \in Slot \ {t} : tasks'[s] = tasks[s]
  BY <1>1, UpcShapes DEF Ends, UpcTypeOK
<1>3. TaskMoves(t)
  BY <1>2 DEF TaskMoves, At
<1> QED
  BY <1>2, <1>3, MoveFits

\* A task is somewhere else now.
LEMMA ReachingFits ==
  ASSUME UpcInv, NEW t \in Slot, ~At(t, "idle"), NEW c \in Barcode, tasks[t].upc = c,
         NEW task \in Tasks, tasks' = [tasks EXCEPT ![t] = task],
         task.at # "idle", task.upc = c, task.alone = tasks[t].alone, TaskFits(task, c),
         tasks[t].alone => Knows(t, c)',
         DataElsewhere(c), AuditsFit', promised'[c] = promised[c],
         promised[c].kind = "chosen" =>
           /\ task.at \in HarmlessPoints
           /\ mappings'[c] = mappings[c] /\ reviews'[c] = reviews[c]
  PROVE  tasks' \in [Slot -> Tasks] /\ \A b \in Barcode : BarcodeFits(b)'
<1>1. /\ tasks' \in [Slot -> Tasks] /\ tasks'[t] = task
      /\ \A s \in Slot \ {t} : tasks'[s] = tasks[s]
  BY DEF UpcInv, UpcTypeOK
<1>2. TaskMoves(t)
  BY <1>1 DEF TaskMoves, At
<1>3. promised[c].kind # "cleared" /\ Honoured(c)
  BY BusyPromises
<1>4. Honoured(c)' /\ Forgotten(c)'
  BY <1>3 DEF Honoured, Forgotten
<1> QED
  BY <1>1, <1>2, <1>4, MoveFits

\* The task where it is now.
Reached(task, point) == [task EXCEPT !.at = point]

LEMMA ReachedSame ==
  ASSUME NEW task \in Tasks, NEW point \in TaskPoints
  PROVE  /\ Reached(task, point) \in Tasks
         /\ Reached(task, point).at = point /\ Reached(task, point).upc = task.upc
         /\ Reached(task, point).code = task.code
         /\ Reached(task, point).source = task.source
         /\ Reached(task, point).alone = task.alone
  BY DEF Reached, Tasks

\* Nothing is written where a task only goes on.
LEMMA GoingOnFits ==
  ASSUME UpcInv, NEW t \in Slot, ~At(t, "idle"), NEW c \in Barcode, tasks[t].upc = c,
         NEW point \in TaskPoints, Reaches(t, point), point # "idle",
         TaskFits(Reached(tasks[t], point), c),
         tasks[t].alone => Knows(t, c)',
         DataElsewhere(c), AuditsFit', promised'[c] = promised[c],
         promised[c].kind = "chosen" =>
           /\ point \in HarmlessPoints
           /\ mappings'[c] = mappings[c] /\ reviews'[c] = reviews[c]
  PROVE  tasks' \in [Slot -> Tasks] /\ \A b \in Barcode : BarcodeFits(b)'
<1>1. tasks[t] \in Tasks
  BY UpcShapes DEF UpcInv
<1>2. tasks' = [tasks EXCEPT ![t] = Reached(tasks[t], point)]
  BY DEF Reaches, Reached, UpcInv, UpcTypeOK
<1> DEFINE task == Reached(tasks[t], point)
<1>3. task \in Tasks /\ task.at = point /\ task.upc = c /\ task.alone = tasks[t].alone
  BY <1>1, ReachedSame
<1>4. tasks' = [tasks EXCEPT ![t] = task] /\ TaskFits(task, c)
  BY <1>2
<1> HIDE DEF task
<1> QED
  BY <1>3, <1>4, ReachingFits

\* The audit of a barcode in its canonical form.
LEMMA AuditFits ==
  ASSUME UpcInv, NEW c \in Barcode, Canonical[c] = c, AuditQueued(c)
  PROVE  audits' \in [Barcode -> {"none", "queued", "there"}] /\ AuditsFit'
  BY DEF AuditQueued, AuditsFit, UpcInv, UpcTypeOK, BarcodeFits

\* A row of the table that is a mapping, or none.
LEMMA MappingWrites ==
  ASSUME UpcTypeOK, NEW c \in Barcode, NEW row \in Mappings,
         row.code # NoSku <=> row.source # "none", mappings' = [mappings EXCEPT ![c] = row]
  PROVE  /\ mappings' \in [Barcode -> Mappings] /\ mappings'[c] = row
         /\ \A b \in Barcode : mappings'[b].code # NoSku <=> mappings'[b].source # "none"
         /\ \A b \in Barcode \ {c} : mappings'[b] = mappings[b]
  BY DEF UpcTypeOK, Mapped

LEMMA UnmappedRow ==
  Unmapped \in Mappings /\ Unmapped.code = NoSku /\ Unmapped.source = "none"
  BY DEF Unmapped, Mappings, Sources

\* What is not written holds as before.
LEMMA NothingWritten ==
  ASSUME UpcInv, NEW t \in Slot, ~At(t, "idle"), NEW c \in Barcode, tasks[t].upc = c,
         UNCHANGED <<mappings, promised>>, Carriers(c)' \subseteq Carriers(c),
         reviews'[c].to = reviews[c].to
  PROVE  Honoured(c)' /\ Forgotten(c)'
<1>1. Honoured(c) /\ promised[c].kind # "cleared"
  BY BusyPromises
<1> QED
  BY <1>1 DEF Honoured, Forgotten

\* None or one.
LEMMA OneCounted == ASSUME NEW S, S = {} \/ \E b : S = {b} PROVE Cardinality(S) <= 1
<1>1. CASE S = {}
  BY <1>1, FS_EmptySet
<1>2. ASSUME NEW b, S = {b}
      PROVE  Cardinality(S) <= 1
  BY <1>2, FS_Singleton
<1> QED
  BY <1>1, <1>2

\* The lookup of a scan, its answers and its deletion of a mapping.
LEMMA ScanStepFits ==
  ASSUME UpcInv, NEW t \in Slot, NEW c \in Barcode, tasks[t].upc = c,
         FetchItem(t) \/ DeleteLands(t) \/ ReadLocal(t) \/ Score(t)
  PROVE  UpcInv'
<1>1. /\ UpcTypeOK /\ OneUpc /\ tasks[t] \in Tasks /\ ~At(t, "idle")
      /\ AuditsFit
  BY UpcShapes DEF UpcInv, FetchItem, DeleteLands, ReadLocal, Score, At, BarcodeFits, AuditsFit
<1>2. /\ promised[c].kind # "cleared"
      /\ promised[c].kind = "chosen" => tasks[t].at \in HarmlessPoints
      /\ TaskFits(tasks[t], c)
  BY <1>1, BusyPromises
<1>3. ASSUME Ends(t), AuditQueued(c), Canonical[c] = c,
             UNCHANGED <<mappings, itemUpc, reviews, promised, arrived>>
      PROVE  UpcInv'
  <2>1. DataElsewhere(c) /\ Carriers(c)' = Carriers(c)
    BY <1>3 DEF DataElsewhere, Carriers
  <2>2. AuditsFit' /\ audits' \in [Barcode -> {"none", "queued", "there"}]
    BY <1>1, <1>3, AuditFits
  <2>3. Honoured(c)' /\ Forgotten(c)'
    BY <1>1, <1>3, <2>1, NothingWritten
  <2>4. tasks' \in [Slot -> Tasks] /\ \A b \in Barcode : BarcodeFits(b)'
    BY <1>1, <1>3, <2>1, <2>2, <2>3, EndingFits
  <2> QED
    BY <1>1, <1>3, <2>2, <2>4 DEF UpcInv, UpcTypeOK, OneUpc, Mapped
<1>4. CASE FetchItem(t)
  <2>1. /\ tasks[t].at = "item" /\ Canonical[c] = c
        /\ UNCHANGED <<mappings, itemUpc, reviews, arrived>>
    BY <1>2, <1>4 DEF FetchItem, At, TaskFits, CanonicalPoints
  <2>2. ASSUME NEW s \in Slot, At(s, "idle"),
               Begins(s, Task("delete", c), [tasks EXCEPT ![t].at = "local"]),
               promised' = Forgets(c), UNCHANGED audits
        PROVE  UpcInv'
    <3> DEFINE new == Task("delete", c)
               was == [tasks EXCEPT ![t] = Reached(tasks[t], "local")]
    <3>1. new \in Tasks /\ new.at = "delete" /\ new.upc = c
      BY <1>1, TaskBegins DEF TaskPoints
    <3>2. /\ t \in Of(c) /\ s \notin Of(c) /\ s # t
          /\ \A q \in Of(c) : tasks[q] \in Tasks /\ tasks[q].upc = c
          /\ \A q \in Slot : q \notin Of(c) => tasks[q].at = "idle" \/ tasks[q].upc # c
      BY <1>1, <2>1, <2>2, UpcShapes DEF At, Of
    <3>3. /\ was \in [Slot -> Tasks]
          /\ \A q \in Slot : q # t => was[q] = tasks[q]
          /\ was[t].at = "local" /\ was[t].upc = c
      BY <1>1, ReachedSame DEF UpcTypeOK, TaskPoints
    <3>4. was = [tasks EXCEPT ![t].at = "local"]
      BY <1>1 DEF UpcTypeOK, Reached
    <3> HIDE DEF new, was
    <3>5. tasks' = [q \in Slot |-> IF q = s THEN Crowded(new, FALSE)
                                  ELSE IF q \in Of(c) THEN Crowded(was[q], FALSE)
                                  ELSE was[q]]
      <4>1. Begins(s, new, was)
        BY <2>2, <3>4 DEF new
      <4>2. (Of(new.upc) = {}) = FALSE
        BY <3>1, <3>2
      <4> QED
        BY <3>1, <4>1, <4>2 DEF Begins, Crowded
    <3>6. tasks' \in [Slot -> Tasks]
      BY <3>1, <3>3, <3>5, CrowdedSame
    <3>7. /\ tasks'[s].at = "delete" /\ tasks'[s].upc = c /\ ~tasks'[s].alone
          /\ tasks'[t].at = "local" /\ tasks'[t].upc = c /\ ~tasks'[t].alone
      BY <3>1, <3>2, <3>3, <3>5, CrowdedSame
    <3>8. \A q \in Of(c) \ {t} :
            /\ tasks'[q].at = tasks[q].at /\ tasks'[q].upc = c /\ ~tasks'[q].alone
            /\ tasks'[q].code = tasks[q].code /\ tasks'[q].source = tasks[q].source
      <4> SUFFICES ASSUME NEW q \in Of(c) \ {t}
                   PROVE  /\ tasks'[q].at = tasks[q].at /\ tasks'[q].upc = c
                          /\ ~tasks'[q].alone
                          /\ tasks'[q].code = tasks[q].code
                          /\ tasks'[q].source = tasks[q].source
        OBVIOUS
      <4>1. q \in Slot /\ q # s /\ was[q] = tasks[q]
        BY <3>2, <3>3 DEF Of
      <4>2. tasks'[q] = Crowded(tasks[q], FALSE)
        BY <3>5, <4>1
      <4>3. tasks[q] \in Tasks /\ tasks[q].upc = c /\ FALSE \in BOOLEAN
        BY <3>2
      <4> DEFINE old == tasks[q]
      <4> HIDE DEF old
      <4>4. /\ Crowded(old, FALSE).at = old.at /\ Crowded(old, FALSE).upc = old.upc
            /\ Crowded(old, FALSE).code = old.code
            /\ Crowded(old, FALSE).source = old.source
            /\ Crowded(old, FALSE).alone = FALSE
        BY <4>3, CrowdedSame DEF old
      <4> QED
        BY <4>2, <4>3, <4>4 DEF old
    <3>9. \A q \in Slot \ {s} : q \notin Of(c) => tasks'[q] = tasks[q]
      BY <3>2, <3>3, <3>5
    <3>10. Of(c)' = Of(c) \cup {s}
      BY <3>2, <3>7, <3>8, <3>9 DEF Of
    <3>11. OthersOfUpc(c)
      BY <2>2, <3>2, <3>7, <3>8, <3>9 DEF OthersOfUpc, At, Of
    <3>12. ASSUME NEW q \in Of(c)'
           PROVE  TaskFits(tasks'[q], c) /\ ~tasks'[q].alone
      <4>1. CASE q \in {s, t}
        BY <2>1, <3>7, <4>1 DEF TaskFits, CanonicalPoints, WritePoints
      <4>2. CASE q \notin {s, t}
        <5>1. TaskFits(tasks[q], c) /\ q \in Of(c) \ {t}
          BY <1>1, <3>10, <4>2 DEF UpcInv, BarcodeFits
        <5> QED
          BY <3>8, <5>1 DEF TaskFits
      <4> QED
        BY <4>1, <4>2
    <3>13. promised'[c].kind # "chosen"
      BY <1>1, <2>2, KeptOrForgotten
    <3>14. \A b \in Barcode : BarcodeFits(b)'
      <4>1. \A b \in Barcode \ {c} : Carriers(b)' \subseteq Carriers(b)
        BY <2>1 DEF Carriers
      <4>2. AuditsFit'
        BY <1>1, <2>2 DEF AuditsFit
      <4>3. promised' \in {Keeps(c), Forgets(c)}
        BY <2>2
      <4> QED
        BY <1>1, <2>1, <3>11, <3>12, <3>13, <4>1, <4>2, <4>3, MeetingFits
    <3> QED
      BY <1>1, <2>1, <2>2, <3>6, <3>14, PromisesLeft DEF UpcInv, UpcTypeOK, OneUpc, Mapped
  <2>3. CASE Ends(t) /\ AuditQueued(c) /\ UNCHANGED promised
    BY <1>3, <2>1, <2>3
  <2> QED
    BY <1>4, <2>2, <2>3 DEF FetchItem
<1>5. CASE DeleteLands(t)
  <2>1. /\ tasks[t].at = "delete" /\ Ends(t) /\ mappings' = [mappings EXCEPT ![c] = Unmapped]
        /\ UNCHANGED <<itemUpc, audits, reviews, promised, arrived>>
    BY <1>5 DEF DeleteLands, At
  <2>2. promised[c].kind # "chosen" /\ promised[c].kind # "cleared"
    BY <1>2, <2>1 DEF HarmlessPoints
  <2>3. /\ mappings' \in [Barcode -> Mappings]
        /\ \A b \in Barcode : mappings'[b].code # NoSku <=> mappings'[b].source # "none"
        /\ \A b \in Barcode \ {c} : mappings'[b] = mappings[b]
    BY <1>1, <2>1, UnmappedRow, MappingWrites
  <2>4. DataElsewhere(c) /\ Honoured(c)' /\ Forgotten(c)' /\ AuditsFit'
    BY <1>1, <2>1, <2>2, <2>3 DEF DataElsewhere, Carriers, Honoured, Forgotten, AuditsFit
  <2>5. tasks' \in [Slot -> Tasks] /\ \A b \in Barcode : BarcodeFits(b)'
    BY <1>1, <2>1, <2>4, EndingFits
  <2> QED
    BY <1>1, <2>1, <2>3, <2>5 DEF UpcInv, UpcTypeOK, OneUpc, Mapped
<1>6. CASE ReadLocal(t)
  <2>1. /\ tasks[t].at = "local" /\ Canonical[c] = c
        /\ UNCHANGED <<mappings, itemUpc, reviews, promised, arrived>>
    BY <1>2, <1>6 DEF ReadLocal, At, TaskFits, CanonicalPoints
  <2>2. CASE Reaches(t, "external") /\ UNCHANGED audits
    <3>1. DataElsewhere(c) /\ AuditsFit'
      BY <1>1, <2>1, <2>2 DEF DataElsewhere, Carriers, AuditsFit
    <3>2. TaskFits(Reached(tasks[t], "external"), c)
      BY <1>1, <2>1, ReachedSame DEF TaskFits, WritePoints, TaskPoints
    <3>3. tasks'[t].at = "external"
      BY <1>1, <2>2 DEF Reaches, UpcTypeOK, Tasks
    <3>4. Knows(t, c)'
      BY <3>3 DEF Knows, ClearedPoints
    <3>5. promised[c].kind # "chosen"
      BY <1>2, <2>1 DEF HarmlessPoints
    <3>6. tasks' \in [Slot -> Tasks] /\ \A b \in Barcode : BarcodeFits(b)'
      BY <1>1, <2>1, <2>2, <3>1, <3>2, <3>4, <3>5, GoingOnFits DEF TaskPoints
    <3> QED
      BY <1>1, <2>1, <2>2, <3>6 DEF UpcInv, UpcTypeOK, OneUpc, Mapped
  <2> QED
    BY <1>3, <1>6, <2>1, <2>2 DEF ReadLocal
<1>7. CASE Score(t)
  <2>1. /\ tasks[t].at = "external" /\ Canonical[c] = c /\ AuditQueued(c)
        /\ UNCHANGED <<mappings, reviews, promised, arrived>>
    BY <1>2, <1>7 DEF Score, At, TaskFits, CanonicalPoints
  <2>2. ASSUME NEW m \in Sku, itemUpc' = [itemUpc EXCEPT ![m] = {c}],
               tasks' = [tasks EXCEPT ![t] = [Upsert(c, m, "auto_high_score") EXCEPT
                                                !.alone = tasks[t].alone]]
        PROVE  UpcInv'
    <3> DEFINE up == Writing("upsert", c, m, "auto_high_score")
               new == Crowded(up, tasks[t].alone)
    <3>1. /\ up \in Tasks /\ up.at = "upsert" /\ up.upc = c
          /\ up.code = m /\ up.source = "auto_high_score"
      BY <1>1, WritingBegins DEF TaskPoints, Sources
    <3>2. tasks' = [tasks EXCEPT ![t] = new]
      BY <2>2 DEF Upsert, Writing, Crowded
    <3> HIDE DEF up
    <3>3. /\ new \in Tasks /\ new.at = "upsert" /\ new.upc = c
          /\ new.code = m /\ new.source = "auto_high_score" /\ new.alone = tasks[t].alone
      <4>1. tasks[t].alone \in BOOLEAN
        BY <1>1 DEF Tasks
      <4> QED
        BY <3>1, <4>1, CrowdedSame
    <3> HIDE DEF new
    <3>4. TaskFits(new, c)
      BY <3>3 DEF TaskFits, CanonicalPoints
    <3>5. tasks'[t] = new
      BY <1>1, <3>2 DEF UpcTypeOK
    <3>6. Knows(t, c)'
      BY <3>3, <3>5 DEF Knows, ClearedPoints
    <3>7. /\ itemUpc' \in [Sku -> SUBSET Barcode]
          /\ \A q \in Sku : itemUpc'[q] = IF q = m THEN {c} ELSE itemUpc[q]
      BY <1>1, <2>2 DEF UpcTypeOK
    <3>8. DataElsewhere(c)
      BY <2>1, <3>7 DEF DataElsewhere, Carriers
    <3>9. AuditsFit' /\ audits' \in [Barcode -> {"none", "queued", "there"}]
      BY <1>1, <2>1, AuditFits
    <3>10. promised[c].kind # "chosen"
      BY <1>2, <2>1 DEF HarmlessPoints
    <3>11. tasks' \in [Slot -> Tasks] /\ \A b \in Barcode : BarcodeFits(b)'
      BY <1>1, <2>1, <3>2, <3>3, <3>4, <3>6, <3>8, <3>9, <3>10, ReachingFits
    <3>12. OneUpc'
      BY <1>1, <3>7 DEF OneUpc
    <3>13. \A q \in Sku : Cardinality(itemUpc'[q]) <= 1
      BY <3>12, OneCounted DEF OneUpc
    <3> QED
      BY <1>1, <2>1, <3>7, <3>9, <3>11, <3>12, <3>13 DEF UpcInv, UpcTypeOK, Mapped
  <2> QED
    BY <1>3, <1>7, <2>1, <2>2 DEF Score
<1> QED
  BY <1>4, <1>5, <1>6, <1>7

\* A mapping is written: read first, then updated or inserted.
LEMMA UpsertStepFits ==
  ASSUME UpcInv, NEW t \in Slot, NEW c \in Barcode, tasks[t].upc = c,
         UpsertRead(t) \/ UpsertWrite(t)
  PROVE  UpcInv'
<1>1. /\ UpcTypeOK /\ OneUpc /\ tasks[t] \in Tasks
      /\ tasks[t].at \in {"upsert", "update", "insert"}
      /\ UNCHANGED <<itemUpc, audits, reviews, arrived>>
  BY UpcShapes DEF UpcInv, UpsertRead, UpsertWrite, At
<1>2. /\ promised[c].kind # "cleared" /\ promised[c].kind # "chosen"
      /\ tasks[t].code \in Sku /\ tasks[t].source # "none"
      /\ ~At(t, "idle") /\ AuditsFit
  BY <1>1, BusyPromises DEF HarmlessPoints, TaskFits, WritePoints, At
<1>3. AuditsFit' /\ \A b \in Barcode : Carriers(b)' = Carriers(b)
  BY <1>1, <1>2 DEF AuditsFit, Carriers
<1>4. CASE UpsertRead(t)
  <2>1. PICK point \in {"update", "insert"} : Reaches(t, point)
    BY <1>4 DEF UpsertRead
  <2>2. UNCHANGED <<mappings, promised>> /\ DataElsewhere(c)
    BY <1>1, <1>3, <1>4 DEF UpsertRead, DataElsewhere
  <2>3. TaskFits(Reached(tasks[t], point), c)
    BY <1>1, <1>2, ReachedSame DEF TaskFits, CanonicalPoints, TaskPoints
  <2>4. tasks'[t].at = point
    BY <1>1, <2>1 DEF Reaches, UpcTypeOK, Tasks
  <2>5. Knows(t, c)'
    BY <2>4 DEF Knows, ClearedPoints
  <2>6. tasks' \in [Slot -> Tasks] /\ \A b \in Barcode : BarcodeFits(b)'
    BY <1>1, <1>2, <1>3, <2>1, <2>2, <2>3, <2>5, GoingOnFits DEF TaskPoints
  <2> QED
    BY <1>1, <2>2, <2>6 DEF UpcInv, UpcTypeOK, OneUpc, Mapped
<1>5. CASE UpsertWrite(t)
  <2> DEFINE row == [code |-> tasks[t].code, source |-> tasks[t].source, flags |-> 0]
  <2>1. row \in Mappings /\ row.code # NoSku /\ row.source # "none"
    BY <1>1, <1>2, UpcMappingsAssumption DEF Mappings, Tasks
  <2>2. mappings' = [mappings EXCEPT ![c] = row]
    BY <1>5 DEF UpsertWrite
  <2>3. row.code = tasks[t].code /\ row.source = tasks[t].source
    OBVIOUS
  <2> HIDE DEF row
  <2>4. /\ mappings' \in [Barcode -> Mappings] /\ mappings'[c] = row
        /\ \A b \in Barcode : mappings'[b].code # NoSku <=> mappings'[b].source # "none"
        /\ \A b \in Barcode \ {c} : mappings'[b] = mappings[b]
    BY <1>1, <2>1, <2>2, MappingWrites
  <2>5. CASE tasks[t].source = "operator_review"
    <3>1. Reaches(t, "marking") /\ UNCHANGED promised
      BY <1>5, <2>5 DEF UpsertWrite
    <3>2. DataElsewhere(c)
      BY <1>1, <1>3, <2>4, <3>1 DEF DataElsewhere
    <3>3. TaskFits(Reached(tasks[t], "marking"), c)
      BY <1>1, <1>2, <2>5, ReachedSame DEF TaskFits, CanonicalPoints, TaskPoints
    <3>4. /\ tasks'[t].at = "marking" /\ tasks'[t].code = tasks[t].code
          /\ tasks'[t].source = tasks[t].source
      BY <1>1, <3>1 DEF Reaches, UpcTypeOK, Tasks
    <3>5. Knows(t, c)'
      BY <2>3, <2>4, <3>4 DEF Knows, ClearedPoints
    <3>6. tasks' \in [Slot -> Tasks] /\ \A b \in Barcode : BarcodeFits(b)'
      BY <1>1, <1>2, <1>3, <3>1, <3>2, <3>3, <3>5, GoingOnFits DEF TaskPoints
    <3> QED
      BY <1>1, <2>4, <3>1, <3>6 DEF UpcInv, UpcTypeOK, OneUpc, Mapped
  <2>6. CASE tasks[t].source # "operator_review"
    <3>1. Ends(t)
      BY <1>5, <2>6 DEF UpsertWrite
    <3>2. /\ promised' \in [Barcode -> Promises]
          /\ \A b \in Barcode \ {c} : promised'[b] = promised[b]
          /\ \/ promised'[c] = promised[c]
             \/ promised'[c] = Chosen(t) /\ tasks[t].alone
      <4>1. CASE UNCHANGED promised
        BY <1>1, <4>1 DEF UpcTypeOK
      <4>2. CASE promised' = Promise(t, Chosen(t))
        <5>1. Chosen(t) \in Promises
          BY <1>1, <1>2 DEF Chosen, Promises, Tasks
        <5> QED
          BY <1>1, <4>2, <5>1 DEF Promise, UpcTypeOK
      <4> QED
        BY <1>5, <4>1, <4>2 DEF UpsertWrite
    <3>3. Honoured(c)' /\ Forgotten(c)'
      BY <1>2, <2>3, <2>4, <2>6, <3>2 DEF Honoured, Forgotten, Chosen
    <3>4. DataElsewhere(c)
      BY <1>1, <1>3, <2>4, <3>2 DEF DataElsewhere
    <3>5. tasks' \in [Slot -> Tasks] /\ \A b \in Barcode : BarcodeFits(b)'
      BY <1>1, <1>2, <1>3, <3>1, <3>2, <3>3, <3>4, EndingFits
    <3> QED
      BY <1>1, <2>4, <3>2, <3>5 DEF UpcInv, UpcTypeOK, OneUpc, Mapped
  <2> QED
    BY <2>5, <2>6
<1> QED
  BY <1>4, <1>5

\* A flag clears the items, counts, and deletes the mapping.
LEMMA FlagStepFits ==
  ASSUME UpcInv, NEW t \in Slot, NEW c \in Barcode, tasks[t].upc = c,
         ClearItems(t) \/ CountFlags(t) \/ WriteFlag(t) \/ FlagDelete(t)
  PROVE  UpcInv'
<1>1. /\ UpcTypeOK /\ OneUpc /\ tasks[t] \in Tasks
      /\ tasks[t].at \in {"clearing"} \cup ClearedPoints
      /\ UNCHANGED <<audits, reviews, arrived>>
  BY UpcShapes
  DEF UpcInv, ClearItems, CountFlags, WriteFlag, FlagDelete, At, ClearedPoints
<1>2. /\ promised[c].kind # "cleared" /\ promised[c].kind # "chosen"
      /\ Canonical[c] = c
      /\ ~At(t, "idle") /\ AuditsFit
      /\ tasks[t].alone /\ tasks[t].at \in ClearedPoints => Carriers(c) = {}
  BY <1>1, BusyPromises
  DEF HarmlessPoints, TaskFits, CanonicalPoints, ClearedPoints, At, AloneFits, Knows
<1>3. AuditsFit'
  BY <1>1, <1>2 DEF AuditsFit
<1>4. ASSUME NEW point \in {"counting", "deleting"}, Reaches(t, point), UNCHANGED promised,
             DataElsewhere(c), tasks[t].alone => Carriers(c)' = {}
      PROVE  tasks' \in [Slot -> Tasks] /\ \A b \in Barcode : BarcodeFits(b)'
  <2>1. TaskFits(Reached(tasks[t], point), c)
    BY <1>1, <1>2, ReachedSame DEF TaskFits, WritePoints, TaskPoints
  <2>2. tasks'[t].at = point
    BY <1>1, <1>4 DEF Reaches, UpcTypeOK, Tasks
  <2>3. tasks[t].alone => Knows(t, c)'
    BY <1>4, <2>2 DEF Knows
  <2> QED
    BY <1>1, <1>2, <1>3, <1>4, <2>1, <2>3, GoingOnFits DEF TaskPoints
<1>5. CASE ClearItems(t)
  <2>1. /\ itemUpc' = [m \in Sku |-> itemUpc[m] \ {c}] /\ Reaches(t, "counting")
        /\ UNCHANGED <<mappings, promised>>
    BY <1>5 DEF ClearItems, ClearedItems
  <2>2. Carriers(c)' = {} /\ DataElsewhere(c)
    BY <1>1, <2>1 DEF DataElsewhere, Carriers
  <2>3. tasks' \in [Slot -> Tasks] /\ \A b \in Barcode : BarcodeFits(b)'
    BY <1>4, <2>1, <2>2
  <2>4. OneUpc' /\ itemUpc' \in [Sku -> SUBSET Barcode]
    BY <1>1, <2>1 DEF OneUpc, UpcTypeOK
  <2>5. \A m \in Sku : Cardinality(itemUpc'[m]) <= 1
    BY <2>4, OneCounted DEF OneUpc
  <2> QED
    BY <1>1, <2>1, <2>3, <2>4, <2>5 DEF UpcInv, UpcTypeOK, Mapped
<1>6. CASE CountFlags(t)
  <2>1. UNCHANGED <<mappings, itemUpc, promised>> /\ tasks[t].at = "counting"
    BY <1>6 DEF CountFlags, At
  <2>2. DataElsewhere(c) /\ Carriers(c)' = Carriers(c)
    BY <1>1, <2>1 DEF DataElsewhere, Carriers
  <2>3. tasks' \in [Slot -> Tasks] /\ \A b \in Barcode : BarcodeFits(b)'
    <3>1. CASE Reaches(t, "deleting")
      BY <1>2, <1>4, <2>1, <2>2, <3>1 DEF ClearedPoints
    <3>2. CASE tasks' = [tasks EXCEPT ![t].at = "flagging", ![t].flags = mappings[c].flags]
      <4> DEFINE new == [tasks[t] EXCEPT !.at = "flagging", !.flags = mappings[c].flags]
      <4>1. /\ new \in Tasks /\ new.at = "flagging" /\ new.upc = c
            /\ new.alone = tasks[t].alone
        BY <1>1, UpcShapes DEF Tasks, TaskPoints, Mappings
      <4>2. tasks' = [tasks EXCEPT ![t] = new] /\ tasks'[t] = new
        BY <1>1, <3>2 DEF UpcTypeOK
      <4> HIDE DEF new
      <4>3. TaskFits(new, c)
        BY <1>2, <4>1 DEF TaskFits, WritePoints
      <4>4. tasks[t].alone => Knows(t, c)'
        BY <1>2, <2>1, <2>2, <4>1, <4>2 DEF Knows, ClearedPoints
      <4> QED
        BY <1>1, <1>2, <1>3, <2>1, <2>2, <4>1, <4>2, <4>3, <4>4, ReachingFits
    <3> QED
      BY <1>6, <3>1, <3>2 DEF CountFlags
  <2> QED
    BY <1>1, <2>1, <2>3 DEF UpcInv, UpcTypeOK, OneUpc, Mapped
<1>7. CASE WriteFlag(t)
  <2>1. /\ UNCHANGED <<itemUpc, promised>> /\ tasks[t].at = "flagging"
        /\ Reaches(t, "deleting")
    BY <1>7 DEF WriteFlag, At
  <2>2. /\ mappings' \in [Barcode -> Mappings]
        /\ \A b \in Barcode : mappings'[b].code # NoSku <=> mappings'[b].source # "none"
        /\ \A b \in Barcode \ {c} : mappings'[b] = mappings[b]
    <3>1. CASE UNCHANGED mappings
      BY <1>1, <3>1 DEF UpcTypeOK, Mapped
    <3>2. CASE mappings' = [mappings EXCEPT ![c] = Unmapped]
      BY <1>1, <3>2, UnmappedRow, MappingWrites
    <3>3. CASE mappings' = [mappings EXCEPT ![c] = [@ EXCEPT !.flags = 1]]
      <4> DEFINE row == [mappings[c] EXCEPT !.flags = 1]
      <4>1. row \in Mappings /\ (row.code # NoSku <=> row.source # "none")
        BY <1>1, UpcShapes DEF Mappings, UpcTypeOK, Mapped
      <4>2. mappings' = [mappings EXCEPT ![c] = row]
        BY <3>3
      <4> HIDE DEF row
      <4> QED
        BY <1>1, <4>1, <4>2, MappingWrites
    <3> QED
      BY <1>7, <3>1, <3>2, <3>3 DEF WriteFlag
  <2>3. DataElsewhere(c) /\ Carriers(c)' = Carriers(c)
    BY <1>1, <2>1, <2>2 DEF DataElsewhere, Carriers
  <2>4. tasks' \in [Slot -> Tasks] /\ \A b \in Barcode : BarcodeFits(b)'
    BY <1>2, <1>4, <2>1, <2>3 DEF ClearedPoints
  <2> QED
    BY <1>1, <2>1, <2>2, <2>4 DEF UpcInv, UpcTypeOK, OneUpc, Mapped
<1>8. CASE FlagDelete(t)
  <2> DEFINE cleared == [NoPromise EXCEPT !.kind = "cleared"]
  <2>1. /\ tasks[t].at = "deleting" /\ Ends(t) /\ UNCHANGED itemUpc
        /\ mappings' = [mappings EXCEPT ![c] = Unmapped]
        /\ promised' = Promise(t, cleared)
    BY <1>8 DEF FlagDelete, At
  <2>2. cleared \in Promises /\ cleared.kind = "cleared"
    BY DEF NoPromise, Promises, Sources
  <2> HIDE DEF cleared
  <2>3. /\ mappings' \in [Barcode -> Mappings] /\ mappings'[c] = Unmapped
        /\ \A b \in Barcode : mappings'[b].code # NoSku <=> mappings'[b].source # "none"
        /\ \A b \in Barcode \ {c} : mappings'[b] = mappings[b]
    BY <1>1, <2>1, UnmappedRow, MappingWrites
  <2>4. /\ promised' \in [Barcode -> Promises]
        /\ \A b \in Barcode \ {c} : promised'[b] = promised[b]
        /\ \/ promised'[c] = promised[c]
           \/ promised'[c] = cleared /\ tasks[t].alone
    BY <1>1, <2>1, <2>2 DEF Promise, UpcTypeOK
  <2>5. DataElsewhere(c) /\ Carriers(c)' = Carriers(c)
    BY <1>1, <2>1, <2>3, <2>4 DEF DataElsewhere, Carriers
  <2>6. Honoured(c)' /\ Forgotten(c)'
    BY <1>2, <2>1, <2>2, <2>3, <2>4, <2>5, UnmappedRow
    DEF Honoured, Forgotten, Mapped, ClearedPoints
  <2>7. tasks' \in [Slot -> Tasks] /\ \A b \in Barcode : BarcodeFits(b)'
    BY <1>1, <1>2, <1>3, <2>1, <2>2, <2>4, <2>5, <2>6, EndingFits
  <2> QED
    BY <1>1, <2>1, <2>3, <2>4, <2>7 DEF UpcInv, UpcTypeOK, OneUpc, Mapped
<1> QED
  BY <1>5, <1>6, <1>7, <1>8

\* An import and the operators' reviews.
LEMMA ReviewStepFits ==
  ASSUME UpcInv, NEW t \in Slot, NEW c \in Barcode, tasks[t].upc = c,
         \/ MatchName(t) \/ ImportWrite(t) \/ QueueReview(t)
         \/ MarkResolved(t) \/ MarkSkipped(t) \/ Abandon(t)
  PROVE  UpcInv'
<1>1. /\ UpcTypeOK /\ OneUpc /\ tasks[t] \in Tasks /\ ~At(t, "idle")
      /\ UNCHANGED <<itemUpc, audits, arrived>>
  BY UpcShapes
  DEF UpcInv, MatchName, ImportWrite, QueueReview, MarkResolved, MarkSkipped, Abandon, At
<1>2. /\ promised[c].kind # "cleared"
      /\ promised[c].kind = "chosen" => tasks[t].at \in HarmlessPoints
      /\ TaskFits(tasks[t], c) /\ AloneFits(c) /\ t \in Of(c)
      /\ Honoured(c) /\ AuditsFit
  BY <1>1, BusyPromises
<1>3. AuditsFit' /\ \A b \in Barcode : Carriers(b)' = Carriers(b)
  BY <1>1, <1>2 DEF AuditsFit, Carriers
<1>4. CASE MatchName(t)
  <2>1. UNCHANGED <<mappings, reviews, promised>> /\ tasks[t].at = "matching"
    BY <1>4 DEF MatchName, At
  <2>2. DataElsewhere(c)
    BY <1>3, <2>1 DEF DataElsewhere
  <2>3. CASE Reaches(t, "queueing")
    <3>1. TaskFits(Reached(tasks[t], "queueing"), c)
      BY <1>1, ReachedSame DEF TaskFits, WritePoints, CanonicalPoints, TaskPoints
    <3>2. tasks'[t].at = "queueing"
      BY <1>1, <2>3 DEF Reaches, UpcTypeOK, Tasks
    <3>3. Knows(t, c)'
      BY <3>2 DEF Knows, ClearedPoints
    <3>4. tasks' \in [Slot -> Tasks] /\ \A b \in Barcode : BarcodeFits(b)'
      BY <1>1, <1>3, <2>1, <2>2, <2>3, <3>1, <3>3, GoingOnFits
      DEF TaskPoints, HarmlessPoints
    <3> QED
      BY <1>1, <2>1, <3>4 DEF UpcInv, UpcTypeOK, OneUpc, Mapped
  <2>4. ASSUME NEW m \in Sku, New(c),
               tasks' = [tasks EXCEPT ![t] = [Import(c, m) EXCEPT !.alone = tasks[t].alone]]
        PROVE  UpcInv'
    <3> DEFINE old == Writing("importing", c, m, "nrs_import")
               new == Crowded(old, tasks[t].alone)
    <3>1. /\ old \in Tasks /\ old.at = "importing" /\ old.upc = c
          /\ old.code = m /\ old.source = "nrs_import"
      BY WritingBegins DEF TaskPoints, Sources
    <3>2. tasks' = [tasks EXCEPT ![t] = new]
      BY <2>4 DEF Import, Writing, Crowded
    <3> HIDE DEF old
    <3>3. /\ new \in Tasks /\ new.at = "importing" /\ new.upc = c
          /\ new.code = m /\ new.source = "nrs_import" /\ new.alone = tasks[t].alone
      <4>1. tasks[t].alone \in BOOLEAN
        BY <1>1 DEF Tasks
      <4> QED
        BY <3>1, <4>1, CrowdedSame
    <3> HIDE DEF new
    <3>4. TaskFits(new, c)
      BY <3>3 DEF TaskFits, CanonicalPoints
    <3>5. tasks'[t] = new
      BY <1>1, <3>2 DEF UpcTypeOK
    <3>6. Knows(t, c)'
      BY <3>3, <3>5 DEF Knows, ClearedPoints
    <3>7. promised[c].kind # "chosen"
      BY <2>4, ChosenIsMapped DEF New
    <3>8. tasks' \in [Slot -> Tasks] /\ \A b \in Barcode : BarcodeFits(b)'
      BY <1>1, <1>3, <2>1, <2>2, <3>2, <3>3, <3>4, <3>6, <3>7, ReachingFits
    <3> QED
      BY <1>1, <2>1, <3>8 DEF UpcInv, UpcTypeOK, OneUpc, Mapped
  <2> QED
    BY <1>4, <2>3, <2>4 DEF MatchName
<1>5. CASE ImportWrite(t)
  <2>1. /\ tasks[t].at = "importing" /\ Ends(t) /\ UNCHANGED <<reviews, promised>>
        /\ mappings' = [mappings EXCEPT ![c].code = tasks[t].code,
                                        ![c].source = tasks[t].source]
    BY <1>5 DEF ImportWrite, At
  <2> DEFINE row == [mappings[c] EXCEPT !.code = tasks[t].code, !.source = tasks[t].source]
  <2>2. tasks[t].code \in Sku /\ tasks[t].source \in Sources /\ tasks[t].source # "none"
    BY <1>1, <1>2, <2>1 DEF TaskFits, WritePoints, Tasks
  <2>3. row \in Mappings /\ row.code # NoSku /\ row.source # "none"
    BY <1>1, <2>2, UpcShapes DEF Mappings
  <2>4. mappings' = [mappings EXCEPT ![c] = row]
    BY <1>1, <2>1 DEF UpcTypeOK
  <2> HIDE DEF row
  <2>5. /\ mappings' \in [Barcode -> Mappings]
        /\ \A b \in Barcode : mappings'[b].code # NoSku <=> mappings'[b].source # "none"
        /\ \A b \in Barcode \ {c} : mappings'[b] = mappings[b]
    BY <1>1, <2>3, <2>4, MappingWrites
  <2>6. promised[c].kind # "chosen"
    BY <1>2, <2>1 DEF HarmlessPoints
  <2>7. DataElsewhere(c) /\ Honoured(c)' /\ Forgotten(c)'
    BY <1>2, <1>3, <2>1, <2>5, <2>6 DEF DataElsewhere, Honoured, Forgotten
  <2>8. tasks' \in [Slot -> Tasks] /\ \A b \in Barcode : BarcodeFits(b)'
    BY <1>1, <1>3, <2>1, <2>7, EndingFits
  <2> QED
    BY <1>1, <2>1, <2>5, <2>8 DEF UpcInv, UpcTypeOK, OneUpc, Mapped
<1>6. ASSUME Ends(t), UNCHANGED <<mappings, promised>>, reviews' \in [Barcode -> Reviews],
             reviews'[c].to = reviews[c].to,
             \A b \in Barcode \ {c} : reviews'[b] = reviews[b]
      PROVE  UpcInv'
  <2>1. DataElsewhere(c)
    BY <1>3, <1>6 DEF DataElsewhere
  <2>2. Honoured(c)' /\ Forgotten(c)'
    BY <1>1, <1>3, <1>6, NothingWritten
  <2>3. tasks' \in [Slot -> Tasks] /\ \A b \in Barcode : BarcodeFits(b)'
    BY <1>1, <1>3, <1>6, <2>1, <2>2, EndingFits
  <2> QED
    BY <1>1, <1>6, <2>3 DEF UpcInv, UpcTypeOK, OneUpc, Mapped
<1>7. CASE QueueReview(t) \/ MarkSkipped(t)
  <2>1. PICK status \in {"pending", "skipped"} :
          reviews' = [reviews EXCEPT ![c].status = status]
    BY <1>7 DEF QueueReview, MarkSkipped
  <2>2. Ends(t) /\ UNCHANGED <<mappings, promised>>
    BY <1>7 DEF QueueReview, MarkSkipped
  <2>3. /\ reviews' \in [Barcode -> Reviews] /\ reviews'[c].to = reviews[c].to
        /\ \A b \in Barcode \ {c} : reviews'[b] = reviews[b]
    BY <1>1, <2>1 DEF UpcTypeOK, Reviews, Statuses
  <2> QED
    BY <1>6, <2>2, <2>3
<1>8. CASE Abandon(t)
  <2>1. Ends(t) /\ UNCHANGED <<mappings, promised, reviews>>
    BY <1>8 DEF Abandon
  <2> QED
    BY <1>1, <1>6, <2>1 DEF UpcTypeOK
<1>9. CASE MarkResolved(t)
  <2> DEFINE mark == [status |-> "resolved", to |-> tasks[t].code]
  <2>1. /\ tasks[t].at = "marking" /\ Ends(t) /\ UNCHANGED mappings
        /\ reviews' = [reviews EXCEPT ![c] = mark]
        /\ promised' = Promise(t, Chosen(t))
    BY <1>9 DEF MarkResolved, At
  <2>2. /\ tasks[t].code \in Sku /\ tasks[t].source = "operator_review"
        /\ promised[c].kind # "chosen"
    BY <1>2, <2>1 DEF TaskFits, WritePoints, HarmlessPoints
  <2>3. /\ reviews' \in [Barcode -> Reviews] /\ reviews'[c].to = tasks[t].code
        /\ \A b \in Barcode \ {c} : reviews'[b] = reviews[b]
    BY <1>1, <2>1, <2>2 DEF UpcTypeOK, Reviews, Statuses
  <2>4. /\ promised' \in [Barcode -> Promises]
        /\ \A b \in Barcode \ {c} : promised'[b] = promised[b]
        /\ \/ promised'[c] = promised[c]
           \/ promised'[c] = Chosen(t) /\ tasks[t].alone
    <3>1. Chosen(t) \in Promises
      BY <1>1, <2>2 DEF Chosen, Promises, Tasks
    <3> QED
      BY <1>1, <2>1, <3>1 DEF Promise, UpcTypeOK
  <2>5. tasks[t].alone => /\ mappings[c].code = tasks[t].code
                          /\ mappings[c].source = tasks[t].source
    BY <1>2, <2>1 DEF AloneFits, Knows
  <2>6. DataElsewhere(c)
    BY <1>3, <2>1, <2>3, <2>4 DEF DataElsewhere
  <2>7. Honoured(c)' /\ Forgotten(c)'
    BY <1>2, <2>1, <2>2, <2>3, <2>4, <2>5 DEF Honoured, Forgotten, Chosen
  <2>8. tasks' \in [Slot -> Tasks] /\ \A b \in Barcode : BarcodeFits(b)'
    BY <1>1, <1>2, <1>3, <2>1, <2>2, <2>4, <2>6, <2>7, EndingFits
  <2> QED
    BY <1>1, <2>1, <2>3, <2>4, <2>8 DEF UpcInv, UpcTypeOK, OneUpc, Mapped
<1> QED
  BY <1>4, <1>5, <1>7, <1>8, <1>9

\* An item that gets a barcode from the price book meets what is under way for it.
LEMMA GiftFits ==
  ASSUME UpcInv, NEW m \in Sku, NEW c \in Barcode, GiveBarcode(m, c)
  PROVE  UpcInv'
<1>1. /\ UpcTypeOK /\ OneUpc /\ BarcodeFits(c) /\ AuditsFit
      /\ \A s \in Slot : tasks[s] \in Tasks
  BY UpcShapes DEF UpcInv, BarcodeFits, AuditsFit
<1>2. /\ arrived' \in 0..MaxArrived /\ promised' = Keeps(c)
      /\ UNCHANGED <<mappings, audits, reviews>>
  BY <1>1, UpcMappingsAssumption DEF GiveBarcode, UpcTypeOK
<1>3. tasks' = [s \in Slot |-> IF s \in Of(c) THEN Crowded(tasks[s], FALSE) ELSE tasks[s]]
  BY DEF GiveBarcode, Crowded
<1>4. tasks' \in [Slot -> Tasks]
  BY <1>1, <1>3, CrowdedSame
<1>5. \A s \in Of(c) :
        /\ tasks'[s].at = tasks[s].at /\ tasks'[s].upc = c
        /\ tasks'[s].code = tasks[s].code /\ tasks'[s].source = tasks[s].source
        /\ ~tasks'[s].alone
  BY <1>1, <1>3, CrowdedSame DEF Of
<1>6. \A s \in Slot : s \notin Of(c) => tasks'[s] = tasks[s]
  BY <1>3
<1>7. Of(c)' = Of(c)
  BY <1>5, <1>6 DEF Of
<1>8. OthersOfUpc(c)
  BY <1>5, <1>6 DEF OthersOfUpc, Of
<1>9. /\ itemUpc' \in [Sku -> SUBSET Barcode]
      /\ \A q \in Sku : itemUpc'[q] = IF q = m THEN {c} ELSE itemUpc[q]
  BY <1>1 DEF GiveBarcode, UpcTypeOK
<1>10. \A b \in Barcode \ {c} : Carriers(b)' \subseteq Carriers(b)
  BY <1>9 DEF Carriers
<1>11. OneUpc'
  BY <1>1, <1>9 DEF OneUpc
<1>12. \A q \in Sku : Cardinality(itemUpc'[q]) <= 1
  BY <1>11, OneCounted DEF OneUpc
<1>13. ASSUME NEW s \in Of(c)'
       PROVE  /\ TaskFits(tasks'[s], c) /\ ~tasks'[s].alone
              /\ promised'[c].kind = "chosen" => tasks'[s].at \in HarmlessPoints
  <2>1. s \in Of(c) /\ TaskFits(tasks[s], c)
    BY <1>1, <1>7 DEF BarcodeFits
  <2>2. promised'[c].kind = "chosen" => promised[c].kind = "chosen"
    BY <1>1, <1>2, KeptOrForgotten
  <2> QED
    BY <1>1, <1>5, <2>1, <2>2 DEF TaskFits, BarcodeFits, ChoiceFits
<1>14. AuditsFit'
  BY <1>1, <1>2 DEF AuditsFit
<1>15. \A b \in Barcode : BarcodeFits(b)'
  BY <1>2, <1>8, <1>10, <1>13, <1>14, MeetingFits
<1> QED
  BY <1>1, <1>2, <1>4, <1>9, <1>11, <1>12, <1>15, PromisesLeft
  DEF UpcInv, UpcTypeOK, Mapped

\* An audit that lands, and a step that changes nothing.
LEMMA NothingFits ==
  ASSUME UpcInv, UNCHANGED <<mappings, itemUpc, reviews, tasks, promised, arrived>>,
         audits' \in [Barcode -> {"none", "queued", "there"}], AuditsFit'
  PROVE  UpcInv'
<1>1. \A b \in Barcode : BarcodeFits(b)'
  BY DEF UpcInv, AuditsFit, BarcodeFits, Of, AloneFits, Knows, Carriers, ChoiceFits, Honoured,
         FlagFits, Forgotten, Mapped
<1>2. UpcTypeOK' /\ OneUpc'
  BY DEF UpcInv, UpcTypeOK, OneUpc, Mapped
<1> QED
  BY <1>1, <1>2 DEF UpcInv

\* Before any request nothing is under way, and what is mapped has its item.
LEMMA UpcInitially == UpcInit => UpcInv
<1> SUFFICES ASSUME UpcInit PROVE UpcInv
  OBVIOUS
<1>1. /\ tasks \in [Slot -> Tasks] /\ \A t \in Slot : tasks[t].at = "idle"
  <2>1. (CHOOSE b \in Barcode : TRUE) \in Barcode
    BY UpcMappingsAssumption
  <2>2. IdleTask \in Tasks /\ IdleTask.at = "idle"
    BY <2>1, TaskBegins DEF IdleTask, TaskPoints
  <2> QED
    BY <2>2 DEF UpcInit
<1>2. itemUpc \in [Sku -> SUBSET Barcode] /\ OneUpc
  <2>1. \A c \in Barcode : Canonical[c] \in Barcode
    BY UpcMappingsAssumption
  <2>2. {{}} \cup {{b} : b \in {Canonical[c] : c \in Barcode}} \subseteq SUBSET Barcode
    BY <2>1
  <2>3. ASSUME NEW m \in Sku
        PROVE  itemUpc[m] = {} \/ \E b \in Barcode : itemUpc[m] = {b}
    BY <2>1 DEF UpcInit
  <2> QED
    BY <2>2, <2>3 DEF UpcInit, OneUpc
<1>3. \A m \in Sku : Cardinality(itemUpc[m]) <= 1
  BY <1>2, OneCounted DEF OneUpc
<1>4. /\ mappings \in [Barcode -> Mappings]
      /\ \A b \in Barcode : Mapped(b) <=> mappings[b].source # "none"
  <2>1. ASSUME NEW b \in Barcode
        PROVE  Mapped(b) <=> mappings[b].source # "none"
    <3>1. CASE mappings[b] = Unmapped
      BY <3>1, UnmappedRow DEF Mapped
    <3>2. ASSUME NEW m \in Carriers(b),
                 mappings[b] = [code |-> m, source |-> "auto_high_score", flags |-> 0]
          PROVE  Mapped(b) <=> mappings[b].source # "none"
      <4>1. m \in Sku
        BY DEF Carriers
      <4> QED
        BY <3>2, <4>1, UpcMappingsAssumption DEF Mapped
    <3>3. mappings[b] \in IF Carriers(b) = {} THEN {Unmapped}
            ELSE {[code |-> m, source |-> "auto_high_score", flags |-> 0] : m \in Carriers(b)}
      BY DEF UpcInit
    <3> QED
      BY <3>1, <3>2, <3>3
  <2> QED
    BY <2>1 DEF UpcInit
<1>5. /\ audits = [b \in Barcode |-> "none"]
      /\ reviews \in [Barcode -> Reviews]
      /\ promised \in [Barcode -> Promises]
      /\ \A b \in Barcode : promised[b].kind = "nothing"
      /\ arrived \in 0..MaxArrived
  BY UpcMappingsAssumption
  DEF UpcInit, Reviews, Statuses, NoPromise, Promises, Sources
<1>6. UpcTypeOK
  BY <1>1, <1>2, <1>3, <1>4, <1>5 DEF UpcTypeOK
<1>7. \A b \in Barcode : BarcodeFits(b)
  BY <1>1, <1>5
  DEF BarcodeFits, Of, AloneFits, ChoiceFits, Honoured, FlagFits, Forgotten
<1> QED
  BY <1>2, <1>6, <1>7 DEF UpcInv

-----------------------------------------------------------------------------
(* What the barcodes promise *)

\* The strengthened invariant: what each task is sure of, and which tasks may be under way
\* for a barcode with a promise.
THEOREM UpcSound == UpcSpec => []UpcInv
<1>1. UpcInit => UpcInv
  BY UpcInitially
<1>2. UpcInv /\ [UpcNext]_upcVars => UpcInv'
  <2> SUFFICES ASSUME UpcInv, [UpcNext]_upcVars
               PROVE  UpcInv'
    OBVIOUS
  <2>1. UpcTypeOK /\ AuditsFit
    BY DEF UpcInv, BarcodeFits, AuditsFit
  <2>2. CASE UNCHANGED upcVars
    BY <2>1, <2>2, NothingFits DEF upcVars, UpcTypeOK, AuditsFit
  <2>3. ASSUME NEW b \in Barcode, AuditLands(b)
        PROVE  UpcInv'
    BY <2>1, <2>3, NothingFits DEF AuditLands, UpcTypeOK, AuditsFit
  <2>4. ASSUME NEW b \in Barcode, NEW m \in Sku, GiveBarcode(m, b)
        PROVE  UpcInv'
    BY <2>4, GiftFits
  <2>5. ASSUME NEW t \in Slot, NEW b \in Barcode, Request(t, b)
        PROVE  UpcInv'
    BY <2>5, RequestFits
  <2>6. ASSUME NEW t \in Slot,
               \/ FetchItem(t) \/ DeleteLands(t) \/ ReadLocal(t) \/ Score(t)
               \/ UpsertRead(t) \/ UpsertWrite(t)
               \/ ClearItems(t) \/ CountFlags(t) \/ WriteFlag(t) \/ FlagDelete(t)
               \/ MatchName(t) \/ ImportWrite(t) \/ QueueReview(t)
               \/ MarkResolved(t) \/ MarkSkipped(t) \/ Abandon(t)
        PROVE  UpcInv'
    <3>1. PICK c \in Barcode : tasks[t].upc = c
      BY <2>1, UpcShapes
    <3> QED
      BY <2>6, <3>1, ScanStepFits, UpsertStepFits, FlagStepFits, ReviewStepFits
  <2> QED
    BY <2>2, <2>3, <2>4, <2>5, <2>6 DEF UpcNext
<1> QED
  BY <1>1, <1>2, PTL DEF UpcSpec

\* Mappings, items, audits, reviews and requests stay well-formed (lib/upc-mappings.js): what
\* is mapped says how it came to be, and an item has one barcode at most.
THEOREM UpcTypeCorrect == UpcSpec => []UpcTypeOK
<1>1. UpcInv => UpcTypeOK
  BY DEF UpcInv
<1> QED
  BY <1>1, UpcSound, PTL

\* What a user confirmed or an operator resolved, while nothing else was under way for the
\* barcode, stays until a person flags it or chooses again, and a resolution is its mapping
\* (runNrsImport, priceBookUpcHandler), for any barcodes and however many scans, imports and
\* reviews overlap.
THEOREM ChosenStays == UpcSpec => []ChoicesStay
<1>1. UpcInv => ChoicesStay
  BY DEF UpcInv, BarcodeFits, ChoiceFits, Honoured, ChoicesStay
<1> QED
  BY <1>1, UpcSound, PTL

\* After a flag that met nothing else the barcode has neither a mapping nor an item until
\* the next request (priceBookUpcFlagHandler), whatever was written before.
THEOREM FlaggedIsForgotten == UpcSpec => []FlagsForget
<1>1. UpcInv => FlagsForget
  BY DEF UpcInv, BarcodeFits, FlagFits, Forgotten, FlagsForget
<1> QED
  BY <1>1, UpcSound, PTL

=============================================================================
