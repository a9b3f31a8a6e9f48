---------------------------- MODULE HorizonScan ----------------------------
(***************************************************************************)
(* The retrieval connectors of lib/stellar.  A connector asks Horizon one  *)
(* request after the other, while the ledger its answers are of changes:   *)
(* the supply of an asset and its trustlines (issuer, pages of /assets,    *)
(* closing time), an order book (pages of offers of both sides, closing    *)
(* time), the latest ledger of several endpoints, and an archive artifact. *)
(* The supply connector leaves a checkpoint with its errors, from which    *)
(* the caller may resume.  The retrievals of a job share nothing, so a     *)
(* behaviour is that of one connector, called again and again.             *)
(***************************************************************************)
EXTENDS HorizonService, SdexBook, ArchiveReplay

CONSTANTS
    Options,            \* what a caller asks for: [asset, adapter, network]
    Endpoints,          \* the Horizon sources of the latest-ledger job
    PageSize, MaxPages, MaxRecords, MaxRestarts,
    MaximumAge,         \* maximumObservationAgeSeconds of an order book
    Times               \* when a last answer can arrive

ASSUME BudgetAssumption ==
    /\ PageSize \in Nat \ {0} /\ MaxPages \in Nat \ {0, 1} /\ MaxRecords \in Nat \ {0}
    /\ MaxRestarts \in Nat

VARIABLES
    metric,     \* what the connector measures
    step,       \* the request it waits for; "idle" or "done" between scans
    scan,       \* the state of an attempt; for a supply its checkpoint
    restarts,   \* ledgerRestarts
    roots,      \* the answers of the roots of the endpoints
    held,       \* the checkpoint the caller kept of a supply error
    result      \* what the connector returned

vars == <<metric, step, scan, restarts, roots, held, result>>

Scanned == {"circulating_supply", "trustline_count", "order_book_depth"}
Measured == Scanned \cup {"latest_ledger", "archive"}

End == -1       \* nextUrl = null; the cursor of the initial URL is 0

NoScan == [side |-> "none", next |-> End, fence |-> 0, pages |-> 0, records |-> 0, last |-> 0,
           seen |-> << >>, tokens |-> << >>, kept |-> << >>, asks |-> << >>, askPages |-> 0,
           issuerAt |-> 0, log |-> << >>, ordered |-> TRUE]
NoResult == [kind |-> "none"]

FreshScan(side) == [NoScan EXCEPT !.side = side, !.next = 0]

Request(kind, cursor, ledger) == [kind |-> kind, cursor |-> cursor, ledger |-> ledger]
Logged(s, entry) == [s EXCEPT !.log = Append(@, entry)]

(* Of the times in the log only their order matters: `forward' is FALSE    *)
(* when the clock was set back while the request was in flight, so that it *)
(* ended before it began.  Only a checkpoint is ever asked about it.       *)
Timed(s, forward) == [s EXCEPT !.ordered = @ /\ forward]
Forward == IF metric = "circulating_supply" THEN BOOLEAN ELSE {TRUE}

-----------------------------------------------------------------------------
(* The ends of a connector                                                 *)

Error(code) == [kind |-> "error", code |-> code, restart |-> FALSE, checkpoint |-> NoScan]

Return(r) ==
    /\ step' = "done" /\ result' = r
    /\ scan' = NoScan /\ restarts' = 0 /\ roots' = << >>
    /\ UNCHANGED metric

Fail(code) == Return(Error(code)) /\ UNCHANGED held

(* An error in the middle of a supply scan comes with the checkpoint,      *)
(* which the caller may keep; `restart' tells it not to use it.            *)
FailAt(code, s, restart) ==
    /\ Return([Error(code) EXCEPT !.checkpoint = s, !.restart = restart])
    /\ held' \in {held, s}

FailUnsafe(code) == Return([Error(code) EXCEPT !.restart = TRUE]) /\ UNCHANGED held

Ask(next, s) ==
    /\ step' = next /\ scan' = s
    /\ UNCHANGED <<metric, restarts, roots, held, result>>

\* Mutant of Restart: the bound on the restarts is not counted towards.
MutRestart(s) ==
    /\ step' = "root" /\ scan' = s
    /\ UNCHANGED <<metric, restarts, roots, held, result>>

Restart(s) ==
    /\ restarts' = restarts + 1
    /\ step' = "root" /\ scan' = s
    /\ UNCHANGED <<metric, roots, held, result>>

-----------------------------------------------------------------------------
(* Root and issuer                                                         *)

SupplyConfigError(option) ==
    IF option.asset # "credit" THEN "invalid_asset"
    ELSE IF option.adapter # "horizon" \/ option.network # "ours" THEN "invalid_configuration"
    ELSE "none"

TrustlineConfigError(option) ==
    IF option.asset # "credit" THEN "invalid_asset"
    ELSE IF option.adapter # "horizon" \/ option.network # "ours" THEN "invalid_configuration"
    ELSE "none"

\* a pair of an asset with itself has no book
DepthConfigError(option) ==
    IF option.asset = "same pair" THEN "invalid_pair"
    ELSE IF option.adapter # "sdex" \/ option.network # "ours" THEN "invalid_configuration"
    ELSE "none"

Start(option) ==
    LET code == CASE metric = "circulating_supply" -> SupplyConfigError(option)
                  [] metric = "trustline_count" -> TrustlineConfigError(option)
                  [] metric = "order_book_depth" -> DepthConfigError(option)
        side == IF metric = "order_book_depth" THEN "ask" ELSE "asset"
    IN  /\ step = "idle" /\ metric \in Scanned
        /\ IF code # "none" THEN Fail(code) ELSE Ask("root", FreshScan(side))

RootVerdict(a) ==
    IF a.code # "ok" THEN a.code
    ELSE IF a.content = "malformed" THEN "malformed_payload"
    ELSE IF a.content = "another" THEN "network_mismatch" ELSE "none"

\* the page budget of an order book is at least two: its first page is asked for at once
Root(a, forward) ==
    /\ step = "root"
    /\ IF RootVerdict(a) # "none" THEN Fail(RootVerdict(a))
       ELSE Ask(IF metric = "order_book_depth" THEN "page" ELSE "issuer",
                Timed(Logged(scan, Request("root", 0, 0)), forward))

SupplyIssuerVerdict(a) ==
    IF a.code = "not_found" THEN "issuer_not_found"
    ELSE IF a.code # "ok" THEN a.code
    ELSE IF a.content # "asked" \/ a.header = 0 THEN "malformed_payload" ELSE "none"

TrustlineIssuerVerdict(a) ==
    IF a.code = "not_found" THEN "issuer_not_found"
    ELSE IF a.code # "ok" THEN a.code
    ELSE IF a.content # "asked" \/ a.header = 0 THEN "malformed_payload" ELSE "none"

Issuer(a, forward) ==
    LET code == IF metric = "trustline_count" THEN TrustlineIssuerVerdict(a)
                ELSE SupplyIssuerVerdict(a)
    IN  /\ step = "issuer"
        /\ IF code # "none" THEN Fail(code)
           ELSE Ask("page", Timed(Logged([scan EXCEPT !.issuerAt = a.header],
                                         Request("issuer", 0, a.header)), forward))

-----------------------------------------------------------------------------
(* The supply of an asset                                                  *)

\* assertNextPageUrl, assertNextPageAllowed: the same query and one cursor
NextAllowed(link) == link.scope = "same" /\ link.cursor # 0

\* Mutant of FenceBroken: a page is accepted at any ledger after the fence.
MutFenceBroken(a) == scan.fence # 0 /\ a.header < scan.fence

\* the answer is of another ledger than the pages before it
FenceBroken(a) == scan.fence # 0 /\ a.header # scan.fence

SupplyPageVerdict(a) ==
    IF a.code # "ok" THEN a.code
    ELSE IF a.header = 0 THEN "malformed_payload"
    ELSE IF FenceBroken(a) THEN "ledger_changed"
    ELSE IF a.content = "malformed" THEN "malformed_payload"
    ELSE IF scan.records + Len(a.records) > MaxRecords THEN "partial_scan"
    ELSE IF a.records # << >> /\ a.content = "another" THEN "malformed_payload"
    ELSE IF Len(scan.kept) + Len(a.records) > 1 THEN "duplicate_record"
    ELSE IF Len(a.records) < PageSize THEN "end"
    ELSE IF a.link = NoLink THEN "partial_scan"
    ELSE IF ~ NextAllowed(a.link) THEN "malformed_payload"
    ELSE "more"

\* Mutant of SupplyAdvanced: the cursor kept is the one of the next page.
MutSupplyAdvanced(a, next) ==
    Logged([scan EXCEPT !.fence = a.header, !.pages = @ + 1,
                !.records = @ + Len(a.records), !.last = next,
                !.seen = Append(@, scan.next),
                !.tokens = @ \o [i \in DOMAIN a.records |-> a.records[i].token],
                !.kept = @ \o a.records, !.next = next],
           Request("page", scan.next, a.header))

\* the checkpoint after an accepted page
SupplyAdvanced(a, next) ==
    Logged([scan EXCEPT !.fence = a.header, !.pages = @ + 1,
                !.records = @ + Len(a.records), !.last = scan.next,
                !.seen = Append(@, scan.next),
                !.tokens = @ \o [i \in DOMAIN a.records |-> a.records[i].token],
                !.kept = @ \o a.records, !.next = next],
           Request("page", scan.next, a.header))

\* the head of the page loop, which a resumed scan enters with its checkpoint
SupplyOnward(s) ==
    IF s.next = End
    THEN IF s.kept = << >> THEN FailAt("asset_not_found", s, FALSE) ELSE Ask("ledger", s)
    ELSE IF s.pages >= MaxPages THEN FailAt("partial_scan", s, FALSE)
    ELSE IF s.next \in Range(s.seen) THEN FailAt("duplicate_record", s, TRUE)
    ELSE Ask("page", s)

SupplyPage(a, forward) ==
    LET verdict == SupplyPageVerdict(a)
    IN  /\ step = "page" /\ metric = "circulating_supply"
        /\ IF verdict = "ledger_changed"
           THEN IF restarts < MaxRestarts THEN Restart(FreshScan("asset"))
                ELSE FailUnsafe("ledger_changed")
           ELSE IF verdict = "more" THEN SupplyOnward(Timed(SupplyAdvanced(a, a.link.cursor), forward))
           ELSE IF verdict = "end" THEN SupplyOnward(Timed(SupplyAdvanced(a, End), forward))
           ELSE FailAt(verdict, scan, verdict = "duplicate_record")

SumOfParts(parts) == MapThenSumSet(LAMBDA c: parts[c], DOMAIN parts)

SupplyObservation ==
    [kind |-> "observation", metric |-> metric, ledger |-> scan.fence,
     closedAt |-> ClosedAt[scan.fence], parts |-> scan.kept[1].parts,
     amount |-> SumOfParts(scan.kept[1].parts), pages |-> scan.pages,
     log |-> Append(scan.log, Request("ledger", 0, scan.fence))]

SupplyLedger(a) ==
    /\ step = "ledger" /\ metric = "circulating_supply"
    /\ IF a.code # "ok" THEN FailAt(a.code, scan, FALSE)
       ELSE IF a.content # "asked" THEN FailAt("malformed_payload", scan, FALSE)
       ELSE Return(SupplyObservation) /\ UNCHANGED held

\* assertCheckpointConsistent
CheckpointConsistent(c) ==
    /\ c.pages = Len(c.seen) /\ IsInjective(c.seen) /\ IsInjective(c.tokens)
    /\ c.records = Len(c.tokens) /\ c.records <= 1
    /\ c.pages = 0 <=> c.fence = 0
    /\ c.next = End => c.pages > 0
    /\ c.issuerAt # 0
    /\ c.last = IF c.seen = << >> THEN 0 ELSE Last(c.seen)
    /\ \A i \in DOMAIN c.seen: c.seen[i] = 0 <=> i = 1
    /\ c.next # End => (c.next = 0 <=> c.pages = 0) /\ c.next \notin Range(c.seen)
    /\ c.kept = << >> <=> c.records = 0
    /\ c.kept # << >> => c.tokens = <<c.kept[1].token>>
    /\ Len(c.log) = 2 + c.pages
    /\ c.log[1] = Request("root", 0, 0) /\ c.log[2] = Request("issuer", 0, c.issuerAt)
    /\ \A i \in DOMAIN c.seen: c.log[2 + i] = Request("page", c.seen[i], c.fence)
    /\ c.ordered

(* The caller goes on from the checkpoint it kept.  `same' says whether it *)
(* asks for the scan the checkpoint is of, checkpointMatches.              *)
Resume(same) ==
    /\ step = "idle" /\ metric = "circulating_supply" /\ held # NoScan
    /\ IF same /\ CheckpointConsistent(held) THEN SupplyOnward(held)
       ELSE Fail("invalid_configuration")

-----------------------------------------------------------------------------
(* Its trustlines: one page of one record, no restart                      *)

TrustlinePageVerdict(a) ==
    IF a.code # "ok" THEN a.code
    ELSE IF a.header = 0 \/ a.content = "malformed" THEN "malformed_payload"
    ELSE IF scan.issuerAt > a.header THEN "ledger_changed"
    ELSE IF a.records = << >> THEN "asset_not_found"
    ELSE IF Len(a.records) # 1 THEN "duplicate_record"
    ELSE IF a.content = "another" THEN "malformed_payload" ELSE "end"

TrustlinePage(a) ==
    LET verdict == TrustlinePageVerdict(a)
    IN  /\ step = "page" /\ metric = "trustline_count"
        /\ IF verdict # "end" THEN Fail(verdict)
           ELSE Ask("ledger", Logged([scan EXCEPT !.fence = a.header, !.kept = a.records],
                                     Request("page", 0, a.header)))

TrustlineObservation ==
    [kind |-> "observation", metric |-> metric, ledger |-> scan.fence,
     closedAt |-> ClosedAt[scan.fence], parts |-> scan.kept[1].accounts,
     amount |-> SumOfParts(scan.kept[1].accounts), pages |-> 1,
     log |-> Append(scan.log, Request("ledger", 0, scan.fence))]

TrustlineLedger(a) ==
    /\ step = "ledger" /\ metric = "trustline_count"
    /\ IF a.code # "ok" THEN Fail(a.code)
       ELSE IF a.content # "asked" THEN Fail("malformed_payload")
       ELSE Return(TrustlineObservation) /\ UNCHANGED held

-----------------------------------------------------------------------------
(* An order book: the asks, then the bids of the same ledger               *)

\* what the asks have left of the budgets
PageBudget == MaxPages - scan.askPages
RecordBudget == MaxRecords - Len(scan.asks)

TokensOf(records) == {records[i].token: i \in DOMAIN records}

\* scanSide, one page: the token of each record, then its content
DepthPageVerdict(a) ==
    IF a.code # "ok" THEN a.code
    ELSE IF a.header = 0 THEN "malformed_payload"
    ELSE IF FenceBroken(a) THEN "ledger_changed"
    ELSE IF a.content = "malformed" THEN "malformed_payload"
    ELSE IF Len(scan.kept) + Len(a.records) > RecordBudget THEN "partial_scan"
    ELSE IF Cardinality(TokensOf(scan.kept \o a.records)) < Len(scan.kept \o a.records)
         THEN "duplicate_record"
    ELSE IF a.records # << >> /\ a.content = "another" THEN "malformed_payload"
    ELSE IF a.link = NoLink \/ a.records = << >> THEN "end"
    ELSE IF ~ NextAllowed(a.link) THEN "malformed_payload"
    ELSE "more"

DepthAdvanced(a, next) ==
    Logged([scan EXCEPT !.fence = a.header, !.pages = @ + 1, !.seen = Append(@, scan.next),
                !.kept = @ \o a.records, !.next = next],
           Request("page", scan.next, a.header))

\* the scan of the bids, fenced by the ledger of the asks
BidScan(s) ==
    [s EXCEPT !.side = "bid", !.next = 0, !.pages = 0, !.seen = << >>, !.kept = << >>,
              !.asks = s.kept, !.askPages = s.pages]

DepthOnward(s) ==
    IF s.pages >= PageBudget THEN Fail("partial_scan")
    ELSE IF s.next \in Range(s.seen) THEN FailUnsafe("duplicate_record")
    ELSE Ask("page", s)

DepthSideDone(s) ==
    IF s.side = "bid" THEN Ask("ledger", s)
    ELSE IF s.pages >= MaxPages \/ Len(s.kept) >= MaxRecords THEN Fail("partial_scan")
    ELSE Ask("page", BidScan(s))

DepthPage(a) ==
    LET verdict == DepthPageVerdict(a)
    IN  /\ step = "page" /\ metric = "order_book_depth"
        /\ IF verdict = "ledger_changed"
           THEN IF restarts < MaxRestarts THEN Restart(FreshScan("ask"))
                ELSE FailUnsafe("ledger_changed")
           ELSE IF verdict = "more" THEN DepthOnward(DepthAdvanced(a, a.link.cursor))
           ELSE IF verdict = "end" THEN DepthSideDone(DepthAdvanced(a, End))
           ELSE IF verdict = "duplicate_record" THEN FailUnsafe(verdict)
           ELSE Fail(verdict)

DepthObservation ==
    LET asks == SortedLevels("ask", scan.asks)
        bids == SortedLevels("bid", scan.kept)
    IN  [kind |-> "observation", metric |-> metric, ledger |-> scan.fence,
         closedAt |-> ClosedAt[scan.fence], asks |-> asks, bids |-> bids,
         status |-> BookStatus(bids, asks), buckets |-> Buckets(bids, asks),
         pages |-> scan.askPages + scan.pages,
         log |-> Append(scan.log, Request("ledger", 0, scan.fence))]

(* The checks of a book that was read to its end, at the time `now'.  An   *)
(* offer was modified when its ledger closed.                              *)
DepthVerdict(a, now) ==
    LET asks == SortedLevels("ask", scan.asks)
        bids == SortedLevels("bid", scan.kept)
        age == now - ClosedAt[scan.fence]
    IN  IF a.code # "ok" THEN a.code
        ELSE IF a.content # "asked" THEN "malformed_payload"
        ELSE IF \E l \in Range(asks) \cup Range(bids): l.modified > scan.fence
             THEN "malformed_payload"
        ELSE IF \E l \in Range(asks) \cup Range(bids):
                    l.modified \in Ledgers /\ ClosedAt[l.modified] > ClosedAt[scan.fence]
             THEN "malformed_payload"
        ELSE IF age < 0 THEN "malformed_payload"
        ELSE IF age > MaximumAge THEN "stale_book"
        ELSE IF Crossed(bids, asks) THEN "crossed_book" ELSE "none"

DepthLedger(a, now) ==
    LET code == DepthVerdict(a, now)
    IN  /\ step = "ledger" /\ metric = "order_book_depth"
        /\ IF code # "none" THEN Fail(code)
           ELSE Return(DepthObservation) /\ UNCHANGED held

-----------------------------------------------------------------------------
(* The latest ledger of the endpoints, and an archive artifact             *)

Accepted(answers) == {e \in DOMAIN answers: RootVerdict(answers[e]) = "none"}

\* the roots of all endpoints, then the ledgers of those on the expected network
Roots(answers) ==
    /\ step = "idle" /\ metric = "latest_ledger"
    /\ step' = "heads" /\ roots' = answers
    /\ UNCHANGED <<metric, scan, restarts, held, result>>

\* "another" answer has no ledger record
HeadVerdict(a) ==
    IF a.code # "ok" THEN a.code
    ELSE IF a.content = "malformed" THEN "malformed_payload"
    ELSE IF a.content = "another" THEN "empty_ledger_records" ELSE "none"

Heads(answers) ==
    LET code == [e \in Endpoints |-> IF e \in Accepted(roots) THEN HeadVerdict(answers[e])
                                     ELSE RootVerdict(roots[e])]
    IN  /\ step = "heads"
        /\ Return([kind |-> "observation", metric |-> metric,
                   heads |-> [e \in {d \in Endpoints: code[d] = "none"} |-> answers[e].header],
                   errors |-> [e \in {d \in Endpoints: code[d] # "none"} |-> code[e]],
                   excluded |-> Cardinality({e \in Endpoints: code[e] = "network_mismatch"})])
        /\ UNCHANGED held

(* One request for one artifact; `event' is "none" when it brings one.     *)
ReadArchive(option, event, artifact, manifest, now) ==
    LET code == IF ArchiveConfigError(option) # "none" THEN ArchiveConfigError(option)
                ELSE IF event # "none" THEN ArchiveRequest(event)
                ELSE ArchiveVerdict(artifact, manifest, now)
    IN  /\ step = "idle" /\ metric = "archive"
        /\ IF code # "none" THEN Fail(code)
           ELSE /\ Return([kind |-> "observation", metric |-> metric,
                           ledger |-> artifact.ledger, closedAt |-> artifact.closedAt,
                           hash |-> artifact.hash, parts |-> artifact.parts,
                           amount |-> ArtifactTotal(artifact), manifest |-> manifest])
                /\ UNCHANGED held

-----------------------------------------------------------------------------
(* The caller                                                              *)

(* The caller's signal aborts the request in flight, the first of a scan   *)
(* of ledgers or of an archive too.  The order-book connector makes an     *)
(* error of it, the others throw; a latest-ledger request that is aborted  *)
(* while its body is read is one with a slow body (horizon.ts:287, 341).   *)
Abort ==
    /\ \/ step \in {"root", "issuer", "page", "ledger", "heads"}
       \/ step = "idle" /\ metric \in {"latest_ledger", "archive"}
    /\ IF metric = "order_book_depth"
       THEN \E code \in {"request_aborted", "malformed_payload"}: Fail(code)
       ELSE Return([kind |-> "thrown"]) /\ UNCHANGED held

\* the result is taken; the connector may be called again
Take ==
    /\ step = "done"
    /\ step' = "idle" /\ result' = NoResult
    /\ UNCHANGED <<metric, scan, restarts, roots, held>>

Init ==
    /\ metric \in Measured
    /\ step = "idle" /\ scan = NoScan /\ restarts = 0 /\ roots = << >>
    /\ held = NoScan /\ result = NoResult

\* the answers the page request in flight can get; /assets is asked for one trustline record
PageReplies ==
    IF step # "page" THEN {}
    ELSE PageAnswers(metric, scan.side, scan.next,
                     IF metric = "trustline_count" THEN 1 ELSE PageSize)

\* an answer arrives, or the time limit of its request passes
Answered ==
    \/ \E a \in RootAnswers(metric), forward \in Forward: Root(a, forward)
    \/ \E a \in IssuerAnswers(metric), forward \in Forward: Issuer(a, forward)
    \/ \E a \in PageReplies, forward \in Forward: SupplyPage(a, forward)
    \/ \E a \in PageReplies: TrustlinePage(a)
    \/ \E a \in PageReplies: DepthPage(a)
    \/ \E a \in LedgerAnswers(metric): SupplyLedger(a)
    \/ \E a \in LedgerAnswers(metric): TrustlineLedger(a)
    \/ \E a \in LedgerAnswers(metric), now \in Times: DepthLedger(a, now)
    \/ \E answers \in [Accepted(roots) -> HeadAnswers]: Heads(answers)

Next ==
    \/ \E option \in Options: Start(option)
    \/ \E same \in BOOLEAN: Resume(same)
    \/ \E answers \in [Endpoints -> RootAnswers("latest_ledger")]: Roots(answers)
    \/ \E option \in Options, event \in Events \cup {"none"}, artifact \in Artifacts,
          manifest \in Manifests, now \in Times:
           ReadArchive(option, event, artifact, manifest, now)
    \/ Answered
    \/ Abort
    \/ Take

Spec == Init /\ [][Next]_vars /\ WF_vars(Answered)
-----------------------------------------------------------------------------
(* Properties                                                              *)

(* What r says is what was in its ledger: no record of it is missing and   *)
(* none is counted twice.                                                  *)
Exact(r) ==
    CASE r.metric = "circulating_supply" ->
             /\ [i \in {1} |-> r.parts] =
                    [i \in DOMAIN Asset[r.ledger] |-> Asset[r.ledger][i].parts]
             /\ r.closedAt = ClosedAt[r.ledger]
      [] r.metric = "trustline_count" ->
             [i \in {1} |-> r.parts] =
                 [i \in DOMAIN Asset[r.ledger] |-> Asset[r.ledger][i].accounts]
      [] r.metric = "order_book_depth" ->
             LET book == Book[r.ledger]
             IN  /\ Len(r.asks) = Len(book.ask) /\ Len(r.bids) = Len(book.bid)
                 /\ Range(r.asks) = {Level("ask", o): o \in Range(book.ask)}
                 /\ Range(r.bids) = {Level("bid", o): o \in Range(book.bid)}
      [] r.metric = "latest_ledger" ->
             Range(r.heads) \subseteq Ledgers
      [] r.metric = "archive" ->
             /\ r.ledger = r.manifest.ledger
             /\ r.hash = r.manifest.hash

(* An observation is the state of one ledger and complete: every page, the *)
(* two sides of a book and the closing time are of the ledger it names,    *)
(* nothing is missing and nothing counted twice, although the ledger       *)
(* changes between the requests (horizon-supply.ts:703,                    *)
(* horizon-depth.ts:442) and a scan is resumed at a later ledger.          *)
SnapshotExact == result.kind = "observation" => Exact(result)

(* A checkpoint returned without a demand to restart is one the connector  *)
(* takes back, unless the clock was set back during one of its requests:   *)
(* the pages it counts, their ledger, its cursor and the log of its        *)
(* requests agree, after any number of resumed scans                       *)
(* (docs/connectors/horizon-onchain-asset-supply.md:29-33).  A request     *)
(* that ended before it began refuses the checkpoint                       *)
(* (horizon-supply.ts:514), though it was returned like any other.         *)
CheckpointResumable ==
    LET c == result.checkpoint
    IN  result.kind = "error" /\ c # NoScan /\ ~ result.restart /\ c.ordered =>
            CheckpointConsistent(c)

Executable(book) ==
    /\ \A l \in Range(book.bids): l.base * l.price.n <= l.counter * l.price.d
    /\ \A b, c \in book.buckets: b.side = c.side /\ b.band <= c.band => b.amount <= c.amount

(* A bucket never claims more than its offers can execute: the base amount *)
(* of the bids in a band costs at most the counter asset they offer, and a *)
(* wider band holds at least what a narrower one does                      *)
(* (docs/methodology/order-book-depth-v0.1.md, "Sides, units, and rounding").*)
BucketsExecutable ==
    result.kind = "observation" /\ result.metric = "order_book_depth" => Executable(result)

(* A scan comes to an end: each request is answered or runs into its time  *)
(* limit, and neither pages nor restarts go on for ever, however the       *)
(* ledgers of the answers alternate.                                       *)
ScanEnds == [](step \notin {"idle", "done"} => <>(step = "done"))
=============================================================================
