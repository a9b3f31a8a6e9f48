--------------------------- MODULE HorizonService ---------------------------
(***************************************************************************)
(* What a connector of lib/stellar sees of Horizon.  The service is not    *)
(* part of this repository: an endpoint may have several instances behind  *)
(* it, each at its own ledger, so that an answer is of any ledger of       *)
(* `Ledgers', whatever the answers before it were.  The content of an      *)
(* answer and its Latest-Ledger header are of one ledger; a page with      *)
(* records links to its successor.  Beside the answers that say the truth  *)
(* there are failed requests and those a connector can tell are wrong.     *)
(***************************************************************************)
EXTENDS Integers, FiniteSets, Sequences, SequencesExt

CONSTANTS
    Ledgers,        \* the ledgers an answer can be of
    ClosedAt,       \* ClosedAt[ledger]: the time it closed
    Asset,          \* Asset[ledger]: /assets, at most one record [token, parts, accounts]
    Book            \* Book[ledger]: /offers, [bid, ask], offers by rising token

ASSUME ServiceAssumption ==
    /\ Ledgers \subseteq Nat \ {0}
    /\ ClosedAt \in [Ledgers -> Nat]

Positive == Nat \ {0}

\* an offer and its price_r
OfferRecord == [token: Positive, price: [n: Positive, d: Positive], amount: Positive, modified: Nat]

ASSUME RecordsAssumption ==
    \A L \in Ledgers:
        /\ Asset[L] # << >> => Asset[L] = <<Asset[L][1]>> /\ Asset[L][1].token \in Positive
        /\ \A side \in {"ask", "bid"}:
               /\ Book[L][side] \in Seq(OfferRecord)
               /\ \A i, j \in DOMAIN Book[L][side]:
                      i < j => Book[L][side][i].token < Book[L][side][j].token

NoLink == [scope |-> "none", cursor |-> 0]
Blank == [code |-> "ok", header |-> 0, content |-> "asked", records |-> << >>, link |-> NoLink]

\* what becomes of a request that brings no payload
Events == {"unreachable", "timeout", "slow_body", "redirect", "http_error", "oversized",
           "not_json"}

(* The codes of such a request.  fetch with redirect 'error' rejects a     *)
(* redirect as it does a lost connection: the test for one after it serves *)
(* other implementations of fetch.                                         *)
SupplyRequest(event) ==
    CASE event \in {"unreachable", "redirect"} -> "request_failed"
      [] event \in {"timeout", "slow_body"} -> "request_aborted"
      [] event = "http_error" -> "non_200_response"
      [] event = "oversized" -> "response_too_large"
      [] event = "not_json" -> "malformed_payload"

TrustlineRequest(event) ==
    CASE event \in {"unreachable", "redirect"} -> "request_failed"
      [] event \in {"timeout", "slow_body"} -> "request_aborted"
      [] event = "http_error" -> "non_200_response"
      [] event = "oversized" -> "response_too_large"
      [] event = "not_json" -> "malformed_payload"

\* with redirect 'manual'; a timeout in the middle of a body is taken for a bad body
DepthRequest(event) ==
    CASE event = "unreachable" -> "request_failed"
      [] event = "timeout" -> "request_aborted"
      [] event = "redirect" -> "redirect_rejected"
      [] event = "http_error" -> "non_200_response"
      [] event = "oversized" -> "response_too_large"
      [] event \in {"slow_body", "not_json"} -> "malformed_payload"

\* responseFailure, and the catch clauses of the requests of horizon.ts
LedgerRequest(event) ==
    CASE event \in {"unreachable", "redirect"} -> "request_failed"
      [] event = "timeout" -> "request_aborted"
      [] event = "http_error" -> "non_200_response"
      [] event = "oversized" -> "response_too_large"
      [] event \in {"slow_body", "not_json"} -> "malformed_payload"

RequestCode(metric, event) ==
    CASE metric = "circulating_supply" -> SupplyRequest(event)
      [] metric = "trustline_count" -> TrustlineRequest(event)
      [] metric = "order_book_depth" -> DepthRequest(event)
      [] OTHER -> LedgerRequest(event)

Failed(metric) == {[Blank EXCEPT !.code = RequestCode(metric, e)]: e \in Events}

-----------------------------------------------------------------------------
(* The answers to each request                                             *)

RootAnswers(metric) ==
    Failed(metric) \cup {[Blank EXCEPT !.content = c]: c \in {"asked", "another", "malformed"}}

\* "another" account is not the issuer; a zero header is a missing or invalid one
IssuerAnswers(metric) ==
    Failed(metric)
        \cup {[Blank EXCEPT !.code = "not_found"], Blank, [Blank EXCEPT !.content = "another"]}
        \cup {[Blank EXCEPT !.header = L]: L \in Ledgers}

\* the records of `what' at a ledger: the asset, or the offers of a side
RecordsOf(what, L) == IF what = "asset" THEN Asset[L] ELSE Book[L][what]

Following(records, cursor, size) ==
    LET passed == Cardinality({i \in DOMAIN records: records[i].token <= cursor})
        last == IF passed + size < Len(records) THEN passed + size ELSE Len(records)
    IN  SubSeq(records, passed + 1, last)

\* the page after `cursor' at ledger L, and its link
PageOf(what, L, cursor, size) ==
    LET records == Following(RecordsOf(what, L), cursor, size)
    IN  [Blank EXCEPT !.header = L, !.records = records,
             !.link = [scope |-> "same",
                       cursor |-> IF records = << >> THEN cursor ELSE Last(records).token]]

(* The true page; one sent twice over, one that starts from the beginning, *)
(* one that links to itself, or elsewhere; one of other records, one that  *)
(* cannot be read, one without its ledger; and the end of the records.     *)
PagesAt(what, L, cursor, size) ==
    LET page == PageOf(what, L, cursor, size)
    IN  {page,
         [page EXCEPT !.records = @ \o @],
         [page EXCEPT !.records = PageOf(what, L, 0, size).records],
         [page EXCEPT !.link.cursor = cursor],
         [page EXCEPT !.link.scope = "foreign"],
         [page EXCEPT !.content = "another"],
         [page EXCEPT !.content = "malformed"],
         [page EXCEPT !.header = 0]}
        \cup {p \in {[page EXCEPT !.link = NoLink]}: what = "asset" \/ p.records = << >>}

PageAnswers(metric, what, cursor, size) ==
    Failed(metric) \cup UNION {PagesAt(what, L, cursor, size): L \in Ledgers}

\* /ledgers/{sequence}: a closed ledger does not change
LedgerAnswers(metric) ==
    Failed(metric) \cup {[Blank EXCEPT !.content = c]: c \in {"asked", "another", "malformed"}}

\* /ledgers?order=desc&limit=1; `another' holds no record
HeadAnswers ==
    Failed("latest_ledger") \cup {[Blank EXCEPT !.header = L]: L \in Ledgers}
        \cup {[Blank EXCEPT !.content = c]: c \in {"another", "malformed"}}
=============================================================================
