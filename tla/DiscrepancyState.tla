--------------------------- MODULE DiscrepancyState ---------------------------
(***************************************************************************)
(* The discrepancy state machine of one source on one subject,             *)
(* lib/reconcile/discrepancy-state.ts: what a completed cycle makes of the *)
(* persisted state, and what a publication action makes of it.  Identity   *)
(* checks that compare constant fields (source, methodology) are left out. *)
(***************************************************************************)
EXTENDS Naturals

CONSTANTS
    Cycle,        \* the finalized cycles a state can name
    NoState,      \* null
    Named,        \* namedParty: the metric attributes the source to an anchor
    ReplyWindow   \* replyWindowHours, in ticks

ASSUME NamedAssumption == Named \in BOOLEAN
ASSUME ReplyWindowAssumption == ReplyWindow \in Nat \ {0}

\* DeviationBand.
Band == {"within", "info", "above"}

Lifecycle == {"open", "resolved"}
Severity == {"info", "warning", "critical"}
Publication == {"internal", "pending_reply", "approved_public", "withheld"}
Reply == {"not_required", "awaiting_reply", "response_received",
          "response_reviewed", "window_expired"}

\* PersistedDiscrepancyState, less its constant fields.
State == [lifecycle : Lifecycle, severity : Severity,
          publication : Publication, reply : Reply,
          cycles : Nat,       \* consecutiveCycles
          above : Nat,        \* consecutiveAboveInfoCycles
          first : Nat,        \* firstObservedAt
          observed : Nat,     \* lastObservedAt
          finalizedAt : Nat,  \* lastFinalizedCycleAt
          finalizedBy : Cycle,
          publicationAt : Nat]

ASSUME NoStateAssumption == NoState \notin State

\* persistedDiscrepancyStateSchema: what every state is parsed through.
TimesOrdered(r) ==
    /\ r.first <= r.observed
    /\ r.observed <= r.finalizedAt
    /\ r.first <= r.publicationAt

StreakFits(r) ==
    /\ r.above <= r.cycles
    /\ r.lifecycle = "resolved" => r.cycles = 0
    /\ r.lifecycle = "open" =>
          /\ r.cycles > 0
          /\ r.severity = "info" <=> r.above = 0
          /\ r.severity = "critical" <=> r.above >= 3

PublicationFits(r) ==
    /\ r.severity = "info" => r.publication = "internal"
    /\ r.publication = "internal" => r.reply = "not_required"
    /\ r.publication = "pending_reply" => Named /\ r.reply # "not_required"
    /\ r.publication = "approved_public" =>
          r.reply \in IF Named THEN {"response_reviewed", "window_expired"}
                      ELSE {"not_required"}

Valid(r) == r \in State /\ TimesOrdered(r) /\ StreakFits(r) /\ PublicationFits(r)

-----------------------------------------------------------------------------
(* advanceDiscrepancyState                                                 *)

IsOpen(r) == r # NoState /\ r.lifecycle = "open"

\* A duplicate cycle, or one that completed no later than the last, is ignored.
Ignored(prior, k, at) ==
    prior # NoState /\ (k = prior.finalizedBy \/ at <= prior.finalizedAt)

\* Mutant of SeverityOf: Critical on the second cycle.
MutSeverityEarly(band, above) ==
    IF band = "info" THEN "info" ELSE IF above >= 2 THEN "critical" ELSE "warning"

\* classifyMeasurementSeverity, of a band out of tolerance.
SeverityOf(band, above) ==
    IF band = "info" THEN "info" ELSE IF above >= 3 THEN "critical" ELSE "warning"

Resolve(prior, k, at) ==
    [prior EXCEPT !.lifecycle = "resolved", !.cycles = 0, !.above = 0,
                  !.observed = at, !.finalizedAt = at, !.finalizedBy = k]

\* A resolved state only moves its last finalized cycle.
Refresh(prior, k, at) == [prior EXCEPT !.finalizedAt = at, !.finalizedBy = k]

\* Mutant of AboveStreak: cycles in the Info band count.
MutAboveStreakOfAll(prior, band) ==
    IF band # "above" THEN 0 ELSE IF IsOpen(prior) THEN prior.cycles + 1 ELSE 1

AboveStreak(prior, band) ==
    IF band # "above" THEN 0 ELSE IF IsOpen(prior) THEN prior.above + 1 ELSE 1

\* Publication survives while the discrepancy stays open above Info.
KeepsPublication(prior, band) == IsOpen(prior) /\ band = "above"

\* The occurrence continues, or a new one opens.
Observe(prior, k, at, band) ==
    LET above == AboveStreak(prior, band)
        kept  == KeepsPublication(prior, band)
    IN  [lifecycle |-> "open",
         severity |-> SeverityOf(band, above),
         publication |-> IF kept THEN prior.publication ELSE "internal",
         reply |-> IF kept THEN prior.reply ELSE "not_required",
         cycles |-> IF IsOpen(prior) THEN prior.cycles + 1 ELSE 1,
         above |-> above,
         first |-> IF IsOpen(prior) THEN prior.first ELSE at,
         observed |-> at, finalizedAt |-> at, finalizedBy |-> k,
         publicationAt |-> IF kept THEN prior.publicationAt ELSE at]

Advance(prior, k, at, band) ==
    IF band # "within" THEN Observe(prior, k, at, band)
    ELSE IF prior = NoState THEN NoState
    ELSE IF IsOpen(prior) THEN Resolve(prior, k, at) ELSE Refresh(prior, k, at)

Rank(severity) == CASE severity = "info" -> 0
                    [] severity = "warning" -> 1
                    [] severity = "critical" -> 2

\* Mutant of EventTypes: a resolved state resolves again.
MutEventTypesRepeat(prior, band, after) ==
    IF band = "within" THEN IF prior # NoState THEN <<"reconverged", "resolved">> ELSE <<>>
    ELSE IF ~IsOpen(prior) THEN <<"opened">> ELSE <<"observed">>

\* The measurement events the cycle appends, in order.
EventTypes(prior, band, after) ==
    IF band = "within" THEN IF IsOpen(prior) THEN <<"reconverged", "resolved">> ELSE <<>>
    ELSE IF ~IsOpen(prior) THEN <<"opened">>
    ELSE IF Rank(after.severity) > Rank(prior.severity) THEN <<"escalated">>
    ELSE <<"observed">>

-----------------------------------------------------------------------------
(* transitionDiscrepancyPublication                                        *)

Action == {"begin_reply", "record_response", "review_response",
           "expire_reply_window", "approve", "withhold"}

\* Mutant of Heard: an unanswered window need not have expired.
MutHeardOnResponse(r) ==
    Named => r.reply \in {"awaiting_reply", "response_reviewed", "window_expired"}

\* The named party has answered and was read, or had its time.
Heard(r) == Named => r.reply \in {"response_reviewed", "window_expired"}

\* What the switch requires of the state; anything else throws.
Allows(r, action, at) ==
    /\ at >= r.publicationAt
    /\ CASE action = "begin_reply" ->
              /\ Named /\ r.lifecycle = "open" /\ r.severity # "info"
              /\ r.publication = "internal" /\ r.reply = "not_required"
         [] action = "record_response" ->
              r.publication = "pending_reply" /\ r.reply = "awaiting_reply"
         [] action = "review_response" ->
              r.publication = "pending_reply" /\ r.reply = "response_received"
         [] action = "expire_reply_window" ->
              /\ r.publication = "pending_reply" /\ r.reply = "awaiting_reply"
              /\ at - r.publicationAt >= ReplyWindow
         [] action = "approve" ->
              /\ r.severity # "info"
              /\ Heard(r)
              /\ r.publication \in {"internal", "pending_reply"}
         [] action = "withhold" ->
              r.severity # "info" /\ r.publication # "withheld"

ReplyAfter(r, action) ==
    CASE action = "begin_reply" -> "awaiting_reply"
      [] action = "record_response" -> "response_received"
      [] action = "review_response" -> "response_reviewed"
      [] action = "expire_reply_window" -> "window_expired"
      [] OTHER -> r.reply

PublicationAfter(r, action) ==
    CASE action = "begin_reply" -> "pending_reply"
      [] action = "approve" -> "approved_public"
      [] action = "withhold" -> "withheld"
      [] OTHER -> r.publication

Transitioned(r, action, at) ==
    [r EXCEPT !.publication = PublicationAfter(r, action),
              !.reply = ReplyAfter(r, action),
              !.publicationAt = at]
=============================================================================
