----------------------------- MODULE RightOfReply -----------------------------
(***************************************************************************)
(* The right of reply of a named anchor: worker processes open a case on   *)
(* its discrepancy, notify its contacts under leases and expire the reply  *)
(* window (runAnchorWorkflowOnce, createAnchorCaseRepository); the anchor  *)
(* replies, reviewers decide, administrators requeue and retract.  All of  *)
(* it moves the same discrepancies row as the completed cycles of          *)
(* DiscrepancyProjection.                                                  *)
(*                                                                         *)
(* Contacts are verified, unrevoked and have their secrets, principals hold*)
(* their scopes, and named-party publication is enabled.  Clocks agree.    *)
(***************************************************************************)
EXTENDS DiscrepancyProjection, Functions

CONSTANTS
    Contact, Worker, NoWorker,
    MaxAttempts,    \* maximumAttempts
    LeaseTime,      \* leaseDurationMs, in ticks
    MaxSends,       \* bound on the dispatches
    MayCrash        \* whether processes crash on their own

ASSUME NoWorkerAssumption == NoWorker \notin Worker
ASSUME AttemptsAssumption == MaxAttempts \in Nat \ {0} /\ MaxSends \in Nat
ASSUME LeaseTimeAssumption == LeaseTime \in Nat \ {0}
ASSUME MayCrashAssumption == MayCrash \in BOOLEAN

Never == 0  \* a null timestamp: the clock starts at 1

CaseRow == [status : {"none", "draft", "awaiting_reply", "under_review", "resolved"}, due : Nat]

NoticeRow == [status : {"none", "pending", "failed", "sent"},
              next : Nat,       \* nextAttemptAt
              owner : Worker \cup {NoWorker}, token : Nat, expires : Nat,
              attempts : Nat]

\* A claimed notice and, once it was dispatched, its result: when it completed
\* and whether to try again.
Claim == [contact : Contact, token : Nat, attempts : Nat,
          result : {"claimed", "sent", "retry", "failed"}, at : Nat]

Pass == [step : {"open", "claim", "deliver"}, claims : SUBSET Claim]
NewPass == [step |-> "open", claims |-> {}]

Entry == [action : Action \cup {"retract"}, at : Nat]

VARIABLES
    anchorCase,     \* the case of the discrepancy
    notice,         \* notifications, by contact
    pass,           \* what each worker process is doing
    sends,          \* history: dispatches to each contact
    log             \* the publication events and retractions, in order

measurement == <<lifecycle, job, batch, history, late>>
workflow == <<anchorCase, notice, pass, sends, log>>
allVars == <<vars, workflow>>

Row == table[SourceId]

WorkflowInit ==
    /\ Init
    /\ anchorCase = [status |-> "none", due |-> Never]
    /\ notice = [c \in Contact |-> [status |-> "none", next |-> Never, owner |-> NoWorker,
                                    token |-> 0, expires |-> Never, attempts |-> 0]]
    /\ pass = [w \in Worker |-> NewPass]
    /\ sends = [c \in Contact |-> 0]
    /\ log = <<>>

Entered(action, at) == Append(log, [action |-> action, at |-> at])

-----------------------------------------------------------------------------
(* A pass of a worker process.                                             *)

\* assertEligibleDiscrepancy, and no case yet.
Eligible ==
    /\ anchorCase.status = "none"
    /\ Named /\ IsOpen(Row)
    /\ Row.severity # "info"
    /\ Row.publication = "internal"

\* One notice per contact; without a verified contact the case fails to open
\* and the pass goes on.
OpenCases(w) ==
    /\ pass[w].step = "open"
    /\ pass' = [pass EXCEPT ![w].step = "claim"]
    /\ \/ /\ Eligible
          /\ anchorCase' = [status |-> "draft", due |-> Never]
          /\ \E contacts \in SUBSET Contact \ {{}} :
                notice' = [c \in Contact |-> IF c \in contacts
                                             THEN [notice[c] EXCEPT !.status = "pending"]
                                             ELSE notice[c]]
       \/ UNCHANGED <<anchorCase, notice>>
    /\ UNCHANGED <<now, measurement, table, sends, log>>

DueNotice(n) ==
    /\ n.status = "pending" \/ (n.status = "failed" /\ n.next # Never /\ n.next <= now)
    /\ n.owner = NoWorker \/ n.expires <= now

Leased(n, w) == [n EXCEPT !.owner = w, !.token = @ + 1, !.expires = now + LeaseTime]

ClaimNotices(w) ==
    LET due == {c \in Contact : DueNotice(notice[c])}
    IN  /\ pass[w].step = "claim"
        /\ notice' = [c \in Contact |-> IF c \in due THEN Leased(notice[c], w) ELSE notice[c]]
        /\ pass' = [pass EXCEPT ![w] =
              [step |-> "deliver",
               claims |-> {[contact |-> c, token |-> notice'[c].token,
                            attempts |-> notice[c].attempts,
                            result |-> "claimed", at |-> Never] : c \in due}]]
        /\ UNCHANGED <<now, measurement, table, anchorCase, sends, log>>

\* The notice is dispatched: it is delivered, or fails for now or for good.
Dispatch(w) ==
    /\ pass[w].step = "deliver"
    /\ \E x \in pass[w].claims, result \in {"sent", "retry", "failed"} :
          /\ x.result = "claimed"
          /\ result = "retry" => x.attempts + 1 < MaxAttempts
          /\ SumFunction(sends) < MaxSends
          /\ pass' = [pass EXCEPT ![w].claims =
                        (@ \ {x}) \cup {[x EXCEPT !.result = result, !.at = now]}]
          /\ sends' = [sends EXCEPT ![x.contact] = @ + 1]
    /\ UNCHANGED <<now, measurement, table, anchorCase, notice, log>>

\* Mutant of Fenced: the lease is not checked.
MutFencedNever(w, x) == TRUE

Fenced(w, x) == notice[x.contact].owner = w /\ notice[x.contact].token = x.token

\* A delivery starts the reply window of an internal discrepancy.
Begins(x) == x.result = "sent" /\ Row.publication = "internal"

RecordedNotice(n, x) ==
    [n EXCEPT !.status = IF x.result = "sent" THEN "sent" ELSE "failed",
              !.next = IF x.result = "retry" THEN x.at + 1 ELSE Never,
              !.owner = NoWorker, !.expires = Never,
              !.attempts = @ + 1]

\* Mutant of BegunCase: the window runs from the commit.
MutBegunCaseFromNow(x) == [status |-> "awaiting_reply", due |-> now + ReplyWindow]

BegunCase(x) == [status |-> "awaiting_reply", due |-> x.at + ReplyWindow]

\* recordDeliveryAttempt commits.
Record(w, x) ==
    /\ pass[w].step = "deliver" /\ x \in pass[w].claims /\ x.result # "claimed"
    /\ pass' = [pass EXCEPT ![w].claims = @ \ {x}]
    /\ \/ notice[x.contact].status = "sent" /\ UNCHANGED <<notice, anchorCase, table, log>>
       \/ /\ notice[x.contact].status # "sent"
          /\ Fenced(w, x)
          /\ notice' = [notice EXCEPT ![x.contact] = RecordedNotice(@, x)]
          /\ \/ /\ Begins(x)
                /\ Allows(Row, "begin_reply", x.at)
                /\ table' = [table EXCEPT ![SourceId] = Transitioned(@, "begin_reply", x.at)]
                /\ anchorCase' = BegunCase(x)
                /\ log' = Entered("begin_reply", x.at)
             \/ ~Begins(x) /\ UNCHANGED <<anchorCase, table, log>>
    /\ UNCHANGED <<now, measurement, sends>>

\* It throws, outside any try: nothing is written, and the process goes down
\* and starts over.
RecordThrows(w, x) ==
    /\ pass[w].step = "deliver" /\ x \in pass[w].claims /\ x.result # "claimed"
    /\ notice[x.contact].status # "sent"
    /\ ~Fenced(w, x) \/ (Begins(x) /\ ~Allows(Row, "begin_reply", x.at))
    /\ pass' = [pass EXCEPT ![w] = NewPass]
    /\ UNCHANGED <<vars, anchorCase, notice, sends, log>>

\* The rows expireDueReplyWindows selects.
WindowDue ==
    /\ anchorCase.status = "awaiting_reply"
    /\ anchorCase.due # Never /\ anchorCase.due <= now
    /\ Row.publication = "pending_reply" /\ Row.reply = "awaiting_reply"

\* The ids of the expiry events name the discrepancy and the case alone.
ExpiryThrows ==
    \/ ~Allows(Row, "expire_reply_window", now)
    \/ \E i \in DOMAIN log : log[i].action = "expire_reply_window"

\* The pass ends with the windows; where the expiry throws the process goes down
\* and starts over.
ExpireWindow(w) ==
    /\ pass[w].step = "deliver" /\ pass[w].claims = {}
    /\ pass' = [pass EXCEPT ![w] = NewPass]
    /\ \/ /\ WindowDue /\ ~ExpiryThrows
          /\ table' = [table EXCEPT ![SourceId] = Transitioned(@, "expire_reply_window", now)]
          /\ anchorCase' = [anchorCase EXCEPT !.status = "under_review"]
          /\ log' = Entered("expire_reply_window", now)
       \/ ~WindowDue /\ UNCHANGED <<table, anchorCase, log>>
       \/ WindowDue /\ ExpiryThrows /\ UNCHANGED <<table, anchorCase, log>>
    /\ UNCHANGED <<now, measurement, notice, sends>>

\* A crash, or a shutdown: what was claimed is left to its lease.
Crash(w) ==
    /\ MayCrash
    /\ pass[w] # NewPass
    /\ pass' = [pass EXCEPT ![w] = NewPass]
    /\ UNCHANGED <<vars, anchorCase, notice, sends, log>>

-----------------------------------------------------------------------------
(* The anchor, its reviewers and the administrators.                       *)

\* Mutant of Reviewable: a resolved case still is.
MutReviewableResolved == anchorCase.status \notin {"none", "draft"}

Reviewable == anchorCase.status \in {"awaiting_reply", "under_review"}

\* submitReply; a response that does not answer an awaited reply is kept only.
SubmitReply ==
    /\ Reviewable
    /\ anchorCase.due # Never /\ anchorCase.due > now
    /\ anchorCase' = [anchorCase EXCEPT !.status = "under_review"]
    /\ IF Row.reply = "awaiting_reply"
       THEN /\ Allows(Row, "record_response", now)
            /\ table' = [table EXCEPT ![SourceId] = Transitioned(@, "record_response", now)]
            /\ log' = Entered("record_response", now)
       ELSE UNCHANGED <<table, log>>
    /\ UNCHANGED <<now, measurement, notice, pass, sends>>

\* reviewCase: a response that was received is reviewed first.
ReviewCase(decision) ==
    LET received == Row.reply = "response_received"
        reviewed == IF received THEN Transitioned(Row, "review_response", now) ELSE Row
        responses == IF received THEN Entered("review_response", now) ELSE log
    IN  /\ Reviewable
        /\ received => Allows(Row, "review_response", now)
        /\ Allows(reviewed, decision, now)
        /\ table' = [table EXCEPT ![SourceId] = Transitioned(reviewed, decision, now)]
        /\ anchorCase' = [anchorCase EXCEPT !.status = "resolved"]
        /\ log' = Append(responses, [action |-> decision, at |-> now])
        /\ UNCHANGED <<now, measurement, notice, pass, sends>>

\* correctFlag with a retraction: a public discrepancy is withheld.
Retract ==
    /\ anchorCase.status # "none"
    /\ Row.publication = "approved_public"
    /\ table' = [table EXCEPT ![SourceId].publication = "withheld",
                              ![SourceId].publicationAt = now]
    /\ log' = Entered("retract", now)
    /\ UNCHANGED <<now, measurement, anchorCase, notice, pass, sends>>

\* requeueFailedNotification, of a terminal unleased failure.
Requeue(c) ==
    /\ notice[c].status = "failed" /\ notice[c].next = Never /\ notice[c].owner = NoWorker
    /\ notice' = [notice EXCEPT ![c].next = now]
    /\ UNCHANGED <<vars, anchorCase, pass, sends, log>>

-----------------------------------------------------------------------------
RunPass(w) ==
    \/ OpenCases(w)
    \/ ClaimNotices(w)
    \/ Dispatch(w)
    \/ \E x \in pass[w].claims : Record(w, x) \/ RecordThrows(w, x)
    \/ ExpireWindow(w)
    \/ Crash(w)

WorkflowNext ==
    \/ Next /\ UNCHANGED workflow
    \/ \E w \in Worker : RunPass(w)
    \/ SubmitReply
    \/ \E decision \in {"approve", "withhold"} : ReviewCase(decision)
    \/ Retract
    \/ \E c \in Contact : Requeue(c)

WorkflowSpec == WorkflowInit /\ [][WorkflowNext]_allVars

-----------------------------------------------------------------------------
\* The rows keep their types, and an owner is recorded exactly with an expiry.
WorkflowTypeOK ==
    /\ TypeOK
    /\ anchorCase \in CaseRow
    /\ notice \in [Contact -> NoticeRow]
    /\ \A c \in Contact : notice[c].owner = NoWorker <=> notice[c].expires = Never
    /\ pass \in [Worker -> Pass]
    /\ sends \in [Contact -> Nat]
    /\ log \in Seq(Entry)

-----------------------------------------------------------------------------
(* Properties.                                                             *)

\* What a publication must rest on: the anchor was told, its response was
\* reviewed or the whole reply window passed, and a reviewer approved.
Earned(events) ==
    \E i, k \in DOMAIN events :
        /\ i < k
        /\ events[i].action = "begin_reply" /\ events[k].action = "approve"
        /\ \/ \E j \in i..k : events[j].action = "review_response"
           \/ events[k].at >= events[i].at + ReplyWindow

\* A named party is public only if the recorded history earned it, whatever
\* commits overlapped.
PublicationEarned == Row # NoState /\ Row.publication = "approved_public" => Earned(log)

\* The reply clock starts only from a recorded successful delivery.
ClockNeedsDelivery == anchorCase.due # Never => \E c \in Contact : notice[c].status = "sent"

\* The deadline of the case and the clock of the discrepancy agree on the window
\* that is running, unless a batch committed after its cycle was given up.
WindowMatches ==
    late = {} /\ anchorCase.status = "awaiting_reply" /\ Row.reply = "awaiting_reply" =>
        anchorCase.due = Row.publicationAt + ReplyWindow

\* Nor is a reply within the deadline of a reviewable case refused by the
\* discrepancy's state.
ReplyAccepted ==
    late = {} /\ Reviewable /\ anchorCase.due > now /\ Row.reply = "awaiting_reply" =>
        Allows(Row, "record_response", now)

\* A claim on a notice ends only by the result of its holder's dispatch or after
\* its lease ran out.
NoticeNotStolen ==
    [][\A c \in Contact :
         /\ notice[c].owner # NoWorker
         /\ notice'[c].owner # notice[c].owner \/ notice'[c].token # notice[c].token
         => \/ notice[c].expires <= now
            \/ \E x \in pass[notice[c].owner].claims :
                  x.contact = c /\ x.token = notice[c].token /\ x.result # "claimed"]_allVars

-----------------------------------------------------------------------------
(* The inductive invariant behind the proved properties.                   *)

\* A notice has a case, a case the discrepancy of a named party, and a claim its
\* notice.
CaseChain ==
    /\ anchorCase.status # "none" => Named /\ Row # NoState
    /\ \A c \in Contact : notice[c].status # "none" => anchorCase.status # "none"
    /\ \A w \in Worker : \A x \in pass[w].claims : notice[x.contact].status # "none"

\* What a state claims of the reply happened: it may be that of the row, or one
\* a job read and has yet to write back.
Justified(events, r) ==
    /\ r.publication = "pending_reply" =>
          \E i \in DOMAIN events :
              /\ events[i].action = "begin_reply"
              /\ r.reply = "awaiting_reply" => r.publicationAt = events[i].at
              /\ r.reply = "response_reviewed" =>
                    \E j \in DOMAIN events : i < j /\ events[j].action = "review_response"
              /\ r.reply = "window_expired" => r.publicationAt >= events[i].at + ReplyWindow
    /\ r.publication = "approved_public" => Earned(events)

AllJustified ==
    /\ \A d \in Rows : Justified(log, table[d])
    /\ \A j \in Job : job[j].prior.state # NoState => Justified(log, job[j].prior.state)

\* Nothing was observed in the future.
FirstPassed ==
    /\ \A d \in Rows : table[d].first <= now
    /\ \A j \in Job : job[j].step # "idle" => job[j].at <= now

WInv ==
    /\ WorkflowTypeOK
    /\ PriorsSound
    /\ AllJustified
    /\ FirstPassed
    /\ CaseChain
    /\ ClockNeedsDelivery

-----------------------------------------------------------------------------
(* What the documentation says and the code does not do.                   *)

\* "Publication requires a non-empty human reviewer ID": a discrepancy is public
\* only while the last decision on it was an approval.
RetractionStands ==
    Row # NoState /\ Row.publication = "approved_public" =>
        \E i \in DOMAIN log :
            /\ log[i].action = "approve"
            /\ \A j \in i+1..Len(log) : log[j].action \notin {"withhold", "retract"}
=============================================================================
