------------------------- MODULE Discrepancy_proofs -------------------------
(***************************************************************************)
(* Proofs about the discrepancies table, for any number of cycles, jobs    *)
(* and ticks, named parties or not: the state machine, its projection by   *)
(* the cycles, and, for any number of contacts and workers, the right of   *)
(* reply that moves the same rows.                                         *)
(***************************************************************************)
EXTENDS RightOfReply, SequenceTheorems, FiniteSetTheorems, TLAPS

-----------------------------------------------------------------------------
(* The state machine.                                                      *)

\* Advancing a valid state by a newer measured cycle gives a valid state.
LEMMA AdvanceKeepsValid ==
    ASSUME NEW prior, prior = NoState \/ Valid(prior),
           NEW k \in Cycle, NEW at \in Nat, NEW band \in Band,
           ~Ignored(prior, k, at),
           prior = NoState => band # "within"
    PROVE  /\ Valid(Advance(prior, k, at, band))
           /\ Advance(prior, k, at, band).finalizedAt = at
           /\ Advance(prior, k, at, band).finalizedBy = k
<1> DEFINE s == Advance(prior, k, at, band)
<1>1. CASE band # "within"
  <2>1. s = Observe(prior, k, at, band)
    BY <1>1 DEF Advance
  <2>2. CASE IsOpen(prior)
    <3>1. Valid(prior) /\ prior.finalizedAt < at
      BY <2>2, NoStateAssumption DEF IsOpen, Ignored, Valid, State
    <3>2. CASE band = "above"
      BY <1>1, <2>1, <2>2, <3>1, <3>2
      DEF Observe, AboveStreak, KeepsPublication, SeverityOf, IsOpen, Valid, State, Lifecycle,
          Severity, Publication, Reply, TimesOrdered, StreakFits, PublicationFits
    <3>3. CASE band = "info"
      BY <1>1, <2>1, <2>2, <3>1, <3>3
      DEF Observe, AboveStreak, KeepsPublication, SeverityOf, IsOpen, Valid, State, Lifecycle,
          Severity, Publication, Reply, TimesOrdered, StreakFits, PublicationFits
    <3> QED  BY <1>1, <3>2, <3>3 DEF Band
  <2>3. CASE ~IsOpen(prior)
    BY <1>1, <2>1, <2>3
    DEF Observe, AboveStreak, KeepsPublication, SeverityOf, Band, Valid, State, Lifecycle,
        Severity, Publication, Reply, TimesOrdered, StreakFits, PublicationFits
  <2> QED  BY <2>2, <2>3
<1>2. CASE band = "within"
  <2>1. prior # NoState /\ Valid(prior) /\ prior.finalizedAt < at
    BY <1>2 DEF Ignored, Valid, State
  <2>2. s = IF IsOpen(prior) THEN Resolve(prior, k, at) ELSE Refresh(prior, k, at)
    BY <1>2, <2>1 DEF Advance
  <2>3. CASE IsOpen(prior)
    <3>1. s = Resolve(prior, k, at)
      BY <2>2, <2>3
    <3>2. Resolve(prior, k, at) \in State
      BY <2>1 DEF Resolve, Valid, State, Lifecycle
    <3>3. /\ TimesOrdered(Resolve(prior, k, at))
          /\ StreakFits(Resolve(prior, k, at))
          /\ PublicationFits(Resolve(prior, k, at))
          /\ Resolve(prior, k, at).finalizedAt = at
          /\ Resolve(prior, k, at).finalizedBy = k
      BY <2>1 DEF Resolve, Valid, State, TimesOrdered, StreakFits, PublicationFits
    <3> QED  BY <3>1, <3>2, <3>3 DEF Valid
  <2>4. CASE ~IsOpen(prior)
    <3>1. s = Refresh(prior, k, at)
      BY <2>2, <2>4
    <3>2. Refresh(prior, k, at) \in State
      BY <2>1 DEF Refresh, Valid, State
    <3>3. /\ TimesOrdered(Refresh(prior, k, at))
          /\ StreakFits(Refresh(prior, k, at))
          /\ PublicationFits(Refresh(prior, k, at))
          /\ Refresh(prior, k, at).finalizedAt = at
          /\ Refresh(prior, k, at).finalizedBy = k
      BY <2>1 DEF Refresh, Valid, State, TimesOrdered, StreakFits, PublicationFits
    <3> QED  BY <3>1, <3>2, <3>3 DEF Valid
  <2> QED  BY <2>3, <2>4
<1> QED  BY <1>1, <1>2

\* A publication action that is allowed keeps a state valid: in particular a
\* named party is public only after a reviewed response or an expired window.
THEOREM TransitionKeepsValid ==
    ASSUME NEW r, Valid(r), NEW action \in Action, NEW at \in Nat, Allows(r, action, at)
    PROVE  Valid(Transitioned(r, action, at))
<1>1. /\ Transitioned(r, action, at).publication = PublicationAfter(r, action)
      /\ Transitioned(r, action, at).reply = ReplyAfter(r, action)
      /\ Transitioned(r, action, at).publicationAt = at
      /\ PublicationAfter(r, action) \in Publication
      /\ ReplyAfter(r, action) \in Reply
  BY DEF Transitioned, PublicationAfter, ReplyAfter, Valid, State, Publication, Reply, Action
<1>2. Transitioned(r, action, at) \in State
  BY <1>1 DEF Transitioned, Valid, State
<1>3. TimesOrdered(Transitioned(r, action, at)) /\ StreakFits(Transitioned(r, action, at))
  BY <1>1 DEF Transitioned, Valid, State, Allows, TimesOrdered, StreakFits
<1>4. PublicationFits(Transitioned(r, action, at))
  <2>1. Transitioned(r, action, at).severity = r.severity
    BY DEF Transitioned, Valid, State
  <2>2. CASE action = "begin_reply"
    BY <1>1, <2>1, <2>2 DEF Allows, ReplyAfter, PublicationAfter, PublicationFits, Valid
  <2>3. CASE action = "record_response"
    BY <1>1, <2>1, <2>3 DEF Allows, ReplyAfter, PublicationAfter, PublicationFits, Valid
  <2>4. CASE action = "review_response"
    BY <1>1, <2>1, <2>4 DEF Allows, ReplyAfter, PublicationAfter, PublicationFits, Valid
  <2>5. CASE action = "expire_reply_window"
    BY <1>1, <2>1, <2>5 DEF Allows, ReplyAfter, PublicationAfter, PublicationFits, Valid
  <2>6. CASE action = "approve"
    BY <1>1, <2>1, <2>6 DEF Allows, Heard, ReplyAfter, PublicationAfter, PublicationFits, Valid
  <2>7. CASE action = "withhold"
    BY <1>1, <2>1, <2>7 DEF Allows, ReplyAfter, PublicationAfter, PublicationFits, Valid
  <2> QED  BY <2>2, <2>3, <2>4, <2>5, <2>6, <2>7 DEF Action
<1> QED  BY <1>2, <1>3, <1>4 DEF Valid

-----------------------------------------------------------------------------
(* The projection.                                                         *)

\* The first observation and the times of an advanced state.
LEMMA AdvanceTimes ==
    ASSUME NEW prior, prior = NoState \/ Valid(prior),
           NEW k \in Cycle, NEW at \in Nat, NEW band \in Band,
           prior = NoState => band # "within"
    PROVE  /\ band = "within" \/ IsOpen(prior) =>
                 prior # NoState /\ Advance(prior, k, at, band).first = prior.first
           /\ ~(band = "within" \/ IsOpen(prior)) =>
                 /\ Advance(prior, k, at, band).first = at
                 /\ Advance(prior, k, at, band).observed = at
                 /\ Advance(prior, k, at, band).publicationAt = at
BY DEF Advance, Observe, Resolve, Refresh, KeepsPublication, IsOpen, Valid, State, Band

\* What a job that measured something and is not outdated writes.
LEMMA UpsertValid ==
    ASSUME TypeOK, PriorsSound, NEW j \in Job, NEW band \in Outcome,
           job[j].step # "idle",
           StateOf(job[j], band) # NoState,
           Accepts(TargetOf(job[j], band), StateOf(job[j], band))
    PROVE  LET w == job[j]
               s == StateOf(w, band)
               d == TargetOf(w, band)
           IN  /\ band \in Band
               /\ s = Advance(w.prior.state, w.cycle, w.at, band)
               /\ band = "within" => w.prior.state # NoState
               /\ Valid(s)
               /\ s.finalizedAt = w.at
               /\ d \in Id
               /\ Upserted(d, s) # NoState
               /\ Valid(Upserted(d, s))
               /\ Upserted(d, s).finalizedAt = s.finalizedAt
               /\ Snapshot(Upserted(d, s)) = Snapshot(s)
               /\ table[d] # NoState =>
                     /\ Upserted(d, s).first = table[d].first
                     /\ table[d].finalizedAt < s.finalizedAt
<1> DEFINE w == job[j]
           s == StateOf(w, band)
           d == TargetOf(w, band)
<1>1. w \in JobState /\ w.cycle \in Cycle /\ w.at \in Nat /\ w.prior \in Prior
  BY DEF TypeOK, JobState
<1>2. band \in Band /\ ~Ignored(w.prior.state, w.cycle, w.at)
      /\ s = Advance(w.prior.state, w.cycle, w.at, band)
  BY DEF StateOf, Outdated, Outcome
<1>3. band = "within" => w.prior.state # NoState
  BY <1>2 DEF Advance
<1>4. w.prior.state = NoState \/ Valid(w.prior.state)
  BY DEF PriorsSound
<1>5. Valid(s) /\ s.finalizedAt = w.at
  BY <1>1, <1>2, <1>3, <1>4, AdvanceKeepsValid
<1>6. d \in Id
  BY <1>1 DEF TargetOf, Id, Prior
<1>7. /\ band = "within" \/ IsOpen(w.prior.state) =>
            w.prior.state # NoState /\ s.first = w.prior.state.first
      /\ ~(band = "within" \/ IsOpen(w.prior.state)) =>
            s.observed = w.at /\ s.publicationAt = w.at
  BY <1>1, <1>2, <1>3, <1>4, AdvanceTimes
<1>8. s \in State /\ TimesOrdered(s) /\ StreakFits(s) /\ PublicationFits(s)
  BY <1>5 DEF Valid
<1>9. CASE table[d] = NoState
  BY <1>2, <1>3, <1>5, <1>6, <1>9, NoStateAssumption DEF Upserted, Valid
<1>10. CASE table[d] # NoState
  <2>1. Valid(table[d]) /\ table[d].finalizedAt < s.finalizedAt
    BY <1>6, <1>10 DEF TypeOK, Accepts
  <2>2. Upserted(d, s) = [s EXCEPT !.first = table[d].first]
    BY <1>10 DEF Upserted
  <2> DEFINE u == [s EXCEPT !.first = table[d].first]
  <2>3. u \in State /\ u.first = table[d].first /\ u.finalizedAt = s.finalizedAt
        /\ u.observed = s.observed /\ u.publicationAt = s.publicationAt
    BY <1>8, <2>1 DEF Valid, State
  <2>4. StreakFits(u) /\ PublicationFits(u) /\ Snapshot(u) = Snapshot(s)
    BY <1>8 DEF State, StreakFits, PublicationFits, Snapshot
  <2>5. TimesOrdered(u)
    <3>1. CASE band = "within" \/ IsOpen(w.prior.state)
      <4>1. d = w.prior.id
        BY <3>1 DEF TargetOf
      <4>2. table[d].first = s.first
        BY <1>7, <3>1, <4>1 DEF PriorsSound
      <4> QED  BY <1>8, <2>3, <4>2 DEF TimesOrdered
    <3>2. CASE ~(band = "within" \/ IsOpen(w.prior.state))
      BY <1>1, <1>5, <1>7, <1>8, <2>1, <2>3, <3>2 DEF TimesOrdered, Valid, State
    <3> QED  BY <3>1, <3>2
  <2> HIDE DEF u
  <2> QED  BY <1>2, <1>3, <1>5, <1>6, <2>1, <2>2, <2>3, <2>4, <2>5, NoStateAssumption
           DEF Valid, u
<1> QED  BY <1>9, <1>10

\* A step that commits nothing keeps what is known of rows and events.
LEMMA ProjectionKept ==
    ASSUME IInv, UNCHANGED <<ids, projection>>
    PROVE  /\ HistoryTyped' /\ RowIds' /\ EventsEnd' /\ HistoryReplays'
           /\ batch' \in [Cycle -> Batch \cup {NoBatch}]
           /\ DOMAIN table' = Id
           /\ \A d \in Id : table'[d] # NoState => Valid(table'[d])
           /\ late' \subseteq Cycle
BY DEF IInv, projection, TypeOK, HistoryTyped, RowIds, Rows, Durable, EventsEnd, HistoryReplays

LEMMA ScheduleStep ==
    ASSUME IInv, NEW k \in Cycle, Schedule(k)
    PROVE  IInv'
<1> USE DEF Schedule, lifecycle
<1>1. TypeOK'
  BY ProjectionKept DEF IInv, TypeOK
<1>2. PriorsSound'
  BY DEF IInv, PriorsSound, projection
<1>3. Serial'
  BY NullAssumption DEF IInv, PriorsSound, Serial, projection, Durable
<1> QED  BY <1>1, <1>2, <1>3, ProjectionKept DEF IInv

LEMMA SettleStep ==
    ASSUME IInv, Settle
    PROVE  IInv'
<1> USE DEF Settle
<1>1. TypeOK'
  BY ProjectionKept DEF IInv, TypeOK
<1>2. PriorsSound'
  BY DEF IInv, PriorsSound, projection
<1>3. Serial'
  BY NullAssumption DEF IInv, TypeOK, Serial, projection, Durable
<1> QED  BY <1>1, <1>2, <1>3, ProjectionKept DEF IInv

LEMMA OtherSubjectStep ==
    ASSUME IInv, OtherSubject
    PROVE  IInv'
<1> USE DEF OtherSubject
<1>1. Rows = {}
  BY DEF IInv, RowIds, Rows
<1>2. TypeOK'
  BY DEF IInv, TypeOK, Ids, projection
<1>3. RowIds'
  BY <1>1 DEF IInv, RowIds, Rows, projection
<1>4. PriorsSound' /\ Serial' /\ HistoryTyped' /\ EventsEnd' /\ HistoryReplays'
  BY DEF IInv, PriorsSound, Serial, HistoryTyped, EventsEnd, HistoryReplays, Rows, projection,
         Durable
<1> QED  BY <1>2, <1>3, <1>4 DEF IInv

LEMMA TickStep ==
    ASSUME IInv, Tick
    PROVE  IInv'
<1> USE DEF Tick
<1>1. TypeOK'
  BY ProjectionKept DEF IInv, TypeOK, lifecycle
<1>2. PriorsSound' /\ Serial'
  BY DEF IInv, PriorsSound, Serial, projection, lifecycle, Durable
<1> QED  BY <1>1, <1>2, ProjectionKept DEF IInv, lifecycle

LEMMA StutterStep ==
    ASSUME IInv, UNCHANGED vars
    PROVE  IInv'
<1> USE DEF vars
<1>1. TypeOK'
  BY ProjectionKept DEF IInv, TypeOK, lifecycle
<1>2. PriorsSound' /\ Serial'
  BY DEF IInv, PriorsSound, Serial, projection, lifecycle, Durable
<1> QED  BY <1>1, <1>2, ProjectionKept DEF IInv, lifecycle

\* What a job forgets or learns leaves the rest alone.
LEMMA JobStep ==
    ASSUME IInv, NEW j \in Job, NEW x \in JobState,
           job' = [job EXCEPT ![j] = x],
           UNCHANGED <<now, lifecycle, projection>>,
           x.step # "idle" => x.cycle \in scheduled,
           x.prior.state = NoState => x.prior.id = SourceId,
           x.prior.state # NoState =>
              /\ Valid(x.prior.state)
              /\ table[x.prior.id] # NoState
              /\ table[x.prior.id].first = x.prior.state.first,
           x.step = "persisting" => table[x.prior.id] = x.prior.state
    PROVE  IInv'
<1>1. TypeOK'
  BY ProjectionKept DEF IInv, TypeOK, lifecycle
<1>2. PriorsSound'
  BY DEF IInv, TypeOK, PriorsSound, projection, lifecycle
<1>3. Serial'
  BY DEF IInv, TypeOK, Serial, projection, lifecycle, Durable
<1> QED  BY <1>1, <1>2, <1>3, ProjectionKept DEF IInv, lifecycle

LEMMA IdleTyped == Idle \in JobState /\ NoPrior.id = SourceId /\ NoPrior.state = NoState
BY DEF Idle, JobState, NoPrior, Prior, Id

LEMMA CollectStep ==
    ASSUME IInv, NEW j \in Job, NEW k \in Cycle, Collect(j, k)
    PROVE  IInv'
<1> DEFINE x == [Idle EXCEPT !.step = "reading", !.cycle = k, !.at = now]
<1>1. x \in JobState /\ x.step = "reading" /\ x.cycle = k /\ x.prior = NoPrior
  BY IdleTyped DEF Idle, JobState, IInv, TypeOK
<1> QED  BY <1>1, IdleTyped, JobStep DEF Collect

LEMMA DropStep ==
    ASSUME IInv, NEW j \in Job, Drop(j)
    PROVE  IInv'
BY IdleTyped, JobStep DEF Drop, Idle

LEMMA ReadPriorStep ==
    ASSUME IInv, NEW j \in Job, ReadPrior(j)
    PROVE  IInv'
<1>1. PICK d \in IF Rows = {} THEN {SourceId} ELSE Rows :
          job' = [job EXCEPT ![j].step = "persisting", ![j].prior = [id |-> d, state |-> table[d]]]
  BY DEF ReadPrior
<1>2. d \in Id /\ (table[d] = NoState => d = SourceId)
      /\ (table[d] # NoState => Valid(table[d]) /\ table[d] \in State)
  BY DEF Rows, Id, IInv, TypeOK, Valid
<1> DEFINE x == [job[j] EXCEPT !.step = "persisting", !.prior = [id |-> d, state |-> table[d]]]
<1>3. job' = [job EXCEPT ![j] = x]
  BY <1>1
<1>4. /\ x \in JobState /\ x.step = "persisting" /\ x.cycle = job[j].cycle
      /\ x.prior.id = d /\ x.prior.state = table[d]
  BY <1>2 DEF IInv, TypeOK, JobState, Prior
<1>5. job[j].cycle \in scheduled
  BY DEF ReadPrior, IInv, PriorsSound
<1> HIDE DEF x
<1> QED  BY <1>2, <1>3, <1>4, <1>5, JobStep DEF ReadPrior

-----------------------------------------------------------------------------
(* Histories.                                                              *)

\* Appending an event that follows the last one keeps a history chained.
LEMMA ChainExtends ==
    ASSUME NEW h \in Seq(Event), Chained(h), NEW e \in Event,
           h # <<>> => Follows(h[Len(h)], e)
    PROVE  /\ h \o <<e>> \in Seq(Event)
           /\ Chained(h \o <<e>>)
           /\ h \o <<e>> # <<>>
           /\ (h \o <<e>>)[Len(h \o <<e>>)] = e
<1> DEFINE g == h \o <<e>>
<1>1. g \in Seq(Event) /\ Len(g) = Len(h) + 1 /\ g[Len(h) + 1] = e
      /\ \A i \in 1..Len(h) : g[i] = h[i]
  BY ConcatProperties
<1>2. ASSUME NEW i \in 1..Len(g) - 1 PROVE Follows(g[i], g[i+1])
  <2>1. Len(h) \in Nat /\ i \in 1..Len(h)
    BY <1>1
  <2>2. CASE i < Len(h)
    BY <1>1, <2>1, <2>2 DEF Chained
  <2>3. CASE i = Len(h)
    BY <1>1, <2>1, <2>3
  <2> QED  BY <2>1, <2>2, <2>3
<1> QED  BY <1>1, <1>2 DEF Chained

\* A valid state has a snapshot.
LEMMA SnapshotTyped ==
    ASSUME NEW r, Valid(r)
    PROVE  Snapshot(r) \in SnapshotType
BY DEF Valid, State, Snapshot, SnapshotType

\* The event of a type that a step from prior to s appends.
EventOf(prior, type, s) ==
    [type |-> type, before |-> IF IsOpen(prior) THEN Snapshot(prior) ELSE NoState,
     after |-> Snapshot(s)]

LEMMA EventsAre ==
    ASSUME NEW w, NEW band, NEW s
    PROVE  LET p == w.prior.state
           IN  Events(w, band, s) =
                  IF band = "within"
                  THEN IF IsOpen(p)
                       THEN <<EventOf(p, "reconverged", s)>> \o <<EventOf(p, "resolved", s)>>
                       ELSE <<>>
                  ELSE IF ~IsOpen(p) THEN <<EventOf(p, "opened", s)>>
                  ELSE IF Rank(s.severity) > Rank(p.severity) THEN <<EventOf(p, "escalated", s)>>
                  ELSE <<EventOf(p, "observed", s)>>
<1> DEFINE p == w.prior.state
           F(t) == [i \in DOMAIN t |-> EventOf(p, t[i], s)]
<1>1. Events(w, band, s) = F(EventTypes(p, band, s))
  BY DEF Events, EventOf
<1>2. \A x : F(<<x>>) = <<EventOf(p, x, s)>>
  OBVIOUS
<1>3. \A x, y : F(<<x, y>>) = <<EventOf(p, x, s)>> \o <<EventOf(p, y, s)>>
  OBVIOUS
<1>4. F(<<>>) = <<>>
  OBVIOUS
<1> HIDE DEF F
<1> QED  BY <1>1, <1>2, <1>3, <1>4 DEF EventTypes

\* What the events of a step do to a history that ends where the step starts.
LEMMA EventsExtend ==
    ASSUME NEW w, NEW band \in Band, NEW k \in Cycle, NEW at \in Nat, NEW s, Valid(s),
           w.prior.state = NoState \/ Valid(w.prior.state),
           s = Advance(w.prior.state, k, at, band),
           band = "within" => w.prior.state # NoState,
           NEW h \in Seq(Event)
    PROVE  /\ h \o Events(w, band, s) \in Seq(Event)
           /\ /\ Chained(h)
              /\ band = "within" \/ IsOpen(w.prior.state) => Shows(h, w.prior.state)
              /\ h # <<>> /\ ~IsOpen(w.prior.state) => h[Len(h)].type = "resolved"
              => LET g == h \o Events(w, band, s)
                 IN  /\ Chained(g)
                     /\ Shows(g, s)
                     /\ s.lifecycle = "resolved" => g[Len(g)].type = "resolved"
<1> DEFINE p == w.prior.state
           E(t) == EventOf(p, t, s)
           Ready == /\ Chained(h)
                    /\ band = "within" \/ IsOpen(p) => Shows(h, p)
                    /\ h # <<>> /\ ~IsOpen(p) => h[Len(h)].type = "resolved"
           Done(g) == /\ Chained(g)
                      /\ Shows(g, s)
                      /\ s.lifecycle = "resolved" => g[Len(g)].type = "resolved"
<1>1. \A t \in {"opened", "observed", "escalated", "reconverged", "resolved"} :
          /\ E(t) \in Event
          /\ E(t).type = t /\ E(t).after = Snapshot(s)
          /\ IsOpen(p) => E(t).before = Snapshot(p)
  BY SnapshotTyped DEF EventOf, Event, IsOpen
<1>2. band # "within" => s.lifecycle = "open"
  BY DEF Advance, Observe
<1>3. CASE band = "within" /\ IsOpen(p)
  <2> DEFINE g1 == h \o <<E("reconverged")>>
             g2 == g1 \o <<E("resolved")>>
  <2>1. g1 \in Seq(Event) /\ g2 \in Seq(Event)
    BY <1>1, ConcatProperties
  <2>2. h \o Events(w, band, s) = g2
    <3>1. Events(w, band, s) = <<E("reconverged")>> \o <<E("resolved")>>
      BY <1>3, EventsAre
    <3> QED  BY <1>1, <3>1, ConcatAssociative
  <2>3. ASSUME Ready PROVE Done(g2)
    <3>1. h # <<>> => Follows(h[Len(h)], E("reconverged"))
      BY <1>1, <1>3, <2>3 DEF Follows, Shows
    <3>2. Chained(g1) /\ g1 # <<>> /\ g1[Len(g1)] = E("reconverged")
      BY <1>1, <2>3, <3>1, ChainExtends
    <3>3. Follows(g1[Len(g1)], E("resolved"))
      BY <1>1, <3>2 DEF Follows
    <3>4. Chained(g2) /\ g2 # <<>> /\ g2[Len(g2)] = E("resolved")
      BY <1>1, <2>1, <3>2, <3>3, ChainExtends
    <3> QED  BY <1>1, <3>4 DEF Shows
  <2> HIDE DEF g1, g2, Ready
  <2>4. h \o Events(w, band, s) \in Seq(Event)
    BY <2>1, <2>2
  <2> QED  BY <2>2, <2>3, <2>4 DEF Ready
<1>4. CASE band = "within" /\ ~IsOpen(p)
  <2>1. h \o Events(w, band, s) = h
    BY <1>4, EventsAre, ConcatEmptySeq
  <2>2. s = Refresh(p, k, at) /\ p # NoState /\ Valid(p)
    BY <1>4 DEF Advance
  <2>3. Snapshot(s) = Snapshot(p)
    BY <2>2 DEF Refresh, Snapshot, Valid, State
  <2> QED  BY <1>4, <2>1, <2>3 DEF Shows
<1>5. CASE band # "within"
  <2>1. PICK t \in {"opened", "observed", "escalated"} :
            /\ Events(w, band, s) = <<E(t)>>
            /\ t = "opened" <=> ~IsOpen(p)
    BY <1>5, EventsAre
  <2>2. ASSUME Ready PROVE Done(h \o <<E(t)>>)
    <3>1. h # <<>> => Follows(h[Len(h)], E(t))
      BY <1>1, <2>1, <2>2 DEF Follows, Shows
    <3>2. LET g == h \o <<E(t)>>
          IN  Chained(g) /\ g # <<>> /\ g[Len(g)] = E(t)
      BY <1>1, <2>2, <3>1, ChainExtends
    <3> QED  BY <1>1, <1>2, <1>5, <3>2 DEF Shows
  <2>3. h \o <<E(t)>> \in Seq(Event)
    BY <1>1, ConcatProperties
  <2> QED  BY <2>1, <2>2, <2>3
<1> QED  BY <1>3, <1>4, <1>5

-----------------------------------------------------------------------------
(* Persisting a batch.                                                     *)

\* The batch alone: what every persisted batch does.
LEMMA BatchStep ==
    ASSUME IInv, NEW j \in Job, NEW band \in Outcome, Persist(j, band)
    PROVE  /\ job[j].cycle \in Cycle \ Durable
           /\ job[j].step = "persisting"
           /\ Durable' = Durable \cup {job[j].cycle}
           /\ batch' \in [Cycle -> Batch \cup {NoBatch}]
           /\ job' \in [Job -> JobState]
           /\ job' = [job EXCEPT ![j] = Idle]
           /\ late' \subseteq Cycle
           /\ late' = {} => /\ late = {}
                            /\ open = job[j].cycle
                            /\ table[job[j].prior.id] = job[j].prior.state
           /\ Serial'
<1>1. job[j] \in JobState /\ job[j].cycle \in Cycle /\ job[j].at \in Nat
  BY DEF Persist, IInv, TypeOK, JobState
<1> DEFINE b == [at |-> job[j].at, band |-> band]
<1>2. b \in Batch /\ b # NoBatch
  BY <1>1, NoBatchAssumption DEF Batch
<1>3. batch' = [batch EXCEPT ![job[j].cycle] = b]
  BY DEF Persist
<1>4. Durable' = Durable \cup {job[j].cycle} /\ batch' \in [Cycle -> Batch \cup {NoBatch}]
  BY <1>1, <1>2, <1>3 DEF Durable, IInv, TypeOK
<1>5. job' \in [Job -> JobState] /\ job' = [job EXCEPT ![j] = Idle]
  BY IdleTyped DEF Persist, IInv, TypeOK
<1>6. late' = {} => late = {} /\ open = job[j].cycle
  BY DEF Persist
<1>7. late' = {} => table[job[j].prior.id] = job[j].prior.state
  BY <1>6 DEF Persist, IInv, Serial
<1>8. Serial'
  BY <1>4, <1>6 DEF Serial, Persist, lifecycle
<1>9. late' \subseteq Cycle
  BY <1>1 DEF Persist, IInv, TypeOK
<1> QED  BY <1>1, <1>4, <1>5, <1>6, <1>7, <1>8, <1>9 DEF Persist

\* Nothing is projected.
LEMMA PersistOnlyStep ==
    ASSUME IInv, NEW j \in Job, NEW band \in Outcome, Persist(j, band),
           StateOf(job[j], band) = NoState
    PROVE  IInv'
<1>1. UNCHANGED <<table, history, now, scheduled, open, ids>>
  BY DEF Persist, lifecycle
<1>2. TypeOK'
  BY <1>1, BatchStep, IdleTyped DEF IInv, TypeOK, Idle
<1>3. PriorsSound'
  BY <1>1, BatchStep, IdleTyped DEF IInv, TypeOK, PriorsSound, Idle
<1>4. HistoryTyped' /\ RowIds' /\ EventsEnd' /\ HistoryReplays'
  BY <1>1, BatchStep DEF IInv, HistoryTyped, RowIds, Rows, EventsEnd, HistoryReplays
<1> QED  BY <1>2, <1>3, <1>4, BatchStep DEF IInv

\* A state is projected.
LEMMA PersistUpsertStep ==
    ASSUME IInv, NEW j \in Job, NEW band \in Outcome, Persist(j, band),
           StateOf(job[j], band) # NoState
    PROVE  IInv'
<1> DEFINE w == job[j]
           p == w.prior.state
           s == StateOf(w, band)
           d == TargetOf(w, band)
           u == Upserted(d, s)
           g == history[d] \o Events(w, band, s)
<1>1. /\ UNCHANGED <<now, scheduled, open, ids>>
      /\ Accepts(d, s)
      /\ table' = [table EXCEPT ![d] = u]
      /\ history' = [history EXCEPT ![d] = g]
  BY DEF Persist, lifecycle
<1>2. /\ band \in Band /\ d \in Id
      /\ s = Advance(p, w.cycle, w.at, band)
      /\ band = "within" => p # NoState
      /\ Valid(s) /\ u # NoState /\ Valid(u) /\ Snapshot(u) = Snapshot(s)
      /\ u.lifecycle = s.lifecycle
      /\ table[d] # NoState => u.first = table[d].first
  BY <1>1, BatchStep, UpsertValid DEF IInv, Snapshot
<1>3. p = NoState \/ Valid(p)
  BY DEF IInv, PriorsSound
<1>4. w \in JobState /\ w.cycle \in Cycle /\ w.at \in Nat
  BY BatchStep DEF IInv, TypeOK, JobState
<1>5. DOMAIN table = Id /\ history \in [Id -> Seq(Event)] /\ history[d] \in Seq(Event)
  BY <1>2 DEF IInv, TypeOK, HistoryTyped
<1>6. table'[d] = u /\ history'[d] = g
      /\ \A e \in Id \ {d} : table'[e] = table[e] /\ history'[e] = history[e]
  BY <1>1, <1>2, <1>5
<1> HIDE DEF u, g
<1>7. TypeOK'
  BY <1>1, <1>2, <1>6, BatchStep, IdleTyped DEF IInv, TypeOK, Idle
<1>8. PriorsSound'
  <2> SUFFICES ASSUME NEW i \in Job, i # j
               PROVE  /\ job[i].step # "idle" => job[i].cycle \in scheduled
                      /\ job[i].prior.state = NoState => job[i].prior.id = SourceId
                      /\ job[i].prior.state # NoState =>
                            /\ Valid(job[i].prior.state)
                            /\ table'[job[i].prior.id] # NoState
                            /\ table'[job[i].prior.id].first = job[i].prior.state.first
    BY <1>1, BatchStep, IdleTyped DEF IInv, TypeOK, PriorsSound, Idle
  <2>1. job[i].prior.id \in Id
    BY DEF IInv, TypeOK, JobState, Prior
  <2> QED  BY <1>2, <1>6, <2>1 DEF IInv, PriorsSound
<1>9. RowIds'
  <2>1. IF ids = "fresh" THEN d \in Durable \cup {w.cycle} ELSE d = SourceId
    <3>1. CASE p = NoState
      BY <1>2, <1>3, <1>4, <3>1 DEF TargetOf, IsOpen
    <3>2. CASE p # NoState
      <4>1. w.prior.id \in Rows
        BY <1>4, <3>2 DEF IInv, PriorsSound, Rows, JobState, Prior
      <4> QED  BY <4>1 DEF IInv, RowIds, TargetOf
    <3> QED  BY <3>1, <3>2
  <2>2. ids # "foreign"
    BY <1>1, <2>1 DEF Accepts
  <2> QED  BY <1>1, <1>2, <1>6, <2>1, <2>2, BatchStep DEF IInv, RowIds, Rows
<1>10. g \in Seq(Event)
  BY <1>2, <1>3, <1>4, <1>5, EventsExtend DEF g
<1>11. HistoryTyped'
  BY <1>1, <1>5, <1>10 DEF HistoryTyped
<1>12. ASSUME late' = {}
       PROVE  /\ Chained(g) /\ Shows(g, u)
              /\ u.lifecycle = "resolved" => g[Len(g)].type = "resolved"
  <2>1. late = {} /\ table[w.prior.id] = p /\ w.cycle \notin Durable /\ w.prior.id \in Id
    BY <1>4, <1>12, BatchStep DEF JobState, Prior
  <2>2. Chained(history[d])
    BY <1>2, <2>1 DEF IInv, HistoryReplays
  <2>3. band = "within" \/ IsOpen(p) => Shows(history[d], p)
    BY <1>2, <2>1 DEF TargetOf, IsOpen, IInv, HistoryReplays, Rows
  <2>4. ASSUME history[d] # <<>>, ~IsOpen(p)
        PROVE  history[d][Len(history[d])].type = "resolved"
    <3>1. table[d] # NoState
      BY <1>2, <2>1, <2>4 DEF IInv, EventsEnd
    <3>2. table[d] = p
      <4>1. CASE band = "within"
        BY <2>1, <4>1 DEF TargetOf
      <4>2. CASE band # "within" /\ ids # "fresh"
        <5>1. d = SourceId
          BY <2>4, <4>2 DEF TargetOf
        <5>2. w.prior.id = SourceId
          BY <2>1, <4>2 DEF IInv, PriorsSound, RowIds, Rows
        <5> QED  BY <2>1, <5>1, <5>2
      <4>3. CASE band # "within" /\ ids = "fresh"
        BY <1>2, <2>1, <2>4, <3>1, <4>3 DEF TargetOf, IInv, RowIds, Rows
      <4> QED  BY <4>1, <4>2, <4>3
    <3>3. table[d].lifecycle = "resolved"
      BY <1>3, <2>4, <3>1, <3>2 DEF IsOpen, Valid, State, Lifecycle
    <3> QED  BY <1>2, <2>1, <3>1, <3>3 DEF IInv, EventsEnd
  <2>5. /\ Chained(g) /\ Shows(g, s)
        /\ s.lifecycle = "resolved" => g[Len(g)].type = "resolved"
    <3>1. PICK x, t, h : x = w /\ t = s /\ h = history[d]
      OBVIOUS
    <3>2. /\ x.cycle \in Cycle /\ x.at \in Nat /\ h \in Seq(Event) /\ Valid(t)
          /\ x.prior.state = NoState \/ Valid(x.prior.state)
          /\ t = Advance(x.prior.state, x.cycle, x.at, band)
          /\ band = "within" => x.prior.state # NoState
      BY <1>2, <1>3, <1>4, <1>5, <3>1
    <3>3. /\ Chained(h)
          /\ band = "within" \/ IsOpen(x.prior.state) => Shows(h, x.prior.state)
          /\ h # <<>> /\ ~IsOpen(x.prior.state) => h[Len(h)].type = "resolved"
      BY <2>2, <2>3, <2>4, <3>1
    <3>4. PICK f : f = h \o Events(x, band, t)
      OBVIOUS
    <3>5. Chained(f) /\ Shows(f, t) /\ (t.lifecycle = "resolved" => f[Len(f)].type = "resolved")
      BY <1>2, <3>2, <3>3, <3>4, EventsExtend
    <3>6. g = f
      BY <3>1, <3>4 DEF g
    <3> QED  BY <3>1, <3>5, <3>6
  <2> QED  BY <1>2, <2>5 DEF Shows
<1>13. HistoryReplays'
  BY <1>2, <1>6, <1>12, BatchStep DEF IInv, HistoryReplays, Rows
<1>14. EventsEnd'
  BY <1>2, <1>6, <1>12, BatchStep DEF IInv, EventsEnd, Shows
<1> QED  BY <1>7, <1>8, <1>9, <1>11, <1>13, <1>14, BatchStep DEF IInv

-----------------------------------------------------------------------------
(* The theorems about the projection.                                      *)

LEMMA InitHolds == Init => IInv
<1> SUFFICES ASSUME Init PROVE IInv
  OBVIOUS
<1> USE DEF Init
<1>1. TypeOK
  BY IdleTyped DEF TypeOK, Idle, Ids
<1>2. HistoryTyped /\ RowIds /\ EventsEnd /\ HistoryReplays
  BY DEF HistoryTyped, RowIds, Rows, EventsEnd, HistoryReplays, Chained
<1>3. PriorsSound /\ Serial
  BY IdleTyped DEF PriorsSound, Serial, Idle
<1> QED  BY <1>1, <1>2, <1>3 DEF IInv

LEMMA StepHolds == IInv /\ [Next]_vars => IInv'
<1> SUFFICES ASSUME IInv, [Next]_vars PROVE IInv'
  OBVIOUS
<1>1. ASSUME NEW k \in Cycle, Schedule(k) PROVE IInv'
  BY <1>1, ScheduleStep
<1>2. ASSUME Settle PROVE IInv'
  BY <1>2, SettleStep
<1>3. ASSUME NEW j \in Job, NEW k \in Cycle, Collect(j, k) PROVE IInv'
  BY <1>3, CollectStep
<1>4. ASSUME NEW j \in Job, ReadPrior(j) PROVE IInv'
  BY <1>4, ReadPriorStep
<1>5. ASSUME NEW j \in Job, NEW band \in Outcome, Persist(j, band) PROVE IInv'
  BY <1>5, PersistOnlyStep, PersistUpsertStep
<1>6. ASSUME NEW j \in Job, Drop(j) PROVE IInv'
  BY <1>6, DropStep
<1>7. CASE Tick
  BY <1>7, TickStep
<1>8. CASE UNCHANGED vars
  BY <1>8, StutterStep
<1>9. CASE OtherSubject
  BY <1>9, OtherSubjectStep
<1> QED  BY <1>1, <1>2, <1>3, <1>4, <1>5, <1>6, <1>7, <1>8, <1>9 DEF Next, Handle

\* The strengthening holds at every step, whatever jobs overlap.
THEOREM Inductive == Spec => []IInv
<1>1. Init => IInv
  BY InitHolds
<1>2. IInv /\ [Next]_vars => IInv'
  BY StepHolds
<1> QED  BY <1>1, <1>2, PTL DEF Spec

\* Every row is a valid state at every step, whatever jobs overlap.
THEOREM TypeCorrect == Spec => []TypeOK
BY Inductive, PTL DEF IInv

\* While no batch commits late, the append-only events replay to the rows.
THEOREM HistoryReplaysHolds == Spec => []HistoryReplays
BY Inductive, PTL DEF IInv

\* No commit, late or duplicate, moves a row back.
THEOREM NoRewindHolds == Spec => NoRewind
<1>1. ASSUME IInv, [Next]_vars, NEW d \in Rows
      PROVE  /\ table'[d] # NoState
             /\ table'[d].first = table[d].first
             /\ table'[d] # table[d] => table'[d].finalizedAt > table[d].finalizedAt
  <2>1. CASE table' = table
    BY <2>1 DEF Rows
  <2>2. CASE table' # table
    <3>1. PICK j \in Job, band \in Outcome : Persist(j, band)
      BY <1>1, <2>2 DEF Next, Handle, Schedule, Settle, OtherSubject, Collect, ReadPrior,
             Drop, Tick, vars, projection
    <3>2. /\ StateOf(job[j], band) # NoState
          /\ Accepts(TargetOf(job[j], band), StateOf(job[j], band))
          /\ table' = [table EXCEPT ![TargetOf(job[j], band)] =
                           Upserted(TargetOf(job[j], band), StateOf(job[j], band))]
          /\ job[j].step # "idle"
      BY <2>2, <3>1 DEF Persist
    <3>3. d \in Id /\ table[d] # NoState /\ DOMAIN table = Id
      BY <1>1 DEF IInv, TypeOK, Rows
    <3>4. CASE d = TargetOf(job[j], band)
      <4>1. /\ Upserted(d, StateOf(job[j], band)) # NoState
            /\ Upserted(d, StateOf(job[j], band)).first = table[d].first
            /\ table[d].finalizedAt < Upserted(d, StateOf(job[j], band)).finalizedAt
        BY <1>1, <3>2, <3>3, <3>4, UpsertValid DEF IInv
      <4>2. table[d].finalizedAt \in Nat /\ Upserted(d, StateOf(job[j], band)).finalizedAt \in Nat
        BY <1>1, <3>2, <3>3, <3>4, UpsertValid DEF IInv, TypeOK, Valid, State
      <4> QED  BY <3>2, <3>3, <3>4, <4>1, <4>2
    <3>5. CASE d # TargetOf(job[j], band)
      BY <3>2, <3>3, <3>5
    <3> QED  BY <3>4, <3>5
  <2> QED  BY <2>1, <2>2
<1> DEFINE Forward == \A d \in Rows :
                         /\ table'[d] # NoState
                         /\ table'[d].first = table[d].first
                         /\ table'[d] # table[d] => table'[d].finalizedAt > table[d].finalizedAt
<1>2. IInv /\ [Next]_vars => [Forward]_vars
  BY <1>1
<1>3. [][Forward]_vars <=> NoRewind
  BY DEF NoRewind
<1> HIDE DEF Forward
<1> QED  BY Inductive, <1>2, <1>3, PTL DEF Spec

-----------------------------------------------------------------------------
(* Severity is backed by evidence.                                         *)

\* Counting is finite.
LEMMA CountedFinite ==
    ASSUME NEW b, NEW r
    PROVE  IsFiniteSet(Counted(b, r)) /\ Cardinality(Counted(b, r)) \in Nat
<1>1. Counted(b, r) \subseteq Cycle
  BY DEF Counted
<1> QED  BY <1>1, CycleAssumption, FS_Subset, FS_CardinalityType

\* More batches, or an earlier first observation, back a state no less.
LEMMA BackedMonotone ==
    ASSUME NEW b, NEW c, NEW r, NEW q, r.above \in Nat, q.above = r.above,
           \A k \in Cycle : b[k] # NoBatch => c[k] = b[k],
           Counted(b, r) \subseteq Counted(b, q),
           Backed(b, r)
    PROVE  Backed(c, q)
<1>1. Counted(b, r) \subseteq Counted(c, q)
  BY DEF Counted
<1>2. Cardinality(Counted(b, r)) <= Cardinality(Counted(c, q))
  BY <1>1, CountedFinite, FS_Subset
<1> QED  BY <1>2, CountedFinite DEF Backed

\* A state stays backed as batches commit.
LEMMA BackedGrows ==
    ASSUME NEW b, NEW c, NEW r, r.above \in Nat,
           \A k \in Cycle : b[k] # NoBatch => c[k] = b[k],
           Backed(b, r)
    PROVE  Backed(c, r)
BY BackedMonotone

\* A state advanced from a backed one is backed once its own batch is durable.
LEMMA AdvanceBacked ==
    ASSUME NEW prior, prior = NoState \/ Valid(prior),
           NEW k \in Cycle, NEW at \in Nat, NEW band \in Band,
           ~Ignored(prior, k, at),
           prior = NoState => band # "within",
           NEW b \in [Cycle -> Batch \cup {NoBatch}], b[k] = NoBatch,
           prior # NoState => Backed(b, prior)
    PROVE  Backed([b EXCEPT ![k] = [at |-> at, band |-> band]], Advance(prior, k, at, band))
<1> DEFINE s == Advance(prior, k, at, band)
           c == [b EXCEPT ![k] = [at |-> at, band |-> band]]
           x == [at |-> at, band |-> band]
<1>1. Valid(s) /\ s.finalizedAt = at
  BY AdvanceKeepsValid
<1>2. s \in State /\ s.above \in Nat /\ s.first \in Nat /\ s.first <= at
  BY <1>1 DEF Valid, State, TimesOrdered
<1>3. /\ c[k] = x /\ x # NoBatch /\ x.at = at /\ x.band = band
      /\ \A i \in Cycle : b[i] # NoBatch => c[i] = b[i]
  BY NoBatchAssumption DEF Batch, Outcome
<1>4. IsFiniteSet(Counted(c, s)) /\ Cardinality(Counted(c, s)) \in Nat
  BY CountedFinite
<1>5. CASE s.above = 0
  BY <1>4, <1>5 DEF Backed
<1>6. CASE band = "above"
  <2>1. s = Observe(prior, k, at, band)
    BY <1>6 DEF Advance
  <2>2. k \in Counted(c, s)
    BY <1>1, <1>2, <1>3, <1>6 DEF Counted
  <2>3. CASE IsOpen(prior)
    <3>1. /\ prior \in State /\ prior.finalizedAt < at /\ Backed(b, prior)
          /\ s.above = prior.above + 1 /\ s.first = prior.first
      BY <1>6, <2>1, <2>3, NoStateAssumption
      DEF IsOpen, Ignored, Valid, State, Observe, AboveStreak
    <3>2. Counted(b, prior) \subseteq Counted(c, s)
      <4> SUFFICES ASSUME NEW i \in Counted(b, prior) PROVE i \in Counted(c, s)
        OBVIOUS
      <4>1. b[i] # NoBatch /\ b[i].at \in Nat /\ i \in Cycle
        BY DEF Counted, Batch
      <4> QED  BY <1>1, <1>2, <1>3, <3>1, <4>1 DEF Counted, State
    <3>3. k \notin Counted(b, prior)
      BY DEF Counted
    <3>4. Cardinality(Counted(b, prior) \cup {k}) = Cardinality(Counted(b, prior)) + 1
      BY <3>3, CountedFinite, FS_AddElement
    <3>5. Cardinality(Counted(b, prior) \cup {k}) <= Cardinality(Counted(c, s))
      BY <1>4, <2>2, <3>2, FS_Subset
    <3>6. prior.above \in Nat /\ Cardinality(Counted(b, prior)) \in Nat
      BY <3>1, CountedFinite DEF State
    <3> QED  BY <1>4, <3>1, <3>4, <3>5, <3>6 DEF Backed
  <2>4. CASE ~IsOpen(prior)
    <3>1. s.above = 1
      BY <1>6, <2>1, <2>4 DEF Observe, AboveStreak
    <3>2. Cardinality(Counted(c, s)) # 0
      BY <1>4, <2>2, FS_EmptySet
    <3> QED  BY <1>4, <3>1, <3>2 DEF Backed
  <2> QED  BY <2>3, <2>4
<1>7. CASE band # "above"
  <2>1. s.above = 0
    <3>1. CASE band = "info"
      BY <3>1 DEF Advance, Observe, AboveStreak
    <3>2. CASE band = "within"
      BY <3>2, NoStateAssumption
      DEF Advance, Resolve, Refresh, IsOpen, Valid, State, StreakFits, Lifecycle
    <3> QED  BY <1>7, <3>1, <3>2 DEF Band
  <2> QED  BY <1>5, <2>1
<1> QED  BY <1>6, <1>7

\* What a persisted batch projects is backed by it and by what the job read.
LEMMA UpsertBacked ==
    ASSUME IInv, PriorsBacked, NEW j \in Job, NEW band \in Outcome, Persist(j, band),
           StateOf(job[j], band) # NoState
    PROVE  Backed(batch', Upserted(TargetOf(job[j], band), StateOf(job[j], band)))
<1> DEFINE w == job[j]
           p == w.prior.state
           s == StateOf(w, band)
           d == TargetOf(w, band)
           u == Upserted(d, s)
<1>1. w.step # "idle" /\ Accepts(d, s) /\ w.cycle \in Cycle /\ w.at \in Nat
  BY BatchStep DEF Persist, IInv, TypeOK, JobState
<1>2. /\ band \in Band /\ s = Advance(p, w.cycle, w.at, band)
      /\ band = "within" => p # NoState
      /\ Valid(s) /\ s.finalizedAt = w.at /\ d \in Id
      /\ table[d] # NoState => Valid(table[d])
  BY <1>1, UpsertValid DEF IInv, TypeOK
<1>3. p = NoState \/ Valid(p)
  BY DEF IInv, PriorsSound
<1>4. ~Ignored(p, w.cycle, w.at)
  BY <1>2 DEF StateOf, Outdated
<1>5. Backed(batch', s)
  <2>1. batch' = [batch EXCEPT ![w.cycle] = [at |-> w.at, band |-> band]]
    BY DEF Persist
  <2>2. batch \in [Cycle -> Batch \cup {NoBatch}] /\ batch[w.cycle] = NoBatch
    BY BatchStep DEF IInv, TypeOK, Durable
  <2>3. p # NoState => Backed(batch, p)
    BY DEF PriorsBacked
  <2> QED  BY <1>1, <1>2, <1>3, <1>4, <2>1, <2>2, <2>3, AdvanceBacked
<1>6. CASE table[d] = NoState
  BY <1>5, <1>6 DEF Upserted
<1>7. CASE table[d] # NoState
  <2>1. /\ u.first = table[d].first /\ u.above = s.above /\ u.finalizedAt = s.finalizedAt
        /\ s.above \in Nat /\ s.first \in Nat /\ table[d].first \in Nat
    BY <1>2, <1>7 DEF Upserted, Valid, State
  <2>2. table[d].first <= s.first
    <3>1. CASE band = "within" \/ IsOpen(p)
      <4>1. d = w.prior.id /\ p # NoState /\ s.first = p.first
        BY <1>1, <1>2, <1>3, <3>1, AdvanceTimes DEF TargetOf, IsOpen
      <4> QED  BY <2>1, <4>1 DEF IInv, PriorsSound
    <3>2. CASE ~(band = "within" \/ IsOpen(p))
      <4>1. s.first = w.at
        BY <1>1, <1>2, <1>3, <3>2, AdvanceTimes
      <4>2. table[d].finalizedAt < w.at /\ table[d].finalizedAt \in Nat
            /\ table[d].first <= table[d].finalizedAt
        BY <1>1, <1>2, <1>7 DEF Accepts, Valid, State, TimesOrdered
      <4> QED  BY <1>1, <2>1, <4>1, <4>2
    <3> QED  BY <3>1, <3>2
  <2>3. Counted(batch', s) \subseteq Counted(batch', u)
    <3>1. batch' \in [Cycle -> Batch \cup {NoBatch}]
      BY BatchStep
    <3> SUFFICES ASSUME NEW i \in Counted(batch', s) PROVE i \in Counted(batch', u)
      OBVIOUS
    <3>2. i \in Cycle /\ batch'[i] # NoBatch /\ batch'[i].at \in Nat
      BY <3>1 DEF Counted, Batch
    <3> QED  BY <2>1, <2>2, <3>2 DEF Counted
  <2> QED  BY <1>5, <2>1, <2>3, BackedMonotone
<1> QED  BY <1>6, <1>7

\* Every row, and every state a job read, stays backed.
LEMMA BackedStep ==
    IInv /\ StreakBacked /\ PriorsBacked /\ [Next]_vars => StreakBacked' /\ PriorsBacked'
<1> SUFFICES ASSUME IInv, StreakBacked, PriorsBacked, [Next]_vars
             PROVE  StreakBacked' /\ PriorsBacked'
  OBVIOUS
<1>1. CASE \E j \in Job, band \in Outcome : Persist(j, band)
  <2>1. PICK j \in Job, band \in Outcome : Persist(j, band)
    BY <1>1
  <2>2. \A k \in Cycle : batch[k] # NoBatch => batch'[k] = batch[k]
    BY <2>1, BatchStep DEF Persist, IInv, TypeOK, Durable
  <2>3. \A d \in Rows : Backed(batch', table[d])
    BY <2>2, BackedGrows DEF StreakBacked, IInv, TypeOK, Rows, Valid, State
  <2>4. PriorsBacked'
    <3> SUFFICES ASSUME NEW i \in Job, job'[i].prior.state # NoState
                 PROVE  Backed(batch', job'[i].prior.state)
      BY DEF PriorsBacked
    <3>1. job'[i] = job[i]
      BY <2>1, BatchStep DEF Idle, NoPrior, IInv, TypeOK
    <3>2. Backed(batch, job[i].prior.state) /\ job[i].prior.state.above \in Nat
      BY <3>1 DEF PriorsBacked, IInv, PriorsSound, Valid, State
    <3> QED  BY <2>2, <3>1, <3>2, BackedGrows
  <2>5. CASE StateOf(job[j], band) = NoState
    BY <2>1, <2>3, <2>4, <2>5 DEF Persist, StreakBacked, Rows
  <2>6. CASE StateOf(job[j], band) # NoState
    <3> DEFINE d == TargetOf(job[j], band)
               u == Upserted(d, StateOf(job[j], band))
    <3>1. table' = [table EXCEPT ![d] = u] /\ DOMAIN table = Id
      BY <2>1, <2>6 DEF Persist, IInv, TypeOK
    <3>2. Backed(batch', u)
      BY <2>1, <2>6, UpsertBacked
    <3> HIDE DEF u
    <3>3. \A e \in Rows' : e = d \/ e \in Rows
      BY <3>1 DEF Rows
    <3> QED  BY <2>3, <2>4, <3>1, <3>2, <3>3 DEF StreakBacked, Rows
  <2> QED  BY <2>5, <2>6
<1>2. CASE ~\E j \in Job, band \in Outcome : Persist(j, band)
  <2>1. UNCHANGED <<batch, table>>
    BY <1>2 DEF Next, Handle, Schedule, Settle, OtherSubject, Collect, ReadPrior,
             Drop, Tick, vars, projection
  <2>2. \A i \in Job : \/ job'[i].prior = job[i].prior
                       \/ job'[i].prior.state = NoState
                       \/ \E d \in Id : job'[i].prior.state = table[d]
    <3> SUFFICES ASSUME NEW i \in Job
                 PROVE  \/ job'[i].prior = job[i].prior
                        \/ job'[i].prior.state = NoState
                        \/ \E d \in Id : job'[i].prior.state = table[d]
      OBVIOUS
    <3>1. job \in [Job -> JobState]
      BY DEF IInv, TypeOK
    <3>2. CASE \E j \in Job : ReadPrior(j)
      <4>1. PICK j \in Job : ReadPrior(j)
        BY <3>2
      <4>2. PICK d \in IF Rows = {} THEN {SourceId} ELSE Rows :
               job' = [job EXCEPT ![j].step = "persisting", ![j].prior = [id |-> d, state |-> table[d]]]
        BY <4>1 DEF ReadPrior
      <4>3. d \in Id
        BY <4>2 DEF Rows, Id
      <4> QED  BY <3>1, <4>2, <4>3 DEF JobState
    <3>3. CASE ~\E j \in Job : ReadPrior(j)
      <4>1. CASE \E j \in Job, k \in Cycle : Collect(j, k)
        BY <3>1, <4>1 DEF Collect, Idle, NoPrior
      <4>2. CASE \E j \in Job : Drop(j)
        BY <3>1, <4>2 DEF Drop, Idle, NoPrior
      <4>3. CASE UNCHANGED job
        BY <4>3
      <4> QED  BY <1>2, <3>3, <4>1, <4>2, <4>3 DEF Next, Handle, Schedule, Settle, OtherSubject, Tick, vars
    <3> QED  BY <3>2, <3>3
  <2> QED  BY <2>1, <2>2 DEF StreakBacked, PriorsBacked, Rows
<1> QED  BY <1>1, <1>2

\* However jobs overlap, no severity counts a cycle that has no durable batch
\* out of the Info band.
THEOREM StreakBackedHolds == Spec => []StreakBacked
<1>1. Init => StreakBacked /\ PriorsBacked
  BY DEF Init, StreakBacked, PriorsBacked, Rows, Idle, NoPrior
<1>2. IInv /\ StreakBacked /\ PriorsBacked /\ [Next]_vars => StreakBacked' /\ PriorsBacked'
  BY BackedStep
<1> QED  BY Inductive, <1>1, <1>2, PTL DEF Spec

-----------------------------------------------------------------------------
(* The open cycle is the latest one, and its upsert is accepted.           *)

\* A row was finalized by a durable batch, at its time.
RowsFinalized ==
    \A d \in Rows : /\ table[d].finalizedBy \in Durable
                    /\ table[d].finalizedAt = batch[table[d].finalizedBy].at

\* A job works on the open cycle, whose batch is still missing.
Live(j) == job[j].step # "idle" /\ job[j].cycle = open /\ open \notin Durable

\* With no late batch, every batch is older than the open cycle's jobs, and a
\* job that read no row still finds none.
OpenLatest ==
    late = {} =>
        /\ open \in Cycle \ Durable => \A i \in Durable : batch[i].at < now
        /\ \A j \in Job : Live(j) => /\ \A i \in Durable : batch[i].at < job[j].at
                                     /\ job[j].step = "persisting"
                                            /\ job[j].prior.state = NoState => Rows = {}

DurableScheduled == Durable \subseteq scheduled

OpenInv == RowsFinalized /\ OpenLatest /\ DurableScheduled

\* What a commit leaves in the batches.
LEMMA CommitsBatch ==
    ASSUME IInv, NEW j \in Job, NEW band \in Outcome, Persist(j, band)
    PROVE  /\ batch' = [batch EXCEPT ![job[j].cycle] = [at |-> job[j].at, band |-> band]]
           /\ batch'[job[j].cycle] = [at |-> job[j].at, band |-> band]
           /\ batch'[job[j].cycle].at = job[j].at
           /\ batch'[job[j].cycle].band = band
           /\ \A i \in Durable : batch'[i] = batch[i]
           /\ UNCHANGED <<now, scheduled, open>>
           /\ StateOf(job[j], band) = NoState => table' = table
<1>1. job[j].cycle \in Cycle \ Durable /\ batch \in [Cycle -> Batch \cup {NoBatch}]
  BY BatchStep DEF IInv, TypeOK
<1> QED  BY <1>1 DEF Persist, lifecycle, Durable

\* A row is a state but for its first observation.
SameButFirst(r, s) == \E f \in Nat : r = [s EXCEPT !.first = f]

\* What a commit that projects a state leaves in its row.
LEMMA CommitsRow ==
    ASSUME IInv, NEW j \in Job, NEW band \in Outcome, Persist(j, band),
           StateOf(job[j], band) # NoState,
           NEW d, d = TargetOf(job[j], band),
           NEW s, s = StateOf(job[j], band)
    PROVE  /\ d \in Id /\ Valid(s) /\ Accepts(d, s)
           /\ band \in Band
           /\ s = Advance(job[j].prior.state, job[j].cycle, job[j].at, band)
           /\ s.finalizedAt = job[j].at /\ s.finalizedBy = job[j].cycle
           /\ ~Ignored(job[j].prior.state, job[j].cycle, job[j].at)
           /\ band = "within" => job[j].prior.state # NoState
           /\ Valid(table'[d])
           /\ \A e \in Id \ {d} : table'[e] = table[e]
           /\ SameButFirst(table'[d], s)
<1>1. /\ job[j].cycle \in Cycle /\ job[j].step # "idle"
      /\ job[j].at \in Nat /\ DOMAIN table = Id
  BY BatchStep DEF IInv, TypeOK, JobState
<1>2. Accepts(d, s) /\ table' = [table EXCEPT ![d] = Upserted(d, s)]
  BY DEF Persist
<1>3. /\ band \in Band /\ d \in Id /\ Valid(s) /\ Valid(Upserted(d, s))
      /\ s = Advance(job[j].prior.state, job[j].cycle, job[j].at, band)
      /\ band = "within" => job[j].prior.state # NoState
      /\ table[d] # NoState => Valid(table[d])
  BY <1>1, <1>2, UpsertValid DEF IInv, TypeOK
<1>4. ~Ignored(job[j].prior.state, job[j].cycle, job[j].at)
  BY DEF StateOf, Outdated
<1>5. s.finalizedAt = job[j].at /\ s.finalizedBy = job[j].cycle
  <2>1. PICK p, k, at : p = job[j].prior.state /\ k = job[j].cycle /\ at = job[j].at
    OBVIOUS
  <2>2. p = NoState \/ Valid(p)
    BY <2>1 DEF IInv, PriorsSound
  <2>3. /\ k \in Cycle /\ at \in Nat /\ band \in Band /\ ~Ignored(p, k, at)
        /\ p = NoState => band # "within"
    BY <1>1, <1>3, <1>4, <2>1
  <2>4. Advance(p, k, at, band).finalizedAt = at /\ Advance(p, k, at, band).finalizedBy = k
    BY <2>2, <2>3, AdvanceKeepsValid
  <2> QED  BY <1>3, <2>1, <2>4
<1>6. SameButFirst(Upserted(d, s), s)
  <2>1. CASE table[d] = NoState
    <3>1. s.first \in Nat /\ s = [s EXCEPT !.first = s.first]
      BY <1>3 DEF Valid, State
    <3> QED  BY <2>1, <3>1 DEF Upserted, SameButFirst
  <2>2. CASE table[d] # NoState
    BY <1>3, <2>2 DEF Upserted, SameButFirst, Valid, State
  <2> QED  BY <2>1, <2>2
<1>7. table'[d] = Upserted(d, s) /\ \A e \in Id \ {d} : table'[e] = table[e]
  BY <1>1, <1>2, <1>3
<1> QED  BY <1>2, <1>3, <1>4, <1>5, <1>6, <1>7

\* A commit keeps the rows finalized by durable batches.
LEMMA FinalizedStep ==
    ASSUME IInv, RowsFinalized, NEW j \in Job, NEW band \in Outcome, Persist(j, band)
    PROVE  RowsFinalized'
<1>1. job[j].cycle \in Cycle \ Durable /\ Durable' = Durable \cup {job[j].cycle}
  BY BatchStep
<1>2. batch'[job[j].cycle].at = job[j].at /\ \A i \in Durable : batch'[i] = batch[i]
  BY CommitsBatch
<1>3. CASE StateOf(job[j], band) = NoState
  <2>1. table' = table
    BY <1>3, CommitsBatch
  <2> QED  BY <1>1, <1>2, <2>1 DEF RowsFinalized, Rows
<1>4. CASE StateOf(job[j], band) # NoState
  <2>1. PICK d, s : d = TargetOf(job[j], band) /\ s = StateOf(job[j], band)
    OBVIOUS
  <2>2. /\ d \in Id /\ s.finalizedAt = job[j].at /\ s.finalizedBy = job[j].cycle /\ Valid(s)
        /\ \A e \in Id \ {d} : table'[e] = table[e]
        /\ SameButFirst(table'[d], s)
    BY <1>4, <2>1, CommitsRow
  <2>3. table'[d].finalizedAt = job[j].at /\ table'[d].finalizedBy = job[j].cycle
    BY <2>2 DEF SameButFirst, Valid, State
  <2>4. \A e \in Rows' : e = d \/ e \in Rows
    BY <2>2 DEF Rows
  <2> QED  BY <1>1, <1>2, <2>2, <2>3, <2>4 DEF RowsFinalized, Rows
<1> QED  BY <1>3, <1>4

\* What a job forgets or learns, when it keeps its cycle and its time.
LEMMA OpenJobStep ==
    ASSUME IInv, OpenInv, NEW j \in Job, NEW x,
           job' = [job EXCEPT ![j] = x],
           UNCHANGED <<now, lifecycle, projection>>,
           x.step # "idle" => x.cycle = job[j].cycle /\ x.at = job[j].at /\ job[j].step # "idle",
           x.step = "persisting" /\ x.prior.state = NoState => Rows = {}
    PROVE  OpenInv'
<1>1. RowsFinalized' /\ DurableScheduled' /\ Rows' = Rows /\ Durable' = Durable
  BY DEF OpenInv, RowsFinalized, DurableScheduled, Rows, Durable, projection, lifecycle
<1>2. OpenLatest'
  BY <1>1 DEF OpenInv, OpenLatest, Live, IInv, TypeOK, projection, lifecycle
<1> QED  BY <1>1, <1>2 DEF OpenInv

LEMMA OpenStep == IInv /\ OpenInv /\ [Next]_vars => OpenInv'
<1> SUFFICES ASSUME IInv, OpenInv, [Next]_vars PROVE OpenInv'
  OBVIOUS
<1>1. ASSUME UNCHANGED projection
      PROVE  RowsFinalized' /\ Rows' = Rows /\ Durable' = Durable
  BY <1>1 DEF OpenInv, RowsFinalized, Rows, Durable, projection
<1>2. /\ job \in [Job -> JobState]
      /\ \A j \in Job : job[j].step # "idle" => job[j].cycle \in Cycle /\ job[j].cycle \in scheduled
  BY DEF IInv, TypeOK, PriorsSound
<1>3. ASSUME NEW k \in Cycle, Schedule(k) PROVE OpenInv'
  BY <1>1, <1>2, <1>3 DEF Schedule, OpenInv, OpenLatest, DurableScheduled, Live, projection
<1>4. CASE Settle
  BY <1>1, <1>2, <1>4, NullAssumption
  DEF Settle, OpenInv, OpenLatest, DurableScheduled, Live, projection
<1>5. ASSUME NEW j \in Job, NEW k \in Cycle, Collect(j, k) PROVE OpenInv'
  <2> DEFINE x == [Idle EXCEPT !.step = "reading", !.cycle = k, !.at = now]
  <2>1. job' = [job EXCEPT ![j] = x] /\ UNCHANGED <<now, lifecycle, projection>>
    BY <1>5 DEF Collect
  <2>2. x.step = "reading" /\ x.cycle = k /\ x.at = now
    BY DEF Idle
  <2> HIDE DEF x
  <2>3. job'[j] = x /\ \A i \in Job \ {j} : job'[i] = job[i]
    BY <1>2, <2>1
  <2>4. late = {} => \A i \in Job : Live(i)' =>
               /\ \A c \in Durable : batch[c].at < job'[i].at
               /\ job'[i].step = "persisting" /\ job'[i].prior.state = NoState => Rows = {}
    BY <1>1, <2>1, <2>2, <2>3 DEF OpenInv, OpenLatest, Live, lifecycle
  <2> QED  BY <1>1, <2>1, <2>4 DEF OpenInv, OpenLatest, DurableScheduled, lifecycle, projection
<1>6. ASSUME NEW j \in Job, ReadPrior(j) PROVE OpenInv'
  <2>1. PICK d \in IF Rows = {} THEN {SourceId} ELSE Rows :
            job' = [job EXCEPT ![j].step = "persisting", ![j].prior = [id |-> d, state |-> table[d]]]
    BY <1>6 DEF ReadPrior
  <2> DEFINE x == [job[j] EXCEPT !.step = "persisting", !.prior = [id |-> d, state |-> table[d]]]
  <2>2. job' = [job EXCEPT ![j] = x] /\ UNCHANGED <<now, lifecycle, projection>>
    BY <1>6, <2>1 DEF ReadPrior
  <2>3. x.cycle = job[j].cycle /\ x.at = job[j].at /\ x.prior.state = table[d]
        /\ job[j].step # "idle"
    BY <1>2, <1>6 DEF JobState, ReadPrior
  <2>4. table[d] = NoState => Rows = {}
    BY DEF Rows
  <2> HIDE DEF x
  <2> QED  BY <2>2, <2>3, <2>4, OpenJobStep
<1>7. ASSUME NEW j \in Job, Drop(j) PROVE OpenInv'
  BY <1>7, OpenJobStep DEF Drop, Idle
<1>8. CASE Tick
  <2>1. /\ now' = now + 1 /\ UNCHANGED <<scheduled, open, job, batch, table, late>>
        /\ now \in Nat /\ UNCHANGED projection
        /\ \A i \in Durable : batch[i].at \in Nat
    BY <1>8 DEF Tick, lifecycle, projection, IInv, TypeOK, Durable, Batch
  <2>2. OpenLatest'
    BY <1>1, <2>1 DEF OpenInv, OpenLatest, Live
  <2> QED  BY <1>1, <2>1, <2>2 DEF OpenInv, DurableScheduled
<1>11. CASE OtherSubject
  BY <1>1, <1>11 DEF OtherSubject, OpenInv, OpenLatest, DurableScheduled, Live, projection
<1>9. CASE UNCHANGED vars
  BY <1>1, <1>9 DEF OpenInv, OpenLatest, DurableScheduled, Live, vars, lifecycle, projection
<1>10. ASSUME NEW j \in Job, NEW band \in Outcome, Persist(j, band) PROVE OpenInv'
  <2>1. /\ Durable' = Durable \cup {job[j].cycle} /\ UNCHANGED <<scheduled, open>>
        /\ late' = {} => open = job[j].cycle
        /\ job[j].cycle \in scheduled
    BY <1>2, <1>10, BatchStep, CommitsBatch
  <2>2. OpenLatest' /\ DurableScheduled'
    BY <2>1 DEF OpenInv, OpenLatest, Live, DurableScheduled
  <2>3. RowsFinalized'
    BY <1>10, FinalizedStep DEF OpenInv
  <2> QED  BY <2>2, <2>3 DEF OpenInv
<1> QED  BY <1>3, <1>4, <1>5, <1>6, <1>7, <1>8, <1>9, <1>10, <1>11 DEF Next, Handle

LEMMA OpenHolds == Spec => []OpenInv
<1>1. Init => OpenInv
  BY NullAssumption DEF Init, OpenInv, RowsFinalized, OpenLatest, DurableScheduled, Rows, Durable,
     Live, Idle
<1>2. IInv /\ OpenInv /\ [Next]_vars => OpenInv'
  BY OpenStep
<1> QED  BY Inductive, <1>1, <1>2, PTL DEF Spec

\* A source with at most one row has no two.
LEMMA SingleRow ==
    ASSUME NEW S \in SUBSET Id, Cardinality(S) <= 1, NEW x \in S, NEW y \in S
    PROVE  x = y
<1> SUFFICES ASSUME x # y PROVE FALSE
  OBVIOUS
<1>1. IsFiniteSet(S)
  BY CycleAssumption, FS_AddElement, FS_Subset DEF Id
<1>2. IsFiniteSet({x}) /\ Cardinality({x}) = 1
  BY FS_Singleton
<1>3. Cardinality({x} \cup {y}) = 2
  BY <1>2, FS_AddElement
<1>4. Cardinality({x} \cup {y}) <= Cardinality(S)
  BY <1>1, FS_Subset
<1>5. Cardinality(S) \in Nat
  BY <1>1, FS_CardinalityType
<1> QED  BY <1>3, <1>4, <1>5

\* What a live job read is still the row, finalized before the job.
LEMMA LivePrior ==
    ASSUME IInv, OpenInv, late = {}, NEW j \in Job,
           job[j].step = "persisting", job[j].cycle = open, open \notin Durable
    PROVE  /\ job[j].prior.state = NoState => Rows = {}
           /\ job[j].prior.state # NoState =>
                 /\ job[j].prior.id \in Rows
                 /\ table[job[j].prior.id] = job[j].prior.state
           /\ \A d \in Rows : /\ Valid(table[d])
                              /\ table[d].finalizedBy \in Durable
                              /\ table[d].finalizedBy # open
                              /\ table[d].finalizedAt < job[j].at
           /\ ~Outdated(job[j])
<1>1. job[j].prior.state = NoState => Rows = {}
  BY DEF OpenInv, OpenLatest, Live
<1>2. job[j].prior.state # NoState =>
         job[j].prior.id \in Rows /\ table[job[j].prior.id] = job[j].prior.state
  BY DEF IInv, Serial, TypeOK, JobState, Prior, Rows
<1>3. \A d \in Rows : /\ Valid(table[d])
                      /\ table[d].finalizedBy \in Durable
                      /\ table[d].finalizedBy # open
                      /\ table[d].finalizedAt < job[j].at
  BY DEF OpenInv, RowsFinalized, OpenLatest, Live, IInv, TypeOK, Rows
<1>4. job[j].at \in Nat /\ \A d \in Rows : table[d].finalizedAt \in Nat
  BY <1>3 DEF IInv, TypeOK, JobState, Valid, State
<1>5. ~Outdated(job[j])
  BY <1>2, <1>3, <1>4 DEF Outdated, Ignored
<1> QED  BY <1>1, <1>2, <1>3, <1>5

\* The upsert of a live job is accepted, unless another subject took its id.
LEMMA LiveAccepted ==
    ASSUME IInv, OpenInv, late = {}, Cardinality(Rows) <= 1, NEW j \in Job,
           job[j].step = "persisting", job[j].cycle = open, open \notin Durable,
           NEW band \in Outcome, StateOf(job[j], band) # NoState, ids # "foreign"
    PROVE  Accepts(TargetOf(job[j], band), StateOf(job[j], band))
<1>1. PICK d, s, p, k, at : /\ d = TargetOf(job[j], band) /\ s = StateOf(job[j], band)
                            /\ p = job[j].prior.state /\ k = job[j].cycle /\ at = job[j].at
  OBVIOUS
<1>2. /\ p = NoState => Rows = {}
      /\ p # NoState => job[j].prior.id \in Rows /\ table[job[j].prior.id] = p
      /\ \A e \in Rows : table[e].finalizedAt < at
      /\ ~Ignored(p, k, at)
  BY <1>1, LivePrior DEF Outdated
<1>3. /\ band \in Band /\ s = Advance(p, k, at, band) /\ s # NoState
      /\ k \in Cycle /\ at \in Nat
  BY <1>1 DEF StateOf, Outcome, IInv, TypeOK, JobState
<1>4. p = NoState => band # "within"
  BY <1>3 DEF Advance
<1>5. p = NoState \/ Valid(p)
  BY <1>1 DEF IInv, PriorsSound
<1>6. s.finalizedAt = at
  BY <1>2, <1>3, <1>4, <1>5, AdvanceKeepsValid
<1>7. d \in Id
  BY <1>1 DEF TargetOf, Id, IInv, TypeOK, JobState, Prior
<1>8. table[d] # NoState => table[d].finalizedAt < s.finalizedAt
  BY <1>2, <1>6, <1>7 DEF Rows
<1>9. \A e \in Id \ {d} : ~IsOpen(table[e])
  <2> SUFFICES ASSUME NEW e \in Id \ {d}, e \in Rows PROVE ~IsOpen(table[e])
    BY DEF Rows, IsOpen
  <2>1. p # NoState /\ e = job[j].prior.id /\ table[e] = p
    BY <1>2, SingleRow DEF Rows
  <2>2. ~IsOpen(p)
    BY <1>1, <2>1 DEF TargetOf
  <2> QED  BY <2>1, <2>2
<1> QED  BY <1>1, <1>8, <1>9 DEF Accepts

\* An event of a measurement out of tolerance is no resolution.
LEMMA ObservedUnresolved ==
    ASSUME NEW w, NEW band, band # "within", NEW s, NEW h \in Seq(Event),
           Valid(s), w.prior.state = NoState \/ Valid(w.prior.state),
           \A i \in DOMAIN h : h[i].type # "resolved"
    PROVE  LET g == h \o Events(w, band, s) IN \A i \in DOMAIN g : g[i].type # "resolved"
<1>1. PICK t \in {"opened", "observed", "escalated"} :
          Events(w, band, s) = <<EventOf(w.prior.state, t, s)>>
  BY EventsAre
<1>2. PICK e : e = EventOf(w.prior.state, t, s)
  OBVIOUS
<1>3. e.type = t /\ e \in Event
  BY <1>2, SnapshotTyped DEF EventOf, Event, IsOpen
<1>4. <<e>> \in Seq(Event) /\ Len(<<e>>) = 1 /\ <<e>>[1] = e
  BY <1>3
<1>5. /\ h \o <<e>> \in Seq(Event)
      /\ Len(h \o <<e>>) = Len(h) + 1
      /\ \A i \in 1..Len(h) : (h \o <<e>>)[i] = h[i]
      /\ (h \o <<e>>)[Len(h) + 1] = e
  BY <1>4, ConcatProperties
<1>6. DOMAIN h = 1..Len(h) /\ Len(h) \in Nat
  OBVIOUS
<1>7. DOMAIN (h \o <<e>>) = 1..Len(h) + 1
  BY <1>5
<1>8. \A i \in DOMAIN (h \o <<e>>) : i \in 1..Len(h) \/ i = Len(h) + 1
  BY <1>6, <1>7
<1>9. \A i \in DOMAIN (h \o <<e>>) : (h \o <<e>>)[i].type # "resolved"
  BY <1>3, <1>5, <1>6, <1>8
<1> QED  BY <1>1, <1>2, <1>9

\* A row that is open under an id of its own was never resolved.
LEMMA UnresolvedStep == IInv /\ OpenUnresolved /\ [Next]_vars => OpenUnresolved'
<1> SUFFICES ASSUME IInv, OpenUnresolved, [Next]_vars, late' = {}, ids' = "fresh",
                    NEW d \in Id, IsOpen(table'[d])
             PROVE  Resolvable(d)'
  BY DEF OpenUnresolved, Rows
<1>1. CASE UNCHANGED <<table, history>>
  <2>1. late = {} /\ ids = "fresh"
    BY DEF Next, Handle, Schedule, Settle, OtherSubject, Collect, ReadPrior, Persist, Drop, Tick,
           vars, lifecycle, projection
  <2> QED  BY <1>1, <2>1 DEF OpenUnresolved, Resolvable, Rows, IsOpen
<1>2. CASE ~UNCHANGED <<table, history>>
  <2>1. PICK j \in Job, band \in Outcome : Persist(j, band)
    BY <1>2 DEF Next, Handle, Schedule, Settle, OtherSubject, Collect, ReadPrior, Drop, Tick,
                vars, projection
  <2>2. PICK w, s, t : w = job[j] /\ s = StateOf(w, band) /\ t = TargetOf(w, band)
    OBVIOUS
  <2>3. s # NoState /\ history' = [history EXCEPT ![t] = @ \o Events(w, band, s)]
    BY <1>2, <2>1, <2>2 DEF Persist
  <2>4. /\ t \in Id /\ Valid(s) /\ band \in Band
        /\ s = Advance(w.prior.state, w.cycle, w.at, band)
        /\ band = "within" => w.prior.state # NoState
        /\ \A e \in Id \ {t} : table'[e] = table[e]
        /\ SameButFirst(table'[t], s)
    BY <2>1, <2>2, <2>3, CommitsRow
  <2>5. /\ late = {} /\ ids = "fresh" /\ w.cycle \in Cycle \ Durable
        /\ table[w.prior.id] = w.prior.state
        /\ w.prior.state = NoState \/ Valid(w.prior.state)
        /\ w.prior.id \in Id
        /\ history \in [Id -> Seq(Event)]
    <3>1. late = {} /\ w.cycle \in Cycle \ Durable /\ table[w.prior.id] = w.prior.state
      BY <2>1, <2>2, BatchStep
    <3>2. ids = "fresh"
      BY <2>1 DEF Persist, lifecycle
    <3>3. (w.prior.state = NoState \/ Valid(w.prior.state)) /\ w.prior.id \in Id
      BY <2>2 DEF IInv, PriorsSound, TypeOK, JobState, Prior
    <3> QED  BY <3>1, <3>2, <3>3 DEF IInv, HistoryTyped
  <2>6. CASE d # t
    BY <2>3, <2>4, <2>5, <2>6 DEF OpenUnresolved, Resolvable, Rows, IsOpen
  <2>7. CASE d = t
    <3>1. s.lifecycle = "open"
      BY <2>4, <2>7 DEF SameButFirst, IsOpen, Valid, State
    <3>2. band # "within"
      BY <2>4, <2>5, <3>1 DEF Advance, Resolve, Refresh, IsOpen, Valid, State
    <3>3. \A i \in DOMAIN history[t] : history[t][i].type # "resolved"
      <4>1. CASE IsOpen(w.prior.state)
        <5>1. t = w.prior.id /\ IsOpen(table[t]) /\ t \in Rows
          BY <2>2, <2>5, <4>1 DEF TargetOf, IsOpen, Rows
        <5> QED  BY <2>5, <4>1, <5>1 DEF OpenUnresolved, Resolvable
      <4>2. CASE ~IsOpen(w.prior.state)
        <5>1. t = w.cycle
          BY <2>2, <2>5, <3>2, <4>2 DEF TargetOf
        <5>2. table[t] = NoState
          BY <2>4, <2>5, <5>1 DEF IInv, RowIds, Rows
        <5>3. history[t] = <<>>
          BY <2>4, <2>5, <5>2 DEF IInv, EventsEnd
        <5> QED  BY <5>3
      <4> QED  BY <4>1, <4>2
    <3>4. history[t] \in Seq(Event) /\ history'[t] = history[t] \o Events(w, band, s)
      BY <2>3, <2>4, <2>5
    <3>5. PICK h \in Seq(Event) : h = history[t]
      BY <3>4
    <3>6. LET g == h \o Events(w, band, s) IN \A i \in DOMAIN g : g[i].type # "resolved"
      BY <2>4, <2>5, <3>2, <3>3, <3>5, ObservedUnresolved
    <3> QED  BY <2>7, <3>4, <3>5, <3>6 DEF Resolvable
  <2> QED  BY <2>6, <2>7
<1> QED  BY <1>1, <1>2

LEMMA UnresolvedHolds == Spec => []OpenUnresolved
<1>1. Init => OpenUnresolved
  BY DEF Init, OpenUnresolved, Rows
<1>2. IInv /\ OpenUnresolved /\ [Next]_vars => OpenUnresolved'
  BY UnresolvedStep
<1> QED  BY Inductive, <1>1, <1>2, PTL DEF Spec

\* While a source has one row and no batch was late, the projection refuses the
\* cycle that is open for two reasons alone: another subject has taken the id of
\* the source, or that id was resolved once before.  No prior its job read is
\* outdated, and no newer or other open row is in its way.
THEOREM OpenCycleAcceptedHolds == Spec => []OpenCycleAccepted
<1>1. ASSUME IInv, OpenInv, OpenUnresolved PROVE OpenCycleAccepted
  <2> SUFFICES ASSUME late = {}, Cardinality(Rows) <= 1,
                      NEW j \in Job, NEW band \in Outcome, Finalizing(job[j])
               PROVE  /\ ~Outdated(job[j])
                      /\ StateOf(job[j], band) # NoState =>
                            ids = "foreign" \/ Accepts(TargetOf(job[j], band), StateOf(job[j], band))
                      /\ Resolves(job[j], band) =>
                            ids = "own" \/ Resolvable(TargetOf(job[j], band))
    BY DEF OpenCycleAccepted
  <2>1. job[j].step = "persisting" /\ job[j].cycle = open /\ open \notin Durable
    BY DEF Finalizing
  <2>2. ~Outdated(job[j])
    BY <1>1, <2>1, LivePrior
  <2>3. StateOf(job[j], band) # NoState =>
           ids = "foreign" \/ Accepts(TargetOf(job[j], band), StateOf(job[j], band))
    BY <1>1, <2>1, LiveAccepted
  <2>4. ASSUME Resolves(job[j], band), ids # "own"
        PROVE  Resolvable(TargetOf(job[j], band))
    <3>1. TargetOf(job[j], band) = job[j].prior.id /\ IsOpen(job[j].prior.state)
      BY <2>4 DEF Resolves, TargetOf
    <3>2. job[j].prior.id \in Rows /\ table[job[j].prior.id] = job[j].prior.state
      BY <1>1, <2>1, <3>1, LivePrior DEF IsOpen
    <3>3. ids = "fresh"
      BY <1>1, <2>4, <3>2 DEF IInv, TypeOK, Ids, RowIds
    <3> QED  BY <1>1, <3>1, <3>2, <3>3 DEF OpenUnresolved
  <2> QED  BY <2>2, <2>3, <2>4
<1>2. IInv /\ OpenInv /\ OpenUnresolved => OpenCycleAccepted
  BY <1>1
<1> QED  BY Inductive, OpenHolds, UnresolvedHolds, <1>2, PTL

-----------------------------------------------------------------------------
(* The rule.                                                               *)

\* What the single row of a source says of the batches, as long as none was late.
RowRule ==
    late = {} /\ Cardinality(Rows) <= 1 =>
        /\ Rows = {} => \A k \in Measured : batch[k].band = "within"
        /\ \A d \in Rows :
              LET r == table[d]
              IN  /\ r.finalizedBy \in Measured
                  /\ \A i \in Measured \ {r.finalizedBy} : batch[i].at < r.finalizedAt
                  /\ IsOpen(r) <=> batch[r.finalizedBy].band # "within"
                  /\ IsOpen(r) => r.above = Cardinality(Streak)

LEMMA StreakFinite == IsFiniteSet(Streak) /\ Cardinality(Streak) \in Nat
<1>1. Streak \subseteq Cycle
  BY DEF Streak, Above, Durable
<1> QED  BY <1>1, CycleAssumption, FS_Subset, FS_CardinalityType

\* What a state advanced by a band says of it.
LEMMA AdvanceRule ==
    ASSUME NEW prior, prior = NoState \/ Valid(prior),
           NEW k \in Cycle, NEW at \in Nat, NEW band \in Band,
           prior = NoState => band # "within"
    PROVE  /\ Advance(prior, k, at, band).lifecycle = "open" <=> band # "within"
           /\ band = "info" => Advance(prior, k, at, band).above = 0
           /\ band = "above" => Advance(prior, k, at, band).above =
                                   IF IsOpen(prior) THEN prior.above + 1 ELSE 1
BY DEF Advance, Observe, Resolve, Refresh, AboveStreak, IsOpen, Valid, State, Band

\* A batch newer than all others that is out of tolerance extends the streak,
\* any other that measured ends it, one that measured nothing keeps it.
LEMMA StreakMoves ==
    ASSUME IInv, NEW j \in Job, NEW band \in Outcome, Persist(j, band),
           \A i \in Durable : batch[i].at < job[j].at
    PROVE  /\ Measured' = IF band = "missing" THEN Measured ELSE Measured \cup {job[j].cycle}
           /\ job[j].cycle \notin Measured
           /\ \A i \in Measured : batch'[i] = batch[i]
           /\ band = "missing" => Streak' = Streak
           /\ band = "above" => /\ Streak' = Streak \cup {job[j].cycle}
                                /\ job[j].cycle \notin Streak
           /\ band = "info" => Streak' = {}
<1>1. PICK k, at : k = job[j].cycle /\ at = job[j].at
  OBVIOUS
<1>2. /\ k \in Cycle \ Durable /\ Durable' = Durable \cup {k}
      /\ batch'[k].at = at /\ batch'[k].band = band
      /\ \A i \in Durable : batch'[i] = batch[i] /\ batch[i].at < at
      /\ \A i \in Durable : batch[i].at \in Nat
      /\ at \in Nat
  <2>1. k \in Cycle \ Durable /\ Durable' = Durable \cup {k}
    BY <1>1, BatchStep
  <2>2. /\ batch'[k].at = at /\ batch'[k].band = band
        /\ \A i \in Durable : batch'[i] = batch[i] /\ batch[i].at < at
    BY <1>1, CommitsBatch
  <2>3. \A i \in Durable : batch[i].at \in Nat
    BY DEF IInv, TypeOK, Durable, Batch
  <2>4. at \in Nat
    BY <1>1 DEF IInv, TypeOK, JobState
  <2> QED  BY <2>1, <2>2, <2>3, <2>4
<1>3. /\ Measured' = IF band = "missing" THEN Measured ELSE Measured \cup {k}
      /\ Above' = IF band = "above" THEN Above \cup {k} ELSE Above
      /\ Measured \subseteq Durable /\ Above \subseteq Measured
  BY <1>2 DEF Measured, Above
<1>4. CASE band = "missing"
  <2>1. Streak' = Streak
    BY <1>2, <1>3, <1>4 DEF Streak
  <2> QED  BY <1>1, <1>2, <1>3, <1>4, <2>1
<1>5. CASE band = "above"
  <2>1. Measured' \ Above' = Measured \ Above
    BY <1>2, <1>3, <1>5
  <2>2. Streak' = Streak \cup {k}
    BY <1>2, <1>3, <1>5, <2>1 DEF Streak
  <2>3. k \notin Streak
    BY <1>2, <1>3 DEF Streak
  <2> QED  BY <1>1, <1>2, <1>3, <1>5, <2>2, <2>3
<1>6. CASE band \in {"info", "within"}
  <2>1. k \in Measured' \ Above' /\ Above' = Above
    BY <1>2, <1>3, <1>6
  <2>2. Streak' = {}
    BY <1>2, <1>3, <2>1 DEF Streak
  <2> QED  BY <1>1, <1>2, <1>3, <1>6, <2>2
<1> QED  BY <1>4, <1>5, <1>6 DEF Outcome, Band

\* No streak is running where no row is open.
LEMMA NoStreak ==
    ASSUME IInv, RowsFinalized, RowRule, late = {}, Cardinality(Rows) <= 1,
           \A d \in Rows : ~IsOpen(table[d])
    PROVE  Streak = {}
<1>1. \A i \in Measured : batch[i].at \in Nat
  BY DEF Measured, Durable, IInv, TypeOK, Batch
<1>2. CASE Rows = {}
  BY <1>2 DEF RowRule, Streak, Above, Measured
<1>3. ASSUME NEW d \in Rows PROVE Streak = {}
  <2>1. PICK f : f = table[d].finalizedBy
    OBVIOUS
  <2>2. /\ f \in Measured /\ batch[f].band = "within"
        /\ \A i \in Measured \ {f} : batch[i].at < batch[f].at
    BY <2>1 DEF RowRule, RowsFinalized
  <2> QED  BY <1>1, <2>2 DEF Streak, Above, Measured
<1> QED  BY <1>2, <1>3

\* A commit keeps the rule.
LEMMA RuleCommitStep ==
    ASSUME IInv, OpenInv, RowRule, NEW j \in Job, NEW band \in Outcome, Persist(j, band)
    PROVE  RowRule'
<1> SUFFICES ASSUME late' = {}, Cardinality(Rows') <= 1
             PROVE  /\ Rows' = {} => \A k \in Measured' : batch'[k].band = "within"
                    /\ \A d \in Rows' :
                          /\ table'[d].finalizedBy \in Measured'
                          /\ \A i \in Measured' \ {table'[d].finalizedBy} :
                                batch'[i].at < table'[d].finalizedAt
                          /\ IsOpen(table'[d]) <=> batch'[table'[d].finalizedBy].band # "within"
                          /\ IsOpen(table'[d]) => table'[d].above = Cardinality(Streak')
  BY DEF RowRule
<1>1. PICK p, k, at : p = job[j].prior.state /\ k = job[j].cycle /\ at = job[j].at
  OBVIOUS
<1>2. /\ late = {} /\ open = k /\ k \in Cycle \ Durable /\ job[j].step = "persisting"
      /\ batch'[k].at = at /\ batch'[k].band = band /\ at \in Nat
  BY <1>1, BatchStep, CommitsBatch DEF IInv, TypeOK, JobState
<1>3. \A i \in Durable : batch[i].at < at
  BY <1>1, <1>2 DEF OpenInv, OpenLatest, Live
<1>4. /\ p = NoState => Rows = {}
      /\ p # NoState => job[j].prior.id \in Rows /\ table[job[j].prior.id] = p
      /\ ~Outdated(job[j])
  BY <1>1, <1>2, LivePrior
<1>5. /\ Measured' = IF band = "missing" THEN Measured ELSE Measured \cup {k}
      /\ k \notin Measured
      /\ \A i \in Measured : batch'[i] = batch[i] /\ batch[i].at < at
      /\ band = "missing" => Streak' = Streak
      /\ band = "above" => Streak' = Streak \cup {k} /\ k \notin Streak
      /\ band = "info" => Streak' = {}
  <2>1. Measured \subseteq Durable
    BY DEF Measured
  <2> QED  BY <1>1, <1>3, <2>1, StreakMoves
<1>6. CASE StateOf(job[j], band) = NoState
  <2>1. table' = table /\ Rows' = Rows
    BY <1>6, CommitsBatch DEF Rows
  <2>2. CASE band = "missing"
    BY <1>2, <1>5, <2>1, <2>2 DEF RowRule
  <2>3. CASE band # "missing"
    <3>1. Advance(p, k, at, band) = NoState
      BY <1>1, <1>4, <1>6, <2>3 DEF StateOf
    <3>2. p = NoState \/ Valid(p)
      BY <1>1 DEF IInv, PriorsSound
    <3>3. band \in Band /\ ~Ignored(p, k, at)
      BY <1>1, <1>4, <2>3 DEF Outcome, Outdated
    <3>4. p = NoState /\ band = "within"
      <4> SUFFICES ASSUME p = NoState => band # "within" PROVE FALSE
        OBVIOUS
      <4>1. Valid(Advance(p, k, at, band))
        BY <1>2, <3>2, <3>3, AdvanceKeepsValid
      <4> QED  BY <3>1, <4>1, NoStateAssumption DEF Valid
    <3> QED  BY <1>2, <1>4, <1>5, <2>1, <3>4 DEF RowRule
  <2> QED  BY <2>2, <2>3
<1>7. CASE StateOf(job[j], band) # NoState
  <2>1. PICK d, s : d = TargetOf(job[j], band) /\ s = StateOf(job[j], band)
    OBVIOUS
  <2>2. /\ d \in Id /\ Valid(s) /\ band \in Band /\ Valid(table'[d])
        /\ s = Advance(p, k, at, band) /\ s.finalizedAt = at /\ s.finalizedBy = k
        /\ band = "within" => p # NoState
        /\ \A e \in Id \ {d} : table'[e] = table[e]
        /\ SameButFirst(table'[d], s)
    BY <1>1, <1>7, <2>1, CommitsRow
  <2>3. /\ table'[d].finalizedAt = at /\ table'[d].finalizedBy = k
        /\ table'[d].lifecycle = s.lifecycle /\ table'[d].above = s.above
        /\ table'[d] # NoState
    BY <2>2, NoStateAssumption DEF SameButFirst, Valid, State
  <2>4. Rows' = Rows \cup {d}
    BY <2>2, <2>3 DEF Rows
  <2>5. Rows' = {d}
    BY <2>4, SingleRow DEF Rows
  <2>6. Cardinality(Rows) <= 1 /\ \A e \in Rows : e = d
    <3>1. CASE Rows = {}
      BY <3>1, FS_EmptySet
    <3>2. CASE Rows # {}
      <4>1. Rows = Rows'
        BY <2>4, <2>5, <3>2
      <4> QED  BY <2>5, <4>1
    <3> QED  BY <3>1, <3>2
  <2>7. p = NoState \/ Valid(p)
    BY <1>1 DEF IInv, PriorsSound
  <2>8. /\ s.lifecycle = "open" <=> band # "within"
        /\ band = "info" => s.above = 0
        /\ band = "above" => s.above = IF IsOpen(p) THEN p.above + 1 ELSE 1
    BY <1>2, <2>2, <2>7, AdvanceRule
  <2>9. IsOpen(table'[d]) <=> band # "within"
    BY <2>3, <2>8 DEF IsOpen
  <2>10. band # "within" => table'[d].above = Cardinality(Streak')
    <3>1. CASE band = "info"
      BY <1>5, <2>3, <2>8, <3>1, FS_EmptySet
    <3>2. CASE band = "above"
      <4>1. Cardinality(Streak') = Cardinality(Streak) + 1 /\ Cardinality(Streak) \in Nat
        BY <1>5, <3>2, StreakFinite, FS_AddElement
      <4>2. CASE IsOpen(p)
        <5>1. p # NoState
          BY <4>2 DEF IsOpen
        <5>2. p.above = Cardinality(Streak)
          BY <1>2, <1>4, <2>6, <4>2, <5>1 DEF RowRule
        <5> QED  BY <2>3, <2>8, <3>2, <4>1, <4>2, <5>2
      <4>3. CASE ~IsOpen(p)
        <5>1. \A e \in Rows : ~IsOpen(table[e])
          BY <1>4, <2>6, <4>3
        <5>2. Cardinality(Streak) = 0
          BY <1>2, <2>6, <5>1, NoStreak, FS_EmptySet DEF OpenInv
        <5> QED  BY <2>3, <2>8, <3>2, <4>1, <4>3, <5>2
      <4> QED  BY <4>2, <4>3
    <3> QED  BY <2>2, <3>1, <3>2 DEF Band
  <2>11. Measured' = Measured \cup {k}
    BY <1>5, <2>2 DEF Band
  <2> QED  BY <1>2, <1>5, <2>3, <2>5, <2>9, <2>10, <2>11
<1> QED  BY <1>6, <1>7

LEMMA RuleStep == IInv /\ OpenInv /\ RowRule /\ [Next]_vars => RowRule'
<1> SUFFICES ASSUME IInv, OpenInv, RowRule, [Next]_vars PROVE RowRule'
  OBVIOUS
<1>1. CASE \E j \in Job, band \in Outcome : Persist(j, band)
  BY <1>1, RuleCommitStep
<1>2. CASE ~\E j \in Job, band \in Outcome : Persist(j, band)
  <2>1. UNCHANGED <<batch, table, late>>
    BY <1>2 DEF Next, Handle, Schedule, Settle, OtherSubject, Collect, ReadPrior,
             Drop, Tick, vars, projection
  <2> QED  BY <2>1 DEF RowRule, Rows, Measured, Streak, Above, Durable
<1> QED  BY <1>1, <1>2

\* The row's streak is that of the batches, so its severity is the ruled one.
LEMMA RuleFollows == IInv /\ OpenInv /\ RowRule => RuleHolds
<1> SUFFICES ASSUME IInv, OpenInv, RowRule, late = {}, Cardinality(Rows) <= 1
             PROVE  ClassifiedSeverity = RuledSeverity
  BY DEF RuleHolds
<1>1. \A i \in Measured : batch[i].at \in Nat
  BY DEF Measured, Durable, IInv, TypeOK, Batch
<1>2. CASE Rows = {}
  <2>1. \A k \in LastMeasured : batch[k].band = "within"
    BY <1>2 DEF RowRule, LastMeasured
  <2> QED  BY <1>2, <2>1 DEF ClassifiedSeverity, RuledSeverity
<1>3. ASSUME NEW d \in Rows PROVE ClassifiedSeverity = RuledSeverity
  <2>1. PICK r, f : r = table[d] /\ f = table[d].finalizedBy
    OBVIOUS
  <2>2. Rows = {d}
    BY SingleRow DEF Rows
  <2>7. Valid(r)
    BY <2>1 DEF Rows, IInv, TypeOK
  <2>3. /\ f \in Measured
        /\ \A i \in Measured \ {f} : batch[i].at < batch[f].at
        /\ IsOpen(r) <=> batch[f].band # "within"
        /\ IsOpen(r) => r.above = Cardinality(Streak)
    BY <2>1 DEF RowRule, OpenInv, RowsFinalized
  <2>4. LastMeasured = {f}
    BY <1>1, <2>3 DEF LastMeasured
  <2>5. CASE ~IsOpen(r)
    <3>1. ClassifiedSeverity = "none"
      BY <2>1, <2>2, <2>5 DEF ClassifiedSeverity
    <3>2. RuledSeverity = "none"
      BY <2>3, <2>4, <2>5 DEF RuledSeverity
    <3> QED  BY <3>1, <3>2
  <2>6. CASE IsOpen(r)
    <3>1. ClassifiedSeverity = r.severity
      BY <2>1, <2>2, <2>6 DEF ClassifiedSeverity
    <3>2. Streak = {} <=> r.above = 0
      BY <2>3, <2>6, StreakFinite, FS_EmptySet
    <3>3. RuledSeverity = IF r.above = 0 THEN "info" ELSE IF r.above >= 3 THEN "critical" ELSE "warning"
      BY <2>3, <2>4, <2>6, <3>2 DEF RuledSeverity
    <3>4. /\ r.severity \in {"info", "warning", "critical"} /\ r.above \in Nat
          /\ r.severity = "info" <=> r.above = 0
          /\ r.severity = "critical" <=> r.above >= 3
      BY <2>6, <2>7 DEF IsOpen, Valid, State, Severity, StreakFits
    <3> QED  BY <3>1, <3>3, <3>4
  <2> QED  BY <2>5, <2>6
<1> QED  BY <1>2, <1>3

\* The classification of a source with one row is the mechanical rule over its
\* durable batches, for any number of cycles, as long as no batch was late.
THEOREM RuleIsMechanical == Spec => []RuleHolds
<1>1. Init => RowRule
  BY DEF Init, RowRule, Rows, Measured, Durable
<1>2. IInv /\ OpenInv /\ RowRule /\ [Next]_vars => RowRule'
  BY RuleStep
<1>3. IInv /\ OpenInv /\ RowRule => RuleHolds
  BY RuleFollows
<1> QED  BY Inductive, OpenHolds, <1>1, <1>2, <1>3, PTL DEF Spec

-----------------------------------------------------------------------------
(* What was justified stays so.                                            *)

\* Appending an entry keeps the ones before it.
LEMMA EntersOne ==
    ASSUME NEW L \in Seq(Entry), NEW e \in Entry
    PROVE  /\ Append(L, e) \in Seq(Entry)
           /\ Len(L) \in Nat /\ DOMAIN L = 1..Len(L)
           /\ DOMAIN Append(L, e) = 1..(Len(L) + 1)
           /\ Append(L, e)[Len(L) + 1] = e
           /\ \A i \in DOMAIN L : Append(L, e)[i] = L[i]
           /\ \A i \in DOMAIN L : L[i].at \in Nat
<1>1. \A i \in DOMAIN L : L[i] \in Entry
  BY ElementOfSeq
<1>2. \A x \in Entry : x.at \in Nat
  BY DEF Entry
<1> QED  BY <1>1, <1>2, AppendProperties, LenProperties

LEMMA EarnedGrows ==
    ASSUME NEW L \in Seq(Entry), NEW e \in Entry, Earned(L)
    PROVE  Earned(Append(L, e))
<1>1. PICK i \in DOMAIN L, k \in DOMAIN L :
          /\ i < k
          /\ L[i].action = "begin_reply" /\ L[k].action = "approve"
          /\ \/ \E j \in i..k : L[j].action = "review_response"
             \/ L[k].at >= L[i].at + ReplyWindow
  BY DEF Earned
<1>2. /\ i \in DOMAIN Append(L, e) /\ k \in DOMAIN Append(L, e)
      /\ Append(L, e)[i] = L[i] /\ Append(L, e)[k] = L[k]
      /\ \A j \in i..k : Append(L, e)[j] = L[j]
  BY EntersOne
<1> QED  BY <1>1, <1>2 DEF Earned

LEMMA JustifiedGrows ==
    ASSUME NEW L \in Seq(Entry), NEW e \in Entry, NEW r, Justified(L, r)
    PROVE  Justified(Append(L, e), r)
<1>1. CASE r.publication = "pending_reply"
  <2>1. PICK i \in DOMAIN L :
            /\ L[i].action = "begin_reply"
            /\ r.reply = "awaiting_reply" => r.publicationAt = L[i].at
            /\ r.reply = "response_reviewed" =>
                  \E j \in DOMAIN L : i < j /\ L[j].action = "review_response"
            /\ r.reply = "window_expired" => r.publicationAt >= L[i].at + ReplyWindow
    BY <1>1 DEF Justified
  <2>2. i \in DOMAIN Append(L, e) /\ Append(L, e)[i] = L[i]
    BY EntersOne
  <2>3. ASSUME NEW j \in DOMAIN L
        PROVE  j \in DOMAIN Append(L, e) /\ Append(L, e)[j] = L[j]
    BY EntersOne
  <2> QED  BY <1>1, <2>1, <2>2, <2>3 DEF Justified
<1>2. CASE r.publication # "pending_reply"
  BY <1>2, EarnedGrows DEF Justified
<1> QED  BY <1>1, <1>2

\* A publication action that is allowed on a justified state, and entered, gives
\* a justified state.
LEMMA TransitionJustified ==
    ASSUME Named, NEW L \in Seq(Entry), NEW r, Valid(r), Justified(L, r),
           NEW action \in Action, NEW at \in Nat, Allows(r, action, at)
    PROVE  /\ [action |-> action, at |-> at] \in Entry
           /\ Justified(Append(L, [action |-> action, at |-> at]),
                        Transitioned(r, action, at))
<1> DEFINE e == [action |-> action, at |-> at]
           M == Append(L, e)
           s == Transitioned(r, action, at)
<1>1. e \in Entry /\ e.action = action /\ e.at = at
  BY DEF Entry
<1>2. /\ s.publication = PublicationAfter(r, action)
      /\ s.reply = ReplyAfter(r, action)
      /\ s.publicationAt = at
  BY DEF Transitioned, Valid, State
<1>3. /\ Len(L) \in Nat /\ DOMAIN L = 1..Len(L) /\ DOMAIN M = 1..(Len(L) + 1)
      /\ M[Len(L) + 1] = e
      /\ \A i \in DOMAIN L : M[i] = L[i] /\ L[i].at \in Nat
  BY <1>1, EntersOne
<1>4. r.publicationAt \in Nat /\ at >= r.publicationAt /\ ReplyWindow \in Nat
  BY ReplyWindowAssumption DEF Valid, State, Allows
<1> SUFFICES Justified(M, s)
  BY <1>1
<1> HIDE DEF e, M, s
<1>5. CASE action = "begin_reply"
  <2>1. s.publication = "pending_reply" /\ s.reply = "awaiting_reply"
    BY <1>2, <1>5 DEF PublicationAfter, ReplyAfter
  <2>2. Len(L) + 1 \in DOMAIN M
    BY <1>3
  <2> QED  BY <1>1, <1>2, <1>3, <1>5, <2>1, <2>2 DEF Justified
<1>6. CASE action \in {"record_response", "review_response", "expire_reply_window"}
  <2>1. s.publication = "pending_reply" /\ r.publication = "pending_reply"
    BY <1>2, <1>6 DEF PublicationAfter, Allows
  <2>2. PICK i \in DOMAIN L :
            /\ L[i].action = "begin_reply"
            /\ r.reply = "awaiting_reply" => r.publicationAt = L[i].at
    BY <2>1 DEF Justified
  <2>3. /\ i \in DOMAIN M /\ Len(L) + 1 \in DOMAIN M /\ i < Len(L) + 1
        /\ M[i] = L[i] /\ M[Len(L) + 1].action = action
    BY <1>1, <1>3, <2>2
  <2>4. CASE action = "record_response"
    <3>1. s.reply = "response_received"
      BY <1>2, <2>4 DEF ReplyAfter
    <3> QED  BY <2>1, <2>2, <2>3, <3>1 DEF Justified
  <2>5. CASE action = "review_response"
    <3>1. s.reply = "response_reviewed"
      BY <1>2, <2>5 DEF ReplyAfter
    <3> QED  BY <2>1, <2>2, <2>3, <2>5, <3>1 DEF Justified
  <2>6. CASE action = "expire_reply_window"
    <3>1. at - r.publicationAt >= ReplyWindow /\ r.reply = "awaiting_reply"
      BY <2>6 DEF Allows
    <3>2. s.publicationAt >= L[i].at + ReplyWindow
      BY <1>2, <1>3, <1>4, <2>2, <3>1
    <3>3. s.reply = "window_expired"
      BY <1>2, <2>6 DEF ReplyAfter
    <3> QED  BY <2>1, <2>2, <2>3, <3>2, <3>3 DEF Justified
  <2> QED  BY <1>6, <2>4, <2>5, <2>6
<1>7. CASE action = "approve"
  <2>1. s.publication = "approved_public" /\ r.reply \in {"response_reviewed", "window_expired"}
    BY <1>2, <1>7 DEF PublicationAfter, Allows, Heard
  <2>2. r.publication = "pending_reply"
    BY <1>7, <2>1 DEF Allows, Valid, PublicationFits
  <2>3. PICK i \in DOMAIN L :
            /\ L[i].action = "begin_reply"
            /\ r.reply = "response_reviewed" =>
                  \E j \in DOMAIN L : i < j /\ L[j].action = "review_response"
            /\ r.reply = "window_expired" => r.publicationAt >= L[i].at + ReplyWindow
    BY <2>2 DEF Justified
  <2> DEFINE k == Len(L) + 1
  <2>4. /\ i \in DOMAIN M /\ k \in DOMAIN M /\ i < k
        /\ M[i] = L[i] /\ M[k].action = "approve" /\ M[k].at = at
    BY <1>1, <1>3, <1>7, <2>3
  <2>5. CASE r.reply = "response_reviewed"
    <3>1. PICK j \in DOMAIN L : i < j /\ L[j].action = "review_response"
      BY <2>3, <2>5
    <3>2. j \in i..k /\ M[j].action = "review_response"
      BY <1>3, <3>1
    <3> QED  BY <2>1, <2>3, <2>4, <3>2 DEF Justified, Earned
  <2>6. CASE r.reply = "window_expired"
    <3>1. M[k].at >= M[i].at + ReplyWindow
      BY <1>3, <1>4, <2>3, <2>4, <2>6
    <3> QED  BY <2>1, <2>3, <2>4, <3>1 DEF Justified, Earned
  <2> QED  BY <2>1, <2>5, <2>6
<1>8. CASE action = "withhold"
  BY <1>2, <1>8 DEF PublicationAfter, Justified
<1> QED  BY <1>5, <1>6, <1>7, <1>8 DEF Action

-----------------------------------------------------------------------------
(* Measurement.                                                            *)

\* A completed cycle claims no more than the state it was advanced from.
LEMMA AdvanceJustified ==
    ASSUME NEW L, NEW prior, prior = NoState \/ (Valid(prior) /\ Justified(L, prior)),
           NEW k \in Cycle, NEW at \in Nat, NEW band \in Band,
           prior = NoState => band # "within"
    PROVE  Justified(L, Advance(prior, k, at, band))
<1> DEFINE s == Advance(prior, k, at, band)
<1>1. \/ s.publication = "internal"
      \/ /\ prior # NoState
         /\ s.publication = prior.publication
         /\ s.reply = prior.reply
         /\ s.publicationAt = prior.publicationAt
  BY DEF Advance, Observe, Resolve, Refresh, KeepsPublication, IsOpen, Valid, State, Band
<1> SUFFICES Justified(L, s)
  OBVIOUS
<1> HIDE DEF s
<1>2. CASE s.publication = "internal"
  BY <1>2 DEF Justified
<1>3. CASE s.publication # "internal"
  BY <1>1, <1>3 DEF Justified
<1> QED  BY <1>2, <1>3

\* Nor does the row it is written over.
LEMMA UpsertJustified ==
    ASSUME TypeOK, PriorsSound, AllJustified, NEW j \in Job, NEW band \in Outcome,
           job[j].step # "idle",
           StateOf(job[j], band) # NoState,
           Accepts(TargetOf(job[j], band), StateOf(job[j], band))
    PROVE  Justified(log, Upserted(TargetOf(job[j], band), StateOf(job[j], band)))
<1> DEFINE w == job[j]
           s == StateOf(w, band)
           d == TargetOf(w, band)
           u == Upserted(d, s)
<1>1. /\ band \in Band
      /\ s = Advance(w.prior.state, w.cycle, w.at, band)
      /\ band = "within" => w.prior.state # NoState
      /\ Valid(s)
  BY UpsertValid
<1>2. w.cycle \in Cycle /\ w.at \in Nat
  BY DEF TypeOK, JobState
<1>3. w.prior.state = NoState \/ (Valid(w.prior.state) /\ Justified(log, w.prior.state))
  BY DEF PriorsSound, AllJustified
<1>4. Justified(log, s)
  BY <1>1, <1>2, <1>3, AdvanceJustified
<1>5. /\ u.publication = s.publication
      /\ u.reply = s.reply
      /\ u.publicationAt = s.publicationAt
  BY <1>1 DEF Upserted, Valid, State
<1> HIDE DEF s, u
<1>6. Justified(log, u)
  BY <1>4, <1>5 DEF Justified
<1> QED  BY <1>6 DEF u, s

\* A step that commits nothing and tells no job anything.
LEMMA QuietMeasurement ==
    ASSUME TypeOK, PriorsSound, AllJustified, UNCHANGED <<job, projection, log>>,
           now' \in Nat, scheduled' \subseteq Cycle, scheduled \subseteq scheduled',
           open' \in scheduled' \cup {NoCycle}, ids' \in Ids
    PROVE  TypeOK' /\ PriorsSound' /\ AllJustified'
<1>1. TypeOK'
  BY DEF TypeOK, projection
<1>2. PriorsSound'
  BY DEF PriorsSound, projection
<1>3. AllJustified'
  BY DEF AllJustified, Rows, projection
<1> QED  BY <1>1, <1>2, <1>3

\* A job learns or forgets.
LEMMA JobLearns ==
    ASSUME TypeOK, PriorsSound, AllJustified, NEW j \in Job, NEW x \in JobState,
           job' = [job EXCEPT ![j] = x],
           UNCHANGED <<now, lifecycle, projection, log>>,
           x.step # "idle" => x.cycle \in scheduled,
           x.prior.state = NoState => x.prior.id = SourceId,
           x.prior.state # NoState =>
              /\ Valid(x.prior.state)
              /\ table[x.prior.id] # NoState
              /\ table[x.prior.id].first = x.prior.state.first
              /\ Justified(log, x.prior.state)
    PROVE  TypeOK' /\ PriorsSound' /\ AllJustified'
<1>1. TypeOK'
  BY DEF TypeOK, lifecycle, projection
<1>2. PriorsSound'
  BY DEF TypeOK, PriorsSound, projection, lifecycle
<1>3. AllJustified'
  BY DEF TypeOK, AllJustified, Rows, projection
<1> QED  BY <1>1, <1>2, <1>3

LEMMA ReadPriorJustified ==
    ASSUME TypeOK, PriorsSound, AllJustified, NEW j \in Job, ReadPrior(j), UNCHANGED log
    PROVE  TypeOK' /\ PriorsSound' /\ AllJustified'
<1>1. PICK d \in IF Rows = {} THEN {SourceId} ELSE Rows :
          job' = [job EXCEPT ![j].step = "persisting", ![j].prior = [id |-> d, state |-> table[d]]]
  BY DEF ReadPrior
<1>2. d \in Id /\ (table[d] = NoState => d = SourceId)
      /\ (table[d] # NoState => /\ Valid(table[d])
                                /\ table[d] \in State
                                /\ Justified(log, table[d]))
  BY DEF Rows, Id, TypeOK, Valid, AllJustified
<1> DEFINE x == [job[j] EXCEPT !.step = "persisting", !.prior = [id |-> d, state |-> table[d]]]
<1>3. job' = [job EXCEPT ![j] = x]
  BY <1>1
<1>4. /\ x \in JobState /\ x.cycle = job[j].cycle
      /\ x.prior.id = d /\ x.prior.state = table[d]
  BY <1>2 DEF TypeOK, JobState, Prior
<1>5. job[j].cycle \in scheduled
  BY DEF ReadPrior, PriorsSound
<1> HIDE DEF x
<1> QED  BY <1>2, <1>3, <1>4, <1>5, JobLearns DEF ReadPrior

LEMMA PersistJustified ==
    ASSUME TypeOK, PriorsSound, AllJustified,
           NEW j \in Job, NEW band \in Outcome, Persist(j, band), UNCHANGED log
    PROVE  /\ TypeOK' /\ PriorsSound' /\ AllJustified'
           /\ \A e \in Rows : table'[e] # NoState
<1> DEFINE s == StateOf(job[j], band)
           d == TargetOf(job[j], band)
           u == Upserted(d, s)
<1>1. /\ job[j].step # "idle" /\ job[j].cycle \in Cycle /\ job[j].at \in Nat
      /\ job' = [job EXCEPT ![j] = Idle]
      /\ UNCHANGED <<now, scheduled, open, ids>>
  BY DEF Persist, TypeOK, JobState, lifecycle
<1>2. batch' \in [Cycle -> Batch \cup {NoBatch}] /\ late' \subseteq Cycle
  BY <1>1 DEF Persist, TypeOK, Batch
<1>3. \A i \in Job : job'[i] = IF i = j THEN Idle ELSE job[i]
  BY <1>1 DEF TypeOK
<1>4. job' \in [Job -> JobState]
  BY <1>1, IdleTyped DEF TypeOK
<1>5. /\ DOMAIN table' = Id
      /\ \A e \in Id : \/ table'[e] = table[e]
                       \/ /\ table'[e] # NoState /\ Valid(table'[e])
                          /\ Justified(log, table'[e])
                          /\ table[e] # NoState => table'[e].first = table[e].first
  <2>1. CASE s = NoState
    BY <2>1 DEF Persist, TypeOK
  <2>2. CASE s # NoState
    <3>1. Accepts(d, s) /\ table' = [table EXCEPT ![d] = u]
      BY <2>2 DEF Persist
    <3>2. /\ d \in Id /\ u # NoState /\ Valid(u)
          /\ table[d] # NoState => u.first = table[d].first
      BY <1>1, <2>2, <3>1, UpsertValid
    <3>3. Justified(log, u)
      BY <1>1, <2>2, <3>1, UpsertJustified
    <3> HIDE DEF u, d
    <3> QED  BY <3>1, <3>2, <3>3 DEF TypeOK
  <2> QED  BY <2>1, <2>2
<1>6. TypeOK'
  BY <1>1, <1>2, <1>3, <1>4, <1>5 DEF TypeOK, Idle
<1>7. PriorsSound'
  <2>1. job[j].prior \in Prior /\ \A i \in Job : job[i].prior.id \in Id
    BY DEF TypeOK, JobState, Prior
  <2> QED  BY <1>1, <1>3, <1>5, <2>1, IdleTyped DEF PriorsSound, Idle
<1>8. AllJustified'
  BY <1>3, <1>5, IdleTyped DEF AllJustified, Rows, Idle
<1>9. \A e \in Rows : table'[e] # NoState
  BY <1>5 DEF Rows
<1> QED  BY <1>6, <1>7, <1>8, <1>9

\* Every step of the projection.
LEMMA MeasurementStep ==
    ASSUME TypeOK, PriorsSound, AllJustified, [Next]_vars, UNCHANGED log
    PROVE  /\ TypeOK' /\ PriorsSound' /\ AllJustified'
           /\ \A e \in Rows : table'[e] # NoState
<1>1. ASSUME NEW j \in Job, NEW band \in Outcome, Persist(j, band)
      PROVE  /\ TypeOK' /\ PriorsSound' /\ AllJustified'
             /\ \A e \in Rows : table'[e] # NoState
  BY <1>1, PersistJustified
<1>2. ASSUME NEW j \in Job, NEW k \in Cycle, Collect(j, k)
      PROVE  TypeOK' /\ PriorsSound' /\ AllJustified' /\ table' = table
  <2> DEFINE x == [Idle EXCEPT !.step = "reading", !.cycle = k, !.at = now]
  <2>1. x \in JobState /\ x.step = "reading" /\ x.cycle = k /\ x.prior = NoPrior
    BY IdleTyped DEF Idle, JobState, TypeOK
  <2> QED  BY <1>2, <2>1, IdleTyped, JobLearns DEF Collect, projection
<1>3. ASSUME NEW j \in Job, ReadPrior(j)
      PROVE  TypeOK' /\ PriorsSound' /\ AllJustified' /\ table' = table
  BY <1>3, ReadPriorJustified DEF ReadPrior, projection
<1>4. ASSUME NEW j \in Job, Drop(j)
      PROVE  TypeOK' /\ PriorsSound' /\ AllJustified' /\ table' = table
  BY <1>4, IdleTyped, JobLearns DEF Drop, Idle, projection
<1>5. ASSUME NEW k \in Cycle, Schedule(k)
      PROVE  TypeOK' /\ PriorsSound' /\ AllJustified' /\ table' = table
  BY <1>5, QuietMeasurement DEF Schedule, TypeOK, projection
<1>6. ASSUME Settle \/ OtherSubject \/ Tick \/ UNCHANGED vars
      PROVE  TypeOK' /\ PriorsSound' /\ AllJustified' /\ table' = table
  BY <1>6, QuietMeasurement DEF Settle, OtherSubject, Ids, Tick, TypeOK, projection, lifecycle, vars
<1> QED  BY <1>1, <1>2, <1>3, <1>4, <1>5, <1>6 DEF Next, Handle, Rows

LEMMA FirstPassedStep ==
    ASSUME TypeOK, PriorsSound, FirstPassed, [Next]_vars
    PROVE  FirstPassed'
<1>1. ASSUME NEW j \in Job, NEW band \in Outcome, Persist(j, band) PROVE FirstPassed'
  <2> DEFINE w == job[j]
             s == StateOf(w, band)
             d == TargetOf(w, band)
             u == Upserted(d, s)
  <2>1. /\ w.step # "idle" /\ w.cycle \in Cycle /\ w.at \in Nat
        /\ job' = [job EXCEPT ![j] = Idle] /\ now' = now
    BY <1>1 DEF Persist, TypeOK, JobState
  <2>2. \A i \in Job : job'[i].step # "idle" => job'[i].at <= now'
    BY <2>1 DEF FirstPassed, TypeOK, Idle
  <2>3. CASE s = NoState
    BY <1>1, <2>1, <2>2, <2>3 DEF Persist, FirstPassed, Rows
  <2>4. CASE s # NoState
    <3>1. Accepts(d, s) /\ table' = [table EXCEPT ![d] = u]
      BY <1>1, <2>4 DEF Persist
    <3>2. /\ band \in Band /\ s = Advance(w.prior.state, w.cycle, w.at, band)
          /\ band = "within" => w.prior.state # NoState
          /\ Valid(s) /\ d \in Id
          /\ table[d] # NoState => u.first = table[d].first
      BY <2>1, <2>4, <3>1, UpsertValid
    <3>3. w.prior.state = NoState \/ Valid(w.prior.state)
      BY DEF PriorsSound
    <3>4. s.first <= now
      <4>1. CASE band = "within" \/ IsOpen(w.prior.state)
        <5>1. w.prior.state # NoState /\ s.first = w.prior.state.first
          BY <2>1, <3>2, <3>3, <4>1, AdvanceTimes DEF IsOpen
        <5>2. w.prior.id \in Rows /\ table[w.prior.id].first = w.prior.state.first
          BY <5>1 DEF PriorsSound, Rows, TypeOK, JobState, Prior
        <5> QED  BY <5>1, <5>2 DEF FirstPassed
      <4>2. CASE ~(band = "within" \/ IsOpen(w.prior.state))
        <5>1. s.first = w.at
          BY <2>1, <3>2, <3>3, <4>2, AdvanceTimes
        <5> QED  BY <2>1, <5>1 DEF FirstPassed
      <4> QED  BY <4>1, <4>2
    <3>5. u.first <= now
      BY <3>2, <3>4 DEF Upserted, FirstPassed, Rows
    <3> HIDE DEF u, d
    <3>6. \A e \in Rows' : table'[e].first <= now'
      BY <2>1, <3>1, <3>2, <3>5 DEF Rows, FirstPassed, TypeOK
    <3> QED  BY <2>2, <3>6 DEF FirstPassed
  <2> QED  BY <2>3, <2>4
<1>2. ASSUME NEW j \in Job, NEW k \in Cycle, Collect(j, k) PROVE FirstPassed'
  BY <1>2 DEF Collect, FirstPassed, TypeOK, Rows, projection, Idle
<1>3. ASSUME NEW j \in Job, ReadPrior(j) PROVE FirstPassed'
  BY <1>3 DEF ReadPrior, FirstPassed, TypeOK, JobState, Rows, projection
<1>4. ASSUME NEW j \in Job, Drop(j) PROVE FirstPassed'
  BY <1>4 DEF Drop, FirstPassed, TypeOK, Rows, projection, Idle
<1>5. ASSUME Settle \/ OtherSubject \/ UNCHANGED vars \/ \E k \in Cycle : Schedule(k) PROVE FirstPassed'
  BY <1>5 DEF Settle, OtherSubject, Schedule, FirstPassed, Rows, projection, vars
<1>6. ASSUME Tick PROVE FirstPassed'
  BY <1>6 DEF Tick, FirstPassed, TypeOK, Rows, projection, Valid, State, JobState
<1> QED  BY <1>1, <1>2, <1>3, <1>4, <1>5, <1>6 DEF Next, Handle

-----------------------------------------------------------------------------
(* The row, its histories and the log, as the workflow moves them.         *)

Core == TypeOK /\ PriorsSound /\ AllJustified /\ FirstPassed /\ log \in Seq(Entry)

LEMMA CoreKept ==
    ASSUME Core, UNCHANGED <<now, measurement, table, log>>
    PROVE  Core' /\ (Row # NoState => Row' # NoState)
<1> USE DEF Core, measurement, lifecycle
<1>1. TypeOK' /\ PriorsSound'
  BY DEF TypeOK, PriorsSound
<1>2. AllJustified' /\ FirstPassed'
  BY DEF AllJustified, FirstPassed, Rows, Row
<1> QED  BY <1>1, <1>2 DEF Row

\* The row moves to a justified state that keeps its first observation.
LEMMA RowMoved ==
    ASSUME Core, Row # NoState, UNCHANGED <<now, measurement>>,
           NEW r, Valid(r), r.first = Row.first,
           table' = [table EXCEPT ![SourceId] = r],
           log' \in Seq(Entry), Justified(log', r),
           \A q : Justified(log, q) => Justified(log', q)
    PROVE  Core' /\ Row' # NoState
<1> USE DEF Core, measurement, lifecycle
<1>1. r # NoState /\ SourceId \in Id /\ DOMAIN table = Id
  BY NoStateAssumption DEF Valid, Id, TypeOK
<1>2. \A d \in Id : table'[d] = IF d = SourceId THEN r ELSE table[d]
  BY <1>1
<1>3. TypeOK'
  BY <1>1, <1>2 DEF TypeOK
<1>4. PriorsSound'
  <2>1. \A j \in Job : job[j].prior.id \in Id
    BY DEF TypeOK, JobState, Prior
  <2> QED  BY <1>1, <1>2, <2>1 DEF PriorsSound, Row
<1>5. AllJustified'
  BY <1>1, <1>2 DEF AllJustified, Rows
<1>6. FirstPassed'
  BY <1>1, <1>2 DEF FirstPassed, Rows, Row
<1> QED  BY <1>1, <1>2, <1>3, <1>4, <1>5, <1>6 DEF Row

\* By one publication action.
LEMMA RowTransitioned ==
    ASSUME Core, Named, Row # NoState, UNCHANGED <<now, measurement>>,
           NEW action \in Action, NEW at \in Nat, Allows(Row, action, at),
           table' = [table EXCEPT ![SourceId] = Transitioned(@, action, at)],
           log' = Entered(action, at)
    PROVE  Core' /\ Row' # NoState
<1> DEFINE r == Transitioned(Row, action, at)
           e == [action |-> action, at |-> at]
<1>1. Named /\ Valid(Row) /\ Justified(log, Row) /\ log \in Seq(Entry)
  BY DEF Core, TypeOK, AllJustified, Rows, Row, Id
<1>2. Valid(r)
  BY <1>1, TransitionKeepsValid
<1>3. r.first = Row.first
  BY <1>1 DEF Transitioned, Valid, State
<1>4. e \in Entry /\ Justified(Append(log, e), r)
  BY <1>1, TransitionJustified
<1>5. log' = Append(log, e) /\ log' \in Seq(Entry)
  BY <1>1, <1>4, EntersOne DEF Entered
<1>6. table' = [table EXCEPT ![SourceId] = r]
  BY DEF Row
<1> HIDE DEF r, e
<1>7. \A q : Justified(log, q) => Justified(log', q)
  BY <1>1, <1>4, <1>5, JustifiedGrows
<1> QED  BY <1>2, <1>3, <1>4, <1>5, <1>6, <1>7, RowMoved

-----------------------------------------------------------------------------
(* Cases, notices and passes.                                              *)

Flow ==
    /\ anchorCase \in CaseRow
    /\ notice \in [Contact -> NoticeRow]
    /\ \A c \in Contact : notice[c].owner = NoWorker <=> notice[c].expires = Never
    /\ pass \in [Worker -> Pass]
    /\ sends \in [Contact -> Nat]
    /\ CaseChain
    /\ ClockNeedsDelivery

\* The workflow is as it was, and so is the discrepancy's existence.
LEMMA FlowKept ==
    ASSUME Flow, UNCHANGED <<anchorCase, notice, pass, sends>>, Row # NoState => Row' # NoState
    PROVE  Flow'
BY DEF Flow, CaseChain, ClockNeedsDelivery

LEMMA NewPassTyped == NewPass \in Pass /\ NewPass.claims = {}
BY DEF NewPass, Pass

\* A process starts over.
LEMMA FlowRestarted ==
    ASSUME Flow, NEW w \in Worker, pass' = [pass EXCEPT ![w] = NewPass],
           UNCHANGED <<anchorCase, notice, sends>>, Row # NoState => Row' # NoState
    PROVE  Flow'
BY NewPassTyped DEF Flow, CaseChain, ClockNeedsDelivery

LEMMA OpenCasesStep ==
    ASSUME Core, Flow, NEW w \in Worker, OpenCases(w)
    PROVE  Core' /\ Flow'
<1>1. Core' /\ (Row # NoState => Row' # NoState)
  BY CoreKept DEF OpenCases
<1>2. pass' = [pass EXCEPT ![w].step = "claim"] /\ sends' = sends
  BY DEF OpenCases
<1>3. /\ pass' \in [Worker -> Pass]
      /\ \A v \in Worker : pass'[v].claims = pass[v].claims
  BY <1>2 DEF Flow, Pass
<1>4. CASE UNCHANGED <<anchorCase, notice>>
  BY <1>1, <1>2, <1>3, <1>4 DEF Flow, CaseChain, ClockNeedsDelivery
<1>5. CASE Eligible /\ anchorCase' = [status |-> "draft", due |-> Never]
           /\ \E contacts \in SUBSET Contact \ {{}} :
                notice' = [c \in Contact |-> IF c \in contacts
                                             THEN [notice[c] EXCEPT !.status = "pending"]
                                             ELSE notice[c]]
  <2>1. Named /\ Row' # NoState
    BY <1>1, <1>5 DEF Eligible, IsOpen
  <2>2. anchorCase' \in CaseRow /\ anchorCase'.status # "none" /\ anchorCase'.due = Never
    BY <1>5 DEF CaseRow, Never
  <2>3. /\ notice' \in [Contact -> NoticeRow]
        /\ \A c \in Contact : /\ notice'[c].owner = notice[c].owner
                              /\ notice'[c].expires = notice[c].expires
                              /\ notice[c].status # "none" => notice'[c].status # "none"
    BY <1>5 DEF Flow, NoticeRow
  <2>4. \A v \in Worker : \A x \in pass[v].claims : x.contact \in Contact
    BY DEF Flow, Pass, Claim
  <2> QED  BY <1>1, <1>2, <1>3, <2>1, <2>2, <2>3, <2>4
           DEF Flow, CaseChain, ClockNeedsDelivery
<1> QED  BY <1>4, <1>5 DEF OpenCases

\* A leased notice.
LEMMA LeasedTyped ==
    ASSUME NEW n \in NoticeRow, NEW w \in Worker, now \in Nat
    PROVE  /\ Leased(n, w) \in NoticeRow
           /\ Leased(n, w).owner # NoWorker
           /\ Leased(n, w).expires # Never
           /\ Leased(n, w).status = n.status
<1>1. LeaseTime \in Nat /\ LeaseTime > 0 /\ w # NoWorker
  BY LeaseTimeAssumption, NoWorkerAssumption
<1>2. n.token + 1 \in Nat /\ now + LeaseTime \in Nat /\ now + LeaseTime # 0
  BY <1>1 DEF NoticeRow
<1>3. Leased(n, w) \in NoticeRow
  BY <1>2 DEF Leased, NoticeRow
<1>4. /\ Leased(n, w).owner = w
      /\ Leased(n, w).expires = now + LeaseTime
      /\ Leased(n, w).status = n.status
  BY DEF Leased, NoticeRow
<1> QED  BY <1>1, <1>2, <1>3, <1>4 DEF Never

\* A notice whose dispatch was recorded.
LEMMA RecordedTyped ==
    ASSUME NEW n \in NoticeRow, NEW x \in Claim
    PROVE  /\ RecordedNotice(n, x) \in NoticeRow
           /\ RecordedNotice(n, x).owner = NoWorker
           /\ RecordedNotice(n, x).expires = Never
           /\ RecordedNotice(n, x).status \in {"sent", "failed"}
           /\ x.result = "sent" => RecordedNotice(n, x).status = "sent"
<1>1. n.attempts + 1 \in Nat /\ x.at + 1 \in Nat
  BY DEF NoticeRow, Claim
<1>2. RecordedNotice(n, x) \in NoticeRow
  BY <1>1 DEF RecordedNotice, NoticeRow, Never
<1>3. /\ RecordedNotice(n, x).owner = NoWorker
      /\ RecordedNotice(n, x).expires = Never
      /\ RecordedNotice(n, x).status = IF x.result = "sent" THEN "sent" ELSE "failed"
  BY DEF RecordedNotice, NoticeRow
<1> QED  BY <1>2, <1>3

LEMMA ClaimNoticesStep ==
    ASSUME Core, Flow, NEW w \in Worker, ClaimNotices(w)
    PROVE  Core' /\ Flow'
<1>1. Core' /\ (Row # NoState => Row' # NoState)
  BY CoreKept DEF ClaimNotices
<1> DEFINE due == {c \in Contact : DueNotice(notice[c])}
           mine == {[contact |-> c, token |-> notice'[c].token, attempts |-> notice[c].attempts,
                     result |-> "claimed", at |-> Never] : c \in due}
<1>2. /\ notice' = [c \in Contact |-> IF c \in due THEN Leased(notice[c], w) ELSE notice[c]]
      /\ pass' = [pass EXCEPT ![w] = [step |-> "deliver", claims |-> mine]]
      /\ UNCHANGED <<anchorCase, sends>>
  BY DEF ClaimNotices
<1>3. now \in Nat /\ LeaseTime \in Nat \ {0} /\ w # NoWorker
  BY LeaseTimeAssumption, NoWorkerAssumption DEF Core, TypeOK
<1>4. \A c \in Contact :
         /\ notice[c] \in NoticeRow
         /\ Leased(notice[c], w) \in NoticeRow
         /\ Leased(notice[c], w).owner # NoWorker
         /\ Leased(notice[c], w).expires # Never
         /\ Leased(notice[c], w).status = notice[c].status
  BY <1>3, LeasedTyped DEF Flow
<1>5. /\ notice' \in [Contact -> NoticeRow]
      /\ \A c \in Contact : /\ notice'[c].owner = NoWorker <=> notice'[c].expires = Never
                            /\ notice'[c].status = notice[c].status
  BY <1>2, <1>4 DEF Flow
<1>6. \A x \in mine : x \in Claim /\ notice'[x.contact].status # "none"
  BY <1>4, <1>5 DEF Claim, NoticeRow, DueNotice, Never
<1> HIDE DEF mine
<1>7. [step |-> "deliver", claims |-> mine] \in Pass
  BY <1>6 DEF Pass
<1>8. /\ pass' \in [Worker -> Pass]
      /\ \A v \in Worker : \A x \in pass'[v].claims : notice'[x.contact].status # "none"
  <2>1. \A v \in Worker : \A x \in pass[v].claims : x.contact \in Contact
    BY DEF Flow, Pass, Claim
  <2> QED  BY <1>2, <1>5, <1>6, <1>7, <2>1 DEF Flow, CaseChain
<1> QED  BY <1>1, <1>2, <1>5, <1>8 DEF Flow, CaseChain, ClockNeedsDelivery

LEMMA DispatchStep ==
    ASSUME Core, Flow, NEW w \in Worker, Dispatch(w)
    PROVE  Core' /\ Flow'
<1>1. Core' /\ (Row # NoState => Row' # NoState)
  BY CoreKept DEF Dispatch
<1>2. PICK x \in pass[w].claims, result \in {"sent", "retry", "failed"} :
          /\ pass' = [pass EXCEPT ![w].claims =
                        (@ \ {x}) \cup {[x EXCEPT !.result = result, !.at = now]}]
          /\ sends' = [sends EXCEPT ![x.contact] = @ + 1]
          /\ UNCHANGED <<anchorCase, notice>>
  BY DEF Dispatch
<1> DEFINE y == [x EXCEPT !.result = result, !.at = now]
<1>3. x \in Claim /\ now \in Nat /\ pass \in [Worker -> Pass]
  BY DEF Flow, Core, TypeOK, Pass
<1>4. y \in Claim /\ y.contact = x.contact
  BY <1>3 DEF Claim
<1> HIDE DEF y
<1>5. /\ pass' \in [Worker -> Pass]
      /\ \A v \in Worker : \A z \in pass'[v].claims : z = y \/ z \in pass[v].claims
  BY <1>2, <1>3, <1>4 DEF Pass, y
<1>6. sends' \in [Contact -> Nat]
  BY <1>2, <1>3 DEF Flow, Claim
<1> QED  BY <1>1, <1>2, <1>4, <1>5, <1>6 DEF Flow, CaseChain, ClockNeedsDelivery

LEMMA RecordStep ==
    ASSUME Core, Flow, NEW w \in Worker, NEW x \in pass[w].claims, Record(w, x)
    PROVE  Core' /\ Flow'
<1>1. /\ x \in Claim /\ x.contact \in Contact /\ x.at \in Nat
      /\ pass \in [Worker -> Pass] /\ now \in Nat
      /\ notice[x.contact].status # "none" /\ anchorCase.status # "none"
      /\ Named /\ Row # NoState
  BY DEF Flow, Core, TypeOK, Pass, Claim, CaseChain
<1>2. /\ pass' = [pass EXCEPT ![w].claims = @ \ {x}]
      /\ UNCHANGED <<now, measurement, sends>>
  BY DEF Record
<1>3. /\ pass' \in [Worker -> Pass]
      /\ \A v \in Worker : pass'[v].claims \subseteq pass[v].claims
  BY <1>1, <1>2 DEF Pass
<1>4. CASE UNCHANGED <<notice, anchorCase, table, log>>
  <2>1. Core' /\ (Row # NoState => Row' # NoState)
    BY <1>2, <1>4, CoreKept
  <2> QED  BY <1>2, <1>3, <1>4, <2>1 DEF Flow, CaseChain, ClockNeedsDelivery
<1>5. CASE notice[x.contact].status # "sent"
  <2>1. notice' = [notice EXCEPT ![x.contact] = RecordedNotice(@, x)]
    BY <1>5 DEF Record
  <2>2. /\ RecordedNotice(notice[x.contact], x) \in NoticeRow
        /\ RecordedNotice(notice[x.contact], x).owner = NoWorker
        /\ RecordedNotice(notice[x.contact], x).expires = Never
        /\ RecordedNotice(notice[x.contact], x).status \in {"sent", "failed"}
        /\ x.result = "sent" => RecordedNotice(notice[x.contact], x).status = "sent"
    BY <1>1, RecordedTyped DEF Flow
  <2>3. /\ notice' \in [Contact -> NoticeRow]
        /\ \A c \in Contact : notice'[c].owner = NoWorker <=> notice'[c].expires = Never
        /\ \A c \in Contact : notice'[c].status # "none" =>
                                 c = x.contact \/ notice'[c] = notice[c]
        /\ \A c \in Contact : notice[c].status # "none" => notice'[c].status # "none"
        /\ \A c \in Contact : notice[c].status = "sent" => notice'[c].status = "sent"
        /\ x.result = "sent" => notice'[x.contact].status = "sent"
    BY <1>1, <1>5, <2>1, <2>2 DEF Flow
  <2>4. \A v \in Worker : \A z \in pass[v].claims : z.contact \in Contact
    BY <1>1 DEF Pass, Claim
  <2>5. CASE Begins(x)
    <3>1. /\ Allows(Row, "begin_reply", x.at)
          /\ table' = [table EXCEPT ![SourceId] = Transitioned(@, "begin_reply", x.at)]
          /\ anchorCase' = BegunCase(x)
          /\ log' = Entered("begin_reply", x.at)
      BY <1>5, <2>5 DEF Record
    <3>2. Core' /\ Row' # NoState
      BY <1>1, <1>2, <3>1, RowTransitioned DEF Action
    <3>3. anchorCase' \in CaseRow /\ anchorCase'.status # "none"
      BY <1>1, <3>1, ReplyWindowAssumption DEF BegunCase, CaseRow
    <3>4. notice'[x.contact].status = "sent"
      BY <2>3, <2>5 DEF Begins
    <3>5. CaseChain'
      BY <1>1, <1>3, <2>3, <2>4, <3>2, <3>3 DEF Flow, CaseChain
    <3> QED  BY <1>1, <1>2, <1>3, <2>3, <3>2, <3>3, <3>4, <3>5
             DEF Flow, ClockNeedsDelivery
  <2>6. CASE ~Begins(x)
    <3>1. UNCHANGED <<anchorCase, table, log>>
      BY <1>5, <2>6 DEF Record
    <3>2. Core' /\ Row' # NoState
      BY <1>1, <1>2, <3>1, CoreKept
    <3>3. CaseChain'
      BY <1>1, <1>3, <2>3, <2>4, <3>1, <3>2 DEF Flow, CaseChain
    <3> QED  BY <1>2, <1>3, <2>3, <3>1, <3>2, <3>3 DEF Flow, ClockNeedsDelivery
  <2> QED  BY <2>5, <2>6
<1> QED  BY <1>4, <1>5 DEF Record

LEMMA RecordThrowsStep ==
    ASSUME Core, Flow, NEW w \in Worker, NEW x \in pass[w].claims, RecordThrows(w, x)
    PROVE  Core' /\ Flow'
<1>1. Core' /\ (Row # NoState => Row' # NoState)
  BY CoreKept DEF RecordThrows, vars, measurement, projection
<1> QED  BY <1>1, FlowRestarted DEF RecordThrows

LEMMA CrashStep ==
    ASSUME Core, Flow, NEW w \in Worker, Crash(w)
    PROVE  Core' /\ Flow'
<1>1. Core' /\ (Row # NoState => Row' # NoState)
  BY CoreKept DEF Crash, vars, measurement, projection
<1> QED  BY <1>1, FlowRestarted DEF Crash

\* The case moves on and the notices stay.
LEMMA CaseMoves ==
    ASSUME Flow, anchorCase.status # "none", anchorCase' \in CaseRow,
           anchorCase'.status # "none", anchorCase'.due = anchorCase.due,
           UNCHANGED <<notice, pass, sends>>, Row' # NoState
    PROVE  Flow'
BY DEF Flow, CaseChain, ClockNeedsDelivery

LEMMA ExpireWindowStep ==
    ASSUME Core, Flow, NEW w \in Worker, ExpireWindow(w)
    PROVE  Core' /\ Flow'
<1>1. /\ UNCHANGED <<now, measurement, notice, sends>>
      /\ pass' = [pass EXCEPT ![w] = NewPass]
  BY DEF ExpireWindow
<1>2. CASE UNCHANGED <<table, anchorCase, log>>
  BY <1>1, <1>2, CoreKept, FlowRestarted
<1>3. CASE /\ WindowDue /\ ~ExpiryThrows
           /\ table' = [table EXCEPT ![SourceId] = Transitioned(@, "expire_reply_window", now)]
           /\ anchorCase' = [anchorCase EXCEPT !.status = "under_review"]
           /\ log' = Entered("expire_reply_window", now)
  <2>1. anchorCase \in CaseRow /\ anchorCase.status # "none" /\ Named /\ Row # NoState /\ now \in Nat
    BY <1>3 DEF WindowDue, Flow, CaseChain, Core, TypeOK
  <2>2. Core' /\ Row' # NoState
    BY <1>1, <1>3, <2>1, RowTransitioned DEF ExpiryThrows, Action
  <2>3. /\ anchorCase' \in CaseRow /\ anchorCase'.status # "none"
        /\ anchorCase'.due = anchorCase.due
    BY <1>3, <2>1 DEF CaseRow
  <2> QED  BY <1>1, <2>1, <2>2, <2>3, NewPassTyped DEF Flow, CaseChain, ClockNeedsDelivery
<1> QED  BY <1>2, <1>3 DEF ExpireWindow

LEMMA SubmitReplyStep ==
    ASSUME Core, Flow, SubmitReply
    PROVE  Core' /\ Flow'
<1>1. /\ anchorCase \in CaseRow /\ anchorCase.status # "none" /\ Named /\ Row # NoState /\ now \in Nat
      /\ UNCHANGED <<now, measurement, notice, pass, sends>>
      /\ anchorCase' = [anchorCase EXCEPT !.status = "under_review"]
  BY DEF SubmitReply, Reviewable, Flow, CaseChain, Core, TypeOK
<1>2. /\ anchorCase' \in CaseRow /\ anchorCase'.status # "none"
      /\ anchorCase'.due = anchorCase.due
  BY <1>1 DEF CaseRow
<1>3. CASE Row.reply = "awaiting_reply"
  <2>1. Core' /\ Row' # NoState
    BY <1>1, <1>3, RowTransitioned DEF SubmitReply, Action
  <2> QED  BY <1>1, <1>2, <2>1, CaseMoves
<1>4. CASE Row.reply # "awaiting_reply"
  <2>1. Core' /\ Row' # NoState
    BY <1>1, <1>4, CoreKept DEF SubmitReply
  <2> QED  BY <1>1, <1>2, <2>1, CaseMoves
<1> QED  BY <1>3, <1>4

\* A review is one or two publication actions on the row.
LEMMA ReviewCaseStep ==
    ASSUME Core, Flow, NEW decision \in {"approve", "withhold"}, ReviewCase(decision)
    PROVE  Core' /\ Flow'
<1> DEFINE received == Row.reply = "response_received"
           read == [action |-> "review_response", at |-> now]
           reviewed == IF received THEN Transitioned(Row, "review_response", now) ELSE Row
           responses == IF received THEN Entered("review_response", now) ELSE log
           decided == [action |-> decision, at |-> now]
           r == Transitioned(reviewed, decision, now)
<1>1. /\ anchorCase \in CaseRow /\ anchorCase.status # "none" /\ Named /\ Row # NoState
      /\ UNCHANGED <<now, measurement, notice, pass, sends>>
      /\ anchorCase' = [anchorCase EXCEPT !.status = "resolved"]
      /\ received => Allows(Row, "review_response", now)
      /\ Allows(reviewed, decision, now)
      /\ table' = [table EXCEPT ![SourceId] = r]
      /\ log' = Append(responses, decided)
  BY DEF ReviewCase, Reviewable, Flow, CaseChain
<1>2. /\ Named /\ Valid(Row) /\ Justified(log, Row) /\ log \in Seq(Entry) /\ now \in Nat
      /\ decision \in Action /\ "review_response" \in Action
  BY <1>1 DEF Core, TypeOK, AllJustified, Rows, Row, Id, Action
<1>3. /\ Valid(reviewed) /\ reviewed.first = Row.first
      /\ responses \in Seq(Entry) /\ Justified(responses, reviewed)
      /\ \A q : Justified(log, q) => Justified(responses, q)
  <2>1. CASE received
    <3>1. reviewed = Transitioned(Row, "review_response", now) /\ responses = Append(log, read)
      BY <2>1 DEF Entered
    <3>2. Valid(reviewed)
      BY <1>1, <1>2, <2>1, <3>1, TransitionKeepsValid
    <3>3. reviewed.first = Row.first
      BY <1>2, <3>1 DEF Transitioned, Valid, State
    <3>4. read \in Entry /\ Justified(responses, reviewed)
      BY <1>1, <1>2, <2>1, <3>1, TransitionJustified
    <3>5. responses \in Seq(Entry)
      BY <1>2, <3>1, <3>4, EntersOne
    <3> HIDE DEF read, reviewed, responses
    <3>6. \A q : Justified(log, q) => Justified(responses, q)
      BY <1>2, <3>1, <3>4, JustifiedGrows
    <3> QED  BY <3>2, <3>3, <3>4, <3>5, <3>6
  <2>2. CASE ~received
    BY <1>2, <2>2
  <2> QED  BY <2>1, <2>2
<1> HIDE DEF reviewed, responses, received
<1>4. Valid(r)
  BY <1>1, <1>2, <1>3, TransitionKeepsValid
<1>5. r.first = Row.first
  BY <1>3 DEF Transitioned, Valid, State
<1>6. decided \in Entry /\ Justified(log', r)
  BY <1>1, <1>2, <1>3, TransitionJustified
<1>7. log' \in Seq(Entry)
  BY <1>1, <1>3, <1>6, EntersOne
<1> HIDE DEF decided, r
<1>8. \A q : Justified(log, q) => Justified(log', q)
  BY <1>1, <1>3, <1>6, JustifiedGrows
<1>9. Core' /\ Row' # NoState
  BY <1>1, <1>4, <1>5, <1>6, <1>7, <1>8, RowMoved
<1>10. /\ anchorCase' \in CaseRow /\ anchorCase'.status # "none"
       /\ anchorCase'.due = anchorCase.due
  BY <1>1 DEF CaseRow
<1> QED  BY <1>1, <1>9, <1>10, CaseMoves

LEMMA RetractStep ==
    ASSUME Core, Flow, Retract
    PROVE  Core' /\ Flow'
<1> DEFINE r == [Row EXCEPT !.publication = "withheld", !.publicationAt = now]
           e == [action |-> "retract", at |-> now]
<1>1. /\ Row # NoState /\ Row.publication = "approved_public"
      /\ UNCHANGED <<now, measurement, anchorCase, notice, pass, sends>>
      /\ table' = [table EXCEPT ![SourceId] = r]
      /\ log' = Append(log, e)
  BY DEF Retract, Flow, CaseChain, Row, Entered
<1>2. /\ Valid(Row) /\ log \in Seq(Entry) /\ now \in Nat /\ Row.first <= now
  BY <1>1 DEF Core, TypeOK, FirstPassed, Rows, Row, Id
<1>3. e \in Entry
  BY <1>2 DEF Entry
<1>4. /\ r.publication = "withheld" /\ r.publicationAt = now /\ r.first = Row.first
      /\ r.reply = Row.reply
      /\ r \in State
  BY <1>2 DEF Valid, State, Publication
<1>5. Valid(r)
  BY <1>1, <1>2, <1>4 DEF Valid, State, TimesOrdered, StreakFits, PublicationFits
<1>6. log' \in Seq(Entry)
  BY <1>1, <1>2, <1>3, EntersOne
<1> HIDE DEF r, e
<1>7. Justified(log', r)
  BY <1>4 DEF Justified
<1>8. \A q : Justified(log, q) => Justified(log', q)
  BY <1>1, <1>2, <1>3, JustifiedGrows
<1>9. Core' /\ Row' # NoState
  BY <1>1, <1>4, <1>5, <1>6, <1>7, <1>8, RowMoved
<1> QED  BY <1>1, <1>9, FlowKept

LEMMA RequeueStep ==
    ASSUME Core, Flow, NEW c \in Contact, Requeue(c)
    PROVE  Core' /\ Flow'
<1>1. Core' /\ (Row # NoState => Row' # NoState)
  BY CoreKept DEF Requeue, vars, measurement, projection
<1>2. notice' = [notice EXCEPT ![c].next = now] /\ now \in Nat
  BY DEF Requeue, Core, TypeOK
<1>3. /\ notice' \in [Contact -> NoticeRow]
      /\ \A d \in Contact : /\ notice'[d].status = notice[d].status
                            /\ notice'[d].owner = notice[d].owner
                            /\ notice'[d].expires = notice[d].expires
  BY <1>2 DEF Flow, NoticeRow
<1>4. \A v \in Worker : \A x \in pass[v].claims : x.contact \in Contact
  BY DEF Flow, Pass, Claim
<1> QED  BY <1>1, <1>3, <1>4 DEF Requeue, Flow, CaseChain, ClockNeedsDelivery

-----------------------------------------------------------------------------
(* The theorems about the right of reply.                                  *)

LEMMA Parts == (WInv <=> Core /\ Flow) /\ (WInv' <=> Core' /\ Flow')
BY DEF WInv, WorkflowTypeOK, Core, Flow

LEMMA WorkflowInitHolds == WorkflowInit => WInv
<1> SUFFICES ASSUME WorkflowInit PROVE Core /\ Flow
  BY Parts
<1> USE DEF WorkflowInit
<1>1. TypeOK /\ PriorsSound
  BY InitHolds DEF IInv
<1>2. Core
  BY <1>1 DEF Core, AllJustified, FirstPassed, Rows, Row, Id, Init, Idle, NoPrior
<1>3. Flow
  BY NewPassTyped DEF Flow, CaseRow, NoticeRow, CaseChain, ClockNeedsDelivery, Never
<1> QED  BY <1>2, <1>3

LEMMA WorkflowStepHolds == WInv /\ [WorkflowNext]_allVars => WInv'
<1> SUFFICES ASSUME Core, Flow, [WorkflowNext]_allVars PROVE Core' /\ Flow'
  BY Parts
<1>1. CASE (Next /\ UNCHANGED workflow) \/ UNCHANGED allVars
  <2>1. [Next]_vars /\ UNCHANGED workflow
    BY <1>1 DEF allVars
  <2>2. /\ TypeOK' /\ PriorsSound' /\ AllJustified'
        /\ \A e \in Rows : table'[e] # NoState
    BY <2>1, MeasurementStep DEF Core, workflow
  <2>3. FirstPassed'
    BY <2>1, FirstPassedStep DEF Core
  <2>4. Row # NoState => Row' # NoState
    BY <2>2 DEF Row, Rows, Id
  <2> QED  BY <2>1, <2>2, <2>3, <2>4, FlowKept DEF Core, workflow
<1>2. ASSUME NEW w \in Worker, RunPass(w) PROVE Core' /\ Flow'
  BY <1>2, OpenCasesStep, ClaimNoticesStep, DispatchStep, RecordStep, RecordThrowsStep,
     ExpireWindowStep, CrashStep DEF RunPass
<1>3. CASE SubmitReply
  BY <1>3, SubmitReplyStep
<1>4. ASSUME NEW decision \in {"approve", "withhold"}, ReviewCase(decision)
      PROVE  Core' /\ Flow'
  BY <1>4, ReviewCaseStep
<1>5. CASE Retract
  BY <1>5, RetractStep
<1>6. ASSUME NEW c \in Contact, Requeue(c) PROVE Core' /\ Flow'
  BY <1>6, RequeueStep
<1> QED  BY <1>1, <1>2, <1>3, <1>4, <1>5, <1>6 DEF WorkflowNext

\* The strengthening holds at every step.
THEOREM WorkflowInductive == WorkflowSpec => []WInv
<1>1. WorkflowInit => WInv
  BY WorkflowInitHolds
<1>2. WInv /\ [WorkflowNext]_allVars => WInv'
  BY WorkflowStepHolds
<1> QED  BY <1>1, <1>2, PTL DEF WorkflowSpec

\* Every row is valid, whatever cycles, passes, replies and reviews overlap.
THEOREM WorkflowTypeCorrect == WorkflowSpec => []WorkflowTypeOK
BY WorkflowInductive, PTL DEF WInv

\* A named party is public only after it was told, heard or waited for, and
\* approved, with any number of overlapping jobs and workers.
THEOREM PublicationEarnedHolds == WorkflowSpec => []PublicationEarned
<1>1. WInv => PublicationEarned
  BY DEF WInv, AllJustified, Justified, PublicationEarned, Rows, Row, Id
<1> QED  BY WorkflowInductive, <1>1, PTL

\* The reply clock starts only from a delivery that was recorded.
THEOREM ClockNeedsDeliveryHolds == WorkflowSpec => []ClockNeedsDelivery
BY WorkflowInductive, PTL DEF WInv

\* A claim on a notice ends only by its holder's result or after its expiry.
THEOREM NoticeNotStolenHolds == WorkflowSpec => NoticeNotStolen
<1> DEFINE Kept ==
       \A c \in Contact :
         /\ notice[c].owner # NoWorker
         /\ notice'[c].owner # notice[c].owner \/ notice'[c].token # notice[c].token
         => \/ notice[c].expires <= now
            \/ \E x \in pass[notice[c].owner].claims :
                  x.contact = c /\ x.token = notice[c].token /\ x.result # "claimed"
<1>1. ASSUME WInv, WorkflowNext PROVE Kept
  <2> SUFFICES ASSUME NEW c \in Contact, notice[c].owner # NoWorker,
                      \/ notice'[c].owner # notice[c].owner
                      \/ notice'[c].token # notice[c].token
               PROVE  \/ notice[c].expires <= now
                      \/ \E x \in pass[notice[c].owner].claims :
                            /\ x.contact = c /\ x.token = notice[c].token
                            /\ x.result # "claimed"
    OBVIOUS
  <2>1. notice \in [Contact -> NoticeRow] /\ notice[c] \in NoticeRow /\ notice'[c] # notice[c]
    BY <1>1 DEF WInv, WorkflowTypeOK
  <2>2. \A w \in Worker : ~OpenCases(w)
    BY <2>1 DEF OpenCases, NoticeRow
  <2>3. ASSUME NEW w \in Worker, ClaimNotices(w) PROVE notice[c].expires <= now
    BY <2>1, <2>3 DEF ClaimNotices, DueNotice
  <2>4. ASSUME NEW w \in Worker, NEW x \in pass[w].claims, Record(w, x)
        PROVE  \E y \in pass[notice[c].owner].claims :
                  y.contact = c /\ y.token = notice[c].token /\ y.result # "claimed"
    <3>1. /\ Fenced(w, x) /\ x.result # "claimed"
          /\ notice' = [notice EXCEPT ![x.contact] = RecordedNotice(@, x)]
      BY <2>1, <2>4 DEF Record
    <3>2. x.contact = c
      BY <2>1, <3>1
    <3> QED  BY <3>1, <3>2 DEF Fenced
  <2>5. ASSUME NEW d \in Contact, Requeue(d) PROVE FALSE
    BY <2>1, <2>5 DEF Requeue, NoticeRow
  <2> QED  BY <1>1, <2>1, <2>2, <2>3, <2>4, <2>5
           DEF WorkflowNext, RunPass, workflow, Dispatch, RecordThrows, ExpireWindow, Crash,
               SubmitReply, ReviewCase, Retract
<1>2. WInv /\ [WorkflowNext]_allVars => [Kept]_allVars
  BY <1>1
<1>3. [][Kept]_allVars <=> NoticeNotStolen
  BY DEF NoticeNotStolen
<1> HIDE DEF Kept
<1> QED  BY WorkflowInductive, <1>2, <1>3, PTL DEF WorkflowSpec

-----------------------------------------------------------------------------
(* The two clocks of a window: the deadline of the case, and the time of   *)
(* the publication the row carries.                                        *)

\* A state that awaits a reply agrees with the case on the window, and can be
\* replied to while the case can.
Agrees(r) ==
    r.reply = "awaiting_reply" =>
        /\ anchorCase.status = "awaiting_reply" => anchorCase.due = r.publicationAt + ReplyWindow
        /\ Reviewable => r.publication = "pending_reply"

\* The one case of no late batch: the row agrees, and so does what a job of the
\* open cycle read, which is public no sooner than the row.
WindowsAgree ==
    late = {} =>
        /\ Row # NoState => Agrees(Row)
        /\ \A j \in Job :
              /\ job[j].step = "persisting" /\ job[j].cycle = open /\ open \notin Durable
              /\ job[j].prior.state # NoState
              => /\ Agrees(job[j].prior.state)
                 /\ job[j].prior.state.publication # "internal" => Row.publication # "internal"

\* No publication, and no dispatch, is in the future.
PublicationPassed ==
    /\ \A d \in Rows : table[d].publicationAt <= now
    /\ \A j \in Job : job[j].prior.state # NoState => job[j].prior.state.publicationAt <= now
    /\ \A w \in Worker : \A x \in pass[w].claims : x.at <= now

OneRow == Rows \subseteq {SourceId}

WindowInv == OneRow /\ PublicationPassed /\ WindowsAgree

\* What a job read is a state of the one row.
LEMMA PriorOfRow ==
    ASSUME WInv, OneRow, NEW j \in Job
    PROVE  /\ job[j].prior.id = SourceId
           /\ job[j].prior.state # NoState => Row # NoState /\ Valid(job[j].prior.state)
           /\ Row # NoState => Valid(Row) /\ SourceId \in Rows
BY DEF WInv, WorkflowTypeOK, PriorsSound, OneRow, Rows, TypeOK, JobState, Prior, Row, Id

\* The row, where there is one.
LEMMA TheRow ==
    ASSUME WInv, WindowInv, Row # NoState
    PROVE  /\ Valid(Row) /\ SourceId \in Rows
           /\ Row.first <= now /\ Row.publicationAt <= now
BY DEF WInv, WorkflowTypeOK, FirstPassed, WindowInv, PublicationPassed, Rows, TypeOK, Row, Id

\* What a step that reaches neither the row nor the case keeps, whatever the
\* jobs learn of the row.
LEMMA WindowKept ==
    ASSUME WInv, WindowInv, UNCHANGED <<table, anchorCase, batch, late>>,
           now' \in Nat, now' >= now,
           \A w \in Worker : \A x \in pass'[w].claims : x.at <= now',
           \A j \in Job :
              \/ job'[j].prior.state = NoState
              \/ job'[j].prior.state = Row /\ SourceId \in Rows
              \/ /\ job'[j] = job[j]
                 /\ job[j].step = "persisting" => open' = open \/ job[j].cycle # open'
    PROVE  WindowInv'
<1>1. Rows' = Rows /\ Durable' = Durable /\ OneRow' /\ Row' = Row
  BY DEF WindowInv, OneRow, Rows, Durable, Row
<1>2. /\ now \in Nat
      /\ \A d \in Rows : table[d].publicationAt \in Nat
      /\ \A j \in Job : job[j].prior.state # NoState => job[j].prior.state.publicationAt \in Nat
  BY DEF WInv, WorkflowTypeOK, TypeOK, PriorsSound, Rows, Valid, State
<1>3. PublicationPassed'
  BY <1>1, <1>2 DEF WindowInv, PublicationPassed, Row
<1>4. \A r : Agrees(r)' <=> Agrees(r)
  BY DEF Agrees, Reviewable
<1>5. WindowsAgree'
  <2> SUFFICES ASSUME late = {}
               PROVE  /\ Row # NoState => Agrees(Row)
                      /\ \A j \in Job :
                            /\ job'[j].step = "persisting" /\ job'[j].cycle = open'
                            /\ open' \notin Durable /\ job'[j].prior.state # NoState
                            => /\ Agrees(job'[j].prior.state)
                               /\ job'[j].prior.state.publication # "internal"
                                     => Row.publication # "internal"
    BY <1>1 DEF WindowsAgree, Agrees, Reviewable
  <2>1. SourceId \in Rows => Row # NoState
    BY DEF Rows, Row
  <2> QED  BY <2>1 DEF WindowInv, WindowsAgree
<1> QED  BY <1>1, <1>3, <1>5 DEF WindowInv

\* The row moves by a publication action, and the case with it.
LEMMA WindowMoved ==
    ASSUME WInv, WindowInv, UNCHANGED <<now, measurement>>,
           \A w \in Worker : \A x \in pass'[w].claims : x.at <= now,
           \A d \in Id \ {SourceId} : table'[d] = table[d],
           Row' # NoState, Row'.publicationAt <= now,
           Agrees(Row)',
           Row.publication # "internal" => Row'.publication # "internal",
           \/ Reviewable' => /\ Reviewable
                             /\ anchorCase'.status = "awaiting_reply" => anchorCase' = anchorCase
           \/ Row.publication = "internal" /\ Row'.publication # "internal"
    PROVE  WindowInv'
<1> USE DEF measurement, lifecycle
<1>1. Durable' = Durable /\ OneRow'
  BY DEF WindowInv, OneRow, Rows, Durable
<1>2. PublicationPassed'
  BY <1>1 DEF WindowInv, OneRow, PublicationPassed, Row, Rows
<1>3. ASSUME late = {}, NEW j \in Job,
             job[j].step = "persisting", job[j].cycle = open, open \notin Durable,
             job[j].prior.state # NoState
      PROVE  /\ Agrees(job[j].prior.state)'
             /\ job[j].prior.state.publication # "internal" => Row'.publication # "internal"
  <2>1. PICK p : p = job[j].prior.state
    OBVIOUS
  <2>2. Agrees(p) /\ (p.publication # "internal" => Row.publication # "internal")
    BY <1>3, <2>1 DEF WindowInv, WindowsAgree
  <2>3. Valid(p)
    BY <1>3, <2>1, PriorOfRow DEF WindowInv
  <2>4. p.reply = "awaiting_reply" =>
           /\ anchorCase'.status = "awaiting_reply" =>
                 anchorCase'.due = p.publicationAt + ReplyWindow
           /\ Reviewable' => p.publication = "pending_reply"
    <3>1. CASE Row.publication = "internal" /\ Row'.publication # "internal"
      BY <2>2, <2>3, <3>1 DEF Valid, PublicationFits
    <3>2. CASE Reviewable' => Reviewable /\ (anchorCase'.status = "awaiting_reply" => anchorCase' = anchorCase)
      BY <2>2, <3>2 DEF Agrees, Reviewable
    <3> QED  BY <3>1, <3>2
  <2> QED  BY <1>3, <2>1, <2>2, <2>4 DEF Agrees, Reviewable
<1>4. WindowsAgree'
  BY <1>1, <1>3 DEF WindowsAgree, Agrees, Reviewable
<1> QED  BY <1>1, <1>2, <1>4 DEF WindowInv

\* A completed cycle keeps the publication it read, or opens an internal one.
LEMMA AdvancePublication ==
    ASSUME NEW prior, prior = NoState \/ Valid(prior),
           NEW k \in Cycle, NEW at \in Nat, NEW band \in Band,
           prior = NoState => band # "within",
           NEW s, s = Advance(prior, k, at, band)
    PROVE  \/ s.publication = "internal" /\ s.publicationAt = at
           \/ /\ prior # NoState
              /\ s.publication = prior.publication
              /\ s.reply = prior.reply
              /\ s.publicationAt = prior.publicationAt
BY DEF Advance, Observe, Resolve, Refresh, KeepsPublication, IsOpen, Valid, State, Band

LEMMA WindowPersist ==
    ASSUME Named, WInv, WindowInv, NEW j \in Job, NEW band \in Outcome, Persist(j, band),
           UNCHANGED workflow
    PROVE  WindowInv'
<1>1. /\ job[j].step = "persisting" /\ job[j].cycle \in Cycle \ Durable /\ job[j].at \in Nat
      /\ job[j].at <= now /\ now' = now /\ open' = open
      /\ job' = [job EXCEPT ![j] = Idle]
      /\ UNCHANGED <<anchorCase, pass>>
  BY DEF Persist, WInv, WorkflowTypeOK, TypeOK, JobState, FirstPassed, lifecycle, workflow
<1>2. Durable' = Durable \cup {job[j].cycle}
  <2>1. batch' = [batch EXCEPT ![job[j].cycle] = [at |-> job[j].at, band |-> band]]
        /\ [at |-> job[j].at, band |-> band] \in Batch
    BY <1>1 DEF Persist, Batch
  <2> QED  BY <1>1, <2>1, NoBatchAssumption DEF Durable, WInv, WorkflowTypeOK, TypeOK
<1>3. \A i \in Job : IF i = j THEN job'[i].prior.state = NoState /\ job'[i].step = "idle"
                             ELSE job'[i] = job[i]
  BY <1>1 DEF Idle, NoPrior, WInv, WorkflowTypeOK, TypeOK
<1>4. late' = {} => late = {} /\ open = job[j].cycle
  BY DEF Persist
<1>5. ASSUME OneRow', Row' # NoState => Row'.publicationAt <= now,
             late' = {} /\ Row' # NoState => Agrees(Row)'
      PROVE  WindowInv'
  <2>1. PublicationPassed'
    BY <1>1, <1>3, <1>5 DEF WindowInv, PublicationPassed, OneRow, Row, Rows
  <2>2. WindowsAgree'
    BY <1>1, <1>2, <1>4, <1>5 DEF WindowsAgree
  <2> QED  BY <1>5, <2>1, <2>2 DEF WindowInv
<1>6. CASE StateOf(job[j], band) = NoState
  <2>1. table' = table /\ Row' = Row
    BY <1>6 DEF Persist, Row
  <2>2. Row # NoState => Row.publicationAt <= now
    BY PriorOfRow DEF WindowInv, PublicationPassed, Row
  <2>3. late' = {} /\ Row' # NoState => Agrees(Row)'
    BY <1>1, <1>4, <2>1 DEF WindowInv, WindowsAgree, Agrees, Reviewable
  <2>4. OneRow'
    BY <2>1 DEF WindowInv, OneRow, Rows
  <2> QED  BY <1>5, <2>1, <2>2, <2>3, <2>4
<1>7. CASE StateOf(job[j], band) # NoState
  <2>1. PICK d, s, u, p : /\ d = TargetOf(job[j], band) /\ s = StateOf(job[j], band)
                          /\ u = Upserted(d, s) /\ p = job[j].prior.state
    OBVIOUS
  <2>2. /\ Accepts(d, s) /\ table' = [table EXCEPT ![d] = u]
        /\ TypeOK /\ PriorsSound /\ DOMAIN table = Id
    BY <1>7, <2>1 DEF Persist, WInv, WorkflowTypeOK, TypeOK
  <2>3. /\ band \in Band /\ s = Advance(p, job[j].cycle, job[j].at, band)
        /\ band = "within" => p # NoState
        /\ Valid(s) /\ d \in Id
    BY <1>1, <1>7, <2>1, <2>2, UpsertValid
  <2>4. d = SourceId
    BY <2>1, PriorOfRow DEF TargetOf, WindowInv, WInv, WorkflowTypeOK, TypeOK, Ids
  <2>5. Row' = u
    BY <2>2, <2>3, <2>4 DEF Row
  <2>6. /\ u.publication = s.publication
        /\ u.reply = s.reply
        /\ u.publicationAt = s.publicationAt
    BY <2>1, <2>3 DEF Upserted, Valid, State
  <2>7. p = NoState \/ Valid(p)
    BY <2>1, <2>2 DEF PriorsSound
  <2>8. \/ s.publication = "internal" /\ s.publicationAt = job[j].at
        \/ /\ p # NoState
           /\ s.publication = p.publication
           /\ s.reply = p.reply
           /\ s.publicationAt = p.publicationAt
    <3>1. PICK k, at : k = job[j].cycle /\ at = job[j].at
      OBVIOUS
    <3>2. /\ k \in Cycle /\ at \in Nat /\ band \in Band
          /\ s = Advance(p, k, at, band) /\ (p = NoState => band # "within")
      BY <1>1, <2>3, <3>1
    <3>3. \/ s.publication = "internal" /\ s.publicationAt = at
          \/ /\ p # NoState
             /\ s.publication = p.publication
             /\ s.reply = p.reply
             /\ s.publicationAt = p.publicationAt
      <4>1. \A q, i, t, b, r :
               /\ q = NoState \/ Valid(q)
               /\ i \in Cycle /\ t \in Nat /\ b \in Band
               /\ q = NoState => b # "within"
               /\ r = Advance(q, i, t, b)
               => \/ r.publication = "internal" /\ r.publicationAt = t
                  \/ /\ q # NoState
                     /\ r.publication = q.publication
                     /\ r.reply = q.reply
                     /\ r.publicationAt = q.publicationAt
        BY AdvancePublication
      <4> QED  BY <2>7, <3>2, <4>1
    <3> QED  BY <3>1, <3>3
  <2>9. u.publicationAt <= now
    BY <1>1, <2>1, <2>6, <2>8 DEF WindowInv, PublicationPassed
  <2>10. ASSUME late' = {} PROVE Agrees(Row)'
    <3>1. p # NoState => Agrees(p)
      BY <1>1, <1>4, <2>1, <2>10 DEF WindowInv, WindowsAgree
    <3>2. s.publication = "internal" => s.reply # "awaiting_reply"
      BY <2>3 DEF Valid, PublicationFits
    <3>3. u.reply = "awaiting_reply" =>
             /\ anchorCase.status = "awaiting_reply" =>
                   anchorCase.due = u.publicationAt + ReplyWindow
             /\ Reviewable => u.publication = "pending_reply"
      BY <2>6, <2>8, <3>1, <3>2 DEF Agrees
    <3> QED  BY <1>1, <2>5, <3>3 DEF Agrees, Reviewable
  <2>11. OneRow'
    BY <2>2, <2>4 DEF WindowInv, OneRow, Rows
  <2> QED  BY <1>5, <2>5, <2>9, <2>10, <2>11
<1> QED  BY <1>6, <1>7

LEMMA WindowMeasurement ==
    ASSUME Named, WInv, WindowInv, [Next]_vars, UNCHANGED workflow
    PROVE  WindowInv'
<1>1. /\ now \in Nat /\ job \in [Job -> JobState]
      /\ \A w \in Worker : \A x \in pass'[w].claims : x.at <= now /\ x.at \in Nat
      /\ \A j \in Job : job[j].step = "persisting" =>
            job[j].cycle \in scheduled /\ job[j].cycle # NoCycle
      /\ UNCHANGED anchorCase
  BY NullAssumption DEF WInv, WindowInv, PublicationPassed, WorkflowTypeOK, TypeOK, PriorsSound,
     workflow, Pass, Claim
<1>2. ASSUME NEW j \in Job, NEW band \in Outcome, Persist(j, band) PROVE WindowInv'
  BY <1>2, WindowPersist
<1>3. ASSUME NEW k \in Cycle, Schedule(k) PROVE WindowInv'
  BY <1>1, <1>3, WindowKept DEF Schedule, projection
<1>4. CASE Settle
  BY <1>1, <1>4, WindowKept DEF Settle, projection
<1>5. CASE Tick
  <2>1. now' \in Nat /\ now' >= now /\ open' = open
        /\ \A w \in Worker : \A x \in pass'[w].claims : x.at <= now'
    BY <1>1, <1>5 DEF Tick, lifecycle
  <2> QED  BY <1>5, <1>1, <2>1, WindowKept DEF Tick, projection
<1>6. CASE UNCHANGED vars
  BY <1>1, <1>6, WindowKept DEF vars, projection, lifecycle
<1>11. CASE OtherSubject
  BY <1>1, <1>11, WindowKept DEF OtherSubject, projection
<1>7. ASSUME NEW j \in Job, NEW x, x.prior.state = NoState, job' = [job EXCEPT ![j] = x],
             UNCHANGED <<now, lifecycle, projection>>
      PROVE  WindowInv'
  <2>1. \A i \in Job : job'[i] = job[i] \/ job'[i].prior.state = NoState
    BY <1>1, <1>7
  <2> QED  BY <1>1, <1>7, <2>1, WindowKept DEF lifecycle, projection
<1>9. ASSUME NEW j \in Job, NEW k \in Cycle, Collect(j, k) PROVE WindowInv'
  BY <1>7, <1>9 DEF Collect, Idle, NoPrior
<1>10. ASSUME NEW j \in Job, Drop(j) PROVE WindowInv'
  BY <1>7, <1>10 DEF Drop, Idle, NoPrior
<1>8. ASSUME NEW j \in Job, ReadPrior(j) PROVE WindowInv'
  <2>1. PICK d \in IF Rows = {} THEN {SourceId} ELSE Rows :
            job' = [job EXCEPT ![j].step = "persisting", ![j].prior = [id |-> d, state |-> table[d]]]
    BY <1>8 DEF ReadPrior
  <2>2. d = SourceId
    BY DEF WindowInv, OneRow
  <2>3. job'[j].prior.state = Row /\ \A i \in Job \ {j} : job'[i] = job[i]
    BY <1>1, <2>1, <2>2 DEF Row, JobState
  <2>4. Row # NoState => SourceId \in Rows
    BY PriorOfRow DEF WindowInv
  <2>5. \A i \in Job : \/ job'[i] = job[i]
                       \/ job'[i].prior.state = NoState
                       \/ job'[i].prior.state = Row /\ SourceId \in Rows
    BY <2>3, <2>4
  <2> QED  BY <1>1, <1>8, <2>5, WindowKept DEF ReadPrior, lifecycle, projection
<1> QED  BY <1>2, <1>3, <1>4, <1>5, <1>6, <1>8, <1>9, <1>10, <1>11 DEF Next, Handle

\* The steps of the workflow.
LEMMA WindowRecord ==
    ASSUME WInv, WindowInv, NEW w \in Worker, NEW x \in pass[w].claims, Record(w, x)
    PROVE  WindowInv'
<1>1. /\ x \in Claim /\ x.at \in Nat /\ x.at <= now /\ now \in Nat
      /\ notice[x.contact].status # "none" /\ Row # NoState
      /\ pass \in [Worker -> Pass] /\ DOMAIN table = Id /\ SourceId \in Id
  BY DEF WInv, WorkflowTypeOK, TypeOK, Pass, Claim, CaseChain, WindowInv, PublicationPassed, Id
<1>2. /\ pass' = [pass EXCEPT ![w].claims = @ \ {x}]
      /\ UNCHANGED <<now, measurement, sends>>
  BY DEF Record
<1>3. \A v \in Worker : pass'[v].claims \subseteq pass[v].claims
  BY <1>1, <1>2 DEF Pass
<1>4. \A v \in Worker : \A y \in pass'[v].claims : y.at <= now
  BY <1>3 DEF WindowInv, PublicationPassed
<1>5. CASE UNCHANGED <<anchorCase, table>>
  BY <1>1, <1>2, <1>4, <1>5, WindowKept DEF measurement, lifecycle
<1>6. CASE ~UNCHANGED <<anchorCase, table>>
  <2>1. /\ Begins(x)
        /\ table' = [table EXCEPT ![SourceId] = Transitioned(@, "begin_reply", x.at)]
        /\ anchorCase' = BegunCase(x)
    BY <1>6 DEF Record
  <2>2. Row' = Transitioned(Row, "begin_reply", x.at) /\ Valid(Row)
    BY <1>1, <2>1, TheRow DEF Row
  <2>3. /\ Row'.publication = "pending_reply" /\ Row'.reply = "awaiting_reply"
        /\ Row'.publicationAt = x.at /\ Row' \in State
    BY <1>1, <2>2 DEF Transitioned, PublicationAfter, ReplyAfter, Valid, State, Publication, Reply
  <2>4. Row.publication = "internal"
    BY <2>1 DEF Begins
  <2>5. Agrees(Row)'
    BY <2>1, <2>3 DEF Agrees, BegunCase
  <2>6. Row' # NoState
    BY <2>3, NoStateAssumption
  <2>7. \A d \in Id \ {SourceId} : table'[d] = table[d]
    BY <1>1, <2>1
  <2> QED  BY <1>1, <1>2, <1>4, <2>3, <2>4, <2>5, <2>6, <2>7, WindowMoved
<1> QED  BY <1>5, <1>6

\* A reply, a review, an expiry or a retraction.
LEMMA WindowDecided ==
    ASSUME WInv, WindowInv, UNCHANGED <<now, measurement>>,
           \A w \in Worker : \A x \in pass'[w].claims : x.at <= now,
           Row # NoState, NEW r, Valid(r), r.publicationAt = now,
           table' = [table EXCEPT ![SourceId] = r],
           r.reply # "awaiting_reply" \/ anchorCase'.status = "resolved",
           r.publication # "internal",
           \/ anchorCase' = anchorCase
           \/ Reviewable /\ anchorCase'.status \in {"under_review", "resolved"}
    PROVE  WindowInv'
<1>1. /\ now \in Nat /\ DOMAIN table = Id /\ SourceId \in Id
  BY DEF WInv, WorkflowTypeOK, TypeOK, Id
<1>2. Row' = r /\ \A d \in Id \ {SourceId} : table'[d] = table[d]
  BY <1>1 DEF Row
<1>3. Row' # NoState /\ Row'.publicationAt <= now
  BY <1>1, <1>2, NoStateAssumption DEF Valid
<1>4. Agrees(Row)'
  BY <1>2 DEF Agrees, Reviewable
<1>5. Reviewable' => /\ Reviewable
                     /\ anchorCase'.status = "awaiting_reply" => anchorCase' = anchorCase
  BY DEF Reviewable
<1> QED  BY <1>2, <1>3, <1>4, <1>5, WindowMoved

LEMMA WindowStep ==
    ASSUME Named, WInv, WindowInv, [WorkflowNext]_allVars
    PROVE  WindowInv'
<1>1. /\ now \in Nat /\ pass \in [Worker -> Pass] /\ DOMAIN table = Id
      /\ \A w \in Worker : \A x \in pass[w].claims : x.at <= now
      /\ Row # NoState => Valid(Row)
      /\ anchorCase.status # "none" => Row # NoState
  BY TheRow DEF WInv, WorkflowTypeOK, TypeOK, WindowInv, PublicationPassed, CaseChain
<1>2. CASE (Next /\ UNCHANGED workflow) \/ UNCHANGED allVars
  BY <1>2, WindowMeasurement DEF allVars
<1>3. ASSUME UNCHANGED <<now, measurement, table, anchorCase>>,
             \A w \in Worker : \A x \in pass'[w].claims : x.at <= now
      PROVE  WindowInv'
  BY <1>1, <1>3, WindowKept DEF measurement, lifecycle
<1>4. ASSUME NEW w \in Worker, pass' = [pass EXCEPT ![w] = NewPass]
      PROVE  \A v \in Worker : \A x \in pass'[v].claims : x.at <= now
  BY <1>1, <1>4, NewPassTyped
<1>5. ASSUME NEW w \in Worker, OpenCases(w) PROVE WindowInv'
  <2>1. \A v \in Worker : pass'[v].claims = pass[v].claims
    BY <1>1, <1>5 DEF OpenCases, Pass
  <2>2. CASE UNCHANGED anchorCase
    BY <1>1, <1>3, <1>5, <2>1, <2>2 DEF OpenCases
  <2>3. CASE anchorCase' = [status |-> "draft", due |-> Never] /\ Eligible
    <3>1. /\ UNCHANGED <<now, measurement, table>> /\ Row' = Row
          /\ Row # NoState /\ Row.publication = "internal" /\ Valid(Row)
          /\ \A v \in Worker : \A x \in pass'[v].claims : x.at <= now
      BY <1>1, <1>5, <2>1, <2>3 DEF OpenCases, Eligible, IsOpen, Row
    <3>2. Row.publicationAt <= now
      BY <3>1, TheRow
    <3>3. Agrees(Row)'
      BY <3>1 DEF Agrees, Valid, PublicationFits
    <3>4. ~Reviewable'
      BY <2>3 DEF Reviewable
    <3> QED  BY <3>1, <3>2, <3>3, <3>4, WindowMoved
  <2> QED  BY <1>5, <2>2, <2>3 DEF OpenCases
<1>6. ASSUME NEW w \in Worker, ClaimNotices(w) PROVE WindowInv'
  <2>1. \A v \in Worker : \A x \in pass'[v].claims : x.at <= now
    BY <1>1, <1>6 DEF ClaimNotices, Never
  <2> QED  BY <1>3, <1>6, <2>1 DEF ClaimNotices
<1>7. ASSUME NEW w \in Worker, Dispatch(w) PROVE WindowInv'
  <2>1. PICK x \in pass[w].claims, result \in {"sent", "retry", "failed"} :
            pass' = [pass EXCEPT ![w].claims =
                       (@ \ {x}) \cup {[x EXCEPT !.result = result, !.at = now]}]
    BY <1>7 DEF Dispatch
  <2>2. PICK y : y = [x EXCEPT !.result = result, !.at = now]
    OBVIOUS
  <2>3. y.at = now
    BY <1>1, <2>2 DEF Pass, Claim
  <2>4. \A v \in Worker : \A z \in pass'[v].claims : z = y \/ z \in pass[v].claims
    BY <1>1, <2>1, <2>2 DEF Pass
  <2>5. \A v \in Worker : \A z \in pass'[v].claims : z.at <= now
    BY <1>1, <2>3, <2>4
  <2> QED  BY <1>3, <1>7, <2>5 DEF Dispatch
<1>8. ASSUME NEW w \in Worker, NEW x \in pass[w].claims, Record(w, x) PROVE WindowInv'
  BY <1>8, WindowRecord
<1>9. ASSUME NEW w \in Worker, (\E x \in pass[w].claims : RecordThrows(w, x)) \/ Crash(w)
      PROVE  WindowInv'
  BY <1>3, <1>4, <1>9 DEF RecordThrows, Crash, vars, measurement, projection
<1>10. ASSUME NEW w \in Worker, ExpireWindow(w) PROVE WindowInv'
  <2>1. /\ \A v \in Worker : \A x \in pass'[v].claims : x.at <= now
        /\ UNCHANGED <<now, measurement>>
    BY <1>4, <1>10 DEF ExpireWindow
  <2>2. CASE UNCHANGED <<table, anchorCase>>
    BY <1>3, <2>1, <2>2
  <2>3. CASE /\ WindowDue /\ ~ExpiryThrows
             /\ table' = [table EXCEPT ![SourceId] = Transitioned(@, "expire_reply_window", now)]
             /\ anchorCase' = [anchorCase EXCEPT !.status = "under_review"]
    <3>1. PICK r : r = Transitioned(Row, "expire_reply_window", now)
      OBVIOUS
    <3>2. /\ Row # NoState /\ Valid(Row) /\ Allows(Row, "expire_reply_window", now)
          /\ table' = [table EXCEPT ![SourceId] = r]
      BY <1>1, <2>3, <3>1 DEF WindowDue, ExpiryThrows, Row
    <3>3. Valid(r)
      BY <1>1, <3>1, <3>2, TransitionKeepsValid DEF Action
    <3>4. r.publicationAt = now /\ r.reply = "window_expired" /\ r.publication = Row.publication
      BY <3>1, <3>2 DEF Transitioned, ReplyAfter, PublicationAfter, Valid, State
    <3>5. Row.publication = "pending_reply" /\ Reviewable /\ anchorCase'.status = "under_review"
      BY <2>3 DEF WindowDue, Reviewable, WInv, WorkflowTypeOK, CaseRow
    <3> QED  BY <2>1, <3>2, <3>3, <3>4, <3>5, WindowDecided
  <2> QED  BY <1>10, <2>2, <2>3 DEF ExpireWindow
<1>11. CASE SubmitReply
  <2>1. /\ \A v \in Worker : \A x \in pass'[v].claims : x.at <= now
        /\ UNCHANGED <<now, measurement>>
        /\ Row # NoState /\ Valid(Row) /\ Reviewable
        /\ anchorCase'.status = "under_review"
    BY <1>1, <1>11 DEF SubmitReply, Reviewable, WInv, WorkflowTypeOK, CaseRow
  <2>2. CASE Row.reply = "awaiting_reply"
    <3>1. PICK r : r = Transitioned(Row, "record_response", now)
      OBVIOUS
    <3>2. /\ Allows(Row, "record_response", now)
          /\ table' = [table EXCEPT ![SourceId] = r]
      BY <1>11, <2>2, <3>1 DEF SubmitReply, Row
    <3>3. Valid(r)
      BY <1>1, <2>1, <3>1, <3>2, TransitionKeepsValid DEF Action
    <3>4. r.publicationAt = now /\ r.reply = "response_received" /\ r.publication = Row.publication
      BY <2>1, <3>1 DEF Transitioned, ReplyAfter, PublicationAfter, Valid, State
    <3>5. Row.publication = "pending_reply"
      BY <3>2 DEF Allows
    <3> QED  BY <2>1, <3>2, <3>3, <3>4, <3>5, WindowDecided
  <2>3. CASE Row.reply # "awaiting_reply"
    <3>1. Row' = Row /\ UNCHANGED table
      BY <1>11, <2>3 DEF SubmitReply, Row
    <3>2. Row.publicationAt <= now
      BY <2>1, TheRow
    <3>3. Agrees(Row)'
      BY <2>3, <3>1 DEF Agrees
    <3> QED  BY <2>1, <3>1, <3>2, <3>3, WindowMoved
  <2> QED  BY <2>2, <2>3
<1>12. ASSUME NEW decision \in {"approve", "withhold"}, ReviewCase(decision) PROVE WindowInv'
  <2>1. PICK q, r : /\ q = IF Row.reply = "response_received"
                          THEN Transitioned(Row, "review_response", now) ELSE Row
                    /\ r = Transitioned(q, decision, now)
    OBVIOUS
  <2>2. /\ \A v \in Worker : \A x \in pass'[v].claims : x.at <= now
        /\ UNCHANGED <<now, measurement>>
        /\ Row # NoState /\ Valid(Row) /\ Reviewable
        /\ anchorCase'.status = "resolved"
        /\ Row.reply = "response_received" => Allows(Row, "review_response", now)
        /\ Allows(q, decision, now)
        /\ table' = [table EXCEPT ![SourceId] = r]
    BY <1>1, <1>12, <2>1 DEF ReviewCase, Reviewable, WInv, WorkflowTypeOK, CaseRow
  <2>3. Valid(q)
    BY <1>1, <2>1, <2>2, TransitionKeepsValid DEF Action
  <2>4. Valid(r)
    BY <1>1, <2>1, <2>2, <2>3, TransitionKeepsValid DEF Action
  <2>5. r.publicationAt = now /\ r.publication # "internal"
    BY <2>1, <2>3 DEF Transitioned, PublicationAfter, Valid, State
  <2> QED  BY <2>2, <2>4, <2>5, WindowDecided
<1>13. CASE Retract
  <2>1. PICK r : r = [Row EXCEPT !.publication = "withheld", !.publicationAt = now]
    OBVIOUS
  <2>2. /\ \A v \in Worker : \A x \in pass'[v].claims : x.at <= now
        /\ UNCHANGED <<now, measurement, anchorCase>>
        /\ Row # NoState /\ Valid(Row) /\ Row.publication = "approved_public"
        /\ table' = [table EXCEPT ![SourceId] = r]
    BY <1>1, <1>13, <2>1 DEF Retract, Row
  <2>3. Row.first <= now
    BY <2>2, TheRow
  <2>4. /\ r.publication = "withheld" /\ r.publicationAt = now /\ r.first = Row.first
        /\ r.reply = Row.reply
        /\ r \in State
    BY <1>1, <2>1, <2>2 DEF Valid, State, Publication
  <2>5. Valid(r)
    BY <1>1, <2>1, <2>2, <2>3, <2>4 DEF Valid, State, TimesOrdered, StreakFits, PublicationFits
  <2>6. r.reply # "awaiting_reply"
    BY <2>2, <2>4 DEF Valid, PublicationFits
  <2> QED  BY <2>2, <2>4, <2>5, <2>6, WindowDecided
<1>14. ASSUME NEW c \in Contact, Requeue(c) PROVE WindowInv'
  BY <1>1, <1>3, <1>14 DEF Requeue, vars, measurement, projection
<1> QED  BY <1>2, <1>5, <1>6, <1>7, <1>8, <1>9, <1>10, <1>11, <1>12, <1>13, <1>14
         DEF WorkflowNext, RunPass

LEMMA WindowHolds == ASSUME Named PROVE WorkflowSpec => []WindowInv
<1>1. WorkflowInit => WindowInv
  <2> SUFFICES ASSUME WorkflowInit PROVE WindowInv
    OBVIOUS
  <2>1. Rows = {} /\ Row = NoState /\ \A j \in Job : job[j].prior.state = NoState
    BY DEF WorkflowInit, Init, Rows, Row, Id, Idle, NoPrior
  <2>2. \A w \in Worker : pass[w].claims = {}
    BY NewPassTyped DEF WorkflowInit
  <2> QED  BY <2>1, <2>2 DEF WindowInv, OneRow, PublicationPassed, WindowsAgree
<1>2. WInv /\ WindowInv /\ [WorkflowNext]_allVars => WindowInv'
  BY WindowStep
<1> QED  BY WorkflowInductive, <1>1, <1>2, PTL DEF WorkflowSpec

\* The deadline of an awaited reply is the row's publication time plus the
\* window, though jobs write back publications they read earlier.
THEOREM WindowMatchesHolds == WorkflowSpec => []WindowMatches
<1>1. CASE Named
  <2>1. WInv /\ WindowInv => WindowMatches
    BY DEF WInv, WindowInv, WindowsAgree, Agrees, CaseChain, WindowMatches
  <2>2. WorkflowSpec => []WindowInv
    BY <1>1, WindowHolds
  <2> QED  BY WorkflowInductive, <2>1, <2>2, PTL
<1>2. CASE ~Named
  <2>1. WInv => WindowMatches
    BY <1>2 DEF WInv, CaseChain, WindowMatches
  <2> QED  BY WorkflowInductive, <2>1, PTL
<1> QED  BY <1>1, <1>2

\* The discrepancy's state refuses no reply within the deadline of a case that
\* can be replied to, as long as no batch was late.
THEOREM ReplyAcceptedHolds == WorkflowSpec => []ReplyAccepted
<1>1. Named /\ WInv /\ WindowInv => ReplyAccepted
  <2> SUFFICES ASSUME WInv, WindowInv, late = {}, Reviewable, Row.reply = "awaiting_reply"
               PROVE  Allows(Row, "record_response", now)
    BY DEF ReplyAccepted
  <2>1. Row # NoState
    BY DEF WInv, CaseChain, Reviewable
  <2>2. Row.publication = "pending_reply"
    BY <2>1 DEF WindowInv, WindowsAgree, Agrees
  <2>3. now >= Row.publicationAt
    BY <2>1, TheRow DEF WInv, WorkflowTypeOK, TypeOK, Valid, State
  <2> QED  BY <2>2, <2>3 DEF Allows
<1>2. ~Named /\ WInv => ReplyAccepted
  BY DEF WInv, CaseChain, ReplyAccepted, Reviewable
<1>3. CASE Named
  <2>1. WInv /\ WindowInv => ReplyAccepted
    BY <1>1, <1>3
  <2>2. WorkflowSpec => []WindowInv
    BY <1>3, WindowHolds
  <2> QED  BY WorkflowInductive, <2>1, <2>2, PTL
<1>4. CASE ~Named
  <2>1. WInv => ReplyAccepted
    BY <1>2, <1>4
  <2> QED  BY WorkflowInductive, <2>1, PTL
<1> QED  BY <1>3, <1>4
=============================================================================
