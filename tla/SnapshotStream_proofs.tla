------------------------ MODULE SnapshotStream_proofs ------------------------
(***************************************************************************)
(* Theorems of SnapshotStream: its type invariant, the bounds on memory    *)
(* and on a withdrawn access, and that it implements SnapshotFeed, from    *)
(* the inductive invariant IInv.  The stream's operations are functions of *)
(* its record, so each has a lemma of its own: it keeps a record Sound.    *)
(***************************************************************************)
EXTENDS SnapshotStream, FiniteSetTheorems, SequenceTheorems, TLAPS

\* The inductive invariant.  An event waits in the queue or after the cursor
\* in pending, in order, and no event published in order lies between.
Carries(s) == s.queue # <<>> /\ s.queue[1] # Frame

Shaped(s) ==
    /\ s.status \in {"closed", "closing"} => s.step = "idle" /\ s.pending = <<>>
    /\ s.status \in {"closed", "opening"} => s.queue = <<>>
    /\ s.status = "opening" =>
          s.step \in {"tail", "locating", "replaying"} /\ s.pending = <<>>
    /\ s.status = "open" => s.step \in {"waiting", "authorizing", "reading"}
    /\ s.step = "reading" => s.pending = <<>> /\ s.queue = <<>>
    /\ \A i \in DOMAIN s.queue : s.queue[i] # Frame => i = 1

Kept(s) ==
    /\ Len(s.pending) <= ReplayLimit
    /\ Len(s.queue) <= HighWater + 1
    /\ Len(s.queue) > HighWater => s.status = "closing"

Ordered(s, last, rows) ==
    /\ Carries(s) => s.queue[1] \in rows /\ last < s.queue[1]
    /\ s.status = "open" => s.cursor = IF Carries(s) THEN s.queue[1] ELSE last
    /\ s.step = "replaying" => s.cursor = last
    /\ \A i \in DOMAIN s.pending : s.pending[i] \in rows /\ s.cursor < s.pending[i]
    /\ \A i, j \in DOMAIN s.pending : i < j => s.pending[i] < s.pending[j]

Covered(s, last, inOrder) ==
    \A x \in inOrder :
       /\ Carries(s) => ~(last < x /\ x < s.queue[1])
       /\ \A i \in DOMAIN s.pending :
             s.cursor < x /\ x < s.pending[i] => \E j \in DOMAIN s.pending : s.pending[j] = x

Aged(s, n) ==
    /\ s.status = "opening" => n = 0
    /\ s.status = "open" => n <= s.age
    /\ s.step \in {"waiting", "reading"} => s.age < ReauthPolls

Sound(s, last, rows, inOrder, n) ==
    /\ s \in StreamState
    /\ Shaped(s) /\ Kept(s) /\ Ordered(s, last, rows) /\ Covered(s, last, inOrder)
    /\ Aged(s, n)

\* The ids drawn: those in flight are new, and no two alike.
Drawn ==
    /\ \A e \in visible : e < next
    /\ \A w \in Writer : writing[w] # 0 => writing[w] < next /\ writing[w] \notin visible
    /\ \A v, w \in Writer : v # w /\ writing[v] # 0 => writing[v] # writing[w]

IInv ==
    /\ TypeOK /\ Drawn
    /\ Sound(stream, Last, visible, visible \ overtaken, revokedFor)
    /\ access => revokedFor = 0

-----------------------------------------------------------------------------
(* The stream's operations.                                                *)

(* Draining moves at most the first pending event, and only to an empty    *)
(* queue.                                                                  *)
LEMMA DrainedCases ==
    ASSUME NEW s \in StreamState
    PROVE  \/ Drained(s) = s /\ (s.status = "open" => s.pending = <<>> \/ Room(s) <= 0)
           \/ /\ s.status = "open" /\ s.queue = <<>> /\ s.pending # <<>>
              /\ \E q \in Seq(EventId \cup {Frame}), p \in Seq(EventId) :
                    /\ Drained(s) = [s EXCEPT !.queue = q, !.pending = p,
                                              !.cursor = s.pending[1]]
                    /\ q = <<s.pending[1]>> /\ p = SubSeq(s.pending, 2, Len(s.pending))
<1>1. CASE s.status = "open" /\ s.pending # <<>> /\ Room(s) > 0
  <2>1. s.queue \in Seq(EventId \cup {Frame}) /\ s.pending \in Seq(EventId)
    BY DEF StreamState
  <2>2. Len(s.queue) = 0 /\ s.queue = <<>> /\ Room(s) = 1
    BY <1>1, <2>1 DEF Room, HighWater
  <2>3. Len(s.pending) >= 1 /\ Len(s.pending) \in Nat
    BY <1>1, <2>1
  <2>4. (IF Len(s.pending) < Room(s) THEN Len(s.pending) ELSE Room(s)) = 1
    BY <2>2, <2>3
  <2>5. Drained(s) = [s EXCEPT !.queue = @ \o SubSeq(s.pending, 1, 1),
                               !.pending = SubSeq(@, 1 + 1, Len(@)),
                               !.cursor = s.pending[1]]
    BY <1>1, <2>4 DEF Drained
  <2> DEFINE h == SubSeq(s.pending, 1, 1)
             q == s.queue \o h
             p == SubSeq(s.pending, 1 + 1, Len(s.pending))
  <2>6. h \in Seq(EventId) /\ Len(h) = 1 /\ h[1] = s.pending[1]
    BY <2>1, <2>3
  <2>7. q = h
    BY <2>2, <2>6
  <2>8. <<s.pending[1]>> = h
    BY <2>6
  <2>9. q \in Seq(EventId \cup {Frame}) /\ p \in Seq(EventId)
    BY <2>6, <2>7, <2>1, <2>3
  <2>10. p = SubSeq(s.pending, 2, Len(s.pending))
    OBVIOUS
  <2>11. Drained(s) = [s EXCEPT !.queue = q, !.pending = p, !.cursor = s.pending[1]]
    BY <2>5, Zenon
  <2> HIDE DEF q, p, h
  <2> QED BY <1>1, <2>2, <2>7, <2>8, <2>9, <2>10, <2>11
<1>2. CASE ~(s.status = "open" /\ s.pending # <<>> /\ Room(s) > 0)
  <2>1. Room(s) \in Int
    BY DEF Room, HighWater, StreamState
  <2>2. Drained(s) = s
    BY <1>2, Zenon DEF Drained
  <2>3. s.status = "open" => s.pending = <<>> \/ Room(s) <= 0
    BY <1>2, <2>1
  <2> QED BY <2>2, <2>3, Zenon
<1> QED BY <1>1, <1>2

(* A drained record is sound.                                              *)
LEMMA DrainedSound ==
    ASSUME NEW s, NEW last \in 0..MaxId, NEW rows, NEW inOrder, NEW n \in Nat,
           rows \subseteq EventId, inOrder \subseteq rows,
           Sound(s, last, rows, inOrder, n)
    PROVE  Sound(Drained(s), last, rows, inOrder, n)
<1>1. s \in StreamState
  BY DEF Sound
<1>2. CASE Drained(s) = s
  BY <1>2
<1>3. CASE Drained(s) # s
  <2>a. PICK q \in Seq(EventId \cup {Frame}), p \in Seq(EventId) :
           /\ s.status = "open" /\ s.queue = <<>> /\ s.pending # <<>>
           /\ Drained(s) = [s EXCEPT !.queue = q, !.pending = p, !.cursor = s.pending[1]]
           /\ q = <<s.pending[1]>> /\ p = SubSeq(s.pending, 2, Len(s.pending))
    BY <1>1, <1>3, DrainedCases, Zenon
  <2>b. PICK d : d = Drained(s)
    OBVIOUS
  <2>0. /\ s.status = "open" /\ s.queue = <<>> /\ s.pending # <<>>
        /\ q = <<s.pending[1]>> /\ p = SubSeq(s.pending, 2, Len(s.pending))
        /\ d = [s EXCEPT !.queue = q, !.pending = p, !.cursor = s.pending[1]]
    BY <2>a, <2>b, Zenon
  <2>1. s.pending \in Seq(EventId) /\ Len(s.pending) \in Nat /\ Len(s.pending) >= 1
    BY <1>1, <2>0 DEF StreamState
  <2>2. s.pending[1] \in EventId
    BY <2>1
  <2>3. s.pending[1] \in 0..MaxId
    BY <2>2, MaxIdAssumption DEF EventId
  <2>4. /\ d \in StreamState /\ d.queue = q /\ d.pending = p /\ d.cursor = s.pending[1]
        /\ d.status = s.status /\ d.step = s.step /\ d.age = s.age
    BY <1>1, <2>0, <2>3 DEF StreamState
  <2>5. /\ d.status = "open" /\ d.step = s.step /\ d.age = s.age
        /\ d.queue = <<s.pending[1]>> /\ d.cursor = s.pending[1]
        /\ d.pending = SubSeq(s.pending, 2, Len(s.pending))
    BY <2>0, <2>4
  <2>6. /\ Len(d.pending) = Len(s.pending) - 1
        /\ \A i \in DOMAIN d.pending : i + 1 \in DOMAIN s.pending /\ d.pending[i] = s.pending[i + 1]
        /\ DOMAIN d.pending = 1..(Len(s.pending) - 1)
    BY <2>1, <2>5
  <2>7. /\ Len(d.queue) = 1 /\ d.queue # <<>> /\ d.queue[1] = s.pending[1]
        /\ DOMAIN d.queue = {1}
    BY <2>5
  <2>8. Carries(d) /\ ~Carries(s) /\ s.cursor = last
    BY <2>0, <2>2, <2>7 DEF Carries, Frame, EventId, Sound, Ordered
  <2>9. s.step # "reading" /\ s.step \in {"waiting", "authorizing", "reading"}
    BY <2>0 DEF Sound, Shaped
  <2>10. Shaped(d)
    BY <2>5, <2>7, <2>9 DEF Shaped
  <2>11. Kept(d)
    BY <2>5, <2>6, <2>7, <2>1, ConfigAssumption DEF Kept, HighWater, Sound
  <2>12. Ordered(d, last, rows)
    <3>0. Ordered(s, last, rows) /\ 1 \in DOMAIN s.pending /\ DOMAIN s.pending = 1..Len(s.pending)
      BY <2>1 DEF Sound
    <3>1. d.queue[1] \in rows /\ last < d.queue[1]
      BY <3>0, <2>7, <2>8 DEF Ordered
    <3>2. ASSUME NEW i \in DOMAIN d.pending
          PROVE  d.pending[i] \in rows /\ d.cursor < d.pending[i]
      <4>1. i + 1 \in DOMAIN s.pending /\ 1 < i + 1 /\ d.pending[i] = s.pending[i + 1]
        BY <2>1, <2>6
      <4> QED BY <3>0, <4>1, <2>5 DEF Ordered
    <3>3. \A i, j \in DOMAIN d.pending : i < j => d.pending[i] < d.pending[j]
      <4> SUFFICES ASSUME NEW i \in DOMAIN d.pending, NEW j \in DOMAIN d.pending, i < j
                   PROVE  d.pending[i] < d.pending[j]
        OBVIOUS
      <4>1. /\ i + 1 \in DOMAIN s.pending /\ d.pending[i] = s.pending[i + 1]
            /\ j + 1 \in DOMAIN s.pending /\ d.pending[j] = s.pending[j + 1]
            /\ i + 1 < j + 1
        BY <2>1, <2>6
      <4> QED BY <3>0, <4>1 DEF Ordered
    <3> QED BY <3>1, <3>2, <3>3, <2>5, <2>7, <2>8, <2>9 DEF Ordered
  <2>13. Covered(d, last, inOrder)
    <3> SUFFICES ASSUME NEW x \in inOrder
                 PROVE  /\ ~(last < x /\ x < d.queue[1])
                        /\ \A i \in DOMAIN d.pending :
                             d.cursor < x /\ x < d.pending[i]
                                => \E j \in DOMAIN d.pending : d.pending[j] = x
      BY DEF Covered
    <3>0. /\ Ordered(s, last, rows) /\ Covered(s, last, inOrder) /\ x \in EventId
          /\ 1 \in DOMAIN s.pending /\ DOMAIN s.pending = 1..Len(s.pending)
          /\ \A i \in DOMAIN s.pending : s.pending[i] \in EventId
      BY <2>1 DEF Sound
    <3>1. \A i \in DOMAIN s.pending :
             last < x /\ x < s.pending[i] => \E j \in DOMAIN s.pending : s.pending[j] = x
      BY <3>0, <2>8 DEF Covered
    <3>2. ASSUME NEW j \in DOMAIN s.pending, j # 1
          PROVE  s.pending[1] < s.pending[j]
      <4>1. 1 < j
        BY <3>0, <3>2, <2>1
      <4> QED BY <3>0, <4>1 DEF Ordered
    <3>3. ~(last < x /\ x < s.pending[1])
      BY <3>0, <3>1, <3>2 DEF EventId
    <3>4. ASSUME NEW i \in DOMAIN d.pending, d.cursor < x, x < d.pending[i]
          PROVE  \E j \in DOMAIN d.pending : d.pending[j] = x
      <4>1. last < s.pending[1]
        BY <3>0, <2>8 DEF Ordered
      <4>2. i + 1 \in DOMAIN s.pending /\ d.pending[i] = s.pending[i + 1]
        BY <2>6
      <4>3. last < x /\ x < s.pending[i + 1]
        <5>1. s.pending[1] < x /\ s.pending[1] \in EventId
          BY <3>0, <3>4, <2>5
        <5> QED BY <3>0, <3>4, <4>1, <4>2, <5>1 DEF EventId
      <4>4. PICK j \in DOMAIN s.pending : s.pending[j] = x
        BY <3>1, <4>2, <4>3
      <4>5. j # 1
        BY <3>0, <3>4, <4>4, <2>5 DEF EventId
      <4>6. j - 1 \in DOMAIN d.pending /\ (j - 1) + 1 = j
        BY <3>0, <4>4, <4>5, <2>1, <2>6
      <4>7. d.pending[j - 1] = s.pending[j]
        BY <2>6, <4>6
      <4> QED BY <4>4, <4>6, <4>7
    <3> QED BY <3>3, <3>4, <2>7
  <2>14. Aged(d, n)
    BY <2>5, <2>0 DEF Aged, Sound
  <2>15. Sound(d, last, rows, inOrder, n)
    BY <2>4, <2>10, <2>11, <2>12, <2>13, <2>14 DEF Sound
  <2> QED BY <2>b, <2>15
<1> QED BY <1>2, <1>3

(* What closing sets, and what it leaves alone.                            *)
LEMMA ClosingKeeps ==
    ASSUME NEW s \in StreamState
    PROVE  /\ Closing(s) \in StreamState
           /\ Closing(s).status = "closing" /\ Closing(s).step = "idle"
           /\ Closing(s).pending = <<>>
           /\ Closing(s).queue = s.queue /\ Closing(s).cursor = s.cursor
<1>1. PICK p, d :
         /\ p \in Seq(EventId) /\ p = <<>> /\ d = Closing(s)
         /\ d = [s EXCEPT !.status = "closing", !.step = "idle", !.pending = p]
  <2>1. <<>> \in Seq(EventId)
    OBVIOUS
  <2> QED BY <2>1, Zenon DEF Closing
<1>2. /\ d \in StreamState /\ d.status = "closing" /\ d.step = "idle"
      /\ d.pending = p /\ d.queue = s.queue /\ d.cursor = s.cursor
  BY <1>1 DEF StreamState
<1> QED BY <1>1, <1>2

(* What draining leaves alone.                                             *)
LEMMA DrainedKeeps ==
    ASSUME NEW s \in StreamState
    PROVE  /\ Drained(s) \in StreamState
           /\ Drained(s).status = s.status /\ Drained(s).step = s.step
           /\ Drained(s).age = s.age /\ Drained(s).stalled = s.stalled
<1>1. CASE Drained(s) = s
  BY <1>1
<1>2. CASE Drained(s) # s
  <2>1. PICK q \in Seq(EventId \cup {Frame}), p \in Seq(EventId) :
           /\ s.pending # <<>>
           /\ Drained(s) = [s EXCEPT !.queue = q, !.pending = p, !.cursor = s.pending[1]]
    BY <1>2, DrainedCases, Zenon
  <2>2. PICK d : d = Drained(s)
    OBVIOUS
  <2>3. d = [s EXCEPT !.queue = q, !.pending = p, !.cursor = s.pending[1]]
    BY <2>1, <2>2, Zenon
  <2>4. s.pending \in Seq(EventId)
    BY DEF StreamState
  <2>5. s.pending[1] \in EventId
    BY <2>1, <2>4
  <2>6. s.pending[1] \in 0..MaxId
    BY <2>5, MaxIdAssumption DEF EventId
  <2>7. s \in StreamState
    OBVIOUS
  <2>8. d \in StreamState
    BY <2>1, <2>3, <2>6, <2>7 DEF StreamState
  <2>9. d.status = s.status /\ d.step = s.step
    BY <2>3, <2>7 DEF StreamState
  <2>10. d.age = s.age /\ d.stalled = s.stalled
    BY <2>3, <2>7 DEF StreamState
  <2> QED BY <2>2, <2>8, <2>9, <2>10
<1> QED BY <1>1, <1>2

(* An open stream that ends keeps what it queued.                          *)
LEMMA ClosingSound ==
    ASSUME NEW s, NEW last \in 0..MaxId, NEW rows, NEW inOrder, NEW n \in Nat,
           Sound(s, last, rows, inOrder, n)
    PROVE  Sound(Closing(s), last, rows, inOrder, n)
<1> DEFINE d == Closing(s)
<1>1. s \in StreamState
  BY DEF Sound
<1>2. /\ d \in StreamState /\ d.status = "closing" /\ d.step = "idle" /\ d.pending = <<>>
      /\ d.queue = s.queue /\ d.cursor = s.cursor
  BY <1>1, ClosingKeeps
<1> HIDE DEF d
<1>3. Shaped(d)
  BY <1>2 DEF Shaped, Sound
<1>4. Kept(d)
  BY <1>2, ConfigAssumption DEF Kept, Sound
<1>5. Ordered(d, last, rows)
  BY <1>2 DEF Ordered, Sound, Carries
<1>6. Covered(d, last, inOrder)
  BY <1>2 DEF Covered, Sound, Carries
<1>7. Aged(d, n)
  BY <1>2 DEF Aged
<1> QED BY <1>2, <1>3, <1>4, <1>5, <1>6, <1>7 DEF Sound, d

(* A terminal frame goes behind at most one queued event.                  *)
LEMMA FailedSound ==
    ASSUME NEW s, NEW last \in 0..MaxId, NEW rows, NEW inOrder, NEW n \in Nat,
           s.status = "open", Sound(s, last, rows, inOrder, n)
    PROVE  Sound(Failed(s), last, rows, inOrder, n)
<1> DEFINE c == Closing(s)
           d == Failed(s)
<1>1. s \in StreamState
  BY DEF Sound
<1>2. /\ c \in StreamState /\ c.status = "closing" /\ c.step = "idle" /\ c.pending = <<>>
      /\ c.queue = s.queue /\ c.cursor = s.cursor
  BY <1>1, ClosingKeeps
<1>3. c.queue \in Seq(EventId \cup {Frame}) /\ Len(c.queue) <= 1
  BY <1>1, <1>2 DEF StreamState, Sound, Kept, HighWater
<1>4. Append(c.queue, Frame) \in Seq(EventId \cup {Frame})
  BY <1>3
<1>5. /\ d \in StreamState /\ d.status = "closing" /\ d.step = "idle" /\ d.pending = <<>>
      /\ d.queue = Append(c.queue, Frame) /\ d.cursor = s.cursor
  BY <1>2, <1>4 DEF Failed, StreamState
<1>6. Sound(c, last, rows, inOrder, n)
  BY ClosingSound
<1> HIDE DEF c, d
<1>7. /\ Len(d.queue) = Len(c.queue) + 1 /\ d.queue[Len(c.queue) + 1] = Frame
      /\ \A i \in 1..Len(c.queue) : d.queue[i] = c.queue[i]
      /\ DOMAIN d.queue = 1..(Len(c.queue) + 1) /\ DOMAIN c.queue = 1..Len(c.queue)
  BY <1>3, <1>5
<1>8. Carries(d) <=> Carries(c)
  <2>1. CASE c.queue = <<>>
    BY <2>1, <1>7, <1>3 DEF Carries
  <2>2. CASE c.queue # <<>>
    <3>1. 1 \in 1..Len(c.queue) /\ d.queue # <<>>
      BY <2>2, <1>3, <1>5
    <3> QED BY <2>2, <3>1, <1>7 DEF Carries
  <2> QED BY <2>1, <2>2
<1>9. Carries(c) => d.queue[1] = c.queue[1]
  <2> SUFFICES ASSUME Carries(c) PROVE d.queue[1] = c.queue[1]
    OBVIOUS
  <2>1. 1 \in 1..Len(c.queue)
    BY <1>3 DEF Carries
  <2> QED BY <2>1, <1>7
<1>10. Shaped(d)
  <2>1. \A i \in DOMAIN d.queue : d.queue[i] # Frame => i = 1
    BY <1>7, <1>3, <1>6 DEF Sound, Shaped
  <2> QED BY <2>1, <1>5 DEF Shaped
<1>11. Kept(d)
  BY <1>5, <1>7, <1>3, ConfigAssumption DEF Kept, HighWater
<1>12. Ordered(d, last, rows)
  BY <1>5, <1>6, <1>8, <1>9 DEF Ordered, Sound
<1>13. Covered(d, last, inOrder)
  BY <1>5, <1>6, <1>8, <1>9 DEF Covered, Sound
<1>14. Aged(d, n)
  BY <1>5 DEF Aged
<1> QED BY <1>5, <1>10, <1>11, <1>12, <1>13, <1>14 DEF Sound, d

(* A poll that was authorized drains, and closes, waits or reads.          *)
LEMMA PolledSound ==
    ASSUME NEW s, NEW last \in 0..MaxId, NEW rows, NEW inOrder, NEW n \in Nat,
           rows \subseteq EventId, inOrder \subseteq rows,
           s.status = "open", s.age < ReauthPolls, Sound(s, last, rows, inOrder, n)
    PROVE  Sound(Polled(s), last, rows, inOrder, n)
<1> DEFINE d == Drained(s)
<1>1. s \in StreamState
  BY DEF Sound
<1>2. /\ d \in StreamState /\ d.status = "open" /\ d.age = s.age
      /\ Sound(d, last, rows, inOrder, n)
  BY <1>1, DrainedKeeps, DrainedSound
<1>3. Polled(s) = IF d.pending # <<>> \/ Room(d) <= 0
                  THEN IF d.stalled + 1 >= MaxBackpressure
                       THEN Closing(d)
                       ELSE [d EXCEPT !.step = "waiting", !.stalled = @ + 1]
                  ELSE [d EXCEPT !.step = "reading", !.stalled = 0]
  BY DEF Polled
<1> HIDE DEF d
<1>4. ASSUME NEW e, e = [d EXCEPT !.step = "waiting", !.stalled = @ + 1],
             ~(d.stalled + 1 >= MaxBackpressure)
      PROVE  Sound(e, last, rows, inOrder, n)
  <2>1. d.stalled + 1 \in 0..MaxBackpressure - 1
    BY <1>2, <1>4, ConfigAssumption DEF StreamState
  <2>2. /\ e \in StreamState /\ e.status = "open" /\ e.step = "waiting" /\ e.age = s.age
        /\ e.pending = d.pending /\ e.queue = d.queue /\ e.cursor = d.cursor
    BY <1>2, <1>4, <2>1 DEF StreamState
  <2>3. Shaped(e)
    BY <1>2, <2>2 DEF Shaped, Sound
  <2>4. Kept(e)
    BY <1>2, <2>2 DEF Kept, Sound
  <2>5. Ordered(e, last, rows)
    BY <1>2, <2>2 DEF Ordered, Sound, Carries
  <2>6. Covered(e, last, inOrder)
    BY <1>2, <2>2 DEF Covered, Sound, Carries
  <2>7. Aged(e, n)
    BY <1>2, <2>2 DEF Aged, Sound
  <2> QED BY <2>2, <2>3, <2>4, <2>5, <2>6, <2>7 DEF Sound
<1>5. ASSUME NEW e, e = [d EXCEPT !.step = "reading", !.stalled = 0],
             ~(d.pending # <<>> \/ Room(d) <= 0)
      PROVE  Sound(e, last, rows, inOrder, n)
  <2>1. 0 \in 0..MaxBackpressure - 1
    BY ConfigAssumption
  <2>2. /\ e \in StreamState /\ e.status = "open" /\ e.step = "reading" /\ e.age = s.age
        /\ e.pending = <<>> /\ e.queue = d.queue /\ e.cursor = d.cursor
    BY <1>2, <1>5, <2>1 DEF StreamState
  <2>3. d.queue = <<>>
    <3>1. d.queue \in Seq(EventId \cup {Frame})
      BY <1>2 DEF StreamState
    <3>2. Len(d.queue) = 0
      BY <1>5, <3>1 DEF Room, HighWater
    <3> QED BY <3>1, <3>2
  <2>4. Shaped(e)
    BY <1>2, <2>2, <2>3 DEF Shaped, Sound
  <2>5. Kept(e)
    BY <1>2, <2>2, ConfigAssumption DEF Kept, Sound
  <2>6. Ordered(e, last, rows)
    BY <1>2, <2>2 DEF Ordered, Sound, Carries
  <2>7. Covered(e, last, inOrder)
    BY <1>2, <2>2 DEF Covered, Sound, Carries
  <2>8. Aged(e, n)
    BY <1>2, <2>2 DEF Aged, Sound
  <2> QED BY <2>2, <2>4, <2>5, <2>6, <2>7, <2>8 DEF Sound
<1>6. Sound(Closing(d), last, rows, inOrder, n)
  BY <1>2, ClosingSound
<1>7. CASE ~(d.pending # <<>> \/ Room(d) <= 0)
  BY <1>3, <1>5, <1>7
<1>8. CASE (d.pending # <<>> \/ Room(d) <= 0) /\ d.stalled + 1 >= MaxBackpressure
  BY <1>3, <1>6, <1>8
<1>9. CASE (d.pending # <<>> \/ Room(d) <= 0) /\ ~(d.stalled + 1 >= MaxBackpressure)
  BY <1>3, <1>4, <1>9
<1> QED BY <1>7, <1>8, <1>9

(* A stream without chunks or pending events: closed, or being prepared.   *)
LEMMA EmptySound ==
    ASSUME NEW s \in StreamState, NEW last \in 0..MaxId, NEW rows, NEW inOrder, NEW n \in Nat,
           s.queue = <<>>, s.pending = <<>>,
           \/ s.status = "closed" /\ s.step = "idle"
           \/ s.status = "opening" /\ s.step \in {"tail", "locating", "replaying"} /\ n = 0,
           s.step = "replaying" => s.cursor = last
    PROVE  Sound(s, last, rows, inOrder, n)
<1>1. Shaped(s) /\ Kept(s) /\ Aged(s, n)
  BY ConfigAssumption DEF Shaped, Kept, Aged, HighWater
<1>2. Ordered(s, last, rows) /\ Covered(s, last, inOrder)
  BY DEF Ordered, Covered, Carries
<1> QED BY <1>1, <1>2 DEF Sound

LEMMA ClosedFacts ==
    /\ Closed \in StreamState
    /\ Closed.status = "closed" /\ Closed.step = "idle"
    /\ Closed.queue = <<>> /\ Closed.pending = <<>>
<1>1. 0 \in 0..MaxId /\ 0 \in 0..ReauthPolls /\ 0 \in 0..MaxBackpressure - 1
  BY MaxIdAssumption, ConfigAssumption
<1>2. <<>> \in Seq(EventId) /\ <<>> \in Seq(EventId \cup {Frame})
  OBVIOUS
<1> QED BY <1>1, <1>2 DEF Closed, StreamState

(* What a read of the log returns: the rows after c, each once, in order.  *)
LEMMA RowsFacts ==
    ASSUME visible \subseteq EventId, NEW c \in 0..MaxId, NEW rows \in Rows(c)
    PROVE  /\ rows \in Seq(EventId) /\ Cardinality(After(c)) \in Nat
           /\ Len(rows) = Cardinality(After(c))
           /\ \A i \in DOMAIN rows : rows[i] \in visible /\ c < rows[i]
           /\ \A i, j \in DOMAIN rows : i < j => rows[i] < rows[j]
           /\ \A e \in visible : c < e => \E i \in DOMAIN rows : rows[i] = e
<1>1. IsFiniteSet(EventId)
  BY FS_Interval, MaxIdAssumption DEF EventId
<1>2. After(c) \subseteq EventId
  BY DEF After
<1>3. Cardinality(After(c)) \in Nat
  BY <1>1, <1>2, FS_Subset, FS_CardinalityType
<1>4. rows \in [1..Cardinality(After(c)) -> After(c)]
  BY DEF Rows
<1>5. rows \in [1..Cardinality(After(c)) -> EventId]
  BY <1>4, <1>2
<1>6. rows \in Seq(EventId) /\ Len(rows) = Cardinality(After(c))
  BY <1>3, <1>5
<1>7. \A i \in DOMAIN rows : rows[i] \in visible /\ c < rows[i]
  BY <1>4 DEF After, EventId
<1>8. \A i, j \in DOMAIN rows : i < j => rows[i] < rows[j]
  BY DEF Rows
<1>9. \A e \in visible : c < e => \E i \in DOMAIN rows : rows[i] = e
  BY DEF Rows, After, EventId
<1> QED BY <1>3, <1>6, <1>7, <1>8, <1>9

(* A stream that has just read the log with nothing left over.             *)
LEMMA ReadSound ==
    ASSUME NEW s \in StreamState, NEW last \in 0..MaxId, NEW n \in Nat,
           visible \subseteq EventId, overtaken \subseteq visible,
           NEW rows \in Rows(s.cursor), ~TooMany(s.cursor),
           s.pending = rows, s.queue \in {<<>>, <<Frame>>}, s.status = "open",
           s.step = "waiting", s.cursor = last, n <= s.age, s.age < ReauthPolls
    PROVE  Sound(s, last, visible, visible \ overtaken, n)
<1>1. s.cursor \in 0..MaxId
  BY DEF StreamState
<1>2. /\ rows \in Seq(EventId) /\ Len(rows) <= ReplayLimit
      /\ \A i \in DOMAIN rows : rows[i] \in visible /\ s.cursor < rows[i]
      /\ \A i, j \in DOMAIN rows : i < j => rows[i] < rows[j]
      /\ \A e \in visible : s.cursor < e => \E i \in DOMAIN rows : rows[i] = e
  BY <1>1, RowsFacts, ConfigAssumption DEF TooMany
<1>3. ~Carries(s)
  BY DEF Carries
<1>4. Shaped(s)
  <2>1. CASE s.queue = <<>>
    BY <2>1 DEF Shaped
  <2>2. CASE s.queue = <<Frame>>
    <3>1. DOMAIN s.queue = {1}
      BY <2>2
    <3> QED BY <2>2, <3>1 DEF Shaped
  <2> QED BY <2>1, <2>2
<1>5. Kept(s)
  <2>1. CASE s.queue = <<>>
    BY <1>2, <2>1 DEF Kept, HighWater
  <2>2. CASE s.queue = <<Frame>>
    <3>1. Len(s.queue) = 1
      BY <2>2
    <3> QED BY <1>2, <3>1 DEF Kept, HighWater
  <2> QED BY <2>1, <2>2
<1>6. Ordered(s, last, visible)
  BY <1>2, <1>3 DEF Ordered
<1>7. Covered(s, last, visible \ overtaken)
  BY <1>2, <1>3 DEF Covered
<1>8. Aged(s, n)
  BY DEF Aged
<1> QED BY <1>4, <1>5, <1>6, <1>7, <1>8 DEF Sound

LEMMA LastType ==
    ASSUME TypeOK
    PROVE  Last \in 0..MaxId
<1>1. CASE received = <<>>
  BY <1>1 DEF TypeOK, Last
<1>2. CASE received # <<>>
  <2>1. received[Len(received)] \in EventId
    BY <1>2 DEF TypeOK
  <2> QED BY <1>2, <2>1, MaxIdAssumption DEF Last, EventId
<1> QED BY <1>1, <1>2

-----------------------------------------------------------------------------
(* The inductive invariant.                                                *)

(* The log's own steps: a commit adds an id that no waiting event exceeds, *)
(* or one that was overtaken.                                              *)
LEMMA LogStep ==
    ASSUME IInv, NEW w \in Writer, Insert(w) \/ Commit(w) \/ Rollback(w)
    PROVE  IInv'
<1>1. UNCHANGED <<access, revokedFor, stream, client>> /\ Last' = Last
  BY DEF Insert, Commit, Rollback, client, Last
<1>2. Drawn'
  <2>1. /\ visible \subseteq EventId /\ next \in Nat
        /\ \A v \in Writer : writing[v] \in Nat
        /\ writing \in [Writer -> 0..MaxId]
    BY DEF IInv, TypeOK
  <2>2. CASE Insert(w)
    <3>1. /\ writing[w] = 0 /\ next' = next + 1 /\ visible' = visible
          /\ \A v \in Writer : writing'[v] = IF v = w THEN next ELSE writing[v]
      BY <2>1, <2>2 DEF Insert
    <3> QED BY <2>1, <3>1 DEF Drawn, IInv, EventId
  <2>3. CASE Commit(w)
    <3>1. /\ writing[w] # 0 /\ next' = next /\ visible' = visible \cup {writing[w]}
          /\ \A v \in Writer : writing'[v] = IF v = w THEN 0 ELSE writing[v]
      BY <2>1, <2>3 DEF Commit
    <3> QED BY <2>1, <3>1 DEF Drawn, IInv, EventId
  <2>4. CASE Rollback(w)
    <3>1. /\ next' = next /\ visible' = visible
          /\ \A v \in Writer : writing'[v] = IF v = w THEN 0 ELSE writing[v]
      BY <2>1, <2>4 DEF Rollback
    <3> QED BY <2>1, <3>1 DEF Drawn, IInv, EventId
  <2> QED BY <2>2, <2>3, <2>4
<1>3. CASE UNCHANGED <<visible, overtaken>>
  <2>1. next' \in 1..MaxId + 1 /\ writing' \in [Writer -> 0..MaxId]
    BY <1>3, MaxIdAssumption DEF IInv, TypeOK, Insert, Commit, Rollback
  <2> QED BY <1>1, <1>3, <1>2, <2>1 DEF IInv, TypeOK, client
<1>4. CASE Commit(w)
  <2> DEFINE x == writing[w]
             s == stream
  <2>1. x \in EventId /\ visible' = visible \cup {x} /\ next' = next
        /\ overtaken' = IF \E y \in visible : y > x THEN overtaken \cup {x} ELSE overtaken
    BY <1>4 DEF Commit, IInv, TypeOK, EventId
  <2>2. TypeOK'
    <3>1. writing' \in [Writer -> 0..MaxId]
      BY <1>4, MaxIdAssumption DEF Commit, IInv, TypeOK
    <3> QED BY <1>1, <2>1, <3>1 DEF IInv, TypeOK, client
  <2>3. Ordered(s, Last, visible')
    BY <2>1 DEF IInv, Sound, Ordered
  <2>4. Covered(s, Last, visible' \ overtaken')
    <3>1. SUFFICES ASSUME NEW y \in visible' \ overtaken'
                   PROVE  /\ Carries(s) => ~(Last < y /\ y < s.queue[1])
                          /\ \A i \in DOMAIN s.pending :
                               s.cursor < y /\ y < s.pending[i]
                                  => \E j \in DOMAIN s.pending : s.pending[j] = y
      BY Zenon DEF Covered
    <3>2. CASE y \in visible \ overtaken
      BY <3>2 DEF IInv, Sound, Covered
    <3>3. CASE y \notin visible \ overtaken
      <4>1. y = x /\ \A e \in visible : ~(e > x)
        BY <2>1, <3>1, <3>3
      <4>2. visible \subseteq EventId /\ Ordered(s, Last, visible)
        BY DEF IInv, TypeOK, Sound
      <4>3. Carries(s) => s.queue[1] \in visible
        BY <4>2 DEF Ordered
      <4>4. \A i \in DOMAIN s.pending : s.pending[i] \in visible
        BY <4>2 DEF Ordered
      <4> QED BY <2>1, <4>1, <4>2, <4>3, <4>4 DEF EventId
    <3> QED BY <3>2, <3>3
  <2>5. Sound(stream, Last, visible', visible' \ overtaken', revokedFor)
    BY <2>3, <2>4 DEF IInv, Sound
  <2> QED BY <1>1, <1>2, <2>2, <2>5 DEF IInv
<1> QED BY <1>3, <1>4 DEF Insert, Commit, Rollback

(* A step that only moves the stream is one that leaves it Sound.          *)
LEMMA StreamStep ==
    ASSUME IInv, UNCHANGED <<log, access, client>>, revokedFor' \in Nat,
           Sound(stream', Last, visible, visible \ overtaken, revokedFor'),
           access => revokedFor' = 0
    PROVE  IInv'
<1>1. /\ UNCHANGED <<next, writing, visible, overtaken, access, start, received>>
      /\ Last' = Last
  BY DEF log, client, Last
<1>2. stream' \in StreamState
  BY DEF Sound
<1> QED BY <1>1, <1>2 DEF IInv, TypeOK, Drawn

(* Preparing a stream: the route's steps.                                  *)
LEMMA RouteStep ==
    ASSUME IInv,
           \/ ConnectTail \/ \E i \in 0..Len(received) : ConnectAfter(i)
           \/ \E h \in 0..MaxId : ConnectAt(h)
           \/ OpenAtTail \/ Locate \/ Replay
    PROVE  IInv'
<1>0. /\ Last \in 0..MaxId /\ TypeOK /\ revokedFor \in Nat
      /\ Sound(stream, Last, visible, visible \ overtaken, revokedFor)
  BY LastType DEF IInv, TypeOK
<1>1. ASSUME NEW step \in {"tail", "locating"}, NEW c \in 0..MaxId, Opening(step, c),
             start' = start, received' \in Seq(EventId)
      PROVE  IInv'
  <2>1. stream' = [Closed EXCEPT !.status = "opening", !.step = step, !.cursor = c]
    BY <1>1, Zenon DEF Opening
  <2>2. /\ stream' \in StreamState /\ stream'.status = "opening" /\ stream'.step = step
        /\ stream'.queue = <<>> /\ stream'.pending = <<>>
    BY <2>1, ClosedFacts DEF StreamState
  <2>3. /\ UNCHANGED <<next, writing, visible, overtaken, access, revokedFor, start>>
        /\ revokedFor = 0 /\ access
    BY <1>1 DEF Opening, log, IInv
  <2>4. TypeOK'
    BY <1>0, <1>1, <2>2, <2>3 DEF TypeOK
  <2>5. Last' \in 0..MaxId
    <3>1. CASE received' = <<>>
      BY <3>1, <2>3, <1>0 DEF TypeOK, Last
    <3>2. CASE received' # <<>>
      <4>1. received'[Len(received')] \in EventId
        BY <3>2, <1>1
      <4> QED BY <3>2, <4>1, MaxIdAssumption DEF Last, EventId
    <3> QED BY <3>1, <3>2
  <2>6. Sound(stream', Last', visible', visible' \ overtaken', revokedFor')
    BY <2>2, <2>3, <2>5, <1>0, EmptySound
  <2> QED BY <2>3, <2>4, <2>6 DEF IInv, Drawn
<1>2. ASSUME NEW c \in 0..MaxId, NEW rows, stream' = Opened(c, rows), Last' = c,
             UNCHANGED <<log, access, revokedFor>>, stream.status = "opening",
             start' \in 0..MaxId, received' \in Seq(EventId),
             \/ rows = <<>> /\ \A e \in visible : e <= c
             \/ rows \in Rows(c) /\ ~TooMany(c)
      PROVE  IInv'
  <2>1. /\ UNCHANGED <<next, writing, visible, overtaken, access, revokedFor>>
        /\ revokedFor = 0 /\ visible \subseteq EventId /\ overtaken \subseteq visible
    BY <1>2, <1>0 DEF log, Sound, Aged, TypeOK
  <2>2. rows \in Seq(EventId) /\ <<Frame>> \in Seq(EventId \cup {Frame})
    <3>1. CASE rows \in Rows(c)
      BY <2>1, <3>1, RowsFacts
    <3>2. CASE rows = <<>>
      BY <3>2
    <3> QED BY <1>2, <3>1, <3>2
  <2>3. /\ stream' \in StreamState /\ stream'.status = "open" /\ stream'.step = "waiting"
        /\ stream'.cursor = c /\ stream'.pending = rows /\ stream'.queue = <<Frame>>
        /\ stream'.age = 0
    <3>1. PICK q, d : q = <<Frame>> /\ d = stream'
      OBVIOUS
    <3>2. d = [Closed EXCEPT !.status = "open", !.step = "waiting", !.cursor = c,
                             !.pending = rows, !.queue = q]
      BY <1>2, <3>1, Zenon DEF Opened
    <3>3. q \in Seq(EventId \cup {Frame})
      BY <2>2, <3>1
    <3>4. Closed \in StreamState /\ Closed.age = 0
      BY ClosedFacts DEF Closed
    <3>5. d \in StreamState
      BY <2>2, <3>2, <3>3, <3>4 DEF StreamState
    <3>6. d.status = "open" /\ d.step = "waiting" /\ d.cursor = c
      BY <3>2, <3>4 DEF StreamState
    <3>7. d.pending = rows /\ d.queue = q /\ d.age = 0
      BY <3>2, <3>4 DEF StreamState
    <3> QED BY <3>1, <3>5, <3>6, <3>7
  <2>4. TypeOK'
    BY <1>0, <1>2, <2>1, <2>3 DEF TypeOK
  <2>5. 0 < ReauthPolls
    BY ConfigAssumption
  <2>6. CASE rows \in Rows(c) /\ ~TooMany(c)
    <3>1. rows \in Rows(stream'.cursor) /\ ~TooMany(stream'.cursor) /\ 0 <= stream'.age
          /\ stream'.age < ReauthPolls /\ stream'.queue \in {<<>>, <<Frame>>} /\ 0 \in Nat
      BY <2>3, <2>5, <2>6
    <3>2. Sound(stream', c, visible, visible \ overtaken, 0)
      BY <2>1, <2>3, <3>1, ReadSound
    <3> QED BY <3>2, <2>1, <2>4, <1>2 DEF IInv, Drawn
  <2>7. CASE rows = <<>> /\ \A e \in visible : e <= c
    <3>1. After(c) = {}
      <4>1. \A e \in visible : ~(e > c)
        BY <2>7, <2>1 DEF EventId
      <4> QED BY <4>1 DEF After
    <3>2. Cardinality(After(c)) = 0
      BY <3>1, FS_EmptySet
    <3>3. rows \in Rows(c) /\ ~TooMany(c)
      BY <2>7, <3>1, <3>2, ConfigAssumption DEF Rows, TooMany
    <3> QED BY <3>3, <2>6
  <2> QED BY <1>2, <2>6, <2>7
<1>3. CASE ConnectTail
  BY <1>1, <1>3, <1>0, MaxIdAssumption DEF ConnectTail, client, TypeOK
<1>4. ASSUME NEW i \in 0..Len(received), ConnectAfter(i)
      PROVE  IInv'
  <2>1. received \in Seq(EventId) /\ Len(received) \in Nat
    BY <1>0 DEF TypeOK
  <2>2. SubSeq(received, 1, i) \in Seq(EventId)
    BY <2>1
  <2>3. (IF i = 0 THEN start ELSE received[i]) \in 0..MaxId
    <3>1. i # 0 => received[i] \in EventId
      BY <2>1
    <3> QED BY <3>1, <1>0, MaxIdAssumption DEF TypeOK, EventId
  <2> QED BY <1>1, <1>4, <2>2, <2>3 DEF ConnectAfter
<1>5. ASSUME NEW h \in 0..MaxId, ConnectAt(h)
      PROVE  IInv'
  BY <1>1, <1>5, <1>0 DEF ConnectAt, client, TypeOK
<1>6. CASE OpenAtTail
  <2>1. PICK latest \in visible \cup {0} :
           /\ \A e \in visible : e <= latest
           /\ stream' = Opened(latest, <<>>)
           /\ start' = latest /\ received' = <<>>
    BY <1>6 DEF OpenAtTail
  <2>2. latest \in 0..MaxId /\ Last' = latest /\ received' \in Seq(EventId)
    BY <2>1, <1>0, MaxIdAssumption DEF TypeOK, EventId, Last
  <2>3. stream.status = "opening" /\ UNCHANGED <<log, access, revokedFor>>
    BY <1>6, <1>0 DEF OpenAtTail, Sound, Shaped, StreamState
  <2> QED BY <1>2, <2>1, <2>2, <2>3
<1>7. CASE Locate
  <2>1. /\ UNCHANGED <<next, writing, visible, overtaken, access, revokedFor>>
        /\ stream.step = "locating"
    BY <1>7 DEF Locate, log
  <2>2. stream.status = "opening" /\ revokedFor = 0 /\ stream.queue = <<>> /\ stream.pending = <<>>
    BY <2>1, <1>0 DEF Sound, Shaped, Aged, StreamState
  <2>3. CASE stream.cursor \in visible \cup {0}
    <3>1. stream' = [stream EXCEPT !.step = "replaying"]
      BY <1>7, <2>3, Zenon DEF Locate
    <3>2. /\ stream' \in StreamState /\ stream'.status = "opening"
          /\ stream'.step = "replaying" /\ stream'.cursor = stream.cursor
          /\ stream'.queue = <<>> /\ stream'.pending = <<>>
      BY <3>1, <2>2, <1>0 DEF TypeOK, StreamState
    <3>3. /\ start' \in 0..MaxId /\ received' \in Seq(EventId) /\ Last' = stream.cursor
      <4>1. CASE stream.cursor = Last
        BY <1>7, <2>3, <4>1, <1>0 DEF Locate, client, Last, TypeOK
      <4>2. CASE stream.cursor # Last
        <5>1. start' = stream.cursor /\ received' = <<>>
          BY <1>7, <2>3, <4>2 DEF Locate
        <5>2. stream.cursor \in 0..MaxId
          BY <1>0 DEF TypeOK, StreamState
        <5> QED BY <5>1, <5>2 DEF Last
      <4> QED BY <4>1, <4>2
    <3>4. TypeOK'
      BY <1>0, <2>1, <3>2, <3>3 DEF TypeOK
    <3>5. stream.cursor \in 0..MaxId
      BY <1>0 DEF TypeOK, StreamState
    <3>6. Sound(stream', stream.cursor, visible, visible \ overtaken, 0)
      BY <3>2, <3>5, EmptySound
    <3> QED BY <2>1, <2>2, <3>3, <3>4, <3>6 DEF IInv, Drawn
  <2>4. CASE stream.cursor \notin visible \cup {0}
    <3>1. stream' = Closed /\ UNCHANGED client
      BY <1>7, <2>4, Zenon DEF Locate
    <3>2. Sound(stream', Last, visible, visible \ overtaken, revokedFor)
      BY <3>1, <1>0, ClosedFacts, EmptySound
    <3>3. UNCHANGED <<log, access, client, revokedFor>>
      BY <1>7, <3>1 DEF Locate
    <3> QED BY <1>0, <3>2, <3>3, StreamStep DEF IInv
  <2> QED BY <2>3, <2>4
<1>8. CASE Replay
  <2>1. /\ UNCHANGED <<log, access, revokedFor, client>> /\ stream.step = "replaying"
    BY <1>8 DEF Replay
  <2>2. stream.status = "opening" /\ stream.cursor = Last /\ Last' = Last
    BY <2>1, <1>0 DEF Sound, Shaped, Ordered, StreamState, client, Last
  <2>3. CASE TooMany(stream.cursor)
    <3>1. stream' = Closed
      BY <1>8, <2>3, Zenon DEF Replay
    <3>2. Sound(stream', Last, visible, visible \ overtaken, revokedFor)
      BY <3>1, <1>0, ClosedFacts, EmptySound
    <3> QED BY <1>0, <2>1, <3>2, StreamStep DEF IInv
  <2>4. CASE ~TooMany(stream.cursor)
    <3>1. PICK rows \in Rows(stream.cursor) : stream' = Opened(stream.cursor, rows)
      BY <1>8, <2>4, Zenon DEF Replay
    <3>2. start' \in 0..MaxId /\ received' \in Seq(EventId)
      BY <2>1, <1>0 DEF client, TypeOK
    <3> QED BY <1>0, <1>2, <2>1, <2>2, <2>4, <3>1, <3>2
  <2> QED BY <2>3, <2>4
<1> QED BY <1>3, <1>4, <1>5, <1>6, <1>7, <1>8

(* The clock and the step of an open stream may move alone.                *)
LEMMA Restamped ==
    ASSUME NEW s, NEW t \in StreamState, NEW last, NEW rows, NEW inOrder, NEW n, NEW m \in Nat,
           Sound(s, last, rows, inOrder, n), s.status = "open", t.status = "open",
           t.queue = s.queue, t.pending = s.pending, t.cursor = s.cursor,
           t.step \in {"waiting", "authorizing"}, m <= t.age,
           t.step = "waiting" => t.age < ReauthPolls
    PROVE  Sound(t, last, rows, inOrder, m)
<1>1. Shaped(t)
  BY DEF Shaped, Sound
<1>2. Kept(t) /\ Aged(t, m)
  BY DEF Kept, Aged, Sound
<1>3. Ordered(t, last, rows)
  BY DEF Ordered, Sound, Carries
<1>4. Covered(t, last, inOrder)
  BY DEF Covered, Sound, Carries
<1> QED BY <1>1, <1>2, <1>3, <1>4 DEF Sound

(* The open stream's timer and its awaited answers.                        *)
LEMMA ServerStep ==
    ASSUME IInv, Fire \/ Authorize \/ ReadLog \/ Throws \/ Break
    PROVE  IInv'
<1>0. /\ Last \in 0..MaxId /\ TypeOK /\ revokedFor \in Nat /\ stream \in StreamState
      /\ visible \subseteq EventId /\ overtaken \subseteq visible
      /\ visible \ overtaken \subseteq visible
      /\ Sound(stream, Last, visible, visible \ overtaken, revokedFor)
  BY LastType DEF IInv, TypeOK
<1>1. stream.step \in {"waiting", "authorizing", "reading"} => stream.status = "open"
  BY <1>0 DEF Sound, Shaped, StreamState
<1>2. CASE Fire
  <2>1. /\ stream.step = "waiting" /\ stream.status = "open" /\ stream.age < ReauthPolls
        /\ revokedFor <= stream.age /\ stream.age + 1 \in 0..ReauthPolls
    BY <1>0, <1>1, <1>2, ConfigAssumption DEF Fire, Sound, Aged, StreamState
  <2>2. revokedFor' = IF access THEN 0 ELSE revokedFor + 1
    BY <1>2 DEF Fire
  <2>3. /\ revokedFor' \in Nat /\ revokedFor' <= stream.age + 1
        /\ access => revokedFor' = 0
    BY <2>1, <2>2, <1>0 DEF StreamState
  <2>4. UNCHANGED <<log, access, client>>
    BY <1>2 DEF Fire
  <2>5. PICK due \in BOOLEAN :
           /\ stream.age + 1 >= ReauthPolls => due
           /\ stream' = IF due THEN [stream EXCEPT !.step = "authorizing", !.age = @ + 1]
                        ELSE Polled([stream EXCEPT !.age = @ + 1])
    BY <1>2, Zenon DEF Fire
  <2>6. CASE due
    <3>1. /\ stream' \in StreamState /\ stream'.status = "open" /\ stream'.step = "authorizing"
          /\ stream'.queue = stream.queue /\ stream'.pending = stream.pending
          /\ stream'.cursor = stream.cursor /\ stream'.age = stream.age + 1
      BY <2>1, <2>5, <2>6, <1>0 DEF StreamState
    <3>2. Sound(stream', Last, visible, visible \ overtaken, revokedFor')
      BY <1>0, <2>1, <2>3, <3>1, Restamped
    <3> QED BY <2>3, <2>4, <3>2, StreamStep
  <2>7. CASE ~due
    <3> DEFINE t == [stream EXCEPT !.age = @ + 1]
    <3>1. /\ t \in StreamState /\ t.status = "open" /\ t.step = "waiting"
          /\ t.queue = stream.queue /\ t.pending = stream.pending
          /\ t.cursor = stream.cursor /\ t.age = stream.age + 1
      BY <2>1, <1>0 DEF StreamState
    <3>2. stream' = Polled(t)
      BY <2>5, <2>7, Zenon
    <3>3. t.age < ReauthPolls
      BY <2>1, <2>5, <2>7, <3>1, ConfigAssumption DEF StreamState
    <3> HIDE DEF t
    <3>4. Sound(t, Last, visible, visible \ overtaken, revokedFor')
      BY <1>0, <2>1, <2>3, <3>1, <3>3, Restamped
    <3>5. Sound(stream', Last, visible, visible \ overtaken, revokedFor')
      BY <1>0, <2>3, <3>1, <3>2, <3>3, <3>4, PolledSound
    <3> QED BY <2>3, <2>4, <3>5, StreamStep
  <2> QED BY <2>6, <2>7
<1>3. CASE Authorize
  <2>1. stream.step = "authorizing" /\ stream.status = "open" /\ UNCHANGED <<log, access, revokedFor, client>>
    BY <1>1, <1>3 DEF Authorize
  <2>2. CASE access
    <3> DEFINE t == [stream EXCEPT !.age = 0]
    <3>1. 0 \in 0..ReauthPolls /\ 0 < ReauthPolls /\ revokedFor = 0
      BY <2>2, ConfigAssumption DEF IInv
    <3>2. /\ t \in StreamState /\ t.status = "open" /\ t.step = "authorizing"
          /\ t.queue = stream.queue /\ t.pending = stream.pending
          /\ t.cursor = stream.cursor /\ t.age = 0
      BY <2>1, <3>1, <1>0 DEF StreamState
    <3>3. stream' = Polled(t)
      BY <1>3, <2>2, Zenon DEF Authorize
    <3> HIDE DEF t
    <3>4. Sound(t, Last, visible, visible \ overtaken, revokedFor)
      BY <1>0, <2>1, <3>1, <3>2, Restamped
    <3>5. Sound(stream', Last, visible, visible \ overtaken, revokedFor')
      BY <1>0, <2>1, <3>1, <3>2, <3>3, <3>4, PolledSound
    <3> QED BY <1>0, <2>1, <3>1, <3>5, StreamStep
  <2>3. CASE ~access
    <3>1. stream' = Failed(stream)
      BY <1>3, <2>3 DEF Authorize
    <3>2. Sound(stream', Last, visible, visible \ overtaken, revokedFor')
      BY <1>0, <2>1, <3>1, FailedSound
    <3> QED BY <1>0, <2>1, <2>3, <3>2, StreamStep
  <2> QED BY <2>2, <2>3
<1>4. CASE ReadLog
  <2>1. /\ stream.step = "reading" /\ stream.status = "open" /\ UNCHANGED <<log, access, revokedFor, client>>
        /\ stream.pending = <<>> /\ stream.queue = <<>>
    BY <1>0, <1>1, <1>4 DEF ReadLog, Sound, Shaped
  <2>2. /\ stream.cursor = Last /\ stream.cursor \in 0..MaxId
        /\ revokedFor <= stream.age /\ stream.age < ReauthPolls
    BY <1>0, <2>1 DEF Sound, Ordered, Carries, Aged, StreamState
  <2>3. access => revokedFor' = 0
    BY <2>1 DEF IInv
  <2>4. CASE TooMany(stream.cursor)
    <3>1. stream' = Failed(stream)
      BY <1>4, <2>4, Zenon DEF ReadLog
    <3>2. Sound(stream', Last, visible, visible \ overtaken, revokedFor')
      BY <1>0, <2>1, <3>1, FailedSound
    <3> QED BY <1>0, <2>1, <2>3, <3>2, StreamStep
  <2>5. CASE ~TooMany(stream.cursor)
    <3>1. PICK rows \in Rows(stream.cursor) :
             LET s == [stream EXCEPT !.step = "waiting", !.pending = @ \o rows]
             IN  \/ stream' = Drained(s)
                 \/ /\ s.pending = <<>>
                    /\ stream' = [s EXCEPT !.queue = Append(@, Frame)]
      BY <1>4, <2>5, Zenon DEF ReadLog
    <3> DEFINE s == [stream EXCEPT !.step = "waiting", !.pending = @ \o rows]
    <3>2. rows \in Seq(EventId)
      BY <1>0, <2>2, RowsFacts
    <3>3. stream.pending \o rows = rows
      BY <2>1, <3>2
    <3>4. /\ s \in StreamState /\ s.status = "open" /\ s.step = "waiting"
          /\ s.pending = rows /\ s.queue = <<>> /\ s.cursor = Last /\ s.age = stream.age
      BY <1>0, <2>1, <2>2, <3>2, <3>3 DEF StreamState
    <3>5. stream' = Drained(s) \/ (s.pending = <<>> /\ stream' = [s EXCEPT !.queue = Append(@, Frame)])
      BY <3>1
    <3> HIDE DEF s
    <3>6. rows \in Rows(s.cursor) /\ ~TooMany(s.cursor) /\ revokedFor <= s.age
          /\ s.age < ReauthPolls
      BY <2>2, <2>5, <3>4
    <3>7. CASE stream' = Drained(s)
      <4>1. Sound(s, Last, visible, visible \ overtaken, revokedFor)
        BY <1>0, <3>4, <3>6, ReadSound
      <4>2. Sound(stream', Last, visible, visible \ overtaken, revokedFor')
        BY <1>0, <2>1, <3>7, <4>1, DrainedSound
      <4> QED BY <1>0, <2>1, <2>3, <4>2, StreamStep
    <3>8. CASE s.pending = <<>> /\ stream' = [s EXCEPT !.queue = Append(@, Frame)]
      <4>1. Append(<<>>, Frame) = <<Frame>> /\ <<Frame>> \in Seq(EventId \cup {Frame})
        OBVIOUS
      <4>2. stream' = [s EXCEPT !.queue = <<Frame>>]
        BY <3>4, <3>8, <4>1, Zenon
      <4>3. ASSUME NEW q \in Seq(EventId \cup {Frame}), stream' = [s EXCEPT !.queue = q]
            PROVE  /\ stream' \in StreamState /\ stream'.status = "open"
                   /\ stream'.step = "waiting" /\ stream'.pending = rows
                   /\ stream'.queue = q /\ stream'.cursor = s.cursor
                   /\ stream'.age = s.age
        BY <3>4, <4>3 DEF StreamState
      <4>4. /\ stream' \in StreamState /\ stream'.status = "open"
            /\ stream'.step = "waiting" /\ stream'.pending = rows
            /\ stream'.queue = <<Frame>> /\ stream'.cursor = s.cursor
            /\ stream'.age = s.age
        BY <4>1, <4>2, <4>3
      <4>5. /\ rows \in Rows(stream'.cursor) /\ ~TooMany(stream'.cursor)
            /\ revokedFor <= stream'.age /\ stream'.age < ReauthPolls
            /\ stream'.cursor = Last /\ stream'.queue \in {<<>>, <<Frame>>}
        BY <3>4, <3>6, <4>4
      <4>6. Sound(stream', Last, visible, visible \ overtaken, revokedFor')
        BY <1>0, <2>1, <4>4, <4>5, ReadSound
      <4> QED BY <1>0, <2>1, <2>3, <4>6, StreamStep
    <3> QED BY <3>5, <3>7, <3>8
  <2> QED BY <2>4, <2>5
<1>5. ASSUME stream' = Closed, UNCHANGED <<log, access, revokedFor, client>>
      PROVE  IInv'
  <2>1. Sound(stream', Last, visible, visible \ overtaken, revokedFor')
    BY <1>0, <1>5, ClosedFacts, EmptySound
  <2> QED BY <1>0, <1>5, <2>1, StreamStep DEF IInv
<1>6. CASE Throws
  <2>1. UNCHANGED <<log, access, revokedFor, client>>
    BY <1>6 DEF Throws
  <2>2. CASE stream.step \in {"authorizing", "reading"} /\ stream' = Failed(stream)
    <3>1. Sound(stream', Last, visible, visible \ overtaken, revokedFor')
      BY <1>0, <1>1, <2>1, <2>2, FailedSound
    <3> QED BY <1>0, <2>1, <3>1, StreamStep DEF IInv
  <2> QED BY <1>5, <1>6, <2>1, <2>2 DEF Throws
<1>7. CASE Break
  BY <1>5, <1>7 DEF Break
<1> QED BY <1>2, <1>3, <1>4, <1>6, <1>7

(* The client takes a chunk: an event becomes the last received.           *)
LEMMA ReadStep ==
    ASSUME IInv, Read
    PROVE  IInv'
<1> DEFINE h == Head(stream.queue)
           s == [stream EXCEPT !.queue = Tail(@)]
<1>0. /\ Last \in 0..MaxId /\ TypeOK /\ revokedFor \in Nat /\ stream \in StreamState
      /\ visible \subseteq EventId /\ overtaken \subseteq visible
      /\ visible \ overtaken \subseteq visible
      /\ Shaped(stream) /\ Kept(stream) /\ Aged(stream, revokedFor)
      /\ Ordered(stream, Last, visible) /\ Covered(stream, Last, visible \ overtaken)
  BY LastType DEF IInv, TypeOK, Sound
<1>1. /\ stream.queue # <<>> /\ UNCHANGED <<log, access, revokedFor, start>>
      /\ received' = IF h = Frame THEN received ELSE Append(received, h)
      /\ stream' = IF s.status = "closing" /\ s.queue = <<>> THEN Closed ELSE Drained(s)
  BY DEF Read
<1>2. /\ stream.queue \in Seq(EventId \cup {Frame}) /\ h = stream.queue[1]
      /\ h \in EventId \cup {Frame} /\ 1 \in DOMAIN stream.queue
      /\ Tail(stream.queue) \in Seq(EventId \cup {Frame})
      /\ Len(stream.queue) \in Nat /\ Len(Tail(stream.queue)) = Len(stream.queue) - 1
      /\ \A i \in 1..Len(Tail(stream.queue)) : Tail(stream.queue)[i] = stream.queue[i + 1]
                                               /\ i + 1 \in DOMAIN stream.queue
      /\ DOMAIN Tail(stream.queue) = 1..Len(Tail(stream.queue))
  BY <1>0, <1>1 DEF StreamState
<1>3. /\ s \in StreamState /\ s.status = stream.status /\ s.step = stream.step
      /\ s.queue = Tail(stream.queue) /\ s.pending = stream.pending
      /\ s.cursor = stream.cursor /\ s.age = stream.age
  BY <1>0, <1>2 DEF StreamState
<1>4. received \in Seq(EventId) /\ start \in 0..MaxId
  BY <1>0 DEF TypeOK
<1> HIDE DEF h, s
<1>5. /\ received' \in Seq(EventId)
      /\ Last' = IF Carries(stream) THEN h ELSE Last
  <2>1. Carries(stream) <=> h # Frame
    BY <1>1, <1>2 DEF Carries
  <2>2. CASE h = Frame
    BY <1>1, <1>4, <2>1, <2>2 DEF Last
  <2>3. CASE h # Frame
    <3>1. h \in EventId /\ received' = Append(received, h)
      BY <1>1, <1>2, <2>3
    <3>2. /\ received' \in Seq(EventId) /\ received' # <<>>
          /\ received'[Len(received')] = h
      BY <3>1, <1>4
    <3> QED BY <2>1, <2>3, <3>2 DEF Last
  <2> QED BY <2>2, <2>3
<1>6. Last' \in 0..MaxId
  BY <1>0, <1>2, <1>5, <1>1, MaxIdAssumption DEF EventId, Carries
<1>7. \A i \in DOMAIN s.queue : s.queue[i] = Frame
  <2> SUFFICES ASSUME NEW i \in DOMAIN s.queue
               PROVE  s.queue[i] = Frame
    OBVIOUS
  <2>1. /\ i \in 1..Len(Tail(stream.queue)) /\ s.queue[i] = stream.queue[i + 1]
        /\ i + 1 \in DOMAIN stream.queue /\ i + 1 # 1
    BY <1>2, <1>3
  <2> QED BY <1>0, <2>1 DEF Shaped
<1>8. ~Carries(s)
  <2>1. s.queue # <<>> => 1 \in DOMAIN s.queue
    BY <1>2, <1>3
  <2> QED BY <1>7, <2>1 DEF Carries
<1>9. Sound(s, Last', visible, visible \ overtaken, revokedFor)
  <2>1. Shaped(s)
    <3>1. stream.status \notin {"closed", "opening"} /\ stream.step # "reading"
      BY <1>0, <1>1 DEF Shaped
    <3> QED BY <1>0, <1>3, <1>7, <3>1 DEF Shaped
  <2>2. Kept(s)
    <3>1. Len(s.queue) = Len(stream.queue) - 1
      BY <1>2, <1>3
    <3> QED BY <1>0, <1>2, <1>3, <3>1 DEF Kept, HighWater
  <2>3. Ordered(s, Last', visible)
    <3>1. s.status = "open" => s.cursor = Last'
      BY <1>0, <1>2, <1>3, <1>5 DEF Ordered
    <3>2. s.step # "replaying"
      BY <1>0, <1>1, <1>3 DEF Shaped, StreamState
    <3> QED BY <1>0, <1>3, <1>8, <3>1, <3>2 DEF Ordered
  <2>4. Covered(s, Last', visible \ overtaken)
    BY <1>0, <1>3, <1>8 DEF Covered
  <2>5. Aged(s, revokedFor)
    BY <1>0, <1>3 DEF Aged
  <2> QED BY <1>3, <2>1, <2>2, <2>3, <2>4, <2>5 DEF Sound
<1>10. Sound(stream', Last', visible, visible \ overtaken, revokedFor)
  <2>1. Sound(Closed, Last', visible, visible \ overtaken, revokedFor)
    BY <1>0, <1>6, ClosedFacts, EmptySound
  <2>2. Sound(Drained(s), Last', visible, visible \ overtaken, revokedFor)
    BY <1>0, <1>6, <1>9, DrainedSound
  <2> QED BY <1>1, <2>1, <2>2
<1>11. TypeOK'
  <2>1. stream' \in StreamState
    BY <1>10 DEF Sound
  <2> QED BY <1>0, <1>1, <1>5, <2>1 DEF TypeOK, log
<1> QED BY <1>1, <1>10, <1>11 DEF IInv, log, Drawn

(* The invariant holds at the start and every step keeps it.               *)
THEOREM StreamInductive == Spec => []IInv
<1>1. Init => IInv
  <2> SUFFICES ASSUME Init PROVE IInv
    OBVIOUS
  <2>1. TypeOK
    BY ClosedFacts, MaxIdAssumption DEF Init, TypeOK
  <2>2. Last = 0 /\ 0 \in 0..MaxId /\ revokedFor = 0 /\ stream = Closed /\ 0 \in Nat
    BY MaxIdAssumption DEF Init, Last
  <2>3. Sound(stream, Last, visible, visible \ overtaken, revokedFor)
    BY <2>2, ClosedFacts, EmptySound
  <2>4. Drawn
    BY DEF Init, Drawn
  <2> QED BY <2>1, <2>2, <2>3, <2>4 DEF IInv
<1>2. IInv /\ [Next]_vars => IInv'
  <2> SUFFICES ASSUME IInv, [Next]_vars PROVE IInv'
    OBVIOUS
  <2>1. CASE Withdraw
    <3>1. /\ UNCHANGED <<next, writing, visible, overtaken, revokedFor, stream, start, received>>
          /\ Last' = Last /\ access' = FALSE
      BY <2>1 DEF Withdraw, log, client, Last
    <3> QED BY <3>1 DEF IInv, TypeOK, Drawn
  <2>2. CASE Restore
    <3>1. /\ UNCHANGED <<next, writing, visible, overtaken, stream, start, received>>
          /\ Last' = Last /\ access' = TRUE /\ revokedFor' = 0
      BY <2>2 DEF Restore, log, client, Last
    <3>2. TypeOK'
      BY <3>1 DEF IInv, TypeOK
    <3>3. Aged(stream, 0)
      BY DEF IInv, Sound, Aged, StreamState
    <3>4. Sound(stream, Last, visible, visible \ overtaken, 0)
      BY <3>3 DEF IInv, Sound
    <3> QED BY <3>1, <3>2, <3>4 DEF IInv, Drawn
  <2>3. CASE UNCHANGED vars
    BY <2>3 DEF vars, log, client, IInv, TypeOK, Drawn, Last
  <2> QED BY <2>1, <2>2, <2>3, LogStep, RouteStep, ServerStep, ReadStep DEF Next
<1> QED BY <1>1, <1>2, PTL DEF Spec

(* However many ids, writers and polls: every variable keeps its type.     *)
THEOREM StreamTypeCorrect == Spec => []TypeOK
<1>1. IInv => TypeOK
  BY DEF IInv
<1> QED BY <1>1, StreamInductive, PTL

(* A stream never stays open longer than one authorization interval after  *)
(* its client's access ended.                                              *)
THEOREM CutOffHolds == Spec => []CutOff
<1>1. IInv => CutOff
  <2> SUFFICES ASSUME IInv, stream.status = "open"
               PROVE  revokedFor <= ReauthPolls
    BY DEF CutOff
  <2>1. /\ revokedFor <= stream.age /\ stream.age \in 0..ReauthPolls /\ revokedFor \in Nat
    BY DEF IInv, TypeOK, Sound, Aged, StreamState
  <2> QED BY <2>1, ConfigAssumption
<1> QED BY <1>1, StreamInductive, PTL

(* A client cannot make the server hold more than a replay window.         *)
THEOREM BoundedMemoryHolds == Spec => []BoundedMemory
<1>1. IInv => BoundedMemory
  BY DEF IInv, Sound, Kept, BoundedMemory
<1> QED BY <1>1, StreamInductive, PTL

(* The stream implements the feed the docs promise: each step publishes,   *)
(* delivers the next event, restarts or resumes the reader, or shows       *)
(* nothing.                                                                *)
THEOREM ImplementsFeed == Spec => FeedSpec
<1>1. Init => Feed!Init
  BY DEF Init, Feed!Init
<1>2. IInv /\ [Next]_vars => [Feed!Next]_Feed!vars
  <2> SUFFICES ASSUME IInv, [Next]_vars
               PROVE  Feed!Next \/ UNCHANGED <<visible, overtaken, start, received>>
    BY DEF Feed!vars
  <2>0. /\ visible \subseteq EventId /\ overtaken \subseteq visible
        /\ received \in Seq(EventId) /\ start \in 0..MaxId
        /\ Sound(stream, Last, visible, visible \ overtaken, revokedFor)
    BY DEF IInv, TypeOK
  <2>1. ASSUME NEW w \in Writer, Commit(w)
        PROVE  Feed!Next
    <3>1. writing[w] \in EventId /\ writing[w] \notin visible
      BY <2>1 DEF Commit, IInv, TypeOK, Drawn, EventId
    <3>2. Feed!Publish(writing[w])
      BY <2>1, <3>1 DEF Commit, client, Feed!Publish
    <3> QED BY <3>1, <3>2 DEF Feed!Next
  <2>2. ASSUME NEW i \in 0..Len(received), ConnectAfter(i)
        PROVE  Feed!Next
    <3>1. Feed!Resume(i)
      BY <2>2 DEF ConnectAfter, Opening, log, Feed!Resume
    <3> QED BY <3>1 DEF Feed!Next
  <2>3. CASE OpenAtTail
    <3>1. PICK e \in visible \cup {0} : start' = e /\ received' = <<>>
      BY <2>3, Zenon DEF OpenAtTail
    <3>2. Feed!StartAt(e)
      BY <2>3, <3>1 DEF OpenAtTail, log, Feed!StartAt
    <3> QED BY <3>2 DEF Feed!Next
  <2>4. CASE Locate
    <3>1. UNCHANGED <<visible, overtaken>>
      BY <2>4 DEF Locate, log
    <3>2. CASE UNCHANGED client
      BY <3>1, <3>2 DEF client
    <3>3. CASE ~(UNCHANGED client)
      <4>1. /\ stream.cursor \in visible \cup {0}
            /\ start' = stream.cursor /\ received' = <<>>
        BY <2>4, <3>3, Zenon DEF Locate
      <4>2. Feed!StartAt(stream.cursor)
        BY <3>1, <4>1 DEF Feed!StartAt
      <4> QED BY <4>1, <4>2 DEF Feed!Next
    <3> QED BY <3>2, <3>3
  <2>5. CASE Read
    <3> DEFINE h == Head(stream.queue)
    <3>1. /\ UNCHANGED <<visible, overtaken, start>> /\ stream.queue # <<>>
          /\ received' = IF h = Frame THEN received ELSE Append(received, h)
      BY <2>5 DEF Read, log
    <3>2. CASE h = Frame
      BY <3>1, <3>2
    <3>3. CASE h # Frame
      <4>1. h = stream.queue[1]
        BY <3>1, <2>0 DEF Sound, StreamState
      <4>2. Carries(stream)
        BY <3>1, <3>3, <4>1 DEF Carries
      <4>3. h \in visible /\ Last < h
        BY <2>0, <4>1, <4>2 DEF Sound, Ordered
      <4>4. \A x \in visible \ overtaken : ~(Last < x /\ x < h)
        BY <2>0, <4>1, <4>2 DEF Sound, Covered
      <4>5. Feed!Last = Last
        BY DEF Feed!Last, Last
      <4>6. Last \in 0..MaxId /\ h \in EventId
        BY <2>0, <4>3, LastType DEF IInv
      <4>7. h > Last
        BY <4>3, <4>6 DEF EventId
      <4> HIDE DEF h
      <4>8. Feed!Deliver(h)
        BY <3>1, <3>3, <4>3, <4>4, <4>5, <4>7 DEF Feed!Deliver
      <4> QED BY <4>3, <4>8 DEF Feed!Next
    <3> QED BY <3>2, <3>3
  <2>6. ASSUME \/ \E w \in Writer : Insert(w) \/ Rollback(w)
               \/ Withdraw \/ Restore \/ ConnectTail
               \/ \E h \in 0..MaxId : ConnectAt(h)
               \/ Replay \/ Fire \/ Authorize \/ ReadLog \/ Throws \/ Break
               \/ UNCHANGED vars
        PROVE  UNCHANGED <<visible, overtaken, start, received>>
    BY <2>6 DEF Insert, Rollback, Withdraw, Restore, ConnectTail, ConnectAt, Opening, Replay,
                Fire, Authorize, ReadLog, Throws, Break, log, client, vars
  <2> QED BY <2>1, <2>2, <2>3, <2>4, <2>5, <2>6 DEF Next
<1> QED BY <1>1, <1>2, StreamInductive, PTL DEF Spec, FeedSpec, Feed!Spec

-----------------------------------------------------------------------------
(* Progress: what Served says without the fairness it assumes.             *)

\* What an open stream may still spend before its cursor moves or it ends.
Patience(s) ==
    IF s.step = "reading" THEN 0
    ELSE IF s.queue = <<>> THEN IF s.step = "authorizing" THEN 1 ELSE 2
    ELSE 2 * (MaxBackpressure - s.stalled) + IF s.step = "authorizing" THEN 0 ELSE 1

Closer(t, s) ==
    \/ t.cursor > s.cursor
    \/ t.cursor = s.cursor /\ Patience(t) < Patience(s)

\* An event to come is received, or the stream ends, or the event stays ahead
\* and the step, if the stream moves at all, brings it closer.
Approaches ==
    \A e \in visible \ overtaken :
        stream.status = "open" /\ e > Last =>
            \/ stream'.status # "open"
            \/ \E i \in DOMAIN received' : received'[i] = e
            \/ /\ e > Last'
               /\ stream' = stream \/ Closer(stream', stream)
               /\ Server \/ Read => Closer(stream', stream)

(* Patience counts down to zero.                                           *)
LEMMA PatienceType ==
    ASSUME NEW s \in StreamState
    PROVE  Patience(s) \in Nat
<1>1. s.stalled \in Int /\ 1 <= MaxBackpressure - s.stalled /\ MaxBackpressure \in Nat
  BY ConfigAssumption DEF StreamState
<1> QED BY <1>1 DEF Patience

(* A drain moves the cursor, or finds nothing to move or no room.          *)
LEMMA DrainedCloser ==
    ASSUME NEW s \in StreamState, \A i \in DOMAIN s.pending : s.cursor < s.pending[i]
    PROVE  \/ Drained(s) = s /\ (s.status = "open" => s.pending = <<>> \/ Room(s) <= 0)
           \/ Drained(s).cursor > s.cursor
<1>2. CASE Drained(s) = s /\ (s.status = "open" => s.pending = <<>> \/ Room(s) <= 0)
  BY <1>2
<1>3. CASE ~(Drained(s) = s /\ (s.status = "open" => s.pending = <<>> \/ Room(s) <= 0))
  <2>1. PICK q \in Seq(EventId \cup {Frame}), p \in Seq(EventId) :
           /\ s.pending # <<>>
           /\ Drained(s) = [s EXCEPT !.queue = q, !.pending = p, !.cursor = s.pending[1]]
    BY <1>3, DrainedCases, Zenon
  <2>2. PICK d : d = Drained(s)
    OBVIOUS
  <2>3. d = [s EXCEPT !.queue = q, !.pending = p, !.cursor = s.pending[1]]
    BY <2>1, <2>2, Zenon
  <2>4. s.pending \in Seq(EventId)
    BY DEF StreamState
  <2>5. 1 \in DOMAIN s.pending
    BY <2>1, <2>4
  <2>6. s.cursor < s.pending[1] /\ s.pending[1] \in EventId /\ s.cursor \in Int
    BY <2>4, <2>5 DEF StreamState
  <2>7. d.cursor = s.pending[1]
    BY <2>3 DEF StreamState
  <2>8. d.cursor > s.cursor
    BY <2>6, <2>7 DEF EventId
  <2> QED BY <2>2, <2>8
<1> QED BY <1>2, <1>3

(* A poll ends the stream, moves its cursor, reads the log, or counts.     *)
LEMMA PolledCloser ==
    ASSUME NEW s, NEW last \in 0..MaxId, NEW rows, NEW inOrder, NEW n \in Nat,
           rows \subseteq EventId, Sound(s, last, rows, inOrder, n),
           s.status = "open", s.step \in {"waiting", "authorizing"}
    PROVE  Polled(s).status # "open" \/ Closer(Polled(s), s)
<1>1. s \in StreamState
  BY DEF Sound
<1>2. PICK d : d = Drained(s)
  OBVIOUS
<1>a. \A i \in DOMAIN s.pending : s.cursor < s.pending[i]
  BY DEF Sound, Ordered
<1>3. /\ d \in StreamState /\ d.status = "open" /\ d.stalled = s.stalled
      /\ \/ d = s /\ (s.pending = <<>> \/ Room(s) <= 0)
         \/ d.cursor > s.cursor
  BY <1>1, <1>2, <1>a, DrainedKeeps, DrainedCloser
<1>4. Polled(s) = IF d.pending # <<>> \/ Room(d) <= 0
                  THEN IF d.stalled + 1 >= MaxBackpressure
                       THEN Closing(d)
                       ELSE [d EXCEPT !.step = "waiting", !.stalled = @ + 1]
                  ELSE [d EXCEPT !.step = "reading", !.stalled = 0]
  BY <1>2 DEF Polled
<1>5. /\ s.queue \in Seq(EventId \cup {Frame}) /\ Len(s.queue) \in Nat
      /\ Room(s) \in Int /\ (Room(s) <= 0 <=> s.queue # <<>>)
  <2>1. s.queue \in Seq(EventId \cup {Frame}) /\ Len(s.queue) \in Nat
    BY <1>1 DEF StreamState
  <2> QED BY <2>1 DEF Room, HighWater
<1>6. CASE (d.pending # <<>> \/ Room(d) <= 0) /\ d.stalled + 1 >= MaxBackpressure
  <2>1. Closing(d).status = "closing"
    BY <1>3, ClosingKeeps
  <2> QED BY <1>4, <1>6, <2>1
<1>7. CASE (d.pending # <<>> \/ Room(d) <= 0) /\ ~(d.stalled + 1 >= MaxBackpressure)
  <2>1. PICK t : t = [d EXCEPT !.step = "waiting", !.stalled = @ + 1]
    OBVIOUS
  <2>2. Polled(s) = t
    BY <1>4, <1>7, <2>1
  <2>3. /\ t.cursor = d.cursor /\ t.queue = d.queue
        /\ t.step = "waiting" /\ t.stalled = d.stalled + 1
    BY <1>3, <2>1 DEF StreamState
  <2>4. CASE d.cursor > s.cursor
    BY <2>2, <2>3, <2>4 DEF Closer
  <2>5. CASE d = s /\ (s.pending = <<>> \/ Room(s) <= 0)
    <3>1. s.queue # <<>>
      BY <1>5, <1>7, <2>5
    <3>2. Patience(t) = 2 * (MaxBackpressure - (s.stalled + 1)) + 1
      BY <2>3, <2>5, <3>1 DEF Patience
    <3>3. Patience(s) \in {2 * (MaxBackpressure - s.stalled),
                           2 * (MaxBackpressure - s.stalled) + 1}
      <4>1. s.stalled \in Int /\ MaxBackpressure \in Int
        BY <1>1, ConfigAssumption DEF StreamState
      <4> QED BY <3>1, <4>1 DEF Patience
    <3>4. s.stalled \in Int /\ MaxBackpressure \in Int
      BY <1>1, ConfigAssumption DEF StreamState
    <3>5. Patience(t) < Patience(s)
      BY <3>2, <3>3, <3>4
    <3> QED BY <2>2, <2>3, <2>5, <3>5 DEF Closer
  <2> QED BY <1>3, <2>4, <2>5
<1>8. CASE ~(d.pending # <<>> \/ Room(d) <= 0)
  <2>1. PICK t : t = [d EXCEPT !.step = "reading", !.stalled = 0]
    OBVIOUS
  <2>2. Polled(s) = t
    BY <1>4, <1>8, <2>1
  <2>3. t.cursor = d.cursor /\ t.step = "reading"
    BY <1>3, <2>1 DEF StreamState
  <2>4. CASE d.cursor > s.cursor
    BY <2>2, <2>3, <2>4 DEF Closer
  <2>5. CASE d = s
    <3>1. s.queue = <<>>
      BY <1>5, <1>8, <2>5
    <3>2. Patience(t) = 0 /\ Patience(s) \in {1, 2}
      BY <2>3, <3>1 DEF Patience
    <3> QED BY <2>2, <2>3, <2>5, <3>2 DEF Closer
  <2> QED BY <1>3, <2>4, <2>5
<1> QED BY <1>6, <1>7, <1>8

(* A failed stream is not open any more.                                   *)
LEMMA FailedEnds ==
    ASSUME NEW s \in StreamState
    PROVE  Failed(s).status # "open"
<1>1. PICK d : d = Closing(s)
  OBVIOUS
<1>2. d \in StreamState /\ d.status = "closing"
  BY <1>1, ClosingKeeps
<1>3. Failed(s) = [d EXCEPT !.queue = Append(@, Frame)]
  BY <1>1 DEF Failed
<1>4. Failed(s).status = d.status
  BY <1>2, <1>3 DEF StreamState
<1> QED BY <1>2, <1>4

(* Patience and the cursor ignore the age.                                 *)
LEMMA CloserRestamped ==
    ASSUME NEW s, NEW u, NEW t,
           u.cursor = s.cursor, u.queue = s.queue, u.step = s.step, u.stalled = s.stalled,
           Closer(t, u)
    PROVE  Closer(t, s)
BY DEF Closer, Patience

(* A step of the server on an open stream with an event to come.           *)
LEMMA ServerCloser ==
    ASSUME IInv, Server, stream.status = "open",
           NEW e \in visible \ overtaken, e > Last
    PROVE  stream'.status # "open" \/ Closer(stream', stream)
<1>0. /\ Last \in 0..MaxId /\ revokedFor \in Nat /\ stream \in StreamState
      /\ visible \subseteq EventId /\ visible \ overtaken \subseteq visible
      /\ Sound(stream, Last, visible, visible \ overtaken, revokedFor)
  BY LastType DEF IInv, TypeOK
<1>1. CASE Fire
  <2>1. /\ stream.step = "waiting" /\ stream.age \in Nat /\ stream.age < ReauthPolls
        /\ ReauthPolls \in Nat /\ revokedFor <= stream.age
        /\ stream.age + 1 \in 0..ReauthPolls
    BY <1>0, <1>1, ConfigAssumption DEF Fire, Sound, Aged, StreamState
  <2>2. PICK t : t = [stream EXCEPT !.age = @ + 1]
    OBVIOUS
  <2>3. /\ t \in StreamState /\ t.status = "open" /\ t.step = "waiting"
        /\ t.cursor = stream.cursor /\ t.queue = stream.queue
        /\ t.pending = stream.pending /\ t.stalled = stream.stalled
        /\ t.age = stream.age + 1
    BY <1>0, <2>1, <2>2 DEF StreamState
  <2>4. PICK due \in BOOLEAN :
           /\ stream.age + 1 >= ReauthPolls => due
           /\ stream' = IF due THEN [stream EXCEPT !.step = "authorizing", !.age = @ + 1]
                        ELSE Polled([stream EXCEPT !.age = @ + 1])
    BY <1>1, Zenon DEF Fire
  <2>5. CASE due
    <3>1. /\ stream'.cursor = stream.cursor /\ stream'.queue = stream.queue
          /\ stream'.step = "authorizing" /\ stream'.stalled = stream.stalled
      BY <1>0, <2>4, <2>5 DEF StreamState
    <3>2. stream.stalled \in Int /\ MaxBackpressure \in Int
      BY <1>0, ConfigAssumption DEF StreamState
    <3>3. Patience(stream') < Patience(stream)
      BY <2>1, <3>1, <3>2 DEF Patience
    <3> QED BY <3>1, <3>3 DEF Closer
  <2>6. CASE ~due
    <3>1. stream' = Polled(t)
      BY <2>2, <2>4, <2>6, Zenon
    <3>2. revokedFor <= t.age /\ t.age < ReauthPolls
      BY <1>0, <2>1, <2>3, <2>4, <2>6
    <3>4. Sound(t, Last, visible, visible \ overtaken, revokedFor)
      BY <1>0, <2>3, <3>2, Restamped
    <3>3. stream'.status # "open" \/ Closer(stream', t)
      BY <1>0, <2>3, <3>1, <3>4, PolledCloser
    <3> QED BY <2>1, <2>3, <3>3, CloserRestamped
  <2> QED BY <2>5, <2>6
<1>2. CASE Authorize
  <2>1. stream.step = "authorizing"
    BY <1>2 DEF Authorize
  <2>2. CASE access
    <3>1. PICK t : t = [stream EXCEPT !.age = 0]
      OBVIOUS
    <3>2. stream' = Polled(t)
      BY <1>2, <2>2, <3>1, Zenon DEF Authorize
    <3>3. 0 \in 0..ReauthPolls /\ 0 < ReauthPolls /\ revokedFor = 0
      BY <2>2, ConfigAssumption DEF IInv
    <3>4. /\ t \in StreamState /\ t.status = "open" /\ t.step = "authorizing"
          /\ t.cursor = stream.cursor /\ t.queue = stream.queue
          /\ t.pending = stream.pending /\ t.stalled = stream.stalled
          /\ t.age = 0
      BY <1>0, <2>1, <3>1, <3>3 DEF StreamState
    <3>5. Sound(t, Last, visible, visible \ overtaken, revokedFor)
      BY <1>0, <3>3, <3>4, Restamped
    <3>6. stream'.status # "open" \/ Closer(stream', t)
      BY <1>0, <3>2, <3>4, <3>5, PolledCloser
    <3> QED BY <2>1, <3>4, <3>6, CloserRestamped
  <2>3. CASE ~access
    <3>1. stream' = Failed(stream)
      BY <1>2, <2>3 DEF Authorize
    <3> QED BY <1>0, <3>1, FailedEnds
  <2> QED BY <2>2, <2>3
<1>3. CASE ReadLog
  <2>1. /\ stream.step = "reading" /\ stream.pending = <<>> /\ stream.queue = <<>>
    BY <1>0, <1>3 DEF ReadLog, Sound, Shaped
  <2>2. stream.cursor = Last /\ stream.cursor \in 0..MaxId
        /\ revokedFor <= stream.age /\ stream.age < ReauthPolls
    BY <1>0, <2>1 DEF Sound, Ordered, Carries, Aged, StreamState
  <2>3. CASE TooMany(stream.cursor)
    <3>1. stream' = Failed(stream)
      BY <1>3, <2>3, Zenon DEF ReadLog
    <3> QED BY <1>0, <3>1, FailedEnds
  <2>4. CASE ~TooMany(stream.cursor)
    <3>1. PICK rows \in Rows(stream.cursor) :
             LET s == [stream EXCEPT !.step = "waiting", !.pending = @ \o rows]
             IN  \/ stream' = Drained(s)
                 \/ /\ s.pending = <<>>
                    /\ stream' = [s EXCEPT !.queue = Append(@, Frame)]
      BY <1>3, <2>4, Zenon DEF ReadLog
    <3>2. PICK s : s = [stream EXCEPT !.step = "waiting", !.pending = @ \o rows]
      OBVIOUS
    <3>3. \/ stream' = Drained(s)
          \/ s.pending = <<>> /\ stream' = [s EXCEPT !.queue = Append(@, Frame)]
      BY <3>1, <3>2
    <3>4. rows \in Seq(EventId) /\ \E i \in DOMAIN rows : rows[i] = e
      BY <1>0, <2>2, RowsFacts
    <3>5. rows # <<>> /\ stream.pending \o rows = rows
      BY <2>1, <3>4
    <3>6. /\ s \in StreamState /\ s.status = "open" /\ s.step = "waiting"
          /\ s.pending = rows /\ s.queue = <<>> /\ s.cursor = Last
          /\ s.age = stream.age
      BY <1>0, <2>1, <2>2, <3>2, <3>4, <3>5 DEF StreamState
    <3>7. rows \in Rows(s.cursor) /\ ~TooMany(s.cursor) /\ revokedFor <= s.age
          /\ s.age < ReauthPolls
      BY <2>2, <2>4, <3>6
    <3>8. Sound(s, Last, visible, visible \ overtaken, revokedFor)
      BY <1>0, <3>6, <3>7, ReadSound DEF IInv, TypeOK
    <3>9. Room(s) = 1
      BY <3>6 DEF Room, HighWater
    <3>10. Drained(s).cursor > s.cursor
      BY <3>5, <3>6, <3>8, <3>9, DrainedCloser DEF Sound, Ordered
    <3>11. stream'.cursor > stream.cursor
      BY <2>2, <3>3, <3>5, <3>6, <3>10
    <3> QED BY <3>11 DEF Closer
  <2> QED BY <2>3, <2>4
<1>4. CASE Throws
  <2>1. stream' = Failed(stream)
    BY <1>4 DEF Throws
  <2> QED BY <1>0, <2>1, FailedEnds
<1> QED BY <1>1, <1>2, <1>3, <1>4 DEF Server

(* The queue of an open stream holds one chunk at most.                    *)
LEMMA SingleChunk ==
    ASSUME NEW S, NEW q \in Seq(S), q # <<>>, Len(q) <= 1
    PROVE  /\ Len(q) = 1 /\ Head(q) = q[1] /\ q[1] \in S
           /\ Tail(q) = <<>> /\ Tail(q) \in Seq(S)
<1>1. Len(q) \in Nat /\ Len(q) # 0
  BY EmptySeq
<1>2. Len(q) = 1
  BY <1>1
<1>3. Tail(q) \in Seq(S) /\ Len(Tail(q)) = 0
  BY <1>2, HeadTailProperties
<1>4. Tail(q) = <<>>
  BY <1>3, EmptySeq
<1>5. Head(q) = q[1] /\ q[1] \in S
  BY <1>2
<1> QED BY <1>2, <1>3, <1>4, <1>5

(* A chunk that the client takes brings what is to come closer too.        *)
LEMMA ReadCloser ==
    ASSUME IInv, Read, stream.status = "open",
           NEW e \in visible \ overtaken, e > Last
    PROVE  \/ \E i \in DOMAIN received' : received'[i] = e
           \/ e > Last' /\ Closer(stream', stream)
<1>0. /\ Last \in 0..MaxId /\ stream \in StreamState /\ visible \subseteq EventId
      /\ received \in Seq(EventId) /\ start \in 0..MaxId
      /\ Sound(stream, Last, visible, visible \ overtaken, revokedFor)
  BY LastType DEF IInv, TypeOK
<1>1. PICK h, s : h = Head(stream.queue) /\ s = [stream EXCEPT !.queue = Tail(@)]
  OBVIOUS
<1>2. /\ stream.queue # <<>> /\ start' = start
      /\ received' = IF h = Frame THEN received ELSE Append(received, h)
      /\ stream' = IF s.status = "closing" /\ s.queue = <<>> THEN Closed ELSE Drained(s)
  BY <1>1 DEF Read
<1>3. /\ stream.queue \in Seq(EventId \cup {Frame}) /\ Len(stream.queue) = 1
      /\ Len(stream.queue) \in Nat
      /\ h = stream.queue[1] /\ h \in EventId \cup {Frame}
      /\ Tail(stream.queue) = <<>> /\ Tail(stream.queue) \in Seq(EventId \cup {Frame})
  <2>1. stream.queue \in Seq(EventId \cup {Frame}) /\ Len(stream.queue) \in Nat
    BY <1>0 DEF StreamState
  <2>2. PICK q : q = stream.queue
    OBVIOUS
  <2>3. q \in Seq(EventId \cup {Frame}) /\ q # <<>> /\ h = Head(q)
    BY <1>1, <1>2, <2>1, <2>2
  <2>4. Len(q) <= 1
    BY <1>0, <2>2 DEF Sound, Kept, HighWater
  <2>5. /\ Len(q) = 1 /\ h = q[1] /\ q[1] \in EventId \cup {Frame}
        /\ Tail(q) = <<>> /\ Tail(q) \in Seq(EventId \cup {Frame})
    BY <2>3, <2>4, SingleChunk
  <2> QED BY <2>1, <2>2, <2>5
<1>4. /\ s \in StreamState /\ s.status = "open" /\ s.step = stream.step
      /\ s.queue = <<>> /\ s.pending = stream.pending /\ s.cursor = stream.cursor
  BY <1>0, <1>1, <1>3 DEF StreamState
<1>5. stream' = Drained(s)
  BY <1>2, <1>4
<1>6. Closer(stream', stream)
  <2>1. \A i \in DOMAIN s.pending : s.cursor < s.pending[i]
    BY <1>0, <1>4 DEF Sound, Ordered
  <2>2. CASE stream'.cursor > s.cursor
    BY <1>4, <2>2 DEF Closer
  <2>3. CASE stream' = s
    <3>1. stream.stalled \in Int /\ MaxBackpressure \in Int
          /\ MaxBackpressure - stream.stalled >= 1
      BY <1>0, ConfigAssumption DEF StreamState
    <3>2. stream.step \in {"waiting", "authorizing"}
      BY <1>0, <1>2 DEF Sound, Shaped
    <3>3. Patience(s) = IF stream.step = "authorizing" THEN 1 ELSE 2
      BY <1>4, <3>2 DEF Patience
    <3>4. Patience(stream) = 2 * (MaxBackpressure - stream.stalled)
                             + IF stream.step = "authorizing" THEN 0 ELSE 1
      BY <1>2, <3>2 DEF Patience
    <3>5. Patience(s) < Patience(stream)
      BY <3>1, <3>2, <3>3, <3>4
    <3> QED BY <1>4, <2>3, <3>5 DEF Closer
  <2> QED BY <1>4, <1>5, <2>1, <2>2, <2>3, DrainedCloser
<1>7. CASE h = Frame
  <2>1. Last' = Last
    BY <1>2, <1>7 DEF Last
  <2> QED BY <1>6, <2>1
<1>8. CASE h # Frame
  <2>1. /\ h \in EventId /\ received' = Append(received, h)
        /\ Carries(stream) /\ h = stream.queue[1]
    BY <1>2, <1>3, <1>8 DEF Carries
  <2>2. /\ received' # <<>> /\ Len(received') \in DOMAIN received'
        /\ received'[Len(received')] = h
    BY <1>0, <2>1
  <2>3. Last' = h
    BY <2>2 DEF Last
  <2>4. ~(e < h)
    BY <1>0, <2>1 DEF Sound, Covered
  <2>5. e \in Int /\ h \in Int
    BY <1>0, <2>1 DEF EventId
  <2> QED BY <1>6, <2>2, <2>3, <2>4, <2>5
<1> QED BY <1>7, <1>8

(* Every step of the system, of an open stream and an event to come.       *)
LEMMA NextApproaches ==
    ASSUME IInv, [Next]_vars
    PROVE  Approaches
<1> SUFFICES ASSUME NEW e \in visible \ overtaken, stream.status = "open", e > Last
             PROVE  \/ stream'.status # "open"
                    \/ \E i \in DOMAIN received' : received'[i] = e
                    \/ /\ e > Last'
                       /\ stream' = stream \/ Closer(stream', stream)
                       /\ Server \/ Read => Closer(stream', stream)
  BY DEF Approaches
<1>1. stream \in StreamState /\ stream.step \in {"waiting", "authorizing", "reading"}
  BY DEF IInv, Sound, Shaped
<1>2. ASSUME Server
      PROVE  /\ UNCHANGED client
             /\ stream'.status # "open" \/ Closer(stream', stream)
  BY <1>2, ServerCloser DEF Server, Fire, Authorize, ReadLog, Throws
<1>3. CASE Server
  BY <1>2, <1>3 DEF client, Last
<1>4. CASE Read
  BY <1>4, ReadCloser
<1>5. CASE ~Server /\ ~Read
  <2>1. CASE UNCHANGED <<stream, client>>
    BY <1>5, <2>1 DEF client, Last
  <2>2. CASE stream'.status # "open"
    BY <2>2
  <2>3. ~ConnectTail /\ (\A i : ~ConnectAfter(i)) /\ (\A h : ~ConnectAt(h))
    BY DEF ConnectTail, ConnectAfter, ConnectAt, Opening
  <2>4. ~OpenAtTail /\ ~Locate /\ ~Replay
    BY <1>1 DEF OpenAtTail, Locate, Replay
  <2>5. ~Fire /\ ~Authorize /\ ~ReadLog /\ ~Throws /\ ~Read
    BY <1>5 DEF Server
  <2>6. ASSUME Break
        PROVE  stream'.status # "open"
    BY <2>6, ClosedFacts DEF Break
  <2>7. ASSUME NEW w \in Writer, Insert(w) \/ Commit(w) \/ Rollback(w)
        PROVE  UNCHANGED <<stream, client>>
    BY <2>7 DEF Insert, Commit, Rollback
  <2>8. ASSUME Withdraw \/ Restore
        PROVE  UNCHANGED <<stream, client>>
    BY <2>8 DEF Withdraw, Restore
  <2>9. UNCHANGED vars => UNCHANGED <<stream, client>>
    BY DEF vars
  <2> QED BY <2>1, <2>2, <2>3, <2>4, <2>5, <2>6, <2>7, <2>8, <2>9 DEF Next
<1> QED BY <1>3, <1>4, <1>5

(* However the client, the writers and the access behave: an event to come *)
(* of an open stream is delivered after finitely many steps of the server, *)
(* or the stream ends.  Each of them moves the cursor, which MaxId bounds, *)
(* or spends Patience, and no step of anyone else gives any back.          *)
THEOREM ServedStepHolds == Spec => [][Approaches]_vars
<1>1. IInv /\ [Next]_vars => [Approaches]_vars
  BY NextApproaches
<1> QED BY <1>1, StreamInductive, PTL DEF Spec
=============================================================================
