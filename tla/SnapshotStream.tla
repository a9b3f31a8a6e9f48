--------------------------- MODULE SnapshotStream ---------------------------
(***************************************************************************)
(* The snapshot event log and one client's server-sent event stream over   *)
(* it: persistCompletedCycle appends events under transactions of their    *)
(* own, GET /api/v1/events/snapshots prepares a cursor, and                *)
(* createSnapshotEventStream polls, drains under backpressure, asks for    *)
(* authorization again and closes.  Each query, each authorization and     *)
(* each turn of the event loop is a step, and commits, revocations, reads  *)
(* and broken connections may come between any two of them.                *)
(*                                                                         *)
(* Time is counted in polls: a timer fires once per poll interval, and a   *)
(* slow poll may make the next authorization due before its count.         *)
(***************************************************************************)
EXTENDS Integers, Sequences, FiniteSets

CONSTANTS
    Writer,             \* the transactions that may be appending at a time
    MaxId,              \* bound on the event ids
    ReplayLimit,        \* EVT_SSE_REPLAY_LIMIT
    ReauthPolls,        \* EVT_SSE_REAUTHORIZE_INTERVAL_MS, in polls
    MaxBackpressure     \* EVT_SSE_MAX_BACKPRESSURE_POLLS

ASSUME MaxIdAssumption == MaxId \in Nat
ASSUME ConfigAssumption ==
    /\ ReplayLimit \in Nat \ {0}
    /\ ReauthPolls \in Nat \ {0}
    /\ MaxBackpressure \in Nat \ {0}

EventId == 1..MaxId
Frame == 0          \* a chunk that carries no event: retry, heartbeat, error
HighWater == 1      \* a ReadableStream's queue when no strategy is given

VARIABLES
    next,           \* the sequence behind snapshot_events.id
    writing,        \* the id each open transaction has drawn, or 0
    visible,        \* the committed rows
    overtaken,      \* history: ids that committed after a larger one
    access,         \* would authorizePublicApiKey allow the client's key now
    revokedFor,     \* history: polls since it stopped to
    stream,         \* createSnapshotEventStream's variables and chunk queue
    start,          \* history: where the client's reading began
    received        \* the events it has received since

log == <<next, writing, visible, overtaken>>
client == <<start, received>>
vars == <<log, access, revokedFor, stream, client>>

StreamState == [status : {"closed", "opening", "open", "closing"},
                step : {"idle", "tail", "locating", "replaying",
                        "waiting", "authorizing", "reading"},
                cursor : 0..MaxId, pending : Seq(EventId),
                queue : Seq(EventId \cup {Frame}),
                age : 0..ReauthPolls, stalled : 0..MaxBackpressure - 1]

Closed == [status |-> "closed", step |-> "idle", cursor |-> 0, pending |-> <<>>,
           queue |-> <<>>, age |-> 0, stalled |-> 0]

Init ==
    /\ next = 1 /\ writing = [w \in Writer |-> 0]
    /\ visible = {} /\ overtaken = {}
    /\ access = TRUE /\ revokedFor = 0
    /\ stream = Closed
    /\ start = 0 /\ received = <<>>

-----------------------------------------------------------------------------
(* The log.  The id is drawn at the insert and shows at the commit.        *)

Insert(w) ==
    /\ writing[w] = 0 /\ next <= MaxId
    /\ writing' = [writing EXCEPT ![w] = next]
    /\ next' = next + 1
    /\ UNCHANGED <<visible, overtaken, access, revokedFor, stream, client>>

Commit(w) ==
    /\ writing[w] # 0
    /\ visible' = visible \cup {writing[w]}
    /\ overtaken' = IF \E x \in visible : x > writing[w]
                    THEN overtaken \cup {writing[w]} ELSE overtaken
    /\ writing' = [writing EXCEPT ![w] = 0]
    /\ UNCHANGED <<next, access, revokedFor, stream, client>>

\* A batch that fails later leaves a gap in the ids.
Rollback(w) ==
    /\ writing[w] # 0
    /\ writing' = [writing EXCEPT ![w] = 0]
    /\ UNCHANGED <<next, visible, overtaken, access, revokedFor, stream, client>>

-----------------------------------------------------------------------------
(* Access: a key, its scope, plan or quota stops or starts to allow it.    *)

Withdraw ==
    /\ access
    /\ access' = FALSE
    /\ UNCHANGED <<log, revokedFor, stream, client>>

Restore ==
    /\ ~access
    /\ access' = TRUE /\ revokedFor' = 0
    /\ UNCHANGED <<log, stream, client>>

-----------------------------------------------------------------------------
(* The stream's own operations, as functions of its variables.             *)

Room(s) == HighWater - Len(s.queue)

\* Mutant: drains without asking for room.
MutDrained(s) ==
    IF s.status = "open" /\ s.pending # <<>>
    THEN [s EXCEPT !.queue = @ \o s.pending, !.pending = <<>>,
                   !.cursor = s.pending[Len(s.pending)]]
    ELSE s

\* drainPendingEvents: what the queue has room for moves, and the cursor
\* with it.
Drained(s) ==
    IF s.status = "open" /\ s.pending # <<>> /\ Room(s) > 0
    THEN LET n == IF Len(s.pending) < Room(s) THEN Len(s.pending) ELSE Room(s)
         IN  [s EXCEPT !.queue = @ \o SubSeq(s.pending, 1, n),
                       !.pending = SubSeq(@, n + 1, Len(@)),
                       !.cursor = s.pending[n]]
    ELSE s

\* close(): the chunks already queued can still be read.
Closing(s) == [s EXCEPT !.status = "closing", !.step = "idle", !.pending = <<>>]

\* fail(): a terminal error event, whatever the backpressure, and the end.
Failed(s) == [Closing(s) EXCEPT !.queue = Append(@, Frame)]

\* Mutant: waits for the client without counting.
MutPolledUncounted(s) ==
    LET d == Drained(s)
    IN  IF d.pending # <<>> \/ Room(d) <= 0
        THEN [d EXCEPT !.step = "waiting"]
        ELSE [d EXCEPT !.step = "reading", !.stalled = 0]

\* poll, from its authorization on: drain, then give up, wait or read.
Polled(s) ==
    LET d == Drained(s)
    IN  IF d.pending # <<>> \/ Room(d) <= 0
        THEN IF d.stalled + 1 >= MaxBackpressure
             THEN Closing(d)
             ELSE [d EXCEPT !.step = "waiting", !.stalled = @ + 1]
        ELSE [d EXCEPT !.step = "reading", !.stalled = 0]

\* Mutant: reads from the cursor on, not after it.
MutAfter(c) == {e \in visible : e >= c}

\* readAfter: the rows after the cursor in the order of their ids.
After(c) == {e \in visible : e > c}
Rows(c) ==
    {rows \in [1..Cardinality(After(c)) -> After(c)] :
        /\ \A e \in After(c) : \E i \in DOMAIN rows : rows[i] = e
        /\ \A i, j \in DOMAIN rows : i < j => rows[i] < rows[j]}
TooMany(c) == Cardinality(After(c)) > ReplayLimit

Opened(cursor, events) ==
    [Closed EXCEPT !.status = "open", !.step = "waiting", !.cursor = cursor,
                   !.pending = events, !.queue = <<Frame>>]

-----------------------------------------------------------------------------
(* The route: authorize, prepare, open.                                    *)

\* The id the client would send to continue.
Last == IF received = <<>> THEN start ELSE received[Len(received)]

Opening(step, cursor) ==
    /\ stream.status = "closed"
    /\ access
    /\ stream' = [Closed EXCEPT !.status = "opening", !.step = step, !.cursor = cursor]
    /\ UNCHANGED <<log, access, revokedFor>>

\* Without Last-Event-ID.
ConnectTail ==
    /\ Opening("tail", 0)
    /\ UNCHANGED client

\* With the id of an event the client has processed, or of where it began:
\* what it had received beyond is read again.
ConnectAfter(i) ==
    /\ Opening("locating", IF i = 0 THEN start ELSE received[i])
    /\ received' = SubSeq(received, 1, i)
    /\ UNCHANGED start

\* With any other id, known or not.
ConnectAt(h) ==
    /\ Opening("locating", h)
    /\ UNCHANGED client

\* prepare without an id: the stream starts at the largest id.
OpenAtTail ==
    /\ stream.step = "tail"
    /\ \E latest \in visible \cup {0} :
          /\ \A e \in visible : e <= latest
          /\ stream' = Opened(latest, <<>>)
          /\ start' = latest /\ received' = <<>>
    /\ UNCHANGED <<log, access, revokedFor>>

\* prepare with an id: one ahead of the log (400) or missing from it (409)
\* is refused.
Locate ==
    /\ stream.step = "locating"
    /\ IF stream.cursor \in visible \cup {0}
       THEN /\ stream' = [stream EXCEPT !.step = "replaying"]
            /\ IF stream.cursor = Last
               THEN UNCHANGED client
               ELSE start' = stream.cursor /\ received' = <<>>
       ELSE stream' = Closed /\ UNCHANGED client
    /\ UNCHANGED <<log, access, revokedFor>>

Replay ==
    /\ stream.step = "replaying"
    /\ IF TooMany(stream.cursor)
       THEN stream' = Closed
       ELSE \E rows \in Rows(stream.cursor) : stream' = Opened(stream.cursor, rows)
    /\ UNCHANGED <<log, access, revokedFor, client>>

-----------------------------------------------------------------------------
(* The open stream.                                                        *)

\* Mutant: never asks for authorization again.
MutFire ==
    /\ stream.step = "waiting"
    /\ revokedFor' = IF access THEN 0 ELSE revokedFor + 1
    /\ stream' = Polled(stream)
    /\ UNCHANGED <<log, access, client>>

\* The timer: time passes, and an authorization may be due.
Fire ==
    /\ stream.step = "waiting"
    /\ revokedFor' = IF access THEN 0 ELSE revokedFor + 1
    /\ \E due \in BOOLEAN :
          /\ stream.age + 1 >= ReauthPolls => due
          /\ stream' = IF due THEN [stream EXCEPT !.step = "authorizing", !.age = @ + 1]
                       ELSE Polled([stream EXCEPT !.age = @ + 1])
    /\ UNCHANGED <<log, access, client>>

Authorize ==
    /\ stream.step = "authorizing"
    /\ stream' = IF access THEN Polled([stream EXCEPT !.age = 0]) ELSE Failed(stream)
    /\ UNCHANGED <<log, access, revokedFor, client>>

ReadLog ==
    /\ stream.step = "reading"
    /\ IF TooMany(stream.cursor)
       THEN stream' = Failed(stream)
       ELSE \E rows \in Rows(stream.cursor) :
               LET s == [stream EXCEPT !.step = "waiting", !.pending = @ \o rows]
               IN  \/ stream' = Drained(s)
                   \/ /\ s.pending = <<>>       \* a heartbeat is due
                      /\ stream' = [s EXCEPT !.queue = Append(@, Frame)]
    /\ UNCHANGED <<log, access, revokedFor, client>>

\* A query or an authorization throws: 503 while opening, else a terminal
\* error.
Throws ==
    /\ \/ stream.status = "opening" /\ stream' = Closed
       \/ stream.step \in {"authorizing", "reading"} /\ stream' = Failed(stream)
    /\ UNCHANGED <<log, access, revokedFor, client>>

\* The client takes a chunk, and pull drains; a closed stream ends with its
\* last chunk.
Read ==
    /\ stream.queue # <<>>
    /\ LET s == [stream EXCEPT !.queue = Tail(@)]
       IN  stream' = IF s.status = "closing" /\ s.queue = <<>> THEN Closed ELSE Drained(s)
    /\ received' = IF Head(stream.queue) = Frame THEN received
                   ELSE Append(received, Head(stream.queue))
    /\ UNCHANGED <<log, access, revokedFor, start>>

\* cancel, abort, the end of maxDuration or of the server.
Break ==
    /\ stream.status # "closed"
    /\ stream' = Closed
    /\ UNCHANGED <<log, access, revokedFor, client>>

-----------------------------------------------------------------------------
Next ==
    \/ \E w \in Writer : Insert(w) \/ Commit(w) \/ Rollback(w)
    \/ Withdraw \/ Restore
    \/ ConnectTail
    \/ \E i \in 0..Len(received) : ConnectAfter(i)
    \/ \E h \in 0..MaxId : ConnectAt(h)
    \/ OpenAtTail \/ Locate \/ Replay
    \/ Fire \/ Authorize \/ ReadLog \/ Throws
    \/ Read \/ Break

Spec == Init /\ [][Next]_vars

\* Timers fire and awaited queries settle while the stream is open.  Nothing
\* is assumed of the client, the writers or the connection.
Server == Fire \/ Authorize \/ ReadLog \/ (stream.status = "open" /\ Throws)

LiveSpec == Spec /\ WF_vars(Server)

-----------------------------------------------------------------------------
(* Properties.                                                             *)

TypeOK ==
    /\ next \in 1..MaxId + 1
    /\ writing \in [Writer -> 0..MaxId]
    /\ visible \subseteq EventId /\ overtaken \subseteq visible
    /\ access \in BOOLEAN /\ revokedFor \in Nat
    /\ stream \in StreamState
    /\ start \in 0..MaxId /\ received \in Seq(EventId)

Feed == INSTANCE SnapshotFeed WITH Id <- EventId

\* However polls, commits, refusals, broken connections and resumptions
\* interleave, the client receives the events in the order of their ids,
\* none twice, and skips none that was published in that order
\* (docs/snapshot-events.md, "Delivery and resume").
FeedSpec == Feed!Spec

\* A client that no longer may read is cut off within one authorization
\* interval, also when it leaves events unread (docs/snapshot-events.md,
\* "close existing connections promptly").
CutOff == stream.status = "open" => revokedFor <= ReauthPolls

\* One client holds at most one replay window of events in memory, and one
\* chunk beyond what the queue admits, the terminal one.
BoundedMemory ==
    /\ Len(stream.pending) <= ReplayLimit
    /\ Len(stream.queue) <= HighWater + 1
    /\ Len(stream.queue) > HighWater => stream.status = "closing"

\* An event ahead of an open stream and published in order is received, or
\* the stream ends: a client that stops reading does not hold it open.
Served ==
    \A e \in EventId :
        (/\ stream.status = "open" /\ e \in visible \ overtaken
            /\ e > stream.cursor)
            ~> (stream.status # "open" \/ \E i \in DOMAIN received : received[i] = e)
=============================================================================
