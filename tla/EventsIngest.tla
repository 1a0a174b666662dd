---------------------------- MODULE EventsIngest ----------------------------
(***************************************************************************)
(* POST /v1/events/ingest (src/router/v1/events.py): every request is one  *)
(* transaction that looks the station up, finds or creates the sentinel    *)
(* row of the station in video_files, and inserts the events.  The session *)
(* dependency commits before the response is sent.                         *)
(*                                                                         *)
(* A request goes on when its caller stops waiting for it, so requests of  *)
(* one station can overlap.  The transactions are READ COMMITTED; an ORM   *)
(* update writes only the columns that differ from what was read.          *)
(***************************************************************************)
EXTENDS EdgeWire

CONSTANTS
    MaxOpen,   \* bound on the requests that are open at a time
    Null       \* no row, no payload

Slot == 1 .. MaxOpen

VARIABLES
    registered,   \* the codes of the table stations
    sentinel,     \* per station: its committed sentinel row, or Null
    stored,       \* the committed batches of events, in commit order
    request       \* per slot: the state of an open request

apiVars == <<registered, sentinel, stored, request>>

Payload == [station : Station, events : SUBSET Nat, started : Nat, ended : Nat]
Sentinel == [started : Nat, ended : Nat]

ASSUME NullAssumption == Null \notin Payload /\ Null \notin Sentinel

Batch == [station : Station, events : SUBSET Nat, at : Nat]

(* `seen' is the sentinel the request read.  `awaited' says that the caller  *)
(* still waits for the answer, `code' is that answer; 0 is a connection that *)
(* broke.                                                                    *)
Request == [pc : {"free", "arrived", "read", "written", "answered"},
            payload : Payload \cup {Null}, seen : Sentinel \cup {Null},
            awaited : BOOLEAN, code : {0, 201, 404, 422, 500}]

NoRequest == [pc |-> "free", payload |-> Null, seen |-> Null, awaited |-> FALSE, code |-> 0]

ApiInit ==
    /\ registered \in SUBSET Station
    /\ sentinel = [s \in Station |-> Null]
    /\ stored = <<>>
    /\ request = [r \in Slot |-> NoRequest]

(* A request is answered; nobody hears the answer to an abandoned one.       *)
Answered(q, code) ==
    IF q.awaited THEN [NoRequest EXCEPT !.pc = "answered", !.awaited = TRUE, !.code = code]
                 ELSE NoRequest

Answer(r, code) == request' = [request EXCEPT ![r] = Answered(@, code)]

Larger(a, b) == IF a < b THEN b ELSE a
Smaller(a, b) == IF a < b THEN a ELSE b

(* The window `get_or_create_edge_sentinel' computes from the row it read.   *)
Widened(row, p) == [row EXCEPT !.started = Smaller(@, p.started),
                               !.ended = Larger(@, p.ended)]

-----------------------------------------------------------------------------
(* The station, the times, and the sentinel as it is committed by now.       *)
ReadSentinel(r) ==
    LET p == request[r].payload
    IN  /\ request[r].pc = "arrived"
        /\ IF p.station \notin registered THEN Answer(r, 404)
           ELSE IF p.started >= p.ended THEN Answer(r, 422)
           ELSE request' = [request EXCEPT ![r].pc = "read", ![r].seen = sentinel[p.station]]
        /\ UNCHANGED <<registered, sentinel, stored, wireVars>>

(* The requests whose uncommitted write of the same sentinel r waits for: a  *)
(* row lock, or the unique content_hash of a row being inserted.  An update  *)
(* that changes no column writes nothing.                                    *)
Writes(q) == q.seen = Null \/ Widened(q.seen, q.payload) # q.seen

Blocking(r) ==
    {o \in Slot \ {r} : /\ request[o].pc = "written" /\ Writes(request[o])
                        /\ request[o].payload.station = request[r].payload.station}

(* The sentinel is flushed, then the events.  An INSERT that finds the row   *)
(* committed by now violates the unique content_hash.                        *)
WriteBatch(r) ==
    LET q == request[r]
    IN  /\ q.pc = "read"
        /\ Writes(q) => Blocking(r) = {}
        /\ IF q.seen = Null /\ sentinel[q.payload.station] # Null
             THEN Answer(r, 500)
             ELSE request' = [request EXCEPT ![r].pc = "written"]
        /\ UNCHANGED <<registered, sentinel, stored, wireVars>>

(* The sentinel after the commit of q, when it was `row' before: the columns *)
(* that differ from what was read are set, to a value computed from that.    *)
Committed(q, row) ==
    IF q.seen = Null
      THEN [started |-> q.payload.started, ended |-> q.payload.ended]
      ELSE LET new == Widened(q.seen, q.payload)
           IN  [row EXCEPT !.started = IF new.started # q.seen.started THEN new.started ELSE @,
                           !.ended   = IF new.ended # q.seen.ended THEN new.ended ELSE @]

(* An empty batch only keeps the sentinel up to date.                        *)
CommitBatch(r) ==
    LET q == request[r]
        s == q.payload.station
    IN  /\ q.pc = "written"
        /\ sentinel' = [sentinel EXCEPT ![s] = Committed(q, @)]
        /\ stored' = IF q.payload.events = {} THEN stored
                     ELSE Append(stored, [station |-> s, events |-> q.payload.events,
                                          at |-> q.payload.ended])
        /\ Answer(r, 201)
        /\ UNCHANGED <<registered, wireVars>>

(* A statement or the commit fails and the transaction is rolled back.       *)
RequestFails(r) ==
    /\ request[r].pc \in {"arrived", "read", "written"} /\ Fault
    /\ Answer(r, 500)
    /\ UNCHANGED <<registered, sentinel, stored, inbox, online, lost>>

(* The API dies and starts again; every connection to it breaks.             *)
ApiCrash ==
    /\ \E r \in Slot : request[r].pc # "free"
    /\ Fault
    /\ request' = [r \in Slot |-> IF request[r].pc = "answered" THEN request[r]
                                  ELSE Answered(request[r], 0)]
    /\ UNCHANGED <<registered, sentinel, stored, inbox, online, lost>>

(* POST /v1/stations.                                                        *)
RegisterStation(s) ==
    /\ s \notin registered
    /\ registered' = registered \cup {s}
    /\ UNCHANGED <<sentinel, stored, request, wireVars>>

RequestWork(r) == ReadSentinel(r) \/ WriteBatch(r) \/ CommitBatch(r)

ApiStep ==
    \/ \E r \in Slot : RequestWork(r) \/ RequestFails(r)
    \/ ApiCrash
    \/ \E s \in Station : RegisterStation(s)

ApiTypeOK ==
    /\ registered \in SUBSET Station
    /\ sentinel \in [Station -> Sentinel \cup {Null}]
    /\ stored \in Seq(Batch)
    /\ request \in [Slot -> Request]
=============================================================================
