----------------------------- MODULE VisitStream -----------------------------
(***************************************************************************)
(* What a client of GET /v1/status/stream hears (src/sse/broker.py and     *)
(* VisitService._publish_status_change), on top of VisitSessions: a change *)
(* of a visit is published when the session makes it, before anything is   *)
(* committed.  The broker puts the message into an unbounded queue of      *)
(* every client without waiting, so here publishing and hearing are one.   *)
(***************************************************************************)
EXTENDS VisitSessions

VARIABLES heard,      \* <<visit, state>> of the messages a client that is always connected gets
          announced   \* those and the ones that were dropped instead of being published

streamVars == <<vars, heard, announced>>

(* Mutant of Closing: only the end of a visit is announced.                  *)
ClosingOnly(row, time) == {MaybeClose(row, time).state} \cap {"CLOSED"}

(* What `_maybe_close_visit' announces about a visit.                        *)
Closing(row, time) ==
    LET then == MaybeClose(row, time).state
    IN  (IF row.state = "PRESENT" /\ then # "PRESENT" THEN {"LEAVING"} ELSE {})
        \cup (IF row.state # "CLOSED" THEN {then} \cap {"CLOSED"} ELSE {})

(* The payload has duration_seconds.  An UPDATE expires it, so of a visit    *)
(* this session has flushed changes of reading it raises, and the message is *)
(* dropped with a warning.                                                   *)
Silent(s) == {i \in VisitId : uow[s].objs[i] # Null /\ uow[s].objs[i].updated}

ClosingAll(objs, ids, time) ==
    UNION {{i} \X Closing(objs[i].row, time) : i \in {j \in ids : Persistent(objs[j])}}

(* The visits session s creates, and the ones whose state it changes.        *)
Creates(s) ==
    {i \in VisitId : uow[s].objs[i] = Null /\ uow'[s].objs[i] # Null
                       /\ uow'[s].objs[i].kind = "created"}

Changes(s) ==
    {i \in VisitId : /\ Persistent(uow[s].objs[i]) /\ uow'[s].objs[i] # Null
                     /\ uow[s].objs[i].row.state # uow'[s].objs[i].row.state}

Said(s) == {<<i, uow'[s].objs[i].row.state>> : i \in Creates(s) \cup Changes(s)}

(* A batch that ends goes through its visits once more.  One that fails has  *)
(* announced some of that before.                                            *)
Ends(w) == job[w].pc = "applying" /\ job'[w].pc = "idle"

AtEnd(w) == IF Ends(w) THEN ClosingAll(uow[w].objs, ActiveIds(w), job[w].final) ELSE {}

(* The check has just read its visits: it can read the duration of all.      *)
StaleCheckSays ==
    IF uow[StaleCheck] = NoWork /\ uow'[StaleCheck] # NoWork
    THEN ClosingAll(Load(visits, OpenRows(visits)), OpenRows(visits), now) ELSE {}

(* The id of a visit that is gone is given to a new one here, so what was    *)
(* said of it is forgotten.                                                  *)
StillKnown(said) == {m \in said : m[1] \notin UNION {Creates(w) : w \in Worker}}

Hear ==
    \E tail \in {[w \in Worker |-> AtEnd(w)]} \cup
                {[w \in Worker |-> IF job'[w].result = "failed" THEN T ELSE AtEnd(w)] :
                    T \in SUBSET UNION {AtEnd(w) : w \in Worker}} :
      LET says(w) == Said(w) \cup tail[w]
      IN  /\ announced' = StillKnown(announced) \cup StaleCheckSays
                             \cup UNION {says(w) : w \in Worker}
          /\ heard' = StillKnown(heard) \cup StaleCheckSays
                        \cup UNION {{m \in says(w) : m[1] \notin Silent(w)} : w \in Worker}

StreamInit == Init /\ heard = {} /\ announced = {}

StreamSpec == StreamInit /\ [][Next /\ Hear]_streamVars /\ Fairness
-----------------------------------------------------------------------------
(* Every state of a visit that is committed has been announced, whichever    *)
(* session made the change, whatever it had flushed or lost before, and      *)
(* whichever sessions overlapped.  That is as far as the code goes: an       *)
(* announcement may still be dropped for its payload.                        *)
CommittedIsAnnounced ==
    \A i \in VisitId : Stored(i) => <<i, visits[i].state>> \in announced

(* "publishes one frame per state transition" (README.md): a client hears of *)
(* every state of a visit that is committed.                                 *)
CommittedIsHeard == \A i \in VisitId : Stored(i) => <<i, visits[i].state>> \in heard
=============================================================================
