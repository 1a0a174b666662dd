----------------------------- MODULE VisitStatus -----------------------------
(***************************************************************************)
(* What the read-only endpoints under /v1/status answer, apart from the    *)
(* stream (VisitStream): each is one query of the committed table.         *)
(***************************************************************************)
EXTENDS VisitSessions, Ordered

ById == {p \in VisitId \X VisitId : p[1] < p[2]}

(* `list_open': the open visits by id; those of one tractor.                 *)
ListOpen == InOrder(OpenRows(visits), ById)

OpenOf(t) == InOrder({i \in OpenRows(visits) : visits[i].tractor = t}, ById)

(* current_dwell_seconds counts from the confirmed arrival.                  *)
Dwell(v) == IF v.arrived = Null THEN Null ELSE now - v.arrived

(* What an entry shows of a visit, listed by itself or, by GET /stations,    *)
(* grouped under its station.                                                *)
Shown(v) == [tractor |-> v.tractor, state |-> v.state, dwell |-> Dwell(v)]

(* GET /tractors.                                                            *)
CurrentTractors == [k \in DOMAIN ListOpen |-> Shown(visits[ListOpen[k]])]

(* GET /tractor/{id}: the oldest open visit of the tractor.                  *)
CurrentTractor(t) ==
    IF OpenOf(t) = <<>> THEN [tractor |-> t, state |-> "ABSENT", dwell |-> Null]
                        ELSE Shown(visits[Head(OpenOf(t))])

Past(t) == {i \in VisitId : Stored(i) /\ visits[i].tractor = t /\ visits[i].state = "CLOSED"}

(* Mutant of History: ORDER BY arrived_at without DESC.                      *)
HistoryOldestFirst(t) ==
    InOrder(Past(t), {p \in Past(t) \X Past(t) : visits[p[1]].arrived < visits[p[2]].arrived})

LatestFirst(S) == {p \in S \X S : visits[p[1]].arrived > visits[p[2]].arrived}

(* GET /visits/history of a tractor: its closed visits, newest arrival first.*)
History(t) == InOrder(Past(t), LatestFirst(Past(t)))

-----------------------------------------------------------------------------
(* With one worker: no detection counts for two stays.  The next stay of a   *)
(* tractor, in the history or current, is confirmed after the last time the  *)
(* one before it was seen, although batches apply detections long after they *)
(* were made and the stale check closes visits in between.                   *)
StaysOrdered ==
    /\ \A t \in Tractor : \A k \in 2 .. Len(History(t)) :
         visits[History(t)[k]].seen <= visits[History(t)[k - 1]].arrived
    /\ \A k \in DOMAIN CurrentTractors :
         LET c == CurrentTractors[k]
             h == History(c.tractor)
         IN  h # <<>> /\ c.dwell # Null => visits[h[1]].seen <= now - c.dwell

(* With one worker: the dwell time listed for a tractor never goes back as   *)
(* long as nothing is added to its history, whatever the stale check does to *)
(* the visit in between.                                                     *)
DwellGrows ==
    [][\A t \in Tractor :
         CurrentTractor(t).dwell # Null /\ CurrentTractor(t)'.dwell # Null
         /\ Len(History(t)') = Len(History(t))
           => CurrentTractor(t).dwell <= CurrentTractor(t)'.dwell]_<<visits, now>>
=============================================================================
