-------------------------- MODULE VisitTimes_proofs --------------------------
(***************************************************************************)
(* What holds of the instants in the table visits, for any tractors,       *)
(* thresholds and bounds: a departure is never announced early, whatever   *)
(* the sessions do, and with one worker beside the stale check a visit is  *)
(* confirmed late enough, lasts an exit window, and is never set back.     *)
(***************************************************************************)
EXTENDS VisitSessions_proofs

-----------------------------------------------------------------------------
(* The exit timer turns row v into row x, at the latest at `time'.           *)
Quieted(v, x, time) ==
    \/ x = v
    \/ /\ v.state \in {"PRESENT", "LEAVING"}
       /\ x.tractor = v.tractor /\ x.seen = v.seen /\ x.arrived = v.arrived
       /\ x.acc = v.acc /\ x.created = v.created
       /\ \/ x.state = "LEAVING" /\ x.departed = v.departed
          \/ x.state = "CLOSED" /\ x.departed = v.seen + Exit /\ v.seen + 2 * Exit <= time

(* The events of a batch come in the order they were made, none earlier than *)
(* the batch and none later than now.                                        *)
EventTimes(w) ==
    LET e == job[w].events
    IN  /\ job[w].begun <= now /\ job[w].final <= now
        /\ \A k \in 1 .. Len(e) : job[w].begun <= e[k].at /\ e[k].at <= now
        /\ \A k, l \in 1 .. Len(e) : k <= l => e[k].at <= e[l].at

TimesInv == \A w \in Worker : EventTimes(w)

(* A departure lies a whole exit window in the past, in the table and in all *)
(* that may get there.                                                       *)
Backdated(v) == v.departed # Null => v.departed + Exit <= now

WorkBackdated(u) ==
    \A i \in VisitId : /\ u.staged[i] # Null => Backdated(u.staged[i])
                       /\ u.objs[i] # Null => Backdated(u.objs[i].row)

BackdatedInv ==
    /\ \A i \in VisitId : visits[i] # Null => Backdated(visits[i])
    /\ \A s \in Session : WorkBackdated(uow[s])

-----------------------------------------------------------------------------
(* One worker.                                                               *)

(* The instants of a visit fit together.                                     *)
Genuine(v) ==
    /\ v.state = "ENTERING" => v.arrived = Null /\ v.created + v.acc <= v.seen
    /\ v.state # "ENTERING" => /\ v.arrived # Null
                               /\ v.acc >= Entry
                               /\ v.created + Entry <= v.arrived
                               /\ v.arrived <= v.seen
    /\ v.departed # Null => v.arrived + Exit <= v.departed

(* An instance of the worker is ahead of what it was loaded as, ...          *)
Advances(o) ==
    /\ Genuine(o.row)
    /\ o.orig.seen <= o.row.seen
    /\ o.orig.arrived = Null <=> o.orig.state = "ENTERING"
    /\ o.orig.arrived # Null => o.row.arrived = o.orig.arrived

(* ... and nobody else writes the columns it is going to write, but for the  *)
(* state and the departure.                                                  *)
Agrees(o, v) ==
    /\ v.seen = o.orig.seen /\ v.acc = o.orig.acc /\ v.arrived = o.orig.arrived
    /\ v.created = o.row.created

TableGenuine ==
    \A i \in VisitId : visits[i] # Null => Genuine(visits[i]) /\ visits[i].seen <= now

(* What the worker finds in the table is older than its batch.               *)
TableBehind ==
    \A w \in Worker, i \in VisitId :
        job[w].pc # "idle" /\ visits[i] # Null => visits[i].seen <= job[w].begun

(* What u has of a row, in a batch that still has these events to apply.     *)
InstancesFit(u, events) ==
    \A i \in VisitId :
        LET o == u.objs[i]
            v == IF u.staged[i] # Null THEN u.staged[i] ELSE visits[i]
        IN  o # Null => /\ Advances(o) /\ o.row.seen <= now
                        /\ \A k \in 1 .. Len(events) : o.row.seen <= events[k].at
                        /\ Persistent(o) /\ v # Null => Agrees(o, v)

(* A flushed row only moves on, and one that replaces none is unknown to the *)
(* stale check.                                                              *)
StagedFits(u, pc) ==
    \A i \in VisitId : LET v == u.staged[i] IN v # Null =>
        /\ Genuine(v) /\ v.seen <= now
        /\ pc # "adopting"
        /\ visits[i] # Null =>
             /\ visits[i].seen <= v.seen
             /\ visits[i].arrived # Null => v.arrived = visits[i].arrived
        /\ visits[i] = Null => uow[StaleCheck].objs[i] = Null

WorkerFits ==
    \A w \in Worker : InstancesFit(uow[w], job[w].events) /\ StagedFits(uow[w], job[w].pc)

(* The stale check only writes what follows from the row it read, and the    *)
(* arrival in that row is still the one in the table.                        *)
StaleInstances ==
    \A i \in VisitId :
        /\ uow[StaleCheck].staged[i] = Null
        /\ LET o == uow[StaleCheck].objs[i] IN o # Null =>
             /\ Quieted(o.orig, o.row, now) /\ Genuine(o.orig)
             /\ visits[i] # Null /\ o.orig.arrived # Null => visits[i].arrived = o.orig.arrived

SoloInv == TableGenuine /\ TableBehind /\ WorkerFits /\ StaleInstances

(* No visit is set back in time by the step.                                 *)
SeenAdvances ==
    \A i \in VisitId : Stored(i) /\ visits'[i] # Null => visits[i].seen <= visits'[i].seen
-----------------------------------------------------------------------------
(* What the operators on one row do to its instants.                         *)

LEMMA MaybeCloseQuiets ==
  ASSUME NEW v \in Visit, NEW time \in Nat
  PROVE  Quieted(v, MaybeClose(v, time), time)
<1> DEFINE l == StartLeaving(v, time)
           x == FinishLeaving(l, time)
<1>1. /\ l \in Visit /\ l.seen = v.seen /\ l.departed = v.departed
      /\ l = v \/ (v.state = "PRESENT" /\ l = [v EXCEPT !.state = "LEAVING"])
  BY DEF StartLeaving, Visit, VisitState
<1>2. \/ x = l
      \/ /\ l.state = "LEAVING" /\ time - l.seen >= 2 * Exit
         /\ x = [l EXCEPT !.state = "CLOSED", !.departed = l.seen + Exit]
  BY DEF FinishLeaving
<1>3. v.seen \in Nat /\ Exit \in Nat
  BY Thresholds DEF Visit
<1> HIDE DEF l, x
<1>4. Quieted(v, l, time)
  BY <1>1 DEF Quieted, Visit
<1>5. CASE x # l
  <2>1. v.state \in {"PRESENT", "LEAVING"} /\ v.seen + 2 * Exit <= time
    BY <1>1, <1>2, <1>3, <1>5
  <2>2. /\ x.tractor = l.tractor /\ x.seen = l.seen /\ x.arrived = l.arrived
        /\ x.acc = l.acc /\ x.created = l.created
        /\ x.state = "CLOSED" /\ x.departed = l.seen + Exit
    BY <1>1, <1>2, <1>5 DEF Visit
  <2>3. /\ l.tractor = v.tractor /\ l.seen = v.seen /\ l.arrived = v.arrived
        /\ l.acc = v.acc /\ l.created = v.created
    BY <1>1 DEF Visit
  <2>4. Quieted(v, x, time)
    BY <2>1, <2>2, <2>3 DEF Quieted
  <2> QED
    BY <2>4 DEF MaybeClose, l, x
<1> QED
  BY <1>4, <1>5 DEF MaybeClose, l, x

LEMMA LeavingQuiets ==
  ASSUME NEW v \in Visit, NEW time \in Nat, v.state = "PRESENT"
  PROVE  Quieted(v, MaybeClose([v EXCEPT !.state = "LEAVING"], time), time)
<1> DEFINE l == [v EXCEPT !.state = "LEAVING"]
<1>1. l \in Visit
  BY DEF Visit, VisitState
<1>2. Quieted(l, MaybeClose(l, time), time)
  BY <1>1, MaybeCloseQuiets
<1> QED
  BY <1>1, <1>2 DEF Quieted, Visit, VisitState

(* The exit timer changes the state and the departure only, ...              *)
LEMMA QuietedKeeps ==
  ASSUME NEW v, NEW x, NEW time, Quieted(v, x, time)
  PROVE  /\ x.seen = v.seen /\ x.arrived = v.arrived /\ x.acc = v.acc /\ x.created = v.created
         /\ x.state = "ENTERING" <=> v.state = "ENTERING"
  BY DEF Quieted

(* ... and both fit the other instants.                                      *)
LEMMA QuietedFits ==
  ASSUME NEW v \in Visit, NEW x \in Visit, NEW time \in Nat, Quieted(v, x, time),
         now \in Nat, time <= now
  PROVE  /\ Backdated(v) => Backdated(x)
         /\ Genuine(v) => Genuine(x)
<1>1. /\ v.seen \in Nat /\ v.arrived \in Nat \cup {Null} /\ v.departed \in Nat \cup {Null}
      /\ Exit \in Nat /\ Entry \in Nat
  BY Thresholds DEF Visit
<1>2. CASE x = v
  BY <1>2
<1>3. CASE x # v
  <2>1. Backdated(v) => Backdated(x)
    BY <1>1, <1>3 DEF Quieted, Backdated
  <2>2. Genuine(v) => Genuine(x)
    BY <1>1, <1>3 DEF Quieted, Genuine
  <2> QED
    BY <2>1, <2>2
<1> QED
  BY <1>2, <1>3

LEMMA ApplyTransitionFits ==
  ASSUME NEW v \in Visit, NEW at \in Nat, v.seen <= at, v.state # "CLOSED", v.departed = Null,
         Genuine(v)
  PROVE  /\ Genuine(ApplyTransition(v, at))
         /\ ApplyTransition(v, at).seen = at
         /\ ApplyTransition(v, at).created = v.created
         /\ v.arrived # Null => ApplyTransition(v, at).arrived = v.arrived
<1> DEFINE acc == v.acc + (at - v.seen)
<1>1. /\ acc \in Int /\ Entry \in Int /\ v.seen \in Nat /\ v.acc \in Int /\ v.created \in Nat
      /\ v.arrived \in Nat \cup {Null} /\ v.state \in VisitState /\ at # Null
  BY Thresholds, NullAssumption DEF Visit
<1>2. CASE v.state = "ENTERING" /\ acc >= Entry
  <2>1. ApplyTransition(v, at) =
          [v EXCEPT !.acc = acc, !.seen = at, !.state = "PRESENT", !.arrived = at]
    BY <1>1, <1>2 DEF ApplyTransition
  <2> QED
    BY <1>1, <1>2, <2>1 DEF Visit, Genuine
<1>3. CASE v.state = "ENTERING" /\ acc < Entry
  <2>1. ApplyTransition(v, at) = [v EXCEPT !.acc = acc, !.seen = at]
    BY <1>1, <1>3 DEF ApplyTransition
  <2> QED
    BY <1>1, <1>3, <2>1 DEF Visit, Genuine
<1>4. CASE v.state \in {"PRESENT", "LEAVING"}
  <2>1. ApplyTransition(v, at) = [v EXCEPT !.seen = at, !.state = "PRESENT"]
    BY <1>4 DEF ApplyTransition, Visit
  <2> QED
    BY <1>1, <1>4, <2>1 DEF Visit, Genuine
<1> QED
  BY <1>1, <1>2, <1>3, <1>4 DEF VisitState

LEMMA NewVisitFits ==
  ASSUME NEW t \in Tractor, NEW at \in Nat, NEW begun \in Nat, begun <= at
  PROVE  /\ Backdated(NewVisit(t, at, begun)) /\ Genuine(NewVisit(t, at, begun))
         /\ NewVisit(t, at, begun).seen = at
         /\ NewVisit(t, at, begun).arrived = Null
         /\ NewVisit(t, at, begun).state = "ENTERING"
  BY DEF NewVisit, Backdated, Genuine

(* What an UPDATE leaves in the row.                                         *)
LEMMA MergeFields ==
  ASSUME NEW o \in Instance, NEW v \in Visit
  PROVE  /\ Merge(o, v).state = Changed(o.row.state, o.orig.state, v.state)
         /\ Merge(o, v).seen = Changed(o.row.seen, o.orig.seen, v.seen)
         /\ Merge(o, v).arrived = Changed(o.row.arrived, o.orig.arrived, v.arrived)
         /\ Merge(o, v).departed = Changed(o.row.departed, o.orig.departed, v.departed)
         /\ Merge(o, v).acc = Changed(o.row.acc, o.orig.acc, v.acc)
         /\ Merge(o, v).created = v.created
  BY DEF Merge, Visit, Instance

LEMMA MergeBackdated ==
  ASSUME NEW o \in Instance, NEW v \in Visit, Backdated(o.row), Backdated(v)
  PROVE  Backdated(Merge(o, v))
  BY MergeFields DEF Backdated, Changed

(* The only worker finds its columns as it loaded them.                      *)
LEMMA WorkerMerge ==
  ASSUME NEW o \in Instance, NEW v \in Visit, Advances(o), Agrees(o, v), Genuine(v), RowOK(v)
  PROVE  /\ Genuine(Merge(o, v))
         /\ Merge(o, v).seen = o.row.seen /\ Merge(o, v).acc = o.row.acc
         /\ Merge(o, v).arrived = o.row.arrived /\ Merge(o, v).created = o.row.created
         /\ v.seen <= Merge(o, v).seen
         /\ v.arrived # Null => Merge(o, v).arrived = v.arrived
<1> DEFINE m == Merge(o, v)
<1>1. /\ m.seen = o.row.seen /\ m.acc = o.row.acc /\ m.arrived = o.row.arrived
      /\ m.created = o.row.created
  BY MergeFields DEF Agrees, Changed
<1>2. /\ v.seen <= m.seen
      /\ v.arrived # Null => m.arrived = v.arrived
  BY <1>1 DEF Agrees, Advances
<1>3. m.state = "ENTERING" <=> o.row.state = "ENTERING"
  <2>1. v.state = "ENTERING" <=> o.orig.state = "ENTERING"
    BY DEF Agrees, Advances, Genuine
  <2> QED
    BY <2>1, MergeFields DEF Changed
<1>4. m.departed # Null => m.arrived + Exit <= m.departed
  <2>1. CASE m.departed = o.row.departed
    BY <1>1, <2>1 DEF Advances, Genuine
  <2>2. CASE m.departed = v.departed
    <3>1. v.departed # Null => v.arrived # Null
      BY DEF RowOK
    <3> QED
      BY <1>2, <2>2, <3>1 DEF Genuine
  <2> QED
    BY <2>1, <2>2, MergeFields DEF Changed
<1> HIDE DEF m
<1>5. Genuine(m)
  BY <1>1, <1>3, <1>4 DEF Advances, Genuine
<1> QED
  BY <1>1, <1>2, <1>5 DEF m

(* The stale check only adds the end of a visit to the row.                  *)
LEMMA StaleMerge ==
  ASSUME NEW o \in Instance, NEW v \in Visit, now \in Nat, Quieted(o.orig, o.row, now),
         Genuine(o.orig), Genuine(v), RowOK(v),
         o.orig.arrived # Null => v.arrived = o.orig.arrived
  PROVE  /\ Genuine(Merge(o, v))
         /\ Merge(o, v).seen = v.seen /\ Merge(o, v).acc = v.acc
         /\ Merge(o, v).arrived = v.arrived /\ Merge(o, v).created = v.created
<1> DEFINE m == Merge(o, v)
<1>0. o.row \in Visit /\ o.orig \in Visit
  BY DEF Instance
<1>1. m.seen = v.seen /\ m.acc = v.acc /\ m.arrived = v.arrived /\ m.created = v.created
  BY MergeFields, QuietedKeeps DEF Changed
<1>2. CASE o.row = o.orig
  <2>1. m.state = v.state /\ m.departed = v.departed
    BY <1>2, MergeFields DEF Changed
  <2> HIDE DEF m
  <2>2. Genuine(m)
    BY <1>1, <2>1 DEF Genuine
  <2> QED
    BY <1>1, <2>2 DEF m
<1>3. CASE o.row # o.orig
  <2>1. /\ o.orig.state \in {"PRESENT", "LEAVING"} /\ o.row.state \in {"LEAVING", "CLOSED"}
        /\ \/ o.row.departed = o.orig.departed
           \/ o.row.departed = o.orig.seen + Exit
    BY <1>3 DEF Quieted
  <2>2. /\ o.orig.arrived # Null /\ v.arrived = o.orig.arrived /\ v.state # "ENTERING"
        /\ o.orig.arrived <= o.orig.seen
    BY <2>1 DEF Genuine
  <2>3. m.state # "ENTERING"
    BY <2>1, <2>2, MergeFields DEF Changed
  <2>4. m.departed # Null => m.arrived + Exit <= m.departed
    <3>1. v.arrived \in Nat /\ o.orig.seen \in Nat /\ Exit \in Nat
      BY <2>2, <1>0, Thresholds DEF Visit
    <3>2. m.departed = v.departed \/ m.departed = o.orig.seen + Exit
      BY <2>1, MergeFields DEF Changed
    <3> QED
      BY <1>1, <2>2, <3>1, <3>2 DEF Genuine
  <2> HIDE DEF m
  <2>5. Genuine(m)
    BY <1>1, <2>2, <2>3, <2>4 DEF Genuine
  <2> QED
    BY <1>1, <2>5 DEF m
<1> QED
  BY <1>2, <1>3

-----------------------------------------------------------------------------
(* What a step does to the work of a session and to the events of a task.    *)

(* Work x is work u after another look at the exit timers.                   *)
Ahead(u, x, time) ==
    /\ x.staged = u.staged
    /\ \A i \in VisitId : x.objs[i] # Null =>
         /\ u.objs[i] # Null
         /\ x.objs[i].orig = u.objs[i].orig /\ x.objs[i].kind = u.objs[i].kind
         /\ Quieted(u.objs[i].row, x.objs[i].row, time)

LEMMA ForcedAhead ==
  ASSUME NEW objs \in [VisitId -> Instance \cup {Null}], NEW ids, NEW time \in Nat,
         NEW i \in VisitId, Forced(objs, ids, time)[i] # Null
  PROVE  /\ objs[i] # Null
         /\ Forced(objs, ids, time)[i].orig = objs[i].orig
         /\ Forced(objs, ids, time)[i].kind = objs[i].kind
         /\ Quieted(objs[i].row, Forced(objs, ids, time)[i].row, time)
<1>1. CASE i \in ids /\ Persistent(objs[i]) /\ ~TimedOut(objs[i].row, time)
  <2>1. Forced(objs, ids, time)[i] = [objs[i] EXCEPT !.row = MaybeClose(objs[i].row, time)]
    BY <1>1 DEF Forced
  <2>2. objs[i] # Null /\ objs[i] \in Instance /\ objs[i].row \in Visit
    BY <1>1 DEF Persistent, Instance
  <2>3. /\ Forced(objs, ids, time)[i].orig = objs[i].orig
        /\ Forced(objs, ids, time)[i].kind = objs[i].kind
        /\ Forced(objs, ids, time)[i].row = MaybeClose(objs[i].row, time)
    BY <2>1, <2>2 DEF Instance
  <2> QED
    BY <2>2, <2>3, MaybeCloseQuiets
<1>2. CASE ~(i \in ids /\ Persistent(objs[i]) /\ ~TimedOut(objs[i].row, time))
  BY <1>2 DEF Forced, Quieted
<1> QED
  BY <1>1, <1>2

LEMMA AgedRow ==
  ASSUME TypeOK, Held, NEW w \in Worker, job[w].events # <<>>,
         Event(w).tractor # Null, ActiveId(w) # Null
  PROVE  LET o == uow[w].objs[ActiveId(w)]
         IN  /\ Aged(w).orig = o.orig /\ Aged(w).kind = o.kind
             /\ Quieted(o.row, Aged(w).row, Event(w).at)
<1> DEFINE o  == uow[w].objs[ActiveId(w)]
           at == Event(w).at
<1>1. /\ ActiveId(w) \in VisitId /\ o # Null /\ o \in Instance /\ o.row \in Visit /\ at \in Nat
  BY AgedOK, EventOK, SessionTypes DEF Instance
<1>2. CASE o.row.state = "PRESENT" /\ at - job[w].seen[Event(w).tractor] >= Exit
  <2> DEFINE x == MaybeClose([o.row EXCEPT !.state = "LEAVING"], at)
  <2>1. Aged(w) = [o EXCEPT !.row = x]
    BY <1>2 DEF Aged
  <2>2. Quieted(o.row, x, at)
    BY <1>1, <1>2, LeavingQuiets
  <2> HIDE DEF x
  <2>3. Aged(w).orig = o.orig /\ Aged(w).kind = o.kind /\ Aged(w).row = x
    BY <1>1, <2>1 DEF Instance
  <2> QED
    BY <2>2, <2>3
<1>3. CASE ~(o.row.state = "PRESENT" /\ at - job[w].seen[Event(w).tractor] >= Exit)
  <2>1. Aged(w) = o
    BY <1>3 DEF Aged
  <2> QED
    BY <2>1 DEF Quieted
<1> QED
  BY <1>2, <1>3

LEMMA WorkBeforeAhead ==
  ASSUME TypeOK, Held, NEW w \in Worker, job[w].events # <<>>, Event(w).tractor # Null
  PROVE  Ahead(uow[w], WorkBefore(w), Event(w).at)
<1>1. WorkBefore(w).staged = uow[w].staged
  BY WorkBeforeOK
<1>2. CASE ActiveId(w) = Null
  BY <1>2 DEF WorkBefore, Ahead, Quieted
<1>3. CASE ActiveId(w) # Null
  <2>1. /\ ActiveId(w) \in VisitId /\ uow[w].objs[ActiveId(w)] # Null
        /\ uow[w] \in UnitOfWork
    BY <1>3, AgedOK, SessionTypes
  <2>2. WorkBefore(w).objs = [uow[w].objs EXCEPT ![ActiveId(w)] = Aged(w)]
    BY <1>3, <2>1 DEF WorkBefore, UnitOfWork
  <2>3. \A i \in VisitId :
          WorkBefore(w).objs[i] = IF i = ActiveId(w) THEN Aged(w) ELSE uow[w].objs[i]
    BY <2>1, <2>2 DEF UnitOfWork
  <2>4. /\ Aged(w).orig = uow[w].objs[ActiveId(w)].orig
        /\ Aged(w).kind = uow[w].objs[ActiveId(w)].kind
        /\ Quieted(uow[w].objs[ActiveId(w)].row, Aged(w).row, Event(w).at)
    BY <1>3, AgedRow
  <2> QED
    BY <1>1, <2>1, <2>3, <2>4 DEF Ahead, Quieted
<1> QED
  BY <1>2, <1>3

LEMMA FinalWorkAhead ==
  ASSUME TypeOK, Held, NEW w \in Worker
  PROVE  Ahead(uow[w], FinalWork(w), job[w].final)
<1>1. /\ uow[w].objs \in [VisitId -> Instance \cup {Null}] /\ job[w].final \in Nat
      /\ uow[w] \in UnitOfWork
  BY SessionTypes DEF Job
<1>2. FinalWork(w).objs = Forced(uow[w].objs, ActiveIds(w), job[w].final)
  BY <1>1 DEF FinalWork, UnitOfWork
<1> QED
  BY <1>1, <1>2, FinalWorkOK, ForcedAhead DEF Ahead

(* Task w goes on with the events it has, but for the first one.             *)
GoesOn(w, events) ==
    /\ now' = now /\ visits' = visits
    /\ \A s \in Session : s # w => uow'[s] = uow[s]
    /\ \A v \in Worker : v # w => job'[v] = job[v]
    /\ job'[w].begun = job[w].begun /\ job'[w].final = job[w].final
    /\ job[w].pc # "idle" /\ job'[w].pc # "idle"
    /\ job'[w].events = events

(* A fresh instance of a committed row.                                      *)
Reads(o, v) == o.row = v /\ o.orig = v /\ o.kind = "stored"

LEMMA LoadReads ==
  ASSUME NEW table, NEW ids \in SUBSET VisitId, NEW i \in VisitId,
         Load(table, ids)[i] # Null
  PROVE  i \in ids /\ Reads(Load(table, ids)[i], table[i])
  BY DEF Load, Reads

LEMMA LoadOpenShape ==
  ASSUME TypeOK, Held, NEW w \in Worker, LoadOpen(w)
  PROVE  /\ GoesOn(w, job[w].events) /\ job'[w].pc = "applying"
         /\ \A i \in VisitId :
              /\ uow'[w].staged[i] = Null
              /\ uow'[w].objs[i] # Null =>
                   visits[i] # Null /\ Reads(uow'[w].objs[i], visits[i])
         /\ \A t \in Tractor : job'[w].active[t] # Null =>
              /\ job'[w].active[t] \in OpenRows(visits)
              /\ visits[job'[w].active[t]].tractor = t
<1>1. /\ uow[w] = NoWork /\ uow[w] \in UnitOfWork /\ w \in Session /\ job[w] \in Job
      /\ OpenRows(visits) \in SUBSET VisitId /\ \A i \in OpenRows(visits) : visits[i] # Null
  BY SessionTypes DEF LoadOpen, Held, NothingHeld, OpenRows
<1>2. GoesOn(w, job[w].events) /\ job'[w].pc = "applying"
  BY <1>1 DEF LoadOpen, GoesOn, Job, TypeOK
<1>3. /\ uow'[w].objs = Load(visits, OpenRows(visits))
      /\ uow'[w].staged = NoWork.staged
  BY <1>1 DEF LoadOpen, TypeOK, UnitOfWork
<1> DEFINE idOf(t) == {i \in OpenRows(visits) : visits[i].tractor = t}
<1>4. \A t \in Tractor :
        job'[w].active[t] = IF idOf(t) = {} THEN Null ELSE CHOOSE i \in idOf(t) : TRUE
  BY <1>1 DEF LoadOpen, TypeOK, Job
<1>5. \A t \in Tractor : idOf(t) # {} => (CHOOSE i \in idOf(t) : TRUE) \in idOf(t)
  OBVIOUS
<1>6. \A t \in Tractor : job'[w].active[t] # Null => job'[w].active[t] \in idOf(t)
  BY <1>4, <1>5
<1> QED
  BY <1>1, <1>2, <1>3, <1>6, LoadReads, NoWorkOK

LEMMA SkipEventShape ==
  ASSUME TypeOK, Held, NEW w \in Worker, SkipEvent(w)
  PROVE  /\ GoesOn(w, Tail(job[w].events)) /\ job'[w].pc = "applying"
         /\ job[w].events # <<>> /\ job[w].pc = "applying" /\ uow' = uow
         /\ job'[w].active = job[w].active
  BY SessionTypes DEF SkipEvent, Applying, GoesOn, Job, TypeOK

LEMMA HandledShape ==
  ASSUME TypeOK, NEW w \in Worker
  PROVE  /\ Handled(w).events = Tail(job[w].events) /\ Handled(w).pc = job[w].pc
         /\ Handled(w).begun = job[w].begun /\ Handled(w).final = job[w].final
         /\ Handled(w).active = job[w].active
         /\ DOMAIN Handled(w) = DOMAIN job[w]
  BY SessionTypes DEF Handled, Job

LEMMA TouchVisitShape ==
  ASSUME TypeOK, Held, NEW w \in Worker, TouchVisit(w)
  PROVE  /\ GoesOn(w, Tail(job[w].events)) /\ job'[w].pc = "applying"
         /\ job[w].events # <<>> /\ Event(w).tractor # Null /\ job[w].pc = "applying"
         /\ job'[w].active = job[w].active
         /\ ActiveId(w) \in VisitId /\ ActiveId(w) # Null /\ Aged(w).row.state # "CLOSED"
         /\ uow'[w].staged = uow[w].staged
         /\ \A i \in VisitId : i # ActiveId(w) => uow'[w].objs[i] = uow[w].objs[i]
         /\ LET o == uow'[w].objs[ActiveId(w)]
            IN  /\ o.row = ApplyTransition(Aged(w).row, Event(w).at)
                /\ o.orig = Aged(w).orig /\ o.kind = Aged(w).kind /\ o # Null
<1> DEFINE i == ActiveId(w)
           o == [Aged(w) EXCEPT !.row = ApplyTransition(@, Event(w).at), !.touched = TRUE]
<1>1. /\ w \in Session /\ job[w] \in Job /\ uow[w] \in UnitOfWork
      /\ job[w].events # <<>> /\ Event(w).tractor # Null /\ i # Null
      /\ job[w].pc = "applying"
  BY SessionTypes DEF TouchVisit, Applying
<1>2. i \in VisitId /\ Aged(w) \in Instance
  BY <1>1, AgedOK
<1>3. /\ o.row = ApplyTransition(Aged(w).row, Event(w).at)
      /\ o.orig = Aged(w).orig /\ o.kind = Aged(w).kind /\ o # Null
  <2>1. ApplyTransition(Aged(w).row, Event(w).at) \in Visit
    BY <1>1, <1>2, EventOK, ApplyTransitionOK DEF Instance
  <2>2. o \in Instance
    BY <1>2, <2>1 DEF Instance
  <2> QED
    BY <1>2, <2>2, InstanceAssumption DEF Instance
<1>4. /\ uow' = [uow EXCEPT ![w].objs[i] = o]
      /\ job' = [job EXCEPT ![w] = [Handled(w) EXCEPT !.doomed = job[w].lost]]
      /\ now' = now /\ visits' = visits /\ Aged(w).row.state # "CLOSED"
  BY DEF TouchVisit
<1> HIDE DEF o
<1>5. /\ uow'[w].staged = uow[w].staged
      /\ \A k \in VisitId : uow'[w].objs[k] = IF k = i THEN o ELSE uow[w].objs[k]
      /\ \A s \in Session : s # w => uow'[s] = uow[s]
  BY <1>1, <1>2, <1>4 DEF TypeOK, UnitOfWork
<1>6. /\ job'[w] = [Handled(w) EXCEPT !.doomed = job[w].lost]
      /\ \A v \in Worker : v # w => job'[v] = job[v]
  BY <1>4 DEF TypeOK
<1>7. Handled(w) \in Job
  BY <1>1, HandledOK
<1>8. /\ GoesOn(w, Tail(job[w].events)) /\ job'[w].pc = "applying"
      /\ job'[w].active = job[w].active
  BY <1>1, <1>4, <1>5, <1>6, <1>7, HandledShape DEF GoesOn, Job
<1> QED
  BY <1>1, <1>2, <1>3, <1>4, <1>5, <1>8

LEMMA CreateVisitShape ==
  ASSUME TypeOK, Held, NEW w \in Worker, CreateVisit(w)
  PROVE  /\ GoesOn(w, Tail(job[w].events)) /\ job'[w].pc = "applying"
         /\ job[w].events # <<>> /\ Event(w).tractor \in Tractor /\ job[w].pc = "applying"
         /\ Flushing(w, WorkBefore(w))
         /\ \E i \in VisitId :
              LET new == NewVisit(Event(w).tractor, Event(w).at, job[w].begun)
                  old == WorkBefore(w)
              IN  /\ visits[i] = Null /\ i \notin Dirty(old)
                  /\ \A s \in Session : uow[s].objs[i] = Null /\ uow[s].staged[i] = Null
                  /\ CanInsert(w, i)
                  /\ \A k \in VisitId : WithInsert(w, i)[k] = IF k = i THEN new ELSE Staged(w, old)[k]
                  /\ uow'[w].staged = WithInsert(w, i)
                  /\ uow'[w].objs[i].row = new /\ uow'[w].objs[i].orig = new
                  /\ uow'[w].objs[i].kind = "created"
                  /\ job'[w].active = [job[w].active EXCEPT ![Event(w).tractor] = i]
                  /\ \A k \in VisitId : k # i => uow'[w].objs[k] =
                       IF k \in Dirty(old)
                       THEN [old.objs[k] EXCEPT !.orig = old.objs[k].row, !.touched = FALSE,
                                                !.updated = TRUE]
                       ELSE old.objs[k]
<1> DEFINE u == WorkBefore(w)
<1>1. /\ w \in Session /\ Event(w).tractor \in Tractor /\ job[w].events # <<>>
      /\ job[w].pc = "applying" /\ Flushing(w, u) /\ u \in UnitOfWork /\ job[w] \in Job
  BY CreateVisitParts, SessionTypes DEF Applying, Flushing
<1>2. PICK i \in VisitId :
        /\ visits[i] = Null
        /\ \A s \in Session : uow[s].objs[i] = Null /\ uow[s].staged[i] = Null
        /\ i \notin Dirty(u)
        /\ CanInsert(w, i)
        /\ uow' = [uow EXCEPT ![w] = [u EXCEPT
             !.staged = WithInsert(w, i),
             !.objs = Reloaded(u, i, WithInsert(w, i)[i])]]
        /\ job' = [job EXCEPT ![w] = [Handled(w) EXCEPT
             !.active[Event(w).tractor] = i, !.missing = @ \ {Event(w).tractor}]]
  BY CreateVisitParts
<1> DEFINE T   == WithInsert(w, i)
           new == NewVisit(Event(w).tractor, Event(w).at, job[w].begun)
           R   == Reloaded(u, i, T[i])
<1>3. \A k \in VisitId : T[k] = IF k = i THEN new ELSE Staged(w, u)[k]
  BY DEF WithInsert, Staged
<1>4. /\ uow'[w] = [u EXCEPT !.staged = T, !.objs = R]
      /\ \A s \in Session : s # w => uow'[s] = uow[s]
  BY <1>1, <1>2 DEF TypeOK
<1>5. R[i].row = T[i] /\ R[i].orig = T[i] /\ R[i].kind = "created"
  BY DEF Reloaded
<1>6. \A k \in VisitId : k # i => R[k] =
        IF k \in Dirty(u) THEN [u.objs[k] EXCEPT !.orig = u.objs[k].row, !.touched = FALSE,
                                                 !.updated = TRUE]
                          ELSE u.objs[k]
  BY DEF Reloaded
<1> HIDE DEF T, new, R, u
<1>7. uow'[w].staged = T /\ uow'[w].objs = R
  BY <1>1, <1>4 DEF UnitOfWork
<1>8. /\ job'[w].events = Handled(w).events /\ job'[w].pc = Handled(w).pc
      /\ job'[w].begun = Handled(w).begun /\ job'[w].final = Handled(w).final
      /\ job'[w].active = [Handled(w).active EXCEPT ![Event(w).tractor] = i]
      /\ \A v \in Worker : v # w => job'[v] = job[v]
  <2>1. Handled(w) \in Job
    BY <1>1, HandledOK, NullAssumption
  <2> QED
    BY <1>2, <2>1 DEF TypeOK, Job
<1>9. now' = now /\ visits' = visits
  BY DEF CreateVisit
<1>10. GoesOn(w, Tail(job[w].events)) /\ job'[w].pc = "applying"
  BY <1>1, <1>4, <1>8, <1>9, HandledShape DEF GoesOn
<1>11. /\ uow'[w].staged = T
       /\ uow'[w].objs[i].row = new /\ uow'[w].objs[i].orig = new
       /\ uow'[w].objs[i].kind = "created"
       /\ job'[w].active = [job[w].active EXCEPT ![Event(w).tractor] = i]
       /\ \A k \in VisitId : k # i => uow'[w].objs[k] =
            IF k \in Dirty(u) THEN [u.objs[k] EXCEPT !.orig = u.objs[k].row, !.touched = FALSE,
                                                     !.updated = TRUE]
                              ELSE u.objs[k]
  BY <1>3, <1>5, <1>6, <1>7, <1>8, HandledShape
<1> QED
  BY <1>1, <1>2, <1>3, <1>10, <1>11 DEF T, new, u

LEMMA LoseRaceShape ==
  ASSUME TypeOK, Held, NEW w \in Worker, LoseRace(w)
  PROVE  /\ GoesOn(w, job[w].events) /\ job'[w].pc = "adopting"
         /\ job[w].events # <<>> /\ Event(w).tractor # Null
         /\ \A i \in VisitId :
              /\ uow'[w].staged[i] = Null
              /\ uow'[w].objs[i] # Null =>
                   /\ WorkBefore(w).objs[i] # Null
                   /\ uow'[w].objs[i].row = WorkBefore(w).objs[i].row
                   /\ uow'[w].objs[i].orig = WorkBefore(w).objs[i].orig
                   /\ ~Persistent(uow'[w].objs[i])
<1> DEFINE u == WorkBefore(w)
<1>1. /\ job[w].events # <<>> /\ Event(w).tractor # Null /\ w \in Session /\ job[w] \in Job
      /\ job[w].pc = "applying"
  BY SessionTypes DEF LoseRace, InsertReady, NeedsVisit, Applying
<1>2. u \in UnitOfWork
  BY <1>1, WorkBeforeOK
<1>3. uow'[w] = RolledBack(u) /\ \A s \in Session : s # w => uow'[s] = uow[s]
  BY <1>1 DEF LoseRace, TypeOK
<1>4. GoesOn(w, job[w].events) /\ job'[w].pc = "adopting"
  BY <1>1, <1>3 DEF LoseRace, GoesOn, Job, TypeOK
<1> DEFINE kindOf(o) == CASE o.kind = "stored"  -> "expired"
                          [] o.kind = "created" -> "transient"
                          [] OTHER              -> o.kind
           objs == [i \in VisitId |-> IF u.objs[i] = Null THEN Null
                                      ELSE [u.objs[i] EXCEPT !.kind = kindOf(u.objs[i])]]
<1>5. RolledBack(u) = [NoWork EXCEPT !.objs = objs]
  BY DEF RolledBack
<1>6. RolledBack(u).objs = objs /\ RolledBack(u).staged = NoWork.staged
  BY <1>5 DEF NoWork
<1>7. ASSUME NEW i \in VisitId, objs[i] # Null
      PROVE  /\ u.objs[i] # Null
             /\ objs[i].row = u.objs[i].row /\ objs[i].orig = u.objs[i].orig
             /\ ~Persistent(objs[i])
  <2>1. u.objs[i] # Null /\ u.objs[i] \in Instance
    BY <1>2, <1>7 DEF UnitOfWork
  <2>2. kindOf(u.objs[i]) \notin {"stored", "created"}
    BY <2>1 DEF Instance
  <2> HIDE DEF kindOf
  <2>3. objs[i] = [u.objs[i] EXCEPT !.kind = kindOf(u.objs[i])]
    BY <2>1
  <2>4. /\ objs[i].row = u.objs[i].row /\ objs[i].orig = u.objs[i].orig
        /\ objs[i].kind = kindOf(u.objs[i])
    BY <2>1, <2>3 DEF Instance
  <2> QED
    BY <2>1, <2>2, <2>4 DEF Persistent
<1> HIDE DEF objs
<1> QED
  BY <1>1, <1>3, <1>4, <1>6, <1>7, NoWorkOK

LEMMA AdoptShape ==
  ASSUME TypeOK, Held, NEW w \in Worker, Adopt(w)
  PROVE  /\ GoesOn(w, Tail(job[w].events)) /\ job'[w].pc = "applying"
         /\ job[w].events # <<>> /\ Event(w).tractor # Null /\ job[w].pc = "adopting"
         /\ uow'[w].staged = uow[w].staged
         /\ \A i \in VisitId :
              \/ uow'[w].objs[i] = uow[w].objs[i]
              \/ visits[i] # Null /\ Reads(uow'[w].objs[i], visits[i])
         /\ \/ /\ job'[w].active = [job[w].active EXCEPT ![Event(w).tractor] = Null]
               /\ uow'[w] = uow[w]
            \/ \E i \in OpenRows(visits) :
                 /\ visits[i].tractor = Event(w).tractor
                 /\ job'[w].active = [job[w].active EXCEPT ![Event(w).tractor] = i]
                 /\ \A k \in VisitId : k # i => uow'[w].objs[k] = uow[w].objs[k]
<1> DEFINE t     == Event(w).tractor
           found == {i \in OpenRows(visits) : visits[i].tractor = t}
<1>1. /\ job[w].events # <<>> /\ t # Null /\ w \in Session /\ job[w] \in Job
      /\ job[w].pc = "adopting" /\ uow[w] \in UnitOfWork
  BY SessionTypes DEF Adopt, Held, EventPending
<1>2. Handled(w) \in Job
  BY <1>1, HandledOK
<1>3. CASE /\ job' = [job EXCEPT ![w] = [Handled(w) EXCEPT
                !.pc = "applying", !.active[t] = Null, !.missing = @ \cup {t}]]
           /\ uow' = uow
  <2>1. /\ job'[w].events = Handled(w).events /\ job'[w].pc = "applying"
        /\ job'[w].active = [Handled(w).active EXCEPT ![t] = Null]
        /\ job'[w].begun = Handled(w).begun /\ job'[w].final = Handled(w).final
        /\ \A v \in Worker : v # w => job'[v] = job[v]
    BY <1>2, <1>3 DEF TypeOK, Job
  <2> QED
    BY <1>1, <1>3, <2>1, HandledShape DEF Adopt, GoesOn
<1>4. ASSUME NEW i \in found,
             job' = [job EXCEPT ![w] = [Handled(w) EXCEPT
                !.pc = "applying", !.active[t] = i, !.missing = @ \ {t}]],
             uow' = [uow EXCEPT ![w].objs[i] = Load(visits, {i})[i]]
      PROVE  /\ GoesOn(w, Tail(job[w].events)) /\ job'[w].pc = "applying"
             /\ uow'[w].staged = uow[w].staged
             /\ \A k \in VisitId :
                  \/ uow'[w].objs[k] = uow[w].objs[k]
                  \/ visits[k] # Null /\ Reads(uow'[w].objs[k], visits[k])
             /\ job'[w].active = [job[w].active EXCEPT ![t] = i]
             /\ \A k \in VisitId : k # i => uow'[w].objs[k] = uow[w].objs[k]
  <2>1. /\ job'[w].events = Handled(w).events /\ job'[w].pc = "applying"
        /\ job'[w].active = [Handled(w).active EXCEPT ![t] = i]
        /\ job'[w].begun = Handled(w).begun /\ job'[w].final = Handled(w).final
        /\ \A v \in Worker : v # w => job'[v] = job[v]
    BY <1>2, <1>4 DEF TypeOK, Job
  <2>2. i \in VisitId /\ visits[i] # Null
    BY DEF OpenRows
  <2>3. Reads(Load(visits, {i})[i], visits[i])
    BY <2>2 DEF Load, Reads
  <2>4. /\ uow'[w].staged = uow[w].staged
        /\ \A k \in VisitId :
             uow'[w].objs[k] = IF k = i THEN Load(visits, {i})[i] ELSE uow[w].objs[k]
        /\ \A s \in Session : s # w => uow'[s] = uow[s]
    BY <1>1, <1>4, <2>2 DEF TypeOK, UnitOfWork
  <2> QED
    BY <1>1, <2>1, <2>2, <2>3, <2>4, HandledShape DEF Adopt, GoesOn
<1> QED
  BY <1>1, <1>3, <1>4 DEF Adopt

LEMMA FinishedShape ==
  ASSUME TypeOK, NEW w \in Worker, NEW result, NEW lost, Finished(w, result, lost)
  PROVE  /\ now' = now /\ uow'[w] = NoWork
         /\ \A s \in Session : s # w => uow'[s] = uow[s]
         /\ \A v \in Worker : v # w => job'[v] = job[v]
         /\ job'[w] = NoJob(result, lost)
         /\ job'[w].pc = "idle" /\ job'[w].events = <<>>
         /\ job'[w].begun = 0 /\ job'[w].final = 0
  BY SessionTypes DEF Finished, NoJob, TypeOK

-----------------------------------------------------------------------------
(* The events of a batch stay in order.                                      *)

LEMMA FirstEvent ==
  ASSUME TypeOK, NEW w \in Worker, EventTimes(w), job[w].events # <<>>
  PROVE  /\ job[w].begun <= Event(w).at /\ Event(w).at <= now
         /\ \A k \in 1 .. Len(Tail(job[w].events)) :
              /\ Event(w).at <= Tail(job[w].events)[k].at
              /\ k + 1 \in 1 .. Len(job[w].events)
              /\ Tail(job[w].events)[k] = job[w].events[k + 1]
<1> DEFINE e == job[w].events
<1>1. e \in Seq(Detection) /\ e # <<>>
  BY SessionTypes DEF Job
<1>2. Event(w) = e[1] /\ 1 \in 1 .. Len(e)
  BY <1>1 DEF Event
<1>3. \A k \in 1 .. Len(Tail(e)) : k + 1 \in 1 .. Len(e) /\ Tail(e)[k] = e[k + 1]
  BY <1>1
<1> QED
  BY <1>2, <1>3 DEF EventTimes

LEMMA EventTimesKept ==
  ASSUME TypeOK, NEW w \in Worker, EventTimes(w), now' = now,
         job'[w].begun = job[w].begun, job'[w].final = job[w].final,
         \/ job'[w].events = job[w].events
         \/ job[w].events # <<>> /\ job'[w].events = Tail(job[w].events)
  PROVE  EventTimes(w)'
<1>1. CASE job'[w].events = job[w].events
  BY <1>1 DEF EventTimes
<1>2. CASE job[w].events # <<>> /\ job'[w].events = Tail(job[w].events)
  <2>1. job[w].events \in Seq(Detection)
    BY SessionTypes DEF Job
  <2> DEFINE e == job[w].events
             t == Tail(e)
  <2>2. \A k \in 1 .. Len(t) : k + 1 \in 1 .. Len(e) /\ t[k] = e[k + 1]
    BY <1>2, <2>1
  <2>3. \A k, l \in 1 .. Len(t) : k <= l => k + 1 <= l + 1
    BY <1>2, <2>1
  <2> QED
    BY <1>2, <2>2, <2>3 DEF EventTimes
<1> QED
  BY <1>1, <1>2

LEMMA MapEventTimes ==
  ASSUME TypeOK, NEW w \in Worker, EventTimes(w), MapEvent(w)
  PROVE  EventTimes(w)'
<1>1. PICK t \in Tractor \cup {Null} :
        job' = [job EXCEPT ![w] = [@ EXCEPT
          !.events = Append(job[w].events, [tractor |-> t, at |-> now]), !.final = now]]
  BY DEF MapEvent
<1> DEFINE e == job[w].events
           x == [tractor |-> t, at |-> now]
           a == Append(e, x)
<1>2. job[w] \in Job /\ e \in Seq(Detection) /\ x \in Detection /\ now \in Nat /\ x.at = now
  BY SessionTypes DEF Job, Detection, TypeOK
<1>3. /\ job'[w].begun = job[w].begun /\ job'[w].final = now /\ job'[w].events = a
      /\ now' = now
  BY <1>1, <1>2 DEF MapEvent, Job, TypeOK
<1> HIDE DEF x
<1>4. /\ Len(a) = Len(e) + 1 /\ Len(e) \in Nat
      /\ \A k \in 1 .. Len(a) : a[k] = IF k \in 1 .. Len(e) THEN e[k] ELSE x
      /\ \A k \in 1 .. Len(a) : k \in 1 .. Len(e) \/ k = Len(e) + 1
  BY <1>2
<1> HIDE DEF a
<1>5. \A k \in 1 .. Len(e) : job[w].begun <= e[k].at /\ e[k].at <= now
  BY DEF EventTimes
<1>6. job[w].begun <= now
  BY DEF EventTimes
<1>7. \A k \in 1 .. Len(a) : job[w].begun <= a[k].at /\ a[k].at <= now
  BY <1>2, <1>4, <1>5, <1>6
<1>8. ASSUME NEW k \in 1 .. Len(a), NEW l \in 1 .. Len(a), k <= l
      PROVE  a[k].at <= a[l].at
  <2>1. CASE l \in 1 .. Len(e)
    <3>1. k \in 1 .. Len(e)
      BY <1>4, <1>8, <2>1
    <3> QED
      BY <1>4, <1>8, <2>1, <3>1 DEF EventTimes
  <2>2. CASE l \notin 1 .. Len(e)
    BY <1>2, <1>4, <1>7, <2>2
  <2> QED
    BY <2>1, <2>2
<1> QED
  BY <1>2, <1>3, <1>6, <1>7, <1>8 DEF EventTimes

(* A task that is over has no events.                                        *)
LEMMA NoEventTimes ==
  ASSUME TypeOK, now' \in Nat, NEW w \in Worker,
         job'[w].events = <<>>, job'[w].begun <= now', job'[w].final <= now'
  PROVE  EventTimes(w)'
  BY DEF EventTimes

LEMMA InitTimes == Init => TimesInv
<1> SUFFICES ASSUME Init, NEW w \in Worker PROVE EventTimes(w)
  BY DEF TimesInv
<1>1. now = 0 /\ job[w].events = <<>> /\ job[w].begun = 0 /\ job[w].final = 0
  BY DEF Init, NoJob
<1> QED
  BY <1>1 DEF EventTimes

LEMMA NextTimes == OpenInv /\ TimesInv /\ [Next]_vars => TimesInv'
<1> SUFFICES ASSUME OpenInv, TimesInv, [Next]_vars, NEW w \in Worker PROVE EventTimes(w)'
  BY DEF TimesInv
<1>0. TypeOK /\ Held /\ EventTimes(w) /\ now \in Nat /\ w \in Session
  BY SessionTypes DEF OpenInv, TimesInv, TypeOK
<1>1. ASSUME now' = now, job'[w] = job[w] PROVE EventTimes(w)'
  BY <1>0, <1>1, EventTimesKept
<1>3. ASSUME NEW v \in Worker, NEW result, NEW lost, Finished(v, result, lost)
      PROVE  EventTimes(w)'
  <2>1. CASE v = w
    BY <1>0, <1>3, <2>1, FinishedShape, NoEventTimes
  <2>2. CASE v # w
    BY <1>0, <1>1, <1>3, <2>2, FinishedShape
  <2> QED
    BY <2>1, <2>2
<1>4. ASSUME NEW v \in Worker, WorkerStep(v) PROVE EventTimes(w)'
  <2>1. CASE MapEvent(v)
    <3>1. CASE v = w
      BY <1>0, <2>1, <3>1, MapEventTimes
    <3>2. CASE v # w
      BY <1>0, <1>1, <2>1, <3>2 DEF MapEvent, TypeOK
    <3> QED
      BY <3>1, <3>2
  <2>2. CASE NothingDetected(v)
    <3>1. /\ now' = now /\ job' = [job EXCEPT ![v] = NoJob("completed", FALSE)]
      BY <2>2 DEF NothingDetected
    <3>2. CASE v = w
      <4>1. job'[w].events = <<>> /\ job'[w].begun = 0 /\ job'[w].final = 0
        BY <1>0, <3>1, <3>2 DEF TypeOK, NoJob
      <4>2. now' = now
        BY <3>1
      <4>3. now' \in Nat /\ job'[w].begun <= now' /\ job'[w].final <= now'
        BY <1>0, <4>1, <4>2
      <4> QED
        BY <1>0, <4>1, <4>3, NoEventTimes
    <3>3. CASE v # w
      BY <1>0, <1>1, <3>1, <3>3 DEF TypeOK
    <3> QED
      BY <3>2, <3>3
  <2>3. CASE \/ LoadOpen(v) \/ SkipEvent(v) \/ TouchVisit(v)
             \/ CreateVisit(v) \/ LoseRace(v) \/ Adopt(v)
    <3>1. \/ GoesOn(v, job[v].events)
          \/ GoesOn(v, Tail(job[v].events)) /\ job[v].events # <<>>
      BY <1>0, <2>3, LoadOpenShape, SkipEventShape, TouchVisitShape, CreateVisitShape,
         LoseRaceShape, AdoptShape
    <3>2. CASE v = w
      BY <1>0, <3>1, <3>2, EventTimesKept DEF GoesOn
    <3>3. CASE v # w
      BY <1>1, <3>1, <3>3 DEF GoesOn
    <3> QED
      BY <3>2, <3>3
  <2>4. CASE CommitBatch(v) \/ FailBatch(v) \/ DeadlockVictim(v)
    BY <1>3, <2>4 DEF CommitBatch, FailBatch, DeadlockVictim
  <2> QED
    BY <1>4, <2>1, <2>2, <2>3, <2>4 DEF WorkerStep
<1>5. ASSUME NEW v \in Worker, Begin(v) PROVE EventTimes(w)'
  <2>1. /\ now' = now
        /\ job' = [job EXCEPT ![v] = [NoJob("none", FALSE) EXCEPT !.pc = "recognising",
                                                                  !.begun = now]]
    BY <1>5 DEF Begin
  <2>2. CASE v = w
    <3>1. job'[w].events = <<>> /\ job'[w].begun = now /\ job'[w].final = 0
      BY <1>0, <2>1, <2>2 DEF TypeOK, NoJob
    <3>2. now' = now
      BY <2>1
    <3>3. now' \in Nat /\ job'[w].begun <= now' /\ job'[w].final <= now'
      BY <1>0, <3>1, <3>2
    <3> QED
      BY <1>0, <3>1, <3>3, NoEventTimes
  <2>3. CASE v # w
    BY <1>0, <1>1, <2>1, <2>3 DEF TypeOK
  <2> QED
    BY <2>2, <2>3
<1>6. ASSUME NEW v \in Worker, Abort(v) PROVE EventTimes(w)'
  BY <1>3, <1>6 DEF Abort
<1>7. CASE CheckStale \/ CommitStale \/ UNCHANGED vars
  BY <1>1, <1>7 DEF CheckStale, CommitStale, vars
<1>8. CASE Crash
  <2>1. now' = now /\ job'[w] = NoJob("failed", TRUE)
    BY <1>8 DEF Crash
  <2> QED
    BY <1>0, <2>1, NoEventTimes DEF NoJob
<1>9. CASE Tick
  <2>1. now' = now + 1 /\ job' = job
    BY <1>9 DEF Tick
  <2>2. /\ job[w].begun \in Nat /\ job[w].final \in Nat
        /\ \A k \in 1 .. Len(job[w].events) : job[w].events[k].at \in Nat
    <3>1. job[w] \in Job /\ job[w].events \in Seq(Detection)
      BY <1>0, SessionTypes DEF Job
    <3>2. \A k \in 1 .. Len(job[w].events) : job[w].events[k] \in Detection
      BY <3>1
    <3> QED
      BY <3>1, <3>2 DEF Job, Detection
  <2>3. job[w].begun <= now + 1 /\ job[w].final <= now + 1
    BY <1>0, <2>2 DEF EventTimes
  <2>4. \A k \in 1 .. Len(job[w].events) : job[w].events[k].at <= now + 1
    BY <1>0, <2>2 DEF EventTimes
  <2> QED
    BY <1>0, <2>1, <2>3, <2>4 DEF EventTimes
<1> QED
  BY <1>4, <1>5, <1>6, <1>7, <1>8, <1>9 DEF Next, Quiescent

-----------------------------------------------------------------------------
(* What a flush and a commit leave in a row.                                 *)

(* A session that waits for nobody may flush.                                *)
LEMMA FlushingReady ==
  ASSUME NEW s \in Session, NEW u \in UnitOfWork, Usable(u), u.staged = uow[s].staged,
         Holders(s, u, Null) = {}, ~UpdatesVanished(s, u)
  PROVE  Flushing(s, u)
<1>1. ASSUME NEW r \in Session, NEW i \in Dirty(u) \cup u.deleted, r # s,
             uow[r].staged[i] # Null
      PROVE  FALSE
  <2>1. i \in VisitId
    BY DEF Dirty, UnitOfWork
  <2>2. r \in Holders(s, u, Null)
    BY <1>1, <2>1 DEF Holders
  <2> QED
    BY <2>2
<1> QED
  BY <1>1 DEF Flushing

LEMMA StagedRow ==
  ASSUME TypeOK, RowsChecked, NEW s \in Session, NEW u, Flushing(s, u), NEW i \in VisitId,
         Staged(s, u)[i] # Null
  PROVE  \/ i \notin Dirty(u) /\ Staged(s, u)[i] = uow[s].staged[i]
         \/ /\ i \in Dirty(u) /\ Persistent(u.objs[i]) /\ u.objs[i] # Null
            /\ u.objs[i] \in Instance /\ View(s)[i] \in Visit /\ RowOK(View(s)[i])
            /\ Staged(s, u)[i] = Merge(u.objs[i], View(s)[i])
<1>1. CASE i \in Dirty(u)
  <2>1. Persistent(u.objs[i]) /\ u.objs[i] # Null
    BY <1>1 DEF Dirty, Persistent
  <2>2. u.objs[i] \in Instance
    BY <2>1 DEF Flushing, UnitOfWork
  <2> QED
    BY <1>1, <2>1, <2>2, FlushedRow DEF Staged
<1>2. CASE i \notin Dirty(u)
  BY <1>2, UnflushedRow
<1> QED
  BY <1>1, <1>2

LEMMA CommittedRow ==
  ASSUME NEW s, NEW u, NEW i \in VisitId, Committed(s, u)[i] # Null
  PROVE  /\ i \notin u.deleted
         /\ Committed(s, u)[i] = IF Staged(s, u)[i] # Null THEN Staged(s, u)[i] ELSE visits[i]
  BY OverlayAt DEF Committed

-----------------------------------------------------------------------------
(* No departure is announced early.                                          *)

LEMMA AheadBackdated ==
  ASSUME TypeOK, NEW u \in UnitOfWork, NEW x \in UnitOfWork, NEW time \in Nat, time <= now,
         Ahead(u, x, time), WorkBackdated(u)
  PROVE  WorkBackdated(x)
<1> SUFFICES ASSUME NEW i \in VisitId
             PROVE  /\ x.staged[i] # Null => Backdated(x.staged[i])
                    /\ x.objs[i] # Null => Backdated(x.objs[i].row)
  BY DEF WorkBackdated
<1>1. x.staged[i] # Null => Backdated(x.staged[i])
  BY DEF Ahead, WorkBackdated
<1>2. ASSUME x.objs[i] # Null PROVE Backdated(x.objs[i].row)
  <2>1. u.objs[i] # Null /\ Quieted(u.objs[i].row, x.objs[i].row, time)
    BY <1>2 DEF Ahead
  <2>2. u.objs[i].row \in Visit /\ x.objs[i].row \in Visit
    BY <1>2, <2>1 DEF UnitOfWork, Instance
  <2>3. Backdated(u.objs[i].row) /\ now \in Nat
    BY <2>1 DEF WorkBackdated, TypeOK
  <2> QED
    BY <2>1, <2>2, <2>3, QuietedFits
<1> QED
  BY <1>1, <1>2

LEMMA StagedBackdated ==
  ASSUME TypeOK, RowsChecked, BackdatedInv, NEW s \in Session, NEW u, Flushing(s, u),
         WorkBackdated(u), NEW i \in VisitId, Staged(s, u)[i] # Null
  PROVE  Backdated(Staged(s, u)[i])
<1>1. CASE Staged(s, u)[i] = uow[s].staged[i]
  BY <1>1 DEF BackdatedInv, WorkBackdated
<1>2. CASE /\ u.objs[i] # Null /\ u.objs[i] \in Instance
           /\ View(s)[i] \in Visit /\ RowOK(View(s)[i])
           /\ Staged(s, u)[i] = Merge(u.objs[i], View(s)[i])
  <2>1. Backdated(u.objs[i].row)
    BY <1>2 DEF WorkBackdated
  <2>2. View(s)[i] # Null
    BY <1>2, NullAssumption
  <2>3. Backdated(View(s)[i])
    BY <2>2, ViewOK DEF BackdatedInv, WorkBackdated
  <2> QED
    BY <1>2, <2>1, <2>3, MergeBackdated
<1> QED
  BY <1>1, <1>2, StagedRow

LEMMA NoWorkBackdated == WorkBackdated(NoWork)
  BY NoWorkOK DEF WorkBackdated

(* A step of one session that leaves the table alone ...                     *)
LEMMA LocalBackdated ==
  ASSUME BackdatedInv, NEW s \in Session, now' = now, visits' = visits,
         \A r \in Session : r # s => uow'[r] = uow[r],
         WorkBackdated(uow'[s])
  PROVE  BackdatedInv'
<1>1. \A i \in VisitId : visits[i] # Null => Backdated(visits[i])
  BY DEF BackdatedInv
<1>2. \A r \in Session : WorkBackdated(uow'[r])
  BY DEF BackdatedInv
<1>3. now' = now
  OBVIOUS
<1> QED
  BY <1>1, <1>2, <1>3 DEF BackdatedInv, WorkBackdated, Backdated

(* ... and one that ends its transaction.                                    *)
LEMMA EndBackdated ==
  ASSUME OpenInv, BackdatedInv, NEW s \in Session, now' = now,
         \A r \in Session : r # s => uow'[r] = uow[r], uow'[s] = NoWork,
         \/ visits' = visits
         \/ \E u \in UnitOfWork : /\ Usable(u) /\ u.staged = uow[s].staged /\ WorkBackdated(u)
                                  /\ Holders(s, u, Null) = {} /\ CanCommit(s, u)
                                  /\ visits' = Committed(s, u)
  PROVE  BackdatedInv'
<1>1. \A i \in VisitId : visits'[i] # Null => Backdated(visits'[i])
  <2>1. CASE visits' = visits
    BY <2>1 DEF BackdatedInv
  <2>2. ASSUME NEW u \in UnitOfWork, Usable(u), u.staged = uow[s].staged, WorkBackdated(u),
               Holders(s, u, Null) = {}, CanCommit(s, u), visits' = Committed(s, u),
               NEW i \in VisitId, visits'[i] # Null
        PROVE  Backdated(visits'[i])
    <3>1. Flushing(s, u)
      BY <2>2, FlushingReady DEF CanCommit
    <3>2. visits'[i] = IF Staged(s, u)[i] # Null THEN Staged(s, u)[i] ELSE visits[i]
      BY <2>2, CommittedRow
    <3>3. TypeOK /\ RowsChecked
      BY DEF OpenInv, RowsInv
    <3>4. CASE Staged(s, u)[i] # Null
      BY <2>2, <3>1, <3>2, <3>3, <3>4, StagedBackdated
    <3>5. CASE Staged(s, u)[i] = Null
      BY <2>2, <3>2, <3>5 DEF BackdatedInv
    <3> QED
      BY <3>4, <3>5
  <2> QED
    BY <2>1, <2>2
<1>2. \A r \in Session : WorkBackdated(uow'[r])
  BY NoWorkBackdated DEF BackdatedInv
<1>3. now' = now
  OBVIOUS
<1> QED
  BY <1>1, <1>2, <1>3 DEF BackdatedInv, WorkBackdated, Backdated

LEMMA InitBackdated == Init => BackdatedInv
<1> SUFFICES ASSUME Init PROVE BackdatedInv
  OBVIOUS
<1>1. /\ \A s \in Session : uow[s] = NoWork
      /\ \A i \in VisitId : visits[i] = Null
  BY DEF Init
<1> QED
  BY <1>1, NoWorkBackdated DEF BackdatedInv

LEMMA LoadOpenBackdated ==
  ASSUME OpenInv, BackdatedInv, NEW w \in Worker, LoadOpen(w)
  PROVE  BackdatedInv'
<1>1. TypeOK /\ Held /\ w \in Session
  BY SessionTypes DEF OpenInv
<1>2. WorkBackdated(uow'[w])
  BY <1>1, LoadOpenShape DEF WorkBackdated, Reads, BackdatedInv
<1> QED
  BY <1>1, <1>2, LoadOpenShape, LocalBackdated DEF GoesOn

LEMMA TouchVisitBackdated ==
  ASSUME OpenInv, BackdatedInv, TimesInv, NEW w \in Worker, TouchVisit(w)
  PROVE  BackdatedInv'
<1>1. TypeOK /\ Held /\ w \in Session /\ uow[w] \in UnitOfWork /\ WorkBackdated(uow[w])
  BY SessionTypes DEF OpenInv, BackdatedInv
<1>2. /\ job[w].events # <<>> /\ Event(w).tractor # Null /\ ActiveId(w) # Null
      /\ ActiveId(w) \in VisitId
  BY <1>1, TouchVisitShape
<1>3. Event(w).at \in Nat /\ Event(w).at <= now /\ now \in Nat
  BY <1>1, <1>2, EventOK, FirstEvent DEF TimesInv, TypeOK
<1>4. WorkBefore(w) \in UnitOfWork /\ Ahead(uow[w], WorkBefore(w), Event(w).at)
  BY <1>1, <1>2, WorkBeforeOK, WorkBeforeAhead
<1>5. WorkBackdated(WorkBefore(w))
  BY <1>1, <1>3, <1>4, AheadBackdated
<1>6. Aged(w).row \in Visit /\ Backdated(Aged(w).row)
  <2>1. WorkBefore(w).objs[ActiveId(w)] = Aged(w)
    BY <1>1, <1>2 DEF WorkBefore, UnitOfWork
  <2>2. Aged(w) # Null /\ Aged(w) \in Instance
    BY <1>1, <1>2, AgedOK, InstanceAssumption
  <2> QED
    BY <1>2, <1>5, <2>1, <2>2 DEF WorkBackdated, Instance
<1>7. Backdated(ApplyTransition(Aged(w).row, Event(w).at))
  BY <1>3, <1>6, ApplyTransitionOK DEF Backdated
<1>8. WorkBackdated(uow'[w])
  BY <1>1, <1>2, <1>7, TouchVisitShape DEF WorkBackdated
<1> QED
  BY <1>1, <1>8, TouchVisitShape, LocalBackdated DEF GoesOn

LEMMA CreateVisitBackdated ==
  ASSUME OpenInv, BackdatedInv, TimesInv, NEW w \in Worker, CreateVisit(w)
  PROVE  BackdatedInv'
<1> DEFINE u   == WorkBefore(w)
           new == NewVisit(Event(w).tractor, Event(w).at, job[w].begun)
<1>1. /\ TypeOK /\ Held /\ RowsChecked /\ w \in Session /\ uow[w] \in UnitOfWork
      /\ WorkBackdated(uow[w]) /\ job[w].begun \in Nat
  BY SessionTypes DEF OpenInv, RowsInv, BackdatedInv, Job
<1>2. /\ job[w].events # <<>> /\ Event(w).tractor # Null /\ Event(w).tractor \in Tractor
      /\ Flushing(w, u)
  BY <1>1, CreateVisitShape, NullAssumption
<1>3. Event(w).at \in Nat /\ Event(w).at <= now /\ job[w].begun <= Event(w).at
  BY <1>1, <1>2, EventOK, FirstEvent DEF TimesInv
<1>4. u \in UnitOfWork /\ Ahead(uow[w], u, Event(w).at)
  BY <1>1, <1>2, WorkBeforeOK, WorkBeforeAhead
<1>5. WorkBackdated(u)
  BY <1>1, <1>3, <1>4, AheadBackdated
<1>6. Backdated(new)
  BY <1>1, <1>2, <1>3, NewVisitFits
<1>7. \A k \in VisitId : Staged(w, u)[k] # Null => Backdated(Staged(w, u)[k])
  BY <1>1, <1>2, <1>5, StagedBackdated
<1>8. PICK i \in VisitId :
        /\ \A k \in VisitId : WithInsert(w, i)[k] = IF k = i THEN new ELSE Staged(w, u)[k]
        /\ uow'[w].staged = WithInsert(w, i) /\ uow'[w].objs[i].row = new
        /\ \A k \in VisitId : k # i => uow'[w].objs[k] =
             IF k \in Dirty(u)
             THEN [u.objs[k] EXCEPT !.orig = u.objs[k].row, !.touched = FALSE, !.updated = TRUE]
             ELSE u.objs[k]
  BY <1>1, CreateVisitShape
<1> HIDE DEF u, new
<1>9. ASSUME NEW k \in VisitId, uow'[w].objs[k] # Null
      PROVE  Backdated(uow'[w].objs[k].row)
  <2>1. CASE k = i
    BY <1>6, <1>8, <2>1
  <2>2. CASE k # i /\ k \in Dirty(u)
    <3>1. u.objs[k] \in Instance /\ u.objs[k] # Null
      BY <1>4, <2>2 DEF Dirty, Persistent, UnitOfWork
    <3>2. uow'[w].objs[k].row = u.objs[k].row
      BY <1>8, <2>2, <3>1 DEF Instance
    <3> QED
      BY <1>5, <3>1, <3>2 DEF WorkBackdated
  <2>3. CASE k # i /\ k \notin Dirty(u)
    BY <1>5, <1>8, <1>9, <2>3 DEF WorkBackdated
  <2> QED
    BY <2>1, <2>2, <2>3
<1>10. WorkBackdated(uow'[w])
  BY <1>6, <1>7, <1>8, <1>9 DEF WorkBackdated
<1> QED
  BY <1>1, <1>10, CreateVisitShape, LocalBackdated DEF GoesOn

LEMMA LoseRaceBackdated ==
  ASSUME OpenInv, BackdatedInv, TimesInv, NEW w \in Worker, LoseRace(w)
  PROVE  BackdatedInv'
<1>1. TypeOK /\ Held /\ w \in Session /\ uow[w] \in UnitOfWork /\ WorkBackdated(uow[w])
  BY SessionTypes DEF OpenInv, BackdatedInv
<1>2. job[w].events # <<>> /\ Event(w).tractor # Null
  BY <1>1, LoseRaceShape
<1>3. Event(w).at \in Nat /\ Event(w).at <= now
  BY <1>1, <1>2, EventOK, FirstEvent DEF TimesInv
<1>4. WorkBackdated(WorkBefore(w))
  BY <1>1, <1>2, <1>3, WorkBeforeOK, WorkBeforeAhead, AheadBackdated
<1>5. WorkBackdated(uow'[w])
  BY <1>1, <1>4, LoseRaceShape DEF WorkBackdated
<1> QED
  BY <1>1, <1>5, LoseRaceShape, LocalBackdated DEF GoesOn

LEMMA AdoptBackdated ==
  ASSUME OpenInv, BackdatedInv, NEW w \in Worker, Adopt(w)
  PROVE  BackdatedInv'
<1>1. TypeOK /\ Held /\ w \in Session /\ WorkBackdated(uow[w])
  BY SessionTypes DEF OpenInv, BackdatedInv
<1>2. WorkBackdated(uow'[w])
  BY <1>1, AdoptShape DEF WorkBackdated, Reads, BackdatedInv
<1> QED
  BY <1>1, <1>2, AdoptShape, LocalBackdated DEF GoesOn

LEMMA FinishedBackdated ==
  ASSUME OpenInv, BackdatedInv, TimesInv, NEW w \in Worker, NEW result, NEW lost,
         Finished(w, result, lost),
         visits' = visits \/ CommitBatch(w)
  PROVE  BackdatedInv'
<1>1. TypeOK /\ Held /\ w \in Session /\ uow[w] \in UnitOfWork /\ WorkBackdated(uow[w])
  BY SessionTypes DEF OpenInv, BackdatedInv
<1>2. job[w].final \in Nat /\ job[w].final <= now
  BY <1>1, SessionTypes DEF TimesInv, EventTimes, Job
<1>3. /\ FinalWork(w) \in UnitOfWork /\ Usable(FinalWork(w))
      /\ FinalWork(w).staged = uow[w].staged /\ WorkBackdated(FinalWork(w))
  BY <1>1, <1>2, FinalWorkOK, FinalWorkAhead, AheadBackdated
<1>4. \/ visits' = visits
      \/ /\ Holders(w, FinalWork(w), Null) = {} /\ CanCommit(w, FinalWork(w))
         /\ visits' = Committed(w, FinalWork(w))
  BY DEF CommitBatch
<1> QED
  BY <1>1, <1>3, <1>4, FinishedShape, EndBackdated

(* What a pass of the stale check works on.                                  *)
LEMMA CheckStaleShape ==
  ASSUME TypeOK, CheckStale
  PROVE  /\ now' = now /\ visits' = visits /\ job' = job
         /\ \A s \in Session : s # StaleCheck => uow'[s] = uow[s]
         /\ \A i \in VisitId :
              /\ uow'[StaleCheck].staged[i] = Null
              /\ uow'[StaleCheck].objs[i] # Null =>
                   /\ visits[i] # Null /\ uow'[StaleCheck].objs[i].orig = visits[i]
                   /\ Quieted(visits[i], uow'[StaleCheck].objs[i].row, now)
<1> DEFINE open    == OpenRows(visits)
           loaded  == Load(visits, open)
           objs    == Forced(loaded, open, now)
           u       == [NoWork EXCEPT !.objs = objs, !.deleted = Expiring(loaded, open, now)]
<1>1. /\ now \in Nat /\ open \in SUBSET VisitId /\ \A i \in open : visits[i] # Null
      /\ visits \in [VisitId -> Visit \cup {Null}]
  BY DEF OpenRows, TypeOK
<1>2. uow' = [uow EXCEPT ![StaleCheck] = u] /\ now' = now /\ visits' = visits /\ job' = job
  BY DEF CheckStale
<1>3. loaded \in [VisitId -> Instance \cup {Null}]
  BY <1>1 DEF Load, Instance
<1>4. \A i \in VisitId : loaded[i] # Null => i \in open /\ Reads(loaded[i], visits[i])
  BY <1>1, LoadReads
<1> HIDE DEF open, loaded
<1>5. \A i \in VisitId : objs[i] # Null =>
        /\ visits[i] # Null /\ objs[i].orig = visits[i]
        /\ Quieted(visits[i], objs[i].row, now)
  BY <1>1, <1>3, <1>4, ForcedAhead DEF Reads
<1> HIDE DEF objs
<1>6. u.objs = objs /\ u.staged = NoWork.staged
  BY DEF NoWork
<1>7. uow'[StaleCheck] = u /\ \A s \in Session : s # StaleCheck => uow'[s] = uow[s]
  BY <1>2, SessionTypes DEF TypeOK
<1> HIDE DEF u
<1> QED
  BY <1>2, <1>5, <1>6, <1>7, NoWorkOK

LEMMA CheckStaleBackdated ==
  ASSUME OpenInv, BackdatedInv, CheckStale
  PROVE  BackdatedInv'
<1>1. TypeOK /\ StaleCheck \in Session /\ now \in Nat /\ TypeOK'
  BY SessionTypes, CheckStaleStep DEF OpenInv, TypeOK
<1>2. WorkBackdated(uow'[StaleCheck])
  <2> SUFFICES ASSUME NEW i \in VisitId, uow'[StaleCheck].objs[i] # Null
               PROVE  Backdated(uow'[StaleCheck].objs[i].row)
    BY <1>1, CheckStaleShape DEF WorkBackdated
  <2>1. visits[i] # Null /\ Quieted(visits[i], uow'[StaleCheck].objs[i].row, now)
    BY <1>1, CheckStaleShape
  <2>2. visits[i] \in Visit /\ Backdated(visits[i])
    BY <1>1, <2>1 DEF TypeOK, BackdatedInv
  <2>3. uow'[StaleCheck].objs[i].row \in Visit
    BY <1>1, SessionTypes DEF TypeOK, UnitOfWork, Instance
  <2> QED
    BY <1>1, <2>1, <2>2, <2>3, QuietedFits
<1> QED
  BY <1>1, <1>2, CheckStaleShape, LocalBackdated

LEMMA CommitStaleBackdated ==
  ASSUME OpenInv, BackdatedInv, CommitStale
  PROVE  BackdatedInv'
<1> DEFINE u == uow[StaleCheck]
<1>1. /\ TypeOK /\ Held /\ StaleCheck \in Session /\ u \in UnitOfWork /\ WorkBackdated(u)
      /\ Usable(u)
  BY SessionTypes DEF OpenInv, BackdatedInv, Held, WorkUsable
<1>2. /\ now' = now /\ uow'[StaleCheck] = NoWork
      /\ \A s \in Session : s # StaleCheck => uow'[s] = uow[s]
      /\ Holders(StaleCheck, u, Null) = {}
      /\ visits' = visits \/ (CanCommit(StaleCheck, u) /\ visits' = Committed(StaleCheck, u))
  BY <1>1 DEF CommitStale, TypeOK
<1> QED
  BY <1>1, <1>2, EndBackdated

LEMMA NextBackdated == OpenInv /\ TimesInv /\ BackdatedInv /\ [Next]_vars => BackdatedInv'
<1> SUFFICES ASSUME OpenInv, TimesInv, BackdatedInv, [Next]_vars PROVE BackdatedInv'
  OBVIOUS
<1>0. TypeOK /\ Held
  BY DEF OpenInv
<1>1. ASSUME now' = now, visits' = visits, uow' = uow PROVE BackdatedInv'
  BY <1>1, SessionTypes, LocalBackdated, <1>0 DEF BackdatedInv
<1>2. ASSUME NEW w \in Worker, Begin(w) \/ WorkerStep(w) \/ Abort(w) PROVE BackdatedInv'
  <2>1. CASE Begin(w) \/ MapEvent(w) \/ NothingDetected(w) \/ SkipEvent(w)
    BY <1>1, <2>1 DEF Begin, MapEvent, NothingDetected, SkipEvent
  <2>2. CASE CommitBatch(w) \/ FailBatch(w) \/ DeadlockVictim(w) \/ Abort(w)
    BY <2>2, FinishedBackdated DEF CommitBatch, FailBatch, DeadlockVictim, Abort
  <2> QED
    BY <1>2, <2>1, <2>2, LoadOpenBackdated, TouchVisitBackdated, CreateVisitBackdated,
       LoseRaceBackdated, AdoptBackdated DEF WorkerStep
<1>3. CASE Crash
  <2>1. /\ \A s \in Session : uow'[s] = NoWork
        /\ \A i \in VisitId : visits'[i] \in {visits[i], Null}
        /\ now' = now
    BY <1>3 DEF Crash
  <2>2. \A i \in VisitId : visits'[i] # Null => Backdated(visits'[i])
    BY <2>1 DEF BackdatedInv
  <2>3. now' = now
    BY <2>1
  <2> QED
    BY <2>1, <2>2, <2>3, NoWorkOK DEF BackdatedInv, WorkBackdated, Backdated
<1>4. CASE Tick
  <2>1. now' = now + 1 /\ visits' = visits /\ uow' = uow /\ now \in Nat
    BY <1>0, <1>4 DEF Tick, TypeOK
  <2>2. ASSUME NEW v \in Visit, Backdated(v) PROVE v.departed # Null => v.departed + Exit <= now + 1
    BY <2>1, <2>2, Thresholds DEF Backdated, Visit
  <2>3. \A i \in VisitId : visits[i] # Null => visits[i] \in Visit /\ Backdated(visits[i])
    BY <1>0 DEF TypeOK, BackdatedInv
  <2>4. \A s \in Session, i \in VisitId :
          /\ uow[s].staged[i] # Null => uow[s].staged[i] \in Visit /\ Backdated(uow[s].staged[i])
          /\ uow[s].objs[i] # Null =>
               uow[s].objs[i].row \in Visit /\ Backdated(uow[s].objs[i].row)
    BY <1>0, SessionTypes DEF UnitOfWork, Instance, BackdatedInv, WorkBackdated
  <2>5. now' = now + 1
    BY <2>1
  <2>6. visits' = visits /\ uow' = uow
    BY <2>1
  <2> QED
    BY <2>2, <2>3, <2>4, <2>5, <2>6 DEF BackdatedInv, WorkBackdated, Backdated
<1>5. CASE UNCHANGED vars
  BY <1>1, <1>5 DEF vars
<1> QED
  BY <1>2, <1>3, <1>4, <1>5, CheckStaleBackdated, CommitStaleBackdated DEF Next, Quiescent

(* However background tasks, the stale check and crashes interleave, a row   *)
(* that shows a departure shows one at least an exit window old: every path  *)
(* through `_maybe_close_visit' waits for two windows and puts departed_at   *)
(* one after last_seen_at, and an UPDATE writes only what such a call left.  *)
THEOREM DepartedInThePast == Spec => []DepartureBackdated
<1>1. Init => OpenInv /\ TimesInv /\ BackdatedInv
  BY InitOpenInv, InitTimes, InitBackdated
<1>2. OpenInv /\ TimesInv /\ BackdatedInv /\ [Next]_vars
        => (OpenInv /\ TimesInv /\ BackdatedInv)'
  BY NextOpenInv, NextTimes, NextBackdated
<1>3. OpenInv /\ TimesInv /\ BackdatedInv => DepartureBackdated
  BY DEF BackdatedInv, Backdated, DepartureBackdated, Stored
<1> QED
  BY <1>1, <1>2, <1>3, PTL DEF Spec

-----------------------------------------------------------------------------
(* What one worker does to the instants.                                     *)

LEMMA AheadFits ==
  ASSUME TypeOK, NEW u \in UnitOfWork, NEW x \in UnitOfWork, NEW time \in Nat, time <= now,
         Ahead(u, x, time), NEW events, InstancesFit(u, events)
  PROVE  InstancesFit(x, events)
<1> SUFFICES ASSUME NEW i \in VisitId, x.objs[i] # Null
             PROVE  LET o == x.objs[i]
                        v == IF x.staged[i] # Null THEN x.staged[i] ELSE visits[i]
                    IN  /\ Advances(o) /\ o.row.seen <= now
                        /\ \A k \in 1 .. Len(events) : o.row.seen <= events[k].at
                        /\ Persistent(o) /\ v # Null => Agrees(o, v)
  BY DEF InstancesFit
<1> DEFINE o == x.objs[i]
           p == u.objs[i]
           v == IF u.staged[i] # Null THEN u.staged[i] ELSE visits[i]
<1>1. /\ p # Null /\ Quieted(p.row, o.row, time) /\ o.orig = p.orig /\ o.kind = p.kind
      /\ x.staged = u.staged
  BY DEF Ahead
<1>2. p.row \in Visit /\ o.row \in Visit /\ now \in Nat
  BY <1>1 DEF UnitOfWork, Instance, TypeOK
<1>3. /\ Advances(p) /\ p.row.seen <= now
      /\ \A k \in 1 .. Len(events) : p.row.seen <= events[k].at
      /\ Persistent(p) /\ v # Null => Agrees(p, v)
  BY <1>1 DEF InstancesFit
<1>4. o.row.seen = p.row.seen /\ o.row.arrived = p.row.arrived /\ o.row.created = p.row.created
  BY <1>1, QuietedKeeps
<1>5. Genuine(o.row)
  BY <1>1, <1>2, <1>3, QuietedFits DEF Advances
<1>6. Advances(o)
  BY <1>1, <1>3, <1>4, <1>5 DEF Advances
<1>7. Persistent(o) => Persistent(p)
  BY <1>1 DEF Persistent
<1> HIDE DEF o, p, v
<1>8. Persistent(o) /\ v # Null => Agrees(o, v)
  BY <1>1, <1>3, <1>4, <1>7 DEF Agrees
<1>9. o.row.seen <= now /\ \A k \in 1 .. Len(events) : o.row.seen <= events[k].at
  BY <1>3, <1>4
<1> QED
  BY <1>1, <1>6, <1>8, <1>9 DEF o, v

LEMMA StagedFollowsOn ==
  ASSUME OpenInv, SoloInv, NEW w \in Worker, NEW u, Flushing(w, u),
         InstancesFit(u, job[w].events), NEW i \in VisitId, Staged(w, u)[i] # Null
  PROVE  LET m == Staged(w, u)[i]
             row == u.objs[i].row
         IN  /\ Genuine(m) /\ m.seen <= now
             /\ visits[i] # Null =>
                  /\ visits[i].seen <= m.seen
                  /\ visits[i].arrived # Null => m.arrived = visits[i].arrived
             /\ visits[i] = Null => uow[StaleCheck].objs[i] = Null
             /\ i \in Dirty(u) =>
                  /\ m.seen = row.seen /\ m.acc = row.acc /\ m.arrived = row.arrived
                  /\ m.created = row.created
<1> DEFINE m == Staged(w, u)[i]
           o == u.objs[i]
           v == View(w)[i]
<1>1. /\ TypeOK /\ RowsChecked /\ w \in Session /\ StagedFits(uow[w], job[w].pc)
      /\ TableGenuine /\ visits[i] \in Visit \cup {Null} /\ now \in Nat
      /\ uow[w].staged[i] \in Visit \cup {Null} /\ u.staged = uow[w].staged
  BY SessionTypes DEF OpenInv, RowsInv, SoloInv, WorkerFits, TypeOK, Flushing
<1>2. CASE i \notin Dirty(u) /\ m = uow[w].staged[i]
  BY <1>1, <1>2 DEF StagedFits
<1>3. CASE /\ i \in Dirty(u) /\ Persistent(o) /\ o # Null
           /\ o \in Instance /\ v \in Visit /\ RowOK(v) /\ m = Merge(o, v)
  <2>1. /\ v # Null
        /\ v = IF uow[w].staged[i] # Null THEN uow[w].staged[i] ELSE visits[i]
    BY <1>1, <1>3, ViewOK, NullAssumption
  <2>2. Advances(o) /\ Agrees(o, v) /\ o.row.seen <= now
    BY <1>1, <1>3, <2>1 DEF InstancesFit
  <2>3. Genuine(v)
    BY <1>1, <2>1 DEF StagedFits, TableGenuine
  <2>4. /\ visits[i] # Null =>
             /\ visits[i].seen <= v.seen
             /\ visits[i].arrived # Null => v.arrived = visits[i].arrived
        /\ visits[i] = Null => uow[StaleCheck].objs[i] = Null
    BY <1>1, <1>3, <2>1 DEF StagedFits, Visit
  <2>5. /\ Genuine(m)
        /\ m.seen = o.row.seen /\ m.acc = o.row.acc
        /\ m.arrived = o.row.arrived /\ m.created = o.row.created
        /\ v.seen <= m.seen
        /\ v.arrived # Null => m.arrived = v.arrived
    BY <1>3, <2>2, <2>3, WorkerMerge
  <2>6. /\ v.seen \in Nat /\ m.seen \in Nat
        /\ visits[i] # Null => visits[i].seen \in Nat
    BY <1>1, <1>3, <2>5 DEF Visit, Instance
  <2> HIDE DEF m, v, o
  <2>7. visits[i] # Null =>
          /\ visits[i].seen <= m.seen
          /\ visits[i].arrived # Null => m.arrived = visits[i].arrived
    BY <2>4, <2>5, <2>6
  <2> QED
    BY <2>2, <2>4, <2>5, <2>7 DEF m, o
<1> QED
  BY <1>1, <1>2, <1>3, StagedRow

(* A step of the only worker that leaves the table alone.                    *)
LEMMA LocalFits ==
  ASSUME OpenInv, SoloInv, \A v, w \in Worker : v = w,
         NEW w \in Worker, NEW events, GoesOn(w, events),
         InstancesFit(uow'[w], events), StagedFits(uow'[w], job'[w].pc)
  PROVE  SoloInv'
<1>1. /\ now' = now /\ visits' = visits /\ uow'[StaleCheck] = uow[StaleCheck]
      /\ job[w].pc # "idle" /\ job'[w].pc # "idle" /\ job'[w].begun = job[w].begun
      /\ job'[w].events = events
  BY SessionTypes, SessionAssumption DEF GoesOn, OpenInv
<1>2. \A v \in Worker : v = w
  OBVIOUS
<1>3. TableGenuine'
  BY <1>1 DEF SoloInv, TableGenuine
<1>4. TableBehind'
  BY <1>1, <1>2 DEF SoloInv, TableBehind
<1>5. StaleInstances'
  BY <1>1 DEF SoloInv, StaleInstances
<1>6. InstancesFit(uow[w], job[w].events)'
  BY <1>1 DEF InstancesFit
<1>7. StagedFits(uow[w], job[w].pc)'
  BY <1>1 DEF StagedFits
<1>8. WorkerFits'
  BY <1>2, <1>6, <1>7 DEF WorkerFits
<1> QED
  BY <1>3, <1>4, <1>5, <1>8 DEF SoloInv

LEMMA LoadOpenFits ==
  ASSUME OpenInv, TimesInv, SoloInv, \A v, w \in Worker : v = w,
         NEW w \in Worker, LoadOpen(w)
  PROVE  SoloInv'
<1>1. /\ TypeOK /\ Held /\ GoesOn(w, job[w].events)
      /\ \A i \in VisitId :
           /\ uow'[w].staged[i] = Null
           /\ uow'[w].objs[i] # Null => visits[i] # Null /\ Reads(uow'[w].objs[i], visits[i])
  BY LoadOpenShape DEF OpenInv
<1>2. InstancesFit(uow'[w], job[w].events)
  <2> SUFFICES ASSUME NEW i \in VisitId, visits[i] # Null, Reads(uow'[w].objs[i], visits[i])
               PROVE  LET o == uow'[w].objs[i] IN
                      /\ Advances(o) /\ o.row.seen <= now
                      /\ \A k \in 1 .. Len(job[w].events) : o.row.seen <= job[w].events[k].at
                      /\ Agrees(o, visits[i])
    BY <1>1 DEF InstancesFit
  <2>1. /\ Genuine(visits[i]) /\ visits[i].seen <= now /\ visits[i].seen <= job[w].begun
        /\ visits[i] \in Visit
    BY <1>1 DEF SoloInv, TableGenuine, TableBehind, GoesOn, TypeOK
  <2>2. \A k \in 1 .. Len(job[w].events) : visits[i].seen <= job[w].events[k].at
    <3> SUFFICES ASSUME NEW k \in 1 .. Len(job[w].events)
                 PROVE  visits[i].seen <= job[w].events[k].at
      OBVIOUS
    <3>1. job[w].events \in Seq(Detection) /\ job[w].begun \in Nat
      BY <1>1, SessionTypes DEF Job
    <3>2. job[w].events[k] \in Detection
      BY <3>1
    <3>3. job[w].begun <= job[w].events[k].at
      BY DEF TimesInv, EventTimes
    <3>4. job[w].events[k].at \in Nat /\ visits[i].seen \in Nat
      BY <2>1, <3>2 DEF Visit, Detection
    <3> QED
      BY <2>1, <3>1, <3>3, <3>4
  <2>3. Advances(uow'[w].objs[i])
    BY <2>1 DEF Reads, Advances, Genuine, Visit
  <2> QED
    BY <2>1, <2>2, <2>3 DEF Reads, Agrees
<1>3. StagedFits(uow'[w], job'[w].pc)
  BY <1>1 DEF StagedFits
<1> QED
  BY <1>1, <1>2, <1>3, LocalFits

(* Fewer events are left.                                                    *)
LEMMA FewerEvents ==
  ASSUME TypeOK, NEW w \in Worker, job[w].events # <<>>, NEW seen,
         \A k \in 1 .. Len(job[w].events) : seen <= job[w].events[k].at
  PROVE  /\ seen <= Event(w).at
         /\ \A k \in 1 .. Len(Tail(job[w].events)) : seen <= Tail(job[w].events)[k].at
<1> DEFINE e == job[w].events
<1>1. e \in Seq(Detection) /\ e # <<>>
  BY SessionTypes DEF Job
<1>2. Event(w) = e[1] /\ 1 \in 1 .. Len(e)
  BY <1>1 DEF Event
<1>3. \A k \in 1 .. Len(Tail(e)) : k + 1 \in 1 .. Len(e) /\ Tail(e)[k] = e[k + 1]
  BY <1>1
<1> QED
  BY <1>2, <1>3

LEMMA FewerEventsFit ==
  ASSUME TypeOK, NEW w \in Worker, job[w].events # <<>>, NEW u,
         InstancesFit(u, job[w].events)
  PROVE  InstancesFit(u, Tail(job[w].events))
  BY FewerEvents DEF InstancesFit

LEMMA SkipEventFits ==
  ASSUME OpenInv, SoloInv, \A v, w \in Worker : v = w, NEW w \in Worker, SkipEvent(w)
  PROVE  SoloInv'
<1>1. /\ TypeOK /\ Held /\ GoesOn(w, Tail(job[w].events)) /\ job'[w].pc = job[w].pc
      /\ job[w].events # <<>> /\ uow' = uow
  BY SkipEventShape DEF OpenInv
<1>2. InstancesFit(uow[w], Tail(job[w].events)) /\ StagedFits(uow[w], job[w].pc)
  BY <1>1, FewerEventsFit DEF SoloInv, WorkerFits
<1>3. uow'[w] = uow[w]
  BY <1>1
<1>4. InstancesFit(uow'[w], Tail(job[w].events)) /\ StagedFits(uow'[w], job'[w].pc)
  BY <1>1, <1>2, <1>3
<1> QED
  BY <1>1, <1>4, LocalFits

(* What a task works with when it gets to an event.                          *)
LEMMA WorkBeforeFits ==
  ASSUME OpenInv, TimesInv, SoloInv, NEW w \in Worker, job[w].events # <<>>,
         Event(w).tractor # Null
  PROVE  /\ Event(w).at \in Nat /\ Event(w).at <= now
         /\ WorkBefore(w) \in UnitOfWork /\ WorkBefore(w).staged = uow[w].staged
         /\ InstancesFit(WorkBefore(w), job[w].events)
         /\ StagedFits(uow[w], job[w].pc)
<1>1. /\ TypeOK /\ Held /\ w \in Session /\ uow[w] \in UnitOfWork
      /\ InstancesFit(uow[w], job[w].events) /\ StagedFits(uow[w], job[w].pc)
  BY SessionTypes DEF OpenInv, SoloInv, WorkerFits
<1>2. Event(w).at \in Nat /\ Event(w).at <= now
  BY <1>1, EventOK, FirstEvent DEF TimesInv
<1>3. /\ WorkBefore(w) \in UnitOfWork /\ WorkBefore(w).staged = uow[w].staged
      /\ Ahead(uow[w], WorkBefore(w), Event(w).at)
  BY <1>1, WorkBeforeOK, WorkBeforeAhead
<1> QED
  BY <1>1, <1>2, <1>3, AheadFits

LEMMA TouchVisitFits ==
  ASSUME OpenInv, TimesInv, SoloInv, \A v, w \in Worker : v = w,
         NEW w \in Worker, TouchVisit(w)
  PROVE  SoloInv'
<1> DEFINE at   == Event(w).at
           a    == ActiveId(w)
           rest == Tail(job[w].events)
           u    == WorkBefore(w)
           o    == Aged(w)
           x    == uow'[w].objs[a]
<1>1. /\ TypeOK /\ Held /\ uow[w] \in UnitOfWork /\ w \in Session /\ now \in Nat
      /\ GoesOn(w, rest) /\ job'[w].pc = job[w].pc
      /\ job[w].events # <<>> /\ Event(w).tractor # Null
      /\ a \in VisitId /\ a # Null /\ o.row.state # "CLOSED"
      /\ uow'[w].staged = uow[w].staged
      /\ \A i \in VisitId : i # a => uow'[w].objs[i] = uow[w].objs[i]
      /\ x.row = ApplyTransition(o.row, at) /\ x.orig = o.orig /\ x.kind = o.kind
  BY TouchVisitShape, SessionTypes DEF OpenInv, TypeOK
<1>2. /\ at \in Nat /\ at <= now /\ u.staged = uow[w].staged
      /\ InstancesFit(u, job[w].events) /\ StagedFits(uow[w], job[w].pc)
  BY <1>1, WorkBeforeFits
<1>3. InstancesFit(uow[w], rest)
  BY <1>1, FewerEventsFit DEF SoloInv, WorkerFits
<1>4. /\ o \in Instance /\ o # Null /\ o.row \in Visit /\ o.orig \in Visit
      /\ o.row.departed = Null /\ u.objs[a] = o
  <2>1. u.objs[a] = o
    BY <1>1 DEF WorkBefore, UnitOfWork
  <2>2. o \in Instance /\ Sound(o) /\ o # Null
    BY <1>1, AgedOK, InstanceAssumption
  <2> QED
    BY <1>1, <2>1, <2>2 DEF Instance, Sound
<1> DEFINE v == IF uow[w].staged[a] # Null THEN uow[w].staged[a] ELSE visits[a]
<1>5. /\ Advances(o) /\ \A k \in 1 .. Len(job[w].events) : o.row.seen <= job[w].events[k].at
      /\ Persistent(o) /\ v # Null => Agrees(o, v)
  BY <1>1, <1>2, <1>4 DEF InstancesFit
<1>6. o.row.seen <= at /\ \A k \in 1 .. Len(rest) : at <= rest[k].at
  BY <1>1, <1>5, FewerEvents, FirstEvent DEF TimesInv
<1> HIDE DEF at, o, u, a
<1>7. /\ Genuine(x.row) /\ x.row.seen = at /\ x.row.created = o.row.created
      /\ o.row.arrived # Null => x.row.arrived = o.row.arrived
  BY <1>1, <1>2, <1>4, <1>5, <1>6, ApplyTransitionFits DEF Advances
<1>8. Advances(x)
  <2>1. x.orig.seen <= x.row.seen
    BY <1>1, <1>2, <1>4, <1>5, <1>6, <1>7 DEF Advances, Visit
  <2> QED
    BY <1>1, <1>5, <1>7, <2>1 DEF Advances
<1>9. Persistent(x) /\ v # Null => Agrees(x, v)
  <2>1. Persistent(x) => Persistent(o)
    BY <1>1, <1>4 DEF Persistent
  <2> QED
    BY <1>1, <1>5, <1>7, <2>1 DEF Agrees
<1>10. x.row.seen <= now /\ \A k \in 1 .. Len(rest) : x.row.seen <= rest[k].at
  BY <1>2, <1>6, <1>7
<1>11. InstancesFit(uow'[w], rest)
  <2> SUFFICES ASSUME NEW i \in VisitId, uow'[w].objs[i] # Null
               PROVE  LET p == uow'[w].objs[i]
                          z == IF uow'[w].staged[i] # Null THEN uow'[w].staged[i] ELSE visits[i]
                      IN  /\ Advances(p) /\ p.row.seen <= now
                          /\ \A k \in 1 .. Len(rest) : p.row.seen <= rest[k].at
                          /\ Persistent(p) /\ z # Null => Agrees(p, z)
    BY DEF InstancesFit
  <2>1. CASE i = a
    BY <1>1, <1>8, <1>9, <1>10, <2>1
  <2>2. CASE i # a
    BY <1>1, <1>3, <2>2 DEF InstancesFit
  <2> QED
    BY <2>1, <2>2
<1>12. StagedFits(uow'[w], job'[w].pc)
  BY <1>1, <1>2 DEF StagedFits
<1> QED
  BY <1>1, <1>11, <1>12, LocalFits

LEMMA CreateVisitFits ==
  ASSUME OpenInv, TimesInv, SoloInv, \A v, w \in Worker : v = w,
         NEW w \in Worker, CreateVisit(w)
  PROVE  SoloInv'
<1> DEFINE at   == Event(w).at
           rest == Tail(job[w].events)
           u    == WorkBefore(w)
           new  == NewVisit(Event(w).tractor, at, job[w].begun)
           S    == Staged(w, u)
<1>1. /\ TypeOK /\ Held /\ w \in Session /\ now \in Nat /\ job[w].begun \in Nat
      /\ GoesOn(w, rest) /\ job'[w].pc = job[w].pc /\ job'[w].pc # "adopting"
      /\ job[w].events # <<>> /\ Event(w).tractor \in Tractor /\ Event(w).tractor # Null
      /\ Flushing(w, u)
  <2>1. TypeOK /\ Held /\ w \in Session /\ now \in Nat /\ job[w].begun \in Nat
    BY SessionTypes DEF OpenInv, TypeOK, Job
  <2>2. /\ GoesOn(w, rest) /\ job'[w].pc = "applying" /\ job[w].pc = "applying"
        /\ job[w].events # <<>> /\ Event(w).tractor \in Tractor /\ Flushing(w, u)
    BY <2>1, CreateVisitShape
  <2> QED
    BY <2>1, <2>2, NullAssumption
<1>2. /\ at \in Nat /\ at <= now /\ u \in UnitOfWork /\ u.staged = uow[w].staged
      /\ InstancesFit(u, job[w].events) /\ StagedFits(uow[w], job[w].pc)
  BY <1>1, WorkBeforeFits
<1>3. job[w].begun <= at /\ \A k \in 1 .. Len(rest) : at <= rest[k].at
  BY <1>1, FirstEvent DEF TimesInv
<1>4. /\ Genuine(new) /\ new.seen = at /\ new.arrived = Null /\ new.state = "ENTERING"
      /\ new \in Visit /\ new # Null
  BY <1>1, <1>2, <1>3, NewVisitFits, NewVisitOK, NullAssumption
<1>5. PICK i \in VisitId :
        /\ visits[i] = Null /\ i \notin Dirty(u)
        /\ \A s \in Session : uow[s].objs[i] = Null /\ uow[s].staged[i] = Null
        /\ \A k \in VisitId : WithInsert(w, i)[k] = IF k = i THEN new ELSE S[k]
        /\ uow'[w].staged = WithInsert(w, i)
        /\ uow'[w].objs[i].row = new /\ uow'[w].objs[i].orig = new
        /\ \A k \in VisitId : k # i => uow'[w].objs[k] =
             IF k \in Dirty(u)
             THEN [u.objs[k] EXCEPT !.orig = u.objs[k].row, !.touched = FALSE, !.updated = TRUE]
             ELSE u.objs[k]
  BY <1>1, CreateVisitShape
<1>6. InstancesFit(u, rest)
  BY <1>1, <1>2, FewerEventsFit
<1>7. StaleCheck \in Session
  BY <1>1, SessionTypes
<1> DEFINE p(k) == uow'[w].objs[k]
           z(k) == IF uow'[w].staged[k] # Null THEN uow'[w].staged[k] ELSE visits[k]
<1>8. ASSUME NEW k \in VisitId, S[k] # Null
      PROVE  /\ Genuine(S[k]) /\ S[k].seen <= now
             /\ visits[k] # Null =>
                  /\ visits[k].seen <= S[k].seen
                  /\ visits[k].arrived # Null => S[k].arrived = visits[k].arrived
             /\ visits[k] = Null => uow[StaleCheck].objs[k] = Null
             /\ k \in Dirty(u) =>
                  /\ S[k].seen = u.objs[k].row.seen /\ S[k].acc = u.objs[k].row.acc
                  /\ S[k].arrived = u.objs[k].row.arrived
                  /\ S[k].created = u.objs[k].row.created
  BY <1>1, <1>2, <1>8, StagedFollowsOn
<1>9. \A k \in Dirty(u) : S[k] # Null
  BY <1>1, FlushedRow DEF OpenInv, RowsInv
<1>10. \A k \in VisitId : k \notin Dirty(u) => S[k] = u.staged[k]
  BY <1>1, <1>2, UnflushedRow
<1> HIDE DEF at, u, new, S, rest
<1>11. ASSUME NEW k \in VisitId, p(k) # Null
       PROVE  /\ Advances(p(k)) /\ p(k).row.seen <= now
              /\ \A l \in 1 .. Len(rest) : p(k).row.seen <= rest[l].at
              /\ Persistent(p(k)) /\ z(k) # Null => Agrees(p(k), z(k))
  <2>1. CASE k = i
    <3>1. z(k) = new /\ p(k).row = new /\ p(k).orig = new
      BY <1>4, <1>5, <2>1
    <3>2. Advances(p(k))
      BY <1>2, <1>4, <3>1 DEF Advances
    <3>3. Agrees(p(k), z(k))
      BY <3>1 DEF Agrees
    <3> HIDE DEF p, z
    <3> QED
      BY <1>2, <1>3, <1>4, <3>1, <3>2, <3>3
  <2>2. CASE k # i /\ k \in Dirty(u)
    <3>1. u.objs[k] \in Instance /\ u.objs[k] # Null /\ u.objs[k].row \in Visit
      BY <1>2, <2>2 DEF Dirty, Persistent, UnitOfWork, Instance
    <3>2. p(k).row = u.objs[k].row /\ p(k).orig = u.objs[k].row
      BY <1>5, <2>2, <3>1 DEF Instance
    <3>3. z(k) = S[k]
      BY <1>5, <1>9, <2>2
    <3>4. /\ Advances(u.objs[k]) /\ u.objs[k].row.seen <= now
          /\ \A l \in 1 .. Len(rest) : u.objs[k].row.seen <= rest[l].at
      BY <1>6, <3>1 DEF InstancesFit
    <3>5. Advances(p(k))
      BY <3>1, <3>2, <3>4 DEF Advances, Genuine, Visit
    <3>6. Agrees(p(k), z(k))
      BY <1>8, <1>9, <2>2, <3>2, <3>3 DEF Agrees
    <3> HIDE DEF p, z
    <3> QED
      BY <3>2, <3>4, <3>5, <3>6
  <2>3. CASE k # i /\ k \notin Dirty(u)
    <3>1. p(k) = u.objs[k] /\ z(k) = IF u.staged[k] # Null THEN u.staged[k] ELSE visits[k]
      BY <1>5, <1>10, <2>3
    <3>2. u.objs[k] # Null
      BY <1>11, <3>1
    <3> HIDE DEF p, z
    <3> QED
      BY <1>6, <3>1, <3>2 DEF InstancesFit
  <2> QED
    BY <2>1, <2>2, <2>3
<1>12. InstancesFit(uow'[w], rest)
  BY <1>11 DEF InstancesFit
<1>13. StagedFits(uow'[w], job'[w].pc)
  <2> SUFFICES ASSUME NEW k \in VisitId, uow'[w].staged[k] # Null
               PROVE  LET v == uow'[w].staged[k] IN
                      /\ Genuine(v) /\ v.seen <= now
                      /\ visits[k] # Null =>
                           /\ visits[k].seen <= v.seen
                           /\ visits[k].arrived # Null => v.arrived = visits[k].arrived
                      /\ visits[k] = Null => uow[StaleCheck].objs[k] = Null
    BY <1>1 DEF StagedFits
  <2>1. CASE k = i
    BY <1>2, <1>4, <1>5, <1>7, <2>1
  <2>2. CASE k # i
    <3>1. uow'[w].staged[k] = S[k]
      BY <1>5, <2>2
    <3> QED
      BY <1>8, <3>1
  <2> QED
    BY <2>1, <2>2
<1>14. GoesOn(w, rest)
  BY <1>1
<1> HIDE DEF p, z
<1> QED
  BY <1>12, <1>13, <1>14, LocalFits

LEMMA LoseRaceFits ==
  ASSUME OpenInv, TimesInv, SoloInv, \A v, w \in Worker : v = w,
         NEW w \in Worker, LoseRace(w)
  PROVE  SoloInv'
<1>1. /\ TypeOK /\ Held /\ GoesOn(w, job[w].events)
      /\ job[w].events # <<>> /\ Event(w).tractor # Null
      /\ \A i \in VisitId :
           /\ uow'[w].staged[i] = Null
           /\ uow'[w].objs[i] # Null =>
                /\ WorkBefore(w).objs[i] # Null
                /\ uow'[w].objs[i].row = WorkBefore(w).objs[i].row
                /\ uow'[w].objs[i].orig = WorkBefore(w).objs[i].orig
                /\ ~Persistent(uow'[w].objs[i])
  BY LoseRaceShape DEF OpenInv
<1>2. InstancesFit(WorkBefore(w), job[w].events)
  BY <1>1, WorkBeforeFits
<1>3. InstancesFit(uow'[w], job[w].events)
  BY <1>1, <1>2 DEF InstancesFit, Advances
<1>4. StagedFits(uow'[w], job'[w].pc)
  BY <1>1 DEF StagedFits
<1> QED
  BY <1>1, <1>3, <1>4, LocalFits

LEMMA AdoptFits ==
  ASSUME OpenInv, TimesInv, SoloInv, \A v, w \in Worker : v = w,
         NEW w \in Worker, Adopt(w)
  PROVE  SoloInv'
<1> DEFINE rest == Tail(job[w].events)
<1>1. /\ TypeOK /\ Held /\ GoesOn(w, rest) /\ job[w].events # <<>>
      /\ job[w].pc = "adopting" /\ job[w].begun \in Nat
      /\ uow'[w].staged = uow[w].staged
      /\ \A i \in VisitId :
           \/ uow'[w].objs[i] = uow[w].objs[i]
           \/ visits[i] # Null /\ Reads(uow'[w].objs[i], visits[i])
  BY AdoptShape, SessionTypes DEF OpenInv, Job
<1>2. \A i \in VisitId : uow[w].staged[i] = Null
  BY <1>1 DEF SoloInv, WorkerFits, StagedFits
<1>3. InstancesFit(uow[w], rest)
  BY <1>1, FewerEventsFit DEF SoloInv, WorkerFits
<1>4. InstancesFit(uow'[w], rest)
  <2> SUFFICES ASSUME NEW i \in VisitId, uow'[w].objs[i] # Null
               PROVE  LET o == uow'[w].objs[i] IN
                      /\ Advances(o) /\ o.row.seen <= now
                      /\ \A k \in 1 .. Len(rest) : o.row.seen <= rest[k].at
                      /\ Persistent(o) /\ visits[i] # Null => Agrees(o, visits[i])
    BY <1>1, <1>2 DEF InstancesFit
  <2>1. CASE uow'[w].objs[i] = uow[w].objs[i]
    BY <1>2, <1>3, <2>1 DEF InstancesFit
  <2>2. CASE visits[i] # Null /\ Reads(uow'[w].objs[i], visits[i])
    <3>1. /\ Genuine(visits[i]) /\ visits[i].seen <= now /\ visits[i].seen <= job[w].begun
          /\ visits[i] \in Visit
      BY <1>1, <2>2 DEF SoloInv, TableGenuine, TableBehind, TypeOK
    <3>2. ASSUME NEW k \in 1 .. Len(rest) PROVE visits[i].seen <= rest[k].at
      <4>1. rest \in Seq(Detection)
        BY <1>1, SessionTypes, EventOK
      <4>2. rest[k] \in Detection
        BY <4>1
      <4>3. rest[k].at \in Nat /\ visits[i].seen \in Nat
        BY <3>1, <4>2 DEF Visit, Detection
      <4>4. job[w].begun <= Event(w).at /\ Event(w).at <= rest[k].at /\ Event(w).at \in Nat
        BY <1>1, FirstEvent, EventOK DEF TimesInv
      <4> QED
        BY <1>1, <3>1, <4>3, <4>4
    <3>3. Advances(uow'[w].objs[i])
      BY <2>2, <3>1 DEF Reads, Advances, Genuine, Visit
    <3> QED
      BY <2>2, <3>1, <3>2, <3>3 DEF Reads, Agrees
  <2> QED
    BY <1>1, <2>1, <2>2
<1>5. StagedFits(uow'[w], job'[w].pc)
  BY <1>1, <1>2 DEF StagedFits
<1> QED
  BY <1>1, <1>4, <1>5, LocalFits

-----------------------------------------------------------------------------
(* The end of a transaction.                                                 *)

(* A task is over and its transaction is undone.                             *)
LEMMA DoneFits ==
  ASSUME OpenInv, SoloInv, \A v, w \in Worker : v = w, NEW w \in Worker,
         uow'[w] = NoWork, uow'[StaleCheck] = uow[StaleCheck], job'[w].pc = "idle",
         now' = now, TableGenuine', StaleInstances'
  PROVE  SoloInv'
<1>1. \A v \in Worker : v = w
  OBVIOUS
<1>2. TableBehind'
  BY <1>1 DEF TableBehind
<1>3. WorkerFits'
  BY <1>1, NoWorkOK DEF WorkerFits, InstancesFit, StagedFits
<1> QED
  BY <1>2, <1>3 DEF SoloInv

LEMMA GivingUpFits ==
  ASSUME OpenInv, SoloInv, \A v, w \in Worker : v = w, NEW w \in Worker, NEW result, NEW lost,
         Finished(w, result, lost), visits' = visits
  PROVE  SoloInv'
<1>1. /\ uow'[w] = NoWork /\ uow'[StaleCheck] = uow[StaleCheck] /\ job'[w].pc = "idle"
      /\ now' = now
  BY FinishedShape, SessionTypes, SessionAssumption DEF OpenInv
<1>2. TableGenuine'
  BY <1>1 DEF SoloInv, TableGenuine
<1>3. StaleInstances'
  BY <1>1 DEF SoloInv, StaleInstances
<1> QED
  BY <1>1, <1>2, <1>3, DoneFits

(* What a batch commits of a visit.                                          *)
LEMMA CommitBatchRows ==
  ASSUME OpenInv, TimesInv, SoloInv, NEW w \in Worker, CommitBatch(w),
         NEW i \in VisitId, visits'[i] # Null
  PROVE  /\ Genuine(visits'[i]) /\ visits'[i].seen <= now
         /\ visits[i] # Null =>
              /\ visits[i].seen <= visits'[i].seen
              /\ visits[i].arrived # Null => visits'[i].arrived = visits[i].arrived
         /\ visits[i] = Null => uow[StaleCheck].objs[i] = Null
<1> DEFINE u == FinalWork(w)
           S == Staged(w, u)
<1>1. /\ TypeOK /\ Held /\ w \in Session /\ uow[w] \in UnitOfWork
      /\ InstancesFit(uow[w], job[w].events)
      /\ job[w].final \in Nat /\ job[w].final <= now
  BY SessionTypes DEF OpenInv, SoloInv, WorkerFits, TimesInv, EventTimes, Job
<1>2. /\ u \in UnitOfWork /\ Usable(u) /\ u.staged = uow[w].staged
      /\ InstancesFit(u, job[w].events)
  BY <1>1, FinalWorkOK, FinalWorkAhead, AheadFits
<1>3. Flushing(w, u) /\ visits' = Committed(w, u)
  BY <1>1, <1>2, FlushingReady DEF CommitBatch, CanCommit
<1>4. visits'[i] = IF S[i] # Null THEN S[i] ELSE visits[i]
  BY <1>3, CommittedRow
<1>5. CASE S[i] # Null
  <2>1. visits'[i] = S[i]
    BY <1>4, <1>5
  <2> QED
    BY <1>2, <1>3, <1>5, <2>1, StagedFollowsOn
<1>6. CASE S[i] = Null
  <2>1. visits'[i] = visits[i] /\ visits[i] \in Visit
    BY <1>1, <1>4, <1>6 DEF TypeOK
  <2> QED
    BY <2>1 DEF SoloInv, TableGenuine, Visit
<1> QED
  BY <1>5, <1>6

LEMMA CommitBatchFits ==
  ASSUME OpenInv, TimesInv, SoloInv, \A v, w \in Worker : v = w,
         NEW w \in Worker, CommitBatch(w)
  PROVE  SoloInv' /\ SeenAdvances
<1>1. /\ TypeOK /\ Held /\ w \in Session /\ job[w].final \in Nat
      /\ Finished(w, "completed", job[w].lost)
  BY SessionTypes DEF OpenInv, CommitBatch, Job
<1>4. \A i \in VisitId : visits'[i] # Null =>
        /\ Genuine(visits'[i]) /\ visits'[i].seen <= now
        /\ visits[i] # Null =>
             /\ visits[i].seen <= visits'[i].seen
             /\ visits[i].arrived # Null => visits'[i].arrived = visits[i].arrived
        /\ visits[i] = Null => uow[StaleCheck].objs[i] = Null
  BY CommitBatchRows
<1>5. /\ uow'[w] = NoWork /\ uow'[StaleCheck] = uow[StaleCheck] /\ job'[w].pc = "idle"
      /\ now' = now
  BY <1>1, FinishedShape, SessionTypes, SessionAssumption
<1>6. TableGenuine'
  BY <1>4, <1>5 DEF TableGenuine
<1>7. StaleInstances'
  <2> SUFFICES ASSUME NEW i \in VisitId
               PROVE  /\ uow[StaleCheck].staged[i] = Null
                      /\ LET o == uow[StaleCheck].objs[i] IN o # Null =>
                           /\ Quieted(o.orig, o.row, now) /\ Genuine(o.orig)
                           /\ visits'[i] # Null /\ o.orig.arrived # Null =>
                                visits'[i].arrived = o.orig.arrived
    BY <1>5 DEF StaleInstances
  <2> QED
    BY <1>4 DEF SoloInv, StaleInstances
<1>8. SeenAdvances
  BY <1>4 DEF SeenAdvances, Stored
<1> QED
  BY <1>5, <1>6, <1>7, <1>8, DoneFits

LEMMA CheckStaleFits ==
  ASSUME OpenInv, SoloInv, CheckStale
  PROVE  SoloInv'
<1>1. /\ TypeOK /\ now' = now /\ visits' = visits /\ job' = job
      /\ \A w \in Worker : uow'[w] = uow[w]
      /\ \A i \in VisitId :
           /\ uow'[StaleCheck].staged[i] = Null
           /\ uow'[StaleCheck].objs[i] # Null =>
                /\ visits[i] # Null /\ uow'[StaleCheck].objs[i].orig = visits[i]
                /\ Quieted(visits[i], uow'[StaleCheck].objs[i].row, now)
  BY CheckStaleShape, SessionTypes, SessionAssumption DEF OpenInv
<1>2. TableGenuine' /\ TableBehind'
  BY <1>1 DEF SoloInv, TableGenuine, TableBehind
<1>3. StaleInstances'
  BY <1>1 DEF SoloInv, TableGenuine, StaleInstances
<1>4. WorkerFits'
  <2> SUFFICES ASSUME NEW w \in Worker
               PROVE  (InstancesFit(uow[w], job[w].events))' /\ (StagedFits(uow[w], job[w].pc))'
    BY DEF WorkerFits
  <2>1. uow'[w] = uow[w] /\ job'[w] = job[w] /\ now' = now /\ visits' = visits
    BY <1>1
  <2>2. (InstancesFit(uow[w], job[w].events))'
    BY <2>1 DEF SoloInv, WorkerFits, InstancesFit
  <2>3. (StagedFits(uow[w], job[w].pc))'
    BY <1>1, <2>1 DEF SoloInv, WorkerFits, StagedFits
  <2> QED
    BY <2>2, <2>3
<1> QED
  BY <1>2, <1>3, <1>4 DEF SoloInv

(* A step of the stale check that leaves the instants of the visits alone.   *)
LEMMA SettlingFits ==
  ASSUME OpenInv, SoloInv, now' = now, job' = job, uow'[StaleCheck] = NoWork,
         \A w \in Worker : uow'[w] = uow[w],
         \A i \in VisitId : visits'[i] # Null =>
           /\ visits[i] # Null /\ Genuine(visits'[i])
           /\ visits'[i].seen = visits[i].seen /\ visits'[i].acc = visits[i].acc
           /\ visits'[i].arrived = visits[i].arrived /\ visits'[i].created = visits[i].created
  PROVE  SoloInv' /\ SeenAdvances
<1>1. TableGenuine'
  BY DEF SoloInv, TableGenuine
<1>2. TableBehind'
  BY DEF SoloInv, TableBehind
<1>3. StaleInstances'
  BY NoWorkOK DEF StaleInstances
<1>4. WorkerFits'
  <2> SUFFICES ASSUME NEW w \in Worker
               PROVE  (InstancesFit(uow[w], job[w].events))' /\ (StagedFits(uow[w], job[w].pc))'
    BY DEF WorkerFits
  <2>1. uow'[w] = uow[w] /\ job'[w] = job[w] /\ now' = now
    OBVIOUS
  <2>2. (InstancesFit(uow[w], job[w].events))'
    BY <2>1 DEF SoloInv, WorkerFits, InstancesFit, Agrees
  <2>3. (StagedFits(uow[w], job[w].pc))'
    BY <2>1, NoWorkOK DEF SoloInv, WorkerFits, StagedFits
  <2> QED
    BY <2>2, <2>3
<1>5. SeenAdvances
  <2> SUFFICES ASSUME NEW i \in VisitId, visits[i] # Null, visits'[i] # Null
               PROVE  visits[i].seen <= visits'[i].seen
    BY DEF SeenAdvances, Stored
  <2>1. visits[i].seen \in Nat
    BY DEF OpenInv, TypeOK, Visit
  <2> QED
    BY <2>1
<1> QED
  BY <1>1, <1>2, <1>3, <1>4, <1>5 DEF SoloInv

(* What the stale check commits: the end of some visits.                     *)
LEMMA CommitStaleRows ==
  ASSUME OpenInv, SoloInv, CommitStale, NEW i \in VisitId, visits'[i] # Null
  PROVE  /\ visits[i] # Null /\ Genuine(visits'[i])
         /\ visits'[i].tractor = visits[i].tractor
         /\ visits'[i].seen = visits[i].seen /\ visits'[i].acc = visits[i].acc
         /\ visits'[i].arrived = visits[i].arrived /\ visits'[i].created = visits[i].created
<1> DEFINE u == uow[StaleCheck]
           S == Staged(StaleCheck, u)
           o == u.objs[i]
<1>1. /\ TypeOK /\ Held /\ RowsChecked /\ StaleCheck \in Session /\ u \in UnitOfWork
      /\ Usable(u) /\ now \in Nat
  BY SessionTypes DEF OpenInv, Held, WorkUsable, TypeOK, RowsInv
<1>2. /\ Holders(StaleCheck, u, Null) = {}
      /\ visits' = visits \/ (CanCommit(StaleCheck, u) /\ visits' = Committed(StaleCheck, u))
  BY DEF CommitStale
<1>3. CASE visits' = visits
  BY <1>3 DEF SoloInv, TableGenuine
<1>4. CASE CanCommit(StaleCheck, u) /\ visits' = Committed(StaleCheck, u)
  <2>1. Flushing(StaleCheck, u)
    BY <1>1, <1>2, <1>4, FlushingReady DEF CanCommit
  <2>2. visits'[i] = IF S[i] # Null THEN S[i] ELSE visits[i]
    BY <1>4, CommittedRow
  <2>3. u.staged[i] = Null /\ View(StaleCheck)[i] = visits[i]
    BY <1>1, ViewOK DEF SoloInv, StaleInstances
  <2>4. CASE S[i] = Null
    BY <2>2, <2>4 DEF SoloInv, TableGenuine
  <2>5. CASE S[i] # Null
    <3>1. /\ i \in Dirty(u) /\ o # Null /\ o \in Instance /\ visits[i] \in Visit
          /\ RowOK(visits[i]) /\ S[i] = Merge(o, visits[i])
      BY <1>1, <2>1, <2>3, <2>5, StagedRow
    <3>2. visits[i] # Null
      BY <3>1, NullAssumption
    <3>3. /\ Quieted(o.orig, o.row, now) /\ Genuine(o.orig) /\ Genuine(visits[i])
          /\ o.orig.arrived # Null => visits[i].arrived = o.orig.arrived
      BY <3>1, <3>2 DEF SoloInv, StaleInstances, TableGenuine
    <3>4. visits'[i] = Merge(o, visits[i])
      BY <2>2, <2>5, <3>1
    <3>5. visits'[i].tractor = visits[i].tractor
      BY <1>1, <2>1, <2>2, <2>3, <2>5, <3>1, FlushedRow
    <3> HIDE DEF o
    <3> QED
      BY <1>1, <3>1, <3>2, <3>3, <3>4, <3>5, StaleMerge
  <2> QED
    BY <2>4, <2>5
<1> QED
  BY <1>2, <1>3, <1>4

LEMMA CommitStaleFits ==
  ASSUME OpenInv, SoloInv, CommitStale
  PROVE  SoloInv' /\ SeenAdvances
<1>1. /\ now' = now /\ job' = job /\ uow'[StaleCheck] = NoWork
      /\ \A w \in Worker : uow'[w] = uow[w]
  BY SessionTypes, SessionAssumption DEF CommitStale, OpenInv, TypeOK
<1>2. \A i \in VisitId : visits'[i] # Null =>
        /\ visits[i] # Null /\ Genuine(visits'[i])
        /\ visits'[i].seen = visits[i].seen /\ visits'[i].acc = visits[i].acc
        /\ visits'[i].arrived = visits[i].arrived /\ visits'[i].created = visits[i].created
  BY CommitStaleRows
<1> QED
  BY <1>1, <1>2, SettlingFits

LEMMA CrashFits ==
  ASSUME OpenInv, SoloInv, Crash
  PROVE  SoloInv' /\ SeenAdvances
<1>1. /\ now' = now
      /\ \A i \in VisitId : visits'[i] # Null => visits'[i] = visits[i]
      /\ \A s \in Session : uow'[s] = NoWork
      /\ \A w \in Worker : job'[w].pc = "idle"
  BY NoJobOK DEF Crash, NoJob
<1>2. TableGenuine'
  BY <1>1 DEF SoloInv, TableGenuine
<1>3. TableBehind'
  BY <1>1 DEF TableBehind
<1>4. WorkerFits'
  BY <1>1, NoWorkOK DEF WorkerFits, InstancesFit, StagedFits, Session
<1>5. StaleInstances'
  BY <1>1, NoWorkOK DEF StaleInstances, Session
<1>6. SeenAdvances
  <2>1. \A i \in VisitId : visits[i] # Null => visits[i].seen \in Nat
    BY DEF OpenInv, TypeOK, Visit
  <2> QED
    BY <1>1, <2>1 DEF SeenAdvances, Stored
<1> QED
  BY <1>2, <1>3, <1>4, <1>5, <1>6 DEF SoloInv

(* A step that only lets time pass.                                          *)
LEMMA TimeFits ==
  ASSUME OpenInv, SoloInv, UNCHANGED <<visits, uow, job>>, now' = now \/ now' = now + 1
  PROVE  SoloInv'
<1>1. /\ now \in Nat /\ now' \in Nat /\ now <= now'
      /\ \A i \in VisitId : visits[i] # Null => visits[i].seen \in Nat
      /\ \A w \in Worker, i \in VisitId :
           /\ uow[w].staged[i] # Null => uow[w].staged[i].seen \in Nat
           /\ uow[w].objs[i] # Null => uow[w].objs[i].row.seen \in Nat
      /\ \A i \in VisitId : uow[StaleCheck].objs[i] # Null =>
           uow[StaleCheck].objs[i].orig.seen \in Nat
  <2>1. now \in Nat /\ visits \in [VisitId -> Visit \cup {Null}]
    BY DEF OpenInv, TypeOK
  <2>2. \A s \in Session : /\ uow[s].staged \in [VisitId -> Visit \cup {Null}]
                           /\ uow[s].objs \in [VisitId -> Instance \cup {Null}]
    BY SessionTypes DEF OpenInv
  <2>3. \A s \in Session, i \in VisitId :
          /\ uow[s].staged[i] # Null => uow[s].staged[i] \in Visit
          /\ uow[s].objs[i] # Null => uow[s].objs[i] \in Instance
    BY <2>2
  <2>4. \A i \in VisitId : visits[i] # Null => visits[i] \in Visit
    BY <2>1
  <2> QED
    BY <2>1, <2>3, <2>4 DEF Session, Visit, Instance
<1>2. visits' = visits /\ uow' = uow /\ job' = job
  OBVIOUS
<1>3. TableGenuine'
  BY <1>1, <1>2 DEF SoloInv, TableGenuine
<1>4. TableBehind'
  BY <1>2 DEF SoloInv, TableBehind
<1>5. StaleInstances'
  <2> SUFFICES ASSUME NEW i \in VisitId
               PROVE  /\ uow[StaleCheck].staged[i] = Null
                      /\ LET o == uow[StaleCheck].objs[i] IN o # Null =>
                           /\ Quieted(o.orig, o.row, now') /\ Genuine(o.orig)
                           /\ visits[i] # Null /\ o.orig.arrived # Null =>
                                visits[i].arrived = o.orig.arrived
    BY <1>2 DEF StaleInstances
  <2>1. ASSUME NEW v, NEW x, v.seen \in Nat, Quieted(v, x, now) PROVE Quieted(v, x, now')
    BY <1>1, <2>1, Thresholds DEF Quieted
  <2> QED
    BY <1>1, <2>1 DEF SoloInv, StaleInstances
<1>6. WorkerFits'
  <2> SUFFICES ASSUME NEW w \in Worker
               PROVE  (InstancesFit(uow[w], job[w].events))' /\ (StagedFits(uow[w], job[w].pc))'
    BY DEF WorkerFits
  <2>1. (InstancesFit(uow[w], job[w].events))'
    <3>1. InstancesFit(uow[w], job[w].events)
      BY DEF SoloInv, WorkerFits
    <3>2. \A i \in VisitId : uow[w].objs[i] # Null => uow[w].objs[i].row.seen <= now'
      BY <1>1, <3>1 DEF InstancesFit
    <3> QED
      BY <1>2, <3>1, <3>2 DEF InstancesFit
  <2>2. (StagedFits(uow[w], job[w].pc))'
    BY <1>1, <1>2 DEF SoloInv, WorkerFits, StagedFits
  <2> QED
    BY <2>1, <2>2
<1> QED
  BY <1>3, <1>4, <1>5, <1>6 DEF SoloInv

(* A batch that begins or recognises something holds nothing.                *)
LEMMA RecognisingFits ==
  ASSUME OpenInv, TimesInv, SoloInv, \A v, w \in Worker : v = w, NEW w \in Worker,
         Begin(w) \/ MapEvent(w) \/ NothingDetected(w)
  PROVE  SoloInv'
<1>1. /\ now' = now /\ visits' = visits /\ uow' = uow /\ uow[w] = NoWork
      /\ \A v \in Worker : v = w
  BY DEF Begin, MapEvent, NothingDetected, OpenInv, Held, NothingHeld
<1>2. \/ job'[w].pc = "idle"
      \/ job'[w].begun = now
      \/ job'[w].begun = job[w].begun /\ job[w].pc # "idle"
  <2>1. job[w] \in Job /\ job \in [Worker -> Job]
    BY SessionTypes DEF OpenInv, TypeOK
  <2>2. CASE Begin(w)
    BY <2>1, <2>2 DEF Begin, NoJob
  <2>3. CASE MapEvent(w)
    <3>1. PICK t \in Tractor \cup {Null} :
            job' = [job EXCEPT ![w] = [@ EXCEPT
              !.events = Append(job[w].events, [tractor |-> t, at |-> now]), !.final = now]]
      BY <2>3 DEF MapEvent
    <3> DEFINE e == Append(job[w].events, [tractor |-> t, at |-> now])
    <3> HIDE DEF e
    <3>2. job'[w] = [job[w] EXCEPT !.events = e, !.final = now]
      BY <2>1, <3>1 DEF e
    <3>3. job'[w].begun = job[w].begun
      BY <2>1, <3>2 DEF Job
    <3> QED
      BY <2>3, <3>3 DEF MapEvent
  <2>4. CASE NothingDetected(w)
    BY <2>1, <2>4 DEF NothingDetected, NoJob
  <2> QED
    BY <2>2, <2>3, <2>4
<1>3. TableGenuine'
  BY <1>1 DEF SoloInv, TableGenuine
<1>4. TableBehind'
  BY <1>1, <1>2 DEF SoloInv, TableBehind, TableGenuine
<1>5. StaleInstances'
  BY <1>1 DEF SoloInv, StaleInstances
<1>6. WorkerFits'
  BY <1>1, NoWorkOK DEF WorkerFits, InstancesFit, StagedFits
<1> QED
  BY <1>3, <1>4, <1>5, <1>6 DEF SoloInv

-----------------------------------------------------------------------------
(* The induction with one worker.                                            *)

LEMMA InitSolo == Init => SoloInv
<1> SUFFICES ASSUME Init PROVE SoloInv
  OBVIOUS
<1>1. /\ \A s \in Session : uow[s] = NoWork
      /\ \A i \in VisitId : visits[i] = Null
  BY DEF Init
<1> QED
  BY <1>1, NoWorkOK
  DEF SoloInv, TableGenuine, TableBehind, WorkerFits, InstancesFit, StagedFits,
      StaleInstances, Session

LEMMA NextSolo ==
  ASSUME \A v, w \in Worker : v = w
  PROVE  OpenInv /\ TimesInv /\ SoloInv /\ [Next]_vars => SoloInv' /\ [SeenAdvances]_visits
<1> SUFFICES ASSUME OpenInv, TimesInv, SoloInv, [Next]_vars
             PROVE  SoloInv' /\ [SeenAdvances]_visits
  OBVIOUS
<1>1. ASSUME NEW w \in Worker, Begin(w) \/ WorkerStep(w) \/ Abort(w)
      PROVE  SoloInv' /\ [SeenAdvances]_visits
  <2>1. CASE Begin(w) \/ MapEvent(w) \/ NothingDetected(w)
    <3>1. SoloInv'
      BY <2>1, RecognisingFits
    <3> QED
      BY <2>1, <3>1 DEF Begin, MapEvent, NothingDetected
  <2>2. CASE LoadOpen(w) \/ SkipEvent(w) \/ TouchVisit(w) \/ CreateVisit(w) \/ LoseRace(w)
             \/ Adopt(w)
    <3>1. SoloInv'
      BY <2>2, LoadOpenFits, SkipEventFits, TouchVisitFits, CreateVisitFits, LoseRaceFits,
         AdoptFits
    <3>2. visits' = visits
      BY <2>2 DEF LoadOpen, SkipEvent, TouchVisit, CreateVisit, LoseRace, Adopt
    <3> QED
      BY <3>1, <3>2
  <2>3. CASE CommitBatch(w)
    BY <2>3, CommitBatchFits
  <2>4. CASE FailBatch(w) \/ DeadlockVictim(w) \/ Abort(w)
    <3>1. Finished(w, "failed", TRUE) /\ visits' = visits
      BY <2>4 DEF FailBatch, DeadlockVictim, Abort
    <3> QED
      BY <3>1, GivingUpFits
  <2> QED
    BY <1>1, <2>1, <2>2, <2>3, <2>4 DEF WorkerStep
<1>2. CASE CheckStale
  BY <1>2, CheckStaleFits DEF CheckStale
<1>3. CASE CommitStale
  BY <1>3, CommitStaleFits
<1>4. CASE Crash
  <2>1. SoloInv' /\ SeenAdvances
    BY <1>4, CrashFits
  <2> QED
    BY <2>1
<1>5. CASE Tick
  <2>1. UNCHANGED <<visits, uow, job>> /\ now' = now + 1
    BY <1>5 DEF Tick
  <2> QED
    BY <2>1, TimeFits
<1>6. CASE UNCHANGED vars
  <2>1. UNCHANGED <<visits, uow, job>> /\ now' = now
    BY <1>6 DEF vars
  <2> QED
    BY <2>1, TimeFits
<1> QED
  BY <1>1, <1>2, <1>3, <1>4, <1>5, <1>6 DEF Next, Quiescent

(* With one worker beside the stale check, a visit that is not ENTERING was  *)
(* confirmed: `_apply_state_transition' has added up Entry seconds of        *)
(* detections since the batch that opened it, although its row is written    *)
(* column by column by two sessions and some of what they read is stale.     *)
THEOREM ConfirmedInTime ==
  ASSUME \A v, w \in Worker : v = w
  PROVE  Spec => []ConfirmedBeforePresent
<1>1. Init => OpenInv /\ TimesInv /\ SoloInv
  BY InitOpenInv, InitTimes, InitSolo
<1>2. OpenInv /\ TimesInv /\ SoloInv /\ [Next]_vars => (OpenInv /\ TimesInv /\ SoloInv)'
  BY NextOpenInv, NextTimes, NextSolo
<1>3. SoloInv => ConfirmedBeforePresent
  BY DEF SoloInv, TableGenuine, Genuine, ConfirmedBeforePresent, Stored
<1> QED
  BY <1>1, <1>2, <1>3, PTL DEF Spec

(* With one worker beside the stale check, a closed visit lasted an exit     *)
(* window: `_maybe_close_visit' puts departed_at Exit after last_seen_at,    *)
(* and no session closes a visit on an arrival it has not read.              *)
THEOREM LastsAWindow ==
  ASSUME \A v, w \in Worker : v = w
  PROVE  Spec => []MinimalStay
<1>1. Init => OpenInv /\ TimesInv /\ SoloInv
  BY InitOpenInv, InitTimes, InitSolo
<1>2. OpenInv /\ TimesInv /\ SoloInv /\ [Next]_vars => (OpenInv /\ TimesInv /\ SoloInv)'
  BY NextOpenInv, NextTimes, NextSolo
<1>3. OpenInv /\ SoloInv => MinimalStay
  <2> SUFFICES ASSUME OpenInv, SoloInv, NEW i \in VisitId, visits[i] # Null,
                      visits[i].state = "CLOSED"
               PROVE  visits[i].arrived + Exit <= visits[i].departed
    BY DEF MinimalStay, Stored
  <2>1. visits[i].departed # Null
    BY DEF OpenInv, RowsInv, RowsChecked, RowOK
  <2> QED
    BY <2>1 DEF SoloInv, TableGenuine, Genuine
<1> QED
  BY <1>1, <1>2, <1>3, PTL DEF Spec

(* With one worker beside the stale check, no commit sets last_seen_at back: *)
(* the stale check never changes that column of what it read, so its UPDATE  *)
(* leaves out the value a batch has moved on since.                          *)
THEOREM NeverSetBack ==
  ASSUME \A v, w \in Worker : v = w
  PROVE  Spec => SeenNeverGoesBack
<1>1. Init => OpenInv /\ TimesInv /\ SoloInv
  BY InitOpenInv, InitTimes, InitSolo
<1>2. OpenInv /\ TimesInv /\ SoloInv /\ [Next]_vars => (OpenInv /\ TimesInv /\ SoloInv)'
  BY NextOpenInv, NextTimes, NextSolo
<1>3. OpenInv /\ TimesInv /\ SoloInv /\ [Next]_vars => [SeenAdvances]_visits
  BY NextSolo
<1>4. Spec => [][SeenAdvances]_visits
  BY <1>1, <1>2, <1>3, PTL DEF Spec
<1> QED
  BY <1>4, PTL DEF SeenNeverGoesBack, SeenAdvances
=============================================================================
