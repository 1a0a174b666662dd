------------------------ MODULE VisitSessions_proofs ------------------------
(***************************************************************************)
(* What holds of VisitSessions for any tractors, workers, thresholds and   *)
(* bounds: the variables keep their shapes, a tractor has at most one open *)
(* visit at the station, and a closed visit never reopens.                 *)
(***************************************************************************)
EXTENDS VisitSessions, TLAPS

-----------------------------------------------------------------------------
(* The inductive invariant.                                                  *)

(* Whatever is in the table, and whatever was flushed, passed the CHECKs.    *)
RowsChecked ==
    /\ \A i \in VisitId : visits[i] # Null => RowOK(visits[i])
    /\ \A s \in Session, i \in VisitId :
         uow[s].staged[i] # Null => RowOK(uow[s].staged[i])

(* An instance is closed when it has a departure, and no session ever takes  *)
(* a departure away.                                                         *)
Sound(o) ==
    /\ o.row.state = "CLOSED" <=> o.row.departed # Null
    /\ o.orig.departed # Null => o.row.departed # Null

(* What a unit of work is at any time: every instance is sound, and there is *)
(* one of every row it has flushed.                                          *)
Usable(u) ==
    \A i \in VisitId : /\ u.objs[i] # Null => Sound(u.objs[i])
                       /\ u.staged[i] # Null => u.objs[i] # Null

WorkUsable == \A s \in Session : Usable(uow[s])

(* A task holds an instance of every visit it works on, ...                  *)
ActiveHeld ==
    \A w \in Worker, t \in Tractor :
        job[w].active[t] # Null => uow[w].objs[job[w].active[t]] # Null

(* ... and two sessions never hold a lock on the same row.                   *)
Exclusive ==
    \A r, s \in Session, i \in VisitId :
        uow[r].staged[i] # Null /\ uow[s].staged[i] # Null => r = s

(* A row that was flushed is of the tractor of the committed one, and stays  *)
(* closed if that is closed.                                                 *)
StagedFollows ==
    \A s \in Session, i \in VisitId :
        uow[s].staged[i] # Null /\ visits[i] # Null =>
            /\ uow[s].staged[i].tractor = visits[i].tractor
            /\ ~IsOpen(visits[i]) => ~IsOpen(uow[s].staged[i])

(* Open rows a and b belong to different tractors.                           *)
Apart(a, b) == IsOpen(a) /\ IsOpen(b) => a.tractor # b.tractor

(* No two visits of a tractor are open among the flushed rows of all         *)
(* sessions, ...                                                             *)
StagedApart ==
    \A r, s \in Session, i, j \in VisitId :
        i # j /\ uow[r].staged[i] # Null /\ uow[s].staged[j] # Null
            => Apart(uow[r].staged[i], uow[s].staged[j])

(* ... between those of a session and the committed rows it leaves alone, ...*)
ViewApart ==
    \A s \in Session, i, j \in VisitId :
        i # j /\ uow[s].staged[i] # Null /\ uow[s].staged[j] = Null /\ visits[j] # Null
            => Apart(uow[s].staged[i], visits[j])

(* ... and in the table.                                                     *)
TableApart ==
    \A i, j \in VisitId :
        i # j /\ visits[i] # Null /\ visits[j] # Null => Apart(visits[i], visits[j])

Uniqueness == StagedApart /\ ViewApart /\ TableApart

(* A task that is not applying events holds nothing.                         *)
NothingHeld ==
    \A w \in Worker : job[w].pc \in {"idle", "recognising"} => uow[w] = NoWork

(* One that looks for a visit to adopt still has the event to apply.         *)
EventPending ==
    \A w \in Worker : job[w].pc = "adopting" =>
        job[w].events # <<>> /\ Event(w).tractor # Null

Held == WorkUsable /\ ActiveHeld /\ NothingHeld /\ EventPending

RowsInv == RowsChecked /\ Exclusive /\ StagedFollows /\ Uniqueness

OpenInv == TypeOK /\ Held /\ RowsInv
-----------------------------------------------------------------------------
(* What the operators on one row and one instance return.                    *)

LEMMA Thresholds == Entry \in Nat /\ Exit \in Nat /\ Grace \in Nat
  BY ThresholdAssumption

LEMMA NewVisitOK ==
  ASSUME NEW t \in Tractor, NEW at \in Nat, NEW begun \in Nat
  PROVE  /\ NewVisit(t, at, begun) \in Visit
         /\ NewVisit(t, at, begun).tractor = t
         /\ NewVisit(t, at, begun).state = "ENTERING"
         /\ NewVisit(t, at, begun).departed = Null
  BY DEF NewVisit, Visit, VisitState

LEMMA MaybeCloseOK ==
  ASSUME NEW v \in Visit, NEW time \in Nat
  PROVE  /\ MaybeClose(v, time) \in Visit
         /\ MaybeClose(v, time).tractor = v.tractor
         /\ v.departed # Null => MaybeClose(v, time).departed # Null
         /\ (v.state = "CLOSED" <=> v.departed # Null) =>
              (MaybeClose(v, time).state = "CLOSED"
                 <=> MaybeClose(v, time).departed # Null)
<1> DEFINE l == StartLeaving(v, time)
<1>1. /\ l \in Visit /\ l.tractor = v.tractor /\ l.departed = v.departed
      /\ l.state = "CLOSED" <=> v.state = "CLOSED"
  BY DEF StartLeaving, Visit, VisitState
<1>2. v.seen + Exit # Null /\ v.seen + Exit \in Nat /\ l.seen = v.seen
  BY Thresholds, NullAssumption DEF StartLeaving, Visit
<1>3. FinishLeaving(l, time) \in Visit
  BY <1>1, <1>2 DEF FinishLeaving, Visit, VisitState
<1>4. FinishLeaving(l, time).tractor = l.tractor
  BY <1>1 DEF FinishLeaving, Visit
<1>5. CASE l.state = "LEAVING" /\ time - l.seen >= 2 * Exit
  <2>1. /\ FinishLeaving(l, time).state = "CLOSED"
        /\ FinishLeaving(l, time).departed # Null
    BY <1>1, <1>2, <1>5 DEF FinishLeaving, Visit
  <2> QED
    BY <1>1, <1>3, <1>4, <2>1 DEF MaybeClose
<1>6. CASE ~(l.state = "LEAVING" /\ time - l.seen >= 2 * Exit)
  <2>1. FinishLeaving(l, time) = l
    BY <1>6 DEF FinishLeaving
  <2> QED
    BY <1>1, <1>3, <2>1 DEF MaybeClose
<1> QED
  BY <1>5, <1>6

LEMMA ApplyTransitionOK ==
  ASSUME NEW v \in Visit, NEW at \in Nat
  PROVE  /\ ApplyTransition(v, at) \in Visit
         /\ ApplyTransition(v, at).departed = v.departed
         /\ ApplyTransition(v, at).state = "CLOSED" <=> v.state = "CLOSED"
<1> DEFINE acc == v.acc + (at - v.seen)
<1>1. acc \in Int /\ Entry \in Int
  BY Thresholds DEF Visit
<1>2. CASE v.state = "ENTERING" /\ acc >= Entry
  <2>1. ApplyTransition(v, at) =
          [v EXCEPT !.acc = acc, !.seen = at, !.state = "PRESENT", !.arrived = at]
    BY <1>1, <1>2 DEF ApplyTransition
  <2> QED
    BY <1>1, <1>2, <2>1 DEF Visit, VisitState
<1>3. CASE v.state = "ENTERING" /\ acc < Entry
  <2>1. ApplyTransition(v, at) = [v EXCEPT !.acc = acc, !.seen = at]
    BY <1>1, <1>3 DEF ApplyTransition
  <2> QED
    BY <1>1, <1>3, <2>1 DEF Visit, VisitState
<1>4. CASE v.state = "PRESENT"
  BY <1>4 DEF ApplyTransition, Visit, VisitState
<1>5. CASE v.state = "LEAVING"
  BY <1>5 DEF ApplyTransition, Visit, VisitState
<1>6. CASE v.state = "CLOSED"
  BY <1>6 DEF ApplyTransition, Visit, VisitState
<1> QED
  BY <1>1, <1>2, <1>3, <1>4, <1>5, <1>6 DEF Visit, VisitState

(* An UPDATE keeps the tractor, and a row that passes the CHECKs after it is *)
(* open only if it was open before.                                          *)
LEMMA MergeOK ==
  ASSUME NEW o \in Instance, Sound(o), NEW v \in Visit, RowOK(v)
  PROVE  /\ Merge(o, v) \in Visit
         /\ Merge(o, v).tractor = v.tractor
         /\ RowOK(Merge(o, v)) /\ IsOpen(Merge(o, v)) => IsOpen(v)
<1>1. o.row \in Visit /\ o.orig \in Visit
  BY DEF Instance
<1>2. Merge(o, v) \in Visit /\ Merge(o, v).tractor = v.tractor
  <2>1. /\ Changed(o.row.state, o.orig.state, v.state) \in VisitState
        /\ Changed(o.row.seen, o.orig.seen, v.seen) \in Nat
        /\ Changed(o.row.arrived, o.orig.arrived, v.arrived) \in Nat \cup {Null}
        /\ Changed(o.row.departed, o.orig.departed, v.departed) \in Nat \cup {Null}
        /\ Changed(o.row.acc, o.orig.acc, v.acc) \in Int
    BY <1>1 DEF Changed, Visit
  <2> QED
    BY <2>1 DEF Merge, Visit
<1>3. ASSUME RowOK(Merge(o, v)), IsOpen(Merge(o, v)), ~IsOpen(v) PROVE FALSE
  <2>1. v.departed # Null /\ v.state = "CLOSED"
    BY <1>3 DEF RowOK, IsOpen
  <2>2. /\ Merge(o, v).state = Changed(o.row.state, o.orig.state, v.state)
        /\ Merge(o, v).departed = Changed(o.row.departed, o.orig.departed, v.departed)
    BY <1>1 DEF Merge, Visit
  <2>3. Merge(o, v).departed = Null
    BY <1>3 DEF RowOK, IsOpen
  <2>4. o.row.departed = Null /\ o.orig.departed # Null
    BY <2>1, <2>2, <2>3 DEF Changed
  <2> QED
    BY <2>4 DEF Sound
<1> QED
  BY <1>2, <1>3

-----------------------------------------------------------------------------
(* What the operators on a unit of work return.                              *)

LEMMA NoWorkOK ==
  /\ NoWork \in UnitOfWork /\ Usable(NoWork)
  /\ \A i \in VisitId : NoWork.staged[i] = Null /\ NoWork.objs[i] = Null
  BY DEF NoWork, UnitOfWork, Usable

LEMMA LoadOK ==
  ASSUME NEW table \in [VisitId -> Visit \cup {Null}],
         \A i \in VisitId : table[i] # Null => RowOK(table[i]),
         NEW ids \in SUBSET VisitId, \A i \in ids : table[i] # Null
  PROVE  /\ Load(table, ids) \in [VisitId -> Instance \cup {Null}]
         /\ \A i \in VisitId : Load(table, ids)[i] # Null =>
              i \in ids /\ Sound(Load(table, ids)[i])
         /\ \A i \in ids : Load(table, ids)[i] # Null
<1>1. ASSUME NEW i \in ids
      PROVE  /\ Load(table, ids)[i] \in Instance
             /\ Sound(Load(table, ids)[i])
             /\ Load(table, ids)[i] # Null
  <2> DEFINE o == [row |-> table[i], orig |-> table[i], touched |-> FALSE,
                   updated |-> FALSE, kind |-> "stored"]
  <2>1. i \in VisitId /\ table[i] \in Visit /\ RowOK(table[i])
    OBVIOUS
  <2>2. Load(table, ids)[i] = o
    BY <2>1 DEF Load
  <2>3. o \in Instance
    BY <2>1 DEF Instance
  <2>4. Sound(o)
    BY <2>1 DEF Sound, RowOK
  <2> QED
    BY <2>2, <2>3, <2>4, InstanceAssumption
<1>2. ASSUME NEW i \in VisitId, i \notin ids PROVE Load(table, ids)[i] = Null
  BY <1>2 DEF Load
<1>3. DOMAIN Load(table, ids) = VisitId /\ Load(table, ids) = [i \in VisitId |-> Load(table, ids)[i]]
  BY DEF Load
<1> QED
  BY <1>1, <1>2, <1>3

LEMMA RolledBackOK ==
  ASSUME NEW u \in UnitOfWork, Usable(u)
  PROVE  /\ RolledBack(u) \in UnitOfWork /\ Usable(RolledBack(u))
         /\ \A i \in VisitId : /\ RolledBack(u).staged[i] = Null
                               /\ u.objs[i] # Null => RolledBack(u).objs[i] # Null
<1> DEFINE kindOf(o) == CASE o.kind = "stored"  -> "expired"
                          [] o.kind = "created" -> "transient"
                          [] OTHER              -> o.kind
           objs == [i \in VisitId |-> IF u.objs[i] = Null THEN Null
                                      ELSE [u.objs[i] EXCEPT !.kind = kindOf(u.objs[i])]]
<1>1. RolledBack(u) = [NoWork EXCEPT !.objs = objs]
  BY DEF RolledBack
<1>2. ASSUME NEW i \in VisitId, u.objs[i] # Null
      PROVE  objs[i] \in Instance /\ objs[i] # Null /\ Sound(objs[i])
  <2>1. u.objs[i] \in Instance /\ Sound(u.objs[i])
    BY <1>2 DEF UnitOfWork, Usable
  <2>2. kindOf(u.objs[i]) \in {"stored", "created", "transient", "expired"}
    BY <2>1 DEF Instance
  <2> HIDE DEF kindOf
  <2>3. objs[i] = [u.objs[i] EXCEPT !.kind = kindOf(u.objs[i])]
    BY <1>2
  <2>4. objs[i] \in Instance
    BY <2>1, <2>2, <2>3 DEF Instance
  <2>5. objs[i].row = u.objs[i].row /\ objs[i].orig = u.objs[i].orig
    BY <2>1, <2>3 DEF Instance
  <2> QED
    BY <2>1, <2>4, <2>5, InstanceAssumption DEF Sound
<1>3. ASSUME NEW i \in VisitId, u.objs[i] = Null PROVE objs[i] = Null
  BY <1>3
<1>4. objs \in [VisitId -> Instance \cup {Null}]
  BY <1>2, <1>3
<1> HIDE DEF objs
<1>5. /\ RolledBack(u) \in UnitOfWork /\ RolledBack(u).objs = objs
      /\ RolledBack(u).staged = NoWork.staged
  BY <1>1, <1>4 DEF NoWork, UnitOfWork
<1> QED
  BY <1>2, <1>3, <1>5, NoWorkOK DEF Usable

(* Forcing visits to close changes some rows of the instances.               *)
LEMMA ForcedOK ==
  ASSUME NEW objs \in [VisitId -> Instance \cup {Null}],
         \A i \in VisitId : objs[i] # Null => Sound(objs[i]),
         NEW ids, NEW time \in Nat
  PROVE  /\ Forced(objs, ids, time) \in [VisitId -> Instance \cup {Null}]
         /\ \A i \in VisitId :
              /\ objs[i] # Null => /\ Forced(objs, ids, time)[i] # Null
                                   /\ Sound(Forced(objs, ids, time)[i])
              /\ objs[i] = Null => Forced(objs, ids, time)[i] = Null
<1> SUFFICES ASSUME NEW i \in VisitId
             PROVE  /\ objs[i] # Null => /\ Forced(objs, ids, time)[i] # Null
                                         /\ Forced(objs, ids, time)[i] \in Instance
                                         /\ Sound(Forced(objs, ids, time)[i])
                    /\ objs[i] = Null => Forced(objs, ids, time)[i] = Null
  BY DEF Forced
<1> DEFINE closes == i \in ids /\ Persistent(objs[i]) /\ ~TimedOut(objs[i].row, time)
<1>1. CASE closes
  <2>1. objs[i] \in Instance /\ Sound(objs[i]) /\ objs[i].row \in Visit
    BY <1>1 DEF Persistent, Instance
  <2>2. Forced(objs, ids, time)[i] = [objs[i] EXCEPT !.row = MaybeClose(objs[i].row, time)]
    BY <1>1 DEF Forced
  <2>3. MaybeClose(objs[i].row, time) \in Visit
    BY <2>1, MaybeCloseOK
  <2>4. Forced(objs, ids, time)[i] \in Instance
    BY <2>1, <2>2, <2>3 DEF Instance
  <2>5. /\ Forced(objs, ids, time)[i].row = MaybeClose(objs[i].row, time)
        /\ Forced(objs, ids, time)[i].orig = objs[i].orig
    BY <2>1, <2>2 DEF Instance
  <2>6. Sound(Forced(objs, ids, time)[i])
    BY <2>1, <2>5, MaybeCloseOK DEF Sound
  <2> QED
    BY <1>1, <2>4, <2>6, InstanceAssumption DEF Persistent
<1>2. CASE ~closes
  BY <1>2 DEF Forced
<1> QED
  BY <1>1, <1>2

-----------------------------------------------------------------------------
(* The event at hand and the instance it concerns.                           *)

LEMMA SessionTypes ==
  ASSUME TypeOK
  PROVE  /\ \A s \in Session : /\ uow[s] \in UnitOfWork
                               /\ uow[s].objs \in [VisitId -> Instance \cup {Null}]
                               /\ uow[s].staged \in [VisitId -> Visit \cup {Null}]
                               /\ uow[s].deleted \in SUBSET VisitId
         /\ \A w \in Worker : w \in Session /\ job[w] \in Job
         /\ StaleCheck \in Session
<1>1. \A s \in Session : uow[s] \in UnitOfWork
  BY DEF TypeOK
<1>2. \A w \in Worker : w \in Session /\ job[w] \in Job
  BY DEF TypeOK, Session
<1> QED
  BY <1>1, <1>2 DEF UnitOfWork, Session

LEMMA EventOK ==
  ASSUME TypeOK, NEW w \in Worker, job[w].events # <<>>
  PROVE  /\ Event(w) \in Detection /\ Event(w).at \in Nat
         /\ Event(w).tractor \in Tractor \cup {Null}
         /\ Tail(job[w].events) \in Seq(Detection)
<1>1. job[w].events \in Seq(Detection)
  BY SessionTypes DEF Job
<1>2. Head(job[w].events) \in Detection /\ Tail(job[w].events) \in Seq(Detection)
  BY <1>1
<1> QED
  BY <1>2 DEF Event, Detection

LEMMA AgedOK ==
  ASSUME TypeOK, Held, NEW w \in Worker, job[w].events # <<>>,
         Event(w).tractor # Null, ActiveId(w) # Null
  PROVE  /\ ActiveId(w) \in VisitId /\ uow[w].objs[ActiveId(w)] # Null
         /\ Aged(w) \in Instance /\ Sound(Aged(w))
         /\ Aged(w).row.tractor = uow[w].objs[ActiveId(w)].row.tractor
<1> DEFINE o     == uow[w].objs[ActiveId(w)]
           at    == Event(w).at
           quiet == o.row.state = "PRESENT" /\ at - job[w].seen[Event(w).tractor] >= Exit
           left  == [o.row EXCEPT !.state = "LEAVING"]
<1>1. Event(w).tractor \in Tractor /\ at \in Nat
  BY EventOK
<1>2. ActiveId(w) \in VisitId /\ o # Null
  BY <1>1, SessionTypes DEF ActiveId, Job, Held, ActiveHeld
<1>3. o \in Instance /\ Sound(o) /\ o.row \in Visit
  BY <1>2, SessionTypes DEF Held, WorkUsable, Usable, Instance
<1>4. CASE quiet
  <2>1. Aged(w) = [o EXCEPT !.row = MaybeClose(left, at)]
    BY <1>4 DEF Aged
  <2>2. /\ left \in Visit /\ left.tractor = o.row.tractor
        /\ left.state = "LEAVING" /\ left.departed = o.row.departed
    BY <1>3 DEF Visit, VisitState
  <2>3. o.row.departed = Null /\ o.orig.departed = Null
    BY <1>3, <1>4 DEF Sound
  <2>4. /\ MaybeClose(left, at) \in Visit
        /\ MaybeClose(left, at).tractor = o.row.tractor
        /\ MaybeClose(left, at).state = "CLOSED" <=> MaybeClose(left, at).departed # Null
    BY <1>1, <2>2, <2>3, MaybeCloseOK
  <2>5. /\ Aged(w) \in Instance /\ Aged(w).row = MaybeClose(left, at)
        /\ Aged(w).orig = o.orig
    BY <1>3, <2>1, <2>4 DEF Instance
  <2> QED
    BY <1>2, <2>3, <2>4, <2>5 DEF Sound
<1>5. CASE ~quiet
  BY <1>2, <1>3, <1>5 DEF Aged
<1> QED
  BY <1>4, <1>5

LEMMA WorkBeforeOK ==
  ASSUME TypeOK, Held, NEW w \in Worker, job[w].events # <<>>, Event(w).tractor # Null
  PROVE  /\ WorkBefore(w) \in UnitOfWork /\ Usable(WorkBefore(w))
         /\ WorkBefore(w).staged = uow[w].staged
         /\ WorkBefore(w).deleted = uow[w].deleted
         /\ \A i \in VisitId : WorkBefore(w).objs[i] # Null <=> uow[w].objs[i] # Null
<1>1. uow[w] \in UnitOfWork /\ Usable(uow[w])
  BY SessionTypes DEF Held, WorkUsable
<1>2. CASE ActiveId(w) = Null
  BY <1>1, <1>2 DEF WorkBefore
<1>3. CASE ActiveId(w) # Null
  <2>1. WorkBefore(w) = [uow[w] EXCEPT !.objs = [uow[w].objs EXCEPT ![ActiveId(w)] = Aged(w)]]
    BY <1>1, <1>3 DEF WorkBefore, UnitOfWork
  <2> DEFINE objs == [uow[w].objs EXCEPT ![ActiveId(w)] = Aged(w)]
  <2>2. /\ ActiveId(w) \in VisitId /\ uow[w].objs[ActiveId(w)] # Null
        /\ Aged(w) \in Instance /\ Sound(Aged(w)) /\ Aged(w) # Null
    BY <1>3, AgedOK, InstanceAssumption
  <2>3. /\ objs \in [VisitId -> Instance \cup {Null}]
        /\ \A i \in VisitId : objs[i] = IF i = ActiveId(w) THEN Aged(w) ELSE uow[w].objs[i]
    BY <2>2, SessionTypes
  <2> HIDE DEF objs
  <2>4. /\ WorkBefore(w).objs = objs
        /\ WorkBefore(w).staged = uow[w].staged
        /\ WorkBefore(w).deleted = uow[w].deleted
        /\ WorkBefore(w) \in UnitOfWork
    BY <1>1, <2>1, <2>3 DEF UnitOfWork
  <2> QED
    BY <1>1, <2>2, <2>3, <2>4 DEF Usable
<1> QED
  BY <1>2, <1>3

-----------------------------------------------------------------------------
(* Flushing.                                                                 *)

(* Session s may flush the work u: nobody else has flushed what it writes,   *)
(* and all of that still exists.                                             *)
Flushing(s, u) ==
    /\ u \in UnitOfWork /\ Usable(u) /\ u.staged = uow[s].staged
    /\ ~UpdatesVanished(s, u)
    /\ \A r \in Session, i \in Dirty(u) \cup u.deleted :
         r # s => uow[r].staged[i] = Null

(* What a flush sends passes the CHECKs and uq_visit_open.                   *)
FlushPasses(s, u) ==
    \A i \in Dirty(u) :
        /\ RowOK(Staged(s, u)[i])
        /\ \A j \in VisitId : i # j /\ Overlay(Staged(s, u))[j] # Null
             => Apart(Overlay(Staged(s, u))[i], Overlay(Staged(s, u))[j])

LEMMA ViewOK ==
  ASSUME TypeOK, RowsChecked, NEW s \in Session, NEW i \in VisitId
  PROVE  /\ View(s)[i] \in Visit \cup {Null}
         /\ View(s)[i] # Null => RowOK(View(s)[i])
         /\ View(s)[i] = IF uow[s].staged[i] # Null THEN uow[s].staged[i] ELSE visits[i]
<1>1. View(s)[i] = IF uow[s].staged[i] # Null THEN uow[s].staged[i] ELSE visits[i]
  BY DEF View
<1>2. visits[i] \in Visit \cup {Null} /\ uow[s].staged[i] \in Visit \cup {Null}
  BY SessionTypes DEF TypeOK
<1> QED
  BY <1>1, <1>2 DEF RowsChecked

LEMMA FlushedRow ==
  ASSUME TypeOK, RowsChecked, NEW s \in Session, NEW u, Flushing(s, u), NEW i \in Dirty(u)
  PROVE  /\ i \in VisitId
         /\ View(s)[i] \in Visit /\ RowOK(View(s)[i])
         /\ Staged(s, u)[i] \in Visit /\ Staged(s, u)[i] # Null
         /\ Staged(s, u)[i].tractor = View(s)[i].tractor
         /\ RowOK(Staged(s, u)[i]) /\ IsOpen(Staged(s, u)[i]) => IsOpen(View(s)[i])
<1>1. i \in VisitId /\ u.objs[i] # Null
  BY DEF Dirty, Persistent
<1>2. u.objs[i] \in Instance /\ Sound(u.objs[i])
  BY <1>1 DEF Flushing, UnitOfWork, Usable
<1>3. View(s)[i] # Null
  BY DEF Flushing, UpdatesVanished
<1>4. View(s)[i] \in Visit /\ RowOK(View(s)[i])
  BY <1>1, <1>3, ViewOK
<1>5. Staged(s, u)[i] = Merge(u.objs[i], View(s)[i])
  BY <1>1 DEF Staged
<1> QED
  BY <1>1, <1>2, <1>4, <1>5, MergeOK, NullAssumption

LEMMA UnflushedRow ==
  ASSUME NEW s \in Session, NEW u, Flushing(s, u), NEW i \in VisitId, i \notin Dirty(u)
  PROVE  Staged(s, u)[i] = uow[s].staged[i]
  BY DEF Staged, Flushing

LEMMA OverlayAt ==
  ASSUME NEW f, NEW i \in VisitId
  PROVE  Overlay(f)[i] = IF f[i] # Null THEN f[i] ELSE visits[i]
  BY DEF Overlay

LEMMA StagedType ==
  ASSUME TypeOK, RowsChecked, NEW s \in Session, NEW u, Flushing(s, u)
  PROVE  Staged(s, u) \in [VisitId -> Visit \cup {Null}]
<1>1. ASSUME NEW i \in VisitId PROVE Staged(s, u)[i] \in Visit \cup {Null}
  BY FlushedRow, UnflushedRow, SessionTypes
<1>2. Staged(s, u) = [i \in VisitId |-> Staged(s, u)[i]]
  BY DEF Staged
<1> QED
  BY <1>1, <1>2

(* A flushed row was open and of the same tractor before, so it disturbs no  *)
(* other session's rows.                                                     *)
LEMMA FlushAwayFromOthers ==
  ASSUME TypeOK, RowsChecked, Exclusive, Uniqueness, NEW s \in Session, NEW u, Flushing(s, u),
         FlushPasses(s, u), NEW r \in Session, r # s,
         NEW i \in VisitId, NEW j \in VisitId, i # j,
         Staged(s, u)[i] # Null, uow[r].staged[j] # Null
  PROVE  Apart(Staged(s, u)[i], uow[r].staged[j])
<1>1. CASE i \notin Dirty(u)
  BY <1>1, UnflushedRow DEF Uniqueness, StagedApart
<1>2. CASE i \in Dirty(u)
  <2> SUFFICES ASSUME IsOpen(Staged(s, u)[i]), IsOpen(uow[r].staged[j])
               PROVE  Staged(s, u)[i].tractor # uow[r].staged[j].tractor
    BY DEF Apart
  <2>1. /\ IsOpen(View(s)[i]) /\ View(s)[i] \in Visit /\ View(s)[i] # Null
        /\ Staged(s, u)[i].tractor = View(s)[i].tractor
    BY <1>2, FlushedRow, NullAssumption DEF FlushPasses
  <2>2. View(s)[i] = IF uow[s].staged[i] # Null THEN uow[s].staged[i] ELSE visits[i]
    BY ViewOK
  <2>3. CASE uow[s].staged[i] # Null
    <3>1. Apart(uow[s].staged[i], uow[r].staged[j])
      BY <2>3 DEF Uniqueness, StagedApart
    <3> QED
      BY <2>1, <2>2, <2>3, <3>1 DEF Apart
  <2>4. CASE uow[s].staged[i] = Null
    <3>1. uow[r].staged[i] = Null
      BY <1>2 DEF Flushing
    <3>2. Apart(uow[r].staged[j], visits[i])
      BY <2>1, <2>2, <2>4, <3>1 DEF Uniqueness, ViewApart
    <3> QED
      BY <2>1, <2>2, <2>4, <3>2 DEF Apart
  <2> QED
    BY <2>3, <2>4
<1> QED
  BY <1>1, <1>2

(* What the session sees after the flush has one open visit per tractor.     *)
LEMMA FlushWithinView ==
  ASSUME TypeOK, RowsChecked, Uniqueness, NEW s \in Session, NEW u, Flushing(s, u),
         FlushPasses(s, u), NEW i \in VisitId, NEW j \in VisitId, i # j,
         Overlay(Staged(s, u))[i] # Null, Overlay(Staged(s, u))[j] # Null
  PROVE  Apart(Overlay(Staged(s, u))[i], Overlay(Staged(s, u))[j])
<1> DEFINE over == Overlay(Staged(s, u))
<1>1. CASE i \in Dirty(u)
  BY <1>1 DEF FlushPasses
<1>2. CASE j \in Dirty(u)
  <2>1. Apart(over[j], over[i])
    BY <1>2 DEF FlushPasses
  <2> QED
    BY <2>1 DEF Apart
<1>3. CASE i \notin Dirty(u) /\ j \notin Dirty(u)
  <2>1. /\ over[i] = IF uow[s].staged[i] # Null THEN uow[s].staged[i] ELSE visits[i]
        /\ over[j] = IF uow[s].staged[j] # Null THEN uow[s].staged[j] ELSE visits[j]
    BY <1>3, UnflushedRow, OverlayAt
  <2>2. CASE uow[s].staged[i] # Null /\ uow[s].staged[j] # Null
    BY <2>1, <2>2 DEF Uniqueness, StagedApart
  <2>3. CASE uow[s].staged[i] # Null /\ uow[s].staged[j] = Null
    BY <2>1, <2>3 DEF Uniqueness, ViewApart
  <2>4. CASE uow[s].staged[i] = Null /\ uow[s].staged[j] # Null
    <3>1. Apart(uow[s].staged[j], visits[i])
      BY <2>1, <2>4 DEF Uniqueness, ViewApart
    <3> QED
      BY <2>1, <2>4, <3>1 DEF Apart
  <2>5. CASE uow[s].staged[i] = Null /\ uow[s].staged[j] = Null
    BY <2>1, <2>5 DEF Uniqueness, TableApart
  <2> QED
    BY <2>2, <2>3, <2>4, <2>5
<1> QED
  BY <1>1, <1>2, <1>3

LEMMA FlushFollows ==
  ASSUME TypeOK, RowsChecked, StagedFollows, NEW s \in Session, NEW u, Flushing(s, u),
         FlushPasses(s, u), NEW i \in VisitId, Staged(s, u)[i] # Null
  PROVE  /\ RowOK(Staged(s, u)[i])
         /\ visits[i] # Null => /\ Staged(s, u)[i].tractor = visits[i].tractor
                                /\ ~IsOpen(visits[i]) => ~IsOpen(Staged(s, u)[i])
<1>1. CASE i \notin Dirty(u)
  BY <1>1, UnflushedRow DEF RowsChecked, StagedFollows
<1>2. CASE i \in Dirty(u)
  <2>1. /\ RowOK(Staged(s, u)[i])
        /\ Staged(s, u)[i].tractor = View(s)[i].tractor
        /\ IsOpen(Staged(s, u)[i]) => IsOpen(View(s)[i])
    BY <1>2, FlushedRow DEF FlushPasses
  <2>2. View(s)[i] = IF uow[s].staged[i] # Null THEN uow[s].staged[i] ELSE visits[i]
    BY ViewOK
  <2> QED
    BY <2>1, <2>2 DEF StagedFollows
<1> QED
  BY <1>1, <1>2

LEMMA FlushExclusive ==
  ASSUME Exclusive, NEW s \in Session, NEW u, Flushing(s, u), NEW r \in Session, r # s,
         NEW i \in VisitId, Staged(s, u)[i] # Null
  PROVE  uow[r].staged[i] = Null
<1>1. CASE i \in Dirty(u)
  BY <1>1 DEF Flushing
<1>2. CASE i \notin Dirty(u)
  BY <1>2, UnflushedRow DEF Exclusive
<1> QED
  BY <1>1, <1>2

-----------------------------------------------------------------------------
(* What the kinds of steps do to the parts of the invariant that speak of    *)
(* the table and the flushed rows.                                           *)

(* A step that only deletes visits and ends transactions.                    *)
LEMMA Shrinking ==
  ASSUME RowsInv,
         \A i \in VisitId : visits'[i] \in {visits[i], Null},
         \A s \in Session : \/ \A i \in VisitId : uow'[s].staged[i] = uow[s].staged[i]
                            \/ \A i \in VisitId : uow'[s].staged[i] = Null
  PROVE  RowsInv'
<1>1. RowsChecked'
  BY DEF RowsInv, RowsChecked
<1>2. Exclusive'
  BY DEF RowsInv, Exclusive
<1>3. StagedFollows'
  BY DEF RowsInv, StagedFollows
<1>4. StagedApart'
  BY DEF RowsInv, Uniqueness, StagedApart
<1>5. ViewApart'
  BY DEF RowsInv, Uniqueness, ViewApart
<1>6. TableApart'
  BY DEF RowsInv, Uniqueness, TableApart
<1> QED
  BY <1>1, <1>2, <1>3, <1>4, <1>5, <1>6 DEF RowsInv, Uniqueness

(* A commit that passes the CHECKs and uq_visit_open, ...                    *)
LEMMA CommitPasses ==
  ASSUME TypeOK, RowsInv, NEW s \in Session, NEW u, Flushing(s, u), CanCommit(s, u)
  PROVE  FlushPasses(s, u)
<1> USE DEF RowsInv
<1> DEFINE over == Overlay(Staged(s, u))
<1> SUFFICES ASSUME NEW i \in Dirty(u)
             PROVE  /\ RowOK(Staged(s, u)[i])
                    /\ \A j \in VisitId : i # j /\ over[j] # Null => Apart(over[i], over[j])
  BY DEF FlushPasses
<1>1. i \in VisitId /\ over[i] = Staged(s, u)[i] /\ over[i] # Null
  BY FlushedRow, OverlayAt
<1>2. RowOK(over[i])
  BY DEF CanCommit, Consistent
<1>3. ASSUME NEW j \in VisitId, i # j, over[j] # Null, IsOpen(over[i]), IsOpen(over[j])
      PROVE  over[i].tractor # over[j].tractor
  <2>1. i \in OpenRows(over) /\ j \in OpenRows(over)
    BY <1>1, <1>3 DEF OpenRows
  <2> QED
    BY <1>3, <2>1 DEF CanCommit, Consistent
<1> QED
  BY <1>1, <1>2, <1>3 DEF Apart

(* ... the commit of session s.                                              *)
LEMMA Committing ==
  ASSUME TypeOK, RowsInv, NEW s \in Session, NEW u, Flushing(s, u), CanCommit(s, u),
         visits' = Committed(s, u), uow' = [uow EXCEPT ![s] = NoWork]
  PROVE  RowsInv'
<1> USE DEF RowsInv
<1> DEFINE over == Overlay(Staged(s, u))
<1>1. FlushPasses(s, u)
  BY CommitPasses
<1>2. \A i \in VisitId : visits'[i] = IF i \in u.deleted THEN Null ELSE over[i]
  BY DEF Committed
<1>3. \A i \in VisitId : over[i] = IF Staged(s, u)[i] # Null THEN Staged(s, u)[i] ELSE visits[i]
  BY OverlayAt
<1>4. /\ \A i \in VisitId : uow'[s].staged[i] = Null
      /\ \A r \in Session : r # s => uow'[r] = uow[r]
  BY NoWorkOK DEF TypeOK
<1> HIDE DEF over
<1>5. RowsChecked'
  BY <1>1, <1>2, <1>3, <1>4, FlushFollows DEF RowsChecked
<1>6. Exclusive'
  BY <1>4 DEF Exclusive
<1>7. ASSUME NEW r \in Session, NEW i \in VisitId, uow'[r].staged[i] # Null
      PROVE  /\ r # s /\ uow'[r].staged[i] = uow[r].staged[i]
             /\ visits'[i] = visits[i]
  <2>1. r # s /\ uow'[r] = uow[r]
    BY <1>4, <1>7
  <2>2. i \notin u.deleted
    BY <1>7, <2>1 DEF Flushing
  <2>3. Staged(s, u)[i] = Null
    BY <1>7, <2>1, FlushExclusive
  <2> QED
    BY <1>2, <1>3, <2>1, <2>2, <2>3
<1>8. StagedFollows'
  BY <1>7 DEF StagedFollows
<1>9. StagedApart'
  BY <1>7 DEF Uniqueness, StagedApart
<1>10. ViewApart'
  <2> SUFFICES ASSUME NEW r \in Session, NEW i \in VisitId, NEW j \in VisitId, i # j,
                      uow'[r].staged[i] # Null, uow'[r].staged[j] = Null, visits'[j] # Null
               PROVE  Apart(uow'[r].staged[i], visits'[j])
    BY DEF ViewApart
  <2>1. r # s /\ uow'[r] = uow[r]
    BY <1>4, <1>7
  <2>2. CASE Staged(s, u)[j] # Null
    <3>1. visits'[j] = Staged(s, u)[j]
      BY <1>2, <1>3, <2>2
    <3>2. Apart(Staged(s, u)[j], uow[r].staged[i])
      BY <1>1, <2>1, <2>2, FlushAwayFromOthers
    <3> QED
      BY <2>1, <3>1, <3>2 DEF Apart
  <2>3. CASE Staged(s, u)[j] = Null
    BY <1>2, <1>3, <2>1, <2>3 DEF Uniqueness, ViewApart
  <2> QED
    BY <2>2, <2>3
<1>11. TableApart'
  <2> SUFFICES ASSUME NEW i \in VisitId, NEW j \in VisitId, i # j,
                      visits'[i] # Null, visits'[j] # Null
               PROVE  Apart(visits'[i], visits'[j])
    BY DEF TableApart
  <2>1. visits'[i] = over[i] /\ visits'[j] = over[j]
    BY <1>2
  <2> QED
    BY <1>1, <2>1, FlushWithinView DEF over
<1> QED
  BY <1>5, <1>6, <1>8, <1>9, <1>10, <1>11 DEF Uniqueness

(* The identity map after a visit was created: the new instance, and the     *)
(* flushed ones, which are clean again.                                      *)
Reloaded(u, i, row) ==
    [j \in VisitId |->
        IF j = i THEN [row |-> row, orig |-> row, touched |-> FALSE, updated |-> FALSE,
                       kind |-> "created"]
        ELSE IF j \in Dirty(u)
          THEN [u.objs[j] EXCEPT !.orig = u.objs[j].row, !.touched = FALSE, !.updated = TRUE]
          ELSE u.objs[j]]

(* The flush of a new visit, taken apart.                                    *)
LEMMA CreateVisitParts ==
  ASSUME TypeOK, Held, NEW w \in Worker, CreateVisit(w)
  PROVE  /\ w \in Session
         /\ Event(w).tractor \in Tractor /\ Event(w).at \in Nat /\ job[w].begun \in Nat
         /\ Applying(w) /\ job[w].events # <<>>
         /\ Flushing(w, WorkBefore(w))
         /\ Holders(w, WorkBefore(w), Event(w).tractor) = {}
         /\ \E i \in VisitId :
              /\ visits[i] = Null
              /\ \A s \in Session : uow[s].objs[i] = Null /\ uow[s].staged[i] = Null
              /\ i \notin Dirty(WorkBefore(w))
              /\ CanInsert(w, i)
              /\ uow' = [uow EXCEPT ![w] =
                   [WorkBefore(w) EXCEPT
                      !.staged = WithInsert(w, i),
                      !.objs = Reloaded(WorkBefore(w), i, WithInsert(w, i)[i])]]
              /\ job' = [job EXCEPT ![w] = [Handled(w) EXCEPT
                   !.active[Event(w).tractor] = i, !.missing = @ \ {Event(w).tractor}]]
<1> DEFINE u == WorkBefore(w)
<1>1. NeedsVisit(w) /\ Holders(w, u, Event(w).tractor) = {} /\ ~UpdatesVanished(w, u)
  BY DEF CreateVisit, InsertReady
<1>2. w \in Session /\ Applying(w) /\ job[w].events # <<>> /\ Event(w).tractor # Null
  BY <1>1, SessionTypes DEF NeedsVisit, Applying
<1>3. /\ Event(w).tractor \in Tractor /\ Event(w).at \in Nat /\ job[w].begun \in Nat
  BY <1>2, EventOK, SessionTypes DEF Job
<1>4. u \in UnitOfWork /\ Usable(u) /\ u.staged = uow[w].staged
      /\ \A i \in VisitId : u.objs[i] # Null <=> uow[w].objs[i] # Null
  BY <1>2, WorkBeforeOK
<1>5. \A r \in Session, i \in Dirty(u) \cup u.deleted : r # w => uow[r].staged[i] = Null
  <2> SUFFICES ASSUME NEW r \in Session, NEW i \in Dirty(u) \cup u.deleted, r # w,
                      uow[r].staged[i] # Null
               PROVE  FALSE
    OBVIOUS
  <2>1. i \in VisitId
    BY <1>4 DEF Dirty, UnitOfWork
  <2>2. r \in Holders(w, u, Event(w).tractor)
    BY <2>1 DEF Holders
  <2> QED
    BY <1>1, <2>2
<1>6. Flushing(w, u)
  BY <1>1, <1>4, <1>5 DEF Flushing
<1>7. PICK i \in Fresh :
        /\ CanInsert(w, i)
        /\ uow' = [uow EXCEPT ![w] = [u EXCEPT
             !.staged = WithInsert(w, i),
             !.objs = Reloaded(u, i, WithInsert(w, i)[i])]]
        /\ job' = [job EXCEPT ![w] = [Handled(w) EXCEPT
             !.active[Event(w).tractor] = i, !.missing = @ \ {Event(w).tractor}]]
  BY DEF CreateVisit, Reloaded
<1>8. /\ i \in VisitId /\ visits[i] = Null
      /\ \A s \in Session : uow[s].objs[i] = Null
  BY DEF Fresh, InUse
<1>9. \A s \in Session : uow[s].staged[i] = Null
  BY <1>8 DEF Held, WorkUsable, Usable
<1>10. i \notin Dirty(u)
  BY <1>2, <1>4, <1>8 DEF Dirty, Persistent
<1> QED
  BY <1>1, <1>2, <1>3, <1>6, <1>7, <1>8, <1>9, <1>10

LEMMA Creating ==
  ASSUME TypeOK, Held, RowsInv, NEW w \in Worker, CreateVisit(w)
  PROVE  RowsInv'
<1> USE DEF RowsInv
<1> DEFINE u == WorkBefore(w)
           t == Event(w).tractor
           S == Staged(w, u)
<1>1. /\ w \in Session /\ t \in Tractor /\ Flushing(w, u) /\ Holders(w, u, t) = {}
      /\ Event(w).at \in Nat /\ job[w].begun \in Nat
  BY CreateVisitParts
<1>2. PICK i \in VisitId :
        /\ visits[i] = Null
        /\ \A s \in Session : uow[s].objs[i] = Null /\ uow[s].staged[i] = Null
        /\ i \notin Dirty(u)
        /\ CanInsert(w, i)
        /\ uow' = [uow EXCEPT ![w] = [u EXCEPT
             !.staged = WithInsert(w, i),
             !.objs = Reloaded(u, i, WithInsert(w, i)[i])]]
  BY CreateVisitParts
<1> DEFINE T    == WithInsert(w, i)
           new  == NewVisit(t, Event(w).at, job[w].begun)
           over == Overlay(T)
<1>3. S \in [VisitId -> Visit \cup {Null}] /\ S[i] = Null
  BY <1>1, <1>2, StagedType, UnflushedRow
<1>4. /\ new \in Visit /\ new # Null /\ new.tractor = t /\ IsOpen(new)
  BY <1>1, NewVisitOK, NullAssumption DEF IsOpen
<1>5. \A j \in VisitId : T[j] = IF j = i THEN new ELSE S[j]
  BY <1>3 DEF WithInsert
<1>6. \A j \in VisitId : over[j] = IF T[j] # Null THEN T[j] ELSE visits[j]
  BY OverlayAt
<1>7. \A s \in Session : uow'[s].staged = IF s = w THEN T ELSE uow[s].staged
  BY <1>1, <1>2 DEF Flushing, UnitOfWork, TypeOK
<1>8. visits' = visits
  BY DEF CreateVisit
<1>9. /\ RowOK(new)
      /\ \A j \in VisitId : j # i /\ over[j] # Null => Apart(new, over[j])
      /\ \A d \in Dirty(u) : /\ RowOK(over[d])
                             /\ \A j \in VisitId : j # d /\ over[j] # Null
                                  => Apart(over[d], over[j])
  <2>1. Consistent(over, Dirty(u) \cup {i})
    BY <1>2 DEF CanInsert
  <2>2. over[i] = new /\ RowOK(over[i])
    BY <1>4, <1>5, <1>6, <2>1 DEF Consistent
  <2>3. \A d \in Dirty(u) : RowOK(over[d]) /\ d \in VisitId /\ over[d] # Null
    <3> SUFFICES ASSUME NEW d \in Dirty(u)
                 PROVE  RowOK(over[d]) /\ d \in VisitId /\ over[d] # Null
      OBVIOUS
    <3>1. d \in VisitId /\ S[d] # Null /\ d # i
      BY <1>1, <1>2, FlushedRow, SessionTypes
    <3> QED
      BY <1>5, <1>6, <2>1, <3>1 DEF Consistent
  <2>4. ASSUME NEW a \in Dirty(u) \cup {i}, NEW j \in VisitId, j # a, over[j] # Null,
               IsOpen(over[a]), IsOpen(over[j])
        PROVE  over[a].tractor # over[j].tractor
    <3>1. a \in OpenRows(over) /\ j \in OpenRows(over)
      BY <1>4, <2>2, <2>3, <2>4 DEF OpenRows
    <3> QED
      BY <2>1, <2>4, <3>1 DEF Consistent
  <2> HIDE DEF over, new
  <2> QED
    BY <2>2, <2>3, <2>4 DEF Apart
<1> HIDE DEF over, new, T
<1>10. FlushPasses(w, u)
  <2> SUFFICES ASSUME NEW d \in Dirty(u)
               PROVE  /\ RowOK(S[d])
                      /\ \A j \in VisitId : d # j /\ Overlay(S)[j] # Null
                           => Apart(Overlay(S)[d], Overlay(S)[j])
    BY DEF FlushPasses
  <2>1. d \in VisitId /\ S[d] # Null /\ d # i
    BY <1>1, <1>2, FlushedRow
  <2>2. over[d] = S[d] /\ Overlay(S)[d] = S[d]
    BY <1>5, <1>6, <2>1, OverlayAt
  <2>3. \A j \in VisitId : Overlay(S)[j] # Null => j # i /\ over[j] = Overlay(S)[j]
    BY <1>2, <1>3, <1>5, <1>6, OverlayAt
  <2> HIDE DEF S
  <2> QED
    BY <1>9, <2>1, <2>2, <2>3
<1>11. ASSUME NEW r \in Session, r # w, NEW j \in VisitId, uow[r].staged[j] # Null
       PROVE  Apart(new, uow[r].staged[j]) /\ j # i
  <2>1. ~(IsOpen(uow[r].staged[j]) /\ uow[r].staged[j].tractor = t)
    BY <1>1, <1>11 DEF Holders
  <2> QED
    BY <1>2, <1>4, <1>11, <2>1 DEF Apart
<1>12. RowsChecked'
  <2>1. \A j \in VisitId : T[j] # Null => RowOK(T[j])
    BY <1>1, <1>5, <1>9, <1>10, FlushFollows
  <2> QED
    BY <1>7, <1>8, <2>1 DEF RowsChecked
<1>13. Exclusive'
  <2>1. ASSUME NEW r \in Session, r # w, NEW j \in VisitId, T[j] # Null
        PROVE  uow[r].staged[j] = Null
    BY <1>1, <1>2, <1>5, <2>1, FlushExclusive
  <2> QED
    BY <1>7, <2>1 DEF Exclusive
<1>14. StagedFollows'
  <2>1. \A j \in VisitId : T[j] # Null /\ visits[j] # Null =>
          /\ T[j].tractor = visits[j].tractor
          /\ ~IsOpen(visits[j]) => ~IsOpen(T[j])
    BY <1>1, <1>2, <1>5, <1>10, FlushFollows
  <2> QED
    BY <1>7, <1>8, <2>1 DEF StagedFollows
<1>15. ASSUME NEW a \in VisitId, NEW b \in VisitId, a # b, T[a] # Null, over[b] # Null
       PROVE  Apart(T[a], over[b])
  <2>1. CASE a = i
    BY <1>5, <1>9, <1>15, <2>1
  <2>2. CASE b = i
    <3>1. Apart(new, over[a]) /\ over[a] = T[a] /\ over[b] = new
      BY <1>4, <1>5, <1>6, <1>9, <1>15, <2>2
    <3> QED
      BY <3>1 DEF Apart
  <2>3. CASE a # i /\ b # i
    <3>1. /\ Overlay(S)[a] = T[a] /\ T[a] # Null
          /\ Overlay(S)[b] = over[b]
      BY <1>5, <1>6, <1>15, <2>3, OverlayAt
    <3> QED
      BY <1>1, <1>10, <1>15, <3>1, FlushWithinView
  <2> QED
    BY <2>1, <2>2, <2>3
<1>16. ASSUME NEW r \in Session, r # w, NEW a \in VisitId, NEW b \in VisitId, a # b,
              T[a] # Null, uow[r].staged[b] # Null
       PROVE  Apart(T[a], uow[r].staged[b]) /\ Apart(uow[r].staged[b], T[a])
  <2>1. Apart(T[a], uow[r].staged[b])
    BY <1>1, <1>5, <1>10, <1>11, <1>16, FlushAwayFromOthers
  <2> QED
    BY <2>1 DEF Apart
<1>17. StagedApart'
  <2> SUFFICES ASSUME NEW r \in Session, NEW s \in Session, NEW a \in VisitId,
                      NEW b \in VisitId, a # b,
                      uow'[r].staged[a] # Null, uow'[s].staged[b] # Null
               PROVE  Apart(uow'[r].staged[a], uow'[s].staged[b])
    BY DEF StagedApart
  <2>1. CASE r = w /\ s = w
    BY <1>6, <1>7, <1>15, <2>1
  <2>2. CASE r = w /\ s # w
    BY <1>7, <1>16, <2>2
  <2>3. CASE r # w /\ s = w
    BY <1>7, <1>16, <2>3
  <2>4. CASE r # w /\ s # w
    BY <1>7, <2>4 DEF Uniqueness, StagedApart
  <2> QED
    BY <2>1, <2>2, <2>3, <2>4
<1>18. ViewApart'
  <2> SUFFICES ASSUME NEW s \in Session, NEW a \in VisitId, NEW b \in VisitId, a # b,
                      uow'[s].staged[a] # Null, uow'[s].staged[b] = Null, visits[b] # Null
               PROVE  Apart(uow'[s].staged[a], visits[b])
    BY <1>8 DEF ViewApart
  <2>1. CASE s = w
    BY <1>6, <1>7, <1>15, <2>1
  <2>2. CASE s # w
    BY <1>7, <2>2 DEF Uniqueness, ViewApart
  <2> QED
    BY <2>1, <2>2
<1>19. TableApart'
  BY <1>8 DEF Uniqueness, TableApart
<1> QED
  BY <1>12, <1>13, <1>14, <1>17, <1>18, <1>19 DEF Uniqueness

-----------------------------------------------------------------------------
(* The shapes, and what the sessions hold, after each action.                *)

LEMMA NoJobOK ==
  ASSUME NEW result \in {"none", "completed", "failed"}, NEW lost \in BOOLEAN
  PROVE  /\ NoJob(result, lost) \in Job /\ NoJob(result, lost).pc = "idle"
         /\ \A t \in Tractor : NoJob(result, lost).active[t] = Null
<1>1. <<>> \in Seq(Detection)
  OBVIOUS
<1> QED
  BY <1>1 DEF NoJob, Job

LEMMA HandledOK ==
  ASSUME TypeOK, NEW w \in Worker, job[w].events # <<>>, Event(w).tractor # Null
  PROVE  /\ Handled(w) \in Job
         /\ Handled(w).pc = job[w].pc /\ Handled(w).active = job[w].active
         /\ Handled(w).missing = job[w].missing
<1>1. /\ job[w] \in Job /\ Event(w).tractor \in Tractor /\ Event(w).at \in Nat
      /\ Tail(job[w].events) \in Seq(Detection)
  BY SessionTypes, EventOK
<1> DEFINE seen == [job[w].seen EXCEPT ![Event(w).tractor] = Event(w).at]
<1>2. seen \in [Tractor -> Nat]
  BY <1>1 DEF Job
<1>3. Handled(w) = [job[w] EXCEPT !.events = Tail(job[w].events), !.seen = seen]
  BY <1>1 DEF Handled, Job
<1> HIDE DEF seen
<1> QED
  BY <1>1, <1>2, <1>3 DEF Job

(* A step that replaces the work and the locals of one task.                 *)
LEMMA WorkerStepHeld ==
  ASSUME TypeOK, Held, NEW w \in Worker, NEW u \in UnitOfWork, Usable(u), NEW j \in Job,
         \A t \in Tractor : j.active[t] # Null => u.objs[j.active[t]] # Null,
         j.pc \in {"idle", "recognising"} => u = NoWork,
         j.pc = "adopting" => j.events # <<>> /\ Head(j.events).tractor # Null,
         uow' = [uow EXCEPT ![w] = u], job' = [job EXCEPT ![w] = j],
         now' = now, visits' \in [VisitId -> Visit \cup {Null}],
         batches' \in Nat, faults' \in Nat
  PROVE  TypeOK' /\ Held'
<1>1. w \in Session /\ Worker \subseteq Session
  BY DEF Session
<1>2. TypeOK'
  BY <1>1 DEF TypeOK
<1>3. /\ \A s \in Session : uow'[s] = IF s = w THEN u ELSE uow[s]
      /\ \A v \in Worker : job'[v] = IF v = w THEN j ELSE job[v]
  BY <1>1 DEF TypeOK
<1>4. WorkUsable'
  <2> SUFFICES ASSUME NEW s \in Session PROVE Usable(uow'[s])
    BY DEF WorkUsable
  <2> QED
    BY <1>3 DEF Held, WorkUsable
<1>5. ActiveHeld'
  BY <1>1, <1>3 DEF Held, ActiveHeld
<1>6. NothingHeld'
  BY <1>1, <1>3 DEF Held, NothingHeld
<1>7. EventPending'
  BY <1>3 DEF Held, EventPending, Event
<1> QED
  BY <1>2, <1>4, <1>5, <1>6, <1>7 DEF Held

(* One that leaves the work alone.                                           *)
LEMMA LocalStepHeld ==
  ASSUME TypeOK, Held, NEW w \in Worker, NEW j \in Job,
         \A t \in Tractor : j.active[t] # Null => uow[w].objs[j.active[t]] # Null,
         j.pc \in {"idle", "recognising"} => uow[w] = NoWork,
         j.pc = "adopting" => j.events # <<>> /\ Head(j.events).tractor # Null,
         uow' = uow, job' = [job EXCEPT ![w] = j],
         now' = now, visits' = visits, batches' \in Nat, faults' \in Nat
  PROVE  TypeOK' /\ Held'
<1>1. TypeOK'
  BY DEF TypeOK
<1>2. \A v \in Worker : job'[v] = IF v = w THEN j ELSE job[v]
  BY DEF TypeOK
<1>3. WorkUsable'
  BY DEF Held, WorkUsable
<1>4. ActiveHeld'
  BY <1>2 DEF Held, ActiveHeld
<1>5. NothingHeld'
  BY <1>2 DEF Held, NothingHeld
<1>6. EventPending'
  BY <1>2 DEF Held, EventPending, Event
<1> QED
  BY <1>1, <1>3, <1>4, <1>5, <1>6 DEF Held

(* One that ends the task.                                                   *)
LEMMA FinishedHeld ==
  ASSUME TypeOK, Held, NEW w \in Worker, NEW result \in {"none", "completed", "failed"},
         NEW lost \in BOOLEAN, Finished(w, result, lost),
         visits' \in [VisitId -> Visit \cup {Null}], faults' \in Nat
  PROVE  TypeOK' /\ Held'
<1>1. /\ uow' = [uow EXCEPT ![w] = NoWork]
      /\ job' = [job EXCEPT ![w] = NoJob(result, lost)]
      /\ now' = now /\ batches' \in Nat
  BY DEF Finished, TypeOK
<1> QED
  BY <1>1, NoWorkOK, NoJobOK, WorkerStepHeld

LEMMA BeginHeld ==
  ASSUME TypeOK, Held, NEW w \in Worker, Begin(w)
  PROVE  TypeOK' /\ Held'
<1> DEFINE j == [NoJob("none", FALSE) EXCEPT !.pc = "recognising", !.begun = now]
<1>1. /\ NoJob("none", FALSE) \in Job
      /\ \A t \in Tractor : NoJob("none", FALSE).active[t] = Null
  BY NoJobOK
<1>2. j \in Job /\ j.pc = "recognising" /\ \A t \in Tractor : j.active[t] = Null
  BY <1>1 DEF Job, TypeOK
<1>3. /\ uow[w] = NoWork /\ uow' = uow /\ job' = [job EXCEPT ![w] = j]
      /\ now' = now /\ visits' = visits /\ batches' \in Nat /\ faults' \in Nat
  BY DEF Begin, Held, NothingHeld, TypeOK
<1> HIDE DEF j
<1> QED
  BY <1>2, <1>3, LocalStepHeld

LEMMA MapEventHeld ==
  ASSUME TypeOK, Held, NEW w \in Worker, MapEvent(w)
  PROVE  TypeOK' /\ Held'
<1>1. PICK t \in Tractor \cup {Null} :
        job' = [job EXCEPT ![w] = [@ EXCEPT
          !.events = Append(job[w].events, [tractor |-> t, at |-> now]), !.final = now]]
  BY DEF MapEvent
<1> DEFINE e == [tractor |-> t, at |-> now]
           j == [job[w] EXCEPT !.events = Append(job[w].events, e), !.final = now]
<1>2. /\ job[w] \in Job /\ e \in Detection /\ job[w].events \in Seq(Detection) /\ now \in Nat
      /\ job[w].pc = "recognising"
  BY SessionTypes DEF MapEvent, Job, Detection, TypeOK
<1>3. Append(job[w].events, e) \in Seq(Detection)
  BY <1>2
<1> HIDE DEF e
<1>4. j \in Job /\ j.active = job[w].active /\ j.pc = "recognising"
  BY <1>2, <1>3 DEF Job
<1>5. job' = [job EXCEPT ![w] = j]
  BY <1>1 DEF e
<1>6. /\ uow[w] = NoWork /\ uow' = uow /\ now' = now /\ visits' = visits
      /\ batches' \in Nat /\ faults' \in Nat
  BY DEF MapEvent, Held, NothingHeld, TypeOK
<1>7. \A t1 \in Tractor : j.active[t1] # Null => uow[w].objs[j.active[t1]] # Null
  BY <1>4 DEF Held, ActiveHeld
<1> HIDE DEF j
<1> QED
  BY <1>4, <1>5, <1>6, <1>7, LocalStepHeld

LEMMA NothingDetectedHeld ==
  ASSUME TypeOK, Held, NEW w \in Worker, NothingDetected(w)
  PROVE  TypeOK' /\ Held'
<1>1. /\ uow[w] = NoWork /\ uow' = uow /\ now' = now /\ visits' = visits
      /\ batches' \in Nat /\ faults' \in Nat
      /\ job' = [job EXCEPT ![w] = NoJob("completed", FALSE)]
  BY DEF NothingDetected, Held, NothingHeld, TypeOK
<1> QED
  BY <1>1, NoJobOK, LocalStepHeld

(* The dicts that a batch starts with.                                       *)
LEMMA LoadOpenHeld ==
  ASSUME TypeOK, Held, RowsInv, NEW w \in Worker, LoadOpen(w)
  PROVE  TypeOK' /\ Held' /\ uow'[w].staged = uow[w].staged
<1> DEFINE open    == OpenRows(visits)
           idOf(t) == {i \in open : visits[i].tractor = t}
           active  == [t \in Tractor |->
                         IF idOf(t) = {} THEN Null ELSE CHOOSE i \in idOf(t) : TRUE]
           seen    == [t \in Tractor |->
                         IF idOf(t) = {} THEN 0 ELSE visits[CHOOSE i \in idOf(t) : TRUE].seen]
           u       == [uow[w] EXCEPT !.objs = Load(visits, open)]
           j       == [job[w] EXCEPT !.pc = "applying", !.active = active, !.seen = seen]
<1>1. /\ uow[w] = NoWork /\ uow[w] \in UnitOfWork /\ w \in Session /\ job[w] \in Job
      /\ visits \in [VisitId -> Visit \cup {Null}]
  BY SessionTypes DEF LoadOpen, Held, NothingHeld, TypeOK
<1>2. open \in SUBSET VisitId /\ \A i \in open : visits[i] # Null /\ visits[i] \in Visit
  BY <1>1 DEF OpenRows
<1>3. /\ Load(visits, open) \in [VisitId -> Instance \cup {Null}]
      /\ \A i \in VisitId : Load(visits, open)[i] # Null => Sound(Load(visits, open)[i])
      /\ \A i \in open : Load(visits, open)[i] # Null
  BY <1>1, <1>2, LoadOK DEF RowsInv, RowsChecked
<1>4. /\ u \in UnitOfWork /\ u.staged = uow[w].staged /\ u.objs = Load(visits, open)
  BY <1>1, <1>3 DEF UnitOfWork
<1>5. Usable(u)
  BY <1>1, <1>3, <1>4, NoWorkOK DEF Usable
<1>6. ASSUME NEW t \in Tractor, idOf(t) # {}
      PROVE  (CHOOSE i \in idOf(t) : TRUE) \in open
  <2>1. (CHOOSE i \in idOf(t) : TRUE) \in idOf(t)
    BY <1>6
  <2> QED
    BY <2>1
<1>7. /\ active \in [Tractor -> VisitId \cup {Null}]
      /\ \A t \in Tractor : active[t] # Null => active[t] \in open
  <2>1. ASSUME NEW t \in Tractor PROVE active[t] = Null \/ active[t] \in open
    BY <1>6
  <2>2. active = [t \in Tractor |-> active[t]]
    OBVIOUS
  <2> HIDE DEF active, open
  <2> QED
    BY <1>2, <2>1, <2>2
<1>8. seen \in [Tractor -> Nat]
  <2>1. ASSUME NEW t \in Tractor PROVE seen[t] \in Nat
    BY <1>2, <1>6 DEF Visit
  <2>2. seen = [t \in Tractor |-> seen[t]]
    OBVIOUS
  <2> HIDE DEF seen
  <2> QED
    BY <2>1, <2>2
<1>9. uow' = [uow EXCEPT ![w] = u] /\ job' = [job EXCEPT ![w] = j]
  BY DEF LoadOpen, TypeOK
<1> HIDE DEF active, seen, u
<1>10. j \in Job /\ j.active = active /\ j.pc = "applying"
  BY <1>1, <1>7, <1>8 DEF Job
<1> HIDE DEF j, open
<1>11. /\ now' = now /\ visits' \in [VisitId -> Visit \cup {Null}]
       /\ batches' \in Nat /\ faults' \in Nat
  BY DEF LoadOpen, TypeOK
<1>12. \A t \in Tractor : j.active[t] # Null => u.objs[j.active[t]] # Null
  BY <1>3, <1>4, <1>7, <1>10
<1>13. TypeOK' /\ Held'
  BY <1>4, <1>5, <1>9, <1>10, <1>11, <1>12, WorkerStepHeld
<1>14. uow'[w] = u
  BY <1>1, <1>9 DEF TypeOK
<1> QED
  BY <1>4, <1>13, <1>14

LEMMA SkipEventHeld ==
  ASSUME TypeOK, Held, NEW w \in Worker, SkipEvent(w)
  PROVE  TypeOK' /\ Held'
<1> DEFINE j == [job[w] EXCEPT !.events = Tail(job[w].events)]
<1>1. job[w] \in Job /\ Tail(job[w].events) \in Seq(Detection) /\ job[w].pc = "applying"
  BY SessionTypes, EventOK DEF SkipEvent, Applying
<1>2. j \in Job /\ j.active = job[w].active /\ j.pc = "applying"
  BY <1>1 DEF Job
<1>3. /\ uow' = uow /\ now' = now /\ visits' = visits /\ batches' \in Nat /\ faults' \in Nat
      /\ job' = [job EXCEPT ![w] = j]
  BY DEF SkipEvent, TypeOK
<1>4. \A t \in Tractor : j.active[t] # Null => uow[w].objs[j.active[t]] # Null
  BY <1>2 DEF Held, ActiveHeld
<1> HIDE DEF j
<1> QED
  BY <1>2, <1>3, <1>4, LocalStepHeld

LEMMA TouchVisitHeld ==
  ASSUME TypeOK, Held, NEW w \in Worker, TouchVisit(w)
  PROVE  TypeOK' /\ Held' /\ uow'[w].staged = uow[w].staged
<1> DEFINE i == ActiveId(w)
           o == [Aged(w) EXCEPT !.row = ApplyTransition(Aged(w).row, Event(w).at),
                                !.touched = TRUE]
           objs == [uow[w].objs EXCEPT ![i] = o]
           u == [uow[w] EXCEPT !.objs = objs]
           j == [Handled(w) EXCEPT !.doomed = job[w].lost]
<1>1. /\ w \in Session /\ job[w] \in Job /\ uow[w] \in UnitOfWork /\ Usable(uow[w])
      /\ job[w].events # <<>> /\ Event(w).tractor # Null /\ i # Null
      /\ job[w].pc = "applying" /\ Event(w).at \in Nat
  BY SessionTypes, EventOK DEF TouchVisit, Applying, Held, WorkUsable
<1>2. /\ i \in VisitId /\ Aged(w) \in Instance /\ Sound(Aged(w))
  BY <1>1, AgedOK
<1>3. o \in Instance /\ Sound(o) /\ o # Null
  <2>1. Aged(w).row \in Visit
    BY <1>2 DEF Instance
  <2> DEFINE row == ApplyTransition(Aged(w).row, Event(w).at)
  <2>2. /\ row \in Visit /\ row.departed = Aged(w).row.departed
        /\ row.state = "CLOSED" <=> Aged(w).row.state = "CLOSED"
    BY <1>1, <2>1, ApplyTransitionOK
  <2> HIDE DEF row
  <2>3. o = [Aged(w) EXCEPT !.row = row, !.touched = TRUE]
    BY DEF row
  <2> HIDE DEF o
  <2>4. o \in Instance /\ o.row = row /\ o.orig = Aged(w).orig
    BY <1>2, <2>2, <2>3 DEF Instance
  <2> QED
    BY <1>2, <2>2, <2>4, InstanceAssumption DEF Sound
<1>4. uow' = [uow EXCEPT ![w] = u] /\ job' = [job EXCEPT ![w] = j]
  BY <1>1, <1>2 DEF TouchVisit, TypeOK, UnitOfWork, Instance
<1> HIDE DEF o
<1>5. /\ objs \in [VisitId -> Instance \cup {Null}]
      /\ \A k \in VisitId : objs[k] = IF k = i THEN o ELSE uow[w].objs[k]
  BY <1>1, <1>2, <1>3, SessionTypes
<1> HIDE DEF objs
<1>6. u \in UnitOfWork /\ u.staged = uow[w].staged /\ u.objs = objs
  BY <1>1, <1>5 DEF UnitOfWork
<1>7. Usable(u)
  BY <1>1, <1>3, <1>5, <1>6 DEF Usable
<1>8. j \in Job /\ j.active = job[w].active /\ j.pc = "applying"
  BY <1>1, HandledOK DEF Job
<1>9. \A t \in Tractor : j.active[t] # Null => u.objs[j.active[t]] # Null
  <2>1. \A t \in Tractor : job[w].active[t] \in VisitId \cup {Null}
    BY <1>1 DEF Job
  <2> QED
    BY <1>3, <1>5, <1>6, <1>8, <2>1 DEF Held, ActiveHeld
<1>10. /\ now' = now /\ visits' \in [VisitId -> Visit \cup {Null}]
       /\ batches' \in Nat /\ faults' \in Nat
  BY DEF TouchVisit, TypeOK
<1> HIDE DEF u, j
<1>11. TypeOK' /\ Held'
  BY <1>4, <1>6, <1>7, <1>8, <1>9, <1>10, WorkerStepHeld
<1>12. uow'[w] = u
  BY <1>1, <1>4 DEF TypeOK
<1> QED
  BY <1>6, <1>11, <1>12

LEMMA ReloadedOK ==
  ASSUME NEW u \in UnitOfWork, Usable(u), NEW i \in VisitId, NEW row \in Visit,
         row.state = "CLOSED" <=> row.departed # Null
  PROVE  /\ Reloaded(u, i, row) \in [VisitId -> Instance \cup {Null}]
         /\ \A k \in VisitId :
              /\ Reloaded(u, i, row)[k] # Null => Sound(Reloaded(u, i, row)[k])
              /\ k = i \/ u.objs[k] # Null => Reloaded(u, i, row)[k] # Null
<1> DEFINE objs == Reloaded(u, i, row)
           new  == [row |-> row, orig |-> row, touched |-> FALSE, updated |-> FALSE,
                    kind |-> "created"]
           clean(o) == [o EXCEPT !.orig = o.row, !.touched = FALSE, !.updated = TRUE]
<1>1. \A k \in VisitId : objs[k] = IF k = i THEN new ELSE IF k \in Dirty(u)
                                     THEN clean(u.objs[k]) ELSE u.objs[k]
  BY DEF Reloaded
<1>2. new \in Instance /\ Sound(new)
  BY DEF Instance, Sound
<1>3. ASSUME NEW o \in Instance, Sound(o) PROVE clean(o) \in Instance /\ Sound(clean(o))
  <2>1. clean(o) \in Instance
    BY DEF Instance
  <2>2. clean(o).row = o.row /\ clean(o).orig = o.row
    BY DEF Instance
  <2> QED
    BY <1>3, <2>1, <2>2 DEF Sound
<1> HIDE DEF new, clean
<1>4. ASSUME NEW k \in VisitId
      PROVE  /\ objs[k] \in Instance \cup {Null}
             /\ objs[k] # Null => Sound(objs[k])
             /\ k = i \/ u.objs[k] # Null => objs[k] # Null
  <2>1. /\ u.objs[k] \in Instance \cup {Null}
        /\ u.objs[k] # Null => Sound(u.objs[k])
        /\ k \in Dirty(u) => u.objs[k] # Null
    BY DEF UnitOfWork, Usable, Dirty, Persistent
  <2> QED
    BY <1>1, <1>2, <1>3, <2>1, InstanceAssumption
<1>5. objs = [k \in VisitId |-> objs[k]]
  BY DEF Reloaded
<1> HIDE DEF objs
<1>6. objs \in [VisitId -> Instance \cup {Null}]
  BY <1>4, <1>5
<1> QED
  BY <1>4, <1>6 DEF objs

LEMMA CreateVisitHeld ==
  ASSUME TypeOK, Held, RowsInv, NEW w \in Worker, CreateVisit(w)
  PROVE  TypeOK' /\ Held'
<1> DEFINE u == WorkBefore(w)
           t == Event(w).tractor
<1>1. /\ w \in Session /\ t \in Tractor /\ Flushing(w, u)
      /\ Event(w).at \in Nat /\ job[w].begun \in Nat /\ job[w].events # <<>>
      /\ job[w].pc = "applying"
  BY CreateVisitParts DEF Applying
<1>2. PICK i \in VisitId :
        /\ \A s \in Session : uow[s].objs[i] = Null /\ uow[s].staged[i] = Null
        /\ uow' = [uow EXCEPT ![w] = [u EXCEPT
             !.staged = WithInsert(w, i),
             !.objs = Reloaded(u, i, WithInsert(w, i)[i])]]
        /\ job' = [job EXCEPT ![w] = [Handled(w) EXCEPT
             !.active[Event(w).tractor] = i, !.missing = @ \ {Event(w).tractor}]]
  BY CreateVisitParts
<1> DEFINE T    == WithInsert(w, i)
           new  == NewVisit(t, Event(w).at, job[w].begun)
           objs == Reloaded(u, i, T[i])
           work == [u EXCEPT !.staged = T, !.objs = objs]
<1>3. Staged(w, u) \in [VisitId -> Visit \cup {Null}]
  BY <1>1, StagedType DEF RowsInv
<1>4. new \in Visit /\ (new.state = "CLOSED" <=> new.departed # Null)
  BY <1>1, NewVisitOK
<1>5. /\ T \in [VisitId -> Visit \cup {Null}]
      /\ \A k \in VisitId : T[k] = IF k = i THEN new ELSE Staged(w, u)[k]
  BY <1>3, <1>4 DEF WithInsert
<1>6. u \in UnitOfWork /\ Usable(u)
  BY <1>1 DEF Flushing
<1> HIDE DEF T, new, u
<1>7. /\ objs \in [VisitId -> Instance \cup {Null}]
      /\ \A k \in VisitId : /\ objs[k] # Null => Sound(objs[k])
                            /\ k = i \/ u.objs[k] # Null => objs[k] # Null
  BY <1>4, <1>5, <1>6, ReloadedOK
<1> HIDE DEF objs
<1>8. work \in UnitOfWork /\ work.objs = objs /\ work.staged = T
  BY <1>5, <1>6, <1>7 DEF UnitOfWork
<1>9. Usable(work)
  <2>1. ASSUME NEW k \in VisitId, T[k] # Null, k # i PROVE u.objs[k] # Null
    <3>1. CASE k \in Dirty(u)
      BY <3>1 DEF Dirty, Persistent
    <3>2. CASE k \notin Dirty(u)
      <4>1. u.staged[k] # Null
        BY <1>1, <1>5, <2>1, <3>2, UnflushedRow DEF Flushing
      <4> QED
        BY <1>6, <4>1 DEF Usable
    <3> QED
      BY <3>1, <3>2
  <2> QED
    BY <1>7, <1>8, <2>1 DEF Usable
<1> DEFINE active == [job[w].active EXCEPT ![t] = i]
           j == [Handled(w) EXCEPT !.active = active,
                                   !.missing = Handled(w).missing \ {t}]
<1>10. Handled(w) \in Job /\ Handled(w).active = job[w].active /\ Handled(w).pc = "applying"
  BY <1>1, HandledOK, NullAssumption
<1>11. /\ active \in [Tractor -> VisitId \cup {Null}]
       /\ \A k \in Tractor : active[k] = IF k = t THEN i ELSE job[w].active[k]
  BY <1>1, <1>10 DEF Job
<1>12. job' = [job EXCEPT ![w] = j]
  BY <1>2, <1>10 DEF Job
<1> HIDE DEF active
<1>13. j \in Job /\ j.active = active /\ j.pc = "applying"
  BY <1>10, <1>11 DEF Job
<1>14. \A k \in Tractor : j.active[k] # Null => work.objs[j.active[k]] # Null
  <2>1. \A k \in Tractor : job[w].active[k] # Null => uow[w].objs[job[w].active[k]] # Null
    BY DEF Held, ActiveHeld
  <2>2. \A k \in VisitId : u.objs[k] # Null <=> uow[w].objs[k] # Null
    BY <1>1, WorkBeforeOK, NullAssumption DEF u
  <2>3. \A k \in Tractor : job[w].active[k] \in VisitId \cup {Null}
    BY SessionTypes DEF Job
  <2> QED
    BY <1>7, <1>8, <1>11, <1>13, <2>1, <2>2, <2>3
<1>15. /\ now' = now /\ visits' \in [VisitId -> Visit \cup {Null}]
       /\ batches' \in Nat /\ faults' \in Nat
  BY DEF CreateVisit, TypeOK
<1>16. uow' = [uow EXCEPT ![w] = work]
  BY <1>2 DEF T, objs, u
<1> HIDE DEF work, j
<1> QED
  BY <1>8, <1>9, <1>12, <1>13, <1>14, <1>15, <1>16, WorkerStepHeld

LEMMA LoseRaceHeld ==
  ASSUME TypeOK, Held, NEW w \in Worker, LoseRace(w)
  PROVE  TypeOK' /\ Held' /\ \A i \in VisitId : uow'[w].staged[i] = Null
<1> DEFINE u == RolledBack(WorkBefore(w))
           j == [job[w] EXCEPT !.pc = "adopting", !.lost = TRUE, !.doomed = FALSE]
<1>1. /\ job[w].events # <<>> /\ Event(w).tractor # Null /\ w \in Session /\ job[w] \in Job
  BY SessionTypes DEF LoseRace, InsertReady, NeedsVisit, Applying
<1>2. /\ WorkBefore(w) \in UnitOfWork /\ Usable(WorkBefore(w))
      /\ \A i \in VisitId : WorkBefore(w).objs[i] # Null <=> uow[w].objs[i] # Null
  BY <1>1, WorkBeforeOK
<1>3. /\ u \in UnitOfWork /\ Usable(u)
      /\ \A i \in VisitId : /\ u.staged[i] = Null
                            /\ uow[w].objs[i] # Null => u.objs[i] # Null
  BY <1>2, RolledBackOK
<1>4. uow' = [uow EXCEPT ![w] = u] /\ job' = [job EXCEPT ![w] = j]
  BY DEF LoseRace
<1> HIDE DEF u
<1>5. /\ j \in Job /\ j.active = job[w].active
      /\ j.events # <<>> /\ Head(j.events).tractor # Null
      /\ j.pc = "adopting"
  BY <1>1 DEF Job, Event
<1>6. \A t \in Tractor : j.active[t] # Null => u.objs[j.active[t]] # Null
  <2>1. \A t \in Tractor : job[w].active[t] \in VisitId \cup {Null}
    BY <1>1 DEF Job
  <2> QED
    BY <1>3, <1>5, <2>1 DEF Held, ActiveHeld
<1>7. /\ now' = now /\ visits' \in [VisitId -> Visit \cup {Null}]
      /\ batches' \in Nat /\ faults' \in Nat
  BY DEF LoseRace, TypeOK
<1> HIDE DEF j
<1>8. TypeOK' /\ Held'
  BY <1>3, <1>4, <1>5, <1>6, <1>7, WorkerStepHeld
<1>9. uow'[w] = u
  BY <1>1, <1>4 DEF TypeOK
<1> QED
  BY <1>3, <1>8, <1>9

LEMMA AdoptHeld ==
  ASSUME TypeOK, Held, RowsInv, NEW w \in Worker, Adopt(w)
  PROVE  TypeOK' /\ Held' /\ uow'[w].staged = uow[w].staged
<1> DEFINE t     == Event(w).tractor
           found == {i \in OpenRows(visits) : visits[i].tractor = t}
<1>1. /\ job[w].events # <<>> /\ t # Null /\ w \in Session /\ job[w] \in Job
      /\ uow[w] \in UnitOfWork /\ Usable(uow[w])
  BY SessionTypes DEF Adopt, Held, EventPending, WorkUsable
<1>2. /\ Handled(w) \in Job /\ Handled(w).active = job[w].active /\ t \in Tractor
      /\ Handled(w).missing \in SUBSET Tractor
  BY <1>1, HandledOK, EventOK DEF Job
<1>3. /\ now' = now /\ visits' = visits /\ batches' \in Nat /\ faults' \in Nat
      /\ visits' \in [VisitId -> Visit \cup {Null}]
  BY DEF Adopt, TypeOK
<1>4. \A k \in Tractor : /\ job[w].active[k] \in VisitId \cup {Null}
                         /\ job[w].active[k] # Null => uow[w].objs[job[w].active[k]] # Null
  BY <1>1 DEF Job, Held, ActiveHeld
<1>5. CASE /\ job' = [job EXCEPT ![w] = [Handled(w) EXCEPT
                        !.pc = "applying", !.active[t] = Null, !.missing = @ \cup {t}]]
           /\ uow' = uow
  <2> DEFINE active  == [job[w].active EXCEPT ![t] = Null]
             missing == Handled(w).missing \cup {t}
             j == [Handled(w) EXCEPT !.pc = "applying", !.active = active, !.missing = missing]
  <2>1. /\ active \in [Tractor -> VisitId \cup {Null}]
        /\ \A k \in Tractor : active[k] = IF k = t THEN Null ELSE job[w].active[k]
        /\ missing \in SUBSET Tractor
    BY <1>1, <1>2 DEF Job
  <2>2. job' = [job EXCEPT ![w] = j]
    BY <1>2, <1>5 DEF Job
  <2> HIDE DEF active, missing
  <2>3. j \in Job /\ j.active = active /\ j.pc = "applying"
    BY <1>2, <2>1 DEF Job
  <2>4. \A k \in Tractor : j.active[k] # Null => uow[w].objs[j.active[k]] # Null
    BY <1>4, <2>1, <2>3
  <2> HIDE DEF j
  <2> QED
    BY <1>3, <1>5, <2>2, <2>3, <2>4, LocalStepHeld
<1>6. ASSUME NEW i \in found,
             job' = [job EXCEPT ![w] = [Handled(w) EXCEPT
               !.pc = "applying", !.active[t] = i, !.missing = @ \ {t}]],
             uow' = [uow EXCEPT ![w].objs[i] = Load(visits, {i})[i]]
      PROVE  TypeOK' /\ Held' /\ uow'[w].staged = uow[w].staged
  <2> DEFINE active  == [job[w].active EXCEPT ![t] = i]
             missing == Handled(w).missing \ {t}
             j == [Handled(w) EXCEPT !.pc = "applying", !.active = active, !.missing = missing]
             o == Load(visits, {i})[i]
             objs == [uow[w].objs EXCEPT ![i] = o]
             u == [uow[w] EXCEPT !.objs = objs]
  <2>1. i \in VisitId /\ visits[i] # Null /\ visits \in [VisitId -> Visit \cup {Null}]
    BY DEF OpenRows, TypeOK
  <2>2. o \in Instance /\ o # Null /\ Sound(o)
    <3>1. /\ Load(visits, {i}) \in [VisitId -> Instance \cup {Null}]
          /\ \A k \in VisitId : Load(visits, {i})[k] # Null => Sound(Load(visits, {i})[k])
          /\ \A k \in {i} : Load(visits, {i})[k] # Null
      BY <2>1, LoadOK DEF RowsInv, RowsChecked
    <3> QED
      BY <2>1, <3>1
  <2>3. uow' = [uow EXCEPT ![w] = u]
    BY <1>1, <1>6, <2>1 DEF TypeOK, UnitOfWork
  <2> HIDE DEF o, found
  <2>4. /\ objs \in [VisitId -> Instance \cup {Null}]
        /\ \A k \in VisitId : objs[k] = IF k = i THEN o ELSE uow[w].objs[k]
    BY <1>1, <2>1, <2>2, SessionTypes
  <2> HIDE DEF objs
  <2>5. u \in UnitOfWork /\ u.objs = objs /\ u.staged = uow[w].staged
    BY <1>1, <2>4 DEF UnitOfWork
  <2>6. Usable(u)
    BY <1>1, <2>2, <2>4, <2>5 DEF Usable
  <2>7. /\ active \in [Tractor -> VisitId \cup {Null}]
        /\ \A k \in Tractor : active[k] = IF k = t THEN i ELSE job[w].active[k]
        /\ missing \in SUBSET Tractor
    BY <1>1, <1>2, <2>1 DEF Job
  <2>8. job' = [job EXCEPT ![w] = j]
    BY <1>2, <1>6 DEF Job
  <2> HIDE DEF active, missing
  <2>9. j \in Job /\ j.active = active /\ j.pc = "applying"
    BY <1>2, <2>7 DEF Job
  <2>10. \A k \in Tractor : j.active[k] # Null => u.objs[j.active[k]] # Null
    BY <1>4, <2>2, <2>4, <2>5, <2>7, <2>9
  <2> HIDE DEF j, u
  <2>11. TypeOK' /\ Held'
    BY <1>3, <2>3, <2>5, <2>6, <2>8, <2>9, <2>10, WorkerStepHeld
  <2>12. uow'[w] = u
    BY <1>1, <2>3 DEF TypeOK
  <2> QED
    BY <2>5, <2>11, <2>12
<1> QED
  BY <1>5, <1>6 DEF Adopt

-----------------------------------------------------------------------------
(* The actions that end a transaction.                                       *)

(* No closed visit is open after the step.                                   *)
StayClosed ==
    \A i \in VisitId :
        Stored(i) /\ visits[i].state = "CLOSED" /\ visits'[i] # Null
            => visits'[i].state = "CLOSED"

(* A commit that waits for nobody and passes the CHECKs.                     *)
LEMMA CommitOK ==
  ASSUME TypeOK, RowsInv, NEW s \in Session, NEW u \in UnitOfWork, Usable(u),
         u.staged = uow[s].staged, Holders(s, u, Null) = {}, CanCommit(s, u),
         visits' = Committed(s, u), uow' = [uow EXCEPT ![s] = NoWork]
  PROVE  RowsInv' /\ visits' \in [VisitId -> Visit \cup {Null}] /\ StayClosed
<1>1. Flushing(s, u)
  <2>1. ASSUME NEW r \in Session, NEW i \in Dirty(u) \cup u.deleted, r # s,
               uow[r].staged[i] # Null
        PROVE  FALSE
    <3>1. i \in VisitId
      BY DEF Dirty, UnitOfWork
    <3>2. r \in Holders(s, u, Null)
      BY <2>1, <3>1 DEF Holders
    <3> QED
      BY <3>2
  <2> QED
    BY <2>1 DEF Flushing, CanCommit
<1>2. RowsInv'
  BY <1>1, Committing
<1>3. FlushPasses(s, u) /\ RowsChecked /\ StagedFollows
  BY <1>1, CommitPasses DEF RowsInv
<1>4. \A i \in VisitId :
        visits'[i] = IF i \in u.deleted THEN Null
                     ELSE IF Staged(s, u)[i] # Null THEN Staged(s, u)[i] ELSE visits[i]
  BY OverlayAt DEF Committed
<1>5. visits' = [i \in VisitId |-> visits'[i]]
  BY DEF Committed
<1>6. \A i \in VisitId : visits'[i] \in Visit \cup {Null}
  BY <1>1, <1>3, <1>4, StagedType DEF TypeOK
<1>7. StayClosed
  <2> SUFFICES ASSUME NEW i \in VisitId, visits[i] # Null, visits[i].state = "CLOSED",
                      visits'[i] # Null
               PROVE  visits'[i].state = "CLOSED"
    BY DEF StayClosed, Stored
  <2>1. CASE Staged(s, u)[i] # Null
    <3>1. ~IsOpen(Staged(s, u)[i])
      BY <1>1, <1>3, <2>1, FlushFollows DEF IsOpen
    <3> QED
      BY <1>4, <2>1, <3>1 DEF IsOpen
  <2>2. CASE Staged(s, u)[i] = Null
    BY <1>4, <2>2
  <2> QED
    BY <2>1, <2>2
<1> QED
  BY <1>2, <1>5, <1>6, <1>7

(* A step that only deletes visits reopens none.                             *)
LEMMA ShrinkingCloses ==
  ASSUME \A i \in VisitId : visits'[i] \in {visits[i], Null}
  PROVE  StayClosed
  BY DEF StayClosed

LEMMA FinalWorkOK ==
  ASSUME TypeOK, Held, NEW w \in Worker
  PROVE  /\ FinalWork(w) \in UnitOfWork /\ Usable(FinalWork(w))
         /\ FinalWork(w).staged = uow[w].staged
<1> DEFINE objs    == Forced(uow[w].objs, ActiveIds(w), job[w].final)
           deleted == Expiring(uow[w].objs, ActiveIds(w), job[w].final)
<1>1. /\ w \in Session /\ uow[w] \in UnitOfWork /\ Usable(uow[w]) /\ job[w].final \in Nat
      /\ uow[w].objs \in [VisitId -> Instance \cup {Null}]
      /\ job[w] \in Job
  BY SessionTypes DEF Held, WorkUsable, Job
<1>2. /\ objs \in [VisitId -> Instance \cup {Null}]
      /\ \A i \in VisitId : /\ uow[w].objs[i] # Null => objs[i] # Null /\ Sound(objs[i])
                            /\ uow[w].objs[i] = Null => objs[i] = Null
  BY <1>1, ForcedOK DEF Usable
<1>3. deleted \in SUBSET VisitId
  BY <1>1 DEF Expiring, ActiveIds, Job
<1>4. FinalWork(w) = [uow[w] EXCEPT !.objs = objs, !.deleted = deleted]
  BY <1>1 DEF FinalWork, UnitOfWork
<1> HIDE DEF objs, deleted
<1>5. /\ FinalWork(w) \in UnitOfWork /\ FinalWork(w).objs = objs
      /\ FinalWork(w).staged = uow[w].staged
  BY <1>1, <1>2, <1>3, <1>4 DEF UnitOfWork
<1> QED
  BY <1>1, <1>2, <1>5 DEF Usable

LEMMA CommitBatchStep ==
  ASSUME OpenInv, NEW w \in Worker, CommitBatch(w)
  PROVE  OpenInv' /\ StayClosed
<1> USE DEF OpenInv
<1>1. w \in Session /\ job[w].lost \in BOOLEAN
  BY SessionTypes DEF Job
<1>2. /\ Holders(w, FinalWork(w), Null) = {} /\ CanCommit(w, FinalWork(w))
      /\ visits' = Committed(w, FinalWork(w))
      /\ Finished(w, "completed", job[w].lost) /\ faults' \in Nat
  BY DEF CommitBatch, TypeOK
<1>3. uow' = [uow EXCEPT ![w] = NoWork]
  BY <1>2 DEF Finished
<1>4. RowsInv' /\ visits' \in [VisitId -> Visit \cup {Null}] /\ StayClosed
  BY <1>1, <1>2, <1>3, FinalWorkOK, CommitOK
<1>5. TypeOK' /\ Held'
  BY <1>1, <1>2, <1>4, FinishedHeld
<1> QED
  BY <1>4, <1>5

(* A batch that ends without committing anything.                            *)
LEMMA GivingUp ==
  ASSUME OpenInv, NEW w \in Worker, NEW lost \in BOOLEAN, Finished(w, "failed", lost),
         visits' = visits, faults' \in Nat
  PROVE  OpenInv' /\ StayClosed
<1> USE DEF OpenInv
<1>1. TypeOK' /\ Held'
  BY FinishedHeld DEF TypeOK
<1>2. \A s \in Session : \/ \A i \in VisitId : uow'[s].staged[i] = uow[s].staged[i]
                         \/ \A i \in VisitId : uow'[s].staged[i] = Null
  BY SessionTypes, NoWorkOK DEF Finished, TypeOK
<1>3. RowsInv'
  BY <1>2, Shrinking
<1> QED
  BY <1>1, <1>3, ShrinkingCloses

-----------------------------------------------------------------------------
(* The stale check, crashes and time.                                        *)

(* A step of the stale check leaves the workers alone.                       *)
LEMMA StaleStepHeld ==
  ASSUME TypeOK, Held, NEW u \in UnitOfWork, Usable(u),
         uow' = [uow EXCEPT ![StaleCheck] = u], UNCHANGED <<now, job, batches, faults>>,
         visits' \in [VisitId -> Visit \cup {Null}]
  PROVE  TypeOK' /\ Held'
<1>1. \A s \in Session : uow'[s] = IF s = StaleCheck THEN u ELSE uow[s]
  BY DEF TypeOK, Session
<1>2. \A w \in Worker : w \in Session /\ uow'[w] = uow[w]
  BY <1>1, SessionAssumption DEF Session
<1>3. TypeOK'
  BY DEF TypeOK, Session
<1>4. WorkUsable'
  <2> SUFFICES ASSUME NEW s \in Session PROVE Usable(uow'[s])
    BY DEF WorkUsable
  <2> QED
    BY <1>1 DEF Held, WorkUsable
<1>5. ActiveHeld'
  BY <1>2 DEF Held, ActiveHeld
<1>6. NothingHeld'
  BY <1>2 DEF Held, NothingHeld
<1>7. EventPending'
  BY DEF Held, EventPending, Event
<1> QED
  BY <1>3, <1>4, <1>5, <1>6, <1>7 DEF Held

LEMMA CheckStaleStep ==
  ASSUME OpenInv, CheckStale
  PROVE  OpenInv' /\ StayClosed
<1> USE DEF OpenInv
<1> DEFINE open    == OpenRows(visits)
           loaded  == Load(visits, open)
           objs    == Forced(loaded, open, now)
           deleted == Expiring(loaded, open, now)
           u       == [NoWork EXCEPT !.objs = objs, !.deleted = deleted]
<1>1. /\ visits \in [VisitId -> Visit \cup {Null}] /\ now \in Nat
      /\ open \in SUBSET VisitId /\ \A i \in open : visits[i] # Null
  BY DEF OpenRows, TypeOK
<1>2. /\ uow[StaleCheck] = NoWork /\ uow' = [uow EXCEPT ![StaleCheck] = u]
      /\ UNCHANGED <<now, visits, job, batches, faults>>
  BY DEF CheckStale
<1>3. /\ loaded \in [VisitId -> Instance \cup {Null}]
      /\ \A i \in VisitId : loaded[i] # Null => Sound(loaded[i])
  BY <1>1, LoadOK DEF RowsInv, RowsChecked
<1>4. deleted \in SUBSET VisitId
  BY <1>1 DEF Expiring
<1> HIDE DEF loaded, open
<1>5. /\ objs \in [VisitId -> Instance \cup {Null}]
      /\ \A i \in VisitId : objs[i] # Null => Sound(objs[i])
  BY <1>1, <1>3, ForcedOK
<1> HIDE DEF objs, deleted
<1>6. u \in UnitOfWork /\ u.objs = objs /\ u.staged = NoWork.staged
  BY <1>4, <1>5, NoWorkOK DEF UnitOfWork
<1>7. Usable(u)
  BY <1>5, <1>6, NoWorkOK DEF Usable
<1> HIDE DEF u
<1>8. TypeOK' /\ Held'
  BY <1>1, <1>2, <1>6, <1>7, StaleStepHeld
<1>9. \A s \in Session, i \in VisitId : uow'[s].staged[i] = uow[s].staged[i]
  BY <1>2, <1>6 DEF TypeOK
<1>10. RowsInv'
  BY <1>2, <1>9, Shrinking
<1> QED
  BY <1>2, <1>8, <1>10, ShrinkingCloses

LEMMA CommitStaleStep ==
  ASSUME OpenInv, CommitStale
  PROVE  OpenInv' /\ StayClosed
<1> USE DEF OpenInv
<1> DEFINE u == uow[StaleCheck]
<1>1. /\ u \in UnitOfWork /\ Usable(u) /\ StaleCheck \in Session
      /\ Holders(StaleCheck, u, Null) = {}
      /\ uow' = [uow EXCEPT ![StaleCheck] = NoWork] /\ UNCHANGED <<now, job, batches, faults>>
  BY SessionTypes DEF CommitStale, Held, WorkUsable
<1>2. CASE CanCommit(StaleCheck, u)
  <2>1. visits' = Committed(StaleCheck, u)
    BY <1>2 DEF CommitStale
  <2>2. RowsInv' /\ visits' \in [VisitId -> Visit \cup {Null}] /\ StayClosed
    BY <1>1, <1>2, <2>1, CommitOK
  <2> QED
    BY <1>1, <2>2, StaleStepHeld, NoWorkOK
<1>3. CASE ~CanCommit(StaleCheck, u)
  <2>1. visits' = visits
    BY <1>3 DEF CommitStale
  <2>2. TypeOK' /\ Held'
    BY <1>1, <2>1, StaleStepHeld, NoWorkOK DEF TypeOK
  <2>3. \A s \in Session : \/ \A i \in VisitId : uow'[s].staged[i] = uow[s].staged[i]
                           \/ \A i \in VisitId : uow'[s].staged[i] = Null
    BY <1>1, NoWorkOK DEF TypeOK
  <2>4. RowsInv'
    BY <2>1, <2>3, Shrinking
  <2> QED
    BY <2>1, <2>2, <2>4, ShrinkingCloses
<1> QED
  BY <1>2, <1>3

LEMMA CrashStep ==
  ASSUME OpenInv, Crash
  PROVE  OpenInv' /\ StayClosed
<1> USE DEF OpenInv
<1>1. /\ uow' = [s \in Session |-> NoWork] /\ job' = [w \in Worker |-> NoJob("failed", TRUE)]
      /\ now' \in Nat /\ batches' \in Nat /\ faults' \in Nat
  BY DEF Crash, TypeOK
<1>2. \A i \in VisitId : visits'[i] \in {visits[i], Null}
  BY DEF Crash
<1>3. visits' \in [VisitId -> Visit \cup {Null}]
  BY DEF Crash, TypeOK
<1>4. TypeOK'
  BY <1>1, <1>3, NoWorkOK, NoJobOK DEF TypeOK
<1>5. Held'
  <2>1. \A w \in Worker : w \in Session /\ job'[w].pc = "idle" /\ uow'[w] = NoWork
    BY <1>1, NoJobOK DEF Session
  <2>2. ActiveHeld'
    BY <1>1, NoJobOK DEF ActiveHeld
  <2>3. WorkUsable'
    BY <1>1, NoWorkOK DEF WorkUsable
  <2> QED
    BY <2>1, <2>2, <2>3 DEF Held, NothingHeld, EventPending
<1>6. RowsInv'
  BY <1>1, <1>2, NoWorkOK, Shrinking
<1> QED
  BY <1>2, <1>4, <1>5, <1>6, ShrinkingCloses

(* A step that only lets time pass.                                          *)
LEMMA TimeStep ==
  ASSUME OpenInv, UNCHANGED <<visits, uow, job, batches, faults>>, now' \in Nat
  PROVE  OpenInv' /\ StayClosed
<1> USE DEF OpenInv
<1>1. TypeOK'
  BY DEF TypeOK
<1>2. Held'
  BY DEF Held, WorkUsable, ActiveHeld, NothingHeld, EventPending, Event
<1>3. RowsInv'
  BY Shrinking
<1> QED
  BY <1>1, <1>2, <1>3, ShrinkingCloses

-----------------------------------------------------------------------------
(* The induction.                                                            *)

LEMMA InitOpenInv == Init => OpenInv
<1> SUFFICES ASSUME Init PROVE OpenInv
  OBVIOUS
<1>1. /\ \A s \in Session : uow[s] = NoWork
      /\ \A w \in Worker : w \in Session /\ job[w] = NoJob("none", FALSE)
      /\ \A i \in VisitId : visits[i] = Null
  BY DEF Init, Session
<1>2. TypeOK
  BY <1>1, NoWorkOK, NoJobOK DEF Init, TypeOK
<1>3. Held
  <2>1. WorkUsable /\ NothingHeld
    BY <1>1, NoWorkOK DEF WorkUsable, NothingHeld
  <2>2. ActiveHeld /\ EventPending
    BY <1>1, NoJobOK DEF ActiveHeld, EventPending
  <2> QED
    BY <2>1, <2>2 DEF Held
<1>4. RowsInv
  BY <1>1, NoWorkOK
  DEF RowsInv, RowsChecked, Exclusive, StagedFollows, Uniqueness, StagedApart, ViewApart,
      TableApart
<1> QED
  BY <1>2, <1>3, <1>4 DEF OpenInv

(* The steps of a batch that leave the table alone.                          *)
LEMMA WorkingStep ==
  ASSUME OpenInv, NEW w \in Worker, visits' = visits, TypeOK', Held',
         \A s \in Session : s # w => uow'[s] = uow[s],
         \/ uow'[w].staged = uow[w].staged
         \/ \A i \in VisitId : uow'[w].staged[i] = Null
  PROVE  OpenInv' /\ StayClosed
<1>1. \A s \in Session : \/ \A i \in VisitId : uow'[s].staged[i] = uow[s].staged[i]
                         \/ \A i \in VisitId : uow'[s].staged[i] = Null
  OBVIOUS
<1>2. RowsInv'
  BY <1>1, Shrinking DEF OpenInv
<1> QED
  BY <1>2, ShrinkingCloses DEF OpenInv

LEMMA NextOpenInv == OpenInv /\ [Next]_vars => OpenInv' /\ StayClosed
<1> SUFFICES ASSUME OpenInv, [Next]_vars PROVE OpenInv' /\ StayClosed
  OBVIOUS
<1>0. TypeOK /\ Held /\ RowsInv
  BY DEF OpenInv
<1>1. ASSUME NEW w \in Worker, Begin(w) PROVE OpenInv' /\ StayClosed
  BY <1>0, <1>1, BeginHeld, WorkingStep DEF Begin
<1>2. ASSUME NEW w \in Worker, WorkerStep(w) PROVE OpenInv' /\ StayClosed
  <2>1. CASE MapEvent(w)
    BY <1>0, <2>1, MapEventHeld, WorkingStep DEF MapEvent
  <2>2. CASE NothingDetected(w)
    BY <1>0, <2>2, NothingDetectedHeld, WorkingStep DEF NothingDetected
  <2>3. CASE LoadOpen(w)
    <3>1. visits' = visits /\ \A s \in Session : s # w => uow'[s] = uow[s]
      BY <1>0, <2>3 DEF LoadOpen, TypeOK
    <3> QED
      BY <1>0, <2>3, <3>1, LoadOpenHeld, WorkingStep
  <2>4. CASE SkipEvent(w)
    BY <1>0, <2>4, SkipEventHeld, WorkingStep DEF SkipEvent
  <2>5. CASE TouchVisit(w)
    <3>1. visits' = visits /\ \A s \in Session : s # w => uow'[s] = uow[s]
      BY <1>0, <2>5 DEF TouchVisit, TypeOK
    <3> QED
      BY <1>0, <2>5, <3>1, TouchVisitHeld, WorkingStep
  <2>6. CASE CreateVisit(w)
    <3>1. TypeOK' /\ Held' /\ RowsInv'
      BY <1>0, <2>6, CreateVisitHeld, Creating
    <3>2. visits' = visits
      BY <2>6 DEF CreateVisit
    <3> QED
      BY <3>1, <3>2, ShrinkingCloses DEF OpenInv
  <2>7. CASE LoseRace(w)
    <3>1. visits' = visits /\ \A s \in Session : s # w => uow'[s] = uow[s]
      BY <1>0, <2>7 DEF LoseRace, TypeOK
    <3> QED
      BY <1>0, <2>7, <3>1, LoseRaceHeld, WorkingStep
  <2>8. CASE Adopt(w)
    <3>1. visits' = visits /\ \A s \in Session : s # w => uow'[s] = uow[s]
      BY <1>0, <2>8 DEF Adopt, TypeOK
    <3> QED
      BY <1>0, <2>8, <3>1, AdoptHeld, WorkingStep
  <2>9. CASE CommitBatch(w)
    BY <2>9, CommitBatchStep
  <2>10. CASE FailBatch(w)
    BY <1>0, <2>10, GivingUp DEF FailBatch, TypeOK
  <2>11. CASE DeadlockVictim(w)
    BY <1>0, <2>11, GivingUp DEF DeadlockVictim, TypeOK
  <2> QED
    BY <1>2, <2>1, <2>2, <2>3, <2>4, <2>5, <2>6, <2>7, <2>8, <2>9, <2>10, <2>11
    DEF WorkerStep
<1>3. ASSUME NEW w \in Worker, Abort(w) PROVE OpenInv' /\ StayClosed
  <2>1. Finished(w, "failed", TRUE) /\ visits' = visits /\ faults' = faults + 1
    BY <1>3 DEF Abort
  <2>2. faults + 1 \in Nat
    BY <1>0 DEF TypeOK
  <2> QED
    BY <2>1, <2>2, GivingUp
<1>4. CASE CheckStale
  BY <1>4, CheckStaleStep
<1>5. CASE CommitStale
  BY <1>5, CommitStaleStep
<1>6. CASE Crash
  BY <1>6, CrashStep
<1>7. CASE Tick
  BY <1>0, <1>7, TimeStep DEF Tick, TypeOK
<1>8. CASE UNCHANGED vars
  BY <1>0, <1>8, TimeStep DEF vars, TypeOK
<1> QED
  BY <1>1, <1>2, <1>3, <1>4, <1>5, <1>6, <1>7, <1>8 DEF Next, Quiescent

-----------------------------------------------------------------------------
(* The theorems.                                                             *)

(* The variables of VisitSessions keep their shapes whatever the tasks, the  *)
(* stale check and crashes do: in particular every row of visits, flushed or *)
(* committed, has instants that are not before the epoch.                    *)
THEOREM TypeCorrect == Spec => []TypeOK
<1>1. OpenInv => TypeOK
  BY DEF OpenInv
<1>2. OpenInv /\ [Next]_vars => OpenInv'
  BY NextOpenInv
<1> QED
  BY <1>1, <1>2, InitOpenInv, PTL DEF Spec

(* Any number of background tasks and the stale check, in any interleaving   *)
(* of their flushes and commits, leave a tractor with at most one open visit *)
(* at the station: `_create_or_get_open_visit' inserts only after a flush    *)
(* that waits for every session whose rows decide about uq_visit_open.       *)
THEOREM AtMostOneOpen == Spec => []OneOpenVisit
<1>1. OpenInv => OneOpenVisit
  BY DEF OpenInv, RowsInv, Uniqueness, TableApart, Apart, OneOpenVisit, OpenRows
<1>2. OpenInv /\ [Next]_vars => OpenInv'
  BY NextOpenInv
<1> QED
  BY <1>1, <1>2, InitOpenInv, PTL DEF Spec

(* No session ever reopens a closed visit, although an ORM session may still *)
(* write the columns it changed on a copy it loaded while the visit was open:*)
(* no code path clears departed_at, so chk_visit_departure refuses the row.  *)
THEOREM NeverReopened == Spec => ClosedNeverReopens
<1>1. OpenInv /\ [Next]_vars => OpenInv'
  BY NextOpenInv
<1>2. OpenInv /\ [Next]_vars => [StayClosed]_visits
  BY NextOpenInv
<1>3. Spec => [][StayClosed]_visits
  BY <1>1, <1>2, InitOpenInv, PTL DEF Spec
<1> QED
  BY <1>3, PTL DEF ClosedNeverReopens, StayClosed
=============================================================================
