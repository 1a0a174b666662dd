------------------------- MODULE VisitStatus_proofs -------------------------
(***************************************************************************)
(* What TLAPS proves about what the clients of the API see.                *)
(*                                                                         *)
(* Whatever a session commits has been announced before, for any number of *)
(* tractors and workers: a session announces a change when it makes it, so *)
(* the states in its private copies and in its flushed rows have all been  *)
(* announced, and a commit writes nothing else.                            *)
(*                                                                         *)
(* With one worker, the visits of each tractor follow one another: every   *)
(* session sees, and would leave behind, rows of which each is over before *)
(* the next begins, and it changes only the last of them.  So the stays the*)
(* endpoints list share no detection, and the dwell time does not go back. *)
(***************************************************************************)
EXTENDS VisitStatus, VisitStream, VisitTimes_proofs, Ordered_proofs

-----------------------------------------------------------------------------
(* What was announced: the inductive invariant.                              *)

(* The states of the rows of a table, and of the rows a session flushed, are *)
(* among the messages `said', ...                                            *)
RowsAnnounced(rows, said) ==
    \A i \in VisitId : rows[i] # Null => <<i, rows[i].state>> \in said

(* ... and so are those the instances of a session were given since they     *)
(* were loaded or flushed.                                                   *)
ObjsAnnounced(objs, said) ==
    \A i \in VisitId : Persistent(objs[i]) /\ objs[i].row.state # objs[i].orig.state
                         => <<i, objs[i].row.state>> \in said

WorkAnnounced(u, said) == RowsAnnounced(u.staged, said) /\ ObjsAnnounced(u.objs, said)

HeardInv ==
    /\ RowsAnnounced(visits, announced)
    /\ \A s \in Session : WorkAnnounced(uow[s], announced)

-----------------------------------------------------------------------------
(* What a step that is announced publishes, and what it leaves.                  *)

LEMMA HearKeeps ==
  ASSUME Hear, NEW m \in announced, \A w \in Worker : m[1] \notin Creates(w)
  PROVE  m \in announced'
  BY DEF Hear, StillKnown

LEMMA HearSays ==
  ASSUME Hear
  PROVE  /\ \A w \in Worker : Said(w) \subseteq announced'
         /\ \A w \in Worker : job'[w].result # "failed" => AtEnd(w) \subseteq announced'
         /\ StaleCheckSays \subseteq announced'
<1>1. PICK tail \in {[w \in Worker |-> AtEnd(w)]} \cup
                {[w \in Worker |-> IF job'[w].result = "failed" THEN T ELSE AtEnd(w)] :
                    T \in SUBSET UNION {AtEnd(w) : w \in Worker}} :
        announced' = StillKnown(announced) \cup StaleCheckSays
                       \cup UNION {Said(w) \cup tail[w] : w \in Worker}
  BY DEF Hear
<1>2. \A w \in Worker : job'[w].result # "failed" => tail[w] = AtEnd(w)
  BY <1>1
<1>3. StaleCheckSays \subseteq announced'
  BY <1>1
<1>4. \A w \in Worker : Said(w) \cup tail[w] \subseteq announced'
  BY <1>1
<1> QED
  BY <1>2, <1>3, <1>4

(* A change of the state of a row is announced at once.                      *)
LEMMA ChangeHeard ==
  ASSUME Hear, NEW w \in Worker, NEW i \in VisitId,
         uow[w].objs[i] # Null, uow'[w].objs[i] # Null, Persistent(uow[w].objs[i]),
         uow'[w].objs[i].row.state # uow[w].objs[i].row.state
  PROVE  <<i, uow'[w].objs[i].row.state>> \in announced'
<1>1. i \in Changes(w)
  BY DEF Changes
<1>2. <<i, uow'[w].objs[i].row.state>> \in Said(w)
  BY <1>1 DEF Said
<1> QED
  BY <1>2, HearSays

(* So is a new visit.                                                        *)
LEMMA CreationHeard ==
  ASSUME Hear, NEW w \in Worker, NEW i \in VisitId,
         uow[w].objs[i] = Null, uow'[w].objs[i] # Null, uow'[w].objs[i].kind = "created"
  PROVE  <<i, uow'[w].objs[i].row.state>> \in announced'
<1>1. <<i, uow'[w].objs[i].row.state>> \in Said(w)
  BY DEF Said, Creates
<1> QED
  BY <1>1, HearSays

(* `_maybe_close_visit' announces the state it leaves a visit in.            *)
LEMMA ClosingSays ==
  ASSUME NEW v \in Visit, NEW time, MaybeClose(v, time).state # v.state
  PROVE  MaybeClose(v, time).state \in Closing(v, time)
<1> DEFINE l == StartLeaving(v, time)
           x == MaybeClose(v, time)
<1>1. l \in Visit /\ (l = v \/ (v.state = "PRESENT" /\ l.state = "LEAVING"))
  BY DEF StartLeaving, Visit, VisitState
<1>2. x = l \/ (l.state = "LEAVING" /\ x.state = "CLOSED")
  BY <1>1 DEF MaybeClose, FinishLeaving, Visit, VisitState
<1>3. x.state # v.state
  OBVIOUS
<1> HIDE DEF l, x
<1>4. CASE x.state = "CLOSED"
  <2>1. v.state # "CLOSED"
    BY <1>3, <1>4
  <2> QED
    BY <1>4, <2>1 DEF Closing, x
<1>5. CASE x.state # "CLOSED"
  <2>1. v.state = "PRESENT" /\ x.state = "LEAVING"
    BY <1>1, <1>2, <1>3, <1>5
  <2> QED
    BY <2>1 DEF Closing, x
<1> QED
  BY <1>4, <1>5

LEMMA ForcedSays ==
  ASSUME NEW objs \in [VisitId -> Instance \cup {Null}], NEW ids, NEW time,
         NEW i \in VisitId, NEW said, ClosingAll(objs, ids, time) \subseteq said,
         objs[i] # Null, Forced(objs, ids, time)[i].row.state # objs[i].row.state
  PROVE  <<i, Forced(objs, ids, time)[i].row.state>> \in said
<1>1. objs[i] \in Instance
  OBVIOUS
<1>2. Forced(objs, ids, time)[i] # objs[i]
  OBVIOUS
<1>3. /\ i \in ids /\ Persistent(objs[i]) /\ ~TimedOut(objs[i].row, time)
      /\ Forced(objs, ids, time)[i] = [objs[i] EXCEPT !.row = MaybeClose(@, time)]
  BY <1>2 DEF Forced
<1>4. Forced(objs, ids, time)[i].row = MaybeClose(objs[i].row, time)
  BY <1>1, <1>3 DEF Instance
<1>5. MaybeClose(objs[i].row, time).state \in Closing(objs[i].row, time)
  BY <1>1, <1>4, ClosingSays DEF Instance
<1>6. <<i, MaybeClose(objs[i].row, time).state>> \in ClosingAll(objs, ids, time)
  BY <1>3, <1>5 DEF ClosingAll
<1> QED
  BY <1>4, <1>6

(* A state that was announced is announced as long as nobody is given the id *)
(* of the visit.                                                             *)
LEMMA FlushAnnounced ==
  ASSUME TypeOK, RowsChecked, NEW s \in Session, NEW u, Flushing(s, u), NEW said,
         RowsAnnounced(visits, said), RowsAnnounced(uow[s].staged, said),
         ObjsAnnounced(u.objs, said)
  PROVE  RowsAnnounced(Staged(s, u), said)
<1> SUFFICES ASSUME NEW i \in VisitId, Staged(s, u)[i] # Null
             PROVE  <<i, Staged(s, u)[i].state>> \in said
  BY DEF RowsAnnounced
<1>1. CASE i \notin Dirty(u) /\ Staged(s, u)[i] = uow[s].staged[i]
  BY <1>1 DEF RowsAnnounced
<1>2. CASE /\ i \in Dirty(u) /\ Persistent(u.objs[i]) /\ u.objs[i] # Null
           /\ u.objs[i] \in Instance /\ View(s)[i] \in Visit /\ RowOK(View(s)[i])
           /\ Staged(s, u)[i] = Merge(u.objs[i], View(s)[i])
  <2> DEFINE o == u.objs[i]
             v == View(s)[i]
  <2>1. Staged(s, u)[i].state = Changed(o.row.state, o.orig.state, v.state)
    BY <1>2, MergeFields
  <2>2. <<i, v.state>> \in said
    <3>1. v = IF uow[s].staged[i] # Null THEN uow[s].staged[i] ELSE visits[i]
      BY ViewOK
    <3>2. v # Null
      BY <1>2, NullAssumption
    <3> QED
      BY <3>1, <3>2 DEF RowsAnnounced
  <2>3. Persistent(o) /\ o.row.state # o.orig.state => <<i, o.row.state>> \in said
    BY DEF ObjsAnnounced
  <2>4. Persistent(o)
    BY <1>2
  <2> HIDE DEF o, v
  <2> QED
    BY <2>1, <2>2, <2>3, <2>4 DEF Changed
<1> QED
  BY <1>1, <1>2, StagedRow

-----------------------------------------------------------------------------
(* Nobody is given the id of a visit that a session or the table knows.      *)

FreshIds == \A w \in Worker : \A i \in Creates(w) : ~InUse(i)

(* The step of session s gives it no new visit.                              *)
NothingNew(s) ==
    \A i \in VisitId : uow'[s].objs[i] # Null =>
        uow[s].objs[i] # Null \/ uow'[s].objs[i].kind # "created"

LEMMA FreshByDefault ==
  ASSUME NEW s \in Session, \A r \in Session : r # s => uow'[r] = uow[r], NothingNew(s)
  PROVE  FreshIds
  BY DEF FreshIds, Creates, NothingNew, Session

LEMMA NothingNewAtEnd ==
  ASSUME NEW s \in Session, uow'[s] = NoWork
  PROVE  NothingNew(s)
  BY NoWorkOK DEF NothingNew

(* What was announced of everything in use still is after the step.          *)
LEMMA StillHeard ==
  ASSUME OpenInv, HeardInv, Hear, FreshIds
  PROVE  /\ RowsAnnounced(visits, announced')
         /\ \A s \in Session : WorkAnnounced(uow[s], announced')
<1>1. ASSUME NEW i \in VisitId, InUse(i), NEW x, <<i, x>> \in announced
      PROVE  <<i, x>> \in announced'
  <2>1. \A w \in Worker : i \notin Creates(w)
    BY <1>1 DEF FreshIds
  <2>2. <<i, x>>[1] = i
    OBVIOUS
  <2> QED
    BY <1>1, <2>1, <2>2, HearKeeps
<1>2. \A i \in VisitId : visits[i] # Null => InUse(i)
  BY DEF InUse
<1>3. \A s \in Session, i \in VisitId : uow[s].objs[i] # Null => InUse(i)
  BY DEF InUse
<1>4. \A s \in Session, i \in VisitId : uow[s].staged[i] # Null => InUse(i)
  BY <1>3 DEF OpenInv, Held, WorkUsable, Usable
<1>5. RowsAnnounced(visits, announced')
  BY <1>1, <1>2 DEF HeardInv, RowsAnnounced
<1>6. ASSUME NEW s \in Session PROVE RowsAnnounced(uow[s].staged, announced')
  BY <1>1, <1>4 DEF HeardInv, WorkAnnounced, RowsAnnounced
<1>7. ASSUME NEW s \in Session PROVE ObjsAnnounced(uow[s].objs, announced')
  <2>1. \A i \in VisitId : Persistent(uow[s].objs[i]) => InUse(i)
    BY <1>3 DEF Persistent
  <2> QED
    BY <1>1, <2>1 DEF HeardInv, WorkAnnounced, ObjsAnnounced
<1> QED
  BY <1>5, <1>6, <1>7 DEF WorkAnnounced

(* It is enough to look at the session that takes the step ...               *)
LEMMA LocalHeard ==
  ASSUME OpenInv, HeardInv, Hear, FreshIds, NEW s \in Session,
         \A r \in Session : r # s => uow'[r] = uow[r],
         RowsAnnounced(visits', announced'), WorkAnnounced(uow'[s], announced')
  PROVE  HeardInv'
<1>1. \A r \in Session : WorkAnnounced(uow'[r], announced')
  BY StillHeard
<1> QED
  BY <1>1 DEF HeardInv, RowsAnnounced, WorkAnnounced, ObjsAnnounced

LEMMA NoWorkHeard ==
  ASSUME NEW said, NEW u, u = NoWork
  PROVE  WorkAnnounced(u, said)
  BY NoWorkOK DEF WorkAnnounced, RowsAnnounced, ObjsAnnounced, Persistent

(* ... and a commit writes what was flushed, and the states it flushes.      *)
LEMMA CommitHeard ==
  ASSUME OpenInv, NEW s \in Session, NEW u \in UnitOfWork, Usable(u),
         u.staged = uow[s].staged, Holders(s, u, Null) = {}, CanCommit(s, u), NEW said,
         RowsAnnounced(visits, said), RowsAnnounced(uow[s].staged, said),
         ObjsAnnounced(u.objs, said)
  PROVE  RowsAnnounced(Committed(s, u), said)
<1>1. Flushing(s, u)
  BY FlushingReady DEF CanCommit
<1>2. TypeOK /\ RowsChecked
  BY DEF OpenInv, RowsInv
<1>3. RowsAnnounced(Staged(s, u), said)
  BY <1>1, <1>2, FlushAnnounced
<1> QED
  BY <1>3, CommittedRow DEF RowsAnnounced

-----------------------------------------------------------------------------
(* Every step of a worker.                                                   *)

LEMMA LoadOpenHeard ==
  ASSUME OpenInv, HeardInv, Hear, NEW w \in Worker, LoadOpen(w)
  PROVE  HeardInv'
<1>1. TypeOK /\ Held /\ w \in Session /\ uow[w] \in UnitOfWork
  BY SessionTypes DEF OpenInv
<1>2. /\ visits' = visits
      /\ \A s \in Session : s # w => uow'[s] = uow[s]
      /\ \A v \in Worker : v # w => job'[v] = job[v]
      /\ \A i \in VisitId : /\ uow'[w].staged[i] = Null
                            /\ uow'[w].objs[i] # Null => Reads(uow'[w].objs[i], visits[i])
  BY <1>1, LoadOpenShape DEF GoesOn
<1>3. NothingNew(w)
  BY <1>2 DEF NothingNew, Reads
<1>4. FreshIds
  BY <1>1, <1>2, <1>3, FreshByDefault
<1>5. WorkAnnounced(uow'[w], announced')
  BY <1>2 DEF WorkAnnounced, RowsAnnounced, ObjsAnnounced, Persistent, Reads
<1> QED
  BY <1>1, <1>2, <1>4, <1>5, StillHeard, LocalHeard

(* Whatever a step makes of the row of a visit is announced.                 *)
LEMMA ChangedHeard ==
  ASSUME OpenInv, HeardInv, Hear, FreshIds, NEW w \in Worker, NEW i \in VisitId,
         uow[w].objs[i] # Null, uow'[w].objs[i] # Null,
         Persistent(uow[w].objs[i]),
         uow'[w].objs[i].row.state # uow[w].objs[i].orig.state
  PROVE  <<i, uow'[w].objs[i].row.state>> \in announced'
<1>1. CASE uow'[w].objs[i].row.state # uow[w].objs[i].row.state
  BY <1>1, ChangeHeard
<1>2. CASE uow'[w].objs[i].row.state = uow[w].objs[i].row.state
  <2>1. ObjsAnnounced(uow[w].objs, announced')
    BY StillHeard DEF WorkAnnounced, Session
  <2> QED
    BY <1>2, <2>1 DEF ObjsAnnounced
<1> QED
  BY <1>1, <1>2

LEMMA TouchVisitHeard ==
  ASSUME OpenInv, HeardInv, Hear, NEW w \in Worker, TouchVisit(w)
  PROVE  HeardInv'
<1> DEFINE a == ActiveId(w)
<1>1. TypeOK /\ Held /\ w \in Session /\ uow[w] \in UnitOfWork /\ job[w] \in Job
  BY SessionTypes DEF OpenInv
<1>2. /\ visits' = visits
      /\ \A s \in Session : s # w => uow'[s] = uow[s]
      /\ \A v \in Worker : v # w => job'[v] = job[v]
      /\ job[w].events # <<>> /\ Event(w).tractor # Null /\ a \in VisitId /\ a # Null
      /\ uow'[w].staged = uow[w].staged
      /\ \A i \in VisitId : i # a => uow'[w].objs[i] = uow[w].objs[i]
      /\ uow'[w].objs[a].orig = Aged(w).orig /\ uow'[w].objs[a].kind = Aged(w).kind
  BY <1>1, TouchVisitShape DEF GoesOn
<1>3. /\ uow[w].objs[a] # Null /\ Aged(w) \in Instance
      /\ Aged(w).orig = uow[w].objs[a].orig /\ Aged(w).kind = uow[w].objs[a].kind
  BY <1>1, <1>2, AgedOK, AgedRow
<1>4. uow'[w].objs[a] # Null
  <2>1. TypeOK' /\ Held'
    BY <1>1, TouchVisitHeld
  <2>2. job' = [job EXCEPT ![w] = [Handled(w) EXCEPT !.doomed = job[w].lost]]
    BY DEF TouchVisit
  <2>3. job'[w].active = job[w].active
    BY <1>1, <1>2, <2>2, HandledOK DEF TypeOK, Job
  <2>4. Event(w).tractor \in Tractor
    BY <1>1, <1>2, EventOK
  <2>5. ActiveHeld' /\ job'[w].active[Event(w).tractor] = a
    BY <2>1, <2>3 DEF Held, ActiveId
  <2> QED
    BY <1>2, <2>4, <2>5 DEF ActiveHeld
<1> HIDE DEF a
<1>6. NothingNew(w)
  BY <1>2, <1>3 DEF NothingNew
<1>7. FreshIds
  BY <1>1, <1>2, <1>6, FreshByDefault
<1>8. WorkAnnounced(uow[w], announced')
  BY <1>1, <1>7, StillHeard
<1>9. ASSUME NEW i \in VisitId, Persistent(uow'[w].objs[i]),
             uow'[w].objs[i].row.state # uow'[w].objs[i].orig.state
      PROVE  <<i, uow'[w].objs[i].row.state>> \in announced'
  <2>1. CASE i # a
    BY <1>2, <1>8, <1>9, <2>1 DEF WorkAnnounced, ObjsAnnounced
  <2>2. CASE i = a
    <3>1. Persistent(uow[w].objs[a])
      BY <1>2, <1>3, <1>9, <2>2 DEF Persistent
    <3>2. uow'[w].objs[a].row.state # uow[w].objs[a].orig.state
      BY <1>2, <1>3, <1>9, <2>2
    <3> QED
      BY <1>2, <1>3, <1>4, <1>7, <2>2, <3>1, <3>2, ChangedHeard
  <2> QED
    BY <2>1, <2>2
<1>10. WorkAnnounced(uow'[w], announced')
  BY <1>2, <1>8, <1>9 DEF WorkAnnounced, ObjsAnnounced
<1> QED
  BY <1>1, <1>2, <1>7, <1>10, StillHeard, LocalHeard

LEMMA CreateVisitHeard ==
  ASSUME OpenInv, HeardInv, Hear, NEW w \in Worker, CreateVisit(w)
  PROVE  HeardInv'
<1> DEFINE u == WorkBefore(w)
<1>1. /\ TypeOK /\ Held /\ RowsChecked /\ w \in Session /\ uow[w] \in UnitOfWork
      /\ job[w] \in Job
  BY SessionTypes DEF OpenInv, RowsInv
<1>2. /\ job[w].events # <<>> /\ Event(w).tractor \in Tractor /\ Event(w).tractor # Null
      /\ Event(w).at \in Nat /\ Flushing(w, u)
  BY <1>1, CreateVisitParts, NullAssumption
<1>3. PICK i \in VisitId :
        /\ visits[i] = Null
        /\ \A s \in Session : uow[s].objs[i] = Null /\ uow[s].staged[i] = Null
        /\ uow' = [uow EXCEPT ![w] = [u EXCEPT
             !.staged = WithInsert(w, i),
             !.objs = Reloaded(u, i, WithInsert(w, i)[i])]]
        /\ job' = [job EXCEPT ![w] = [Handled(w) EXCEPT
             !.active[Event(w).tractor] = i, !.missing = @ \ {Event(w).tractor}]]
  BY <1>1, CreateVisitParts
<1> DEFINE T == WithInsert(w, i)
           R == Reloaded(u, i, T[i])
<1>4. /\ u \in UnitOfWork /\ Ahead(uow[w], u, Event(w).at)
      /\ \A k \in VisitId : u.objs[k] # Null <=> uow[w].objs[k] # Null
  BY <1>1, <1>2, WorkBeforeOK, WorkBeforeAhead
<1>5. \A k \in VisitId : k = ActiveId(w) \/ u.objs[k] = uow[w].objs[k]
  BY <1>1 DEF WorkBefore, UnitOfWork
<1>6. \A k \in VisitId : k # i => T[k] = Staged(w, u)[k]
  BY DEF WithInsert, Staged
<1>7. R[i].row = T[i] /\ R[i].orig = T[i] /\ R[i].kind = "created"
  BY DEF Reloaded
<1>8. \A k \in VisitId : k # i => R[k] =
        IF k \in Dirty(u) THEN [u.objs[k] EXCEPT !.orig = u.objs[k].row, !.touched = FALSE,
                                                 !.updated = TRUE]
                          ELSE u.objs[k]
  BY DEF Reloaded
<1>9. /\ uow'[w] = [u EXCEPT !.staged = T, !.objs = R]
      /\ \A s \in Session : s # w => uow'[s] = uow[s]
  BY <1>1, <1>3 DEF TypeOK
<1> HIDE DEF u, T, R
<1>10. uow'[w].staged = T /\ uow'[w].objs = R
  BY <1>4, <1>9 DEF UnitOfWork
<1>11. /\ \A v \in Worker : v # w => job'[v] = job[v]
       /\ job'[w].active[Event(w).tractor] = i
       /\ visits' = visits
  <2>1. Handled(w) \in Job
    BY <1>1, <1>2, HandledOK
  <2>2. /\ \A v \in Worker : v # w => job'[v] = job[v]
        /\ job'[w].active = [Handled(w).active EXCEPT ![Event(w).tractor] = i]
    BY <1>1, <1>3, <2>1 DEF TypeOK, Job
  <2>3. job'[w].active[Event(w).tractor] = i
    BY <1>2, <2>1, <2>2 DEF Job
  <2> QED
    BY <1>2, <2>2, <2>3 DEF CreateVisit
<1>12. TypeOK' /\ Held' /\ R[i] # Null
  <2>1. TypeOK' /\ Held'
    BY <1>1, CreateVisitHeld DEF OpenInv
  <2> QED
    BY <1>1, <1>2, <1>3, <1>10, <1>11, <2>1, SessionTypes, NullAssumption
       DEF Held, ActiveHeld, VisitId
<1>13. FreshIds
  <2>1. \A v \in Worker : v # w => Creates(v) = {}
    BY <1>1, <1>9 DEF Creates, Session
  <2>2. \A k \in VisitId : R[k] # Null /\ uow[w].objs[k] = Null => k = i
    BY <1>4, <1>8 DEF Dirty, Persistent
  <2>3. Creates(w) \subseteq {i}
    BY <1>10, <2>2 DEF Creates
  <2>4. ~InUse(i)
    BY <1>3 DEF InUse
  <2> QED
    BY <2>1, <2>3, <2>4 DEF FreshIds
<1>14. RowsAnnounced(visits, announced') /\ WorkAnnounced(uow[w], announced')
  BY <1>1, <1>13, StillHeard
<1>15. \A k \in VisitId : k # i /\ u.objs[k] # Null =>
         R[k] # Null /\ R[k].row = u.objs[k].row
  <2> SUFFICES ASSUME NEW k \in VisitId, k # i, u.objs[k] # Null
               PROVE  R[k] # Null /\ R[k].row = u.objs[k].row
    OBVIOUS
  <2>1. u.objs[k] \in Instance
    BY <1>4 DEF UnitOfWork
  <2>2. R[k].row = u.objs[k].row
    BY <1>8, <2>1 DEF Instance
  <2>3. R[k] \in Instance
    BY <1>8, <2>1 DEF Instance
  <2> QED
    BY <2>2, <2>3, InstanceAssumption
<1>16. ObjsAnnounced(u.objs, announced')
  <2> SUFFICES ASSUME NEW k \in VisitId, Persistent(u.objs[k]),
                      u.objs[k].row.state # u.objs[k].orig.state
               PROVE  <<k, u.objs[k].row.state>> \in announced'
    BY DEF ObjsAnnounced
  <2>1. u.objs[k] # Null /\ uow[w].objs[k] # Null /\ k # i
    BY <1>1, <1>3, <1>4 DEF Persistent
  <2>2. u.objs[k].orig = uow[w].objs[k].orig /\ u.objs[k].kind = uow[w].objs[k].kind
    BY <1>4, <2>1 DEF Ahead
  <2>3. CASE u.objs[k] = uow[w].objs[k]
    BY <1>14, <2>3 DEF WorkAnnounced, ObjsAnnounced
  <2>4. CASE k = ActiveId(w)
    <3>1. Persistent(uow[w].objs[k])
      BY <2>1, <2>2 DEF Persistent
    <3>2. R[k] # Null /\ R[k].row = u.objs[k].row
      BY <1>15, <2>1
    <3>3. uow'[w].objs[k] # Null /\ uow'[w].objs[k].row.state # uow[w].objs[k].orig.state
      BY <1>10, <2>2, <3>2
    <3>4. <<k, uow'[w].objs[k].row.state>> \in announced'
      BY <1>13, <2>1, <3>1, <3>3, ChangedHeard
    <3> QED
      BY <1>10, <3>2, <3>4
  <2> QED
    BY <1>5, <2>3, <2>4
<1>17. RowsAnnounced(Staged(w, u), announced')
  BY <1>1, <1>2, <1>14, <1>16, FlushAnnounced DEF WorkAnnounced
<1>18. <<i, T[i].state>> \in announced'
  <2>1. <<i, uow'[w].objs[i].row.state>> \in announced'
    BY <1>1, <1>3, <1>7, <1>10, <1>12, CreationHeard
  <2> QED
    BY <1>7, <1>10, <2>1
<1>19. RowsAnnounced(T, announced')
  BY <1>6, <1>17, <1>18 DEF RowsAnnounced
<1>20. ASSUME NEW k \in VisitId, Persistent(R[k]), R[k].row.state # R[k].orig.state
       PROVE  <<k, R[k].row.state>> \in announced'
  <2>1. k # i
    BY <1>7, <1>20
  <2>2. k \notin Dirty(u)
    <3> SUFFICES ASSUME k \in Dirty(u) PROVE FALSE
      OBVIOUS
    <3>1. u.objs[k] # Null /\ u.objs[k] \in Instance
      BY <1>4 DEF Dirty, Persistent, UnitOfWork
    <3>2. R[k].row = u.objs[k].row /\ R[k].orig = u.objs[k].row
      BY <1>8, <2>1, <3>1 DEF Instance
    <3> QED
      BY <1>20, <3>2
  <2>3. R[k] = u.objs[k]
    BY <1>8, <2>1, <2>2
  <2> QED
    BY <1>16, <1>20, <2>3 DEF ObjsAnnounced
<1>21. WorkAnnounced(uow'[w], announced')
  BY <1>10, <1>19, <1>20 DEF WorkAnnounced, ObjsAnnounced
<1> QED
  BY <1>1, <1>9, <1>11, <1>13, <1>14, <1>21, LocalHeard

LEMMA LoseRaceHeard ==
  ASSUME OpenInv, HeardInv, Hear, NEW w \in Worker, LoseRace(w)
  PROVE  HeardInv'
<1>1. TypeOK /\ Held /\ w \in Session /\ uow[w] \in UnitOfWork
  BY SessionTypes DEF OpenInv
<1>2. /\ visits' = visits
      /\ \A s \in Session : s # w => uow'[s] = uow[s]
      /\ \A v \in Worker : v # w => job'[v] = job[v]
      /\ job[w].events # <<>> /\ Event(w).tractor # Null
      /\ \A i \in VisitId : /\ uow'[w].staged[i] = Null
                            /\ uow'[w].objs[i] # Null => /\ WorkBefore(w).objs[i] # Null
                                                         /\ ~Persistent(uow'[w].objs[i])
  BY <1>1, LoseRaceShape DEF GoesOn
<1>3. \A i \in VisitId : ~Persistent(uow'[w].objs[i])
  BY <1>2 DEF Persistent
<1>4. NothingNew(w)
  BY <1>1, <1>2, WorkBeforeOK DEF NothingNew
<1>5. FreshIds
  BY <1>1, <1>2, <1>4, FreshByDefault
<1>6. WorkAnnounced(uow'[w], announced')
  BY <1>2, <1>3 DEF WorkAnnounced, RowsAnnounced, ObjsAnnounced
<1> QED
  BY <1>1, <1>2, <1>5, <1>6, StillHeard, LocalHeard

LEMMA AdoptHeard ==
  ASSUME OpenInv, HeardInv, Hear, NEW w \in Worker, Adopt(w)
  PROVE  HeardInv'
<1>1. TypeOK /\ Held /\ RowsInv /\ w \in Session /\ uow[w] \in UnitOfWork /\ job[w] \in Job
  BY SessionTypes DEF OpenInv
<1>2. /\ visits' = visits
      /\ \A s \in Session : s # w => uow'[s] = uow[s]
      /\ \A v \in Worker : v # w => job'[v] = job[v]
      /\ job[w].events # <<>> /\ Event(w).tractor # Null
      /\ uow'[w].staged = uow[w].staged
      /\ \A i \in VisitId : \/ uow'[w].objs[i] = uow[w].objs[i]
                            \/ Reads(uow'[w].objs[i], visits[i])
  BY <1>1, AdoptShape DEF GoesOn
<1>3. NothingNew(w)
  BY <1>2 DEF NothingNew, Reads
<1>4. FreshIds
  BY <1>1, <1>2, <1>3, FreshByDefault
<1>5. WorkAnnounced(uow[w], announced') /\ RowsAnnounced(visits, announced')
  BY <1>1, <1>4, StillHeard
<1>6. WorkAnnounced(uow'[w], announced')
  BY <1>2, <1>5 DEF WorkAnnounced, ObjsAnnounced, Reads
<1> QED
  BY <1>1, <1>2, <1>4, <1>5, <1>6, LocalHeard

(* A batch that commits has announced what its last loop changed.            *)
LEMMA FinalWorkHeard ==
  ASSUME OpenInv, HeardInv, Hear, FreshIds, NEW w \in Worker, CommitBatch(w)
  PROVE  ObjsAnnounced(FinalWork(w).objs, announced')
<1> DEFINE F == Forced(uow[w].objs, ActiveIds(w), job[w].final)
<1>1. /\ TypeOK /\ Held /\ w \in Session /\ uow[w] \in UnitOfWork /\ job[w] \in Job
      /\ uow[w].objs \in [VisitId -> Instance \cup {Null}] /\ job[w].final \in Nat
  BY SessionTypes DEF OpenInv, Job
<1>2. FinalWork(w).objs = F
  BY <1>1 DEF FinalWork, UnitOfWork
<1>3. job'[w].pc = "idle" /\ job'[w].result = "completed" /\ job[w].pc = "applying"
  <2>1. Finished(w, "completed", job[w].lost) /\ job[w].pc = "applying"
    BY DEF CommitBatch, Finishing
  <2>2. job'[w] = NoJob("completed", job[w].lost)
    BY <1>1, <2>1, FinishedShape
  <2> QED
    BY <2>1, <2>2 DEF NoJob
<1>4. AtEnd(w) \subseteq announced' /\ AtEnd(w) = ClosingAll(uow[w].objs, ActiveIds(w), job[w].final)
  BY <1>3, HearSays DEF AtEnd, Ends
<1>5. ObjsAnnounced(uow[w].objs, announced')
  BY <1>1, StillHeard DEF WorkAnnounced
<1> SUFFICES ASSUME NEW i \in VisitId, Persistent(F[i]), F[i].row.state # F[i].orig.state
             PROVE  <<i, F[i].row.state>> \in announced'
  BY <1>2 DEF ObjsAnnounced
<1>6. F[i] # Null
  BY DEF Persistent
<1>7. uow[w].objs[i] # Null /\ F[i].orig = uow[w].objs[i].orig /\ F[i].kind = uow[w].objs[i].kind
  BY <1>1, <1>6, ForcedAhead
<1>8. Persistent(uow[w].objs[i])
  BY <1>7 DEF Persistent
<1>9. CASE F[i].row.state = uow[w].objs[i].row.state
  BY <1>5, <1>7, <1>8, <1>9 DEF ObjsAnnounced
<1>10. CASE F[i].row.state # uow[w].objs[i].row.state
  BY <1>1, <1>4, <1>7, <1>10, ForcedSays
<1> QED
  BY <1>9, <1>10

LEMMA FinishedHeard ==
  ASSUME OpenInv, HeardInv, Hear, NEW w \in Worker, NEW result, NEW lost,
         Finished(w, result, lost),
         visits' = visits \/ CommitBatch(w)
  PROVE  HeardInv'
<1>1. TypeOK /\ Held /\ w \in Session
  BY SessionTypes DEF OpenInv
<1>2. /\ uow'[w] = NoWork /\ job'[w] = NoJob(result, lost)
      /\ \A s \in Session : s # w => uow'[s] = uow[s]
      /\ \A v \in Worker : v # w => job'[v] = job[v]
  BY <1>1, FinishedShape
<1>3. FreshIds
  BY <1>1, <1>2, NothingNewAtEnd, FreshByDefault
<1>4. RowsAnnounced(visits, announced') /\ WorkAnnounced(uow[w], announced')
  BY <1>1, <1>3, StillHeard
<1>5. RowsAnnounced(visits', announced')
  <2>1. CASE visits' = visits
    BY <1>4, <2>1
  <2>2. CASE CommitBatch(w)
    <3>1. /\ Holders(w, FinalWork(w), Null) = {} /\ CanCommit(w, FinalWork(w))
          /\ visits' = Committed(w, FinalWork(w))
      BY <2>2 DEF CommitBatch
    <3>2. /\ FinalWork(w) \in UnitOfWork /\ Usable(FinalWork(w))
          /\ FinalWork(w).staged = uow[w].staged
      BY <1>1, FinalWorkOK
    <3>3. ObjsAnnounced(FinalWork(w).objs, announced')
      BY <1>3, <2>2, FinalWorkHeard
    <3>4. RowsAnnounced(uow[w].staged, announced')
      BY <1>4 DEF WorkAnnounced
    <3>5. RowsAnnounced(Committed(w, FinalWork(w)), announced')
      BY <1>1, <1>4, <3>1, <3>2, <3>3, <3>4, CommitHeard
    <3> QED
      BY <3>1, <3>5
  <2> QED
    BY <2>1, <2>2
<1>6. WorkAnnounced(uow'[w], announced')
  BY <1>2, NoWorkHeard
<1> QED
  BY <1>1, <1>2, <1>3, <1>5, <1>6, LocalHeard

-----------------------------------------------------------------------------
(* The stale check, crashes, and the steps that touch no session.            *)

LEMMA CheckStaleHeard ==
  ASSUME OpenInv, HeardInv, Hear, CheckStale
  PROVE  HeardInv'
<1> DEFINE open   == OpenRows(visits)
           loaded == Load(visits, open)
           F      == Forced(loaded, open, now)
           u      == [NoWork EXCEPT !.objs = F, !.deleted = Expiring(loaded, open, now)]
<1>1. /\ TypeOK /\ StaleCheck \in Session /\ StaleCheck \notin Worker
      /\ open \in SUBSET VisitId /\ now \in Nat
      /\ loaded \in [VisitId -> Instance \cup {Null}]
  <2>1. open \in SUBSET VisitId /\ \A i \in open : visits[i] # Null
    BY DEF OpenRows
  <2>2. TypeOK /\ now \in Nat /\ visits \in [VisitId -> Visit \cup {Null}]
    BY DEF OpenInv, TypeOK
  <2>3. loaded \in [VisitId -> Instance \cup {Null}]
    BY <2>1, <2>2 DEF Load, Instance
  <2> QED
    BY <2>1, <2>2, <2>3, SessionTypes, SessionAssumption
<1>2. /\ visits' = visits /\ job' = job /\ uow[StaleCheck] = NoWork
      /\ uow' = [uow EXCEPT ![StaleCheck] = u]
  BY DEF CheckStale
<1>3. /\ uow'[StaleCheck] = u /\ \A s \in Session : s # StaleCheck => uow'[s] = uow[s]
  BY <1>1, <1>2 DEF TypeOK
<1>4. \A i \in VisitId : loaded[i] # Null =>
        Reads(loaded[i], visits[i])
  BY <1>1, LoadReads DEF Load
<1>5. u.objs = F /\ u.staged = NoWork.staged
  BY DEF NoWork
<1> HIDE DEF open, loaded, F, u
<1>6. FreshIds
  BY <1>1, <1>3 DEF FreshIds, Creates, Session
<1>7. RowsAnnounced(visits, announced')
  BY <1>6, StillHeard
<1>8. ObjsAnnounced(u.objs, announced')
  <2>1. CASE u = NoWork
    BY <2>1, NoWorkHeard DEF WorkAnnounced
  <2>2. CASE u # NoWork
    <3>1. ClosingAll(loaded, open, now) \subseteq announced'
      <4>1. StaleCheckSays = ClosingAll(loaded, open, now)
        BY <1>2, <1>3, <2>2 DEF StaleCheckSays, loaded, open
      <4> QED
        BY <4>1, HearSays
    <3> SUFFICES ASSUME NEW i \in VisitId, Persistent(F[i]), F[i].row.state # F[i].orig.state
                 PROVE  <<i, F[i].row.state>> \in announced'
      BY <1>5 DEF ObjsAnnounced
    <3>2. F[i] # Null
      BY DEF Persistent
    <3>3. loaded[i] # Null /\ F[i].orig = loaded[i].orig
      BY <1>1, <3>2, ForcedAhead DEF F
    <3>4. loaded[i].row = loaded[i].orig
      BY <1>4, <3>3 DEF Reads
    <3>5. F[i].row.state # loaded[i].row.state
      BY <3>3, <3>4
    <3> QED
      BY <1>1, <3>1, <3>3, <3>4, <3>5, ForcedSays DEF F
  <2> QED
    BY <2>1, <2>2
<1>9. WorkAnnounced(uow'[StaleCheck], announced')
  BY <1>3, <1>5, <1>8, NoWorkOK DEF WorkAnnounced, RowsAnnounced
<1> QED
  BY <1>1, <1>2, <1>3, <1>6, <1>7, <1>9, LocalHeard

LEMMA CommitStaleHeard ==
  ASSUME OpenInv, HeardInv, Hear, CommitStale
  PROVE  HeardInv'
<1> DEFINE u == uow[StaleCheck]
<1>1. /\ TypeOK /\ Held /\ StaleCheck \in Session /\ StaleCheck \notin Worker
      /\ u \in UnitOfWork /\ Usable(u)
  BY SessionTypes, SessionAssumption DEF OpenInv, Held, WorkUsable
<1>2. /\ job' = job /\ uow'[StaleCheck] = NoWork
      /\ \A s \in Session : s # StaleCheck => uow'[s] = uow[s]
      /\ Holders(StaleCheck, u, Null) = {}
      /\ visits' = visits \/ (CanCommit(StaleCheck, u) /\ visits' = Committed(StaleCheck, u))
  BY <1>1 DEF CommitStale, TypeOK
<1>3. FreshIds
  BY <1>1, <1>2, NothingNewAtEnd, FreshByDefault
<1>4. RowsAnnounced(visits, announced') /\ WorkAnnounced(u, announced')
  BY <1>1, <1>3, StillHeard
<1>5. RowsAnnounced(visits', announced')
  <2>1. CASE visits' = visits
    BY <1>4, <2>1
  <2>2. CASE CanCommit(StaleCheck, u) /\ visits' = Committed(StaleCheck, u)
    <3>1. RowsAnnounced(u.staged, announced') /\ ObjsAnnounced(u.objs, announced')
      BY <1>4 DEF WorkAnnounced
    <3>2. RowsAnnounced(Committed(StaleCheck, u), announced')
      BY <1>1, <1>2, <1>4, <2>2, <3>1, CommitHeard
    <3> QED
      BY <2>2, <3>2
  <2> QED
    BY <1>2, <2>1, <2>2
<1> QED
  BY <1>1, <1>2, <1>3, <1>5, NoWorkHeard, LocalHeard

LEMMA CrashHeard ==
  ASSUME OpenInv, HeardInv, Hear, Crash
  PROVE  HeardInv'
<1>1. /\ \A s \in Session : uow'[s] = NoWork
      /\ \A i \in VisitId : visits'[i] # Null => visits'[i] = visits[i]
  BY DEF Crash
<1>2. FreshIds
  BY <1>1, NoWorkOK DEF FreshIds, Creates, Session
<1>3. RowsAnnounced(visits, announced')
  BY <1>2, StillHeard
<1>4. RowsAnnounced(visits', announced')
  BY <1>1, <1>3 DEF RowsAnnounced
<1>5. \A s \in Session : WorkAnnounced(uow'[s], announced')
  BY <1>1, NoWorkHeard
<1> QED
  BY <1>4, <1>5 DEF HeardInv, RowsAnnounced, WorkAnnounced, ObjsAnnounced

(* A step that leaves the table and every session alone.                     *)
LEMMA QuietHeard ==
  ASSUME OpenInv, HeardInv, Hear, visits' = visits, uow' = uow
  PROVE  HeardInv'
<1>1. FreshIds
  BY DEF FreshIds, Creates
<1>2. RowsAnnounced(visits, announced') /\ \A s \in Session : WorkAnnounced(uow[s], announced')
  BY <1>1, StillHeard
<1> QED
  BY <1>2 DEF HeardInv, RowsAnnounced, WorkAnnounced, ObjsAnnounced

LEMMA NextHeard ==
  ASSUME OpenInv, HeardInv, [Next /\ Hear]_streamVars
  PROVE  HeardInv'
<1>1. CASE UNCHANGED streamVars
  BY <1>1 DEF streamVars, vars, HeardInv, RowsAnnounced, WorkAnnounced, ObjsAnnounced
<1>2. ASSUME Hear, NEW w \in Worker, Begin(w) \/ WorkerStep(w) \/ Abort(w) PROVE HeardInv'
  <2>1. CASE Begin(w) \/ MapEvent(w) \/ NothingDetected(w) \/ SkipEvent(w)
    BY <1>2, <2>1, QuietHeard DEF Begin, MapEvent, NothingDetected, SkipEvent
  <2>2. CASE CommitBatch(w) \/ FailBatch(w) \/ DeadlockVictim(w) \/ Abort(w)
    BY <1>2, <2>2, FinishedHeard DEF CommitBatch, FailBatch, DeadlockVictim, Abort
  <2> QED
    BY <1>2, <2>1, <2>2, LoadOpenHeard, TouchVisitHeard, CreateVisitHeard, LoseRaceHeard,
       AdoptHeard DEF WorkerStep
<1>3. CASE Hear /\ (Tick \/ Quiescent)
  BY <1>3, QuietHeard DEF Tick, Quiescent, vars
<1> QED
  BY <1>1, <1>2, <1>3, CheckStaleHeard, CommitStaleHeard, CrashHeard DEF Next

(* Every state of a visit is announced before the table shows it, for any    *)
(* number of tractors: whichever of any number of workers and the stale      *)
(* check made the change, whatever they overlapped with, and whoever lost a  *)
(* race, failed or crashed, `_publish_status_change' came before the commit. *)
THEOREM CommittedAnnounced == StreamSpec => []CommittedIsAnnounced
<1>1. StreamInit => OpenInv /\ HeardInv
  <2> SUFFICES ASSUME StreamInit PROVE OpenInv /\ HeardInv
    OBVIOUS
  <2>1. OpenInv
    BY InitOpenInv DEF StreamInit
  <2>2. /\ \A i \in VisitId : visits[i] = Null
        /\ \A s \in Session : uow[s] = NoWork
    BY DEF StreamInit, Init
  <2> QED
    BY <2>1, <2>2, NoWorkHeard DEF HeardInv, RowsAnnounced
<1>2. OpenInv /\ HeardInv /\ [Next /\ Hear]_streamVars => (OpenInv /\ HeardInv)'
  <2> SUFFICES ASSUME OpenInv, HeardInv, [Next /\ Hear]_streamVars
               PROVE  (OpenInv /\ HeardInv)'
    OBVIOUS
  <2>1. [Next]_vars
    BY DEF streamVars
  <2> QED
    BY <2>1, NextOpenInv, NextHeard
<1>3. OpenInv /\ HeardInv => CommittedIsAnnounced
  BY DEF HeardInv, RowsAnnounced, CommittedIsAnnounced, Stored
<1> QED
  BY <1>1, <1>2, <1>3, PTL DEF StreamSpec

-----------------------------------------------------------------------------
(* The visits of a tractor, one after the other.                             *)

(* The rows as a session with the work u sees them, and as it would leave    *)
(* them if it committed all it has changed.                                  *)
RowsOf(u, table) ==
    [i \in VisitId |-> IF u.staged[i] # Null THEN u.staged[i] ELSE table[i]]

Latest(u, table) ==
    [i \in VisitId |-> IF Persistent(u.objs[i]) THEN u.objs[i].row ELSE RowsOf(u, table)[i]]

(* All detections of visit v lie before those of visit x: an ENTERING visit  *)
(* was first seen entry_seen_seconds before it was last seen.                *)
Precedes(v, x) ==
    IF x.arrived = Null THEN v.seen <= x.seen - x.acc ELSE v.seen + Entry <= x.arrived

(* Visit i is over before visit j, in the rows with these latest instants.   *)
OverBefore(rows, latest, i, j) == ~IsOpen(rows[i]) /\ Precedes(latest[i], latest[j])

Siblings(rows, i, j) ==
    i # j /\ rows[i] # Null /\ rows[j] # Null /\ rows[i].tractor = rows[j].tractor

InTurn(rows, latest) ==
    \A i, j \in VisitId : Siblings(rows, i, j) =>
        OverBefore(rows, latest, i, j) \/ OverBefore(rows, latest, j, i)

IsLast(rows, latest, i) ==
    \A j \in VisitId : Siblings(rows, j, i) => OverBefore(rows, latest, j, i)

(* A task only touches the last visit of a tractor.                          *)
ActiveLast(u, table, active) ==
    \A t \in Tractor : LET a == active[t] IN
        a # Null /\ u.objs[a] # Null /\ RowsOf(u, table)[a] # Null =>
            /\ RowsOf(u, table)[a].tractor = t
            /\ Persistent(u.objs[a]) => IsLast(RowsOf(u, table), Latest(u, table), a)

WorkInTurn(u, table, j) ==
    /\ InTurn(RowsOf(u, table), Latest(u, table))
    /\ ActiveLast(u, table, j.active)
    /\ \A i \in VisitId : u.staged[i] # Null => Persistent(u.objs[i])
    /\ j.pc = "adopting" => \A i \in VisitId : ~Persistent(u.objs[i])

TurnInv ==
    /\ InTurn(visits, visits)
    /\ \A w \in Worker : WorkInTurn(uow[w], visits, job[w])

-----------------------------------------------------------------------------
(* Changes that leave the order alone.                                       *)

(* Visit i keeps its instants, and stays over if it is.                      *)
Kept(rows, latest, after, new, i) ==
    /\ rows[i] # Null /\ after[i].tractor = rows[i].tractor
    /\ ~IsOpen(rows[i]) => ~IsOpen(after[i])
    /\ new[i].seen = latest[i].seen /\ new[i].acc = latest[i].acc
    /\ new[i].arrived = latest[i].arrived

LEMMA StillOver ==
  ASSUME NEW rows, NEW latest, NEW after, NEW new, NEW i, NEW j,
         Kept(rows, latest, after, new, i), Kept(rows, latest, after, new, j)
  PROVE  /\ OverBefore(rows, latest, i, j) => OverBefore(after, new, i, j)
         /\ Siblings(after, i, j) => Siblings(rows, i, j)
  BY DEF Kept, OverBefore, Precedes, Siblings

LEMMA StillInTurn ==
  ASSUME NEW rows, NEW latest, NEW after, NEW new, InTurn(rows, latest),
         \A i \in VisitId : after[i] # Null => Kept(rows, latest, after, new, i)
  PROVE  InTurn(after, new)
<1> SUFFICES ASSUME NEW i \in VisitId, NEW j \in VisitId, Siblings(after, i, j)
             PROVE  OverBefore(after, new, i, j) \/ OverBefore(after, new, j, i)
  BY DEF InTurn
<1>1. Kept(rows, latest, after, new, i) /\ Kept(rows, latest, after, new, j)
  BY DEF Siblings
<1> QED
  BY <1>1, StillOver DEF InTurn

LEMMA StillLast ==
  ASSUME NEW rows, NEW latest, NEW after, NEW new, NEW a \in VisitId, after[a] # Null,
         IsLast(rows, latest, a),
         \A i \in VisitId : after[i] # Null /\ after[i].tractor = after[a].tractor
                              => Kept(rows, latest, after, new, i)
  PROVE  IsLast(after, new, a)
<1> SUFFICES ASSUME NEW i \in VisitId, Siblings(after, i, a) PROVE OverBefore(after, new, i, a)
  BY DEF IsLast
<1>1. Kept(rows, latest, after, new, i) /\ Kept(rows, latest, after, new, a)
  BY DEF Siblings
<1> QED
  BY <1>1, StillOver DEF IsLast

(* The open visit of a table is the last one.                                *)
LEMMA OpenIsLast ==
  ASSUME NEW rows, InTurn(rows, rows), NEW a \in OpenRows(rows)
  PROVE  IsLast(rows, rows, a)
  BY DEF InTurn, IsLast, OpenRows, OverBefore, Siblings

(* A transaction that has not written anything sees the table.               *)
LEMMA RowsAt ==
  ASSUME NEW u, NEW table, NEW i \in VisitId
  PROVE  /\ RowsOf(u, table)[i] = IF u.staged[i] # Null THEN u.staged[i] ELSE table[i]
         /\ Latest(u, table)[i] = IF Persistent(u.objs[i]) THEN u.objs[i].row
                                  ELSE RowsOf(u, table)[i]
  BY DEF RowsOf, Latest

LEMMA CleanInTurn ==
  ASSUME NEW u, NEW table, InTurn(table, table),
         \A i \in VisitId : u.staged[i] = Null /\ (Persistent(u.objs[i]) => u.objs[i].row = table[i])
  PROVE  /\ InTurn(RowsOf(u, table), Latest(u, table))
         /\ \A i \in VisitId : /\ RowsOf(u, table)[i] = table[i]
                               /\ Latest(u, table)[i] = table[i]
         /\ \A i \in OpenRows(table) : IsLast(RowsOf(u, table), Latest(u, table), i)
<1>1. \A i \in VisitId : RowsOf(u, table)[i] = table[i] /\ Latest(u, table)[i] = table[i]
  BY RowsAt
<1> DEFINE rows   == RowsOf(u, table)
           latest == Latest(u, table)
<1> HIDE DEF rows, latest
<1>2. \A i \in VisitId : rows[i] # Null => Kept(table, table, rows, latest, i)
  BY <1>1 DEF Kept, rows, latest
<1>3. InTurn(rows, latest)
  BY <1>2, StillInTurn
<1>4. ASSUME NEW a \in OpenRows(table) PROVE IsLast(rows, latest, a)
  <2>1. a \in VisitId /\ rows[a] # Null /\ IsLast(table, table, a)
    BY <1>1, OpenIsLast DEF OpenRows, rows
  <2> QED
    BY <1>2, <2>1, StillLast
<1> QED
  BY <1>1, <1>3, <1>4 DEF rows, latest

LEMMA NoWorkInTurn ==
  ASSUME NEW table, InTurn(table, table), NEW j \in Job
  PROVE  WorkInTurn(NoWork, table, j)
<1>1. \A i \in VisitId : NoWork.staged[i] = Null /\ NoWork.objs[i] = Null
                           /\ ~Persistent(NoWork.objs[i])
  BY NoWorkOK DEF Persistent
<1>2. InTurn(RowsOf(NoWork, table), Latest(NoWork, table))
  BY <1>1, CleanInTurn
<1>3. ActiveLast(NoWork, table, j.active)
  BY <1>1 DEF ActiveLast, Job
<1> QED
  BY <1>1, <1>2, <1>3 DEF WorkInTurn

(* A step of the only worker.                                                *)
LEMMA WorkerTurn ==
  ASSUME \A v, w \in Worker : v = w, NEW w \in Worker,
         InTurn(visits', visits'), WorkInTurn(uow'[w], visits', job'[w])
  PROVE  TurnInv'
<1>1. \A v \in Worker : v = w
  OBVIOUS
<1>2. \A v \in Worker : WorkInTurn(uow'[v], visits', job'[v])
  BY <1>1
<1> QED
  BY <1>2 DEF TurnInv

LEMMA LoadOpenTurn ==
  ASSUME OpenInv, TurnInv, \A v, w \in Worker : v = w, NEW w \in Worker, LoadOpen(w)
  PROVE  TurnInv'
<1> DEFINE u == uow'[w]
           j == job'[w]
<1>1. /\ TypeOK /\ Held /\ InTurn(visits, visits) /\ visits' = visits /\ j.pc = "applying"
      /\ \A i \in VisitId :
           /\ u.staged[i] = Null
           /\ u.objs[i] # Null => visits[i] # Null /\ Reads(u.objs[i], visits[i])
      /\ \A t \in Tractor : j.active[t] # Null =>
           /\ j.active[t] \in OpenRows(visits)
           /\ visits[j.active[t]].tractor = t
  BY LoadOpenShape DEF OpenInv, TurnInv, GoesOn
<1>2. \A i \in VisitId : u.staged[i] = Null /\ (Persistent(u.objs[i]) => u.objs[i].row = visits[i])
  BY <1>1 DEF Persistent, Reads
<1> HIDE DEF u, j
<1>3. /\ InTurn(RowsOf(u, visits), Latest(u, visits))
      /\ \A i \in VisitId : RowsOf(u, visits)[i] = visits[i]
      /\ \A i \in OpenRows(visits) : IsLast(RowsOf(u, visits), Latest(u, visits), i)
  BY <1>1, <1>2, CleanInTurn
<1>4. ActiveLast(u, visits, j.active)
  BY <1>1, <1>3 DEF ActiveLast, OpenRows
<1>5. WorkInTurn(u, visits, j)
  BY <1>1, <1>3, <1>4 DEF WorkInTurn
<1> QED
  BY <1>1, <1>5, WorkerTurn DEF u, j

LEMMA SkipEventTurn ==
  ASSUME OpenInv, TurnInv, \A v, w \in Worker : v = w, NEW w \in Worker, SkipEvent(w)
  PROVE  TurnInv'
<1>1. /\ visits' = visits /\ uow'[w] = uow[w] /\ job'[w].active = job[w].active
      /\ job'[w].pc = "applying" /\ WorkInTurn(uow[w], visits, job[w]) /\ InTurn(visits, visits)
  BY SkipEventShape DEF OpenInv, TurnInv, GoesOn
<1>2. WorkInTurn(uow[w], visits, job'[w])
  BY <1>1 DEF WorkInTurn
<1> QED
  BY <1>1, <1>2, WorkerTurn

LEMMA LoseRaceTurn ==
  ASSUME OpenInv, TurnInv, \A v, w \in Worker : v = w, NEW w \in Worker, LoseRace(w)
  PROVE  TurnInv'
<1> DEFINE u == uow'[w]
<1>1. /\ TypeOK /\ Held /\ visits' = visits /\ InTurn(visits, visits)
      /\ WorkInTurn(uow[w], visits, job[w])
      /\ job[w].events # <<>> /\ Event(w).tractor # Null
      /\ \A i \in VisitId :
           /\ u.staged[i] = Null
           /\ u.objs[i] # Null => WorkBefore(w).objs[i] # Null /\ ~Persistent(u.objs[i])
  BY LoseRaceShape DEF OpenInv, TurnInv, GoesOn
<1>2. job'[w].active = job[w].active /\ job[w] \in Job /\ w \in Session
  BY <1>1, SessionTypes DEF LoseRace, TypeOK, Job
<1>3. \A i \in VisitId : u.staged[i] = Null /\ ~Persistent(u.objs[i])
  BY <1>1 DEF Persistent
<1>4. \A i \in VisitId : u.objs[i] # Null => uow[w].objs[i] # Null
  BY <1>1, WorkBeforeOK
<1> HIDE DEF u
<1>5. /\ InTurn(RowsOf(u, visits), Latest(u, visits))
      /\ \A i \in VisitId : RowsOf(u, visits)[i] = visits[i]
  BY <1>1, <1>3, CleanInTurn
<1>6. ActiveLast(u, visits, job[w].active)
  <2> SUFFICES ASSUME NEW t \in Tractor, job[w].active[t] # Null,
                      u.objs[job[w].active[t]] # Null, visits[job[w].active[t]] # Null
               PROVE  visits[job[w].active[t]].tractor = t
    BY <1>2, <1>3, <1>5 DEF ActiveLast, Job
  <2> DEFINE a == job[w].active[t]
  <2>1. a \in VisitId /\ uow[w].objs[a] # Null
    BY <1>2, <1>4 DEF Job
  <2>2. RowsOf(uow[w], visits)[a] = IF uow[w].staged[a] # Null THEN uow[w].staged[a] ELSE visits[a]
    BY <2>1, RowsAt
  <2>3. uow[w].staged[a] # Null => uow[w].staged[a].tractor = visits[a].tractor
    BY <1>2, <2>1 DEF OpenInv, RowsInv, StagedFollows
  <2>4. RowsOf(uow[w], visits)[a].tractor = t
    BY <1>1, <2>1, <2>2 DEF WorkInTurn, ActiveLast
  <2> QED
    BY <2>2, <2>3, <2>4
<1>7. WorkInTurn(u, visits, job'[w])
  BY <1>2, <1>3, <1>5, <1>6 DEF WorkInTurn
<1> QED
  BY <1>1, <1>7, WorkerTurn DEF u

LEMMA AdoptTurn ==
  ASSUME OpenInv, TurnInv, \A v, w \in Worker : v = w, NEW w \in Worker, Adopt(w)
  PROVE  TurnInv'
<1> DEFINE u == uow'[w]
           t == Event(w).tractor
           j == job'[w]
           active == job[w].active
<1>1. /\ TypeOK /\ Held /\ visits' = visits /\ InTurn(visits, visits) /\ w \in Session
      /\ WorkInTurn(uow[w], visits, job[w]) /\ job[w] \in Job
      /\ j.pc = "applying" /\ job[w].pc = "adopting"
      /\ u.staged = uow[w].staged
      /\ \A i \in VisitId : \/ u.objs[i] = uow[w].objs[i]
                            \/ visits[i] # Null /\ Reads(u.objs[i], visits[i])
  BY AdoptShape, SessionTypes DEF OpenInv, TurnInv, GoesOn
<1>2. \/ j.active = [active EXCEPT ![t] = Null] /\ u = uow[w]
      \/ \E i \in OpenRows(visits) :
           /\ visits[i].tractor = t
           /\ j.active = [active EXCEPT ![t] = i]
           /\ \A k \in VisitId : k # i => u.objs[k] = uow[w].objs[k]
  BY <1>1, AdoptShape
<1>3. active \in [Tractor -> VisitId \cup {Null}]
  BY <1>1 DEF Job
<1>4. \A i \in VisitId : ~Persistent(uow[w].objs[i]) /\ uow[w].staged[i] = Null
  BY <1>1 DEF WorkInTurn
<1>5. \A i \in VisitId : u.staged[i] = Null /\ (Persistent(u.objs[i]) => u.objs[i].row = visits[i])
  BY <1>1, <1>4 DEF Reads
<1> HIDE DEF u, t, j, active
<1>6. /\ InTurn(RowsOf(u, visits), Latest(u, visits))
      /\ \A i \in VisitId : RowsOf(u, visits)[i] = visits[i]
      /\ \A i \in OpenRows(visits) : IsLast(RowsOf(u, visits), Latest(u, visits), i)
  BY <1>1, <1>5, CleanInTurn
<1>7. \A i \in VisitId : RowsOf(uow[w], visits)[i] = visits[i]
  BY <1>4, RowsAt
<1>8. ActiveLast(uow[w], visits, active)
  BY <1>1 DEF WorkInTurn, active
<1>9. ActiveLast(u, visits, j.active)
  <2> SUFFICES ASSUME NEW s \in Tractor, j.active[s] # Null, u.objs[j.active[s]] # Null,
                      RowsOf(u, visits)[j.active[s]] # Null
               PROVE  /\ RowsOf(u, visits)[j.active[s]].tractor = s
                      /\ Persistent(u.objs[j.active[s]])
                           => IsLast(RowsOf(u, visits), Latest(u, visits), j.active[s])
    BY DEF ActiveLast
  <2>1. CASE j.active = [active EXCEPT ![t] = Null] /\ u = uow[w]
    <3>1. j.active[s] = active[s]
      BY <1>3, <2>1
    <3> QED
      BY <1>3, <1>8, <2>1, <3>1 DEF ActiveLast
  <2>2. ASSUME NEW i \in OpenRows(visits), visits[i].tractor = t,
               j.active = [active EXCEPT ![t] = i],
               \A k \in VisitId : k # i => u.objs[k] = uow[w].objs[k]
        PROVE  /\ RowsOf(u, visits)[j.active[s]].tractor = s
               /\ Persistent(u.objs[j.active[s]])
                    => IsLast(RowsOf(u, visits), Latest(u, visits), j.active[s])
    <3>1. CASE s = t
      <4>1. j.active[s] = i /\ i \in VisitId
        BY <1>3, <2>2, <3>1 DEF OpenRows
      <4> QED
        BY <1>6, <2>2, <3>1, <4>1
    <3>2. CASE s # t
      <4>1. j.active[s] = active[s] /\ active[s] \in VisitId
        BY <1>3, <2>2, <3>2
      <4>2. CASE active[s] = i
        <5>1. uow[w].objs[i] # Null /\ visits[i] # Null /\ i \in VisitId
          BY <1>1, <4>1, <4>2 DEF Held, ActiveHeld, OpenRows, active
        <5>2. visits[i].tractor = s
          BY <1>7, <1>8, <4>1, <4>2, <5>1 DEF ActiveLast
        <5> QED
          BY <2>2, <3>2, <5>2
      <4>3. CASE active[s] # i
        BY <1>4, <1>6, <1>7, <1>8, <2>2, <4>1, <4>3 DEF ActiveLast
      <4> QED
        BY <4>2, <4>3
    <3> QED
      BY <3>1, <3>2
  <2> QED
    BY <1>2, <2>1, <2>2
<1>10. WorkInTurn(u, visits, j)
  BY <1>1, <1>5, <1>6, <1>9 DEF WorkInTurn
<1> QED
  BY <1>1, <1>10, WorkerTurn DEF u, j

(* The work x, which is u after another look at the exit timers.             *)
LEMMA AheadInTurn ==
  ASSUME NEW u, NEW x, NEW time, Ahead(u, x, time), NEW table,
         \A i \in VisitId : u.objs[i] # Null => x.objs[i] # Null
  PROVE  /\ \A i \in VisitId : Persistent(x.objs[i]) <=> Persistent(u.objs[i])
         /\ \A i \in VisitId : /\ RowsOf(x, table)[i] = RowsOf(u, table)[i]
                               /\ Latest(x, table)[i].seen = Latest(u, table)[i].seen
                               /\ Latest(x, table)[i].acc = Latest(u, table)[i].acc
                               /\ Latest(x, table)[i].arrived = Latest(u, table)[i].arrived
<1>1. \A i \in VisitId : Persistent(x.objs[i]) <=> Persistent(u.objs[i])
  BY DEF Ahead, Persistent
<1>2. \A i \in VisitId : RowsOf(x, table)[i] = RowsOf(u, table)[i]
  BY RowsAt DEF Ahead
<1>3. ASSUME NEW i \in VisitId
      PROVE  /\ Latest(x, table)[i].seen = Latest(u, table)[i].seen
             /\ Latest(x, table)[i].acc = Latest(u, table)[i].acc
             /\ Latest(x, table)[i].arrived = Latest(u, table)[i].arrived
  <2>1. CASE ~Persistent(u.objs[i])
    BY <1>1, <1>2, <2>1, RowsAt
  <2>2. CASE Persistent(u.objs[i])
    <3>1. Quieted(u.objs[i].row, x.objs[i].row, time)
      BY <1>1, <2>2 DEF Ahead, Persistent
    <3>2. Latest(x, table)[i] = x.objs[i].row /\ Latest(u, table)[i] = u.objs[i].row
      BY <1>1, <2>2, RowsAt
    <3> QED
      BY <3>1, <3>2, QuietedKeeps
  <2> QED
    BY <2>1, <2>2
<1> QED
  BY <1>1, <1>2, <1>3

(* A detection of the last visit comes after all that precedes it.           *)
LEMMA TransitionPrecedes ==
  ASSUME NEW v \in Visit, NEW at \in Nat, v.seen <= at, v.state # "CLOSED", Genuine(v),
         NEW p \in Visit, Precedes(p, v)
  PROVE  Precedes(p, ApplyTransition(v, at))
<1> DEFINE acc == v.acc + (at - v.seen)
<1>1. /\ acc \in Int /\ Entry \in Int /\ v.seen \in Nat /\ v.acc \in Int /\ p.seen \in Nat
      /\ v.arrived \in Nat \cup {Null} /\ v.state \in VisitState /\ at # Null
  BY Thresholds, NullAssumption DEF Visit
<1>2. CASE v.state = "ENTERING" /\ acc >= Entry
  <2>1. ApplyTransition(v, at) =
          [v EXCEPT !.acc = acc, !.seen = at, !.state = "PRESENT", !.arrived = at]
    BY <1>1, <1>2 DEF ApplyTransition
  <2>2. ApplyTransition(v, at).arrived = at
    BY <1>1, <2>1 DEF Visit
  <2>3. p.seen <= v.seen - v.acc
    BY <1>2 DEF Precedes, Genuine
  <2>4. p.seen + Entry <= at
    BY <1>1, <1>2, <2>3
  <2> QED
    BY <1>1, <2>2, <2>4 DEF Precedes
<1>3. CASE v.state = "ENTERING" /\ acc < Entry
  <2>1. ApplyTransition(v, at) = [v EXCEPT !.acc = acc, !.seen = at]
    BY <1>1, <1>3 DEF ApplyTransition
  <2>2. /\ ApplyTransition(v, at).arrived = Null /\ ApplyTransition(v, at).seen = at
        /\ ApplyTransition(v, at).acc = acc
    BY <1>3, <2>1 DEF Visit, Genuine
  <2>3. p.seen <= v.seen - v.acc
    BY <1>3 DEF Precedes, Genuine
  <2>4. p.seen <= at - acc
    BY <1>1, <2>3
  <2> QED
    BY <2>2, <2>4 DEF Precedes
<1>4. CASE v.state \in {"PRESENT", "LEAVING"}
  <2>1. ApplyTransition(v, at) = [v EXCEPT !.seen = at, !.state = "PRESENT"]
    BY <1>4 DEF ApplyTransition, Visit
  <2>2. ApplyTransition(v, at).arrived = v.arrived /\ v.arrived # Null
    BY <1>4, <2>1 DEF Visit, Genuine
  <2> QED
    BY <2>2 DEF Precedes
<1> QED
  BY <1>1, <1>2, <1>3, <1>4 DEF VisitState

LEMMA LatestOK ==
  ASSUME NEW u \in UnitOfWork, NEW table \in [VisitId -> Visit \cup {Null}], NEW i \in VisitId,
         RowsOf(u, table)[i] # Null
  PROVE  RowsOf(u, table)[i] \in Visit /\ Latest(u, table)[i] \in Visit
<1>1. Persistent(u.objs[i]) => u.objs[i].row \in Visit
  BY DEF Persistent, UnitOfWork, Instance
<1>2. RowsOf(u, table)[i] \in Visit
  BY RowsAt DEF UnitOfWork
<1> QED
  BY <1>1, <1>2, RowsAt

LEMMA TouchVisitTurn ==
  ASSUME OpenInv, TimesInv, SoloInv, TurnInv, \A v, w \in Worker : v = w,
         NEW w \in Worker, TouchVisit(w)
  PROVE  TurnInv'
<1> DEFINE at     == Event(w).at
           a      == ActiveId(w)
           u      == uow[w]
           z      == uow'[w]
           o      == Aged(w)
           active == job[w].active
           rows   == RowsOf(u, visits)
           latest == Latest(u, visits)
           after  == RowsOf(z, visits)
           new    == Latest(z, visits)
<1>1. /\ TypeOK /\ Held /\ u \in UnitOfWork /\ visits \in [VisitId -> Visit \cup {Null}]
      /\ visits' = visits /\ InTurn(visits, visits) /\ WorkInTurn(u, visits, job[w])
      /\ job[w].events # <<>> /\ Event(w).tractor # Null /\ Event(w).tractor \in Tractor
      /\ active = job'[w].active /\ job'[w].pc = "applying"
      /\ active \in [Tractor -> VisitId \cup {Null}] /\ a = active[Event(w).tractor]
      /\ a \in VisitId /\ a # Null /\ o.row.state # "CLOSED"
      /\ z.staged = u.staged
      /\ \A i \in VisitId : i # a => z.objs[i] = u.objs[i]
  <2>1. /\ TypeOK /\ Held /\ w \in Session
    BY SessionTypes DEF OpenInv
  <2>2. job[w] \in Job /\ u \in UnitOfWork /\ visits \in [VisitId -> Visit \cup {Null}]
    BY <2>1, SessionTypes DEF TypeOK
  <2>3. job[w].events # <<>> /\ Event(w).tractor # Null
    BY <2>1, TouchVisitShape
  <2>4. Event(w).tractor \in Tractor
    BY <2>1, <2>3, EventOK
  <2> QED
    BY <2>1, <2>2, <2>3, <2>4, TouchVisitShape DEF TurnInv, GoesOn, Job, ActiveId
<1>2. /\ z.objs[a].row = ApplyTransition(o.row, at) /\ z.objs[a].orig = o.orig
      /\ z.objs[a].kind = o.kind /\ z.objs[a] # Null
  BY <1>1, TouchVisitShape
<1>3. /\ o \in Instance /\ o # Null /\ o.row \in Visit /\ u.objs[a] # Null
      /\ o.kind = u.objs[a].kind /\ Quieted(u.objs[a].row, o.row, at)
  BY <1>1, AgedOK, AgedRow, InstanceAssumption DEF Instance
<1>4. /\ at \in Nat /\ InstancesFit(WorkBefore(w), job[w].events) /\ WorkBefore(w).objs[a] = o
  <2>1. WorkBefore(w).objs[a] = o
    BY <1>1 DEF WorkBefore, UnitOfWork
  <2> QED
    BY <1>1, <2>1, WorkBeforeFits
<1>5. /\ Genuine(o.row) /\ o.row.seen <= at
  <2>1. Advances(o) /\ \A k \in 1 .. Len(job[w].events) : o.row.seen <= job[w].events[k].at
    BY <1>1, <1>3, <1>4 DEF InstancesFit
  <2> QED
    BY <1>1, <2>1, FewerEvents DEF Advances
<1>6. /\ InTurn(rows, latest) /\ ActiveLast(u, visits, active)
      /\ \A i \in VisitId : u.staged[i] # Null => Persistent(u.objs[i])
  BY <1>1 DEF WorkInTurn
<1>7. Persistent(z.objs[a]) <=> Persistent(u.objs[a])
  BY <1>2, <1>3 DEF Persistent
<1>8. \A i \in VisitId : after[i] = rows[i] /\ (i # a => new[i] = latest[i])
  BY <1>1, RowsAt
<1>9. \A i \in VisitId : rows[i] # Null => rows[i] \in Visit /\ latest[i] \in Visit
  BY <1>1, LatestOK
<1>10. ~Persistent(u.objs[a]) => new[a] = latest[a]
  BY <1>1, <1>7, <1>8, RowsAt
<1>11. ASSUME Persistent(u.objs[a]), NEW i \in VisitId, i # a, rows[i] # Null,
              Precedes(latest[i], latest[a])
       PROVE  Precedes(latest[i], new[a])
  <2>0. latest[a] = u.objs[a].row /\ new[a] = z.objs[a].row
    <3> HIDE DEF a, u, z
    <3> QED
      BY <1>1, <1>7, <1>11, RowsAt
  <2>1. latest[a] = u.objs[a].row /\ new[a] = ApplyTransition(o.row, at)
    BY <1>2, <2>0
  <2>2. Precedes(latest[i], o.row)
    BY <1>3, <1>11, <2>1, QuietedKeeps DEF Precedes
  <2>3. latest[i] \in Visit
    BY <1>9, <1>11
  <2> HIDE DEF o, at, latest, new
  <2> QED
    BY <1>1, <1>3, <1>4, <1>5, <2>1, <2>2, <2>3, TransitionPrecedes
<1>12. rows[a] # Null => rows[a].tractor = Event(w).tractor
                           /\ (Persistent(u.objs[a]) => IsLast(rows, latest, a))
  BY <1>1, <1>3, <1>6 DEF ActiveLast
<1> HIDE DEF at, a, u, z, o, active, rows, latest, after, new
<1>13. ASSUME NEW i \in VisitId, NEW k \in VisitId,
              (i # a /\ k # a) \/ ~Persistent(u.objs[a]), OverBefore(rows, latest, i, k)
       PROVE  OverBefore(after, new, i, k)
  BY <1>1, <1>8, <1>10, <1>13 DEF OverBefore
<1>14. ASSUME Persistent(u.objs[a]), NEW i \in VisitId, Siblings(rows, i, a)
       PROVE  OverBefore(after, new, i, a)
  BY <1>1, <1>8, <1>11, <1>12, <1>14 DEF OverBefore, IsLast, Siblings
<1>15. \A i, k \in VisitId : Siblings(after, i, k) => Siblings(rows, i, k) /\ Siblings(rows, k, i)
  BY <1>8 DEF Siblings
<1>16. InTurn(after, new)
  <2> SUFFICES ASSUME NEW i \in VisitId, NEW k \in VisitId, Siblings(after, i, k)
               PROVE  OverBefore(after, new, i, k) \/ OverBefore(after, new, k, i)
    BY DEF InTurn
  <2>1. CASE (i = a \/ k = a) /\ Persistent(u.objs[a])
    BY <1>14, <1>15, <2>1
  <2>2. CASE (i # a /\ k # a) \/ ~Persistent(u.objs[a])
    BY <1>6, <1>13, <1>15, <2>2 DEF InTurn
  <2> QED
    BY <2>1, <2>2
<1>17. ASSUME NEW t \in Tractor, NEW b \in VisitId, b = active[t], z.objs[b] # Null, after[b] # Null
       PROVE  /\ after[b].tractor = t
              /\ Persistent(z.objs[b]) => IsLast(after, new, b)
  <2>1. u.objs[b] # Null /\ rows[b] # Null /\ after[b] = rows[b] /\ b # Null
    BY <1>1, <1>3, <1>8, <1>17, InstanceAssumption, NullAssumption, BoundAssumption DEF VisitId
  <2>2. rows[b].tractor = t /\ (Persistent(u.objs[b]) => IsLast(rows, latest, b))
    BY <1>6, <1>17, <2>1 DEF ActiveLast, rows, latest
  <2>3. Persistent(z.objs[b]) => Persistent(u.objs[b])
    BY <1>1, <1>7
  <2>4. CASE b = a
    BY <1>14, <1>15, <2>1, <2>2, <2>3, <2>4 DEF IsLast
  <2>5. CASE b # a
    <3>1. ASSUME NEW i \in VisitId, Siblings(rows, i, b) PROVE i # a
      BY <1>1, <1>12, <1>17, <2>1, <2>2, <2>5, <3>1 DEF Siblings
    <3> QED
      BY <1>13, <1>15, <2>1, <2>2, <2>3, <2>5, <3>1 DEF IsLast
  <2> QED
    BY <2>1, <2>2, <2>4, <2>5
<1>18. ActiveLast(z, visits, active)
  BY <1>1, <1>17 DEF ActiveLast, after, new
<1>19. \A i \in VisitId : z.staged[i] # Null => Persistent(z.objs[i])
  BY <1>1, <1>6, <1>7
<1>20. WorkInTurn(z, visits, job'[w])
  BY <1>1, <1>16, <1>18, <1>19 DEF WorkInTurn, after, new
<1> QED
  BY <1>1, <1>20, WorkerTurn DEF z

(* What holds of the work u still does when a task has looked at the exit    *)
(* timers again.                                                             *)
LEMMA AheadTurn ==
  ASSUME NEW u, NEW x, NEW time, Ahead(u, x, time), NEW table, NEW j, WorkInTurn(u, table, j),
         j.active \in [Tractor -> VisitId \cup {Null}],
         \A i \in VisitId : u.objs[i] # Null <=> x.objs[i] # Null
  PROVE  /\ InTurn(RowsOf(x, table), Latest(x, table)) /\ ActiveLast(x, table, j.active)
         /\ \A i \in VisitId : x.staged[i] # Null => Persistent(x.objs[i])
<1> DEFINE rows   == RowsOf(u, table)
           latest == Latest(u, table)
           after  == RowsOf(x, table)
           new    == Latest(x, table)
<1>1. \A i \in VisitId : /\ Persistent(x.objs[i]) <=> Persistent(u.objs[i])
                         /\ after[i] = rows[i]
                         /\ after[i] # Null => Kept(rows, latest, after, new, i)
  BY AheadInTurn DEF Kept
<1>2. InTurn(rows, latest) /\ ActiveLast(u, table, j.active)
  BY DEF WorkInTurn
<1>3. \A i \in VisitId : x.staged[i] # Null => Persistent(x.objs[i])
  BY <1>1 DEF WorkInTurn, Ahead
<1> HIDE DEF rows, latest, after, new
<1>4. InTurn(after, new)
  BY <1>1, <1>2, StillInTurn
<1>5. ASSUME NEW a \in VisitId, after[a] # Null, IsLast(rows, latest, a)
      PROVE  IsLast(after, new, a)
  BY <1>1, <1>5, StillLast
<1>6. ActiveLast(x, table, j.active)
  BY <1>1, <1>2, <1>5 DEF ActiveLast, rows, latest, after, new
<1> QED
  BY <1>3, <1>4, <1>6 DEF after, new

(* What a flush leaves of a row.                                             *)
LEMMA FlushKeeps ==
  ASSUME TypeOK, RowsChecked, NEW s \in Session, NEW u, Flushing(s, u), NEW k \in VisitId,
         k \in Dirty(u) => RowOK(Staged(s, u)[k]), Overlay(Staged(s, u))[k] # Null
  PROVE  LET v   == Overlay(Staged(s, u))[k]
             row == RowsOf(u, visits)[k]
         IN  /\ row # Null /\ v.tractor = row.tractor /\ (~IsOpen(row) => ~IsOpen(v))
             /\ k \in Dirty(u) => Persistent(u.objs[k])
             /\ k \notin Dirty(u) => v = row
<1>1. u.staged = uow[s].staged
  BY DEF Flushing
<1>2. RowsOf(u, visits)[k] = View(s)[k]
  BY <1>1, RowsAt, ViewOK
<1>3. CASE k \in Dirty(u)
  <2>1. Overlay(Staged(s, u))[k] = Staged(s, u)[k] /\ View(s)[k] # Null /\ Persistent(u.objs[k])
    BY <1>3, FlushedRow, OverlayAt, NullAssumption DEF Dirty
  <2> QED
    BY <1>2, <1>3, <2>1, FlushedRow
<1>4. CASE k \notin Dirty(u)
  <2>1. Overlay(Staged(s, u))[k] = View(s)[k]
    BY <1>4, UnflushedRow, OverlayAt, ViewOK
  <2> QED
    BY <1>2, <1>4, <2>1
<1> QED
  BY <1>3, <1>4

(* One more visit, the last of its tractor.                                  *)
LEMMA JoinsInTurn ==
  ASSUME NEW rows, NEW latest, NEW after, NEW new, InTurn(rows, latest), NEW i \in VisitId,
         \A k \in VisitId : k # i /\ after[k] # Null => Kept(rows, latest, after, new, k),
         IsLast(after, new, i)
  PROVE  InTurn(after, new)
<1> SUFFICES ASSUME NEW k \in VisitId, NEW l \in VisitId, Siblings(after, k, l)
             PROVE  OverBefore(after, new, k, l) \/ OverBefore(after, new, l, k)
  BY DEF InTurn
<1>1. CASE k = i \/ l = i
  BY <1>1 DEF IsLast, Siblings
<1>2. CASE k # i /\ l # i
  <2>1. Kept(rows, latest, after, new, k) /\ Kept(rows, latest, after, new, l)
    BY <1>2 DEF Siblings
  <2> QED
    BY <2>1, StillOver DEF InTurn
<1> QED
  BY <1>1, <1>2

LEMMA CreateVisitTurn ==
  ASSUME OpenInv, TimesInv, SoloInv, TurnInv, \A v, w \in Worker : v = w,
         NEW w \in Worker, CreateVisit(w)
  PROVE  TurnInv'
<1> DEFINE at     == Event(w).at
           t      == Event(w).tractor
           u      == WorkBefore(w)
           z      == uow'[w]
           active == job[w].active
           rows   == RowsOf(u, visits)
           latest == Latest(u, visits)
           after  == RowsOf(z, visits)
           new    == Latest(z, visits)
           row    == NewVisit(t, at, job[w].begun)
<1>1. /\ TypeOK /\ Held /\ RowsChecked /\ w \in Session /\ EventTimes(w)
      /\ job[w] \in Job /\ active \in [Tractor -> VisitId \cup {Null}]
      /\ visits' = visits /\ InTurn(visits, visits) /\ WorkInTurn(uow[w], visits, job[w])
      /\ job[w].events # <<>> /\ t \in Tractor /\ t # Null /\ at \in Nat /\ job[w].begun \in Nat
      /\ job[w].pc = "applying" /\ job'[w].pc = "applying" /\ Flushing(w, u)
  <2>1. /\ TypeOK /\ Held /\ RowsChecked /\ w \in Session /\ EventTimes(w)
    BY SessionTypes DEF OpenInv, RowsInv, TimesInv
  <2>2. job[w] \in Job
    BY <2>1 DEF TypeOK
  <2>3. job[w].events # <<>> /\ t \in Tractor /\ Flushing(w, u)
    BY <2>1, CreateVisitShape
  <2> QED
    BY <2>1, <2>2, <2>3, CreateVisitShape, EventOK, NullAssumption DEF TurnInv, GoesOn, Job
<1>2. PICK i \in VisitId :
        /\ i \notin Dirty(u)
        /\ \A s \in Session : uow[s].objs[i] = Null /\ uow[s].staged[i] = Null
        /\ CanInsert(w, i)
        /\ \A k \in VisitId : WithInsert(w, i)[k] = IF k = i THEN row ELSE Staged(w, u)[k]
        /\ z.staged = WithInsert(w, i)
        /\ z.objs[i].row = row /\ z.objs[i].kind = "created"
        /\ job'[w].active = [active EXCEPT ![t] = i]
        /\ \A k \in VisitId : k # i => z.objs[k] =
             IF k \in Dirty(u)
             THEN [u.objs[k] EXCEPT !.orig = u.objs[k].row, !.touched = FALSE, !.updated = TRUE]
             ELSE u.objs[k]
  BY <1>1, CreateVisitShape
<1> DEFINE ins == WithInsert(w, i)
<1>2a. z.staged = ins
  BY <1>2
<1>2b. \A k \in VisitId : ins[k] = IF k = i THEN row ELSE Staged(w, u)[k]
  BY <1>2
<1>2c. /\ job'[w].active = [active EXCEPT ![t] = i]
       /\ \A s \in Session : uow[s].objs[i] = Null /\ uow[s].staged[i] = Null
  BY <1>2
<1>2d. z.objs[i].row = row /\ z.objs[i].kind = "created" /\ CanInsert(w, i)
  BY <1>2
<1>2e. i \in VisitId /\ i # Null
  BY NullAssumption DEF VisitId
<1>2f. job'[w].active[t] = i /\ \A s \in Tractor : s # t => job'[w].active[s] = active[s]
  <2> HIDE DEF t, active
  <2> QED
    BY <1>1, <1>2c
<1>3. z.objs[i] # Null /\ Persistent(z.objs[i])
  <2>1. job'[w].active[t] = i /\ i # Null
    BY <1>2e, <1>2f
  <2>2. ActiveHeld'
    BY CreateVisitHeld DEF OpenInv, Held
  <2>3. z.objs[i] # Null
    BY <1>1, <2>1, <2>2 DEF ActiveHeld
  <2> QED
    BY <1>2d, <2>3 DEF Persistent
<1>4. row \in Visit /\ row.tractor = t /\ row.state = "ENTERING" /\ row.arrived = Null
        /\ row.seen = at /\ row.acc = 0 /\ row # Null
  <2>1. row \in Visit /\ row.tractor = t /\ row.state = "ENTERING"
    BY <1>1, NewVisitOK
  <2> QED
    BY <2>1, NullAssumption DEF NewVisit
<1>5. /\ u \in UnitOfWork /\ InstancesFit(u, job[w].events)
      /\ \A k \in VisitId : u.objs[k] # Null <=> uow[w].objs[k] # Null
  BY <1>1, WorkBeforeFits, WorkBeforeOK
<1>6. /\ InTurn(rows, latest) /\ ActiveLast(u, visits, active)
      /\ \A k \in VisitId : u.staged[k] # Null => Persistent(u.objs[k])
  BY <1>1, <1>5, WorkBeforeAhead, AheadTurn
<1>7. \A k \in VisitId : after[k] = Overlay(ins)[k]
  <2> HIDE DEF z, ins
  <2> QED
    BY <1>2a, RowsAt, OverlayAt
<1>8. /\ \A k \in Dirty(u) \cup {i} : RowOK(Overlay(ins)[k])
      /\ \A k \in OpenRows(Overlay(ins)) : Overlay(ins)[k].tractor = t => k = i
      /\ Overlay(ins)[i] = row
  <2>1. Overlay(ins)[i] = row
    <3> HIDE DEF ins, row
    <3> QED
      BY <1>2b, <1>4, OverlayAt
  <2>2. i \in OpenRows(Overlay(ins))
    BY <1>4, <2>1 DEF OpenRows, IsOpen
  <2>3. Consistent(Overlay(ins), Dirty(u) \cup {i})
    BY <1>2d DEF CanInsert
  <2> QED
    BY <1>4, <2>1, <2>2, <2>3 DEF Consistent
<1>9. ASSUME NEW k \in VisitId, k # i
      PROVE  /\ after[k] = Overlay(Staged(w, u))[k]
             /\ Persistent(z.objs[k]) <=> Persistent(u.objs[k])
             /\ Persistent(u.objs[k]) => z.objs[k].row = u.objs[k].row
             /\ k \in Dirty(u) => RowOK(Staged(w, u)[k])
             /\ z.objs[k] # Null => u.objs[k] # Null
  <2>1. after[k] = Overlay(Staged(w, u))[k]
    <3> HIDE DEF ins, after, u
    <3> QED
      BY <1>2b, <1>7, <1>9, OverlayAt
  <2>2. CASE k \in Dirty(u)
    <3>1. Persistent(u.objs[k]) /\ u.objs[k] \in Instance
      BY <1>5, <2>2 DEF Dirty, Persistent, UnitOfWork
    <3>2. /\ z.objs[k] \in Instance /\ z.objs[k].kind = u.objs[k].kind
          /\ z.objs[k].row = u.objs[k].row
      BY <1>2, <1>9, <2>2, <3>1 DEF Instance
    <3>3. Persistent(z.objs[k])
      BY <3>1, <3>2, InstanceAssumption DEF Persistent
    <3>4. RowOK(Overlay(Staged(w, u))[k])
      BY <1>7, <1>8, <2>1, <2>2
    <3>5. Overlay(Staged(w, u))[k] = Staged(w, u)[k]
      BY <1>1, <2>2, FlushedRow, OverlayAt
    <3> QED
      BY <2>1, <3>1, <3>2, <3>3, <3>4, <3>5 DEF Persistent
  <2>3. CASE k \notin Dirty(u)
    BY <1>2, <1>9, <2>1, <2>3
  <2> QED
    BY <2>2, <2>3
<1>10. ASSUME NEW k \in VisitId, k # i, after[k] # Null
       PROVE  Kept(rows, latest, after, new, k)
  <2>1. /\ rows[k] # Null /\ after[k].tractor = rows[k].tractor
        /\ ~IsOpen(rows[k]) => ~IsOpen(after[k])
        /\ k \in Dirty(u) => Persistent(u.objs[k])
        /\ k \notin Dirty(u) => after[k] = rows[k]
    BY <1>1, <1>9, <1>10, FlushKeeps
  <2>2. new[k] = latest[k]
    <3>1. CASE Persistent(u.objs[k])
      BY <1>9, <1>10, <3>1, RowsAt
    <3>2. CASE ~Persistent(u.objs[k])
      BY <1>9, <1>10, <2>1, <3>2, RowsAt
    <3> QED
      BY <3>1, <3>2
  <2> QED
    BY <2>1, <2>2 DEF Kept
<1>11. after[i] = row /\ new[i] = row
  <2>1. after[i] = row
    BY <1>7, <1>8
  <2>2. new[i] = z.objs[i].row
    <3> HIDE DEF z
    <3> QED
      BY <1>3, RowsAt
  <2> QED
    BY <1>2d, <2>1, <2>2
<1>12. IsLast(after, new, i)
  <2> SUFFICES ASSUME NEW k \in VisitId, Siblings(after, k, i)
               PROVE  OverBefore(after, new, k, i)
    BY DEF IsLast
  <2>1. k # i /\ after[k] # Null /\ after[k].tractor = t
    BY <1>4, <1>11 DEF Siblings
  <2>2. ~IsOpen(after[k])
    BY <1>7, <1>8, <2>1 DEF OpenRows
  <2>3. Kept(rows, latest, after, new, k)
    BY <1>10, <2>1
  <2>4. latest[k].seen \in Nat /\ latest[k].seen <= at
    <3>0. latest[k] \in Visit
      BY <1>1, <1>5, <2>3, LatestOK DEF Kept, TypeOK
    <3>1. CASE Persistent(u.objs[k])
      <4>1. latest[k] = u.objs[k].row
        BY <3>1, RowsAt
      <4>2. \A l \in 1 .. Len(job[w].events) : u.objs[k].row.seen <= job[w].events[l].at
        BY <1>5, <3>1 DEF InstancesFit, Persistent
      <4>3. u.objs[k].row.seen <= at
        BY <1>1, <4>2, FewerEvents
      <4> QED
        BY <3>0, <4>1, <4>3 DEF Visit
    <3>2. CASE ~Persistent(u.objs[k])
      <4>1. latest[k] = visits[k] /\ visits[k] # Null
        <5>1. u.staged[k] = Null
          BY <1>6, <3>2
        <5> QED
          BY <2>3, <3>2, <5>1, RowsAt DEF Kept
      <4>2. visits[k].seen <= job[w].begun
        BY <1>1, <4>1 DEF SoloInv, TableBehind
      <4>3. job[w].begun <= at
        BY <1>1, FirstEvent
      <4> QED
        BY <1>1, <3>0, <4>1, <4>2, <4>3 DEF Visit
    <3> QED
      BY <3>1, <3>2
  <2>5. Precedes(new[k], row)
    BY <1>1, <1>4, <2>3, <2>4 DEF Precedes, Kept
  <2> QED
    BY <1>11, <2>2, <2>5 DEF OverBefore
<1>13. InTurn(after, new)
  <2> HIDE DEF rows, latest, after, new
  <2> QED
    BY <1>6, <1>10, <1>12, JoinsInTurn
<1>14. ASSUME NEW s \in Tractor, NEW b \in VisitId, b = job'[w].active[s],
              z.objs[b] # Null, after[b] # Null
       PROVE  /\ after[b].tractor = s
              /\ Persistent(z.objs[b]) => IsLast(after, new, b)
  <2>1. CASE s = t
    <3>1. b = i
      BY <1>2f, <1>14, <2>1
    <3> QED
      BY <1>4, <1>11, <1>12, <2>1, <3>1
  <2>2. CASE s # t
    <3>1. b = active[s] /\ b # Null
      BY <1>2f, <1>14, <2>2, NullAssumption DEF VisitId
    <3>2. b # i
      BY <1>1, <1>2c, <3>1 DEF Held, ActiveHeld
    <3>3. Kept(rows, latest, after, new, b) /\ u.objs[b] # Null /\ rows[b] # Null
      BY <1>9, <1>10, <1>14, <3>2 DEF Kept
    <3>4. rows[b].tractor = s /\ (Persistent(u.objs[b]) => IsLast(rows, latest, b))
      BY <1>6, <3>1, <3>3 DEF ActiveLast
    <3>5. after[b].tractor = s
      BY <3>3, <3>4 DEF Kept
    <3>6. Persistent(z.objs[b]) => Persistent(u.objs[b])
      BY <1>9, <3>2
    <3>7. \A k \in VisitId : after[k] # Null /\ after[k].tractor = after[b].tractor
                               => Kept(rows, latest, after, new, k)
      BY <1>4, <1>10, <1>11, <2>2, <3>5
    <3> HIDE DEF rows, latest, after, new
    <3>8. IsLast(rows, latest, b) => IsLast(after, new, b)
      BY <1>14, <3>7, StillLast
    <3> QED
      BY <3>4, <3>5, <3>6, <3>8
  <2> QED
    BY <2>1, <2>2
<1>15. ActiveLast(z, visits, job'[w].active)
  <2>1. \A s \in Tractor : job'[w].active[s] \in VisitId \cup {Null}
    <3> HIDE DEF t, active
    <3> QED
      BY <1>1, <1>2e, <1>2c
  <2> HIDE DEF z
  <2> QED
    BY <1>14, <2>1 DEF ActiveLast, after, new
<1>16. \A k \in VisitId : z.staged[k] # Null => Persistent(z.objs[k])
  <2> SUFFICES ASSUME NEW k \in VisitId, z.staged[k] # Null, k # i PROVE Persistent(z.objs[k])
    BY <1>3
  <2>1. z.staged[k] = Staged(w, u)[k]
    BY <1>2a, <1>2b
  <2>2. k \in Dirty(u) => Persistent(u.objs[k])
    BY DEF Dirty
  <2>3. k \notin Dirty(u) => Staged(w, u)[k] = u.staged[k]
    BY <1>1, UnflushedRow DEF Flushing
  <2> QED
    BY <1>6, <1>9, <2>1, <2>2, <2>3
<1>17. WorkInTurn(z, visits, job'[w])
  BY <1>1, <1>13, <1>15, <1>16 DEF WorkInTurn
<1> QED
  BY <1>1, <1>17, WorkerTurn

(* The end of a transaction.                                                 *)

LEMMA FinalWorkInTurn ==
  ASSUME OpenInv, TimesInv, SoloInv, TurnInv, NEW w \in Worker, CommitBatch(w)
  PROVE  LET u == FinalWork(w)
         IN  /\ u \in UnitOfWork /\ Usable(u) /\ u.staged = uow[w].staged
             /\ InstancesFit(u, job[w].events)
             /\ Flushing(w, u) /\ FlushPasses(w, u)
             /\ visits' = Committed(w, u)
             /\ InTurn(RowsOf(u, visits), Latest(u, visits))
<1> DEFINE u == FinalWork(w)
<1>1. /\ TypeOK /\ Held /\ w \in Session /\ uow[w] \in UnitOfWork /\ RowsInv
      /\ InstancesFit(uow[w], job[w].events)
      /\ job[w].final \in Nat /\ job[w].final <= now
      /\ job[w].active \in [Tractor -> VisitId \cup {Null}]
  BY SessionTypes DEF OpenInv, SoloInv, WorkerFits, TimesInv, EventTimes, Job
<1>2. /\ u \in UnitOfWork /\ Usable(u) /\ u.staged = uow[w].staged
      /\ InstancesFit(u, job[w].events)
  BY <1>1, FinalWorkOK, FinalWorkAhead, AheadFits
<1>3. Flushing(w, u) /\ visits' = Committed(w, u) /\ CanCommit(w, u)
  BY <1>1, <1>2, FlushingReady DEF CommitBatch, CanCommit
<1>4. FlushPasses(w, u)
  BY <1>1, <1>3, CommitPasses
<1>5. \A i \in VisitId : uow[w].objs[i] # Null <=> u.objs[i] # Null
  <2>1. u.objs = Forced(uow[w].objs, ActiveIds(w), job[w].final)
    BY <1>1 DEF FinalWork, UnitOfWork
  <2>2. /\ uow[w].objs \in [VisitId -> Instance \cup {Null}]
        /\ \A i \in VisitId : uow[w].objs[i] # Null => Sound(uow[w].objs[i])
    BY <1>1 DEF UnitOfWork, Held, WorkUsable, Usable
  <2> QED
    BY <1>1, <2>1, <2>2, ForcedOK
<1>6. InTurn(RowsOf(u, visits), Latest(u, visits))
  <2>1. Ahead(uow[w], u, job[w].final) /\ WorkInTurn(uow[w], visits, job[w])
    BY <1>1, FinalWorkAhead DEF TurnInv
  <2> HIDE DEF u
  <2> QED
    BY <1>1, <1>5, <2>1, AheadTurn
<1> QED
  BY <1>2, <1>3, <1>4, <1>6

LEMMA CommitBatchTurn ==
  ASSUME OpenInv, TimesInv, SoloInv, TurnInv, \A v, w \in Worker : v = w,
         NEW w \in Worker, CommitBatch(w)
  PROVE  TurnInv'
<1> DEFINE u      == FinalWork(w)
           S      == Staged(w, u)
           rows   == RowsOf(u, visits)
           latest == Latest(u, visits)
<1>1. /\ TypeOK /\ RowsChecked /\ w \in Session
      /\ u \in UnitOfWork /\ u.staged = uow[w].staged /\ InstancesFit(u, job[w].events)
      /\ Flushing(w, u) /\ FlushPasses(w, u) /\ visits' = Committed(w, u)
      /\ InTurn(rows, latest)
  BY FinalWorkInTurn, SessionTypes DEF OpenInv, RowsInv
<1>2. ASSUME NEW i \in VisitId, visits'[i] # Null
      PROVE  Kept(rows, latest, visits', visits', i)
  <2>1. i \notin u.deleted /\ visits'[i] = Overlay(S)[i]
    BY <1>1, <1>2, CommittedRow, OverlayAt
  <2>2. i \in Dirty(u) => RowOK(S[i]) /\ S[i] # Null
    BY <1>1, FlushedRow DEF FlushPasses
  <2>3. /\ rows[i] # Null /\ visits'[i].tractor = rows[i].tractor
        /\ ~IsOpen(rows[i]) => ~IsOpen(visits'[i])
        /\ i \in Dirty(u) => Persistent(u.objs[i])
        /\ i \notin Dirty(u) => visits'[i] = rows[i]
    BY <1>1, <1>2, <2>1, <2>2, FlushKeeps
  <2>4. CASE i \in Dirty(u)
    <3>1. visits'[i] = S[i] /\ latest[i] = u.objs[i].row
      BY <2>1, <2>2, <2>3, <2>4, OverlayAt, RowsAt
    <3>2. /\ S[i].seen = u.objs[i].row.seen /\ S[i].acc = u.objs[i].row.acc
          /\ S[i].arrived = u.objs[i].row.arrived
      BY <1>1, <2>2, <2>4, StagedFollowsOn
    <3> QED
      BY <2>3, <3>1, <3>2 DEF Kept
  <2>5. CASE i \notin Dirty(u) /\ Persistent(u.objs[i])
    <3>1. u.objs[i].row = u.objs[i].orig /\ latest[i] = u.objs[i].row
      BY <2>1, <2>5, RowsAt DEF Dirty
    <3>2. rows[i] = IF u.staged[i] # Null THEN u.staged[i] ELSE visits[i]
      BY RowsAt
    <3>3. Agrees(u.objs[i], rows[i])
      BY <1>1, <2>3, <2>5, <3>2 DEF InstancesFit, Persistent
    <3> QED
      BY <2>3, <2>5, <3>1, <3>3 DEF Kept, Agrees
  <2>6. CASE i \notin Dirty(u) /\ ~Persistent(u.objs[i])
    <3>1. latest[i] = rows[i]
      BY <2>6, RowsAt
    <3> QED
      BY <2>3, <2>6, <3>1 DEF Kept
  <2> QED
    BY <2>4, <2>5, <2>6
<1>3. InTurn(visits', visits')
  <2> HIDE DEF rows, latest
  <2> QED
    BY <1>1, <1>2, StillInTurn
<1>4. uow'[w] = NoWork /\ job'[w] \in Job
  <2>1. uow'[w] = NoWork
    BY <1>1, FinishedShape DEF CommitBatch
  <2>2. TypeOK'
    BY CommitBatchStep DEF OpenInv
  <2> QED
    BY <2>1, <2>2 DEF TypeOK
<1>5. WorkInTurn(uow'[w], visits', job'[w])
  BY <1>3, <1>4, NoWorkInTurn
<1> QED
  BY <1>3, <1>5, WorkerTurn

(* A step that at most closes visits or deletes them.                        *)
Settles ==
    \A i \in VisitId : visits'[i] # Null =>
        /\ visits[i] # Null
        /\ visits'[i].tractor = visits[i].tractor /\ visits'[i].seen = visits[i].seen
        /\ visits'[i].acc = visits[i].acc /\ visits'[i].arrived = visits[i].arrived

LEMMA SettlesInTurn ==
  ASSUME TypeOK, TypeOK', Settles, StayClosed, InTurn(visits, visits)
  PROVE  InTurn(visits', visits')
<1>1. ASSUME NEW i \in VisitId, visits'[i] # Null PROVE Kept(visits, visits, visits', visits', i)
  BY <1>1 DEF Settles, StayClosed, Kept, IsOpen, Stored
<1> QED
  BY <1>1, StillInTurn

(* What a task holds is still in turn after it.                              *)
LEMMA SettlesWork ==
  ASSUME TypeOK, Settles, StayClosed, NEW u, NEW j, WorkInTurn(u, visits, j),
         j.active \in [Tractor -> VisitId \cup {Null}]
  PROVE  WorkInTurn(u, visits', j)
<1> DEFINE rows   == RowsOf(u, visits)
           latest == Latest(u, visits)
           after  == RowsOf(u, visits')
           new    == Latest(u, visits')
<1>1. ASSUME NEW i \in VisitId, after[i] # Null PROVE Kept(rows, latest, after, new, i)
  <2>1. CASE u.staged[i] # Null
    <3>1. rows[i] = after[i]
      BY <2>1, RowsAt
    <3>2. Persistent(u.objs[i])
      BY <2>1 DEF WorkInTurn
    <3>3. latest[i] = new[i]
      BY <3>2, RowsAt
    <3> QED
      BY <1>1, <3>1, <3>3 DEF Kept
  <2>2. CASE u.staged[i] = Null
    <3>1. rows[i] = visits[i] /\ after[i] = visits'[i]
      BY <2>2, RowsAt
    <3>2. Persistent(u.objs[i]) => latest[i] = new[i]
      BY RowsAt
    <3>3. ~Persistent(u.objs[i]) => latest[i] = visits[i] /\ new[i] = visits'[i]
      BY <3>1, RowsAt
    <3>4. /\ visits[i] # Null
          /\ visits'[i].tractor = visits[i].tractor /\ visits'[i].seen = visits[i].seen
          /\ visits'[i].acc = visits[i].acc /\ visits'[i].arrived = visits[i].arrived
          /\ ~IsOpen(visits[i]) => ~IsOpen(visits'[i])
      BY <1>1, <3>1 DEF Settles, StayClosed, Stored, IsOpen
    <3> HIDE DEF rows, latest, after, new
    <3> QED
      BY <3>1, <3>2, <3>3, <3>4 DEF Kept
  <2> QED
    BY <2>1, <2>2
<1>2. InTurn(rows, latest) /\ ActiveLast(u, visits, j.active)
  BY DEF WorkInTurn
<1> HIDE DEF rows, latest, after, new
<1>3. InTurn(after, new)
  BY <1>1, <1>2, StillInTurn
<1>4. ASSUME NEW a \in VisitId, after[a] # Null, IsLast(rows, latest, a)
      PROVE  IsLast(after, new, a)
  BY <1>1, <1>4, StillLast
<1>5. ActiveLast(u, visits', j.active)
  BY <1>1, <1>2, <1>4 DEF ActiveLast, rows, latest, after, new, Kept
<1> QED
  BY <1>3, <1>5 DEF WorkInTurn, after, new

LEMMA CommitStaleTurn ==
  ASSUME OpenInv, SoloInv, TurnInv, CommitStale
  PROVE  TurnInv' /\ Settles
<1>1. TypeOK /\ TypeOK' /\ StayClosed
  BY CommitStaleStep DEF OpenInv
<1>2. Settles
  BY CommitStaleRows DEF Settles
<1>3. job' = job /\ \A w \in Worker : uow'[w] = uow[w]
  BY <1>1, SessionTypes, SessionAssumption DEF CommitStale, TypeOK
<1>4. ASSUME NEW w \in Worker PROVE WorkInTurn(uow'[w], visits', job'[w])
  <2>1. job[w].active \in [Tractor -> VisitId \cup {Null}]
    BY <1>1 DEF TypeOK, Job
  <2>2. WorkInTurn(uow[w], visits', job[w])
    BY <1>1, <1>2, <2>1, SettlesWork DEF TurnInv
  <2> QED
    BY <1>3, <2>2
<1> QED
  BY <1>1, <1>2, <1>4, SettlesInTurn DEF TurnInv

LEMMA CrashTurn ==
  ASSUME OpenInv, TurnInv, Crash
  PROVE  TurnInv' /\ Settles
<1>1. TypeOK /\ TypeOK' /\ StayClosed
  BY CrashStep DEF OpenInv
<1>2. Settles
  BY DEF Crash, Settles
<1>3. InTurn(visits', visits')
  BY <1>1, <1>2, SettlesInTurn DEF TurnInv
<1>4. \A w \in Worker : uow'[w] = NoWork /\ job'[w] \in Job
  BY <1>1 DEF Crash, Session, TypeOK
<1>5. \A w \in Worker : WorkInTurn(uow'[w], visits', job'[w])
  BY <1>3, <1>4, NoWorkInTurn
<1> QED
  BY <1>2, <1>3, <1>5 DEF TurnInv

(* A step that leaves the worker with nothing.                               *)
LEMMA NothingTurn ==
  ASSUME TurnInv, TypeOK', \A v, w \in Worker : v = w, NEW w \in Worker,
         visits' = visits, uow'[w] = NoWork
  PROVE  TurnInv'
<1>1. InTurn(visits', visits') /\ job'[w] \in Job
  BY DEF TurnInv, TypeOK
<1>2. WorkInTurn(uow'[w], visits', job'[w])
  BY <1>1, NoWorkInTurn
<1> QED
  BY <1>1, <1>2, WorkerTurn

(* A step that leaves the worker alone.                                      *)
LEMMA QuietTurn ==
  ASSUME TurnInv, visits' = visits, job' = job, \A w \in Worker : uow'[w] = uow[w]
  PROVE  TurnInv'
<1>1. \A w \in Worker : WorkInTurn(uow'[w], visits', job'[w])
  BY DEF TurnInv
<1> QED
  BY <1>1 DEF TurnInv

-----------------------------------------------------------------------------
(* The induction.                                                            *)

LEMMA InitTurn == Init => TurnInv
<1> SUFFICES ASSUME Init PROVE TurnInv
  OBVIOUS
<1>1. \A i \in VisitId : visits[i] = Null
  BY DEF Init
<1>2. InTurn(visits, visits)
  BY <1>1 DEF InTurn, Siblings
<1>3. \A w \in Worker : uow[w] = NoWork /\ job[w] \in Job
  BY NoJobOK DEF Init, Session
<1> QED
  BY <1>2, <1>3, NoWorkInTurn DEF TurnInv

LEMMA NextTurn ==
  ASSUME \A v, w \in Worker : v = w
  PROVE  OpenInv /\ TimesInv /\ SoloInv /\ TurnInv /\ [Next]_vars =>
           TurnInv' /\ (Settles \/ \E w \in Worker : CommitBatch(w))
<1> SUFFICES ASSUME OpenInv, TimesInv, SoloInv, TurnInv, [Next]_vars
             PROVE  TurnInv' /\ (Settles \/ \E w \in Worker : CommitBatch(w))
  OBVIOUS
<1>0. TypeOK'
  BY NextOpenInv DEF OpenInv
<1>s. visits' = visits => Settles
  BY DEF Settles
<1>1. ASSUME NEW w \in Worker, Begin(w) \/ WorkerStep(w) \/ Abort(w)
      PROVE  TurnInv' /\ (Settles \/ CommitBatch(w))
  <2>1. CASE Begin(w) \/ MapEvent(w) \/ NothingDetected(w)
    <3>1. visits' = visits /\ uow'[w] = NoWork
      BY <2>1 DEF Begin, MapEvent, NothingDetected, OpenInv, Held, NothingHeld
    <3> QED
      BY <1>0, <1>s, <3>1, NothingTurn
  <2>2. CASE LoadOpen(w) \/ SkipEvent(w) \/ TouchVisit(w) \/ CreateVisit(w) \/ LoseRace(w)
             \/ Adopt(w)
    <3>1. TurnInv'
      BY <2>2, LoadOpenTurn, SkipEventTurn, TouchVisitTurn, CreateVisitTurn, LoseRaceTurn,
         AdoptTurn
    <3>2. visits' = visits
      BY <2>2 DEF LoadOpen, SkipEvent, TouchVisit, CreateVisit, LoseRace, Adopt
    <3> QED
      BY <1>s, <3>1, <3>2
  <2>3. CASE CommitBatch(w)
    BY <2>3, CommitBatchTurn
  <2>4. CASE FailBatch(w) \/ DeadlockVictim(w) \/ Abort(w)
    <3>1. Finished(w, "failed", TRUE) /\ visits' = visits /\ TypeOK
      BY <2>4 DEF FailBatch, DeadlockVictim, Abort, OpenInv
    <3>2. uow'[w] = NoWork
      BY <3>1, FinishedShape
    <3> QED
      BY <1>0, <1>s, <3>1, <3>2, NothingTurn
  <2> QED
    BY <1>1, <2>1, <2>2, <2>3, <2>4 DEF WorkerStep
<1>2. CASE CheckStale
  <2>1. visits' = visits /\ job' = job /\ \A w \in Worker : uow'[w] = uow[w]
    BY <1>2, CheckStaleShape, SessionTypes, SessionAssumption DEF OpenInv
  <2> QED
    BY <1>s, <2>1, QuietTurn
<1>3. CASE CommitStale
  BY <1>3, CommitStaleTurn
<1>4. CASE Crash
  BY <1>4, CrashTurn
<1>5. CASE Tick \/ UNCHANGED vars
  <2>1. visits' = visits /\ job' = job /\ uow' = uow
    BY <1>5 DEF Tick, vars
  <2> QED
    BY <1>s, <2>1, QuietTurn
<1> QED
  BY <1>1, <1>2, <1>3, <1>4, <1>5 DEF Next, Quiescent

-----------------------------------------------------------------------------
(* The answers of the endpoints.                                             *)

LEMMA VisitsFinite ==
  ASSUME NEW S \in SUBSET VisitId
  PROVE  IsFiniteSet(S) /\ StrictOrder(S, ById)
<1>1. MaxVisits \in Nat
  BY BoundAssumption
<1>2. IsFiniteSet(1 .. MaxVisits)
  BY <1>1, Numbered
<1>3. IsFiniteSet(S)
  BY <1>2, FS_Subset DEF VisitId
<1>4. \A x, y \in S : <<x, y>> \in ById <=> x < y
  BY DEF ById
<1>5. StrictOrder(S, ById)
  BY <1>4 DEF StrictOrder, VisitId
<1> QED
  BY <1>3, <1>5

(* A closed visit has its instants.                                          *)
LEMMA PastRows ==
  ASSUME OpenInv, NEW t \in Tractor
  PROVE  /\ Past(t) \in SUBSET VisitId
         /\ \A i \in Past(t) : visits[i] \in Visit /\ visits[i] # Null /\ visits[i].tractor = t
                                 /\ ~IsOpen(visits[i])
                                 /\ visits[i].arrived \in Nat /\ visits[i].arrived # Null
<1>1. Past(t) \in SUBSET VisitId
  BY DEF Past
<1>2. ASSUME NEW i \in Past(t)
      PROVE  visits[i] \in Visit /\ visits[i] # Null /\ visits[i].tractor = t /\ ~IsOpen(visits[i])
               /\ visits[i].arrived \in Nat /\ visits[i].arrived # Null
  <2>1. visits[i] # Null /\ visits[i].tractor = t /\ visits[i].state = "CLOSED" /\ i \in VisitId
    BY DEF Past, Stored
  <2>2. visits[i] \in Visit /\ RowOK(visits[i])
    BY <2>1 DEF OpenInv, TypeOK, RowsInv, RowsChecked
  <2>3. visits[i].arrived # Null
    BY <2>1, <2>2 DEF RowOK
  <2> QED
    BY <2>1, <2>2, <2>3 DEF Visit, IsOpen
<1> QED
  BY <1>1, <1>2

(* The history lists every closed visit of the tractor.                      *)
HistoryComplete ==
    \A t \in Tractor : IsFiniteSet(Past(t)) /\ Len(History(t)) = Cardinality(Past(t))

LEMMA AllListed == OpenInv => HistoryComplete
<1> SUFFICES ASSUME OpenInv, NEW t \in Tractor
             PROVE  IsFiniteSet(Past(t)) /\ Len(History(t)) = Cardinality(Past(t))
  BY DEF HistoryComplete
<1> DEFINE S == Past(t)
           n == Cardinality(S)
           before == {p \in S \X S :
                        \/ visits[p[1]].arrived > visits[p[2]].arrived
                        \/ visits[p[1]].arrived = visits[p[2]].arrived /\ p[1] < p[2]}
<1>1. S \in SUBSET VisitId /\ \A i \in S : visits[i].arrived \in Nat /\ i \in Nat
  BY PastRows DEF VisitId
<1>2. IsFiniteSet(S) /\ n \in Nat
  BY <1>1, VisitsFinite, FS_CardinalityType
<1>3. \A x, y \in S : <<x, y>> \in before <=>
        \/ visits[x].arrived > visits[y].arrived
        \/ visits[x].arrived = visits[y].arrived /\ x < y
  OBVIOUS
<1>4. \A x, y \in S : <<x, y>> \in LatestFirst(S) => <<x, y>> \in before
  BY DEF LatestFirst
<1> HIDE DEF S, before
<1>5. StrictOrder(S, before)
  BY <1>1, <1>3 DEF StrictOrder
<1>6. PICK q \in [1 .. n -> S] : Arranged(q, before)
  BY <1>2, <1>5, SortedExists
<1>7. Arranged(q, LatestFirst(S))
  BY <1>4, <1>6 DEF Arranged
<1>8. InOrder(S, LatestFirst(S)) \in [1 .. n -> S]
  BY <1>6, <1>7 DEF InOrder
<1>9. Len(InOrder(S, LatestFirst(S))) = n
  BY <1>2, <1>8
<1> QED
  BY <1>2, <1>9 DEF History, S

-----------------------------------------------------------------------------
(* No detection counts for two stays.                                        *)

(* Of two stays in the history one was over before the other was confirmed.  *)
LEMMA PastInTurn ==
  ASSUME OpenInv, SoloInv, TurnInv, Entry > 0, NEW t \in Tractor,
         NEW x \in Past(t), NEW y \in Past(t), x # y
  PROVE  /\ visits[x].arrived # visits[y].arrived
         /\ visits[x].arrived < visits[y].arrived => visits[x].seen <= visits[y].arrived
<1>1. /\ x \in VisitId /\ y \in VisitId /\ Siblings(visits, x, y)
      /\ visits[x].arrived # Null /\ visits[y].arrived # Null
      /\ visits[x].arrived \in Nat /\ visits[y].arrived \in Nat
      /\ visits[x].seen \in Nat /\ visits[y].seen \in Nat
  BY PastRows DEF Siblings, Visit
<1>2. visits[x].arrived <= visits[x].seen /\ visits[y].arrived <= visits[y].seen
  <2>1. \A i \in {x, y} : visits[i].state = "CLOSED" /\ Genuine(visits[i])
    BY <1>1 DEF Past, SoloInv, TableGenuine, Siblings
  <2> QED
    BY <2>1 DEF Genuine
<1>3. visits[x].seen + Entry <= visits[y].arrived \/ visits[y].seen + Entry <= visits[x].arrived
  BY <1>1 DEF TurnInv, InTurn, OverBefore, Precedes
<1> QED
  BY <1>1, <1>2, <1>3, Thresholds

LEMMA HistorySorted ==
  ASSUME OpenInv, SoloInv, TurnInv, Entry > 0, NEW t \in Tractor
  PROVE  Sorts(History(t), Past(t), LatestFirst(Past(t)))
<1> DEFINE S == Past(t)
<1>1. S \in SUBSET VisitId /\ \A i \in S : visits[i].arrived \in Nat
  BY PastRows
<1>2. \A x, y \in S : <<x, y>> \in LatestFirst(S) <=> visits[x].arrived > visits[y].arrived
  BY DEF LatestFirst
<1>3. \A x, y \in S : x # y => visits[x].arrived # visits[y].arrived
  BY PastInTurn
<1>4. IsFiniteSet(S)
  BY <1>1, VisitsFinite
<1> HIDE DEF S
<1>5. StrictOrder(S, LatestFirst(S))
  BY <1>1, <1>2, <1>3 DEF StrictOrder
<1> QED
  BY <1>4, <1>5, InOrderSorts DEF History, S

LEMMA InTurnOrdered ==
  ASSUME OpenInv, SoloInv, TurnInv, Entry > 0
  PROVE  StaysOrdered
<1>1. ASSUME NEW t \in Tractor, NEW k \in 2 .. Len(History(t))
      PROVE  visits[History(t)[k]].seen <= visits[History(t)[k - 1]].arrived
  <2> DEFINE h == History(t)
  <2>1. Sorts(h, Past(t), LatestFirst(Past(t)))
    BY HistorySorted
  <2> HIDE DEF h
  <2>2. h \in Seq(Past(t)) /\ DOMAIN h = 1 .. Len(h) /\ Len(h) \in Nat
    BY <2>1 DEF Sorts
  <2>3. k \in DOMAIN h /\ k - 1 \in DOMAIN h /\ k - 1 < k
    BY <2>2 DEF h
  <2>4. h[k] \in Past(t) /\ h[k - 1] \in Past(t) /\ <<h[k - 1], h[k]>> \in LatestFirst(Past(t))
    BY <2>1, <2>2, <2>3 DEF Sorts
  <2>5. visits[h[k - 1]].arrived > visits[h[k]].arrived
    BY <2>4 DEF LatestFirst
  <2>6. visits[h[k]].arrived < visits[h[k - 1]].arrived /\ h[k] # h[k - 1]
    BY <2>4, <2>5, PastRows
  <2> QED
    BY <2>4, <2>6, PastInTurn DEF h
<1>2. ASSUME NEW k \in DOMAIN CurrentTractors,
             History(CurrentTractors[k].tractor) # <<>>, CurrentTractors[k].dwell # Null
      PROVE  visits[History(CurrentTractors[k].tractor)[1]].seen <= now - CurrentTractors[k].dwell
  <2> DEFINE a == ListOpen[k]
             t == visits[a].tractor
             x == History(t)[1]
  <2>1. OpenRows(visits) \in SUBSET VisitId
    BY DEF OpenRows
  <2>2. Sorts(ListOpen, OpenRows(visits), ById)
    BY <2>1, VisitsFinite, InOrderSorts DEF ListOpen
  <2>3. a \in OpenRows(visits)
    BY <1>2, <2>2 DEF Sorts, CurrentTractors
  <2>4. CurrentTractors[k] = Shown(visits[a])
    BY <1>2 DEF CurrentTractors
  <2>5. /\ CurrentTractors[k].tractor = t
        /\ CurrentTractors[k].dwell = IF visits[a].arrived = Null THEN Null
                                      ELSE now - visits[a].arrived
    BY <2>4 DEF Shown, Dwell
  <2>6. visits[a] # Null /\ visits[a] \in Visit /\ t \in Tractor /\ a \in VisitId
    BY <2>3 DEF OpenRows, OpenInv, TypeOK, Visit
  <2> HIDE DEF a, t
  <2>7. History(t) # <<>> /\ Sorts(History(t), Past(t), LatestFirst(Past(t)))
    BY <1>2, <2>5, <2>6, HistorySorted
  <2>8. x \in Past(t)
    <3>1. History(t) \in Seq(Past(t)) /\ History(t) # <<>>
      BY <2>7 DEF Sorts
    <3> HIDE DEF x
    <3> QED
      BY <3>1 DEF x
  <2>9. visits[a].arrived # Null /\ visits[a].arrived \in Nat /\ now \in Nat
    BY <1>2, <2>5, <2>6 DEF OpenInv, TypeOK, Visit
  <2> HIDE DEF x
  <2>10. visits[x] # Null /\ visits[x].tractor = t /\ ~IsOpen(visits[x]) /\ visits[x].seen \in Nat
           /\ x \in VisitId
    BY <2>6, <2>8, PastRows DEF Visit
  <2>11. Siblings(visits, x, a)
    BY <2>3, <2>6, <2>10 DEF Siblings, OpenRows, t
  <2>12. OverBefore(visits, visits, x, a)
    BY <2>3, <2>6, <2>10, <2>11 DEF TurnInv, InTurn, OverBefore, OpenRows
  <2>13. visits[x].seen + Entry <= visits[a].arrived
    BY <2>9, <2>12 DEF OverBefore, Precedes
  <2> QED
    BY <2>5, <2>9, <2>10, <2>13, Thresholds DEF x
<1> QED
  BY <1>1, <1>2 DEF StaysOrdered

(* With one worker, and a confirmation that takes time, no detection counts  *)
(* for two stays: `_create_or_get_open_visit' opens a visit only after the   *)
(* one before it was closed, which no session touches again, and the new     *)
(* stay is confirmed Entry seconds after its first detection.                *)
THEOREM StaysInTurn ==
  ASSUME \A v, w \in Worker : v = w, Entry > 0
  PROVE  Spec => []StaysOrdered
<1>1. Init => OpenInv /\ TimesInv /\ SoloInv /\ TurnInv
  BY InitOpenInv, InitTimes, InitSolo, InitTurn
<1>2. OpenInv /\ TimesInv /\ SoloInv /\ TurnInv /\ [Next]_vars
        => (OpenInv /\ TimesInv /\ SoloInv /\ TurnInv)'
  BY NextOpenInv, NextTimes, NextSolo, NextTurn
<1>3. OpenInv /\ SoloInv /\ TurnInv => StaysOrdered
  BY InTurnOrdered
<1> QED
  BY <1>1, <1>2, <1>3, PTL DEF Spec

-----------------------------------------------------------------------------
(* The dwell time shown.                                                     *)

(* It belongs to an open visit that is confirmed.                            *)
DwellOfOpen ==
    \A t \in Tractor : CurrentTractor(t).dwell # Null =>
        \E a \in OpenRows(visits) :
            /\ visits[a].tractor = t /\ visits[a].arrived \in Nat /\ visits[a].arrived # Null
            /\ CurrentTractor(t).dwell = now - visits[a].arrived

LEMMA DwellShown == OpenInv => DwellOfOpen
<1> SUFFICES ASSUME OpenInv, NEW t \in Tractor, CurrentTractor(t).dwell # Null
             PROVE  \E a \in OpenRows(visits) :
                      /\ visits[a].tractor = t
                      /\ visits[a].arrived \in Nat /\ visits[a].arrived # Null
                      /\ CurrentTractor(t).dwell = now - visits[a].arrived
  BY DEF DwellOfOpen
<1> DEFINE S == {i \in OpenRows(visits) : visits[i].tractor = t}
           a == Head(OpenOf(t))
<1>1. S \in SUBSET VisitId
  BY DEF OpenRows
<1>2. Sorts(OpenOf(t), S, ById)
  BY <1>1, VisitsFinite, InOrderSorts DEF OpenOf
<1>3. OpenOf(t) # <<>> /\ CurrentTractor(t) = Shown(visits[a])
  BY DEF CurrentTractor
<1>4. a \in S
  <2>1. OpenOf(t) \in Seq(S)
    BY <1>2 DEF Sorts
  <2> HIDE DEF S
  <2> QED
    BY <1>3, <2>1
<1>5. CurrentTractor(t).dwell = IF visits[a].arrived = Null THEN Null ELSE now - visits[a].arrived
  BY <1>3 DEF Shown, Dwell
<1>6. visits[a] \in Visit /\ visits[a].arrived # Null
  BY <1>4, <1>5 DEF OpenRows, OpenInv, TypeOK
<1> QED
  BY <1>4, <1>5, <1>6 DEF Visit

(* What a batch leaves of the visits: a confirmed one is not deleted.        *)
LEMMA CommitBatchKeeps ==
  ASSUME OpenInv, TimesInv, SoloInv, TurnInv, NEW w \in Worker, CommitBatch(w),
         NEW i \in VisitId, visits[i] # Null
  PROVE  /\ visits'[i] # Null => visits'[i].tractor = visits[i].tractor
         /\ visits[i].arrived # Null => visits'[i] # Null
<1> DEFINE u == FinalWork(w)
           S == Staged(w, u)
           row == RowsOf(u, visits)[i]
<1>1. /\ TypeOK /\ RowsChecked /\ w \in Session /\ StagedFollows /\ Held
      /\ u \in UnitOfWork /\ u.staged = uow[w].staged /\ Usable(u)
      /\ Flushing(w, u) /\ FlushPasses(w, u) /\ visits' = Committed(w, u)
  BY FinalWorkInTurn, SessionTypes DEF OpenInv, RowsInv
<1>2. row = IF uow[w].staged[i] # Null THEN uow[w].staged[i] ELSE visits[i]
  BY <1>1, RowsAt
<1>3. row # Null /\ row.tractor = visits[i].tractor
  BY <1>1, <1>2 DEF StagedFollows
<1>4. visits'[i] = IF i \in u.deleted THEN Null ELSE Overlay(S)[i]
  BY <1>1 DEF Committed
<1>5. i \in Dirty(u) => RowOK(S[i]) /\ S[i] # Null
  BY <1>1, FlushedRow DEF FlushPasses
<1>6. Overlay(S)[i] # Null
  <2>1. CASE i \in Dirty(u)
    BY <1>5, <2>1, OverlayAt
  <2>2. CASE i \notin Dirty(u)
    BY <1>1, <1>2, <1>3, <2>2, UnflushedRow, OverlayAt
  <2> QED
    BY <2>1, <2>2
<1>7. ASSUME visits'[i] # Null PROVE visits'[i].tractor = visits[i].tractor
  <2>1. visits'[i] = Overlay(S)[i]
    BY <1>4, <1>7
  <2>2. Overlay(S)[i].tractor = row.tractor
    BY <1>1, <1>5, <1>6, FlushKeeps
  <2> QED
    BY <1>3, <2>1, <2>2
<1>8. ASSUME i \in u.deleted PROVE visits[i].arrived = Null
  <2> DEFINE o == uow[w].objs[i]
  <2>1. u.deleted = Expiring(uow[w].objs, ActiveIds(w), job[w].final)
    BY <1>1, SessionTypes DEF FinalWork, UnitOfWork
  <2>2. o # Null /\ Persistent(o) /\ o.row.state = "ENTERING"
    BY <1>8, <2>1 DEF Expiring, TimedOut, Persistent
  <2>3. InstancesFit(uow[w], job[w].events) /\ StagedFits(uow[w], job[w].pc)
    BY DEF SoloInv, WorkerFits
  <2>4. Advances(o) /\ Agrees(o, row)
    BY <1>2, <1>3, <2>2, <2>3 DEF InstancesFit
  <2>5. row.arrived = Null
    BY <2>2, <2>4 DEF Advances, Agrees, Genuine
  <2>6. uow[w].staged[i] # Null /\ visits[i].arrived # Null
          => uow[w].staged[i].arrived = visits[i].arrived
    BY <2>3 DEF StagedFits
  <2> HIDE DEF row
  <2> QED
    BY <1>2, <2>5, <2>6
<1> QED
  BY <1>4, <1>6, <1>7, <1>8

(* One stay more or less in the history, or the same stay.                   *)
LEMMA StepKeepsDwell ==
  ASSUME \A v, w \in Worker : v = w, OpenInv, TimesInv, SoloInv, TurnInv, [Next]_vars,
         NEW t \in Tractor, NEW a \in OpenRows(visits), NEW b \in OpenRows(visits'),
         visits[a].tractor = t, visits'[b].tractor = t,
         visits[a].arrived # Null, Cardinality(Past(t)') = Cardinality(Past(t))
  PROVE  a = b /\ visits'[a].arrived = visits[a].arrived
<1>1. /\ a \in VisitId /\ b \in VisitId /\ visits[a] # Null /\ visits'[b] # Null
      /\ IsOpen(visits[a]) /\ IsOpen(visits'[b])
  BY DEF OpenRows
<1>2. StayClosed /\ OpenInv' /\ (Settles \/ \E w \in Worker : CommitBatch(w))
  BY NextOpenInv, NextTurn
<1>3. TableApart /\ TableApart'
  BY <1>2 DEF OpenInv, RowsInv, Uniqueness
<1>4. CASE Settles
  <2>1. visits[b] # Null /\ visits[b].tractor = t /\ IsOpen(visits[b])
    BY <1>1, <1>2, <1>4 DEF Settles, StayClosed, Stored, IsOpen
  <2>2. a = b
    BY <1>1, <1>3, <2>1 DEF TableApart, Apart
  <2> QED
    BY <1>1, <1>4, <2>2 DEF Settles
<1>5. ASSUME NEW w \in Worker, CommitBatch(w)
      PROVE  a = b /\ visits'[a].arrived = visits[a].arrived
  <2>1. \A i \in VisitId : visits[i] # Null /\ visits[i].arrived # Null =>
          /\ visits'[i] # Null /\ visits'[i].tractor = visits[i].tractor
          /\ visits'[i].arrived = visits[i].arrived
    BY <1>5, CommitBatchKeeps, CommitBatchRows
  <2>2. ASSUME a # b PROVE FALSE
    <3>1. ~IsOpen(visits'[a])
      BY <1>1, <1>3, <2>1, <2>2 DEF TableApart, Apart
    <3>2. a \in Past(t)' /\ a \notin Past(t)
      BY <1>1, <2>1, <3>1 DEF Past, Stored, IsOpen
    <3>3. \A i \in Past(t) : i \in Past(t)'
      <4> SUFFICES ASSUME NEW i \in Past(t) PROVE i \in Past(t)'
        OBVIOUS
      <4>1. /\ i \in VisitId /\ visits[i] # Null /\ visits[i].tractor = t
            /\ visits[i].state = "CLOSED" /\ visits[i].arrived # Null
        BY PastRows DEF Past
      <4>2. visits'[i] # Null /\ visits'[i].tractor = t /\ visits'[i].state = "CLOSED"
        BY <1>2, <2>1, <4>1 DEF StayClosed, Stored
      <4> QED
        BY <4>1, <4>2 DEF Past, Stored
    <3>4. IsFiniteSet(Past(t)')
      <4>1. Past(t)' \in SUBSET VisitId
        BY DEF Past
      <4> QED
        BY <4>1, VisitsFinite
    <3>5. Past(t) = Past(t)'
      BY <3>3, <3>4, FS_Subset
    <3> QED
      BY <3>2, <3>5
  <2> QED
    BY <1>1, <2>1, <2>2
<1> QED
  BY <1>2, <1>4, <1>5

DwellAdvances ==
    \A t \in Tractor :
        CurrentTractor(t).dwell # Null /\ CurrentTractor(t)'.dwell # Null
        /\ Len(History(t)') = Len(History(t))
          => CurrentTractor(t).dwell <= CurrentTractor(t)'.dwell

LEMMA NextDwell ==
  ASSUME \A v, w \in Worker : v = w
  PROVE  OpenInv /\ TimesInv /\ SoloInv /\ TurnInv /\ OpenInv' /\ [Next]_vars => DwellAdvances
<1> SUFFICES ASSUME OpenInv, TimesInv, SoloInv, TurnInv, OpenInv', [Next]_vars,
                    NEW t \in Tractor, CurrentTractor(t).dwell # Null,
                    CurrentTractor(t)'.dwell # Null, Len(History(t)') = Len(History(t))
             PROVE  CurrentTractor(t).dwell <= CurrentTractor(t)'.dwell
  BY DEF DwellAdvances
<1>1. DwellOfOpen /\ HistoryComplete
  BY DwellShown, AllListed
<1>2. (OpenInv => DwellOfOpen)' /\ (OpenInv => HistoryComplete)'
  BY DwellShown, AllListed, PTL
<1>3. DwellOfOpen' /\ HistoryComplete'
  BY <1>2
<1>4. Cardinality(Past(t)') = Cardinality(Past(t))
  BY <1>1, <1>3 DEF HistoryComplete
<1>5. PICK a \in OpenRows(visits) :
        /\ visits[a].tractor = t /\ visits[a].arrived \in Nat /\ visits[a].arrived # Null
        /\ CurrentTractor(t).dwell = now - visits[a].arrived
  BY <1>1 DEF DwellOfOpen
<1>6. PICK b \in OpenRows(visits') :
        /\ visits'[b].tractor = t
        /\ CurrentTractor(t)'.dwell = now' - visits'[b].arrived
  BY <1>3 DEF DwellOfOpen
<1>7. a = b /\ visits'[a].arrived = visits[a].arrived
  BY <1>4, <1>5, <1>6, StepKeepsDwell
<1>8. now \in Nat /\ now' \in Nat /\ now <= now'
  <2>1. now \in Nat /\ now' \in Nat
    BY DEF OpenInv, TypeOK
  <2>2. now' = now \/ now' = now + 1
    BY DEF Next, WorkerStep, Begin, MapEvent, NothingDetected, LoadOpen, SkipEvent, TouchVisit,
       CreateVisit, LoseRace, Adopt, CommitBatch, FailBatch, DeadlockVictim, Abort, Finished,
       CheckStale, CommitStale, Crash, Tick, Quiescent, vars
  <2> QED
    BY <2>1, <2>2
<1> QED
  BY <1>5, <1>6, <1>7, <1>8

(* With one worker, the dwell time GET /v1/status/tractor/{id} shows never   *)
(* goes back unless the history has gained a stay: a commit that replaces    *)
(* the confirmed visit of a tractor has closed it, since a batch deletes no  *)
(* visit but one that it and the table hold for ENTERING.                    *)
THEOREM DwellNeverBack ==
  ASSUME \A v, w \in Worker : v = w
  PROVE  Spec => DwellGrows
<1>1. Init => OpenInv /\ TimesInv /\ SoloInv /\ TurnInv
  BY InitOpenInv, InitTimes, InitSolo, InitTurn
<1>2. OpenInv /\ TimesInv /\ SoloInv /\ TurnInv /\ [Next]_vars
        => (OpenInv /\ TimesInv /\ SoloInv /\ TurnInv)'
  BY NextOpenInv, NextTimes, NextSolo, NextTurn
<1>3. OpenInv /\ TimesInv /\ SoloInv /\ TurnInv /\ OpenInv' /\ [Next]_vars
        => [DwellAdvances]_<<visits, now>>
  BY NextDwell
<1>4. Spec => [][DwellAdvances]_<<visits, now>>
  BY <1>1, <1>2, <1>3, PTL DEF Spec
<1> QED
  BY <1>4, PTL DEF DwellGrows, DwellAdvances
=============================================================================
