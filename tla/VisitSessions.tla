---------------------------- MODULE VisitSessions ----------------------------
(***************************************************************************)
(* Visit aggregation as it runs: background tasks, each recognising one    *)
(* video and applying its detections to the visits of a station through an *)
(* AsyncSession of its own, and the periodic stale check, over one table   *)
(* in PostgreSQL (READ COMMITTED).                                         *)
(*                                                                         *)
(* A session is an ORM unit of work: it edits private copies of the rows   *)
(* it loaded and, when it flushes, sends UPDATEs of the changed columns    *)
(* only.  A flushed row stays locked, and an inserted row keeps its        *)
(* (tractor, station) claimed, until the session commits or rolls back.    *)
(*                                                                         *)
(* MaxTime, MaxBatches, MaxEvents, MaxVisits and MaxFaults are bounds for  *)
(* model checking; the guards that use them are marked "bound".            *)
(***************************************************************************)
EXTENDS VisitMachine, FiniteSets, Sequences

CONSTANTS
    Worker,       \* tasks processing a video: background tasks and retries
    StaleCheck,   \* the task of `_visit_stale_loop'
    MaxTime, MaxBatches, MaxEvents, MaxVisits, MaxFaults

ASSUME SessionAssumption == StaleCheck \notin Worker

ASSUME BoundAssumption == MaxVisits \in Nat

Session == Worker \cup {StaleCheck}
VisitId == 1 .. MaxVisits

VARIABLES
    now,      \* the wall clock
    visits,   \* the committed table: visit id -> row, or Null
    uow,      \* per session: identity map, flushed rows, deleted ids
    job,      \* per worker: the locals of the task
    batches,  \* how many videos were handed to a worker
    faults    \* how many crashes and aborted sessions happened

vars == <<now, visits, uow, job, batches, faults>>

Detection == [tractor : Tractor \cup {Null}, at : Nat]

(* An ORM instance: its attributes, what the database held when it was last  *)
(* loaded or flushed, whether an event touched it since, whether this        *)
(* transaction has sent an UPDATE of it, and its state: a "stored" row, one  *)
(* this transaction "created", one that is "transient" because the           *)
(* transaction that created it was rolled back, or one whose attributes a    *)
(* rollback "expired".                                                       *)
Instance == [row : Visit, orig : Visit, touched : BOOLEAN, updated : BOOLEAN,
             kind : {"stored", "created", "transient", "expired"}]

ASSUME InstanceAssumption == Null \notin Instance

UnitOfWork == [objs : [VisitId -> Instance \cup {Null}],
               staged : [VisitId -> Visit \cup {Null}],
               deleted : SUBSET VisitId]

NoWork == [objs |-> [i \in VisitId |-> Null],
           staged |-> [i \in VisitId |-> Null],
           deleted |-> {}]

(* `active' and `seen' are the dicts active_visits and last_seen; `missing'  *)
(* holds the tractors whose entry in active_visits is None.  `lost' says     *)
(* that a rollback took the batch's events with it, `doomed' that a pending  *)
(* write refers to one of those events and can only fail.                    *)
Job == [pc : {"idle", "recognising", "applying", "adopting"},
        begun : Nat, final : Nat, events : Seq(Detection),
        active : [Tractor -> VisitId \cup {Null}],
        seen : [Tractor -> Nat], missing : SUBSET Tractor,
        lost : BOOLEAN, doomed : BOOLEAN,
        result : {"none", "completed", "failed"}]

NoJob(result, lost) ==
    [pc |-> "idle", begun |-> 0, final |-> 0, events |-> <<>>,
     active |-> [t \in Tractor |-> Null], seen |-> [t \in Tractor |-> 0],
     missing |-> {}, lost |-> lost, doomed |-> FALSE, result |-> result]

Init ==
    /\ now = 0
    /\ visits = [i \in VisitId |-> Null]
    /\ uow = [s \in Session |-> NoWork]
    /\ job = [w \in Worker |-> NoJob("none", FALSE)]
    /\ batches = 0
    /\ faults = 0

-----------------------------------------------------------------------------
(* The unit of work: what a flush and a commit do.                           *)

(* The table as session s sees it inside its transaction.                    *)
View(s) == [i \in VisitId |-> IF uow[s].staged[i] # Null THEN uow[s].staged[i]
                                                         ELSE visits[i]]

OpenRows(table) == {i \in VisitId : table[i] # Null /\ IsOpen(table[i])}

(* Mutant of Consistent: the predicate of uq_visit_open forgets LEAVING.     *)
ConsistentButLeaving(table, written) ==
    LET indexed == {i \in OpenRows(table) : table[i].state # "LEAVING"}
    IN  /\ \A i \in written : RowOK(table[i])
        /\ \A i \in written \cap indexed, j \in indexed :
             table[i].tractor = table[j].tractor => i = j

(* What PostgreSQL checks of the rows a flush writes, as far as the session  *)
(* can see: the CHECK constraints and the partial unique index uq_visit_open.*)
Consistent(table, written) ==
    /\ \A i \in written : RowOK(table[i])
    /\ \A i \in written \cap OpenRows(table), j \in OpenRows(table) :
         table[i].tractor = table[j].tractor => i = j

Persistent(o) == o # Null /\ o.kind \in {"stored", "created"}

(* The rows a flush of the work u updates.  Touching a visit always changes  *)
(* last_event_id, so a touched instance is dirty even if all else is equal.  *)
Dirty(u) == {i \in VisitId \ u.deleted :
                /\ Persistent(u.objs[i])
                /\ u.objs[i].touched \/ u.objs[i].row # u.objs[i].orig}

(* UPDATE sets the columns that differ from what was loaded, on whatever the *)
(* row holds by now.                                                         *)
Changed(new, old, current) == IF new # old THEN new ELSE current

(* Mutant of Merge: UPDATE writes every column.                              *)
MergeWholeRow(o, current) == o.row

Merge(o, current) ==
    [current EXCEPT !.state    = Changed(o.row.state, o.orig.state, @),
                    !.seen     = Changed(o.row.seen, o.orig.seen, @),
                    !.arrived  = Changed(o.row.arrived, o.orig.arrived, @),
                    !.departed = Changed(o.row.departed, o.orig.departed, @),
                    !.acc      = Changed(o.row.acc, o.orig.acc, @)]

(* StaleDataError: an UPDATE matched no row, another session deleted it.     *)
UpdatesVanished(s, u) == \E i \in Dirty(u) : View(s)[i] = Null

Staged(s, u) == [i \in VisitId |-> IF i \in Dirty(u) THEN Merge(u.objs[i], View(s)[i])
                                                     ELSE u.staged[i]]

Overlay(staged) == [i \in VisitId |-> IF staged[i] # Null THEN staged[i] ELSE visits[i]]

Committed(s, u) == [i \in VisitId |-> IF i \in u.deleted THEN Null
                                      ELSE Overlay(Staged(s, u))[i]]

CanCommit(s, u) == ~UpdatesVanished(s, u) /\ Consistent(Overlay(Staged(s, u)), Dirty(u))

(* The sessions a flush of u, followed by an INSERT for tractor t if t is    *)
(* not Null, has to wait for: those that hold a lock on a row it writes, or  *)
(* whose uncommitted writes decide whether the INSERT violates uq_visit_open *)
Holders(s, u, t) ==
    {r \in Session \ {s} : \E i \in VisitId :
        /\ uow[r].staged[i] # Null
        /\ \/ i \in Dirty(u) \cup u.deleted
           \/ /\ uow[r].staged[i].tractor = t
              /\ IsOpen(uow[r].staged[i]) \/ i \in OpenRows(visits)}

Load(table, ids) ==
    [i \in VisitId |-> IF i \in ids
        THEN [row |-> table[i], orig |-> table[i], touched |-> FALSE,
              updated |-> FALSE, kind |-> "stored"]
        ELSE Null]

(* session.rollback(): nothing of the transaction remains in the database.   *)
RolledBack(u) ==
    [NoWork EXCEPT !.objs = [i \in VisitId |->
        IF u.objs[i] = Null THEN Null
        ELSE [u.objs[i] EXCEPT !.kind = CASE @ = "stored"  -> "expired"
                                          [] @ = "created" -> "transient"
                                          [] OTHER         -> @]]]

-----------------------------------------------------------------------------
(* One batch: `recognize_video' up to `_aggregate_visits'.                   *)

(* The task takes a video, commits PROCESSING and hands the file to the      *)
(* process pool.  The transaction its events go into begins here.            *)
Begin(w) ==
    /\ job[w].pc = "idle"
    /\ batches < MaxBatches                                          \* bound
    /\ batches' = batches + 1
    /\ job' = [job EXCEPT ![w] = [NoJob("none", FALSE) EXCEPT !.pc = "recognising",
                                                              !.begun = now]]
    /\ UNCHANGED <<now, visits, uow, faults>>

(* One recognised detection becomes an event stamped with the current time;  *)
(* no tractor stands for an unknown marker or one outside the ROI.           *)
MapEvent(w) ==
    /\ job[w].pc = "recognising"
    /\ Len(job[w].events) < MaxEvents                                \* bound
    /\ \E t \in Tractor \cup {Null} :
         job' = [job EXCEPT ![w] = [@ EXCEPT
           !.events = Append(job[w].events, [tractor |-> t, at |-> now]), !.final = now]]
    /\ UNCHANGED <<now, visits, uow, batches, faults>>

(* A video without detections never reaches the aggregator.                  *)
NothingDetected(w) ==
    /\ job[w].pc = "recognising"
    /\ job[w].events = <<>>
    /\ job' = [job EXCEPT ![w] = NoJob("completed", FALSE)]
    /\ UNCHANGED <<now, visits, uow, batches, faults>>

(* The events are flushed and `_get_open_visits_for_station' reads the open  *)
(* visits and fills active_visits and last_seen.                             *)
LoadOpen(w) ==
    LET open == OpenRows(visits)
        idOf(t) == {i \in open : visits[i].tractor = t}
    IN  /\ job[w].pc = "recognising"
        /\ job[w].events # <<>>
        /\ uow' = [uow EXCEPT ![w].objs = Load(visits, open)]
        /\ job' = [job EXCEPT ![w] = [@ EXCEPT
             !.pc = "applying",
             !.active = [t \in Tractor |->
                IF idOf(t) = {} THEN Null ELSE CHOOSE i \in idOf(t) : TRUE],
             !.seen = [t \in Tractor |->
                IF idOf(t) = {} THEN 0 ELSE visits[CHOOSE i \in idOf(t) : TRUE].seen]]]
        /\ UNCHANGED <<now, visits, batches, faults>>

-----------------------------------------------------------------------------
(* The event loop of `process_video_for_visits'.                             *)

Applying(w) == job[w].pc = "applying" /\ job[w].events # <<>>
Event(w)    == Head(job[w].events)
ActiveId(w) == job[w].active[Event(w).tractor]
Expired(w)  == ActiveId(w) # Null /\ uow[w].objs[ActiveId(w)].kind = "expired"

(* "Close out a stale open visit if we've gone quiet for too long": the      *)
(* instance of the event's tractor after that first test.                    *)
Aged(w) ==
    LET o  == uow[w].objs[ActiveId(w)]
        at == Event(w).at
    IN  IF o.row.state = "PRESENT" /\ at - job[w].seen[Event(w).tractor] >= Exit
          THEN [o EXCEPT !.row = MaybeClose([@ EXCEPT !.state = "LEAVING"], at)]
          ELSE o

(* duration_seconds is generated by the database, so an UPDATE expires it,   *)
(* and reading it for the log line of a closing visit raises.                *)
Unreadable(o, closing) ==
    o.updated /\ o.row.state # "CLOSED" /\ closing.state = "CLOSED"

ClosingFails(w) ==
    /\ ActiveId(w) # Null
    /\ Unreadable(uow[w].objs[ActiveId(w)], Aged(w).row)

NeedsVisit(w) ==
    /\ Applying(w)
    /\ Event(w).tractor # Null
    /\ ~Expired(w)
    /\ ~ClosingFails(w)
    /\ ActiveId(w) # Null => Aged(w).row.state = "CLOSED"

(* What `_create_or_get_open_visit' flushes besides the new row.             *)
WorkBefore(w) ==
    IF ActiveId(w) = Null THEN uow[w]
                          ELSE [uow[w] EXCEPT !.objs[ActiveId(w)] = Aged(w)]

InUse(i) == visits[i] # Null \/ \E s \in Session : uow[s].objs[i] # Null
Fresh == {i \in VisitId : ~InUse(i) /\ \A j \in 1 .. i - 1 : InUse(j)}

WithInsert(w, i) ==
    [Staged(w, WorkBefore(w)) EXCEPT
        ![i] = NewVisit(Event(w).tractor, Event(w).at, job[w].begun)]

CanInsert(w, i) == Consistent(Overlay(WithInsert(w, i)), Dirty(WorkBefore(w)) \cup {i})

InsertReady(w) ==
    /\ NeedsVisit(w)
    /\ Holders(w, WorkBefore(w), Event(w).tractor) = {}
    /\ ~UpdatesVanished(w, WorkBefore(w))

(* The event is dealt with: the rest of the batch, with last_seen updated.   *)
Handled(w) == [job[w] EXCEPT !.events = Tail(@), !.seen[Event(w).tractor] = Event(w).at]

SkipEvent(w) ==
    /\ Applying(w)
    /\ Event(w).tractor = Null
    /\ job' = [job EXCEPT ![w].events = Tail(@)]
    /\ UNCHANGED <<now, visits, uow, batches, faults>>

(* `_apply_state_transition'.  After a rollback the event's row is gone, so  *)
(* the write of last_event_id can only violate its foreign key.              *)
TouchVisit(w) ==
    /\ Applying(w)
    /\ Event(w).tractor # Null
    /\ ActiveId(w) # Null
    /\ ~Expired(w)
    /\ Aged(w).row.state # "CLOSED"
    /\ uow' = [uow EXCEPT ![w].objs[ActiveId(w)] =
                 [Aged(w) EXCEPT !.row = ApplyTransition(@, Event(w).at), !.touched = TRUE]]
    /\ job' = [job EXCEPT ![w] = [Handled(w) EXCEPT !.doomed = job[w].lost]]
    /\ UNCHANGED <<now, visits, batches, faults>>

(* The flush inside `_create_or_get_open_visit' succeeds.                    *)
CreateVisit(w) ==
    /\ InsertReady(w)
    /\ ~job[w].lost
    /\ \E i \in Fresh :
         LET u   == WorkBefore(w)
             row == WithInsert(w, i)[i]
         IN  /\ CanInsert(w, i)
             /\ uow' = [uow EXCEPT ![w] = [u EXCEPT
                  !.staged = WithInsert(w, i),
                  !.objs = [j \in VisitId |->
                     IF j = i THEN [row |-> row, orig |-> row, touched |-> FALSE,
                                    updated |-> FALSE, kind |-> "created"]
                     ELSE IF j \in Dirty(u)
                       THEN [u.objs[j] EXCEPT !.orig = u.objs[j].row, !.touched = FALSE,
                                           !.updated = TRUE]
                       ELSE u.objs[j]]]]
             /\ job' = [job EXCEPT ![w] = [Handled(w) EXCEPT
                  !.active[Event(w).tractor] = i, !.missing = @ \ {Event(w).tractor}]]
    /\ UNCHANGED <<now, visits, batches, faults>>

(* The flush raises IntegrityError, because another session has the open     *)
(* visit or because the event's own row is gone, and the session rolls back. *)
LoseRace(w) ==
    /\ InsertReady(w)
    /\ \E i \in Fresh : job[w].lost \/ ~CanInsert(w, i)
    /\ uow' = [uow EXCEPT ![w] = RolledBack(WorkBefore(w))]
    /\ job' = [job EXCEPT ![w] = [@ EXCEPT !.pc = "adopting", !.lost = TRUE, !.doomed = FALSE]]
    /\ UNCHANGED <<now, visits, batches, faults>>

(* `get_open_for_pair' after that rollback: adopt what it finds, or None.    *)
Adopt(w) ==
    LET t     == Event(w).tractor
        found == {i \in OpenRows(visits) : visits[i].tractor = t}
    IN  /\ job[w].pc = "adopting"
        /\ \/ /\ found = {}
              /\ job' = [job EXCEPT ![w] = [Handled(w) EXCEPT
                   !.pc = "applying", !.active[t] = Null, !.missing = @ \cup {t}]]
              /\ UNCHANGED uow
           \/ \E i \in found :
              /\ job' = [job EXCEPT ![w] = [Handled(w) EXCEPT
                   !.pc = "applying", !.active[t] = i, !.missing = @ \ {t}]]
              /\ uow' = [uow EXCEPT ![w].objs[i] = Load(visits, {i})[i]]
        /\ UNCHANGED <<now, visits, batches, faults>>

-----------------------------------------------------------------------------
(* The end of the batch.                                                     *)

(* "After the loop, force-close anything still left open."                   *)
Forced(objs, ids, time) ==
    [i \in VisitId |->
        IF i \in ids /\ Persistent(objs[i]) /\ ~TimedOut(objs[i].row, time)
          THEN [objs[i] EXCEPT !.row = MaybeClose(@, time)] ELSE objs[i]]

Expiring(objs, ids, time) ==
    {i \in ids : Persistent(objs[i]) /\ TimedOut(objs[i].row, time)}

ActiveIds(w) == {job[w].active[t] : t \in Tractor} \ {Null}

FinalWork(w) ==
    [uow[w] EXCEPT !.objs    = Forced(@, ActiveIds(w), job[w].final),
                   !.deleted = Expiring(uow[w].objs, ActiveIds(w), job[w].final)]

(* What makes that loop, or the flush after it, raise whatever the database  *)
(* holds: a None, an expired instance, one that closes with its duration     *)
(* expired, or a transient one that has to be deleted or to be inserted      *)
(* again with the id of an event that is gone.                               *)
Broken(w) ==
    \/ job[w].missing # {}
    \/ job[w].doomed
    \/ \E i \in ActiveIds(w) : LET o == uow[w].objs[i] IN
         \/ o.kind = "expired"
         \/ Unreadable(o, MaybeClose(o.row, job[w].final))
         \/ /\ o.kind = "transient"
            /\ o.row.state \in {"PRESENT", "LEAVING"} \/ TimedOut(o.row, job[w].final)

Finishing(w) == job[w].pc = "applying" /\ job[w].events = <<>>

Finished(w, result, lost) ==
    /\ uow' = [uow EXCEPT ![w] = NoWork]
    /\ job' = [job EXCEPT ![w] = NoJob(result, lost)]
    /\ UNCHANGED <<now, batches>>

(* The commit that ends `process_video_for_visits', and the one that marks   *)
(* the video COMPLETED.                                                      *)
CommitBatch(w) ==
    /\ Finishing(w)
    /\ ~Broken(w)
    /\ Holders(w, FinalWork(w), Null) = {}
    /\ CanCommit(w, FinalWork(w))
    /\ visits' = Committed(w, FinalWork(w))
    /\ Finished(w, "completed", job[w].lost)
    /\ UNCHANGED faults

(* An exception leaves the aggregator; the video is marked FAILED.           *)
FailBatch(w) ==
    /\ \/ Applying(w) /\ Event(w).tractor # Null /\ (Expired(w) \/ ClosingFails(w))
       \/ /\ NeedsVisit(w)
          /\ Holders(w, WorkBefore(w), Event(w).tractor) = {}
          /\ UpdatesVanished(w, WorkBefore(w))
       \/ Finishing(w) /\ Broken(w)
       \/ /\ Finishing(w)
          /\ Holders(w, FinalWork(w), Null) = {}
          /\ ~CanCommit(w, FinalWork(w))
    /\ Finished(w, "failed", TRUE)
    /\ UNCHANGED <<visits, faults>>

(* What a worker's next flush waits for, and the wait cycles it is part of.  *)
Waiting(w) ==
    IF NeedsVisit(w) THEN Holders(w, WorkBefore(w), Event(w).tractor)
    ELSE IF Finishing(w) /\ ~Broken(w) THEN Holders(w, FinalWork(w), Null)
    ELSE {}

Deadlocked(w) ==
    \E C \in SUBSET Worker : w \in C /\ \A v \in C : Waiting(v) \cap C # {}

(* Mutant of DeadlockVictim: nobody rolls the failed transaction back.       *)
DeadlockVictimUnreleased(w) ==
    /\ Deadlocked(w)
    /\ job' = [job EXCEPT ![w] = NoJob("failed", TRUE)]
    /\ UNCHANGED <<now, visits, uow, batches, faults>>

(* PostgreSQL breaks a wait cycle by failing one of the transactions in it;  *)
(* the error handler rolls it back and marks the video FAILED.               *)
DeadlockVictim(w) ==
    /\ Deadlocked(w)
    /\ Finished(w, "failed", TRUE)
    /\ UNCHANGED <<visits, faults>>

(* The connection breaks.                                                    *)
Abort(w) ==
    /\ faults < MaxFaults                                            \* bound
    /\ job[w].pc # "idle"
    /\ faults' = faults + 1
    /\ Finished(w, "failed", TRUE)
    /\ UNCHANGED visits

-----------------------------------------------------------------------------
(* The stale check, crashes and time.                                        *)

(* `check_stale_visits' reads the open visits and the clock and drives every *)
(* visit along its exit timer.  A pass that changes nothing is left out.     *)
CheckStale ==
    LET objs == Load(visits, OpenRows(visits))
        work == [NoWork EXCEPT !.objs    = Forced(objs, OpenRows(visits), now),
                               !.deleted = Expiring(objs, OpenRows(visits), now)]
    IN  /\ uow[StaleCheck] = NoWork
        /\ Dirty(work) \cup work.deleted # {}
        /\ uow' = [uow EXCEPT ![StaleCheck] = work]
        /\ UNCHANGED <<now, visits, job, batches, faults>>

(* Mutant of CommitStale: the commit is forgotten.                           *)
CommitStaleForgotten ==
    /\ uow[StaleCheck] # NoWork
    /\ uow' = [uow EXCEPT ![StaleCheck] = NoWork]
    /\ UNCHANGED <<now, visits, job, batches, faults>>

(* ... and its commit.  An exception is logged and the next pass starts anew.*)
CommitStale ==
    LET u == uow[StaleCheck]
    IN  /\ u # NoWork
        /\ Holders(StaleCheck, u, Null) = {}
        /\ visits' = IF CanCommit(StaleCheck, u) THEN Committed(StaleCheck, u) ELSE visits
        /\ uow' = [uow EXCEPT ![StaleCheck] = NoWork]
        /\ UNCHANGED <<now, job, batches, faults>>

(* The API dies and starts again: every open transaction is rolled back and  *)
(* `recover_open_visits' runs before anything else does.                     *)
Crash ==
    /\ faults < MaxFaults                                            \* bound
    /\ faults' = faults + 1
    /\ uow' = [s \in Session |-> NoWork]
    /\ job' = [w \in Worker |-> NoJob("failed", TRUE)]
    /\ visits' = [i \in VisitId |->
         IF visits[i] # Null /\ Abandoned(visits[i], now) THEN Null ELSE visits[i]]
    /\ UNCHANGED <<now, batches>>

Tick ==
    /\ now < MaxTime                                                 \* bound
    /\ now' = now + 1
    /\ UNCHANGED <<visits, uow, job, batches, faults>>

(* Every bound is used up and there is nothing left to do.                   *)
Quiescent ==
    /\ now = MaxTime /\ batches = MaxBatches
    /\ \A w \in Worker : job[w].pc = "idle"
    /\ UNCHANGED vars

WorkerStep(w) ==
    \/ MapEvent(w) \/ NothingDetected(w) \/ LoadOpen(w)
    \/ SkipEvent(w) \/ TouchVisit(w) \/ CreateVisit(w) \/ LoseRace(w) \/ Adopt(w)
    \/ CommitBatch(w) \/ FailBatch(w) \/ DeadlockVictim(w)

Next ==
    \/ \E w \in Worker : Begin(w) \/ WorkerStep(w) \/ Abort(w)
    \/ CheckStale \/ CommitStale
    \/ Crash \/ Tick \/ Quiescent

Spec == Init /\ [][Next]_vars

(* The event loop runs every task it was given, PostgreSQL resolves every    *)
(* wait cycle, and the stale check wakes up again and again.                 *)
Fairness ==
    /\ \A w \in Worker : WF_vars(WorkerStep(w))
    /\ WF_vars(CheckStale)
    /\ WF_vars(CommitStale)

FairSpec == Spec /\ Fairness
-----------------------------------------------------------------------------
(* Properties.                                                               *)

(* The variables keep their shapes; in particular no instant is ever before  *)
(* the epoch and no session edits a row it does not hold.                    *)
TypeOK ==
    /\ now \in Nat
    /\ visits \in [VisitId -> Visit \cup {Null}]
    /\ uow \in [Session -> UnitOfWork]
    /\ job \in [Worker -> Job]
    /\ batches \in Nat
    /\ faults \in Nat

Stored(i) == visits[i] # Null

(* However the flushes, lock waits, lost races and commits of the sessions   *)
(* interleave, a tractor has at most one open visit at the station.          *)
OneOpenVisit ==
    \A i, j \in OpenRows(visits) : visits[i].tractor = visits[j].tractor => i = j

(* A visit that was closed is never open again, although sessions that       *)
(* loaded it while it was open still write their columns to it: what saves   *)
(* it is chk_visit_departure, and that no session ever clears departed_at.   *)
ClosedNeverReopens ==
    [][\A i \in VisitId :
         Stored(i) /\ visits[i].state = "CLOSED" /\ visits'[i] # Null
           => visits'[i].state = "CLOSED"]_visits

(* Nobody announces a departure early: departed_at lies a whole exit window  *)
(* in the past when the row shows it, whoever closed the visit.              *)
DepartureBackdated ==
    \A i \in VisitId : Stored(i) /\ visits[i].departed # Null
                         => visits[i].departed + Exit <= now

(* With one worker: a visit counts as arrived only after Entry seconds of    *)
(* detections, none of them earlier than the batch that opened it.           *)
ConfirmedBeforePresent ==
    \A i \in VisitId : Stored(i) /\ visits[i].state # "ENTERING" =>
        /\ visits[i].acc >= Entry
        /\ visits[i].created + Entry <= visits[i].arrived

(* With one worker: a closed visit lasted at least one exit window, so that  *)
(* duration_seconds is never close to zero.                                  *)
MinimalStay ==
    \A i \in VisitId : Stored(i) /\ visits[i].state = "CLOSED"
                         => visits[i].arrived + Exit <= visits[i].departed

(* With one worker: last_seen_at only advances, although the stale check     *)
(* writes back rows it read before a batch moved them on.                    *)
SeenNeverGoesBack ==
    [][\A i \in VisitId : Stored(i) /\ visits'[i] # Null
         => visits[i].seen <= visits'[i].seen]_visits

(* Visit i is an ENTERING visit that timed out or one that has been quiet    *)
(* for two exit windows.                                                     *)
Overdue(i) ==
    /\ Stored(i)
    /\ \/ TimedOut(visits[i], now)
       \/ visits[i].state \in {"PRESENT", "LEAVING"} /\ now - visits[i].seen >= 2 * Exit

(* With one worker: no visit stays overdue, the stale check deletes it or    *)
(* closes it unless a detection refreshes it first.                          *)
StaleVisitsSettle == \A i \in VisitId : Overdue(i) ~> ~Overdue(i)

(* Every batch a worker begins ends, whatever locks the workers hold against *)
(* each other.                                                               *)
BatchesSettle == \A w \in Worker : job[w].pc # "idle" ~> job[w].pc = "idle"

-----------------------------------------------------------------------------
(* What the documentation says and the code does not do.                     *)

(* README: "ABSENT --first in-ROI detection--> ENTERING".  A visit opened by *)
(* a batch that completes is in the table when the batch is done.            *)
DetectionOpensVisit ==
    [][\A w \in Worker :
         job[w].pc = "applying" /\ job'[w].result = "completed" =>
           \A i \in ActiveIds(w) :
             uow[w].objs[i].kind = "created" => visits'[i] # Null]_vars

(* README: "the loser of a race is rolled back and adopts the winner", and   *)
(* recognize_video: "Run the worker, persist events, update counters".  A    *)
(* batch that completes has its events in the database.                      *)
CompletedBatchesStored ==
    \A w \in Worker : job[w].result = "completed" => ~job[w].lost
=============================================================================
