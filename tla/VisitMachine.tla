---------------------------- MODULE VisitMachine ----------------------------
(***************************************************************************)
(* The visit state machine of VisitService as pure operators on one row of *)
(* the table visits: what one detection, one look at the exit timer and    *)
(* the startup recovery do to a row, and the CHECK constraints PostgreSQL  *)
(* holds every row to.  There is no state here: VisitSessions runs these   *)
(* operators inside concurrent database sessions.                          *)
(*                                                                         *)
(* Instants and durations are whole seconds.  Of the columns of a visit,   *)
(* `seen' is last_seen_at, `arrived' and `departed' are arrived_at and     *)
(* departed_at, `acc' is entry_seen_seconds and `created' is created_at.   *)
(***************************************************************************)
EXTENDS Integers

CONSTANTS
    Tractor,    \* the tractors; one station is modelled, so a tractor is a pair
    Entry,      \* visit_settings.entry_confirm_seconds
    Exit,       \* visit_settings.exit_confirm_seconds
    Grace,      \* visit_settings.recovery_grace_multiplier
    Null        \* SQL NULL and Python None

ASSUME ThresholdAssumption ==
    /\ Entry \in Nat
    /\ Exit \in Nat \ {0}
    /\ Grace \in Nat

VisitState == {"ENTERING", "PRESENT", "LEAVING", "CLOSED"}

Visit == [tractor : Tractor, state : VisitState, seen : Nat,
          arrived : Nat \cup {Null}, departed : Nat \cup {Null},
          acc : Int, created : Nat]

ASSUME NullAssumption == Null \notin Nat \cup Tractor \cup Visit

IsOpen(v) == v.state # "CLOSED"

(* The row `_create_or_get_open_visit' inserts.  created_at is the server    *)
(* default CURRENT_TIMESTAMP, the start of the inserting transaction.        *)
NewVisit(t, at, begun) ==
    [tractor |-> t, state |-> "ENTERING", seen |-> at, arrived |-> Null,
     departed |-> Null, acc |-> 0, created |-> begun]

(* Mutants of ApplyTransition: a tractor that comes back arrives anew; any    *)
(* second detection confirms the visit.                                      *)
ApplyTransitionAnew(v, at) ==
    LET acc == v.acc + (at - v.seen)
    IN  CASE v.state \in {"ENTERING", "LEAVING"} /\ acc >= Entry ->
               [v EXCEPT !.acc = acc, !.seen = at, !.state = "PRESENT", !.arrived = at]
          [] OTHER -> [v EXCEPT !.acc = acc, !.seen = at]

ApplyTransitionEager(v, at) ==
    IF v.state = "CLOSED" THEN v
    ELSE [v EXCEPT !.seen = at, !.state = "PRESENT", !.acc = @ + (at - v.seen),
                   !.arrived = IF v.state = "ENTERING" THEN at ELSE @]

(* `_apply_state_transition': one in-ROI detection stamped `at'.             *)
ApplyTransition(v, at) ==
    LET acc == v.acc + (at - v.seen)
    IN  CASE v.state = "ENTERING" /\ acc >= Entry ->
               [v EXCEPT !.acc = acc, !.seen = at, !.state = "PRESENT", !.arrived = at]
          [] v.state = "ENTERING" /\ acc < Entry ->
               [v EXCEPT !.acc = acc, !.seen = at]
          [] v.state = "PRESENT" -> [v EXCEPT !.seen = at]
          [] v.state = "LEAVING" -> [v EXCEPT !.seen = at, !.state = "PRESENT"]
          [] v.state = "CLOSED"  -> v

(* `_maybe_close_visit' deletes an ENTERING visit this old ...               *)
TimedOut(v, time) == v.state = "ENTERING" /\ time - v.created >= 3 * Entry

(* ... and otherwise moves it along the exit timer: PRESENT to LEAVING after *)
(* one quiet window, LEAVING to CLOSED after two, in one call if it is late. *)
StartLeaving(v, time) ==
    IF v.state = "PRESENT" /\ time - v.seen >= Exit
      THEN [v EXCEPT !.state = "LEAVING"] ELSE v

(* Mutants of FinishLeaving: the window subtracted instead of added, only    *)
(* one window waited for, and the departure not put one window later.        *)
FinishLeavingBackwards(v, time) ==
    IF v.state = "LEAVING" /\ time - v.seen >= 2 * Exit
      THEN [v EXCEPT !.state = "CLOSED", !.departed = v.seen - Exit] ELSE v

FinishLeavingEarly(v, time) ==
    IF v.state = "LEAVING" /\ time - v.seen >= Exit
      THEN [v EXCEPT !.state = "CLOSED", !.departed = v.seen + Exit] ELSE v

FinishLeavingAtOnce(v, time) ==
    IF v.state = "LEAVING" /\ time - v.seen >= 2 * Exit
      THEN [v EXCEPT !.state = "CLOSED", !.departed = v.seen] ELSE v

FinishLeaving(v, time) ==
    IF v.state = "LEAVING" /\ time - v.seen >= 2 * Exit
      THEN [v EXCEPT !.state = "CLOSED", !.departed = v.seen + Exit] ELSE v

MaybeClose(v, time) == FinishLeaving(StartLeaving(v, time), time)

(* The visits `recover_open_visits' deletes when the API starts.             *)
Abandoned(v, time) == v.state = "ENTERING" /\ time - v.created > Entry * Grace

(* Mutant of RowOK: a schema without chk_visit_departure.                    *)
RowOKUndeparted(v) ==
    /\ v.arrived = Null => v.state = "ENTERING"
    /\ (v.departed # Null /\ v.arrived # Null) => v.arrived < v.departed
    /\ v.acc >= 0

(* chk_visit_arrival, chk_visit_departure, chk_visit_times and               *)
(* chk_visit_entry_seen_nonneg.                                              *)
RowOK(v) ==
    /\ v.arrived = Null => v.state = "ENTERING"
    /\ (v.state = "CLOSED") <=> (v.departed # Null)
    /\ (v.departed # Null /\ v.arrived # Null) => v.arrived < v.departed
    /\ v.acc >= 0
=============================================================================
