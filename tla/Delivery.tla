------------------------------ MODULE Delivery ------------------------------
(***************************************************************************)
(* What the paths from a camera to the database promise, whatever lies     *)
(* between: items (detections, recordings) are accepted, travel, and are   *)
(* entered into a log in batches.                                          *)
(*                                                                         *)
(* An item is entered at most once, except when a call that would enter it *)
(* ended without an answer: such an item is in `doubted', and the caller   *)
(* may try again although the first call succeeded.  An item that is no    *)
(* longer pending is settled: it is never entered again.                   *)
(***************************************************************************)
EXTENDS Naturals, Sequences

CONSTANT Item

VARIABLES
    accepted,   \* the items that ever entered the path
    pending,    \* those that may still be entered into the log
    doubted,    \* those whose entry was attempted without an answer
    log         \* the batches that were entered, in the order of their commits

vars == <<accepted, pending, doubted, log>>

Entered == UNION {log[i] : i \in DOMAIN log}

Init ==
    /\ accepted \in SUBSET Item
    /\ pending = accepted
    /\ doubted = {}
    /\ log = <<>>

Accept(S) ==
    /\ S \cap accepted = {}
    /\ accepted' = accepted \cup S
    /\ pending' = pending \cup S
    /\ UNCHANGED <<doubted, log>>

(* Any step may also give up items that are pending.                         *)
Doubt(S) ==
    /\ S \subseteq pending
    /\ doubted' = doubted \cup S
    /\ pending' \in SUBSET pending
    /\ UNCHANGED <<accepted, log>>

Enter(S) ==
    /\ S \subseteq pending
    /\ S \cap Entered \subseteq doubted
    /\ log' = Append(log, S)
    /\ pending' \in SUBSET pending
    /\ UNCHANGED <<accepted, doubted>>

Drop ==
    /\ pending' \in SUBSET pending
    /\ UNCHANGED <<accepted, doubted, log>>

Next == Drop \/ \E S \in SUBSET Item : Accept(S) \/ Doubt(S) \/ Enter(S)

Spec == Init /\ [][Next]_vars
-----------------------------------------------------------------------------
(* No item is entered twice unless a call about it went unanswered.          *)
EnteredOnce ==
    \A i, j \in DOMAIN log : i # j => log[i] \cap log[j] \subseteq doubted
=============================================================================
