---------------------------- MODULE EdgeDelivery ----------------------------
(***************************************************************************)
(* The way of a detection from the camera to the table events: the edges,  *)
(* the broker, the consumer and the requests at the API, composed.         *)
(***************************************************************************)
EXTENDS EdgePipeline, MqttConsumer

vars == <<edgeVars, wireVars, apiVars, consumerVars>>

Init == EdgeInit /\ WireInit /\ ApiInit /\ ConsumerInit

(* Nothing is left to do, unless a process is started again.  A consumer     *)
(* that was told to stop while it listens never ends by itself: it waits for *)
(* a message that no edge sends any more.                                    *)
Idle ==
    /\ \A s \in Station : edge[s].pc = "stopped"
    /\ consumer.stop /\ consumer.pc \in {"stopped", "listening"}
    /\ UNCHANGED vars

Next ==
    \/ \E s \in Station : EdgeStep(s) /\ UNCHANGED <<apiVars, consumerVars>>
    \/ ConsumerStep /\ UNCHANGED edgeVars
    \/ ApiStep /\ UNCHANGED <<edgeVars, consumerVars>>
    \/ Idle

Spec == Init /\ [][Next]_vars

(* Each process runs its event loop: timers fire, awaited answers arrive,    *)
(* and PostgreSQL ends every lock wait.                                      *)
Fairness ==
    /\ \A s \in Station : WF_vars(EdgeWork(s) /\ UNCHANGED <<apiVars, consumerVars>>)
    /\ WF_vars(ConsumerWork /\ UNCHANGED edgeVars)
    /\ \A r \in Slot : WF_vars(RequestWork(r) /\ UNCHANGED <<edgeVars, consumerVars>>)

FairSpec == Spec /\ Fairness
-----------------------------------------------------------------------------
TypeOK == EdgeTypeOK /\ WireTypeOK /\ ApiTypeOK /\ ConsumerTypeOK

(* Where a detection that may still be stored is.                            *)
Buffered == UNION {edge[s].buffer \cup edge[s].out : s \in Station}
AtApi    == UNION {request[r].payload.events :
                     r \in {q \in Slot : request[q].payload # Null}}

Pending == Buffered \cup Queued \cup InHand \cup AtApi

InTable == UNION {stored[i].events : i \in DOMAIN stored}

(* What the path promises: see Delivery.  A detection is stored once, unless *)
(* a POST of its batch ended without an answer, and nothing is stored that   *)
(* was given up.                                                             *)
Promise == INSTANCE Delivery WITH
    Item     <- 1 .. MaxDetections,
    accepted <- 1 .. made,
    pending  <- Pending,
    doubted  <- doubted,
    log      <- [i \in DOMAIN stored |-> stored[i].events]

KeepsPromise == Promise!Spec

(* Detections of a station reach the table in the order they were made,      *)
(* whatever was dropped in between, unless a POST of one of the two batches  *)
(* went unanswered and may have been overtaken.                              *)
StoredInOrder ==
    \A i, j \in DOMAIN stored :
        \/ i >= j
        \/ stored[i].station # stored[j].station
        \/ (stored[i].events \cup stored[j].events) \cap doubted # {}
        \/ \A d \in stored[i].events, e \in stored[j].events : d < e

(* No detection vanishes between two processes: at any moment each one that  *)
(* was made is on its way, in the table, or was given up by one of the steps *)
(* that drop a batch or die with it, whoever is in the middle of what.       *)
NothingVanishes == 1 .. made \subseteq Pending \cup InTable \cup lost

(* Every detection comes to an end: it is stored, or given up by one of      *)
(* those steps, which again and again is so of all that were made.  None     *)
(* waits for ever in a buffer whose timer has ended, in a queue nobody       *)
(* reads, or for a lock at the API.                                          *)
DetectionsSettle == []<>(1 .. made \subseteq InTable \cup lost)

(* The consumer is never stuck with a batch, whatever happens to its POSTs:  *)
(* "a stuck consumer is worse than a missing batch".                         *)
ConsumerMovesOn == []<>(consumer.payload = Null)

-----------------------------------------------------------------------------
(* What the documentation says and the code does not do.                     *)

(* get_or_create_edge_sentinel: "Extend the live window forward; never move  *)
(* it back", and its test: "neither column ever moves backwards".            *)
WindowNeverShrinks ==
    [][\A s \in Station : sentinel[s] # Null =>
         /\ sentinel'[s].started <= sentinel[s].started
         /\ sentinel'[s].ended >= sentinel[s].ended]_vars
=============================================================================
