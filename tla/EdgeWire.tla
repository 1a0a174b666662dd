------------------------------ MODULE EdgeWire ------------------------------
(***************************************************************************)
(* What the processes on the way from an edge camera to the database share:*)
(* the batches, and the MQTT broker between the edges and the consumer.    *)
(*                                                                         *)
(* The broker hands a batch on to the consumer's queue if the consumer is  *)
(* subscribed at that moment; aiomqtt opens clean sessions, so nothing is  *)
(* kept for a consumer that is away.                                       *)
(***************************************************************************)
EXTENDS Naturals, Sequences, FiniteSets

CONSTANTS
    Station,     \* the station codes; each has one edge process
    MaxFaults    \* bound on crashes, broken connections, failed statements and restarts

VARIABLES
    inbox,    \* the consumer's queue of received messages
    online,   \* whether the consumer's subscription is in force
    faults,   \* how many faults happened
    lost      \* history: detections that were given up, at the place it happened

wireVars == <<inbox, online, faults, lost>>

(* Detections are numbers; a batch is a set of them, as its order inside the *)
(* payload never matters.  A heartbeat has none.                             *)
Message == [station : Station, events : SUBSET Nat]

WireInit == inbox = <<>> /\ online = FALSE /\ faults = 0 /\ lost = {}

(* Mutant of Routed: the newest message is handled first.                    *)
RoutedNewestFirst(s, events) ==
    IF online THEN <<[station |-> s, events |-> events]>> \o inbox ELSE inbox

(* The queue after the broker received a batch of station s.                 *)
Routed(s, events) ==
    IF online THEN Append(inbox, [station |-> s, events |-> events]) ELSE inbox

(* A batch reaches the broker.                                               *)
ToBroker(s, events) ==
    /\ inbox' = Routed(s, events)
    /\ lost' = IF online THEN lost ELSE lost \cup events

(* What the consumer has received and not handled goes with its client.      *)
Queued == UNION {inbox[i].events : i \in DOMAIN inbox}

Fault ==
    /\ faults < MaxFaults                                            \* bound
    /\ faults' = faults + 1

WireTypeOK ==
    /\ inbox \in Seq(Message)
    /\ online \in BOOLEAN
    /\ faults \in Nat
    /\ lost \in SUBSET Nat
=============================================================================
