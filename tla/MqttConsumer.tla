---------------------------- MODULE MqttConsumer ----------------------------
(***************************************************************************)
(* The consumer process (mqtt_consumer/main.py) and the subscribing half   *)
(* of MqttClient: it takes one message at a time from its queue, gives it  *)
(* timestamps, and posts it until it is accepted, refused or tried         *)
(* MaxRetries times.                                                       *)
(***************************************************************************)
EXTENDS EventsIngest

CONSTANTS
    MaxRetries,   \* consumer_settings.max_retries
    MaxEvents     \* EdgeBatchIn.events: max_length

ASSUME RetriesAssumption == MaxRetries \in Nat \ {0}

VARIABLES
    consumer,   \* the state of the process
    clock,      \* its wall clock, read twice per message
    doubted     \* history: detections in a POST that ended without an answer

consumerVars == <<consumer, clock, doubted>>

(* `slot' is the request the consumer waits for.                             *)
Consumer == [pc : {"connecting", "listening", "sending", "posting", "stopped"},
             stop : BOOLEAN, payload : Payload \cup {Null}, attempt : 0 .. MaxRetries,
             slot : Slot \cup {Null}]

Fresh == [pc |-> "connecting", stop |-> FALSE, payload |-> Null, attempt |-> 0, slot |-> Null]

ConsumerInit == consumer = Fresh /\ clock = 0 /\ doubted = {}

(* `_handle_message' returns.                                                *)
NextMessage(c) ==
    [c EXCEPT !.pc = "listening", !.payload = Null, !.attempt = 0, !.slot = Null]

InHand == IF consumer.payload = Null THEN {} ELSE consumer.payload.events

(* The client goes, and its queue with it.                                   *)
DropQueue == inbox' = <<>> /\ lost' = lost \cup Queued

-----------------------------------------------------------------------------
(* `run_forever'.  A new client has a new queue.                             *)
Subscribe ==
    /\ consumer.pc = "connecting" /\ ~consumer.stop
    /\ consumer' = [consumer EXCEPT !.pc = "listening"]
    /\ online' = TRUE
    /\ DropQueue
    /\ UNCHANGED <<faults, apiVars, clock, doubted>>

(* The connection breaks; what was received is handled before it is noticed. *)
LoseSubscription ==
    /\ online /\ Fault
    /\ online' = FALSE
    /\ UNCHANGED <<inbox, lost, apiVars, consumerVars>>

Reconnect ==
    /\ consumer.pc = "listening" /\ ~online /\ inbox = <<>>
    /\ consumer' = [consumer EXCEPT !.pc = "connecting"]
    /\ UNCHANGED <<wireVars, apiVars, clock, doubted>>

(* `_normalise_timestamps': the clock is read twice.  The readings are equal *)
(* when the clock did not move in between.                                   *)
Receive ==
    LET m == Head(inbox)
    IN  /\ consumer.pc = "listening" /\ inbox # <<>> /\ ~consumer.stop
        /\ inbox' = Tail(inbox)
        /\ \E ended \in {clock, clock + 1} :
             /\ clock' = ended
             /\ IF Cardinality(m.events) > MaxEvents
                  THEN /\ lost' = lost \cup m.events
                       /\ UNCHANGED consumer
                  ELSE /\ consumer' = [consumer EXCEPT !.pc = "sending", !.attempt = 1,
                            !.payload = [station |-> m.station, events |-> m.events,
                                         started |-> clock, ended |-> ended]]
                       /\ UNCHANGED lost
        /\ UNCHANGED <<online, faults, apiVars, doubted>>

(* The stop flag is only looked at when a message arrives, and that message  *)
(* is not handled, nor is what is queued behind it.                          *)
StopListening ==
    /\ consumer.stop
    /\ \/ consumer.pc = "listening" /\ inbox # <<>>
       \/ consumer.pc = "connecting"
    /\ consumer' = [consumer EXCEPT !.pc = "stopped"]
    /\ online' = FALSE
    /\ DropQueue
    /\ UNCHANGED <<faults, apiVars, clock, doubted>>

FreeSlot ==
    {r \in Slot : request[r].pc = "free" /\ \A o \in 1 .. r - 1 : request[o].pc # "free"}

(* One attempt: the request is on its way.                                   *)
Post ==
    /\ consumer.pc = "sending"
    /\ \E r \in FreeSlot :                                           \* bound
         /\ request' = [request EXCEPT ![r] = [NoRequest EXCEPT !.pc = "arrived",
                           !.payload = consumer.payload, !.awaited = TRUE]]
         /\ consumer' = [consumer EXCEPT !.pc = "posting", !.slot = r]
    /\ UNCHANGED <<wireVars, registered, sentinel, stored, clock, doubted>>

(* Mutants of Retried: one attempt more; attempts that are not counted.      *)
RetriedOnceMore(c) ==
    IF c.attempt > MaxRetries THEN NextMessage(c)
    ELSE [c EXCEPT !.pc = "sending", !.attempt = @ + 1, !.slot = Null]

RetriedForever(c) == [c EXCEPT !.pc = "sending", !.slot = Null]

(* After a failed attempt: again, or give the batch up.                      *)
Retried(c) ==
    IF c.attempt = MaxRetries THEN NextMessage(c)
    ELSE [c EXCEPT !.pc = "sending", !.attempt = @ + 1, !.slot = Null]

(* 2xx and 4xx end the batch; 5xx and a broken connection are tried again.   *)
HandleResponse ==
    LET q    == request[consumer.slot]
        next == IF q.code \in {0, 500} THEN Retried(consumer) ELSE NextMessage(consumer)
    IN  /\ consumer.pc = "posting" /\ q.pc = "answered"
        /\ request' = [request EXCEPT ![consumer.slot] = NoRequest]
        /\ consumer' = next
        /\ lost' = IF next.payload = Null /\ q.code # 201 THEN lost \cup InHand ELSE lost
        /\ doubted' = IF q.code = 0 THEN doubted \cup InHand ELSE doubted
        /\ UNCHANGED <<inbox, online, faults, registered, sentinel, stored, clock>>

(* The caller's end of a request is gone: the API does not know and goes on, *)
(* or has sent an answer that does not arrive.                               *)
Abandoned(q) == IF q.pc = "answered" THEN NoRequest ELSE [q EXCEPT !.awaited = FALSE]

(* `httpx' gives up waiting.                                                 *)
PostTimesOut ==
    /\ consumer.pc = "posting"
    /\ request' = [request EXCEPT ![consumer.slot] = Abandoned(@)]
    /\ consumer' = Retried(consumer)
    /\ lost' = IF Retried(consumer).payload = Null THEN lost \cup InHand ELSE lost
    /\ doubted' = doubted \cup InHand
    /\ UNCHANGED <<inbox, online, faults, registered, sentinel, stored, clock>>

RequestConsumerStop ==
    /\ ~consumer.stop
    /\ consumer' = [consumer EXCEPT !.stop = TRUE]
    /\ UNCHANGED <<wireVars, apiVars, clock, doubted>>

(* The process is started again after it stopped.                            *)
ConsumerStarts ==
    /\ consumer.pc = "stopped"
    /\ consumer' = Fresh
    /\ UNCHANGED <<wireVars, apiVars, clock, doubted>>

(* The process is killed and started again; the API goes on with its request.*)
ConsumerCrash ==
    LET open == consumer.pc = "posting"
    IN  /\ consumer.pc # "stopped" /\ Fault
        /\ consumer' = Fresh
        /\ online' = FALSE
        /\ inbox' = <<>>
        /\ lost' = lost \cup Queued \cup InHand
        /\ request' = IF open THEN [request EXCEPT ![consumer.slot] = Abandoned(@)]
                              ELSE request
        /\ doubted' = IF open THEN doubted \cup InHand ELSE doubted
        /\ UNCHANGED <<registered, sentinel, stored, clock>>

ConsumerWork ==
    \/ Subscribe \/ Reconnect \/ Receive \/ StopListening \/ Post \/ HandleResponse

ConsumerStep ==
    \/ ConsumerWork
    \/ LoseSubscription \/ PostTimesOut
    \/ RequestConsumerStop \/ ConsumerStarts \/ ConsumerCrash

ConsumerTypeOK ==
    /\ consumer \in Consumer
    /\ clock \in Nat
    /\ doubted \in SUBSET Nat
=============================================================================
