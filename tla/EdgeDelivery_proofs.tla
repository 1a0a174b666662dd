------------------------- MODULE EdgeDelivery_proofs -------------------------
(***************************************************************************)
(* What TLAPS proves about EdgeDelivery for any stations, detections,      *)
(* requests at a time, retries and faults: types, that the path implements *)
(* Delivery and stores no detection twice, that no detection vanishes      *)
(* between two processes, and the order in which the detections of a       *)
(* station reach the table.                                                *)
(***************************************************************************)
EXTENDS EdgeDelivery, TLAPS

(* What Append, Head and Tail do to the elements of a queue.                 *)
LEMMA AppendElements ==
  ASSUME NEW S, NEW q \in Seq(S), NEW x \in S
  PROVE  /\ Append(q, x) \in Seq(S)
         /\ DOMAIN Append(q, x) = DOMAIN q \cup {Len(q) + 1}
         /\ \A i \in DOMAIN q : Append(q, x)[i] = q[i] /\ i < Len(q) + 1 /\ i \in Nat
         /\ Append(q, x)[Len(q) + 1] = x
         /\ Len(q) \in Nat
  OBVIOUS

LEMMA TailElements ==
  ASSUME NEW S, NEW q \in Seq(S), q # <<>>
  PROVE  /\ Tail(q) \in Seq(S)
         /\ 1 \in DOMAIN q /\ Head(q) = q[1] /\ Head(q) \in S
         /\ \A i \in DOMAIN Tail(q) :
              i \in Nat \ {0} /\ i + 1 \in DOMAIN q /\ Tail(q)[i] = q[i + 1]
  OBVIOUS

-----------------------------------------------------------------------------
(* Types need to know what the state of a request says about the others: it  *)
(* has a payload exactly while it is worked on, the caller that waits for it *)
(* has one, and a sentinel that was seen is still there.                     *)
RequestsOK ==
  /\ \A r \in Slot :
       /\ request[r].pc \in {"arrived", "read", "written"} <=> request[r].payload # Null
       /\ request[r].seen # Null =>
            /\ request[r].payload # Null
            /\ sentinel[request[r].payload.station] # Null
  /\ consumer.pc \in {"sending", "posting"} => consumer.payload # Null
  /\ consumer.pc = "posting" =>
       consumer.slot \in Slot /\ request[consumer.slot].awaited

TypeInv == TypeOK /\ RequestsOK

LEMMA InitTypeInv == Init => TypeInv
<1> SUFFICES ASSUME Init PROVE TypeInv
  OBVIOUS
<1> USE DEF Init, ApiInit, ConsumerInit
<1>1. EdgeTypeOK
  BY DEF EdgeInit, EdgeTypeOK, Edge, Started
<1>2. WireTypeOK
  <2>1. <<>> \in Seq(Message)
    OBVIOUS
  <2> QED
    BY <2>1 DEF WireInit, WireTypeOK
<1>3. ApiTypeOK
  BY DEF ApiTypeOK, NoRequest, Request
<1>4. ConsumerTypeOK
  BY RetriesAssumption DEF ConsumerTypeOK, Fresh, Consumer
<1>5. RequestsOK
  BY DEF RequestsOK, NoRequest, Fresh
<1> QED
  BY <1>1, <1>2, <1>3, <1>4, <1>5 DEF TypeInv, TypeOK

(* What a queue becomes when the broker routes a batch into it.              *)
LEMMA RoutedType ==
  ASSUME WireTypeOK, NEW s \in Station, NEW E \in SUBSET Nat
  PROVE  Routed(s, E) \in Seq(Message)
<1>1. [station |-> s, events |-> E] \in Message
  BY DEF Message
<1> QED
  BY <1>1, AppendElements DEF WireTypeOK, Routed

LEMMA FaultType == ASSUME WireTypeOK, Fault PROVE faults' \in Nat
  BY DEF WireTypeOK, Fault

LEMMA EdgeTypes ==
  ASSUME TypeInv, NEW s \in Station, EdgeStep(s), UNCHANGED <<apiVars, consumerVars>>
  PROVE  TypeInv'
<1> USE DEF TypeInv, TypeOK, EdgeTypeOK, WireTypeOK
<1>1. ApiTypeOK' /\ ConsumerTypeOK' /\ RequestsOK'
  BY DEF ApiTypeOK, ConsumerTypeOK, RequestsOK, apiVars, consumerVars
<1>2. edge[s] \in Edge
  OBVIOUS
<1>3. edge[s].out \in SUBSET Nat /\ edge[s].buffer \in SUBSET Nat
  BY <1>2 DEF Edge
<1>4. Published(edge[s]) \in Edge
  BY <1>2 DEF Published, Edge
<1>5. Routed(s, edge[s].out) \in Seq(Message)
  BY <1>3, RoutedType
<1>6. CASE Connect(s)
  BY <1>1, <1>2, <1>6 DEF Connect, Edge, wireVars
<1>7. CASE TimerFlush(s)
  BY <1>1, <1>2, <1>7 DEF TimerFlush, Edge, wireVars
<1>8. CASE PublishDone(s)
  BY <1>1, <1>3, <1>4, <1>5, <1>8 DEF PublishDone, ToBroker
<1>9. CASE PublishFails(s)
  BY <1>1, <1>3, <1>4, <1>9 DEF PublishFails
<1>10. CASE LeaveLoop(s)
  <2>1. inbox' \in Seq(Message) /\ faults' \in Nat /\ lost' \in SUBSET Nat
    BY <1>3, <1>5, <1>10, FaultType DEF LeaveLoop, ToBroker
  <2>2. [edge[s] EXCEPT !.pc = "finishing", !.timer = "done",
                        !.out = edge[s].buffer, !.buffer = {}] \in Edge
    BY <1>2 DEF Edge
  <2> QED
    BY <1>1, <1>10, <2>1, <2>2 DEF LeaveLoop
<1>11. CASE ProcessFrame(s)
  <2>1. PICK n \in 1 .. MaxDetections - made :
          /\ made' = made + n
          /\ edge' = [edge EXCEPT ![s].buffer = @ \cup (made + 1 .. made + n)]
    BY <1>11 DEF ProcessFrame
  <2>2. made' \in Nat /\ (made + 1 .. made + n) \in SUBSET Nat
    BY <2>1, DetectionsAssumption
  <2>3. [edge[s] EXCEPT !.buffer = @ \cup (made + 1 .. made + n)] \in Edge
    BY <1>2, <2>2 DEF Edge
  <2> QED
    BY <1>1, <1>11, <2>1, <2>2, <2>3 DEF ProcessFrame, wireVars
<1>12. CASE RequestStop(s)
  BY <1>1, <1>2, <1>12 DEF RequestStop, Edge, wireVars
<1>13. CASE LoseLink(s)
  BY <1>1, <1>2, <1>13, FaultType DEF LoseLink, Edge
<1>14. CASE EdgeCrash(s)
  <2>1. lost' \in SUBSET Nat
    BY <1>3, <1>14 DEF EdgeCrash
  <2> QED
    BY <1>1, <1>14, <2>1, FaultType DEF EdgeCrash, Edge, Started
<1>15. CASE EdgeStarts(s)
  BY <1>1, <1>2, <1>15, FaultType DEF EdgeStarts, Edge, Started
<1> QED
  BY <1>6, <1>7, <1>8, <1>9, <1>10, <1>11, <1>12, <1>13, <1>14, <1>15 DEF EdgeStep, EdgeWork

(* A request stays one when a step sets a field of it.                       *)
LEMMA FreeRequest == NoRequest \in Request
  BY DEF NoRequest, Request

LEMMA RequestPc ==
  \A q \in Request, pc \in {"read", "written", "answered"} : [q EXCEPT !.pc = pc] \in Request
  BY DEF Request

LEMMA RequestAwaited ==
  \A q \in Request, awaited \in BOOLEAN : [q EXCEPT !.awaited = awaited] \in Request
  BY DEF Request

LEMMA RequestAbandoned == \A q \in Request : [q EXCEPT !.awaited = FALSE] \in Request
  BY RequestAwaited, Zenon

LEMMA RequestRead ==
  ASSUME NEW q \in Request, NEW seen \in Sentinel \cup {Null}
  PROVE  [q EXCEPT !.pc = "read", !.seen = seen] \in Request
<1>1. [q EXCEPT !.pc = "read", !.seen = seen] = [[q EXCEPT !.pc = "read"] EXCEPT !.seen = seen]
  OBVIOUS
<1>2. \A p \in Request : [p EXCEPT !.seen = seen] \in Request
  BY DEF Request
<1>3. [[q EXCEPT !.pc = "read"] EXCEPT !.seen = seen] \in Request
  BY <1>2, RequestPc
<1> QED
  BY <1>1, <1>3, Zenon

LEMMA ConsumerUpdates ==
  ASSUME NEW c \in Consumer
  PROVE  /\ NextMessage(c) \in Consumer
         /\ NextMessage(c).pc = "listening" /\ NextMessage(c).payload = Null
         /\ Retried(c) \in Consumer
         /\ \/ Retried(c) = NextMessage(c)
            \/ Retried(c).pc = "sending" /\ Retried(c).payload = c.payload
<1>1. NextMessage(c) \in Consumer
  <2>1. 0 \in 0 .. MaxRetries
    BY RetriesAssumption
  <2> QED
    BY <2>1 DEF NextMessage, Consumer
<1>2. NextMessage(c).pc = "listening" /\ NextMessage(c).payload = Null
  BY DEF NextMessage, Consumer
<1>3. ASSUME c.attempt # MaxRetries
      PROVE  /\ Retried(c) \in Consumer
             /\ Retried(c).pc = "sending" /\ Retried(c).payload = c.payload
  <2>1. c.attempt + 1 \in 0 .. MaxRetries
    BY <1>3, RetriesAssumption DEF Consumer
  <2> QED
    BY <1>3, <2>1 DEF Retried, Consumer
<1> QED
  BY <1>1, <1>2, <1>3 DEF Retried

(* A step that leaves the requests alone and posts nothing.                  *)
LEMMA RequestsUntouched ==
  ASSUME RequestsOK, UNCHANGED <<request, sentinel>>,
         \/ consumer'.pc \notin {"sending", "posting"}
         \/ /\ consumer'.pc = consumer.pc
            /\ consumer'.payload = consumer.payload /\ consumer'.slot = consumer.slot
  PROVE  RequestsOK'
  BY DEF RequestsOK

(* What is queued or in hand is made of detections.                          *)
LEMMA DetectionTypes ==
  ASSUME TypeInv
  PROVE  Queued \in SUBSET Nat /\ InHand \in SUBSET Nat
<1>1. inbox \in Seq(Message) /\ consumer \in Consumer
  BY DEF TypeInv, TypeOK, WireTypeOK, ConsumerTypeOK
<1>2. \A i \in DOMAIN inbox : inbox[i].events \in SUBSET Nat
  <2>1. \A i \in DOMAIN inbox : inbox[i] \in Message
    BY <1>1
  <2> QED
    BY <2>1 DEF Message
<1>3. Queued \in SUBSET Nat
  BY <1>2 DEF Queued
<1>4. InHand \in SUBSET Nat
  BY <1>1 DEF InHand, Consumer, Payload
<1> QED
  BY <1>3, <1>4

LEMMA ConsumerTypes ==
  ASSUME TypeInv, ConsumerStep, UNCHANGED edgeVars
  PROVE  TypeInv'
<1> USE DEF TypeInv, TypeOK
<1>1. EdgeTypeOK'
  BY DEF EdgeTypeOK, edgeVars
<1>2. consumer \in Consumer /\ Fresh \in Consumer
  BY RetriesAssumption DEF ConsumerTypeOK, Fresh, Consumer
<1>3. /\ Retried(consumer) \in Consumer /\ NextMessage(consumer) \in Consumer
      /\ NextMessage(consumer).pc = "listening"
      /\ \/ Retried(consumer) = NextMessage(consumer)
         \/ Retried(consumer).pc = "sending" /\ Retried(consumer).payload = consumer.payload
  BY <1>2, ConsumerUpdates
<1>6. /\ WireTypeOK' <=> /\ inbox' \in Seq(Message) /\ online' \in BOOLEAN
                        /\ faults' \in Nat /\ lost' \in SUBSET Nat
      /\ <<>> \in Seq(Message) /\ lost \in SUBSET Nat
      /\ Queued \in SUBSET Nat /\ InHand \in SUBSET Nat
  BY DetectionTypes DEF WireTypeOK
<1>7. /\ NoRequest \in Request /\ NoRequest.payload = Null /\ NoRequest.seen = Null
      /\ NoRequest.pc = "free"
      /\ \A q \in Request : Abandoned(q) \in Request
  BY FreeRequest, RequestAbandoned DEF NoRequest, Abandoned
<1>8. CASE Subscribe
  <2>1. consumer' \in Consumer
    BY <1>2, <1>8 DEF Subscribe, Consumer
  <2>2. RequestsOK'
    BY <1>2, <1>8, RequestsUntouched DEF Subscribe, Consumer, apiVars
  <2> QED
    BY <1>1, <1>6, <1>8, <2>1, <2>2, FaultType
    DEF Subscribe, DropQueue, apiVars, ApiTypeOK, ConsumerTypeOK, WireTypeOK
<1>9. CASE LoseSubscription
  <2>1. consumer' \in Consumer
    BY <1>2, <1>9 DEF LoseSubscription, Consumer, consumerVars
  <2>2. RequestsOK'
    BY <1>2, <1>9, RequestsUntouched DEF LoseSubscription, Consumer, apiVars, consumerVars
  <2> QED
    BY <1>1, <1>6, <1>9, <2>1, <2>2, FaultType
    DEF LoseSubscription, apiVars, consumerVars, ApiTypeOK, ConsumerTypeOK, WireTypeOK
<1>10. CASE Reconnect
  <2>1. consumer' \in Consumer
    BY <1>2, <1>10 DEF Reconnect, Consumer
  <2>2. RequestsOK'
    BY <1>2, <1>10, RequestsUntouched DEF Reconnect, Consumer, apiVars, wireVars
  <2> QED
    BY <1>1, <1>6, <1>10, <2>1, <2>2, FaultType
    DEF Reconnect, apiVars, wireVars, ApiTypeOK, ConsumerTypeOK, WireTypeOK
<1>11. CASE StopListening
  <2>1. consumer' \in Consumer
    BY <1>2, <1>11 DEF StopListening, Consumer
  <2>2. RequestsOK'
    BY <1>2, <1>11, RequestsUntouched DEF StopListening, Consumer, apiVars
  <2> QED
    BY <1>1, <1>6, <1>11, <2>1, <2>2, FaultType
    DEF StopListening, DropQueue, apiVars, ApiTypeOK, ConsumerTypeOK, WireTypeOK
<1>12. CASE RequestConsumerStop
  <2>1. consumer' \in Consumer
    BY <1>2, <1>12 DEF RequestConsumerStop, Consumer
  <2>2. RequestsOK'
    BY <1>2, <1>12, RequestsUntouched DEF RequestConsumerStop, Consumer, wireVars, apiVars
  <2> QED
    BY <1>1, <1>6, <1>12, <2>1, <2>2, FaultType
    DEF RequestConsumerStop, wireVars, apiVars, ApiTypeOK, ConsumerTypeOK, WireTypeOK
<1>13. CASE Receive
  <2> DEFINE m == Head(inbox)
  <2>1. m \in Message /\ Tail(inbox) \in Seq(Message)
    BY <1>13, TailElements DEF Receive, WireTypeOK
  <2>2. PICK ended \in {clock, clock + 1} :
          /\ clock' = ended
          /\ IF Cardinality(m.events) > MaxEvents
               THEN lost' = lost \cup m.events /\ UNCHANGED consumer
               ELSE /\ consumer' = [consumer EXCEPT !.pc = "sending", !.attempt = 1,
                         !.payload = [station |-> m.station, events |-> m.events,
                                      started |-> clock, ended |-> ended]]
                    /\ UNCHANGED lost
    BY <1>13 DEF Receive
  <2>3. ended \in Nat /\ clock \in Nat
    BY <2>2 DEF ConsumerTypeOK
  <2>4. [station |-> m.station, events |-> m.events, started |-> clock, ended |-> ended]
          \in Payload
    BY <2>1, <2>3 DEF Message, Payload
  <2>5. ConsumerTypeOK'
    <3>1. 1 \in 0 .. MaxRetries
      BY RetriesAssumption
    <3>2. consumer' \in Consumer
      BY <1>2, <2>2, <2>4, <3>1 DEF Consumer
    <3> QED
      BY <1>13, <2>2, <2>3, <3>2 DEF Receive, ConsumerTypeOK
  <2>6. RequestsOK'
    BY <1>13, <1>2, <2>2, <2>4, NullAssumption DEF Receive, RequestsOK, apiVars, Consumer
  <2>7. ApiTypeOK' /\ WireTypeOK'
    <3>1. m.events \in SUBSET Nat
      BY <2>1 DEF Message
    <3>2. lost' \in SUBSET Nat
      BY <1>6, <2>2, <3>1
    <3> QED
      BY <1>13, <2>1, <3>2 DEF Receive, ApiTypeOK, WireTypeOK, apiVars
  <2> QED
    BY <1>1, <2>5, <2>6, <2>7
<1>14. CASE Post
  <2>1. PICK r \in FreeSlot :
          /\ request' = [request EXCEPT ![r] = [NoRequest EXCEPT !.pc = "arrived",
                            !.payload = consumer.payload, !.awaited = TRUE]]
          /\ consumer' = [consumer EXCEPT !.pc = "posting", !.slot = r]
    BY <1>14 DEF Post
  <2>2. r \in Slot /\ request[r].pc = "free"
    BY DEF FreeSlot
  <2>3. [NoRequest EXCEPT !.pc = "arrived", !.payload = consumer.payload,
                          !.awaited = TRUE] \in Request
    <3>1. consumer.payload \in Payload \cup {Null}
      BY <1>2 DEF Consumer
    <3> QED
      BY <3>1 DEF NoRequest, Request
  <2>4. consumer' \in Consumer
    BY <1>2, <2>1, <2>2 DEF Consumer
  <2>5. request' \in [Slot -> Request]
    BY <2>1, <2>3 DEF ApiTypeOK
  <2>6. RequestsOK'
    BY <1>2, <1>14, <2>1, <2>2 DEF Post, RequestsOK, ApiTypeOK, NoRequest, Consumer
  <2> QED
    BY <1>1, <1>14, <2>4, <2>5, <2>6 DEF Post, ApiTypeOK, WireTypeOK, wireVars, ConsumerTypeOK
<1>15. CASE HandleResponse
  <2>1. consumer.slot \in Slot
    BY <1>15 DEF HandleResponse, RequestsOK
  <2>2. /\ consumer' \in Consumer
        /\ consumer'.pc = "sending" => consumer'.payload = consumer.payload
        /\ consumer'.pc \in {"listening", "sending"}
    BY <1>3, <1>15 DEF HandleResponse
  <2>3. request' = [request EXCEPT ![consumer.slot] = NoRequest]
    BY <1>15 DEF HandleResponse
  <2>4. RequestsOK'
    BY <1>7, <1>15, <2>1, <2>2, <2>3 DEF HandleResponse, RequestsOK, ApiTypeOK
  <2>5. request' \in [Slot -> Request]
    BY <1>7, <2>1, <2>3 DEF ApiTypeOK
  <2>6. doubted' \in SUBSET Nat /\ lost' \in SUBSET Nat
    BY <1>6, <1>15 DEF HandleResponse, ConsumerTypeOK
  <2>7. ApiTypeOK' /\ WireTypeOK' /\ ConsumerTypeOK'
    BY <1>15, <2>2, <2>5, <2>6 DEF HandleResponse, ApiTypeOK, WireTypeOK, ConsumerTypeOK
  <2> QED
    BY <1>1, <2>4, <2>7
<1>16. CASE PostTimesOut
  <2>1. consumer.slot \in Slot
    BY <1>16 DEF PostTimesOut, RequestsOK
  <2>2. /\ consumer' \in Consumer
        /\ consumer'.pc = "sending" => consumer'.payload = consumer.payload
        /\ consumer'.pc \in {"listening", "sending"}
    BY <1>3, <1>16 DEF PostTimesOut
  <2>3. request' = [request EXCEPT ![consumer.slot] = Abandoned(@)]
    BY <1>16 DEF PostTimesOut
  <2>4. RequestsOK'
    BY <1>7, <1>16, <2>1, <2>2, <2>3 DEF PostTimesOut, RequestsOK, ApiTypeOK, Abandoned, Request
  <2>5. request' \in [Slot -> Request]
    BY <1>7, <2>1, <2>3 DEF ApiTypeOK
  <2>6. doubted' \in SUBSET Nat /\ lost' \in SUBSET Nat
    BY <1>6, <1>16 DEF PostTimesOut, ConsumerTypeOK
  <2>7. ApiTypeOK' /\ WireTypeOK' /\ ConsumerTypeOK'
    BY <1>16, <2>2, <2>5, <2>6 DEF PostTimesOut, ApiTypeOK, WireTypeOK, ConsumerTypeOK
  <2> QED
    BY <1>1, <2>4, <2>7
<1>17. CASE ConsumerCrash
  <2>1. consumer.pc = "posting" => consumer.slot \in Slot
    BY <1>17 DEF RequestsOK
  <2>2. request' = IF consumer.pc = "posting"
                   THEN [request EXCEPT ![consumer.slot] = Abandoned(@)] ELSE request
    BY <1>17 DEF ConsumerCrash
  <2>3. RequestsOK'
    BY <1>2, <1>7, <1>17, <2>1, <2>2
    DEF ConsumerCrash, RequestsOK, ApiTypeOK, Abandoned, Fresh, Request
  <2>4. request' \in [Slot -> Request]
    BY <1>7, <2>1, <2>2 DEF ApiTypeOK
  <2>5. doubted' \in SUBSET Nat
    BY <1>6, <1>17 DEF ConsumerCrash, ConsumerTypeOK
  <2>6. ApiTypeOK' /\ WireTypeOK' /\ ConsumerTypeOK'
    BY <1>2, <1>6, <1>17, <2>4, <2>5, FaultType
    DEF ConsumerCrash, ApiTypeOK, WireTypeOK, ConsumerTypeOK
  <2> QED
    BY <1>1, <2>3, <2>6
<1>18. CASE ConsumerStarts
  <2>1. RequestsOK'
    BY <1>18, RequestsUntouched DEF ConsumerStarts, Fresh, apiVars
  <2> QED
    BY <1>1, <1>2, <1>18, <2>1
    DEF ConsumerStarts, wireVars, apiVars, ApiTypeOK, ConsumerTypeOK, WireTypeOK
<1> QED
  BY <1>8, <1>9, <1>10, <1>11, <1>12, <1>13, <1>14, <1>15, <1>16, <1>17, <1>18
  DEF ConsumerStep, ConsumerWork

(* The answer to a request, and what a commit makes of the sentinel.         *)
LEMMA AnsweredType ==
  ASSUME NEW q \in Request, NEW code \in {0, 201, 404, 422, 500}
  PROVE  /\ Answered(q, code) \in Request
         /\ Answered(q, code).awaited = q.awaited
         /\ Answered(q, code).payload = Null /\ Answered(q, code).seen = Null
         /\ Answered(q, code).pc \in {"free", "answered"}
<1>1. Answered(q, code) \in Request
  <2>1. CASE q.awaited
    <3>1. Answered(q, code) =
            [NoRequest EXCEPT !.pc = "answered", !.awaited = TRUE, !.code = code]
      BY <2>1, Zenon DEF Answered
    <3>2. [NoRequest EXCEPT !.pc = "answered", !.awaited = TRUE, !.code = code] \in Request
      <4>1. [NoRequest EXCEPT !.pc = "answered", !.awaited = TRUE, !.code = code]
              = [[[NoRequest EXCEPT !.pc = "answered"] EXCEPT !.awaited = TRUE] EXCEPT !.code = code]
        OBVIOUS
      <4>2. \A p \in Request : [p EXCEPT !.code = code] \in Request
        BY DEF Request
      <4>3. [NoRequest EXCEPT !.pc = "answered"] \in Request
        BY FreeRequest, RequestPc
      <4>4. [[NoRequest EXCEPT !.pc = "answered"] EXCEPT !.awaited = TRUE] \in Request
        BY <4>3, RequestAwaited, Zenon
      <4>5. [[[NoRequest EXCEPT !.pc = "answered"] EXCEPT !.awaited = TRUE] EXCEPT !.code = code] \in Request
        BY <4>2, <4>4, Zenon
      <4> QED
        BY <4>1, <4>5, Zenon
    <3> QED
      BY <3>1, <3>2, Zenon
  <2>2. CASE ~q.awaited
    BY <2>2, FreeRequest, Zenon DEF Answered
  <2> QED
    BY <2>1, <2>2, Zenon
<1>2. /\ Answered(q, code).payload = Null /\ Answered(q, code).seen = Null
      /\ Answered(q, code).pc \in {"free", "answered"}
  BY DEF Answered, NoRequest
<1>3. Answered(q, code).awaited = q.awaited
  <2>1. CASE q.awaited = TRUE
    BY <2>1, Zenon DEF Answered, NoRequest
  <2>2. CASE q.awaited = FALSE
    BY <2>2, Zenon DEF Answered, NoRequest
  <2> QED
    BY <2>1, <2>2 DEF Request
<1> QED
  BY <1>1, <1>2, <1>3, Zenon

LEMMA CommittedType ==
  ASSUME NEW q \in Request, q.payload \in Payload, NEW row \in Sentinel \cup {Null},
         q.seen # Null => row # Null
  PROVE  Committed(q, row) \in Sentinel
<1>1. CASE q.seen = Null
  BY <1>1 DEF Committed, Payload, Sentinel
<1>2. CASE q.seen # Null
  <2>1. q.seen \in Sentinel /\ row \in Sentinel
    BY <1>2 DEF Request
  <2>2. Widened(q.seen, q.payload) \in Sentinel
    BY <2>1 DEF Widened, Sentinel, Payload, Smaller, Larger
  <2>3. \A x, y \in Nat : [row EXCEPT !.started = x, !.ended = y] \in Sentinel
    BY <2>1 DEF Sentinel
  <2>4. /\ Widened(q.seen, q.payload).started \in Nat /\ Widened(q.seen, q.payload).ended \in Nat
        /\ row.started \in Nat /\ row.ended \in Nat
    BY <2>1, <2>2 DEF Sentinel
  <2> QED
    BY <1>2, <2>1, <2>3, <2>4 DEF Committed
<1> QED
  BY <1>1, <1>2

LEMMA ApiTypes ==
  ASSUME TypeInv, ApiStep, UNCHANGED <<edgeVars, consumerVars>>
  PROVE  TypeInv'
<1> USE DEF TypeInv, TypeOK
<1>1. EdgeTypeOK' /\ ConsumerTypeOK'
  BY DEF EdgeTypeOK, ConsumerTypeOK, edgeVars, consumerVars
<1>2. ASSUME NEW r \in Slot, NEW code \in {0, 201, 404, 422, 500}, Answer(r, code),
             \A s : sentinel[s] # Null => sentinel'[s] # Null
      PROVE  request' \in [Slot -> Request] /\ RequestsOK'
  <2>1. request[r] \in Request
    BY DEF ApiTypeOK
  <2>2. request' = [request EXCEPT ![r] = Answered(request[r], code)]
    BY <1>2 DEF Answer
  <2>3. request' \in [Slot -> Request]
    BY <2>1, <2>2, AnsweredType DEF ApiTypeOK
  <2>4. RequestsOK'
    BY <1>2, <2>1, <2>2, AnsweredType DEF RequestsOK, ApiTypeOK, consumerVars
  <2> QED
    BY <2>3, <2>4
<1>3. ASSUME NEW r \in Slot, request[r].pc \in {"arrived", "read", "written"}
      PROVE  /\ request[r] \in Request /\ request[r].payload # Null
             /\ request[r].payload \in Payload /\ request[r].payload.station \in Station
  <2>1. request[r].payload # Null /\ request[r] \in Request
    BY <1>3 DEF RequestsOK, ApiTypeOK
  <2>2. request[r].payload \in Payload
    BY <2>1 DEF Request
  <2> QED
    BY <2>1, <2>2 DEF Payload
<1>4. ASSUME NEW r \in Slot, ReadSentinel(r) PROVE TypeInv'
  <2> DEFINE p == request[r].payload
  <2>1. p \in Payload /\ p.station \in Station /\ request[r] \in Request /\ p # Null
    BY <1>3, <1>4 DEF ReadSentinel
  <2>2. CASE request' = [request EXCEPT ![r].pc = "read", ![r].seen = sentinel[p.station]]
    <3>1. sentinel[p.station] \in Sentinel \cup {Null}
      BY <2>1 DEF ApiTypeOK
    <3>2. [request[r] EXCEPT !.pc = "read", !.seen = sentinel[p.station]] \in Request
      BY <2>1, <3>1, RequestRead
    <3>3. request' \in [Slot -> Request]
      BY <2>2, <3>2 DEF ApiTypeOK
    <3>4. RequestsOK'
      BY <1>4, <2>1, <2>2 DEF ReadSentinel, RequestsOK, ApiTypeOK, consumerVars, Request
    <3> QED
      BY <1>1, <1>4, <3>3, <3>4 DEF ReadSentinel, wireVars, WireTypeOK, ApiTypeOK
  <2>3. CASE Answer(r, 404) \/ Answer(r, 422)
    BY <1>1, <1>2, <1>4, <2>3 DEF ReadSentinel, wireVars, WireTypeOK, ApiTypeOK
  <2> QED
    BY <1>4, <2>2, <2>3 DEF ReadSentinel
<1>5. ASSUME NEW r \in Slot, WriteBatch(r) PROVE TypeInv'
  <2>1. request[r] \in Request
    BY DEF ApiTypeOK
  <2>2. CASE request' = [request EXCEPT ![r].pc = "written"]
    <3>1. [request[r] EXCEPT !.pc = "written"] \in Request
      BY <2>1 DEF Request
    <3>2. request' \in [Slot -> Request]
      BY <2>2, <3>1 DEF ApiTypeOK
    <3>3. \A o \in Slot :
            /\ request'[o].payload = request[o].payload /\ request'[o].seen = request[o].seen
            /\ request'[o].awaited = request[o].awaited
            /\ request'[o].pc = IF o = r THEN "written" ELSE request[o].pc
      BY <2>2 DEF ApiTypeOK, Request
    <3>4. RequestsOK'
      BY <1>5, <3>3 DEF WriteBatch, RequestsOK, consumerVars
    <3> QED
      BY <1>1, <1>5, <3>2, <3>4 DEF WriteBatch, wireVars, WireTypeOK, ApiTypeOK
  <2>3. CASE Answer(r, 500)
    BY <1>1, <1>2, <1>5, <2>3 DEF WriteBatch, wireVars, WireTypeOK, ApiTypeOK
  <2> QED
    BY <1>5, <2>2, <2>3 DEF WriteBatch
<1>6. ASSUME NEW r \in Slot, CommitBatch(r) PROVE TypeInv'
  <2> DEFINE p == request[r].payload
             b == [station |-> p.station, events |-> p.events, at |-> p.ended]
             row == Committed(request[r], sentinel[p.station])
  <2>1. p \in Payload /\ p.station \in Station /\ request[r] \in Request
    BY <1>3, <1>6 DEF CommitBatch
  <2>2. row \in Sentinel
    <3>1. request[r].seen # Null => sentinel[p.station] # Null
      BY DEF RequestsOK
    <3>2. sentinel[p.station] \in Sentinel \cup {Null}
      BY <2>1 DEF ApiTypeOK
    <3> QED
      BY <2>1, <3>1, <3>2, CommittedType
  <2>3. sentinel' = [sentinel EXCEPT ![p.station] = row]
    BY <1>6 DEF CommitBatch
  <2>4. sentinel' \in [Station -> Sentinel \cup {Null}]
    BY <2>1, <2>2, <2>3 DEF ApiTypeOK
  <2>5. \A s : sentinel[s] # Null => sentinel'[s] # Null
    BY <2>1, <2>2, <2>3, NullAssumption DEF ApiTypeOK
  <2>6. stored' \in Seq(Batch)
    <3>1. b \in Batch
      BY <2>1 DEF Payload, Batch
    <3> QED
      BY <1>6, <3>1, AppendElements DEF CommitBatch, ApiTypeOK
  <2>7. request' \in [Slot -> Request] /\ RequestsOK'
    BY <1>2, <1>6, <2>5 DEF CommitBatch
  <2> QED
    BY <1>1, <1>6, <2>4, <2>6, <2>7 DEF CommitBatch, wireVars, WireTypeOK, ApiTypeOK
<1>7. ASSUME NEW r \in Slot, RequestFails(r) PROVE TypeInv'
  BY <1>1, <1>2, <1>7, FaultType DEF RequestFails, WireTypeOK, ApiTypeOK
<1>8. CASE ApiCrash
  <2>1. \A r \in Slot : request'[r] = request[r] \/ request'[r] = Answered(request[r], 0)
    BY <1>8 DEF ApiCrash
  <2>2. \A r \in Slot : request[r] \in Request /\ Answered(request[r], 0) \in Request
    BY AnsweredType DEF ApiTypeOK
  <2>3. request' \in [Slot -> Request]
    BY <1>8, <2>2 DEF ApiCrash
  <2>4. RequestsOK'
    BY <1>8, <2>1, <2>2, AnsweredType DEF ApiCrash, RequestsOK, consumerVars
  <2> QED
    BY <1>1, <1>8, <2>3, <2>4, FaultType DEF ApiCrash, WireTypeOK, ApiTypeOK
<1>9. ASSUME NEW s \in Station, RegisterStation(s) PROVE TypeInv'
  BY <1>1, <1>9 DEF RegisterStation, wireVars, WireTypeOK, ApiTypeOK, RequestsOK, consumerVars
<1> QED
  BY <1>4, <1>5, <1>6, <1>7, <1>8, <1>9 DEF ApiStep, RequestWork

(* Every variable keeps its shape, whatever is lost, crashes or overlaps.    *)
LEMMA NextTypeInv == TypeInv /\ [Next]_vars => TypeInv'
<1> SUFFICES ASSUME TypeInv, [Next]_vars PROVE TypeInv'
  OBVIOUS
<1>1. CASE UNCHANGED vars
  BY <1>1 DEF vars, edgeVars, wireVars, apiVars, consumerVars, TypeInv, TypeOK, EdgeTypeOK,
      WireTypeOK, ApiTypeOK, ConsumerTypeOK, RequestsOK
<1> QED
  BY <1>1, EdgeTypes, ConsumerTypes, ApiTypes DEF Next, Idle

THEOREM TypeCorrect == Spec => []TypeOK
<1>1. TypeInv => TypeOK
  BY DEF TypeInv
<1> QED
  BY <1>1, InitTypeInv, NextTypeInv, PTL DEF Spec

-----------------------------------------------------------------------------
(* Where the detections of a step go.  An edge moves its buffer towards the  *)
(* broker or loses it, and only what is published reaches the queue.         *)
Held(s) == edge[s].buffer \cup edge[s].out

LEMMA EdgeMoves ==
  ASSUME TypeInv, NEW s \in Station, EdgeStep(s), ~ProcessFrame(s)
  PROVE  /\ made' = made
         /\ \A t \in Station : t # s => edge'[t] = edge[t]
         /\ \/ edge'[s].buffer = edge[s].buffer /\ edge'[s].out = edge[s].out /\ inbox' = inbox
            \/ edge'[s].buffer = {} /\ edge'[s].out = {} /\ inbox' = inbox
            \/ /\ \/ edge'[s].buffer = edge[s].buffer /\ edge'[s].out = {}
                  \/ edge'[s].buffer = {} /\ edge'[s].out = edge[s].buffer
               /\ inbox' = inbox \/ inbox' = Routed(s, edge[s].out)
<1> USE DEF TypeInv, TypeOK, EdgeTypeOK
<1>1. edge[s] \in Edge /\ edge \in [Station -> Edge]
  OBVIOUS
<1>2. Published(edge[s]).buffer = edge[s].buffer /\ Published(edge[s]).out = {}
  BY <1>1 DEF Published, Edge
<1>3. CASE Connect(s)
  BY <1>1, <1>3 DEF Connect, Edge, wireVars
<1>4. CASE TimerFlush(s)
  BY <1>1, <1>4 DEF TimerFlush, Edge, wireVars
<1>5. CASE PublishDone(s)
  BY <1>1, <1>2, <1>5 DEF PublishDone, ToBroker
<1>6. CASE PublishFails(s)
  BY <1>1, <1>2, <1>6 DEF PublishFails
<1>7. CASE LeaveLoop(s)
  BY <1>1, <1>7 DEF LeaveLoop, ToBroker, Edge
<1>8. CASE RequestStop(s)
  BY <1>1, <1>8 DEF RequestStop, Edge, wireVars
<1>9. CASE LoseLink(s)
  BY <1>1, <1>9 DEF LoseLink, Edge
<1>10. CASE EdgeCrash(s)
  BY <1>1, <1>10 DEF EdgeCrash, Edge, Started
<1>11. CASE EdgeStarts(s)
  BY <1>1, <1>11 DEF EdgeStarts, Edge, Started
<1> QED
  BY <1>3, <1>4, <1>5, <1>6, <1>7, <1>8, <1>9, <1>10, <1>11 DEF EdgeStep, EdgeWork

LEMMA FrameMoves ==
  ASSUME TypeInv, NEW s \in Station, ProcessFrame(s)
  PROVE  \E n \in 1 .. MaxDetections - made :
           /\ made' = made + n /\ inbox' = inbox
           /\ \A t \in Station : t # s => edge'[t] = edge[t]
           /\ edge'[s].out = edge[s].out
           /\ edge'[s].buffer = edge[s].buffer \cup (made + 1 .. made + n)
<1>1. PICK n \in 1 .. MaxDetections - made :
        /\ made' = made + n
        /\ edge' = [edge EXCEPT ![s].buffer = @ \cup (made + 1 .. made + n)]
  BY DEF ProcessFrame
<1>2. edge[s] \in Edge /\ edge \in [Station -> Edge]
  BY DEF TypeInv, TypeOK, EdgeTypeOK
<1> QED
  BY <1>1, <1>2 DEF ProcessFrame, Edge, wireVars

-----------------------------------------------------------------------------
(* The invariant.  What is still on its way is in one place only, and none   *)
(* of it has been sent to the API; every detection is a number up to `made'. *)
Past == InTable \cup doubted \cup InHand

Apart ==
  /\ \A s, t \in Station : s # t => Held(s) \cap Held(t) = {}
  /\ \A s \in Station : edge[s].buffer \cap edge[s].out = {}
  /\ \A i, j \in DOMAIN inbox : i # j => inbox[i].events \cap inbox[j].events = {}
  /\ \A s \in Station, i \in DOMAIN inbox : Held(s) \cap inbox[i].events = {}
  /\ \A s \in Station : Held(s) \cap Past = {}
  /\ \A i \in DOMAIN inbox : inbox[i].events \cap Past = {}

Numbered ==
  /\ made <= MaxDetections
  /\ \A s \in Station : Held(s) \subseteq 1 .. made
  /\ \A i \in DOMAIN inbox : inbox[i].events \subseteq 1 .. made
  /\ Past \subseteq 1 .. made

(* A request nobody waits for has doubted detections only.                   *)
Accounted ==
  \A r \in Slot : request[r].payload # Null =>
    \/ request[r].payload.events \subseteq doubted
    \/ /\ consumer.pc = "posting" /\ consumer.slot = r
       /\ request[r].payload = consumer.payload

(* What the consumer has in hand was not stored by anybody it has heard of.  *)
Confirmed ==
  /\ consumer.pc = "posting"
  /\ request[consumer.slot].pc = "answered" /\ request[consumer.slot].code = 201

NotYetStored == Confirmed \/ InHand \cap InTable \subseteq doubted

FlowInv == TypeInv /\ Apart /\ Numbered /\ Accounted /\ NotYetStored

LEMMA InitFlow == Init => FlowInv
<1> SUFFICES ASSUME Init PROVE FlowInv
  OBVIOUS
<1>1. TypeInv
  BY InitTypeInv
<1>2. Past = {} /\ (\A s \in Station : edge[s].buffer = {} /\ edge[s].out = {}) /\ inbox = <<>>
  BY DEF Init, EdgeInit, WireInit, ApiInit, ConsumerInit, Past, InTable, InHand, Fresh, Started
<1>3. Apart /\ Numbered
  BY <1>2, DetectionsAssumption DEF Apart, Numbered, Held, Init, EdgeInit
<1>4. Accounted
  BY DEF Init, ApiInit, Accounted, NoRequest
<1>5. NotYetStored
  BY <1>2 DEF NotYetStored, Past
<1> QED
  BY <1>1, <1>3, <1>4, <1>5 DEF FlowInv

(* The parts of the invariant about what is still on its way, when only an   *)
(* edge moves.                                                               *)
LEMMA EdgeFlow ==
  ASSUME FlowInv, NEW s \in Station, EdgeStep(s), UNCHANGED <<apiVars, consumerVars>>
  PROVE  FlowInv'
<1> USE DEF FlowInv
<1>0. TypeInv'
  BY EdgeTypes
<1>1. Past' = Past
  BY DEF Past, InTable, InHand, apiVars, consumerVars
<1>2. Accounted' /\ NotYetStored'
  BY DEF Accounted, NotYetStored, Confirmed, InTable, InHand, apiVars, consumerVars
<1>3. made \in Nat /\ DetectionsAssumption
  BY DetectionsAssumption DEF TypeInv, TypeOK, EdgeTypeOK
<1>4. ASSUME inbox' = inbox, made' = made,
             \A t \in Station : t # s => edge'[t] = edge[t],
             Held(s)' \subseteq Held(s), edge'[s].buffer \cap edge'[s].out = {}
      PROVE  Apart' /\ Numbered'
  <2>1. \A t \in Station : Held(t)' \subseteq Held(t)
    BY <1>4 DEF Held
  <2>2. \A t \in Station : (edge[t].buffer \cap edge[t].out = {})'
    BY <1>4 DEF Apart
  <2>3. Apart'
    BY <1>1, <1>4, <2>1, <2>2 DEF Apart
  <2>4. Numbered'
    BY <1>1, <1>4, <2>1 DEF Numbered
  <2> QED
    BY <2>3, <2>4
<1>5. CASE ProcessFrame(s)
  <2>1. PICK n \in 1 .. MaxDetections - made :
          /\ made' = made + n /\ inbox' = inbox
          /\ \A t \in Station : t # s => edge'[t] = edge[t]
          /\ edge'[s].out = edge[s].out
          /\ edge'[s].buffer = edge[s].buffer \cup (made + 1 .. made + n)
    BY <1>5, FrameMoves
  <2> DEFINE new == made + 1 .. made + n
  <2>2. /\ \A t \in Station : t # s => Held(t)' = Held(t)
        /\ Held(s)' = Held(s) \cup new
    BY <2>1 DEF Held
  <2>3. new \cap (1 .. made) = {} /\ 1 .. made \subseteq 1 .. made + n
        /\ new \subseteq 1 .. made + n /\ made + n <= MaxDetections
    BY <1>3, <2>1 DEF DetectionsAssumption
  <2> HIDE DEF new
  <2>4. Apart'
    <3>1. (\A t, u \in Station : t # u => Held(t) \cap Held(u) = {})'
      BY <2>2, <2>3 DEF Apart, Numbered
    <3>2. (\A t \in Station : edge[t].buffer \cap edge[t].out = {})'
      <4>1. edge[s].out \subseteq 1 .. made /\ edge[s].buffer \cap edge[s].out = {}
        BY DEF Numbered, Held, Apart
      <4>2. edge'[s].buffer = edge[s].buffer \cup new
        BY <2>1 DEF new
      <4> QED
        BY <2>1, <2>3, <4>1, <4>2 DEF Apart
    <3>3. (\A i, j \in DOMAIN inbox : i # j => inbox[i].events \cap inbox[j].events = {})'
      BY <2>1 DEF Apart
    <3>4. (\A t \in Station, i \in DOMAIN inbox : Held(t) \cap inbox[i].events = {})'
      BY <2>1, <2>2, <2>3 DEF Apart, Numbered
    <3>5. (\A t \in Station : Held(t) \cap Past = {})'
      BY <1>1, <2>2, <2>3 DEF Apart, Numbered
    <3>6. (\A i \in DOMAIN inbox : inbox[i].events \cap Past = {})'
      BY <1>1, <2>1 DEF Apart
    <3> QED
      BY <3>1, <3>2, <3>3, <3>4, <3>5, <3>6 DEF Apart
  <2>5. Numbered'
    BY <1>1, <2>1, <2>2, <2>3 DEF Numbered
  <2> QED
    BY <1>0, <1>2, <2>4, <2>5
<1>6. CASE ~ProcessFrame(s) /\ inbox' = inbox
  <2>1. Held(s)' \subseteq Held(s) /\ edge'[s].buffer \cap edge'[s].out = {}
    BY <1>6, EdgeMoves DEF Held, Apart
  <2> QED
    BY <1>0, <1>2, <1>4, <1>6, <2>1, EdgeMoves
<1>7. CASE ~ProcessFrame(s) /\ inbox' # inbox
  <2> DEFINE m == [station |-> s, events |-> edge[s].out]
  <2>1. /\ made' = made
        /\ \A t \in Station : t # s => edge'[t] = edge[t]
        /\ \/ edge'[s].buffer = edge[s].buffer /\ edge'[s].out = {}
           \/ edge'[s].buffer = {} /\ edge'[s].out = edge[s].buffer
        /\ inbox' = Append(inbox, m)
    BY <1>7, EdgeMoves DEF Routed
  <2>2. /\ \A t \in Station : t # s => Held(t)' = Held(t)
        /\ Held(s)' = edge[s].buffer
        /\ edge'[s].buffer \cap edge'[s].out = {}
    BY <2>1 DEF Held
  <2>3. /\ inbox \in Seq(Message) /\ m \in Message
        /\ m.events = edge[s].out
    <3>1. edge[s].out \in SUBSET Nat
      BY DEF TypeInv, TypeOK, EdgeTypeOK, Edge
    <3> QED
      BY <3>1 DEF TypeInv, TypeOK, WireTypeOK, Message
  <2>4. \A i \in DOMAIN inbox' :
          \/ i \in DOMAIN inbox /\ inbox'[i] = inbox[i] /\ i # Len(inbox) + 1
          \/ i = Len(inbox) + 1 /\ inbox'[i] = m
    BY <2>1, <2>3, AppendElements
  <2>5. \A i \in DOMAIN inbox' :
          \/ i \in DOMAIN inbox /\ inbox'[i].events = inbox[i].events /\ i # Len(inbox) + 1
          \/ i = Len(inbox) + 1 /\ inbox'[i].events = edge[s].out
    BY <2>3, <2>4
  <2>6. /\ edge[s].out \subseteq Held(s) /\ edge[s].buffer \subseteq Held(s)
        /\ edge[s].buffer \cap edge[s].out = {}
    BY DEF Held, Apart
  <2>7. Apart'
    <3>1. (\A t, u \in Station : t # u => Held(t) \cap Held(u) = {})'
      BY <2>2, <2>6 DEF Apart
    <3>2. (\A t \in Station : edge[t].buffer \cap edge[t].out = {})'
      BY <2>1, <2>2 DEF Apart
    <3>3. (\A i, j \in DOMAIN inbox : i # j => inbox[i].events \cap inbox[j].events = {})'
      BY <2>5, <2>6 DEF Apart
    <3>4. (\A t \in Station, i \in DOMAIN inbox : Held(t) \cap inbox[i].events = {})'
      BY <2>2, <2>5, <2>6 DEF Apart
    <3>5. (\A t \in Station : Held(t) \cap Past = {})'
      BY <1>1, <2>2, <2>6 DEF Apart
    <3>6. (\A i \in DOMAIN inbox : inbox[i].events \cap Past = {})'
      BY <1>1, <2>5, <2>6 DEF Apart
    <3> QED
      BY <3>1, <3>2, <3>3, <3>4, <3>5, <3>6 DEF Apart
  <2>8. Numbered'
    BY <1>1, <2>1, <2>2, <2>5, <2>6 DEF Numbered
  <2> QED
    BY <1>0, <1>2, <2>7, <2>8
<1> QED
  BY <1>5, <1>6, <1>7

(* A commit adds what the request carries to the table.                      *)
LEMMA CommitMoves ==
  ASSUME TypeInv, NEW r \in Slot, CommitBatch(r)
  PROVE  /\ request[r].payload # Null
         /\ InTable' = InTable \cup request[r].payload.events
  <1> DEFINE p == request[r].payload
             b == [station |-> p.station, events |-> p.events, at |-> p.ended]
  <1>1. p # Null /\ p \in Payload /\ stored \in Seq(Batch)
    BY DEF CommitBatch, TypeInv, TypeOK, ApiTypeOK, RequestsOK, Request
  <1>2. b \in Batch /\ b.events = p.events
    BY <1>1 DEF Payload, Batch
  <1>3. CASE p.events = {}
    BY <1>1, <1>3 DEF CommitBatch, InTable
  <1>4. CASE p.events # {}
    <2>1. stored' = Append(stored, b)
      BY <1>4 DEF CommitBatch
    <2>2. /\ DOMAIN stored' = DOMAIN stored \cup {Len(stored) + 1}
          /\ \A i \in DOMAIN stored : stored'[i] = stored[i] /\ i # Len(stored) + 1
          /\ stored'[Len(stored) + 1] = b
      BY <1>1, <1>2, <2>1, AppendElements
    <2>3. \A d : d \in InTable' <=> \E i \in DOMAIN stored' : d \in stored'[i].events
      BY DEF InTable
    <2>4. \A d : d \in InTable <=> \E i \in DOMAIN stored : d \in stored[i].events
      BY DEF InTable
    <2> QED
      BY <1>1, <1>2, <2>2, <2>3, <2>4
  <1> QED
    BY <1>1, <1>3, <1>4

(* What the steps of a request leave of it.                                  *)
LEMMA AnswerMoves ==
  ASSUME TypeInv, NEW r \in Slot, NEW code \in {0, 201, 404, 422, 500}, Answer(r, code)
  PROVE  /\ \A o \in Slot : o # r => request'[o] = request[o]
         /\ request'[r].payload = Null
         /\ request[r].awaited => request'[r].pc = "answered" /\ request'[r].code = code
<1>1. request[r] \in Request /\ request \in [Slot -> Request]
  BY DEF TypeInv, TypeOK, ApiTypeOK
<1>2. request' = [request EXCEPT ![r] = Answered(request[r], code)]
  BY DEF Answer
<1>3. Answered(request[r], code).payload = Null
  BY <1>1, AnsweredType
<1>4. request[r].awaited =>
        Answered(request[r], code).pc = "answered" /\ Answered(request[r], code).code = code
  BY DEF Answered, NoRequest
<1> QED
  BY <1>1, <1>2, <1>3, <1>4

LEMMA ApiMoves ==
  ASSUME FlowInv, ApiStep
  PROVE  /\ inbox' = inbox
         /\ \A r \in Slot : request'[r].payload \in {request[r].payload, Null}
         /\ \/ stored' = stored
               /\ \A r \in Slot : r = consumer.slot /\ Confirmed => request'[r] = request[r]
            \/ \E r \in Slot : CommitBatch(r)
<1> USE DEF FlowInv
<1>1. request \in [Slot -> Request]
  BY DEF TypeInv, TypeOK, ApiTypeOK
<1>2. ASSUME NEW r \in Slot, RequestWork(r) \/ RequestFails(r)
      PROVE  /\ inbox' = inbox
             /\ request'[r].payload \in {request[r].payload, Null}
             /\ \A o \in Slot : o # r => request'[o] = request[o]
             /\ request[r].pc # "answered"
             /\ stored' = stored \/ CommitBatch(r)
  <2>0. ASSUME NEW code \in {0, 201, 404, 422, 500}, Answer(r, code)
        PROVE  request'[r].payload = Null /\ \A o \in Slot : o # r => request'[o] = request[o]
    BY <2>0, AnswerMoves
  <2>1. CASE ReadSentinel(r)
    <3>1. CASE Answer(r, 404) \/ Answer(r, 422)
      BY <2>0, <2>1, <3>1 DEF ReadSentinel, wireVars
    <3>2. CASE request' = [request EXCEPT ![r].pc = "read",
                              ![r].seen = sentinel[request[r].payload.station]]
      BY <1>1, <2>1, <3>2 DEF ReadSentinel, wireVars, Request
    <3> QED
      BY <2>1, <3>1, <3>2 DEF ReadSentinel
  <2>2. CASE WriteBatch(r)
    <3>1. CASE Answer(r, 500)
      BY <2>0, <2>2, <3>1 DEF WriteBatch, wireVars
    <3>2. CASE request' = [request EXCEPT ![r].pc = "written"]
      BY <1>1, <2>2, <3>2 DEF WriteBatch, wireVars, Request
    <3> QED
      BY <2>2, <3>1, <3>2 DEF WriteBatch
  <2>3. CASE CommitBatch(r)
    BY <1>1, <2>3, AnswerMoves DEF CommitBatch, wireVars
  <2>4. CASE RequestFails(r)
    BY <1>1, <2>4, AnswerMoves DEF RequestFails
  <2> QED
    BY <1>2, <2>1, <2>2, <2>3, <2>4 DEF RequestWork
<1>3. CASE ApiCrash
  <2>1. \A r \in Slot : request'[r].payload = Null \/ request'[r] = request[r]
    BY <1>1, <1>3, AnsweredType DEF ApiCrash
  <2>2. \A r \in Slot : request[r].pc = "answered" => request'[r] = request[r]
    BY <1>3 DEF ApiCrash
  <2> QED
    BY <1>3, <2>1, <2>2 DEF ApiCrash, Confirmed
<1>4. ASSUME NEW s \in Station, RegisterStation(s)
      PROVE  inbox' = inbox /\ stored' = stored /\ request' = request
  BY <1>4 DEF RegisterStation, wireVars
<1> QED
  BY <1>2, <1>3, <1>4 DEF ApiStep, Confirmed

LEMMA ApiFlow ==
  ASSUME FlowInv, ApiStep, UNCHANGED <<edgeVars, consumerVars>>
  PROVE  FlowInv'
<1> USE DEF FlowInv
<1>1. TypeInv'
  BY ApiTypes
<1>2. /\ edge' = edge /\ made' = made /\ inbox' = inbox
      /\ consumer' = consumer /\ doubted' = doubted /\ InHand' = InHand
  BY ApiMoves DEF edgeVars, consumerVars, InHand
<1>3. Accounted'
  BY <1>2, ApiMoves DEF Accounted
<1>4. ASSUME NEW r \in Slot, CommitBatch(r)
      PROVE  Past' = Past /\ NotYetStored'
  <2>1. request[r].payload # Null /\ InTable' = InTable \cup request[r].payload.events
    BY <1>4, CommitMoves
  <2>2. CASE request[r].payload.events \subseteq doubted
    <3>1. CASE Confirmed
      <4>1. consumer.slot # r /\ consumer.slot \in Slot
        BY <1>4, <3>1 DEF Confirmed, CommitBatch, TypeInv, RequestsOK
      <4>2. request'[consumer.slot] = request[consumer.slot]
        BY <1>4, <4>1, AnswerMoves DEF CommitBatch
      <4> QED
        BY <1>2, <2>1, <2>2, <3>1, <4>2 DEF Past, NotYetStored, Confirmed
    <3>2. CASE ~Confirmed
      BY <1>2, <2>1, <2>2, <3>2 DEF Past, NotYetStored
    <3> QED
      BY <3>1, <3>2
  <2>3. CASE /\ consumer.pc = "posting" /\ consumer.slot = r
             /\ request[r].payload = consumer.payload
    <3>1. InHand = request[r].payload.events
      BY <2>1, <2>3 DEF InHand
    <3>2. request[r].awaited
      BY <2>3 DEF TypeInv, RequestsOK
    <3>3. Confirmed'
      BY <1>2, <1>4, <2>3, <3>2, AnswerMoves DEF CommitBatch, Confirmed
    <3> QED
      BY <1>2, <2>1, <3>1, <3>3 DEF Past, NotYetStored
  <2> QED
    BY <2>1, <2>2, <2>3 DEF Accounted
<1>5. Past' = Past /\ NotYetStored'
  <2>1. CASE \E r \in Slot : CommitBatch(r)
    BY <1>4, <2>1
  <2>2. CASE /\ stored' = stored
             /\ \A r \in Slot : r = consumer.slot /\ Confirmed => request'[r] = request[r]
    <3>1. Confirmed => Confirmed'
      BY <1>2, <2>2 DEF Confirmed, TypeInv, RequestsOK
    <3> QED
      BY <1>2, <2>2, <3>1 DEF Past, NotYetStored, InTable
  <2> QED
    BY <2>1, <2>2, ApiMoves
<1>6. Apart' /\ Numbered'
  BY <1>2, <1>5 DEF Apart, Numbered, Held
<1> QED
  BY <1>1, <1>3, <1>5, <1>6

(* The consumer takes what it receives from the head of the queue, doubts    *)
(* nothing but what it has in hand, and posts nothing else.                  *)
LEMMA ConsumerMoves ==
  ASSUME FlowInv, ConsumerStep
  PROVE  /\ stored' = stored
         /\ \/ doubted' = doubted
            \/ doubted' = doubted \cup InHand
         /\ \A r \in Slot : request'[r].payload \in {request[r].payload, Null, consumer.payload}
         /\ \/ inbox' = inbox /\ InHand' \subseteq InHand
            \/ inbox' = <<>> /\ InHand' \subseteq InHand
            \/ /\ inbox # <<>> /\ inbox' = Tail(inbox)
               /\ InHand' \subseteq Head(inbox).events \cup InHand
         /\ Accounted' /\ NotYetStored'
<1> USE DEF FlowInv
<1>0. /\ request \in [Slot -> Request] /\ consumer \in Consumer
      /\ consumer.pc \in {"sending", "posting"} =>
           consumer.payload # Null /\ InHand = consumer.payload.events
      /\ consumer.pc = "posting" => consumer.slot \in Slot
      /\ NoRequest.payload = Null
      /\ \A q \in Request : Abandoned(q).payload \in {q.payload, Null}
  <2>1. \A q \in Request : Abandoned(q).payload \in {q.payload, Null}
    BY DEF Abandoned, NoRequest, Request
  <2> QED
    BY <2>1 DEF TypeInv, TypeOK, ApiTypeOK, ConsumerTypeOK, RequestsOK, InHand, NoRequest
<1>1. ASSUME UNCHANGED <<request, stored, doubted>>, consumer'.pc # "posting",
             consumer.pc # "posting", consumer'.payload = consumer.payload
      PROVE  Accounted' /\ NotYetStored' /\ InHand' = InHand
  BY <1>1 DEF Accounted, NotYetStored, Confirmed, InTable, InHand
<1>2. CASE Subscribe
  BY <1>0, <1>1, <1>2 DEF Subscribe, DropQueue, apiVars, Consumer
<1>3. CASE LoseSubscription
  BY <1>3 DEF LoseSubscription, apiVars, consumerVars, Accounted, NotYetStored, Confirmed,
              InTable, InHand
<1>4. CASE Reconnect
  BY <1>0, <1>1, <1>4 DEF Reconnect, apiVars, wireVars, Consumer
<1>5. CASE StopListening
  BY <1>0, <1>1, <1>5 DEF StopListening, DropQueue, apiVars, Consumer
<1>6. CASE RequestConsumerStop
  <2>1. /\ consumer'.pc = consumer.pc /\ consumer'.payload = consumer.payload
        /\ consumer'.slot = consumer.slot
    BY <1>0, <1>6 DEF RequestConsumerStop, Consumer
  <2> QED
    BY <1>6, <2>1 DEF RequestConsumerStop, apiVars, wireVars, Accounted, NotYetStored,
                      Confirmed, InTable, InHand
<1>7. CASE Receive
  <2>1. /\ inbox # <<>> /\ inbox' = Tail(inbox) /\ consumer.pc = "listening"
        /\ UNCHANGED <<request, stored, doubted>>
    BY <1>7 DEF Receive, apiVars
  <2>2. /\ consumer'.pc # "posting"
        /\ \/ consumer'.payload = consumer.payload
           \/ consumer'.payload.events = Head(inbox).events
    <3>1. CASE consumer' = consumer
      BY <2>1, <3>1
    <3>2. CASE \E ended \in {clock, clock + 1} :
                 consumer' = [consumer EXCEPT !.pc = "sending", !.attempt = 1,
                    !.payload = [station |-> Head(inbox).station, events |-> Head(inbox).events,
                                 started |-> clock, ended |-> ended]]
      BY <1>0, <3>2 DEF Consumer
    <3> QED
      BY <1>7, <3>1, <3>2 DEF Receive
  <2>3. InHand' = InHand \/ InHand' = Head(inbox).events \/ InHand' = {}
    BY <2>2 DEF InHand
  <2>4. Head(inbox).events \cap InTable = {}
    <3>1. inbox \in Seq(Message)
      BY DEF TypeInv, TypeOK, WireTypeOK
    <3>2. 1 \in DOMAIN inbox /\ Head(inbox) = inbox[1]
      BY <2>1, <3>1, TailElements
    <3> QED
      BY <3>2 DEF Apart, Past
  <2>5. Accounted' /\ NotYetStored'
    BY <2>1, <2>2, <2>3, <2>4 DEF Accounted, NotYetStored, Confirmed, InTable
  <2> QED
    BY <2>1, <2>3, <2>5
<1>8. CASE Post
  <2>1. PICK r \in FreeSlot :
          /\ request' = [request EXCEPT ![r] = [NoRequest EXCEPT !.pc = "arrived",
                            !.payload = consumer.payload, !.awaited = TRUE]]
          /\ consumer' = [consumer EXCEPT !.pc = "posting", !.slot = r]
    BY <1>8 DEF Post
  <2>2. r \in Slot /\ consumer.pc = "sending" /\ UNCHANGED <<inbox, stored, doubted>>
    BY <1>8 DEF Post, FreeSlot, wireVars
  <2>3. /\ request'[r].payload = consumer.payload /\ request'[r].pc = "arrived"
        /\ \A o \in Slot : o # r => request'[o] = request[o]
        /\ consumer'.pc = "posting" /\ consumer'.slot = r
        /\ consumer'.payload = consumer.payload
    BY <1>0, <2>1, <2>2 DEF NoRequest, Consumer
  <2>4. Accounted' /\ NotYetStored' /\ InHand' = InHand
    BY <2>2, <2>3 DEF Accounted, NotYetStored, Confirmed, InTable, InHand
  <2> QED
    BY <2>2, <2>3, <2>4
<1>9. ASSUME consumer.pc = "posting", stored' = stored, inbox' = inbox \/ inbox' = <<>>,
             \A o \in Slot : o # consumer.slot => request'[o] = request[o],
             request'[consumer.slot].payload \in {request[consumer.slot].payload, Null},
             consumer'.pc # "posting", consumer'.payload \in {consumer.payload, Null},
             \/ doubted' = doubted \cup InHand
             \/ /\ doubted' = doubted /\ request'[consumer.slot].payload = Null
                /\ ~Confirmed \/ consumer'.payload = Null
      PROVE  /\ \A r \in Slot : request'[r].payload \in {request[r].payload, Null}
             /\ InHand' \subseteq InHand /\ Accounted' /\ NotYetStored'
  <2>1. InHand' \in {InHand, {}} /\ InTable' = InTable /\ InHand = consumer.payload.events
        /\ consumer.slot \in Slot /\ (consumer'.payload = Null => InHand' = {})
    BY <1>0, <1>9 DEF InHand, InTable
  <2>2. Accounted'
    BY <1>9, <2>1 DEF Accounted
  <2>3. NotYetStored'
    BY <1>9, <2>1 DEF NotYetStored
  <2> QED
    BY <1>9, <2>1, <2>2, <2>3
<1>10. /\ Retried(consumer).pc # "posting" /\ Retried(consumer).payload \in {consumer.payload, Null}
       /\ NextMessage(consumer).pc # "posting" /\ NextMessage(consumer).payload = Null
  BY <1>0, ConsumerUpdates
<1>11. CASE HandleResponse
  <2>1. /\ consumer.pc = "posting" /\ consumer.slot \in Slot /\ inbox' = inbox
        /\ request' = [request EXCEPT ![consumer.slot] = NoRequest] /\ stored' = stored
    BY <1>0, <1>11 DEF HandleResponse
  <2>2. /\ consumer'.pc # "posting" /\ consumer'.payload \in {consumer.payload, Null}
        /\ ~Confirmed \/ consumer'.payload = Null
    BY <1>10, <1>11 DEF HandleResponse, Confirmed
  <2>3. doubted' = doubted \/ doubted' = doubted \cup InHand
    BY <1>0, <1>11 DEF HandleResponse
  <2>4. /\ \A o \in Slot : o # consumer.slot => request'[o] = request[o]
        /\ request'[consumer.slot].payload = Null
    BY <1>0, <2>1
  <2> QED
    BY <1>9, <2>1, <2>2, <2>3, <2>4
<1>12. CASE PostTimesOut
  <2>1. /\ consumer.pc = "posting" /\ consumer.slot \in Slot /\ inbox' = inbox
        /\ request' = [request EXCEPT ![consumer.slot] = Abandoned(@)] /\ stored' = stored
        /\ doubted' = doubted \cup InHand
    BY <1>0, <1>12 DEF PostTimesOut
  <2>2. consumer'.pc # "posting" /\ consumer'.payload \in {consumer.payload, Null}
    BY <1>10, <1>12 DEF PostTimesOut
  <2>3. /\ \A o \in Slot : o # consumer.slot => request'[o] = request[o]
        /\ request'[consumer.slot].payload \in {request[consumer.slot].payload, Null}
    BY <1>0, <2>1
  <2> QED
    BY <1>9, <2>1, <2>2, <2>3
<1>13. CASE ConsumerCrash
  <2>1. consumer'.pc # "posting" /\ consumer'.payload = Null /\ inbox' = <<>> /\ stored' = stored
    BY <1>13 DEF ConsumerCrash, Fresh
  <2>2. CASE consumer.pc = "posting"
    <3>1. /\ consumer.slot \in Slot /\ doubted' = doubted \cup InHand
          /\ request' = [request EXCEPT ![consumer.slot] = Abandoned(@)]
      BY <1>0, <1>13, <2>2 DEF ConsumerCrash
    <3>2. /\ \A o \in Slot : o # consumer.slot => request'[o] = request[o]
          /\ request'[consumer.slot].payload \in {request[consumer.slot].payload, Null}
      BY <1>0, <3>1
    <3> QED
      BY <1>9, <2>1, <2>2, <3>1, <3>2
  <2>3. CASE consumer.pc # "posting"
    BY <1>13, <2>1, <2>3 DEF ConsumerCrash, Accounted, NotYetStored, InHand
  <2> QED
    BY <2>2, <2>3
<1>14. CASE ConsumerStarts
  BY <1>14 DEF ConsumerStarts, Fresh, apiVars, wireVars, Accounted, NotYetStored, Confirmed,
               InTable, InHand
<1> QED
  BY <1>2, <1>3, <1>4, <1>5, <1>6, <1>7, <1>8, <1>11, <1>12, <1>13, <1>14
  DEF ConsumerStep, ConsumerWork

LEMMA ConsumerFlow ==
  ASSUME FlowInv, ConsumerStep, UNCHANGED edgeVars
  PROVE  FlowInv'
<1> USE DEF FlowInv
<1>1. TypeInv'
  BY ConsumerTypes
<1>2. Accounted' /\ NotYetStored' /\ InTable' = InTable
  BY ConsumerMoves DEF InTable
<1>3. /\ edge' = edge /\ made' = made
      /\ \A s \in Station : Held(s)' = Held(s)
  BY DEF edgeVars, Held
<1>4. inbox \in Seq(Message)
  BY DEF TypeInv, TypeOK, WireTypeOK
<1>5. CASE /\ inbox' = inbox \/ inbox' = <<>>
           /\ InHand' \subseteq InHand
  <2>1. Past' \subseteq Past
    BY <1>2, <1>5, ConsumerMoves DEF Past
  <2>2. \A i \in DOMAIN inbox' : i \in DOMAIN inbox /\ inbox'[i] = inbox[i]
    BY <1>5
  <2> QED
    BY <1>1, <1>2, <1>3, <2>1, <2>2 DEF Apart, Numbered
<1>6. CASE /\ inbox # <<>> /\ inbox' = Tail(inbox)
           /\ InHand' \subseteq Head(inbox).events \cup InHand
  <2>1. Past' \subseteq Past \cup Head(inbox).events
    BY <1>2, <1>6, ConsumerMoves DEF Past
  <2>2. /\ 1 \in DOMAIN inbox /\ Head(inbox) = inbox[1]
        /\ \A i \in DOMAIN inbox' :
             i \in Nat \ {0} /\ i + 1 \in DOMAIN inbox /\ inbox'[i] = inbox[i + 1]
    BY <1>4, <1>6, TailElements
  <2>3. \A i \in DOMAIN inbox' : inbox'[i].events \cap Head(inbox).events = {}
    BY <2>2 DEF Apart
  <2>4. Apart'
    <3>1. (\A i, j \in DOMAIN inbox : i # j => inbox[i].events \cap inbox[j].events = {})'
      BY <2>2 DEF Apart
    <3>2. (\A s \in Station, i \in DOMAIN inbox : Held(s) \cap inbox[i].events = {})'
      BY <1>3, <2>2 DEF Apart
    <3>3. (\A s \in Station : Held(s) \cap Past = {})'
      BY <1>3, <2>1, <2>2 DEF Apart
    <3>4. (\A i \in DOMAIN inbox : inbox[i].events \cap Past = {})'
      BY <2>1, <2>2, <2>3 DEF Apart
    <3> QED
      BY <1>3, <3>1, <3>2, <3>3, <3>4 DEF Apart
  <2>5. Numbered'
    BY <1>3, <2>1, <2>2 DEF Numbered
  <2> QED
    BY <1>1, <1>2, <2>4, <2>5
<1> QED
  BY <1>5, <1>6, ConsumerMoves

LEMMA NextFlow == FlowInv /\ [Next]_vars => FlowInv'
<1> SUFFICES ASSUME FlowInv, [Next]_vars PROVE FlowInv'
  OBVIOUS
<1>1. CASE UNCHANGED vars
  <2>1. TypeInv'
    BY <1>1, NextTypeInv DEF FlowInv
  <2> QED
    BY <1>1, <2>1 DEF FlowInv, vars, edgeVars, wireVars, apiVars, consumerVars, Apart, Numbered,
        Accounted, NotYetStored, Confirmed, Past, Held, InTable, InHand
<1> QED
  BY <1>1, EdgeFlow, ConsumerFlow, ApiFlow DEF Next, Idle

-----------------------------------------------------------------------------
(* The refinement.  Each place as the union it is.                           *)
LEMMA Places ==
  /\ \A d : d \in Buffered <=> \E s \in Station : d \in Held(s)
  /\ \A d : d \in Queued <=> \E i \in DOMAIN inbox : d \in inbox[i].events
  /\ \A d : d \in AtApi <=>
       \E r \in Slot : request[r].payload # Null /\ d \in request[r].payload.events
<1>1. \A d : d \in Buffered <=> \E s \in Station : d \in Held(s)
  BY DEF Buffered, Held
<1>2. \A d : d \in Queued <=> \E i \in DOMAIN inbox : d \in inbox[i].events
  BY DEF Queued
<1>3. \A d : d \in AtApi <=>
        \E r \in Slot : request[r].payload # Null /\ d \in request[r].payload.events
  BY DEF AtApi
<1> QED
  BY <1>1, <1>2, <1>3

LEMMA NextPlaces ==
  /\ \A d : d \in Buffered' <=> \E s \in Station : d \in Held(s)'
  /\ \A d : d \in Queued' <=> \E i \in DOMAIN inbox' : d \in inbox'[i].events
  /\ \A d : d \in AtApi' <=>
       \E r \in Slot : request'[r].payload # Null /\ d \in request'[r].payload.events
<1>1. \A d : d \in Buffered' <=> \E s \in Station : d \in Held(s)'
  BY DEF Buffered, Held
<1>2. \A d : d \in Queued' <=> \E i \in DOMAIN inbox' : d \in inbox'[i].events
  BY DEF Queued
<1>3. \A d : d \in AtApi' <=>
        \E r \in Slot : request'[r].payload # Null /\ d \in request'[r].payload.events
  BY DEF AtApi
<1> QED
  BY <1>1, <1>2, <1>3

(* What is pending has been made.                                            *)
LEMMA PendingMade == FlowInv => Pending \subseteq 1 .. made
<1> SUFFICES ASSUME FlowInv PROVE Pending \subseteq 1 .. made
  OBVIOUS
<1>1. AtApi \subseteq doubted \cup InHand
  <2>1. \A r \in Slot : request[r].payload # Null =>
          request[r].payload.events \subseteq doubted \cup InHand
    BY DEF FlowInv, Accounted, InHand
  <2> QED
    BY <2>1, Places
<1>2. doubted \cup InHand \subseteq 1 .. made
  BY DEF FlowInv, Numbered, Past
<1>3. Buffered \cup Queued \subseteq 1 .. made
  BY Places DEF FlowInv, Numbered
<1> QED
  BY <1>1, <1>2, <1>3 DEF Pending

(* The log of the promise is the table.                                      *)
LEMMA LogIsTable == Promise!Entered = InTable
  BY DEF Promise!Entered, InTable

Log == [i \in DOMAIN stored |-> stored[i].events]

(* An edge accepts the detections of a frame, or drops some.                 *)
LEMMA EdgeKeeps ==
  ASSUME FlowInv, FlowInv', NEW s \in Station, EdgeStep(s), UNCHANGED <<apiVars, consumerVars>>
  PROVE  Promise!Next
<1>1. /\ InHand' = InHand /\ AtApi' = AtApi /\ doubted' = doubted /\ stored' = stored
  BY DEF InHand, AtApi, apiVars, consumerVars
<1>2. CASE ProcessFrame(s)
  <2>1. PICK n \in 1 .. MaxDetections - made :
          /\ made' = made + n /\ inbox' = inbox
          /\ \A t \in Station : t # s => edge'[t] = edge[t]
          /\ edge'[s].out = edge[s].out
          /\ edge'[s].buffer = edge[s].buffer \cup (made + 1 .. made + n)
    BY <1>2, FrameMoves DEF FlowInv
  <2> DEFINE new == made + 1 .. made + n
  <2>2. made \in Nat /\ MaxDetections \in Nat
    BY DetectionsAssumption DEF FlowInv, TypeInv, TypeOK, EdgeTypeOK
  <2>3. /\ new \in SUBSET (1 .. MaxDetections) /\ new \cap (1 .. made) = {}
        /\ 1 .. made' = (1 .. made) \cup new
    BY <2>1, <2>2
  <2> HIDE DEF new
  <2>4. Pending' = Pending \cup new
    <3>1. /\ \A t \in Station : t # s => Held(t)' = Held(t)
          /\ Held(s)' = Held(s) \cup new
      BY <2>1 DEF Held, new
    <3>2. Buffered' = Buffered \cup new
      BY <3>1, Places, NextPlaces
    <3>3. Queued' = Queued
      BY <2>1 DEF Queued
    <3> QED
      BY <1>1, <3>2, <3>3 DEF Pending
  <2>5. Promise!Accept(new)
    BY <1>1, <2>3, <2>4 DEF Promise!Accept
  <2> QED
    BY <2>3, <2>5 DEF Promise!Next
<1>3. CASE ~ProcessFrame(s)
  <2>1. /\ made' = made
        /\ \A t \in Station : t # s => Held(t)' = Held(t)
        /\ Held(s)' \subseteq Held(s)
        /\ inbox' = inbox \/ inbox' = Routed(s, edge[s].out)
    BY <1>3, EdgeMoves DEF FlowInv, Held
  <2>2. Buffered' \subseteq Buffered /\ edge[s].out \subseteq Buffered
    BY <2>1, Places, NextPlaces DEF Held
  <2>3. Queued' \subseteq Queued \cup edge[s].out
    <3>1. CASE inbox' = inbox
      BY <3>1 DEF Queued
    <3>2. CASE inbox' = Append(inbox, [station |-> s, events |-> edge[s].out])
      <4>1. [station |-> s, events |-> edge[s].out] \in Message /\ inbox \in Seq(Message)
        <5>1. edge[s].out \in SUBSET Nat
          BY DEF FlowInv, TypeInv, TypeOK, EdgeTypeOK, Edge
        <5> QED
          BY <5>1 DEF FlowInv, TypeInv, TypeOK, WireTypeOK, Message
      <4>2. \A i \in DOMAIN inbox' :
              (i \in DOMAIN inbox /\ inbox'[i] = inbox[i]) \/ inbox'[i].events = edge[s].out
        BY <3>2, <4>1, AppendElements
      <4> QED
        BY <4>2, Places, NextPlaces
    <3> QED
      BY <2>1, <3>1, <3>2 DEF Routed
  <2>4. Promise!Drop
    BY <1>1, <2>1, <2>2, <2>3 DEF Promise!Drop, Pending
  <2> QED
    BY <2>4 DEF Promise!Next
<1> QED
  BY <1>2, <1>3

(* The consumer doubts what it has in hand, or drops some.                   *)
LEMMA ConsumerKeeps ==
  ASSUME FlowInv, FlowInv', ConsumerStep, UNCHANGED edgeVars
  PROVE  Promise!Next
<1>1. Buffered' = Buffered /\ made' = made /\ stored' = stored
  BY ConsumerMoves DEF Buffered, edgeVars
<1>2. AtApi' \subseteq AtApi \cup InHand
  BY ConsumerMoves, Places, NextPlaces DEF InHand
<1>3. Queued' \cup InHand' \subseteq Queued \cup InHand
  <2>1. CASE (inbox' = inbox \/ inbox' = <<>>) /\ InHand' \subseteq InHand
    BY <2>1, Places, NextPlaces
  <2>2. CASE /\ inbox # <<>> /\ inbox' = Tail(inbox)
             /\ InHand' \subseteq Head(inbox).events \cup InHand
    <3>1. inbox \in Seq(Message)
      BY DEF FlowInv, TypeInv, TypeOK, WireTypeOK
    <3>2. /\ 1 \in DOMAIN inbox /\ Head(inbox) = inbox[1]
          /\ \A i \in DOMAIN inbox' : i + 1 \in DOMAIN inbox /\ inbox'[i] = inbox[i + 1]
      BY <2>2, <3>1, TailElements
    <3> QED
      BY <2>2, <3>2, Places, NextPlaces
  <2> QED
    BY <2>1, <2>2, ConsumerMoves
<1>4. Pending' \subseteq Pending
  BY <1>1, <1>2, <1>3 DEF Pending
<1>5. CASE doubted' = doubted
  BY <1>1, <1>4, <1>5 DEF Promise!Drop, Promise!Next
<1>6. CASE doubted' = doubted \cup InHand
  <2>1. InHand \subseteq Pending /\ InHand \in SUBSET (1 .. MaxDetections)
    <3>1. Pending \subseteq 1 .. made
      BY PendingMade
    <3>2. made <= MaxDetections /\ made \in Nat /\ MaxDetections \in Nat
      BY DetectionsAssumption DEF FlowInv, Numbered, TypeInv, TypeOK, EdgeTypeOK
    <3> QED
      BY <3>1, <3>2 DEF Pending
  <2>2. Promise!Doubt(InHand)
    BY <1>1, <1>4, <1>6, <2>1 DEF Promise!Doubt
  <2> QED
    BY <2>1, <2>2 DEF Promise!Next
<1> QED
  BY <1>5, <1>6, ConsumerMoves

(* A commit enters the detections of the request; nothing else adds to the   *)
(* table.                                                                    *)
LEMMA ApiKeeps ==
  ASSUME FlowInv, FlowInv', ApiStep, UNCHANGED <<edgeVars, consumerVars>>
  PROVE  Promise!Next
<1>1. /\ Buffered' = Buffered /\ made' = made /\ Queued' = Queued /\ InHand' = InHand
      /\ doubted' = doubted
  BY ApiMoves DEF Buffered, Queued, InHand, edgeVars, consumerVars
<1>2. AtApi' \subseteq AtApi
  BY ApiMoves, Places, NextPlaces
<1>3. Pending' \subseteq Pending
  BY <1>1, <1>2 DEF Pending
<1>4. CASE stored' = stored
  BY <1>1, <1>3, <1>4 DEF Promise!Drop, Promise!Next
<1>5. ASSUME NEW r \in Slot, CommitBatch(r), stored' # stored PROVE Promise!Next
  <2> DEFINE p == request[r].payload
             b == [station |-> p.station, events |-> p.events, at |-> p.ended]
  <2>1. p # Null /\ p \in Payload /\ stored \in Seq(Batch)
    BY <1>5 DEF CommitBatch, FlowInv, TypeInv, TypeOK, ApiTypeOK, RequestsOK, Request
  <2>2. b \in Batch /\ b.events = p.events /\ stored' = Append(stored, b)
    BY <1>5, <2>1 DEF CommitBatch, Payload, Batch
  <2>3. Log' = Append(Log, p.events)
    <3>1. DOMAIN stored = 1 .. Len(stored) /\ Len(stored) \in Nat
      BY <2>1
    <3>2. Log \in Seq(SUBSET Nat) /\ Len(Log) = Len(stored)
      <4>1. \A i \in 1 .. Len(stored) : stored[i].events \in SUBSET Nat
        <5>1. \A i \in 1 .. Len(stored) : stored[i] \in Batch
          BY <2>1
        <5>2. \A x \in Batch : x.events \in SUBSET Nat
          BY DEF Batch
        <5> QED
          BY <5>1, <5>2
      <4> QED
        BY <3>1, <4>1 DEF Log
    <3>3. /\ DOMAIN stored' = 1 .. Len(stored) + 1
          /\ \A i \in 1 .. Len(stored) : stored'[i] = stored[i]
          /\ stored'[Len(stored) + 1].events = p.events
      BY <2>1, <2>2, <3>1
    <3>4. p.events \in SUBSET Nat
      BY <2>1 DEF Payload
    <3>5. Log' = [i \in 1 .. Len(stored) + 1 |-> stored'[i].events]
      BY <3>3 DEF Log
    <3>6. Append(Log, p.events) =
            [i \in 1 .. Len(stored) + 1 |-> IF i \in 1 .. Len(stored) THEN Log[i] ELSE p.events]
      BY <3>1, <3>2, <3>4
    <3>7. \A i \in 1 .. Len(stored) + 1 :
            stored'[i].events = IF i \in 1 .. Len(stored) THEN Log[i] ELSE p.events
      BY <3>1, <3>3 DEF Log
    <3> QED
      BY <3>5, <3>6, <3>7
  <2>4. p.events \subseteq Pending
    BY <2>1, Places DEF Pending
  <2>5. p.events \cap InTable \subseteq doubted
    <3>1. CASE p.events \subseteq doubted
      BY <3>1
    <3>2. CASE consumer.pc = "posting" /\ consumer.slot = r /\ p = consumer.payload
      BY <1>5, <2>1, <3>2 DEF FlowInv, NotYetStored, Confirmed, InHand, CommitBatch
    <3> QED
      BY <2>1, <3>1, <3>2 DEF FlowInv, Accounted
  <2>6. p.events \in SUBSET (1 .. MaxDetections)
    <3>1. Pending \subseteq 1 .. made
      BY PendingMade
    <3>2. made <= MaxDetections /\ made \in Nat /\ MaxDetections \in Nat
      BY DetectionsAssumption DEF FlowInv, Numbered, TypeInv, TypeOK, EdgeTypeOK
    <3>3. 1 .. made \subseteq 1 .. MaxDetections
      BY <3>2
    <3> QED
      BY <2>4, <3>1, <3>3
  <2>7. Promise!Enter(p.events)
    <3>1. p.events \cap Promise!Entered \subseteq doubted
      BY <2>5, LogIsTable
    <3>2. (1 .. made)' = 1 .. made /\ Pending' \in SUBSET Pending
      BY <1>1, <1>3
    <3> HIDE DEF p
    <3> QED
      BY <1>1, <2>3, <2>4, <3>1, <3>2 DEF Promise!Enter, Log
  <2>8. PICK E : E = p.events
    OBVIOUS
  <2>9. Promise!Enter(E)
    BY <2>7, <2>8 DEF Promise!Enter
  <2> QED
    BY <2>6, <2>8, <2>9 DEF Promise!Next
<1> QED
  BY <1>4, <1>5 DEF ApiStep, RequestWork, ReadSentinel, WriteBatch, RequestFails, ApiCrash,
                    RegisterStation

(* The path from the edge to the table delivers as Delivery promises: a      *)
(* detection is stored at most once unless a POST about it went unanswered,  *)
(* and what was dropped is never stored.                                     *)
THEOREM PromiseKept == Spec => KeepsPromise
<1>1. Init => Promise!Init
  <2> SUFFICES ASSUME Init PROVE Promise!Init
    OBVIOUS
  <2>1. made = 0 /\ stored = <<>> /\ doubted = {}
    BY DEF Init, EdgeInit, ApiInit, ConsumerInit
  <2>2. Pending = {} /\ 1 .. made = {}
    <3>1. 1 .. made = {}
      BY <2>1
    <3> QED
      BY <3>1, InitFlow, PendingMade
  <2>3. Log = <<>>
    BY <2>1 DEF Log
  <2> QED
    BY <2>1, <2>2, <2>3 DEF Promise!Init, Log
<1>2. FlowInv /\ FlowInv' /\ [Next]_vars => [Promise!Next]_(Promise!vars)
  <2> SUFFICES ASSUME FlowInv, FlowInv', [Next]_vars PROVE [Promise!Next]_(Promise!vars)
    OBVIOUS
  <2>1. CASE UNCHANGED vars
    BY <2>1 DEF vars, edgeVars, wireVars, apiVars, consumerVars, Promise!vars, Pending, Buffered,
        Queued, InHand, AtApi
  <2> QED
    BY <2>1, EdgeKeeps, ConsumerKeeps, ApiKeeps DEF Next, Idle
<1> QED
  BY <1>1, <1>2, InitFlow, NextFlow, PTL DEF Spec, Promise!Spec, KeepsPromise

(* Delivery's own theorem, read of this path.                                *)
Once == INSTANCE Delivery_proofs WITH
    Item     <- 1 .. MaxDetections,
    accepted <- 1 .. made,
    pending  <- Pending,
    doubted  <- doubted,
    log      <- [i \in DOMAIN stored |-> stored[i].events]

(* No detection is in two batches of events unless a POST about it went      *)
(* unanswered.                                                               *)
StoredOnce ==
    \A i, j \in DOMAIN stored : i # j => stored[i].events \cap stored[j].events \subseteq doubted

(* The consumer's retries and restarts, beside requests that go on, store no *)
(* detection a second time, but for the doubted ones.                        *)
THEOREM NeverStoredTwice == Spec => []StoredOnce
<1>1. Once!Spec => []Once!EnteredOnce
  BY Once!NeverEnteredTwice
<1>2. Once!EnteredOnce => StoredOnce
  BY DEF Once!EnteredOnce, StoredOnce
<1>3. Promise!Init <=> Once!Init
  BY DEF Promise!Init, Once!Init
<1>4. [Promise!Next]_(Promise!vars) <=> [Once!Next]_(Once!vars)
  BY DEF Promise!Next, Once!Next, Promise!vars, Once!vars, Promise!Accept, Once!Accept,
      Promise!Doubt, Once!Doubt, Promise!Enter, Once!Enter, Promise!Drop, Once!Drop,
      Promise!Entered, Once!Entered
<1> QED
  BY <1>1, <1>2, <1>3, <1>4, PromiseKept, PTL
  DEF KeepsPromise, Promise!Spec, Once!Spec

-----------------------------------------------------------------------------
(* Nothing vanishes.  A detection that is not in the table can be found with *)
(* an edge, in the queue, in the consumer's hand or among the lost ones: the *)
(* requests need not be searched, as the consumer keeps what it posts until  *)
(* it hears of it.                                                           *)
Kept == Buffered \cup Queued \cup InHand \cup lost

(* An edge has nothing inside a publish when none is under way, and nothing  *)
(* in the buffer once it has left its loop: what these would overwrite is    *)
(* nothing.                                                                  *)
EdgeTidy ==
  \A s \in Station :
    /\ ~Publishing(s) => edge[s].out = {}
    /\ edge[s].pc \in {"finishing", "stopped"} =>
         edge[s].buffer = {} /\ edge[s].timer # "publishing"

(* The consumer has a payload only while it works on it, waits for a request *)
(* about that payload, and hears of a success only after the commit.         *)
HandOK ==
  /\ consumer.payload # Null => consumer.pc \in {"sending", "posting"}
  /\ consumer.pc = "posting" /\ request[consumer.slot].payload # Null =>
       request[consumer.slot].payload = consumer.payload
  /\ Confirmed => InHand \subseteq InTable

TracedInv == FlowInv /\ EdgeTidy /\ HandOK /\ 1 .. made \subseteq Kept \cup InTable

LEMMA InitTraced == Init => TracedInv
<1> SUFFICES ASSUME Init PROVE TracedInv
  OBVIOUS
<1>1. EdgeTidy
  BY DEF Init, EdgeInit, EdgeTidy, Started
<1>2. HandOK
  BY DEF Init, ConsumerInit, Fresh, HandOK, Confirmed
<1>3. 1 .. made = {}
  BY DEF Init, EdgeInit
<1> QED
  BY <1>1, <1>2, <1>3, InitFlow DEF TracedInv

(* What the broker gets is queued, or lost.                                  *)
LEMMA BrokerKeeps ==
  ASSUME TypeInv, NEW s \in Station, NEW E \in SUBSET Nat, ToBroker(s, E)
  PROVE  Queued \subseteq Queued' /\ lost \subseteq lost' /\ E \subseteq Queued' \cup lost'
<1>1. CASE online
  <2> DEFINE m == [station |-> s, events |-> E]
  <2>1. inbox \in Seq(Message) /\ m \in Message /\ m.events = E
    BY DEF TypeInv, TypeOK, WireTypeOK, Message
  <2>2. inbox' = Append(inbox, m) /\ lost' = lost
    BY <1>1 DEF ToBroker, Routed
  <2>3. /\ DOMAIN inbox' = DOMAIN inbox \cup {Len(inbox) + 1}
        /\ \A i \in DOMAIN inbox : inbox'[i] = inbox[i]
        /\ inbox'[Len(inbox) + 1].events = E
    BY <2>1, <2>2, AppendElements
  <2> QED
    BY <2>2, <2>3, Places, NextPlaces
<1>2. CASE ~online
  BY <1>2 DEF ToBroker, Routed, Queued
<1> QED
  BY <1>1, <1>2

LEMMA TidyStep ==
  ASSUME TypeInv, EdgeTidy, NEW s \in Station, EdgeStep(s)
  PROVE  EdgeTidy'
<1> USE DEF TypeInv, TypeOK, EdgeTypeOK
<1>1. edge[s] \in Edge /\ edge \in [Station -> Edge]
  OBVIOUS
<1>2. ASSUME \A t \in Station : t # s => edge'[t] = edge[t],
             edge'[s].timer = "publishing" \/ edge'[s].pc = "finishing" \/ edge'[s].out = {},
             edge'[s].pc \in {"finishing", "stopped"} =>
               edge'[s].buffer = {} /\ edge'[s].timer # "publishing"
      PROVE  EdgeTidy'
  BY <1>2 DEF EdgeTidy, Publishing
<1>3. /\ edge[s].timer # "publishing" /\ edge[s].pc # "finishing" => edge[s].out = {}
      /\ edge[s].pc \in {"finishing", "stopped"} =>
           edge[s].buffer = {} /\ edge[s].timer # "publishing"
  BY DEF EdgeTidy, Publishing
<1>4. /\ Published(edge[s]).out = {} /\ Published(edge[s]).buffer = edge[s].buffer
      /\ Published(edge[s]).timer # "publishing"
      /\ Published(edge[s]).pc \in {"finishing", "stopped"} =>
           edge[s].pc \in {"finishing", "stopped"}
  BY <1>1 DEF Published, Edge
<1>5. CASE Connect(s)
  BY <1>1, <1>2, <1>3, <1>5 DEF Connect, Edge
<1>6. CASE TimerFlush(s)
  BY <1>1, <1>2, <1>3, <1>6 DEF TimerFlush, Edge
<1>7. CASE PublishDone(s) \/ PublishFails(s)
  BY <1>1, <1>2, <1>3, <1>4, <1>7 DEF PublishDone, PublishFails
<1>8. CASE LeaveLoop(s)
  BY <1>1, <1>2, <1>8 DEF LeaveLoop, Edge
<1>9. CASE ProcessFrame(s)
  <2>1. /\ \A t \in Station : t # s => edge'[t] = edge[t]
        /\ edge[s].pc = "reading"
        /\ edge'[s].out = edge[s].out /\ edge'[s].pc = edge[s].pc
        /\ edge'[s].timer = edge[s].timer
    BY <1>1, <1>9 DEF ProcessFrame, Edge
  <2> QED
    BY <1>2, <1>3, <2>1
<1>10. CASE RequestStop(s)
  BY <1>1, <1>2, <1>3, <1>10 DEF RequestStop, Edge
<1>11. CASE LoseLink(s)
  BY <1>1, <1>2, <1>3, <1>11 DEF LoseLink, Edge
<1>12. CASE EdgeCrash(s) \/ EdgeStarts(s)
  BY <1>1, <1>2, <1>12 DEF EdgeCrash, EdgeStarts, Edge, Started
<1> QED
  BY <1>5, <1>6, <1>7, <1>8, <1>9, <1>10, <1>11, <1>12 DEF EdgeStep, EdgeWork

(* An edge parts with a detection only to the broker, or gives it up.        *)
LEMMA EdgeGives ==
  ASSUME TypeInv, EdgeTidy, NEW s \in Station, EdgeStep(s)
  PROVE  Buffered \cup Queued \cup lost \subseteq Buffered' \cup Queued' \cup lost'
<1>1. /\ edge[s] \in Edge /\ edge \in [Station -> Edge]
      /\ edge[s].out \in SUBSET Nat
  BY DEF TypeInv, TypeOK, EdgeTypeOK, Edge
<1>2. /\ edge[s].timer # "publishing" /\ edge[s].pc # "finishing" => edge[s].out = {}
      /\ edge[s].pc \in {"finishing", "stopped"} =>
           edge[s].buffer = {} /\ edge[s].timer # "publishing"
  BY DEF EdgeTidy, Publishing
<1>3. ASSUME \A t \in Station : t # s => edge'[t] = edge[t],
             Queued \subseteq Queued', lost \subseteq lost',
             Held(s) \subseteq Held(s)' \cup Queued' \cup lost'
      PROVE  Buffered \cup Queued \cup lost \subseteq Buffered' \cup Queued' \cup lost'
  <2>1. \A t \in Station : t # s => Held(t)' = Held(t)
    BY <1>3 DEF Held
  <2>2. Buffered \subseteq Buffered' \cup Queued' \cup lost'
    BY <1>3, <2>1, Places, NextPlaces
  <2> QED
    BY <1>3, <2>2
<1>4. ASSUME inbox' = inbox PROVE Queued' = Queued
  BY <1>4 DEF Queued
<1>5. Published(edge[s]).buffer = edge[s].buffer /\ Published(edge[s]).out = {}
  BY <1>1 DEF Published, Edge
<1>6. CASE Connect(s) \/ RequestStop(s)
  <2>1. /\ \A t \in Station : t # s => edge'[t] = edge[t]
        /\ edge'[s].buffer = edge[s].buffer /\ edge'[s].out = edge[s].out
        /\ inbox' = inbox /\ lost' = lost
    BY <1>1, <1>6 DEF Connect, RequestStop, Edge, wireVars
  <2> QED
    BY <1>3, <1>4, <2>1 DEF Held
<1>7. CASE LoseLink(s)
  <2>1. /\ \A t \in Station : t # s => edge'[t] = edge[t]
        /\ edge'[s].buffer = edge[s].buffer /\ edge'[s].out = edge[s].out
        /\ inbox' = inbox /\ lost' = lost
    BY <1>1, <1>7 DEF LoseLink, Edge
  <2> QED
    BY <1>3, <1>4, <2>1 DEF Held
<1>8. CASE ProcessFrame(s)
  <2>1. /\ \A t \in Station : t # s => edge'[t] = edge[t]
        /\ edge[s].buffer \subseteq edge'[s].buffer /\ edge'[s].out = edge[s].out
        /\ inbox' = inbox /\ lost' = lost
    BY <1>1, <1>8 DEF ProcessFrame, Edge, wireVars
  <2> QED
    BY <1>3, <1>4, <2>1 DEF Held
<1>9. CASE TimerFlush(s)
  <2>1. /\ \A t \in Station : t # s => edge'[t] = edge[t]
        /\ edge'[s].out = edge[s].buffer /\ edge[s].out = {}
        /\ inbox' = inbox /\ lost' = lost
    BY <1>1, <1>2, <1>9 DEF TimerFlush, Edge, wireVars
  <2> QED
    BY <1>3, <1>4, <2>1 DEF Held
<1>10. CASE PublishDone(s)
  <2>1. /\ \A t \in Station : t # s => edge'[t] = edge[t]
        /\ edge'[s].buffer = edge[s].buffer
    BY <1>1, <1>5, <1>10 DEF PublishDone
  <2>2. ToBroker(s, edge[s].out)
    BY <1>10 DEF PublishDone
  <2>3. Queued \subseteq Queued' /\ lost \subseteq lost' /\ edge[s].out \subseteq Queued' \cup lost'
    BY <1>1, <2>2, BrokerKeeps
  <2> QED
    BY <1>3, <2>1, <2>3 DEF Held
<1>11. CASE PublishFails(s)
  <2>1. /\ \A t \in Station : t # s => edge'[t] = edge[t]
        /\ edge'[s].buffer = edge[s].buffer
        /\ inbox' = inbox /\ lost' = lost \cup edge[s].out
    BY <1>1, <1>5, <1>11 DEF PublishFails
  <2> QED
    BY <1>3, <1>4, <2>1 DEF Held
<1>12. CASE LeaveLoop(s)
  <2>1. /\ \A t \in Station : t # s => edge'[t] = edge[t]
        /\ edge'[s].out = edge[s].buffer
    BY <1>1, <1>12 DEF LeaveLoop, Edge
  <2>2. \/ ToBroker(s, edge[s].out)
        \/ inbox' = inbox /\ lost' = lost \cup edge[s].out
    BY <1>12 DEF LeaveLoop
  <2>3. Queued \subseteq Queued' /\ lost \subseteq lost' /\ edge[s].out \subseteq Queued' \cup lost'
    BY <1>1, <1>4, <2>2, BrokerKeeps
  <2> QED
    BY <1>3, <2>1, <2>3 DEF Held
<1>13. CASE EdgeCrash(s)
  <2>1. /\ \A t \in Station : t # s => edge'[t] = edge[t]
        /\ inbox' = inbox /\ lost' = lost \cup edge[s].buffer \cup edge[s].out
    BY <1>1, <1>13 DEF EdgeCrash
  <2> QED
    BY <1>3, <1>4, <2>1 DEF Held
<1>14. CASE EdgeStarts(s)
  <2>1. /\ \A t \in Station : t # s => edge'[t] = edge[t]
        /\ edge[s].buffer = {} /\ edge[s].out = {}
        /\ inbox' = inbox /\ lost' = lost
    BY <1>1, <1>2, <1>14 DEF EdgeStarts
  <2> QED
    BY <1>3, <1>4, <2>1 DEF Held
<1> QED
  BY <1>6, <1>7, <1>8, <1>9, <1>10, <1>11, <1>12, <1>13, <1>14 DEF EdgeStep, EdgeWork

LEMMA EdgeTraces ==
  ASSUME TracedInv, NEW s \in Station, EdgeStep(s), UNCHANGED <<apiVars, consumerVars>>
  PROVE  TracedInv'
<1> USE DEF TracedInv
<1>1. FlowInv'
  BY EdgeFlow
<1>2. EdgeTidy'
  BY TidyStep DEF FlowInv
<1>3. HandOK' /\ InHand' = InHand /\ InTable' = InTable
  BY DEF HandOK, Confirmed, InHand, InTable, apiVars, consumerVars
<1>4. Buffered \cup Queued \cup lost \subseteq Buffered' \cup Queued' \cup lost'
  BY EdgeGives DEF FlowInv
<1>5. (1 .. made)' \subseteq (1 .. made) \cup Buffered'
  <2>1. CASE ProcessFrame(s)
    <3>1. PICK n \in 1 .. MaxDetections - made :
            /\ made' = made + n
            /\ edge'[s].buffer = edge[s].buffer \cup (made + 1 .. made + n)
      BY <2>1, FrameMoves DEF FlowInv
    <3>2. made \in Nat /\ MaxDetections \in Nat
      BY DetectionsAssumption DEF FlowInv, TypeInv, TypeOK, EdgeTypeOK
    <3>3. (1 .. made)' \subseteq (1 .. made) \cup (made + 1 .. made + n)
      BY <3>1, <3>2
    <3>4. made + 1 .. made + n \subseteq Buffered'
      BY <3>1, NextPlaces DEF Held
    <3> QED
      BY <3>3, <3>4
  <2>2. CASE ~ProcessFrame(s)
    BY <2>2, EdgeMoves DEF FlowInv
  <2> QED
    BY <2>1, <2>2
<1>6. (1 .. made)' \subseteq Kept' \cup InTable'
  BY <1>3, <1>4, <1>5 DEF Kept
<1> QED
  BY <1>1, <1>2, <1>3, <1>6

(* The consumer passes on what it takes, and gives up what it drops unless   *)
(* it heard that it is stored.                                               *)
LEMMA ConsumerGives ==
  ASSUME FlowInv, HandOK, ConsumerStep
  PROVE  /\ HandOK'
         /\ Queued \cup InHand \cup lost \subseteq Queued' \cup InHand' \cup InTable \cup lost'
<1> USE DEF FlowInv
<1>0. /\ request \in [Slot -> Request] /\ consumer \in Consumer /\ inbox \in Seq(Message)
      /\ consumer.pc = "posting" => consumer.slot \in Slot
      /\ consumer.payload # Null <=> consumer.pc \in {"sending", "posting"}
  BY DEF TypeInv, TypeOK, ApiTypeOK, ConsumerTypeOK, WireTypeOK, RequestsOK, HandOK
<1>1. ASSUME consumer'.pc # "posting",
             consumer'.payload # Null => consumer'.pc = "sending"
      PROVE  HandOK'
  BY <1>1 DEF HandOK, Confirmed
<1>2. InTable' = InTable
  BY ConsumerMoves DEF InTable
<1>3. ASSUME inbox' = inbox PROVE Queued' = Queued
  BY <1>3 DEF Queued
<1>4. ASSUME consumer'.payload = consumer.payload PROVE InHand' = InHand
  BY <1>4 DEF InHand
<1>5. CASE Subscribe \/ StopListening
  <2>1. consumer'.payload = consumer.payload /\ consumer'.pc \in {"listening", "stopped"}
    BY <1>0, <1>5 DEF Subscribe, StopListening, Consumer
  <2>2. consumer.payload = Null /\ lost' = lost \cup Queued
    BY <1>0, <1>5 DEF Subscribe, StopListening, DropQueue
  <2> QED
    BY <1>1, <1>4, <2>1, <2>2
<1>6. CASE LoseSubscription
  BY <1>2, <1>3, <1>6 DEF LoseSubscription, apiVars, consumerVars, HandOK, Confirmed, InHand
<1>7. CASE RequestConsumerStop
  <2>1. /\ consumer'.pc = consumer.pc /\ consumer'.payload = consumer.payload
        /\ consumer'.slot = consumer.slot
        /\ request' = request /\ inbox' = inbox /\ lost' = lost
    BY <1>0, <1>7 DEF RequestConsumerStop, Consumer, apiVars, wireVars
  <2> QED
    BY <1>2, <1>3, <1>4, <2>1 DEF HandOK, Confirmed
<1>8. CASE Reconnect
  <2>1. /\ consumer'.pc = "connecting" /\ consumer'.payload = consumer.payload
        /\ consumer.payload = Null /\ inbox' = inbox /\ lost' = lost
    BY <1>0, <1>8 DEF Reconnect, Consumer, wireVars
  <2> QED
    BY <1>1, <1>3, <1>4, <2>1
<1>9. CASE ConsumerStarts
  <2>1. /\ consumer'.pc = "connecting" /\ consumer'.payload = Null
        /\ consumer.payload = Null /\ inbox' = inbox /\ lost' = lost
    BY <1>0, <1>9 DEF ConsumerStarts, Fresh, wireVars
  <2> QED
    BY <1>1, <1>3, <1>4, <2>1
<1>10. CASE Receive
  <2> DEFINE m == Head(inbox)
  <2>1. /\ inbox # <<>> /\ inbox' = Tail(inbox)
        /\ consumer.pc = "listening" /\ consumer.payload = Null
    BY <1>0, <1>10 DEF Receive
  <2>2. \/ consumer' = consumer /\ lost' = lost \cup m.events
        \/ /\ consumer'.pc = "sending" /\ lost' = lost
           /\ consumer'.payload \in Payload /\ consumer'.payload.events = m.events
    <3>1. PICK ended \in {clock, clock + 1} :
            IF Cardinality(m.events) > MaxEvents
              THEN lost' = lost \cup m.events /\ UNCHANGED consumer
              ELSE /\ consumer' = [consumer EXCEPT !.pc = "sending", !.attempt = 1,
                        !.payload = [station |-> m.station, events |-> m.events,
                                     started |-> clock, ended |-> ended]]
                   /\ UNCHANGED lost
      BY <1>10 DEF Receive
    <3>2. m \in Message /\ clock \in Nat /\ ended \in Nat
      BY <1>0, <2>1, <3>1, TailElements DEF TypeInv, TypeOK, ConsumerTypeOK
    <3>3. [station |-> m.station, events |-> m.events, started |-> clock, ended |-> ended]
            \in Payload
      BY <3>2 DEF Message, Payload
    <3> DEFINE p == [station |-> m.station, events |-> m.events,
                     started |-> clock, ended |-> ended]
    <3>4. p \in Payload /\ p.events = m.events
      BY <3>3
    <3> HIDE DEF m, p
    <3>5. CASE consumer' = [consumer EXCEPT !.pc = "sending", !.attempt = 1, !.payload = p]
      BY <1>0, <3>1, <3>4, <3>5 DEF Consumer, p
    <3> QED
      BY <3>1, <3>5 DEF p
  <2>3. m.events \subseteq InHand' \cup lost' /\ lost \subseteq lost' /\ InHand = {}
    BY <2>1, <2>2, NullAssumption DEF InHand
  <2>4. Queued \subseteq m.events \cup Queued'
    <3>1. \A i \in DOMAIN inbox : i = 1 \/ (i - 1 \in DOMAIN inbox' /\ inbox'[i - 1] = inbox[i])
      BY <1>0, <2>1
    <3>2. m = inbox[1]
      BY <1>0, <2>1, TailElements
    <3> QED
      BY <3>1, <3>2, Places, NextPlaces
  <2>5. HandOK'
    BY <1>1, <2>1, <2>2
  <2> QED
    BY <2>3, <2>4, <2>5
<1>11. CASE Post
  <2>1. PICK r \in FreeSlot :
          /\ request' = [request EXCEPT ![r] = [NoRequest EXCEPT !.pc = "arrived",
                            !.payload = consumer.payload, !.awaited = TRUE]]
          /\ consumer' = [consumer EXCEPT !.pc = "posting", !.slot = r]
    BY <1>11 DEF Post
  <2>2. r \in Slot /\ inbox' = inbox /\ lost' = lost
    BY <1>11 DEF Post, FreeSlot, wireVars
  <2>3. /\ request'[r].payload = consumer.payload /\ request'[r].pc = "arrived"
        /\ consumer'.pc = "posting" /\ consumer'.slot = r
        /\ consumer'.payload = consumer.payload
    BY <1>0, <2>1, <2>2 DEF NoRequest, Consumer
  <2> QED
    BY <1>3, <1>4, <2>2, <2>3 DEF HandOK, Confirmed
<1>12. /\ Retried(consumer).pc # "posting"
       /\ Retried(consumer).payload # Null => Retried(consumer).pc = "sending"
       /\ Retried(consumer).payload \in {consumer.payload, Null}
       /\ NextMessage(consumer).pc # "posting" /\ NextMessage(consumer).payload = Null
  BY <1>0, ConsumerUpdates
<1>13. CASE HandleResponse
  <2> DEFINE code == request[consumer.slot].code
  <2>1. /\ consumer' = IF code \in {0, 500} THEN Retried(consumer) ELSE NextMessage(consumer)
        /\ consumer.pc = "posting" /\ request[consumer.slot].pc = "answered"
        /\ inbox' = inbox
    BY <1>13 DEF HandleResponse
  <2>2. lost' = IF consumer'.payload = Null /\ code # 201 THEN lost \cup InHand ELSE lost
    BY <1>13 DEF HandleResponse
  <2>3. code = 201 => InHand \subseteq InTable
    BY <2>1 DEF HandOK, Confirmed
  <2>4. /\ consumer'.pc # "posting"
        /\ consumer'.payload # Null => consumer'.pc = "sending"
        /\ consumer'.payload \in {consumer.payload, Null}
    BY <1>12, <2>1
  <2> QED
    BY <1>1, <1>3, <1>4, <2>1, <2>2, <2>3, <2>4
<1>14. CASE PostTimesOut
  <2>1. /\ consumer' = Retried(consumer) /\ inbox' = inbox
        /\ lost' = IF consumer'.payload = Null THEN lost \cup InHand ELSE lost
    BY <1>14 DEF PostTimesOut
  <2> QED
    BY <1>1, <1>3, <1>4, <1>12, <2>1
<1>15. CASE ConsumerCrash
  <2>1. consumer' = Fresh /\ lost' = lost \cup Queued \cup InHand
    BY <1>15 DEF ConsumerCrash
  <2> QED
    BY <1>1, <2>1 DEF Fresh
<1> QED
  BY <1>5, <1>6, <1>7, <1>8, <1>9, <1>10, <1>11, <1>13, <1>14, <1>15
  DEF ConsumerStep, ConsumerWork

LEMMA ConsumerTraces ==
  ASSUME TracedInv, ConsumerStep, UNCHANGED edgeVars
  PROVE  TracedInv'
<1> USE DEF TracedInv
<1>1. FlowInv'
  BY ConsumerFlow
<1>2. EdgeTidy' /\ Buffered' = Buffered /\ made' = made
  BY DEF EdgeTidy, Publishing, Buffered, edgeVars
<1>3. InTable' = InTable
  BY ConsumerMoves DEF InTable
<1>4. /\ HandOK'
      /\ Queued \cup InHand \cup lost \subseteq Queued' \cup InHand' \cup InTable \cup lost'
  BY ConsumerGives
<1>5. (1 .. made)' \subseteq Kept' \cup InTable'
  BY <1>2, <1>3, <1>4 DEF Kept
<1> QED
  BY <1>1, <1>2, <1>4, <1>5

(* Only the commit of a request makes its caller hear of a success.          *)
LEMMA SuccessIsCommitted ==
  ASSUME FlowInv, ApiStep, consumer' = consumer, Confirmed', ~Confirmed
  PROVE  CommitBatch(consumer.slot)
<1> DEFINE w == consumer.slot
<1>1. /\ request \in [Slot -> Request] /\ TypeInv
      /\ consumer.pc = "posting" /\ w \in Slot /\ request[w].awaited
      /\ request'[w].pc = "answered" /\ request'[w].code = 201
      /\ ~(request[w].pc = "answered" /\ request[w].code = 201)
  BY DEF FlowInv, TypeInv, TypeOK, ApiTypeOK, RequestsOK, Confirmed
<1>2. ASSUME NEW r \in Slot, NEW code \in {0, 404, 422, 500}, Answer(r, code) PROVE FALSE
  <2>1. /\ \A o \in Slot : o # r => request'[o] = request[o]
        /\ request[r].awaited => request'[r].code = code
    BY <1>1, <1>2, AnswerMoves
  <2> QED
    BY <1>1, <1>2, <2>1
<1>3. ASSUME NEW r \in Slot, NEW q, q.pc # "answered", request' = [request EXCEPT ![r] = q]
      PROVE  FALSE
  BY <1>1, <1>3
<1>4. ASSUME NEW r \in Slot, ReadSentinel(r) PROVE FALSE
  <2>1. CASE Answer(r, 404) \/ Answer(r, 422)
    BY <1>2, <2>1
  <2>2. CASE request' = [request EXCEPT ![r].pc = "read",
                            ![r].seen = sentinel[request[r].payload.station]]
    <3>1. request[r] \in Request
      BY <1>1
    <3>2. request'[r].pc = "read" /\ \A o \in Slot : o # r => request'[o] = request[o]
      BY <1>1, <2>2, <3>1 DEF Request
    <3> QED
      BY <1>1, <3>2
  <2> QED
    BY <1>4, <2>1, <2>2 DEF ReadSentinel
<1>5. ASSUME NEW r \in Slot, WriteBatch(r) PROVE FALSE
  <2>1. CASE Answer(r, 500)
    BY <1>2, <2>1
  <2>2. CASE request' = [request EXCEPT ![r].pc = "written"]
    <3>1. request'[r].pc = "written" /\ \A o \in Slot : o # r => request'[o] = request[o]
      BY <1>1, <2>2 DEF Request
    <3> QED
      BY <1>1, <3>1
  <2> QED
    BY <1>5, <2>1, <2>2 DEF WriteBatch
<1>6. ASSUME NEW r \in Slot, CommitBatch(r) PROVE CommitBatch(w)
  <2>1. \A o \in Slot : o # r => request'[o] = request[o]
    BY <1>1, <1>6, AnswerMoves DEF CommitBatch
  <2>2. r = w
    BY <1>1, <2>1
  <2> QED
    BY <1>6, <2>2
<1>7. ASSUME NEW r \in Slot, RequestFails(r) PROVE FALSE
  BY <1>2, <1>7 DEF RequestFails
<1>8. CASE ApiCrash
  <2>1. request'[w] = IF request[w].pc = "answered" THEN request[w] ELSE Answered(request[w], 0)
    BY <1>1, <1>8 DEF ApiCrash
  <2>2. Answered(request[w], 0).code = 0
    BY <1>1 DEF Answered, NoRequest
  <2> QED
    BY <1>1, <2>1, <2>2
<1>9. ASSUME NEW s \in Station, RegisterStation(s) PROVE FALSE
  BY <1>1, <1>9 DEF RegisterStation
<1> QED
  BY <1>4, <1>5, <1>6, <1>7, <1>8, <1>9 DEF ApiStep, RequestWork

LEMMA ApiTraces ==
  ASSUME TracedInv, ApiStep, UNCHANGED <<edgeVars, consumerVars>>
  PROVE  TracedInv'
<1> USE DEF TracedInv
<1>1. FlowInv'
  BY ApiFlow
<1>2. /\ EdgeTidy' /\ Buffered' = Buffered /\ made' = made
      /\ consumer' = consumer /\ InHand' = InHand
      /\ inbox' = inbox /\ Queued' = Queued
  BY ApiMoves DEF EdgeTidy, Publishing, Buffered, InHand, Queued, edgeVars, consumerVars
<1>3. lost' = lost
  BY DEF ApiStep, RequestWork, ReadSentinel, WriteBatch, CommitBatch, RequestFails, ApiCrash,
         RegisterStation, wireVars
<1>4. InTable \subseteq InTable'
  <2>1. CASE stored' = stored
    BY <2>1 DEF InTable
  <2>2. CASE \E r \in Slot : CommitBatch(r)
    BY <2>2, CommitMoves DEF FlowInv
  <2> QED
    BY <2>1, <2>2, ApiMoves
<1>5. ASSUME Confirmed' PROVE InHand \subseteq InTable'
  <2>1. CASE Confirmed
    BY <1>4, <2>1 DEF HandOK
  <2>2. CASE ~Confirmed
    <3>1. CommitBatch(consumer.slot)
      BY <1>2, <1>5, <2>2, SuccessIsCommitted
    <3>2. consumer.pc = "posting" /\ consumer.slot \in Slot
      BY <1>2, <1>5 DEF Confirmed, FlowInv, TypeInv, RequestsOK
    <3>3. /\ request[consumer.slot].payload # Null
          /\ InTable' = InTable \cup request[consumer.slot].payload.events
      BY <3>1, <3>2, CommitMoves DEF FlowInv
    <3> QED
      BY <3>2, <3>3 DEF HandOK, InHand
  <2> QED
    BY <2>1, <2>2
<1>6. HandOK'
  <2>1. ASSUME consumer.pc = "posting", request'[consumer.slot].payload # Null
        PROVE  request'[consumer.slot].payload = consumer.payload
    <3>1. consumer.slot \in Slot
      BY <2>1 DEF FlowInv, TypeInv, RequestsOK
    <3> QED
      BY <2>1, <3>1, ApiMoves DEF HandOK
  <2> QED
    BY <1>2, <1>5, <2>1 DEF HandOK
<1>7. (1 .. made)' \subseteq Kept' \cup InTable'
  BY <1>2, <1>3, <1>4 DEF Kept
<1> QED
  BY <1>1, <1>2, <1>6, <1>7

LEMMA NextTraced == TracedInv /\ [Next]_vars => TracedInv'
<1> SUFFICES ASSUME TracedInv, [Next]_vars PROVE TracedInv'
  OBVIOUS
<1>1. CASE UNCHANGED vars
  <2>1. FlowInv'
    BY NextFlow DEF TracedInv
  <2>2. UNCHANGED <<made, edge, inbox, lost, stored, request, consumer>>
    BY <1>1 DEF vars, edgeVars, wireVars, apiVars, consumerVars
  <2> QED
    BY <2>1, <2>2 DEF TracedInv, EdgeTidy, Publishing, HandOK, Confirmed, Kept, Buffered,
        Queued, InHand, InTable
<1> QED
  BY <1>1, EdgeTraces, ConsumerTraces, ApiTraces DEF Next, Idle

(* No detection vanishes: whatever crashes, is lost or overlaps, each is on  *)
(* its way, in the table, or was given up by a step that says so.            *)
THEOREM NothingLost == Spec => []NothingVanishes
<1>1. TracedInv => NothingVanishes
  BY DEF TracedInv, NothingVanishes, Kept, Pending
<1> QED
  BY <1>1, InitTraced, NextTraced, PTL DEF Spec

-----------------------------------------------------------------------------
(* The order of the detections.                                              *)

Before(A, B) == \A d \in A, e \in B : d < e

(* The invariant.  What is further on its way was made earlier: a batch that *)
(* was sent is ahead of the queue and of the edge, the queue is in order and *)
(* ahead of the edge, and a batch inside a publish is ahead of the buffer.   *)
Ahead(b) ==
  /\ Before(b.events, Held(b.station))
  /\ \A i \in DOMAIN inbox :
       inbox[i].station = b.station => Before(b.events, inbox[i].events)

QueueInOrder ==
  /\ \A s \in Station : Before(edge[s].out, edge[s].buffer)
  /\ \A i \in DOMAIN inbox : Before(inbox[i].events, Held(inbox[i].station))
  /\ \A i, j \in DOMAIN inbox :
       i < j /\ inbox[i].station = inbox[j].station => Before(inbox[i].events, inbox[j].events)

SentAhead ==
  /\ \A k \in DOMAIN stored : Ahead(stored[k])
  /\ consumer.payload # Null => Ahead(consumer.payload)
  /\ \A r \in Slot : request[r].payload # Null => Ahead(request[r].payload)

(* What the consumer has in hand comes after what is stored, unless it is    *)
(* itself stored and confirmed, or one of the two is doubted.                *)
InHandLast ==
  ~Confirmed /\ consumer.payload # Null =>
    \A k \in DOMAIN stored :
      \/ stored[k].station # consumer.payload.station
      \/ (stored[k].events \cup consumer.payload.events) \cap doubted # {}
      \/ Before(stored[k].events, consumer.payload.events)

OrderInv == FlowInv /\ QueueInOrder /\ SentAhead /\ InHandLast /\ StoredInOrder

LEMMA InitOrder == Init => OrderInv
<1> SUFFICES ASSUME Init PROVE OrderInv
  OBVIOUS
<1>1. /\ \A s \in Station : edge[s].buffer = {} /\ edge[s].out = {}
      /\ inbox = <<>> /\ stored = <<>> /\ consumer.payload = Null
      /\ \A r \in Slot : request[r].payload = Null
  BY DEF Init, EdgeInit, WireInit, ApiInit, ConsumerInit, Fresh, Started, NoRequest
<1>2. QueueInOrder
  BY <1>1 DEF QueueInOrder, Before
<1>3. SentAhead /\ InHandLast /\ StoredInOrder
  BY <1>1 DEF SentAhead, InHandLast, StoredInOrder
<1> QED
  BY <1>2, <1>3, InitFlow DEF OrderInv

LEMMA QueuedStations ==
  ASSUME FlowInv
  PROVE  inbox \in Seq(Message) /\ \A i \in DOMAIN inbox : inbox[i].station \in Station
<1>1. inbox \in Seq(Message)
  BY DEF FlowInv, TypeInv, TypeOK, WireTypeOK
<1>2. \A i \in DOMAIN inbox : inbox[i] \in Message
  BY <1>1
<1> QED
  BY <1>1, <1>2 DEF Message

(* A batch that is ahead stays so while the edge holds no more than before   *)
(* and the queue only shrinks.                                               *)
LEMMA StaysAhead ==
  ASSUME NEW b, Ahead(b), Held(b.station)' \subseteq Held(b.station),
         \A i \in DOMAIN inbox' : \E j \in DOMAIN inbox : inbox'[i] = inbox[j]
  PROVE  Ahead(b)'
  BY DEF Ahead, Before

(* What is stored, in hand or at the API has detections up to `made', of     *)
(* stations that exist.                                                      *)
LEMMA SentNumbered ==
  ASSUME FlowInv
  PROVE  /\ \A k \in DOMAIN stored :
              stored[k].station \in Station /\ stored[k].events \subseteq 1 .. made
         /\ consumer.payload # Null =>
              consumer.payload.station \in Station /\ consumer.payload.events \subseteq 1 .. made
         /\ \A r \in Slot : request[r].payload # Null =>
              request[r].payload.station \in Station /\ request[r].payload.events \subseteq 1 .. made
<1>1. stored \in Seq(Batch) /\ consumer.payload \in Payload \cup {Null}
      /\ \A r \in Slot : request[r].payload \in Payload \cup {Null}
  BY DEF FlowInv, TypeInv, TypeOK, ApiTypeOK, ConsumerTypeOK, Consumer, Request
<1>2. Past \subseteq 1 .. made
  BY DEF FlowInv, Numbered
<1>3. \A k \in DOMAIN stored : stored[k] \in Batch /\ stored[k].events \subseteq InTable
  BY <1>1 DEF InTable
<1>4. consumer.payload # Null => consumer.payload.events \subseteq 1 .. made
  BY <1>2 DEF Past, InHand
<1>5. \A r \in Slot : request[r].payload # Null => request[r].payload.events \subseteq 1 .. made
  BY <1>2, <1>4 DEF FlowInv, Accounted, Past
<1> QED
  BY <1>1, <1>2, <1>3, <1>4, <1>5 DEF Past, Batch, Payload

(* What the order of the path says of the batches that were sent is about    *)
(* the queue and the edges, which only an edge and the consumer change.      *)
LEMMA EdgeOrder ==
  ASSUME OrderInv, NEW s \in Station, EdgeStep(s), UNCHANGED <<apiVars, consumerVars>>
  PROVE  OrderInv'
<1> USE DEF OrderInv
<1>1. FlowInv'
  BY EdgeFlow
<1>2. /\ stored' = stored /\ consumer' = consumer /\ request' = request /\ doubted' = doubted
      /\ InHandLast' /\ StoredInOrder'
  BY DEF apiVars, consumerVars, InHandLast, Confirmed, StoredInOrder
<1>3. made \in Nat /\ inbox \in Seq(Message)
      /\ \A i \in DOMAIN inbox : inbox[i].station \in Station
  BY QueuedStations DEF FlowInv, TypeInv, TypeOK, EdgeTypeOK
<1>4. CASE ProcessFrame(s)
  <2>1. PICK n \in 1 .. MaxDetections - made :
          /\ made' = made + n /\ inbox' = inbox
          /\ \A t \in Station : t # s => edge'[t] = edge[t]
          /\ edge'[s].out = edge[s].out
          /\ edge'[s].buffer = edge[s].buffer \cup (made + 1 .. made + n)
    BY <1>4, FrameMoves DEF FlowInv
  <2> DEFINE new == made + 1 .. made + n
  <2>2. \A E : E \subseteq 1 .. made => Before(E, new)
    BY <1>3 DEF Before
  <2>3. /\ edge'[s].buffer = edge[s].buffer \cup new
        /\ \A t \in Station : t # s => Held(t)' = Held(t)
        /\ Held(s)' = Held(s) \cup new
    BY <2>1 DEF Held
  <2> HIDE DEF new
  <2>4. \A A, B, C : Before(A, B) /\ Before(A, C) => Before(A, B \cup C)
    BY DEF Before
  <2>5. ASSUME NEW t \in Station, NEW E, E \subseteq 1 .. made, Before(E, Held(t))
        PROVE  Before(E, Held(t)')
    <3>1. CASE t = s
      <4>1. Before(E, Held(s) \cup new)
        BY <2>2, <2>4, <2>5, <3>1
      <4>2. Held(t)' = Held(s) \cup new
        BY <2>3, <3>1
      <4> QED
        BY <4>1, <4>2 DEF Before
    <3>2. CASE t # s
      <4>1. Held(t)' = Held(t)
        BY <2>3, <3>2
      <4> QED
        BY <2>5, <4>1 DEF Before
    <3> QED
      BY <3>1, <3>2
  <2>6. QueueInOrder'
    <3>1. edge[s].out \subseteq 1 .. made
      BY DEF FlowInv, Numbered, Held
    <3>2. \A t \in Station : Before(edge'[t].out, edge'[t].buffer)
      <4>1. Before(edge[s].out, edge[s].buffer \cup new)
        BY <2>2, <2>4, <3>1 DEF QueueInOrder
      <4> QED
        BY <2>1, <2>3, <4>1 DEF QueueInOrder
    <3>3. \A i \in DOMAIN inbox : inbox[i].events \subseteq 1 .. made
      BY DEF FlowInv, Numbered
    <3>4. ASSUME NEW i \in DOMAIN inbox, NEW t \in Station, inbox[i].station = t
          PROVE  Before(inbox[i].events, Held(t)')
      BY <2>5, <3>3, <3>4 DEF QueueInOrder
    <3>5. \A i \in DOMAIN inbox' : Before(inbox'[i].events, Held(inbox[i].station)')
      BY <1>3, <2>1, <3>4 DEF Held
    <3> QED
      BY <2>1, <3>2, <3>5 DEF QueueInOrder
  <2>7. ASSUME NEW b, b.station \in Station, b.events \subseteq 1 .. made, Ahead(b)
        PROVE  Ahead(b)'
    BY <2>1, <2>5, <2>7 DEF Ahead
  <2>8. SentAhead'
    BY <1>2, <2>7, SentNumbered DEF SentAhead
  <2> QED
    BY <1>1, <1>2, <2>6, <2>8
<1>5. CASE ~ProcessFrame(s) /\ inbox' = inbox
  <2>1. /\ \A t \in Station : Held(t)' \subseteq Held(t)
        /\ \A t \in Station : Before(edge'[t].out, edge'[t].buffer)
    BY <1>5, EdgeMoves DEF Held, QueueInOrder, Before, FlowInv
  <2>2. QueueInOrder'
    BY <1>3, <1>5, <2>1 DEF QueueInOrder, Before
  <2>3. SentAhead'
    BY <1>2, <1>5, <2>1, StaysAhead, SentNumbered DEF SentAhead
  <2> QED
    BY <1>1, <1>2, <2>2, <2>3
<1>6. CASE ~ProcessFrame(s) /\ inbox' # inbox
  <2> DEFINE m == [station |-> s, events |-> edge[s].out]
  <2>1. /\ \A t \in Station : t # s => edge'[t] = edge[t]
        /\ \/ edge'[s].buffer = edge[s].buffer /\ edge'[s].out = {}
           \/ edge'[s].buffer = {} /\ edge'[s].out = edge[s].buffer
        /\ inbox' = Append(inbox, m)
    BY <1>6, EdgeMoves DEF Routed, FlowInv
  <2>2. /\ \A t \in Station : t # s => Held(t)' = Held(t)
        /\ Held(s)' = edge[s].buffer
        /\ \A t \in Station : Held(t)' \subseteq Held(t)
        /\ edge[s].out \subseteq Held(s)
        /\ \A t \in Station : Before(edge'[t].out, edge'[t].buffer)
    BY <2>1 DEF Held, QueueInOrder, Before
  <2>3. m \in Message
    BY DEF Message, FlowInv, TypeInv, TypeOK, EdgeTypeOK, Edge
  <2>4. \A i \in DOMAIN inbox' :
          \/ /\ i \in DOMAIN inbox /\ i < Len(inbox) + 1
             /\ inbox'[i].station = inbox[i].station /\ inbox'[i].events = inbox[i].events
          \/ /\ i = Len(inbox) + 1
             /\ inbox'[i].station = s /\ inbox'[i].events = edge[s].out
    BY <1>3, <2>1, <2>3, AppendElements
  <2>5. QueueInOrder'
    <3>1. (\A i \in DOMAIN inbox : Before(inbox[i].events, Held(inbox[i].station)))'
      BY <1>3, <2>2, <2>4 DEF QueueInOrder, Before
    <3>2. (\A i, j \in DOMAIN inbox :
             i < j /\ inbox[i].station = inbox[j].station
               => Before(inbox[i].events, inbox[j].events))'
      <4> SUFFICES ASSUME NEW i \in DOMAIN inbox', NEW j \in DOMAIN inbox', i < j,
                          inbox'[i].station = inbox'[j].station
                   PROVE  Before(inbox'[i].events, inbox'[j].events)
        OBVIOUS
      <4>1. i \in DOMAIN inbox /\ inbox'[i].station = inbox[i].station
            /\ inbox'[i].events = inbox[i].events
        BY <1>3, <2>1, <2>3, <2>4, AppendElements
      <4> QED
        BY <2>2, <2>4, <4>1 DEF QueueInOrder, Before
    <3> QED
      BY <2>2, <3>1, <3>2 DEF QueueInOrder
  <2>6. ASSUME NEW b, b.station \in Station, Ahead(b) PROVE Ahead(b)'
    BY <2>2, <2>4, <2>6 DEF Ahead, Before
  <2>7. SentAhead'
    BY <1>2, <2>6, SentNumbered DEF SentAhead
  <2> QED
    BY <1>1, <1>2, <2>5, <2>7
<1> QED
  BY <1>4, <1>5, <1>6

(* What the consumer has in hand is the head of the queue when it takes it,  *)
(* and is put away when it was confirmed.                                    *)
LEMMA PayloadMoves ==
  ASSUME FlowInv, ConsumerStep
  PROVE  \/ consumer'.payload = Null
         \/ /\ consumer'.payload = consumer.payload
            /\ Confirmed => Confirmed' \/ InHand \subseteq doubted'
         \/ /\ inbox # <<>> /\ inbox' = Tail(inbox) /\ doubted' = doubted
            /\ consumer'.payload.station = Head(inbox).station
            /\ consumer'.payload.events = Head(inbox).events
<1> USE DEF FlowInv
<1>1. /\ request \in [Slot -> Request] /\ consumer \in Consumer
      /\ consumer.pc = "posting" => consumer.payload # Null /\ consumer.slot \in Slot
  BY DEF TypeInv, TypeOK, ApiTypeOK, ConsumerTypeOK, RequestsOK
<1>2. \/ Retried(consumer).payload = Null
      \/ Retried(consumer).payload = consumer.payload
  BY <1>1, ConsumerUpdates
<1>3. NextMessage(consumer).payload = Null
  BY <1>1, ConsumerUpdates
<1>4. CASE Subscribe \/ Reconnect \/ StopListening
  BY <1>1, <1>4 DEF Subscribe, Reconnect, StopListening, Confirmed, Consumer
<1>5. CASE LoseSubscription
  BY <1>5 DEF LoseSubscription, apiVars, consumerVars, Confirmed
<1>6. CASE RequestConsumerStop
  <2>1. /\ consumer'.pc = consumer.pc /\ consumer'.payload = consumer.payload
        /\ consumer'.slot = consumer.slot /\ request' = request
    BY <1>1, <1>6 DEF RequestConsumerStop, Consumer, apiVars
  <2> QED
    BY <2>1 DEF Confirmed
<1>7. CASE Receive
  <2>1. CASE consumer' = consumer
    BY <1>7, <2>1 DEF Receive, Confirmed
  <2>2. CASE \E ended \in {clock, clock + 1} :
               consumer' = [consumer EXCEPT !.pc = "sending", !.attempt = 1,
                  !.payload = [station |-> Head(inbox).station, events |-> Head(inbox).events,
                               started |-> clock, ended |-> ended]]
    <3>1. /\ consumer'.payload.station = Head(inbox).station
          /\ consumer'.payload.events = Head(inbox).events
      BY <1>1, <2>2 DEF Consumer
    <3> QED
      BY <1>7, <3>1 DEF Receive
  <2> QED
    BY <1>7, <2>1, <2>2 DEF Receive
<1>8. CASE Post
  BY <1>1, <1>8 DEF Post, Confirmed, Consumer
<1>9. CASE HandleResponse
  BY <1>2, <1>3, <1>9 DEF HandleResponse, Confirmed
<1>10. CASE PostTimesOut
  BY <1>1, <1>2, <1>10 DEF PostTimesOut, InHand
<1>11. CASE ConsumerCrash
  BY <1>11 DEF ConsumerCrash, Fresh
<1>12. CASE ConsumerStarts
  BY <1>12 DEF ConsumerStarts, Fresh
<1> QED
  BY <1>4, <1>5, <1>6, <1>7, <1>8, <1>9, <1>10, <1>11, <1>12 DEF ConsumerStep, ConsumerWork

LEMMA ConsumerOrder ==
  ASSUME OrderInv, ConsumerStep, UNCHANGED edgeVars
  PROVE  OrderInv'
<1> USE DEF OrderInv
<1>1. FlowInv'
  BY ConsumerFlow
<1>2. /\ \A s : Held(s)' = Held(s)
      /\ edge' = edge /\ stored' = stored /\ doubted \subseteq doubted'
      /\ \A r \in Slot : request'[r].payload \in {request[r].payload, Null, consumer.payload}
  BY ConsumerMoves DEF edgeVars, Held
<1>3. inbox \in Seq(Message) /\ \A i \in DOMAIN inbox : inbox[i].station \in Station
  BY QueuedStations
<1>4. \/ inbox' = inbox \/ inbox' = <<>>
      \/ /\ inbox # <<>> /\ inbox' = Tail(inbox)
         /\ 1 \in DOMAIN inbox /\ Head(inbox) = inbox[1]
         /\ \A i \in DOMAIN inbox' :
              i \in Nat \ {0} /\ i + 1 \in DOMAIN inbox /\ inbox'[i] = inbox[i + 1]
  BY <1>3, ConsumerMoves, TailElements
<1>5. \A i \in DOMAIN inbox' : \E j \in DOMAIN inbox : inbox'[i] = inbox[j]
  BY <1>4
<1>6. QueueInOrder'
  <2>1. CASE inbox' = inbox \/ inbox' = <<>>
    BY <1>2, <2>1 DEF QueueInOrder
  <2>2. CASE \A i \in DOMAIN inbox' :
               i \in Nat \ {0} /\ i + 1 \in DOMAIN inbox /\ inbox'[i] = inbox[i + 1]
    <3>1. (\A i \in DOMAIN inbox : Before(inbox[i].events, Held(inbox[i].station)))'
      BY <1>2, <2>2 DEF QueueInOrder
    <3>2. (\A i, j \in DOMAIN inbox :
             i < j /\ inbox[i].station = inbox[j].station
               => Before(inbox[i].events, inbox[j].events))'
      <4> SUFFICES ASSUME NEW i \in DOMAIN inbox', NEW j \in DOMAIN inbox', i < j,
                          inbox'[i].station = inbox'[j].station
                   PROVE  Before(inbox'[i].events, inbox'[j].events)
        OBVIOUS
      <4>1. i + 1 < j + 1
        BY <2>2
      <4> QED
        BY <2>2, <4>1 DEF QueueInOrder
    <3> QED
      BY <1>2, <3>1, <3>2 DEF QueueInOrder
  <2> QED
    BY <1>4, <2>1, <2>2
<1>7. ASSUME NEW b, Ahead(b) PROVE Ahead(b)'
  BY <1>2, <1>5, <1>7, StaysAhead
<1>8. CASE /\ inbox # <<>> /\ inbox' = Tail(inbox) /\ doubted' = doubted
           /\ consumer'.payload.station = Head(inbox).station
           /\ consumer'.payload.events = Head(inbox).events
  <2>1. /\ 1 \in DOMAIN inbox /\ Head(inbox) = inbox[1]
        /\ \A i \in DOMAIN inbox' :
             i \in Nat \ {0} /\ i + 1 \in DOMAIN inbox /\ inbox'[i] = inbox[i + 1]
    BY <1>3, <1>8, TailElements
  <2>2. Ahead(consumer.payload)'
    <3>1. Before(inbox[1].events, Held(inbox[1].station))
      BY <2>1 DEF QueueInOrder
    <3>2. \A i \in DOMAIN inbox' :
            inbox'[i].station = inbox[1].station => Before(inbox[1].events, inbox'[i].events)
      BY <2>1 DEF QueueInOrder
    <3>3. consumer'.payload.station = inbox[1].station
          /\ consumer'.payload.events = inbox[1].events
      BY <1>8, <2>1
    <3> QED
      BY <1>2, <3>1, <3>2, <3>3 DEF Ahead, Held
  <2>3. \A k \in DOMAIN stored :
          \/ stored[k].station # consumer'.payload.station
          \/ Before(stored[k].events, consumer'.payload.events)
    BY <1>8, <2>1 DEF SentAhead, Ahead
  <2> QED
    BY <1>1, <1>2, <1>6, <1>7, <1>8, <2>2, <2>3
    DEF SentAhead, InHandLast, StoredInOrder
<1>9. CASE consumer'.payload = Null
  BY <1>1, <1>2, <1>6, <1>7, <1>9 DEF SentAhead, InHandLast, StoredInOrder
<1>10. CASE /\ consumer'.payload = consumer.payload
            /\ Confirmed => Confirmed' \/ InHand \subseteq doubted'
  <2>1. SentAhead'
    BY <1>2, <1>7, <1>10 DEF SentAhead
  <2>2. InHandLast'
    <3>1. CASE Confirmed' \/ ~Confirmed
      BY <1>2, <1>10, <3>1 DEF InHandLast
    <3>2. CASE InHand \subseteq doubted'
      <4>1. consumer.payload # Null => consumer.payload.events \subseteq doubted'
        BY <3>2 DEF InHand
      <4> QED
        BY <1>2, <1>10, <4>1 DEF InHandLast, Before
    <3> QED
      BY <1>10, <3>1, <3>2
  <2>3. StoredInOrder'
    BY <1>2 DEF StoredInOrder
  <2> QED
    BY <1>1, <1>6, <2>1, <2>2, <2>3
<1> QED
  BY <1>8, <1>9, <1>10, PayloadMoves

(* A commit stores the batch of its request behind the others, if that has   *)
(* detections at all.                                                        *)
LEMMA BatchMoves ==
  ASSUME TypeInv, NEW r \in Slot, CommitBatch(r)
  PROVE  /\ request[r].payload # Null /\ request[r].pc = "written"
         /\ \/ stored' = stored
            \/ /\ request[r].payload.events # {}
               /\ \A i \in DOMAIN stored' :
                    \/ i \in DOMAIN stored /\ i < Len(stored) + 1 /\ stored'[i] = stored[i]
                    \/ /\ i = Len(stored) + 1
                       /\ stored'[i].station = request[r].payload.station
                       /\ stored'[i].events = request[r].payload.events
<1> DEFINE p == request[r].payload
           b == [station |-> p.station, events |-> p.events, at |-> p.ended]
<1>1. p # Null /\ p \in Payload /\ stored \in Seq(Batch) /\ request[r].pc = "written"
  BY DEF CommitBatch, TypeInv, TypeOK, ApiTypeOK, RequestsOK, Request
<1>2. b \in Batch
  BY <1>1 DEF Payload, Batch
<1>3. CASE p.events = {}
  BY <1>1, <1>3 DEF CommitBatch
<1>4. CASE p.events # {}
  <2>1. stored' = Append(stored, b)
    BY <1>4 DEF CommitBatch
  <2>2. \A i \in DOMAIN stored' :
          \/ i \in DOMAIN stored /\ i < Len(stored) + 1 /\ stored'[i] = stored[i]
          \/ i = Len(stored) + 1 /\ stored'[i] = b
    BY <1>1, <1>2, <2>1, AppendElements
  <2> QED
    BY <1>1, <1>4, <2>2
<1> QED
  BY <1>3, <1>4

LEMMA ApiOrder ==
  ASSUME OrderInv, ApiStep, UNCHANGED <<edgeVars, consumerVars>>
  PROVE  OrderInv'
<1> USE DEF OrderInv
<1>1. FlowInv'
  BY ApiFlow
<1>2. /\ inbox' = inbox /\ edge' = edge /\ consumer' = consumer /\ doubted' = doubted
      /\ \A r \in Slot : request'[r].payload \in {request[r].payload, Null}
  BY ApiMoves DEF edgeVars, consumerVars
<1>3. QueueInOrder' /\ \A b : Ahead(b)' <=> Ahead(b)
  BY <1>2 DEF QueueInOrder, Ahead, Held
<1>4. ASSUME stored' = stored, Confirmed => Confirmed'
      PROVE  OrderInv'
  BY <1>1, <1>2, <1>3, <1>4 DEF SentAhead, InHandLast, StoredInOrder
<1>5. ASSUME NEW r \in Slot, CommitBatch(r)
      PROVE  OrderInv'
  <2> DEFINE p == request[r].payload
  <2>1. /\ p # Null /\ request[r].pc = "written" /\ Ahead(p)
        /\ \A o \in Slot : o # r => request'[o] = request[o]
        /\ request[r].awaited => request'[r].pc = "answered" /\ request'[r].code = 201
    <3>1. p # Null /\ request[r].pc = "written"
      BY <1>5, BatchMoves DEF FlowInv
    <3>2. Answer(r, 201)
      BY <1>5 DEF CommitBatch
    <3> QED
      BY <3>1, <3>2, AnswerMoves DEF SentAhead, FlowInv
  <2>2. \/ p.events \subseteq doubted
        \/ consumer.pc = "posting" /\ consumer.slot = r /\ p = consumer.payload
    BY <2>1 DEF FlowInv, Accounted
  <2>3. Confirmed => Confirmed'
    BY <1>2, <2>1 DEF Confirmed, FlowInv, TypeInv, RequestsOK
  <2>4. consumer.pc = "posting" /\ consumer.slot = r => ~Confirmed /\ Confirmed'
    BY <1>2, <2>1 DEF Confirmed, FlowInv, TypeInv, RequestsOK
  <2>5. CASE stored' = stored
    BY <1>4, <2>3, <2>5
  <2>6. CASE /\ p.events # {}
             /\ \A i \in DOMAIN stored' :
                  \/ i \in DOMAIN stored /\ i < Len(stored) + 1 /\ stored'[i] = stored[i]
                  \/ /\ i = Len(stored) + 1
                     /\ stored'[i].station = p.station /\ stored'[i].events = p.events
    <3>1. SentAhead'
      <4>1. \A k \in DOMAIN stored' : Ahead(stored'[k])
        BY <2>1, <2>6 DEF SentAhead, Ahead
      <4> QED
        BY <1>2, <1>3, <4>1 DEF SentAhead
    <3>2. ASSUME NEW k \in DOMAIN stored
          PROVE  \/ stored[k].station # p.station
                 \/ (stored[k].events \cup p.events) \cap doubted # {}
                 \/ Before(stored[k].events, p.events)
      BY <2>1, <2>2, <2>4, <2>6 DEF InHandLast
    <3>3. StoredInOrder'
      <4> SUFFICES ASSUME NEW i \in DOMAIN stored', NEW j \in DOMAIN stored', i < j,
                          stored'[i].station = stored'[j].station,
                          (stored'[i].events \cup stored'[j].events) \cap doubted = {}
                   PROVE  Before(stored'[i].events, stored'[j].events)
        <5>1. DOMAIN stored' \subseteq Nat
          BY <1>1 DEF FlowInv, TypeInv, TypeOK, ApiTypeOK
        <5> QED
          BY <1>2, <5>1 DEF StoredInOrder, Before
      <4>0. DOMAIN stored = 1 .. Len(stored) /\ Len(stored) \in Nat
        BY DEF FlowInv, TypeInv, TypeOK, ApiTypeOK
      <4>1. i \in DOMAIN stored /\ stored'[i] = stored[i]
        BY <2>6, <4>0
      <4>2. CASE j \in DOMAIN stored /\ stored'[j] = stored[j]
        BY <4>0, <4>1, <4>2 DEF StoredInOrder, Before
      <4>3. CASE stored'[j].station = p.station /\ stored'[j].events = p.events
        BY <3>2, <4>1, <4>3
      <4> QED
        BY <2>6, <4>2, <4>3
    <3>4. InHandLast'
      <4>1. CASE p.events \subseteq doubted
        BY <1>2, <2>3, <2>6, <4>1 DEF InHandLast
      <4>2. CASE consumer.pc = "posting" /\ consumer.slot = r
        BY <2>4, <4>2 DEF InHandLast
      <4> QED
        BY <2>2, <4>1, <4>2
    <3> QED
      BY <1>1, <1>3, <3>1, <3>3, <3>4
  <2> QED
    BY <1>5, <2>5, <2>6, BatchMoves DEF FlowInv
<1>6. CASE /\ stored' = stored
           /\ \A r \in Slot : r = consumer.slot /\ Confirmed => request'[r] = request[r]
  <2>1. Confirmed => Confirmed'
    BY <1>2, <1>6 DEF Confirmed, FlowInv, TypeInv, RequestsOK
  <2> QED
    BY <1>4, <1>6, <2>1
<1> QED
  BY <1>5, <1>6, ApiMoves DEF OrderInv

LEMMA NextOrder == OrderInv /\ [Next]_vars => OrderInv'
<1> SUFFICES ASSUME OrderInv, [Next]_vars PROVE OrderInv'
  OBVIOUS
<1>1. CASE UNCHANGED vars
  <2>1. FlowInv'
    BY NextFlow DEF OrderInv
  <2>2. UNCHANGED <<edge, inbox, stored, request, consumer, doubted>>
    BY <1>1 DEF vars, edgeVars, wireVars, apiVars, consumerVars
  <2>3. \A b : Ahead(b)' <=> Ahead(b)
    BY <2>2 DEF Ahead, Held
  <2> QED
    BY <2>1, <2>2, <2>3 DEF OrderInv, QueueInOrder, SentAhead, InHandLast, StoredInOrder,
        Confirmed, Held
<1> QED
  BY <1>1, EdgeOrder, ConsumerOrder, ApiOrder DEF Next, Idle

(* Neither drops, retries, timeouts, crashes nor overlapping requests let a  *)
(* detection overtake an earlier one of its station, as long as neither was  *)
(* in a POST that went unanswered.                                           *)
THEOREM OrderKept == Spec => []StoredInOrder
<1>1. OrderInv => StoredInOrder
  BY DEF OrderInv
<1> QED
  BY <1>1, InitOrder, NextOrder, PTL DEF Spec
=============================================================================
