---------------------------- MODULE EdgePipeline ----------------------------
(***************************************************************************)
(* The edge process of a station (edge/main.py) and the publishing half of *)
(* MqttClient: frames become detections in a buffer, a timer drains the    *)
(* buffer into one batch at a time and publishes it to the broker.         *)
(* Detections are numbered in the order they are made.                     *)
(***************************************************************************)
EXTENDS EdgeWire

CONSTANT MaxDetections   \* bound on the detections of a behaviour

ASSUME DetectionsAssumption == MaxDetections \in Nat

VARIABLES
    made,     \* how many detections were made so far, by all edges
    edge      \* per station: the state of its edge process

edgeVars == <<made, edge>>

(* `pc' is where `run' is, `timer' where `_flush_timer' is; `out' is the     *)
(* batch inside a publish.  `link' says that MqttClient is still connected.  *)
Edge == [pc : {"connecting", "reading", "finishing", "stopped"},
         timer : {"asleep", "publishing", "done"},
         link : BOOLEAN, stop : BOOLEAN,
         buffer : SUBSET Nat, out : SUBSET Nat]

Started == [pc |-> "connecting", timer |-> "asleep", link |-> FALSE,
            stop |-> FALSE, buffer |-> {}, out |-> {}]

EdgeInit == made = 0 /\ edge = [s \in Station |-> Started]

Publishing(s) == edge[s].timer = "publishing" \/ edge[s].pc = "finishing"

-----------------------------------------------------------------------------
(* `async with MqttClient()'.  A connect that fails ends the process, and    *)
(* whatever supervises it starts it again.                                   *)
Connect(s) ==
    /\ edge[s].pc = "connecting"
    /\ edge' = [edge EXCEPT ![s].pc = "reading", ![s].link = TRUE]
    /\ UNCHANGED <<made, wireVars>>

(* `_process_frame': a frame that passes the trigger adds one detection per  *)
(* marker.  The frame being read when the process is told to stop still      *)
(* counts.  No look at publish_max_events: the buffer has no limit.          *)
ProcessFrame(s) ==
    /\ edge[s].pc = "reading"
    /\ \E n \in 1 .. MaxDetections - made :                          \* bound
         /\ made' = made + n
         /\ edge' = [edge EXCEPT ![s].buffer = @ \cup (made + 1 .. made + n)]
    /\ UNCHANGED wireVars

(* Mutant of TimerFlush: the buffer is copied but not cleared.               *)
TimerFlushUncleared(s) ==
    /\ edge[s].pc = "reading" /\ edge[s].timer = "asleep"
    /\ edge[s].buffer # {}
    /\ edge' = [edge EXCEPT ![s].timer = "publishing", ![s].out = edge[s].buffer]
    /\ UNCHANGED <<made, wireVars>>

(* `_flush(final=False)': the buffer is drained into one batch.              *)
TimerFlush(s) ==
    /\ edge[s].pc = "reading" /\ edge[s].timer = "asleep"
    /\ edge[s].buffer # {}
    /\ edge' = [edge EXCEPT ![s].timer = "publishing",
                            ![s].out = edge[s].buffer, ![s].buffer = {}]
    /\ UNCHANGED <<made, wireVars>>

(* After a publish the timer sleeps again unless it was told to stop, and    *)
(* the final flush is the last thing `run' does.                             *)
Published(e) ==
    [e EXCEPT !.out = {},
              !.pc = IF @ = "finishing" THEN "stopped" ELSE @,
              !.timer = IF e.stop THEN "done" ELSE "asleep"]

PublishDone(s) ==
    /\ Publishing(s) /\ edge[s].link
    /\ ToBroker(s, edge[s].out)
    /\ edge' = [edge EXCEPT ![s] = Published(@)]
    /\ UNCHANGED <<made, online, faults>>

(* Mutant of PublishFails: the exception ends the timer's task.              *)
PublishFailsForGood(s) ==
    /\ Publishing(s) /\ ~edge[s].link
    /\ lost' = lost \cup edge[s].out
    /\ edge' = [edge EXCEPT ![s] = [Published(@) EXCEPT !.timer = "done"]]
    /\ UNCHANGED <<made, inbox, online, faults>>

(* "publish failed; dropping ... events".  Nothing reconnects the client, so *)
(* once the connection is lost every later batch ends here.                  *)
PublishFails(s) ==
    /\ Publishing(s) /\ ~edge[s].link
    /\ lost' = lost \cup edge[s].out
    /\ edge' = [edge EXCEPT ![s] = Published(@)]
    /\ UNCHANGED <<made, inbox, online, faults>>

RequestStop(s) ==
    /\ edge[s].pc = "reading" /\ ~edge[s].stop
    /\ edge' = [edge EXCEPT ![s].stop = TRUE]
    /\ UNCHANGED <<made, wireVars>>

(* Mutant of LeaveLoop: the final flush does not drain the buffer.           *)
LeaveLoopUndrained(s) ==
    /\ edge[s].pc = "reading" /\ edge[s].stop
    /\ edge' = [edge EXCEPT ![s].pc = "finishing", ![s].timer = "done",
                            ![s].out = {}, ![s].buffer = {}]
    /\ UNCHANGED <<made, wireVars>>

(* `run' leaves its loop and cancels the timer.  A publish cut short by that *)
(* has written its batch to the socket unless the socket would not take it,  *)
(* which counts as a fault.  Then the final flush takes what is buffered,    *)
(* and publishes it even if it is nothing.                                   *)
LeaveLoop(s) ==
    LET cut == edge[s].timer = "publishing"
    IN  /\ edge[s].pc = "reading" /\ edge[s].stop
        /\ \/ /\ cut /\ edge[s].link
              /\ ToBroker(s, edge[s].out)
              /\ UNCHANGED faults
           \/ /\ cut /\ Fault
              /\ lost' = lost \cup edge[s].out
              /\ UNCHANGED inbox
           \/ /\ ~cut \/ ~edge[s].link
              /\ lost' = lost \cup edge[s].out
              /\ UNCHANGED <<inbox, faults>>
        /\ edge' = [edge EXCEPT ![s].pc = "finishing", ![s].timer = "done",
                                ![s].out = edge[s].buffer, ![s].buffer = {}]
        /\ UNCHANGED <<made, online>>

(* The connection to the broker breaks.                                      *)
LoseLink(s) ==
    /\ edge[s].link /\ edge[s].pc # "stopped" /\ Fault
    /\ edge' = [edge EXCEPT ![s].link = FALSE]
    /\ UNCHANGED <<made, inbox, online, lost>>

(* The process dies and is started again.                                    *)
EdgeCrash(s) ==
    /\ edge[s].pc \in {"reading", "finishing"} /\ Fault
    /\ lost' = lost \cup edge[s].buffer \cup edge[s].out
    /\ edge' = [edge EXCEPT ![s] = Started]
    /\ UNCHANGED <<made, inbox, online>>

(* `main' again, after a stop: detections follow the heartbeat of the stop.  *)
(* It is not a fault, but bounded like one.                                  *)
EdgeStarts(s) ==
    /\ edge[s].pc = "stopped" /\ Fault
    /\ edge' = [edge EXCEPT ![s] = Started]
    /\ UNCHANGED <<made, inbox, online, lost>>

EdgeWork(s) ==
    \/ Connect(s) \/ TimerFlush(s) \/ PublishDone(s) \/ PublishFails(s) \/ LeaveLoop(s)

EdgeStep(s) ==
    \/ EdgeWork(s)
    \/ ProcessFrame(s)
    \/ RequestStop(s) \/ LoseLink(s) \/ EdgeCrash(s) \/ EdgeStarts(s)

EdgeTypeOK ==
    /\ made \in Nat
    /\ edge \in [Station -> Edge]
=============================================================================
