---------------------------- MODULE VideoExecutor ----------------------------
(***************************************************************************)
(* The recognition of the registered videos in the shared process pool     *)
(* (src/services/video_executor.py): the background task of every row      *)
(* submits a job, a worker reads the file, and the events are stored.      *)
(*                                                                         *)
(* The pool is created once and never replaced: when a worker dies, every  *)
(* job of the pool fails, and so does every later one until the API is     *)
(* restarted.  What the retry scheduler does about failed and lost videos  *)
(* is VideoLifecycle's matter.                                             *)
(***************************************************************************)
EXTENDS VideoIntake

VARIABLE pool      \* "up", or "broken" after a worker died

(* What there is to find for the station of f in the first n frames of g.    *)
Findings ==
    [f \in Recording |-> [g \in Recording |-> [n \in 0 .. Len(Clip[g]) |->
        Events(Roi[Home[f]], SubSeq(Clip[g], 1, n))]]]

Stage(i, stage) == rows' = [rows EXCEPT ![i].stage = stage]

(* Mutant of SubmitJob: a stage there is not.                                *)
SubmitJobUnknown(i) ==
    /\ rows[i].stage = "queued"
    /\ Stage(i, IF pool = "up" THEN "running" ELSE "failed")
    /\ UNCHANGED <<known, call, pool, storageVars>>

(* `run_in_executor': the job waits in the pool for a worker, or is refused.  *)
SubmitJob(i) ==
    /\ rows[i].stage = "queued"
    /\ Stage(i, IF pool = "up" THEN "submitted" ELSE "failed")
    /\ UNCHANGED <<known, call, pool, storageVars>>

(* A worker reads the frames the file has at that time, and the detections   *)
(* become events.  A file that is not whole may not open at all.             *)
EndJob(i) ==
    /\ rows[i].stage = "submitted"
    /\ \E c \in Readings(rows[i].name) :
         \/ /\ c.frames > 0
            /\ rows' = [rows EXCEPT ![i].stage = "done",
                          ![i].found = Findings[rows[i].rec][c.rec][c.frames]]
         \/ /\ c # Whole(rows[i].rec)
            /\ Stage(i, "failed")
    /\ UNCHANGED <<known, call, pool, storageVars>>

(* A worker process is killed: BrokenProcessPool.                            *)
WorkerDies ==
    /\ pool = "up" /\ (\E i \in DOMAIN rows : rows[i].stage = "submitted") /\ Fault
    /\ pool' = "broken"
    /\ rows' = [i \in DOMAIN rows |->
                  IF rows[i].stage = "submitted"
                  THEN [rows[i] EXCEPT !.stage = "failed"] ELSE rows[i]]
    /\ UNCHANGED <<known, call, source, cold>>

(* The API dies and starts again: connections break, jobs are lost, and the  *)
(* pool is a new one.                                                        *)
ApiRestarts ==
    /\ Fault
    /\ call' = [r \in Slot |-> IF call[r].pc \in {"free", "answered"} THEN call[r]
                               ELSE Answered(call[r], 0)]
    /\ rows' = [i \in DOMAIN rows |->
                  IF rows[i].stage \in {"queued", "submitted"}
                  THEN [rows[i] EXCEPT !.stage = "lost"] ELSE rows[i]]
    /\ pool' = "up"
    /\ UNCHANGED <<known, source, cold>>

JobWork == \E i \in DOMAIN rows : SubmitJob(i) \/ EndJob(i)

ExecutorStep == JobWork \/ WorkerDies \/ ApiRestarts
=============================================================================
