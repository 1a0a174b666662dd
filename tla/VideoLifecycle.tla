---------------------------- MODULE VideoLifecycle ----------------------------
(***************************************************************************)
(* The life of a row of video_files and of the file it names: the upload,  *)
(* the background task that processes it, and the retry scheduler, whose   *)
(* passes come from its own loop and from POST /admin/scheduler/tick and   *)
(* may overlap.  Every task commits through a session of its own, so what  *)
(* it read may be out of date when it writes.                              *)
(*                                                                         *)
(* How long a step takes is left open.  A row whose updated_at is further  *)
(* back than stale_threshold_minutes is in `overdue'; any CREATED or       *)
(* PROCESSING row can get there, since nothing touches updated_at while a  *)
(* video waits for the process pool or is being recognised.                *)
(*                                                                         *)
(* Beside the uploaded videos there is one row per edge station, its       *)
(* sentinel: it is created as PROCESSING, names no file, and has no task.  *)
(*                                                                         *)
(* VideoProcessError, the error that is retried without limit, is raised   *)
(* nowhere in the program, so its branches are left out.                   *)
(***************************************************************************)
EXTENDS Integers, FiniteSets

CONSTANTS
    Video,       \* the rows there can be
    Sentinel,    \* those among them that are sentinels of edge stations
    Ticker,      \* who runs scheduler passes: its loop, the admin endpoint
    Background,  \* the process_video_background task of a video
    MaxRetry,    \* scheduler settings: max_retry_attempts
    Permits,     \* scheduler settings: max_concurrent_requests
    MaxFaults    \* bound: how many crashes and refused operations

ASSUME LifecycleAssumption ==
    /\ MaxRetry \in Nat
    /\ Permits \in Nat \ {0}
    /\ Background \notin Ticker
    /\ Sentinel \subseteq Video

VARIABLES
    row,      \* video -> status, retry_count and storage_uri of its row
    overdue,  \* the rows that look stale to the scheduler
    file,     \* video -> how often its file was moved to failed_videos/
    task,     \* runner -> video -> the task processing it
    ticker,   \* ticker -> where its pass is
    picked,   \* ticker -> the stale rows its pass has read
    faults

vars == <<row, overdue, file, task, ticker, picked, faults>>

Runner == Ticker \cup {Background}

Status == {"ABSENT", "CREATED", "PROCESSING", "COMPLETED", "FAILED", "INVALID"}

(* `path' is storage_uri, counted as the moves it reflects: each move to     *)
(* failed_videos/ appends the id of the video to the name once more.         *)
Row == [status : Status, retries : Nat, path : Nat]

(* `count' is the retry_count a task has read, `uri' the storage_uri, and    *)
(* `moved' whether it has moved the file.                                    *)
Task == [pc : {"none", "queued", "starting", "running", "stored", "failing",
               "counting", "failed", "moving", "marking"},
         count : Nat, uri : Nat, moved : BOOLEAN]

NoTask == [pc |-> "none", count |-> 0, uri |-> 0, moved |-> FALSE]

At(r, v, pc) == task[r][v].pc = pc

(* The tasks between their first commit and the one that leaves PROCESSING.  *)
Live(r, v) == task[r][v].pc \in {"running", "stored", "counting"}

Init ==
    /\ row = [v \in Video |-> [status |-> "ABSENT", retries |-> 0, path |-> 0]]
    /\ overdue = {}
    /\ file = [v \in Video |-> 0]
    /\ task = [r \in Runner |-> [v \in Video |-> NoTask]]
    /\ ticker = [k \in Ticker |-> "idle"]
    /\ picked = [k \in Ticker |-> {}]
    /\ faults = 0

(* An UPDATE of the row, which also sets updated_at.                         *)
SetStatus(v, status) ==
    /\ row' = [row EXCEPT ![v].status = status]
    /\ overdue' = overdue \ {v}

Goto(r, v, pc) == task' = [task EXCEPT ![r][v].pc = pc]
Done(r, v)     == task' = [task EXCEPT ![r][v] = NoTask]

-----------------------------------------------------------------------------
(* Processing: `process_video_with_error_handling' and its two callers.      *)

(* The row is committed before the response is sent, and the background task *)
(* starts after it.                                                          *)
Upload(v) ==
    /\ v \notin Sentinel /\ row[v].status = "ABSENT"
    /\ SetStatus(v, "CREATED")
    /\ Goto(Background, v, "starting")
    /\ UNCHANGED <<file, ticker, picked, faults>>

(* `get_or_create_edge_sentinel': the first batch of a station creates the   *)
(* row, and a later one that widens its window updates it and nothing else.  *)
CreateSentinel(v) ==
    /\ v \in Sentinel /\ row[v].status = "ABSENT"
    /\ SetStatus(v, "PROCESSING")
    /\ UNCHANGED <<file, task, ticker, picked, faults>>

ExtendSentinel(v) ==
    /\ v \in Sentinel /\ v \in overdue
    /\ overdue' = overdue \ {v}
    /\ UNCHANGED <<row, file, task, ticker, picked, faults>>

(* A retry waits for one of the scheduler's permits.                         *)
Running == {t \in Ticker \X Video : task[t[1]][t[2]].pc \notin {"none", "queued"}}

(* Mutant of Acquire: one permit is never given out.                         *)
AcquireOneShort(r, v) ==
    /\ At(r, v, "queued")
    /\ Cardinality(Running) < Permits - 1
    /\ Goto(r, v, "starting")
    /\ UNCHANGED <<row, overdue, file, ticker, picked, faults>>

Acquire(r, v) ==
    /\ At(r, v, "queued")
    /\ Cardinality(Running) < Permits
    /\ Goto(r, v, "starting")
    /\ UNCHANGED <<row, overdue, file, ticker, picked, faults>>

Start(r, v) ==
    /\ At(r, v, "starting")
    /\ SetStatus(v, "PROCESSING")
    /\ Goto(r, v, "running")
    /\ UNCHANGED <<file, ticker, picked, faults>>

(* Recognition found detections: events and visits are committed, and the    *)
(* counters of the row with them.  That UPDATE sets updated_at to the start  *)
(* of its transaction, before the recognition, so the row gets no younger.   *)
(* There is nothing to recognise in what a sentinel names.                   *)
StoreEvents(r, v) ==
    /\ At(r, v, "running") /\ v \notin Sentinel
    /\ Goto(r, v, "stored")
    /\ UNCHANGED <<row, overdue, file, ticker, picked, faults>>

Complete(r, v) ==
    /\ task[r][v].pc \in {"running", "stored"} /\ v \notin Sentinel
    /\ SetStatus(v, "COMPLETED")
    /\ Done(r, v)
    /\ UNCHANGED <<file, ticker, picked, faults>>

(* Recognition or the aggregation raises.  A first attempt marks             *)
(* the row FAILED, ...                                                       *)
FailFirst(v) ==
    /\ task[Background][v].pc \in {"running", "stored"}
    /\ SetStatus(v, "FAILED")
    /\ Goto(Background, v, "failed")
    /\ UNCHANGED <<file, ticker, picked, faults>>

(* ... and `process_video_background' marks it once more.                    *)
FailAgain(v) ==
    /\ At(Background, v, "failed")
    /\ SetStatus(v, "FAILED")
    /\ Done(Background, v)
    /\ UNCHANGED <<file, ticker, picked, faults>>

(* A retry rolls back and reads retry_count, ...                             *)
FailRetry(k, v) ==
    /\ task[k][v].pc \in {"running", "stored"}
    /\ task' = [task EXCEPT ![k][v].pc = "counting", ![k][v].count = row[v].retries]
    /\ UNCHANGED <<row, overdue, file, ticker, picked, faults>>

(* Mutant of CountRetry: the status is left at PROCESSING.                   *)
CountRetrySilently(k, v) ==
    /\ At(k, v, "counting")
    /\ row' = [row EXCEPT ![v].retries = task[k][v].count + 1]
    /\ Goto(k, v, "failed")
    /\ UNCHANGED <<overdue, file, ticker, picked, faults>>

(* ... and writes it back incremented, with the status.                      *)
CountRetry(k, v) ==
    /\ At(k, v, "counting")
    /\ row' = [row EXCEPT ![v].status = "FAILED", ![v].retries = task[k][v].count + 1]
    /\ overdue' = overdue \ {v}
    /\ Goto(k, v, "failed")
    /\ UNCHANGED <<file, ticker, picked, faults>>

-----------------------------------------------------------------------------
(* `_handle_retry_failure' and `mark_permanently_failed'.                    *)

(* The row is read again: is the budget exhausted?                           *)
HandleFailure(k, v) ==
    /\ At(k, v, "failed")
    /\ IF row[v].retries >= MaxRetry
         THEN task' = [task EXCEPT ![k][v].pc = "moving", ![k][v].uri = row[v].path]
         ELSE Done(k, v)
    /\ UNCHANGED <<row, overdue, file, ticker, picked, faults>>

(* `move_to_failed': nothing happens if the file is no longer where the row, *)
(* as this session has read it, says.                                        *)
MoveFile(k, v) ==
    LET exists == v \notin Sentinel /\ file[v] = task[k][v].uri
    IN  /\ At(k, v, "moving")
        /\ file' = [file EXCEPT ![v] = IF exists THEN @ + 1 ELSE @]
        /\ task' = [task EXCEPT ![k][v].pc = "marking", ![k][v].moved = exists]
        /\ UNCHANGED <<row, overdue, ticker, picked, faults>>

(* Mutant of MarkInvalid: storage_uri keeps the old place.                   *)
MarkInvalidInPlace(k, v) ==
    /\ At(k, v, "marking")
    /\ SetStatus(v, "INVALID")
    /\ Done(k, v)
    /\ UNCHANGED <<file, ticker, picked, faults>>

MarkInvalid(k, v) ==
    /\ At(k, v, "marking")
    /\ row' = [row EXCEPT ![v].status = "INVALID",
                          ![v].path = IF task[k][v].moved THEN task[k][v].uri + 1 ELSE @]
    /\ overdue' = overdue \ {v}
    /\ Done(k, v)
    /\ UNCHANGED <<file, ticker, picked, faults>>

-----------------------------------------------------------------------------
(* A scheduler pass: `tick'.                                                 *)

(* Mutant of SelectStale: only PROCESSING rows are looked at.                *)
SelectStaleProcessing(k) ==
    /\ ticker[k] = "idle"
    /\ picked' = [picked EXCEPT ![k] = {v \in overdue : row[v].status = "PROCESSING"}]
    /\ ticker' = [ticker EXCEPT ![k] = "marking"]
    /\ UNCHANGED <<row, overdue, file, task, faults>>

(* `_mark_stale_videos' reads the rows that look stale ...                   *)
SelectStale(k) ==
    LET stale == {v \in overdue : row[v].status \in {"CREATED", "PROCESSING"}}
    IN  /\ ticker[k] = "idle"
        /\ picked' = [picked EXCEPT ![k] = stale]
        /\ ticker' = [ticker EXCEPT ![k] = "marking"]
        /\ UNCHANGED <<row, overdue, file, task, faults>>

(* Mutant of MarkStale: a status the column's ENUM does not have.            *)
MarkStaleUnknown(k) ==
    /\ ticker[k] = "marking"
    /\ row' = [v \in Video |-> IF v \in picked[k] THEN [row[v] EXCEPT !.status = "STALE"]
                                                  ELSE row[v]]
    /\ ticker' = [ticker EXCEPT ![k] = "listing"]
    /\ UNCHANGED <<overdue, file, task, picked, faults>>

(* ... and marks them FAILED, whatever has become of them.                   *)
MarkStale(k) ==
    /\ ticker[k] = "marking"
    /\ row' = [v \in Video |-> IF v \in picked[k] THEN [row[v] EXCEPT !.status = "FAILED"]
                                                  ELSE row[v]]
    /\ overdue' = overdue \ picked[k]
    /\ picked' = [picked EXCEPT ![k] = {}]
    /\ ticker' = [ticker EXCEPT ![k] = "listing"]
    /\ UNCHANGED <<file, task, faults>>

(* Mutant of Dispatch: the budget is compared with <= instead of <.          *)
DispatchOneMore(k) ==
    LET failed == {v \in Video : row[v].status = "FAILED" /\ row[v].retries <= MaxRetry}
    IN  /\ ticker[k] = "listing"
        /\ task' = [task EXCEPT ![k] = [v \in Video |->
                      IF v \in failed THEN [NoTask EXCEPT !.pc = "queued"] ELSE @[v]]]
        /\ ticker' = [ticker EXCEPT ![k] = "waiting"]
        /\ UNCHANGED <<row, overdue, file, picked, faults>>

(* `_process_failed_videos' queues a retry of every row within its budget.   *)
Dispatch(k) ==
    LET failed == {v \in Video : row[v].status = "FAILED" /\ row[v].retries < MaxRetry}
    IN  /\ ticker[k] = "listing"
        /\ task' = [task EXCEPT ![k] = [v \in Video |->
                      IF v \in failed THEN [NoTask EXCEPT !.pc = "queued"] ELSE @[v]]]
        /\ ticker' = [ticker EXCEPT ![k] = "waiting"]
        /\ UNCHANGED <<row, overdue, file, picked, faults>>

(* asyncio.gather: the pass ends with the last of its tasks.                 *)
EndTick(k) ==
    /\ ticker[k] = "waiting"
    /\ \A v \in Video : At(k, v, "none")
    /\ ticker' = [ticker EXCEPT ![k] = "idle"]
    /\ UNCHANGED <<row, overdue, file, task, picked, faults>>

-----------------------------------------------------------------------------
(* Time, failing commits and crashes.                                        *)

Age(v) ==
    /\ v \notin overdue
    /\ row[v].status \in {"CREATED", "PROCESSING"}
    /\ overdue' = overdue \cup {v}
    /\ UNCHANGED <<row, file, task, ticker, picked, faults>>

(* The database refuses what the task does next, or a file cannot be moved.  *)
(* Up to the failure handling this is one more failure of the attempt, only  *)
(* that the row stays as it was; later it ends the task.                     *)
TaskError(r, v) ==
    /\ faults < MaxFaults
    /\ faults' = faults + 1
    /\ \/ /\ \/ task[r][v].pc \in {"starting", "counting"}
             \/ r = Background /\ task[r][v].pc \in {"running", "stored"}
          /\ Goto(r, v, "failed")
       \/ /\ task[r][v].pc \in {"failed", "moving", "marking"}
          /\ Done(r, v)
    /\ UNCHANGED <<row, overdue, file, ticker, picked>>

(* A step of a pass that fails counts as having found nothing to do.         *)
PassError(k) ==
    /\ faults < MaxFaults
    /\ faults' = faults + 1
    /\ \/ /\ ticker[k] \in {"idle", "marking"}
          /\ ticker' = [ticker EXCEPT ![k] = "listing"]
       \/ /\ ticker[k] = "listing"
          /\ ticker' = [ticker EXCEPT ![k] = "idle"]
    /\ picked' = [picked EXCEPT ![k] = {}]
    /\ UNCHANGED <<row, overdue, file, task>>

(* The API dies, or is shut down, and starts again; nothing of what was      *)
(* queued or under way is persisted.                                         *)
Crash ==
    /\ faults < MaxFaults
    /\ faults' = faults + 1
    /\ task' = [r \in Runner |-> [v \in Video |-> NoTask]]
    /\ ticker' = [k \in Ticker |-> "idle"]
    /\ picked' = [k \in Ticker |-> {}]
    /\ UNCHANGED <<row, overdue, file>>

TaskStep(r, v) == Start(r, v) \/ StoreEvents(r, v) \/ Complete(r, v)

RetryStep(k, v) ==
    \/ Acquire(k, v) \/ FailRetry(k, v) \/ CountRetry(k, v)
    \/ HandleFailure(k, v) \/ MoveFile(k, v) \/ MarkInvalid(k, v)

TickStep(k) == SelectStale(k) \/ MarkStale(k) \/ Dispatch(k) \/ EndTick(k)

Next ==
    \/ \E v \in Video :
         \/ Upload(v) \/ CreateSentinel(v) \/ ExtendSentinel(v)
         \/ FailFirst(v) \/ FailAgain(v) \/ Age(v)
         \/ \E r \in Runner : TaskStep(r, v) \/ TaskError(r, v)
         \/ \E k \in Ticker : RetryStep(k, v)
    \/ \E k \in Ticker : TickStep(k) \/ PassError(k)
    \/ Crash

Spec == Init /\ [][Next]_vars

(* The event loop runs every task on to its end, the threshold passes for a  *)
(* row nobody updates, and the passes of every ticker go on.                 *)
Fairness ==
    /\ \A v \in Video :
         /\ WF_vars(TaskStep(Background, v) \/ FailFirst(v) \/ FailAgain(v))
         /\ WF_vars(Age(v))
         /\ \A k \in Ticker : WF_vars(TaskStep(k, v) \/ RetryStep(k, v))
    /\ \A k \in Ticker : WF_vars(TickStep(k))

FairSpec == Spec /\ Fairness

-----------------------------------------------------------------------------
(* Properties.                                                               *)

(* The variables keep their shapes.                                          *)
TypeOK ==
    /\ row \in [Video -> Row]
    /\ overdue \in SUBSET Video
    /\ file \in [Video -> Nat]
    /\ task \in [Runner -> [Video -> Task]]
    /\ ticker \in [Ticker -> {"idle", "marking", "listing", "waiting"}]
    /\ picked \in [Ticker -> SUBSET Video]
    /\ faults \in Nat

(* Unless something crashed, an upload that says PROCESSING has a task at    *)
(* work on it that will still write the outcome, however many tasks the      *)
(* scheduler has started on the same video.                                  *)
NoOrphanedProcessing ==
    faults = 0 => \A v \in Video \ Sentinel :
        row[v].status = "PROCESSING" => \E r \in Runner : Live(r, v)

(* Unless something crashed, storage_uri names the place the file is at,     *)
(* except while the one task that has just moved it is about to say so.      *)
FileWhereRecorded ==
    faults = 0 => \A v \in Video :
        \/ row[v].path = file[v]
        \/ \E k \in Ticker : At(k, v, "marking") /\ task[k][v].moved

(* Every uploaded video is processed, given up or at least out of budget     *)
(* some day, even if the API crashes and loses its background tasks: again   *)
(* and again it is, or not uploaded yet.                                     *)
NoVideoForgotten ==
    \A v \in Video \ Sentinel :
        []<>(\/ row[v].status \in {"ABSENT", "COMPLETED", "INVALID"}
             \/ row[v].retries >= MaxRetry)

(* Every scheduler pass ends, so that the loop runs the next one: no retry   *)
(* waits for a permit for ever.                                              *)
PassesEnd == \A k \in Ticker : []<>(ticker[k] # "waiting")

-----------------------------------------------------------------------------
(* What the documentation says and the code does not do.                     *)

(* README: "After the budget is exhausted, the file is moved to              *)
(* failed_videos/ and the row becomes INVALID".                              *)
ExhaustedBecomesInvalid ==
    \A v \in Video : row[v].status = "FAILED" /\ row[v].retries >= MaxRetry
        ~> row[v].status # "FAILED"
=============================================================================
