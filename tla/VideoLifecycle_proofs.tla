------------------------ MODULE VideoLifecycle_proofs ------------------------
(***************************************************************************)
(* What TLAPS proves about VideoLifecycle and VideoBudget for any number   *)
(* of videos, sentinels and tickers, any retry budget, any number of       *)
(* permits and of faults.                                                  *)
(*                                                                         *)
(* Each theorem has the same three parts: the invariant holds initially,   *)
(* every step preserves it (one proof step per action), and it implies     *)
(* the property.                                                           *)
(***************************************************************************)
EXTENDS VideoBudget, TLAPS

(* What the handlers do to one row or to one task keeps both functions typed. *)
LEMMA RowUpdate ==
  ASSUME NEW f \in [Video -> Row], NEW v \in Video, NEW status \in Status
  PROVE  [f EXCEPT ![v].status = status] \in [Video -> Row]
  BY DEF Row

LEMMA TaskUpdate ==
  ASSUME NEW f \in [Runner -> [Video -> Task]], NEW r \in Runner, NEW v \in Video,
         NEW t \in Task
  PROVE  [f EXCEPT ![r][v] = t] \in [Runner -> [Video -> Task]]
  OBVIOUS

LEMMA GotoUpdate ==
  ASSUME NEW f \in [Runner -> [Video -> Task]], NEW r \in Runner, NEW v \in Video,
         NEW pc \in {"none", "queued", "starting", "running", "stored",
                     "failing", "counting", "failed", "moving", "marking"}
  PROVE  [f EXCEPT ![r][v].pc = pc] \in [Runner -> [Video -> Task]]
<1>1. [f[r][v] EXCEPT !.pc = pc] \in Task
  BY DEF Task
<1>2. [f[r] EXCEPT ![v] = [f[r][v] EXCEPT !.pc = pc]] \in [Video -> Task]
  BY <1>1
<1> QED
  BY <1>2

(* What they change is that row and that task only.                          *)
LEMMA TaskAt ==
  ASSUME NEW f \in [Runner -> [Video -> Task]], NEW r \in Runner, NEW v \in Video, NEW t
  PROVE  \A q \in Runner, u \in Video :
           [f EXCEPT ![r][v] = t][q][u] = IF q = r /\ u = v THEN t ELSE f[q][u]
  OBVIOUS

LEMMA GotoAt ==
  ASSUME NEW f \in [Runner -> [Video -> Task]], NEW r \in Runner, NEW v \in Video, NEW pc
  PROVE  \A q \in Runner, u \in Video :
           [f EXCEPT ![r][v].pc = pc][q][u] =
             IF q = r /\ u = v THEN [f[q][u] EXCEPT !.pc = pc] ELSE f[q][u]
  OBVIOUS

LEMMA StatusAt ==
  ASSUME NEW f \in [Video -> Row], NEW v \in Video, NEW status
  PROVE  \A u \in Video :
           [f EXCEPT ![v].status = status][u] =
             IF u = v THEN [f[u] EXCEPT !.status = status] ELSE f[u]
  OBVIOUS

(* Every handler keeps the shapes of the rows, the tasks and the passes.     *)
LEMMA InitTypeOK == Init => TypeOK
  BY LifecycleAssumption DEF Init, TypeOK, Row, Status, Task, NoTask, Runner

LEMMA NextTypeOK == TypeOK /\ [Next]_vars => TypeOK'
<1> SUFFICES ASSUME TypeOK, [Next]_vars PROVE TypeOK'
  OBVIOUS
<1> USE DEF TypeOK
<1>a. Background \in Runner /\ Ticker \subseteq Runner
  BY DEF Runner
<1>b. NoTask \in Task
  BY DEF NoTask, Task
<1>c. \A s \in {"CREATED", "PROCESSING", "COMPLETED", "FAILED", "INVALID"} : s \in Status
  BY DEF Status
<1>1. ASSUME NEW v \in Video, Upload(v) PROVE TypeOK'
  BY <1>1, <1>a, <1>c, RowUpdate, GotoUpdate DEF Upload, SetStatus, Goto
<1>2. ASSUME NEW v \in Video, FailFirst(v) PROVE TypeOK'
  BY <1>2, <1>a, <1>c, RowUpdate, GotoUpdate DEF FailFirst, SetStatus, Goto
<1>3. ASSUME NEW v \in Video, FailAgain(v) PROVE TypeOK'
  BY <1>3, <1>a, <1>b, <1>c, RowUpdate, TaskUpdate DEF FailAgain, SetStatus, Done
<1>4. ASSUME NEW v \in Video, Age(v) PROVE TypeOK'
  BY <1>4 DEF Age
<1>5. ASSUME NEW v \in Video, NEW r \in Runner, TaskStep(r, v) PROVE TypeOK'
  <2>1. CASE Start(r, v)
    BY <2>1, <1>c, RowUpdate, GotoUpdate DEF Start, SetStatus, Goto
  <2>2. CASE StoreEvents(r, v)
    BY <2>2, GotoUpdate DEF StoreEvents, Goto
  <2>3. CASE Complete(r, v)
    BY <2>3, <1>b, <1>c, RowUpdate, TaskUpdate DEF Complete, SetStatus, Done
  <2> QED
    BY <1>5, <2>1, <2>2, <2>3 DEF TaskStep
<1>6. ASSUME NEW v \in Video, NEW r \in Runner, TaskError(r, v) PROVE TypeOK'
  <2>1. task' \in [Runner -> [Video -> Task]]
    <3>1. CASE Goto(r, v, "failed")
      BY <3>1, GotoUpdate DEF Goto
    <3>2. CASE Done(r, v)
      BY <3>2, <1>b, TaskUpdate DEF Done
    <3> QED
      BY <1>6, <3>1, <3>2 DEF TaskError
  <2>2. faults' \in Nat
    BY <1>6 DEF TaskError
  <2> QED
    BY <1>6, <2>1, <2>2 DEF TaskError
<1>7. ASSUME NEW v \in Video, NEW k \in Ticker, RetryStep(k, v) PROVE TypeOK'
  <2>a. k \in Runner /\ task[k][v] \in Task /\ row[v] \in Row
    BY <1>a
  <2>1. CASE Acquire(k, v)
    BY <2>1, <2>a, GotoUpdate DEF Acquire, Goto
  <2>2. CASE FailRetry(k, v)
    <3>1. [task[k][v] EXCEPT !.pc = "counting", !.count = row[v].retries] \in Task
      BY <2>a DEF Task, Row
    <3>2. task' = [task EXCEPT ![k][v] =
                     [task[k][v] EXCEPT !.pc = "counting", !.count = row[v].retries]]
      BY <2>2, <2>a DEF FailRetry
    <3>3. task' \in [Runner -> [Video -> Task]]
      BY <2>a, <3>1, <3>2, TaskUpdate
    <3> QED
      BY <2>2, <3>3 DEF FailRetry
  <2>3. CASE CountRetry(k, v)
    <3>1. [row[v] EXCEPT !.status = "FAILED", !.retries = task[k][v].count + 1] \in Row
      <4>1. task[k][v].count + 1 \in Nat
        BY <2>a DEF Task
      <4> QED
        BY <2>a, <1>c, <4>1 DEF Row
    <3>2. row' = [row EXCEPT ![v] =
                    [row[v] EXCEPT !.status = "FAILED", !.retries = task[k][v].count + 1]]
      BY <2>3, <2>a DEF CountRetry
    <3>3. row' \in [Video -> Row]
      BY <3>1, <3>2
    <3>4. task' \in [Runner -> [Video -> Task]]
      BY <2>3, <2>a, GotoUpdate DEF CountRetry, Goto
    <3> QED
      BY <2>3, <3>3, <3>4 DEF CountRetry
  <2>4. CASE HandleFailure(k, v)
    <3>1. CASE row[v].retries >= MaxRetry
      <4>1. [task[k][v] EXCEPT !.pc = "moving", !.uri = row[v].path] \in Task
        BY <2>a DEF Task, Row
      <4>2. task' = [task EXCEPT ![k][v] =
                       [task[k][v] EXCEPT !.pc = "moving", !.uri = row[v].path]]
        BY <2>4, <2>a, <3>1 DEF HandleFailure
      <4>3. task' \in [Runner -> [Video -> Task]]
        BY <2>a, <4>1, <4>2, TaskUpdate
      <4> QED
        BY <2>4, <4>3 DEF HandleFailure
    <3>2. CASE ~(row[v].retries >= MaxRetry)
      <4>1. task' = [task EXCEPT ![k][v] = NoTask]
        BY <2>4, <3>2 DEF HandleFailure, Done
      <4>2. task' \in [Runner -> [Video -> Task]]
        BY <2>a, <1>b, <4>1, TaskUpdate
      <4> QED
        BY <2>4, <4>2 DEF HandleFailure
    <3> QED
      BY <3>1, <3>2
  <2>5. CASE MoveFile(k, v)
    <3> DEFINE exists == v \notin Sentinel /\ file[v] = task[k][v].uri
    <3>1. [task[k][v] EXCEPT !.pc = "marking", !.moved = exists] \in Task
      BY <2>a DEF Task
    <3>2. task' = [task EXCEPT ![k][v] =
                     [task[k][v] EXCEPT !.pc = "marking", !.moved = exists]]
      BY <2>5, <2>a DEF MoveFile
    <3>3. file' \in [Video -> Nat]
      BY <2>5 DEF MoveFile
    <3>4. task' \in [Runner -> [Video -> Task]]
      <4> HIDE DEF exists
      <4> QED
        BY <2>a, <3>1, <3>2, TaskUpdate
    <3> QED
      BY <2>5, <3>3, <3>4 DEF MoveFile
  <2>6. CASE MarkInvalid(k, v)
    <3> DEFINE path == IF task[k][v].moved THEN task[k][v].uri + 1 ELSE row[v].path
    <3>1. [row[v] EXCEPT !.status = "INVALID", !.path = path] \in Row
      <4>1. path \in Nat
        BY <2>a DEF Task, Row
      <4> HIDE DEF path
      <4> QED
        BY <2>a, <1>c, <4>1 DEF Row
    <3>2. row' = [row EXCEPT ![v] = [row[v] EXCEPT !.status = "INVALID", !.path = path]]
      BY <2>6, <2>a DEF MarkInvalid
    <3>3. row' \in [Video -> Row]
      <4> HIDE DEF path
      <4> QED
        BY <3>1, <3>2
    <3>4. task' \in [Runner -> [Video -> Task]]
      BY <2>6, <2>a, <1>b, TaskUpdate DEF MarkInvalid, Done
    <3> QED
      BY <2>6, <3>3, <3>4 DEF MarkInvalid
  <2> QED
    BY <1>7, <2>1, <2>2, <2>3, <2>4, <2>5, <2>6 DEF RetryStep
<1>8. ASSUME NEW k \in Ticker, TickStep(k) PROVE TypeOK'
  <2>1. CASE SelectStale(k)
    BY <2>1 DEF SelectStale
  <2>2. CASE MarkStale(k)
    <3>1. \A v \in Video : [row[v] EXCEPT !.status = "FAILED"] \in Row
      BY <1>c DEF Row
    <3> QED
      BY <2>2, <3>1 DEF MarkStale
  <2>3. CASE Dispatch(k)
    <3>1. [NoTask EXCEPT !.pc = "queued"] \in Task
      BY DEF NoTask, Task
    <3>2. task' \in [Runner -> [Video -> Task]]
      BY <2>3, <3>1, <1>a DEF Dispatch
    <3> QED
      BY <2>3, <3>2 DEF Dispatch
  <2>4. CASE EndTick(k)
    BY <2>4 DEF EndTick
  <2> QED
    BY <1>8, <2>1, <2>2, <2>3, <2>4 DEF TickStep
<1>9. CASE Crash
  BY <1>9, <1>b DEF Crash
<1>10. CASE UNCHANGED vars
  BY <1>10 DEF vars
<1>11. ASSUME NEW k \in Ticker, PassError(k) PROVE TypeOK'
  <2>1. faults' \in Nat
    BY <1>11 DEF PassError
  <2>2. /\ ticker' \in [Ticker -> {"idle", "marking", "listing", "waiting"}]
        /\ picked' \in [Ticker -> SUBSET Video]
    BY <1>11 DEF PassError
  <2> QED
    BY <1>11, <2>1, <2>2 DEF PassError
<1>12. ASSUME NEW v \in Video, CreateSentinel(v) PROVE TypeOK'
  BY <1>12, <1>c, RowUpdate DEF CreateSentinel, SetStatus
<1>13. ASSUME NEW v \in Video, ExtendSentinel(v) PROVE TypeOK'
  BY <1>13 DEF ExtendSentinel
<1> QED
  BY <1>1, <1>2, <1>3, <1>4, <1>5, <1>6, <1>7, <1>8, <1>9, <1>10, <1>11, <1>12, <1>13 DEF Next

(* The type invariant of the video life cycle.                               *)
THEOREM TypeCorrect == Spec => []TypeOK
  BY InitTypeOK, NextTypeOK, PTL DEF Spec

-----------------------------------------------------------------------------
(* Without faults, every row that says PROCESSING has a task that is going   *)
(* to write the outcome: NoOrphanedProcessing is inductive next to TypeOK.   *)
LEMMA NextNotOrphaned ==
  TypeOK /\ NoOrphanedProcessing /\ [Next]_vars => NoOrphanedProcessing'
<1> SUFFICES ASSUME TypeOK, NoOrphanedProcessing, [Next]_vars,
                    faults' = 0, NEW u \in Video \ Sentinel,
                    row'[u].status = "PROCESSING"
             PROVE  \E q \in Runner : Live(q, u)'
  BY DEF NoOrphanedProcessing
<1>a. Background \in Runner /\ Ticker \subseteq Runner
  BY DEF Runner
<1>b. /\ row \in [Video -> Row] /\ task \in [Runner -> [Video -> Task]]
      /\ \A q \in Runner, w \in Video : task[q][w] \in Task
      /\ \A w \in Video : row[w] \in Row
      /\ faults \in Nat
  BY DEF TypeOK
(* A step that leaves the row of u alone, and every live task on u too.      *)
<1>c. ASSUME faults' = faults, row'[u].status = row[u].status,
             \A q \in Runner : Live(q, u) => Live(q, u)'
      PROVE  \E q \in Runner : Live(q, u)'
  BY <1>c DEF NoOrphanedProcessing
<1>1. ASSUME NEW v \in Video, Upload(v) PROVE \E q \in Runner : Live(q, u)'
  <2>1. u # v /\ row'[u] = row[u]
    BY <1>1, <1>b, StatusAt DEF Upload, SetStatus, Row
  <2>2. \A q \in Runner : task'[q][u] = task[q][u]
    BY <1>1, <1>a, <1>b, <2>1, GotoAt DEF Upload, Goto
  <2> QED
    BY <1>1, <1>c, <2>1, <2>2 DEF Upload, Live
<1>2. ASSUME NEW v \in Video, FailFirst(v) PROVE \E q \in Runner : Live(q, u)'
  <2>1. u # v /\ row'[u] = row[u]
    BY <1>2, <1>b, StatusAt DEF FailFirst, SetStatus, Row
  <2>2. \A q \in Runner : task'[q][u] = task[q][u]
    BY <1>2, <1>a, <1>b, <2>1, GotoAt DEF FailFirst, Goto
  <2> QED
    BY <1>2, <1>c, <2>1, <2>2 DEF FailFirst, Live
<1>3. ASSUME NEW v \in Video, FailAgain(v) PROVE \E q \in Runner : Live(q, u)'
  <2>1. u # v /\ row'[u] = row[u]
    BY <1>3, <1>b, StatusAt DEF FailAgain, SetStatus, Row
  <2>2. \A q \in Runner : task'[q][u] = task[q][u]
    BY <1>3, <1>a, <1>b, <2>1, TaskAt DEF FailAgain, Done
  <2> QED
    BY <1>3, <1>c, <2>1, <2>2 DEF FailAgain, Live
<1>4. ASSUME NEW v \in Video, Age(v) PROVE \E q \in Runner : Live(q, u)'
  BY <1>4, <1>c DEF Age, Live
<1>5. ASSUME NEW v \in Video, NEW r \in Runner, Start(r, v)
      PROVE  \E q \in Runner : Live(q, u)'
  <2>1. CASE u = v
    <3>1. task'[r][u] = [task[r][u] EXCEPT !.pc = "running"]
      BY <1>5, <1>b, <2>1, GotoAt DEF Start, Goto
    <3> QED
      BY <1>b, <3>1 DEF Live, Task
  <2>2. CASE u # v
    <3>1. row'[u] = row[u]
      BY <1>5, <1>b, <2>2, StatusAt DEF Start, SetStatus
    <3>2. \A q \in Runner : task'[q][u] = task[q][u]
      BY <1>5, <1>b, <2>2, GotoAt DEF Start, Goto
    <3> QED
      BY <1>5, <1>c, <3>1, <3>2 DEF Start, Live
  <2> QED
    BY <2>1, <2>2
<1>6. ASSUME NEW v \in Video, NEW r \in Runner, StoreEvents(r, v)
      PROVE  \E q \in Runner : Live(q, u)'
  <2>1. \A q \in Runner : task'[q][u] =
          IF q = r /\ u = v THEN [task[q][u] EXCEPT !.pc = "stored"] ELSE task[q][u]
    BY <1>6, <1>b, GotoAt DEF StoreEvents, Goto
  <2>2. \A q \in Runner : Live(q, u) => Live(q, u)'
    BY <1>b, <2>1 DEF Live, Task
  <2> QED
    BY <1>6, <1>c, <2>2 DEF StoreEvents
<1>7. ASSUME NEW v \in Video, NEW r \in Runner, Complete(r, v)
      PROVE  \E q \in Runner : Live(q, u)'
  <2>1. u # v /\ row'[u] = row[u]
    BY <1>7, <1>b, StatusAt DEF Complete, SetStatus, Row
  <2>2. \A q \in Runner : task'[q][u] = task[q][u]
    BY <1>7, <1>b, <2>1, TaskAt DEF Complete, Done
  <2> QED
    BY <1>7, <1>c, <2>1, <2>2 DEF Complete, Live
<1>8. ASSUME NEW v \in Video, NEW r \in Runner, TaskError(r, v)
      PROVE  \E q \in Runner : Live(q, u)'
  <2>1. faults' = faults + 1
    BY <1>8 DEF TaskError
  <2> QED
    BY <1>b, <2>1
<1>9. ASSUME NEW v \in Video, NEW k \in Ticker, RetryStep(k, v)
      PROVE  \E q \in Runner : Live(q, u)'
  <2>1. CASE Acquire(k, v)
    <3>1. \A q \in Runner : task'[q][u] =
            IF q = k /\ u = v THEN [task[q][u] EXCEPT !.pc = "starting"] ELSE task[q][u]
      BY <2>1, <1>a, <1>b, GotoAt DEF Acquire, Goto
    <3>2. \A q \in Runner : Live(q, u) => Live(q, u)'
      BY <2>1, <3>1 DEF Acquire, At, Live
    <3> QED
      BY <2>1, <1>c, <3>2 DEF Acquire
  <2>2. CASE FailRetry(k, v)
    <3>1. \A q \in Runner : task'[q][u] =
            IF q = k /\ u = v
              THEN [task[q][u] EXCEPT !.pc = "counting", !.count = row[v].retries]
              ELSE task[q][u]
      BY <2>2, <1>a, <1>b DEF FailRetry
    <3>2. \A q \in Runner : Live(q, u) => Live(q, u)'
      BY <1>b, <3>1 DEF Live, Task
    <3> QED
      BY <2>2, <1>c, <3>2 DEF FailRetry
  <2>3. CASE CountRetry(k, v)
    <3>1. u # v /\ row'[u] = row[u]
      BY <2>3, <1>b DEF CountRetry, Row
    <3>2. \A q \in Runner : task'[q][u] = task[q][u]
      BY <2>3, <1>a, <1>b, <3>1, GotoAt DEF CountRetry, Goto
    <3> QED
      BY <2>3, <1>c, <3>1, <3>2 DEF CountRetry, Live
  <2>4. CASE HandleFailure(k, v)
    <3>1. \A q \in Runner : (q # k \/ u # v) => task'[q][u] = task[q][u]
      <4>1. CASE row[v].retries >= MaxRetry
        BY <2>4, <4>1, <1>a, <1>b DEF HandleFailure
      <4>2. CASE ~(row[v].retries >= MaxRetry)
        BY <2>4, <4>2, <1>a, <1>b, TaskAt DEF HandleFailure, Done
      <4> QED
        BY <4>1, <4>2
    <3>2. \A q \in Runner : Live(q, u) => Live(q, u)'
      BY <2>4, <3>1 DEF HandleFailure, At, Live
    <3> QED
      BY <2>4, <1>c, <3>2 DEF HandleFailure
  <2>5. CASE MoveFile(k, v)
    <3>1. \A q \in Runner : (q # k \/ u # v) => task'[q][u] = task[q][u]
      BY <2>5, <1>a, <1>b DEF MoveFile
    <3>2. \A q \in Runner : Live(q, u) => Live(q, u)'
      BY <2>5, <3>1 DEF MoveFile, At, Live
    <3> QED
      BY <2>5, <1>c, <3>2 DEF MoveFile
  <2>6. CASE MarkInvalid(k, v)
    <3>1. u # v /\ row'[u] = row[u]
      BY <2>6, <1>b DEF MarkInvalid, Row
    <3>2. \A q \in Runner : task'[q][u] = task[q][u]
      BY <2>6, <1>a, <1>b, <3>1, TaskAt DEF MarkInvalid, Done
    <3> QED
      BY <2>6, <1>c, <3>1, <3>2 DEF MarkInvalid, Live
  <2> QED
    BY <1>9, <2>1, <2>2, <2>3, <2>4, <2>5, <2>6 DEF RetryStep
<1>10. ASSUME NEW k \in Ticker, TickStep(k) PROVE \E q \in Runner : Live(q, u)'
  <2>1. CASE SelectStale(k)
    BY <2>1, <1>c DEF SelectStale, Live
  <2>2. CASE MarkStale(k)
    <3>1. row'[u] = row[u]
      BY <2>2, <1>b DEF MarkStale, Row
    <3> QED
      BY <2>2, <1>c, <3>1 DEF MarkStale, Live
  <2>3. CASE Dispatch(k)
    <3>1. row[u].status = "PROCESSING"
      BY <2>3 DEF Dispatch
    <3>2. \A q \in Runner : task'[q][u] = task[q][u]
      BY <2>3, <1>a, <1>b, <3>1 DEF Dispatch
    <3> QED
      BY <2>3, <1>c, <3>2 DEF Dispatch, Live
  <2>4. CASE EndTick(k)
    BY <2>4, <1>c DEF EndTick, Live
  <2> QED
    BY <1>10, <2>1, <2>2, <2>3, <2>4 DEF TickStep
<1>11. CASE Crash
  <2>1. faults' = faults + 1
    BY <1>11 DEF Crash
  <2> QED
    BY <1>b, <2>1
<1>12. CASE UNCHANGED vars
  BY <1>12, <1>c DEF vars, Live
<1>13. ASSUME NEW k \in Ticker, PassError(k) PROVE \E q \in Runner : Live(q, u)'
  <2>1. faults' = faults + 1
    BY <1>13 DEF PassError
  <2> QED
    BY <1>b, <2>1
<1>14. ASSUME NEW v \in Video, CreateSentinel(v) PROVE \E q \in Runner : Live(q, u)'
  <2>1. u # v /\ row'[u] = row[u]
    BY <1>14, <1>b, StatusAt DEF CreateSentinel, SetStatus
  <2> QED
    BY <1>14, <1>c, <2>1 DEF CreateSentinel, Live
<1>15. ASSUME NEW v \in Video, ExtendSentinel(v) PROVE \E q \in Runner : Live(q, u)'
  BY <1>15, <1>c DEF ExtendSentinel, Live
<1> QED
  BY <1>1, <1>2, <1>3, <1>4, <1>5, <1>6, <1>7, <1>8, <1>9, <1>10, <1>11, <1>12, <1>13, <1>14, <1>15
  DEF Next, TaskStep

(* Unless something crashed, no row is left at PROCESSING by all its tasks.  *)
THEOREM NotOrphaned == Spec => []NoOrphanedProcessing
<1>1. Init => NoOrphanedProcessing
  BY DEF Init, NoOrphanedProcessing
<1> QED
  BY <1>1, InitTypeOK, NextTypeOK, NextNotOrphaned, PTL DEF Spec

-----------------------------------------------------------------------------
(* FileWhereRecorded is not inductive: it needs that no task knows a place   *)
(* the row does not name yet, and that at most one task has moved the file   *)
(* without having said so.  A pass that is not waiting has no tasks, so no   *)
(* Dispatch can replace such a task.                                         *)
Pending(k, v) == At(k, v, "marking") /\ task[k][v].moved

IdleInv ==
    \A k \in Ticker : ticker[k] # "waiting" => \A v \in Video : At(k, v, "none")

UriKnown(v) ==
    \A k \in Ticker : task[k][v].pc \in {"moving", "marking"} => task[k][v].uri <= row[v].path

OneMove(v) ==
    \/ row[v].path = file[v] /\ \A k \in Ticker : ~Pending(k, v)
    \/ \E k \in Ticker :
         /\ Pending(k, v)
         /\ task[k][v].uri = row[v].path
         /\ file[v] = row[v].path + 1
         /\ \A l \in Ticker : Pending(l, v) => l = k

MoveInv == faults = 0 => \A v \in Video : UriKnown(v) /\ OneMove(v)

(* A pass has tasks only while it waits for them.                            *)
LEMMA NextIdle == TypeOK /\ IdleInv /\ [Next]_vars => IdleInv'
<1> SUFFICES ASSUME TypeOK, IdleInv, [Next]_vars,
                    NEW l \in Ticker, ticker'[l] # "waiting", NEW u \in Video
             PROVE  At(l, u, "none")'
  BY DEF IdleInv
<1>a. /\ Background \in Runner /\ Ticker \subseteq Runner /\ Background \notin Ticker
      /\ task \in [Runner -> [Video -> Task]]
      /\ \A q \in Runner, w \in Video : task[q][w] \in Task
      /\ ticker \in [Ticker -> {"idle", "marking", "listing", "waiting"}]
  BY LifecycleAssumption DEF Runner, TypeOK
(* A step of a task that was there leaves the tasks of l alone.              *)
<1>b. ASSUME ticker' = ticker, task'[l][u] = task[l][u] \/ task[l][u].pc # "none"
      PROVE  At(l, u, "none")'
  BY <1>b DEF IdleInv, At
<1>1. ASSUME NEW v \in Video, Upload(v) PROVE At(l, u, "none")'
  BY <1>1, <1>a, <1>b, GotoAt DEF Upload, Goto
<1>2. ASSUME NEW v \in Video, FailFirst(v) PROVE At(l, u, "none")'
  BY <1>2, <1>a, <1>b, GotoAt DEF FailFirst, Goto
<1>3. ASSUME NEW v \in Video, FailAgain(v) PROVE At(l, u, "none")'
  BY <1>3, <1>a, <1>b, TaskAt DEF FailAgain, Done
<1>4. ASSUME NEW v \in Video, Age(v) PROVE At(l, u, "none")'
  BY <1>4, <1>b DEF Age
<1>5. ASSUME NEW v \in Video, NEW r \in Runner, TaskStep(r, v) PROVE At(l, u, "none")'
  <2>1. CASE Start(r, v)
    BY <2>1, <1>a, <1>b, GotoAt DEF Start, At, Goto
  <2>2. CASE StoreEvents(r, v)
    BY <2>2, <1>a, <1>b, GotoAt DEF StoreEvents, At, Goto
  <2>3. CASE Complete(r, v)
    BY <2>3, <1>a, <1>b, TaskAt DEF Complete, Done
  <2> QED
    BY <1>5, <2>1, <2>2, <2>3 DEF TaskStep
<1>6. ASSUME NEW v \in Video, NEW r \in Runner, TaskError(r, v) PROVE At(l, u, "none")'
  <2>1. \/ task' = [task EXCEPT ![r][v].pc = "failed"]
        \/ task' = [task EXCEPT ![r][v] = NoTask]
    BY <1>6 DEF TaskError, Goto, Done
  <2>2. task'[l][u] = task[l][u] \/ (l = r /\ u = v)
    <3>1. CASE task' = [task EXCEPT ![r][v].pc = "failed"]
      BY <3>1, <1>a, GotoAt
    <3>2. CASE task' = [task EXCEPT ![r][v] = NoTask]
      BY <3>2, <1>a, TaskAt
    <3> QED
      BY <2>1, <3>1, <3>2
  <2>3. ticker' = ticker /\ task[r][v].pc \in {"starting", "counting", "running", "stored",
                                               "failed", "moving", "marking"}
    BY <1>6 DEF TaskError
  <2> QED
    BY <1>b, <2>2, <2>3
<1>7. ASSUME NEW v \in Video, NEW k \in Ticker, RetryStep(k, v) PROVE At(l, u, "none")'
  <2>1. CASE Acquire(k, v)
    BY <2>1, <1>a, <1>b, GotoAt DEF Acquire, At, Goto
  <2>2. CASE FailRetry(k, v)
    <3>1. (k # l \/ v # u) => task'[l][u] = task[l][u]
      BY <2>2, <1>a DEF FailRetry
    <3>2. task[k][v].pc # "none" /\ ticker' = ticker
      BY <2>2 DEF FailRetry
    <3>3. task'[l][u] = task[l][u] \/ task[l][u].pc # "none"
      BY <3>1, <3>2
    <3> QED
      BY <3>2, <3>3, <1>b
  <2>3. CASE CountRetry(k, v)
    BY <2>3, <1>a, <1>b, GotoAt DEF CountRetry, At, Goto
  <2>4. CASE HandleFailure(k, v)
    <3>1. CASE row[v].retries >= MaxRetry
      BY <2>4, <3>1, <1>a, <1>b DEF HandleFailure, At
    <3>2. CASE ~(row[v].retries >= MaxRetry)
      <4>1. /\ task' = [task EXCEPT ![k][v] = NoTask]
            /\ task[k][v].pc = "failed" /\ ticker' = ticker
        BY <2>4, <3>2 DEF HandleFailure, At, Done
      <4>2. task'[l][u] = task[l][u] \/ task[l][u].pc # "none"
        BY <4>1, <1>a, TaskAt
      <4> QED
        BY <4>1, <4>2, <1>b
    <3> QED
      BY <3>1, <3>2
  <2>5. CASE MoveFile(k, v)
    BY <2>5, <1>a, <1>b DEF MoveFile, At
  <2>6. CASE MarkInvalid(k, v)
    BY <2>6, <1>a, <1>b, TaskAt DEF MarkInvalid, At, Done
  <2> QED
    BY <1>7, <2>1, <2>2, <2>3, <2>4, <2>5, <2>6 DEF RetryStep
<1>8. ASSUME NEW k \in Ticker, TickStep(k) PROVE At(l, u, "none")'
  <2>1. CASE SelectStale(k)
    BY <2>1, <1>a DEF SelectStale, IdleInv, At
  <2>2. CASE MarkStale(k)
    BY <2>2, <1>a DEF MarkStale, IdleInv, At
  <2>3. CASE Dispatch(k)
    <3>1. l # k /\ ticker'[l] = ticker[l] /\ task'[l] = task[l]
      BY <2>3, <1>a DEF Dispatch
    <3> QED
      BY <3>1 DEF IdleInv, At
  <2>4. CASE EndTick(k)
    BY <2>4, <1>a DEF EndTick, IdleInv, At
  <2> QED
    BY <1>8, <2>1, <2>2, <2>3, <2>4 DEF TickStep
<1>9. CASE Crash
  BY <1>9, <1>a DEF Crash, At, NoTask
<1>10. CASE UNCHANGED vars
  BY <1>10, <1>b DEF vars
<1>11. ASSUME NEW k \in Ticker, PassError(k) PROVE At(l, u, "none")'
  <2>1. ticker[l] # "waiting" /\ task' = task
    BY <1>11, <1>a DEF PassError
  <2> QED
    BY <2>1 DEF IdleInv, At
<1>12. ASSUME NEW v \in Video, CreateSentinel(v) PROVE At(l, u, "none")'
  BY <1>12, <1>b DEF CreateSentinel
<1>13. ASSUME NEW v \in Video, ExtendSentinel(v) PROVE At(l, u, "none")'
  BY <1>13, <1>b DEF ExtendSentinel
<1> QED
  BY <1>1, <1>2, <1>3, <1>4, <1>5, <1>6, <1>7, <1>8, <1>9, <1>10, <1>11, <1>12, <1>13 DEF Next

(* Each task that moves the file finds it where the row says, and is the     *)
(* only one until the row says where it went.                                *)
LEMMA NextMove == TypeOK /\ IdleInv /\ MoveInv /\ [Next]_vars => MoveInv'
<1> SUFFICES ASSUME TypeOK, IdleInv, MoveInv, [Next]_vars, faults' = 0, NEW u \in Video
             PROVE  (UriKnown(u) /\ OneMove(u))'
  BY DEF MoveInv
<1>a. /\ Background \in Runner /\ Ticker \subseteq Runner /\ Background \notin Ticker
      /\ row \in [Video -> Row] /\ task \in [Runner -> [Video -> Task]]
      /\ \A w \in Video : row[w] \in Row
      /\ \A q \in Runner, w \in Video : task[q][w] \in Task
      /\ file \in [Video -> Nat]
      /\ faults \in Nat
  BY LifecycleAssumption DEF Runner, TypeOK
<1>b. faults = 0 => UriKnown(u) /\ OneMove(u)
  BY DEF MoveInv
<1>c. row[u].path \in Nat /\ file[u] \in Nat /\ \A k \in Ticker : task[k][u].uri \in Nat
  BY <1>a DEF Row, Task
(* A step that moves neither the file nor the row's idea of it, and that     *)
(* leaves every task that moves the file or reports its move alone.          *)
<1>d. ASSUME faults' = faults, row'[u].path = row[u].path, file'[u] = file[u],
             \A k \in Ticker : \/ task'[k][u] = task[k][u]
                               \/ /\ task[k][u].pc # "marking"
                                  /\ task'[k][u].pc \notin {"moving", "marking"}
      PROVE  (UriKnown(u) /\ OneMove(u))'
  <2>1. \A k \in Ticker : Pending(k, u)' <=> Pending(k, u)
    BY <1>d DEF Pending, At
  <2>2. UriKnown(u)'
    BY <1>b, <1>d DEF UriKnown
  <2>3. \A k \in Ticker : Pending(k, u) => task'[k][u] = task[k][u]
    BY <1>d DEF Pending, At
  <2>4. OneMove(u)'
    <3>1. CASE row[u].path = file[u] /\ \A k \in Ticker : ~Pending(k, u)
      BY <3>1, <1>d, <2>1 DEF OneMove
    <3>2. CASE \E k \in Ticker :
                 /\ Pending(k, u)
                 /\ task[k][u].uri = row[u].path
                 /\ file[u] = row[u].path + 1
                 /\ \A l \in Ticker : Pending(l, u) => l = k
      BY <3>2, <1>d, <2>1, <2>3 DEF OneMove
    <3> QED
      BY <3>1, <3>2, <1>b, <1>d DEF OneMove
  <2> QED
    BY <2>2, <2>4
<1>1. ASSUME NEW v \in Video, Upload(v) PROVE (UriKnown(u) /\ OneMove(u))'
  <2>1. row'[u].path = row[u].path
    BY <1>1, <1>a, StatusAt DEF Upload, SetStatus, Row
  <2>2. \A k \in Ticker : \/ task'[k][u] = task[k][u]
                          \/ /\ task[k][u].pc # "marking"
                             /\ task'[k][u].pc \notin {"moving", "marking"}
    BY <1>1, <1>a, GotoAt DEF Upload, Goto, At, Task, NoTask
  <2> QED
    BY <1>1, <1>d, <2>1, <2>2 DEF Upload
<1>2. ASSUME NEW v \in Video, FailFirst(v) PROVE (UriKnown(u) /\ OneMove(u))'
  <2>1. row'[u].path = row[u].path
    BY <1>2, <1>a, StatusAt DEF FailFirst, SetStatus, Row
  <2>2. \A k \in Ticker : \/ task'[k][u] = task[k][u]
                          \/ /\ task[k][u].pc # "marking"
                             /\ task'[k][u].pc \notin {"moving", "marking"}
    BY <1>2, <1>a, GotoAt DEF FailFirst, Goto, At, Task, NoTask
  <2> QED
    BY <1>2, <1>d, <2>1, <2>2 DEF FailFirst
<1>3. ASSUME NEW v \in Video, FailAgain(v) PROVE (UriKnown(u) /\ OneMove(u))'
  <2>1. row'[u].path = row[u].path
    BY <1>3, <1>a, StatusAt DEF FailAgain, SetStatus, Row
  <2>2. \A k \in Ticker : \/ task'[k][u] = task[k][u]
                          \/ /\ task[k][u].pc # "marking"
                             /\ task'[k][u].pc \notin {"moving", "marking"}
    BY <1>3, <1>a, TaskAt DEF FailAgain, Done, At, Task, NoTask
  <2> QED
    BY <1>3, <1>d, <2>1, <2>2 DEF FailAgain
<1>4. ASSUME NEW v \in Video, Age(v) PROVE (UriKnown(u) /\ OneMove(u))'
  BY <1>4, <1>d DEF Age
<1>5. ASSUME NEW v \in Video, NEW r \in Runner, Start(r, v) PROVE (UriKnown(u) /\ OneMove(u))'
  <2>1. row'[u].path = row[u].path
    BY <1>5, <1>a, StatusAt DEF Start, SetStatus, Row
  <2>2. \A k \in Ticker : \/ task'[k][u] = task[k][u]
                          \/ /\ task[k][u].pc # "marking"
                             /\ task'[k][u].pc \notin {"moving", "marking"}
    BY <1>5, <1>a, GotoAt DEF Start, Goto, At, Task, NoTask
  <2> QED
    BY <1>5, <1>d, <2>1, <2>2 DEF Start
<1>6. ASSUME NEW v \in Video, NEW r \in Runner, StoreEvents(r, v) PROVE (UriKnown(u) /\ OneMove(u))'
  <2>1. row'[u].path = row[u].path
    BY <1>6, <1>a, StatusAt DEF StoreEvents, SetStatus, Row
  <2>2. \A k \in Ticker : \/ task'[k][u] = task[k][u]
                          \/ /\ task[k][u].pc # "marking"
                             /\ task'[k][u].pc \notin {"moving", "marking"}
    BY <1>6, <1>a, GotoAt DEF StoreEvents, Goto, At, Task, NoTask
  <2> QED
    BY <1>6, <1>d, <2>1, <2>2 DEF StoreEvents
<1>7. ASSUME NEW v \in Video, NEW r \in Runner, Complete(r, v) PROVE (UriKnown(u) /\ OneMove(u))'
  <2>1. row'[u].path = row[u].path
    BY <1>7, <1>a, StatusAt DEF Complete, SetStatus, Row
  <2>2. \A k \in Ticker : \/ task'[k][u] = task[k][u]
                          \/ /\ task[k][u].pc # "marking"
                             /\ task'[k][u].pc \notin {"moving", "marking"}
    BY <1>7, <1>a, TaskAt DEF Complete, Done, At, Task, NoTask
  <2> QED
    BY <1>7, <1>d, <2>1, <2>2 DEF Complete
<1>8. ASSUME NEW v \in Video, NEW r \in Runner, TaskError(r, v)
      PROVE  (UriKnown(u) /\ OneMove(u))'
  <2>1. faults' = faults + 1
    BY <1>8 DEF TaskError
  <2> QED
    BY <1>a, <2>1
<1>9. ASSUME NEW v \in Video, NEW k \in Ticker, RetryStep(k, v)
      PROVE  (UriKnown(u) /\ OneMove(u))'
  <2>1. CASE Acquire(k, v)
    <3>1. row'[u].path = row[u].path
      BY <2>1, <1>a DEF Acquire, Row
    <3>2. \A l \in Ticker : \/ task'[l][u] = task[l][u]
                            \/ /\ task[l][u].pc # "marking"
                               /\ task'[l][u].pc \notin {"moving", "marking"}
      BY <2>1, <1>a, GotoAt DEF Acquire, Goto, At, Task
    <3> QED
      BY <2>1, <1>d, <3>1, <3>2 DEF Acquire
  <2>2. CASE FailRetry(k, v)
    <3>1. row'[u].path = row[u].path
      BY <2>2, <1>a DEF FailRetry, Row
    <3>2. \A l \in Ticker : \/ task'[l][u] = task[l][u]
                            \/ /\ task[l][u].pc # "marking"
                               /\ task'[l][u].pc \notin {"moving", "marking"}
      BY <2>2, <1>a DEF FailRetry, At, Task
    <3> QED
      BY <2>2, <1>d, <3>1, <3>2 DEF FailRetry
  <2>3. CASE CountRetry(k, v)
    <3>1. row'[u].path = row[u].path
      BY <2>3, <1>a DEF CountRetry, Row
    <3>2. \A l \in Ticker : \/ task'[l][u] = task[l][u]
                            \/ /\ task[l][u].pc # "marking"
                               /\ task'[l][u].pc \notin {"moving", "marking"}
      BY <2>3, <1>a, GotoAt DEF CountRetry, Goto, At, Task
    <3> QED
      BY <2>3, <1>d, <3>1, <3>2 DEF CountRetry
  <2>4. CASE HandleFailure(k, v)
    <3>1. CASE row[v].retries >= MaxRetry /\ u = v
      <4>1. \A l \in Ticker : task'[l][u] =
              IF l = k THEN [task[l][u] EXCEPT !.pc = "moving", !.uri = row[u].path]
                       ELSE task[l][u]
        <5>1. task' = [task EXCEPT ![k][u] =
                         [task[k][u] EXCEPT !.pc = "moving", !.uri = row[u].path]]
          BY <2>4, <3>1, <1>a DEF HandleFailure
        <5> QED
          BY <5>1, <1>a, TaskAt
      <4>2. /\ task[k][u].pc = "failed" /\ faults' = faults
            /\ row' = row /\ file' = file
        BY <2>4, <3>1 DEF HandleFailure, At
      <4>3. task'[k][u].pc = "moving" /\ task'[k][u].uri = row[u].path
        <5>1. /\ task[k][u] \in Task
              /\ task'[k][u] = [task[k][u] EXCEPT !.pc = "moving", !.uri = row[u].path]
          BY <1>a, <4>1
        <5> QED
          BY <5>1 DEF Task
      <4>4. UriKnown(u)'
        <5>1. faults = 0 /\ row'[u].path = row[u].path
          BY <4>2
        <5>2. \A l \in Ticker \ {k} : task'[l][u] = task[l][u]
          BY <4>1
        <5>3. row[u].path <= row[u].path
          BY <1>c
        <5> QED
          BY <1>b, <4>3, <5>1, <5>2, <5>3 DEF UriKnown
      <4>5. \A l \in Ticker : /\ Pending(l, u)' <=> Pending(l, u)
                              /\ Pending(l, u) => task'[l][u] = task[l][u]
        BY <4>1, <4>2, <4>3 DEF Pending, At
      <4>6. OneMove(u)'
        BY <1>b, <4>2, <4>5 DEF OneMove
      <4> QED
        BY <4>4, <4>6
    <3>2. CASE ~(row[v].retries >= MaxRetry /\ u = v)
      <4>1. \A l \in Ticker : \/ task'[l][u] = task[l][u]
                              \/ task[l][u].pc # "marking" /\ task'[l][u] = NoTask
        <5>1. CASE u = v
          BY <2>4, <3>2, <5>1, <1>a, TaskAt DEF HandleFailure, At, Done
        <5>2. CASE u # v /\ row[v].retries >= MaxRetry
          BY <2>4, <5>2, <1>a DEF HandleFailure
        <5>3. CASE u # v /\ ~(row[v].retries >= MaxRetry)
          BY <2>4, <5>3, <1>a, TaskAt DEF HandleFailure, Done
        <5> QED
          BY <5>1, <5>2, <5>3
      <4> QED
        BY <2>4, <1>d, <4>1 DEF HandleFailure, NoTask
    <3> QED
      BY <3>1, <3>2
  <2>5. CASE MoveFile(k, v)
    <3>1. CASE u # v
      BY <2>5, <3>1, <1>a, <1>d DEF MoveFile
    <3>2. CASE u = v
      <4> DEFINE exists == u \notin Sentinel /\ file[u] = task[k][u].uri
      <4>1. /\ task[k][u].pc = "moving" /\ faults' = faults /\ row' = row
            /\ file'[u] = IF exists THEN file[u] + 1 ELSE file[u]
        BY <2>5, <3>2, <1>a DEF MoveFile, At
      <4>2. \A l \in Ticker : task'[l][u] =
              IF l = k THEN [task[l][u] EXCEPT !.pc = "marking", !.moved = exists]
                       ELSE task[l][u]
        BY <2>5, <3>2, <1>a DEF MoveFile
      <4>3. /\ task'[k][u].pc = "marking" /\ task'[k][u].moved = exists
            /\ task'[k][u].uri = task[k][u].uri
        <5>1. /\ task[k][u] \in Task
              /\ task'[k][u] = [task[k][u] EXCEPT !.pc = "marking", !.moved = exists]
          BY <1>a, <4>2
        <5> QED
          BY <5>1 DEF Task
      <4>4. task[k][u].uri <= row[u].path
        BY <1>b, <4>1 DEF UriKnown
      <4>5. UriKnown(u)'
        BY <1>b, <4>1, <4>2, <4>3, <4>4 DEF UriKnown
      <4>6. \A l \in Ticker \ {k} : /\ Pending(l, u)' <=> Pending(l, u)
                                    /\ task'[l][u] = task[l][u]
        BY <4>2 DEF Pending, At
      <4>7. ~Pending(k, u) /\ (Pending(k, u)' <=> exists)
        BY <4>1, <4>3 DEF Pending, At
      <4>8. CASE exists
        <5>1. row[u].path = file[u] /\ \A l \in Ticker : ~Pending(l, u)
          BY <1>b, <1>c, <4>1, <4>4, <4>8 DEF OneMove
        <5>2. \A l \in Ticker : Pending(l, u)' => l = k
          BY <4>6, <5>1
        <5>3. Pending(k, u)' /\ task'[k][u].uri = row'[u].path /\ file'[u] = row'[u].path + 1
          BY <4>1, <4>3, <4>7, <4>8, <5>1
        <5> QED
          BY <4>5, <5>2, <5>3 DEF OneMove
      <4>9. CASE ~exists
        <5>1. file'[u] = file[u] /\ \A l \in Ticker : Pending(l, u)' <=> Pending(l, u)
          BY <4>1, <4>6, <4>7, <4>9
        <5>2. \A l \in Ticker : Pending(l, u) => task'[l][u] = task[l][u]
          BY <4>6, <4>7
        <5>3. OneMove(u)'
          BY <1>b, <4>1, <5>1, <5>2 DEF OneMove
        <5> QED
          BY <4>5, <5>3
      <4> QED
        BY <4>8, <4>9
    <3> QED
      BY <3>1, <3>2
  <2>6. CASE MarkInvalid(k, v)
    <3>1. CASE u # v
      <4>1. row'[u] = row[u] /\ \A l \in Ticker : task'[l][u] = task[l][u]
        BY <2>6, <3>1, <1>a, TaskAt DEF MarkInvalid, Done
      <4> QED
        BY <2>6, <1>d, <4>1 DEF MarkInvalid
    <3>2. CASE u = v
      <4>1. /\ task[k][u].pc = "marking" /\ faults' = faults /\ file' = file
            /\ row'[u].path = IF task[k][u].moved THEN task[k][u].uri + 1 ELSE row[u].path
        BY <2>6, <3>2, <1>a DEF MarkInvalid, At, Row
      <4>2. \A l \in Ticker : task'[l][u] = IF l = k THEN NoTask ELSE task[l][u]
        BY <2>6, <3>2, <1>a, TaskAt DEF MarkInvalid, Done
      <4>3. \A l \in Ticker \ {k} : Pending(l, u)' <=> Pending(l, u)
        BY <4>2 DEF Pending, At
      <4>4. ~Pending(k, u)'
        BY <4>2 DEF Pending, At, NoTask
      <4>5. CASE task[k][u].moved
        <5>1. Pending(k, u)
          BY <4>1, <4>5 DEF Pending, At
        <5>2. /\ task[k][u].uri = row[u].path /\ file[u] = row[u].path + 1
              /\ \A l \in Ticker : Pending(l, u) => l = k
          BY <1>b, <4>1, <5>1 DEF OneMove
        <5>3. row'[u].path = row[u].path + 1
          BY <4>1, <4>5, <5>2
        <5>4. UriKnown(u)'
          <6> SUFFICES ASSUME NEW l \in Ticker, task'[l][u].pc \in {"moving", "marking"}
                       PROVE  task'[l][u].uri <= row'[u].path
            BY DEF UriKnown
          <6>1. task'[l][u] = task[l][u]
            BY <4>2 DEF NoTask
          <6>2. task[l][u].uri <= row[u].path
            BY <1>b, <4>1, <6>1 DEF UriKnown
          <6> QED
            BY <1>c, <5>3, <6>1, <6>2
        <5>5. row'[u].path = file'[u] /\ \A l \in Ticker : ~Pending(l, u)'
          BY <4>1, <4>3, <4>4, <5>2, <5>3
        <5> QED
          BY <5>4, <5>5 DEF OneMove
      <4>6. CASE ~task[k][u].moved
        <5>1. ~Pending(k, u) /\ row'[u].path = row[u].path
          BY <4>1, <4>6 DEF Pending
        <5>2. UriKnown(u)'
          BY <1>b, <4>1, <4>2, <5>1 DEF UriKnown, NoTask
        <5>3. \A l \in Ticker : /\ Pending(l, u)' <=> Pending(l, u)
                                /\ Pending(l, u) => task'[l][u] = task[l][u]
          BY <4>2, <4>3, <4>4, <5>1
        <5>4. OneMove(u)'
          BY <1>b, <4>1, <5>1, <5>3 DEF OneMove
        <5> QED
          BY <5>2, <5>4
      <4> QED
        BY <4>5, <4>6
    <3> QED
      BY <3>1, <3>2
  <2> QED
    BY <1>9, <2>1, <2>2, <2>3, <2>4, <2>5, <2>6 DEF RetryStep
<1>10. ASSUME NEW k \in Ticker, TickStep(k) PROVE (UriKnown(u) /\ OneMove(u))'
  <2>1. CASE SelectStale(k)
    BY <2>1, <1>d DEF SelectStale
  <2>2. CASE MarkStale(k)
    <3>1. row'[u].path = row[u].path
      BY <2>2, <1>a DEF MarkStale, Row
    <3> QED
      BY <2>2, <1>d, <3>1 DEF MarkStale
  <2>3. CASE Dispatch(k)
    <3>1. task[k][u].pc = "none"
      BY <2>3 DEF Dispatch, IdleInv, At
    <3>2. \A l \in Ticker :
            \/ task'[l][u] = task[l][u]
            \/ l = k /\ task'[l][u] = [NoTask EXCEPT !.pc = "queued"]
      <4>1. \A l \in Ticker \ {k} : task'[l] = task[l]
        BY <2>3, <1>a DEF Dispatch
      <4>2. task'[k][u] = task[k][u] \/ task'[k][u] = [NoTask EXCEPT !.pc = "queued"]
        <5> DEFINE failed == {v \in Video : row[v].status = "FAILED"
                                             /\ row[v].retries < MaxRetry}
        <5>1. task' = [task EXCEPT ![k] = [v \in Video |->
                         IF v \in failed THEN [NoTask EXCEPT !.pc = "queued"]
                                         ELSE task[k][v]]]
          BY <2>3, <1>a DEF Dispatch
        <5> HIDE DEF failed
        <5> QED
          BY <5>1, <1>a
      <4> QED
        BY <4>1, <4>2
    <3>3. [NoTask EXCEPT !.pc = "queued"].pc = "queued"
      BY DEF NoTask
    <3> QED
      BY <2>3, <1>d, <3>1, <3>2, <3>3 DEF Dispatch
  <2>4. CASE EndTick(k)
    BY <2>4, <1>d DEF EndTick
  <2> QED
    BY <1>10, <2>1, <2>2, <2>3, <2>4 DEF TickStep
<1>11. CASE Crash
  <2>1. faults' = faults + 1
    BY <1>11 DEF Crash
  <2> QED
    BY <1>a, <2>1
<1>12. CASE UNCHANGED vars
  BY <1>12, <1>d DEF vars
<1>13. ASSUME NEW k \in Ticker, PassError(k) PROVE (UriKnown(u) /\ OneMove(u))'
  <2>1. faults' = faults + 1
    BY <1>13 DEF PassError
  <2> QED
    BY <1>a, <2>1
<1>14. ASSUME NEW v \in Video, CreateSentinel(v) PROVE (UriKnown(u) /\ OneMove(u))'
  <2>1. row'[u].path = row[u].path
    BY <1>14, <1>a, StatusAt DEF CreateSentinel, SetStatus, Row
  <2> QED
    BY <1>14, <1>d, <2>1 DEF CreateSentinel
<1>15. ASSUME NEW v \in Video, ExtendSentinel(v) PROVE (UriKnown(u) /\ OneMove(u))'
  BY <1>15, <1>d DEF ExtendSentinel
<1> QED
  BY <1>1, <1>2, <1>3, <1>4, <1>5, <1>6, <1>7, <1>8, <1>9, <1>10, <1>11, <1>12, <1>13, <1>14, <1>15
  DEF Next, TaskStep

(* Unless something crashed, storage_uri names the place the file is at,     *)
(* however many passes overlap and race to move the same file.               *)
THEOREM FileRecorded == Spec => []FileWhereRecorded
<1>1. Init => IdleInv /\ MoveInv
  BY LifecycleAssumption
  DEF Init, IdleInv, MoveInv, UriKnown, OneMove, Pending, At, NoTask, Runner
<1>2. MoveInv => FileWhereRecorded
  BY DEF MoveInv, OneMove, FileWhereRecorded, Pending
<1> QED
  BY <1>1, <1>2, InitTypeOK, NextTypeOK, NextIdle, NextMove, PTL DEF Spec

-----------------------------------------------------------------------------
(* As long as no two retries of a video are in flight at once, one that is    *)
(* was dispatched within the budget, and the retry_count it has read is still *)
(* that of the row when it counts.                                            *)
OneInFlight(v) ==
    \A k, l \in Ticker :
        task[k][v].pc \in InFlight /\ task[l][v].pc \in InFlight => k = l

WithinBudget(v) ==
    /\ row[v].retries <= MaxRetry
    /\ \A k \in Ticker :
         /\ task[k][v].pc \in InFlight => row[v].retries < MaxRetry
         /\ task[k][v].pc = "counting" => task[k][v].count = row[v].retries

BudgetInv == \A v \in Video \ collided : OneInFlight(v) /\ WithinBudget(v)

LEMMA StillAlone ==
  ASSUME BudgetInv, Collide, NEW u \in Video, u \notin collided'
  PROVE  u \notin collided /\ OneInFlight(u) /\ OneInFlight(u)' /\ WithinBudget(u)
<1>1. u \notin collided /\ OneInFlight(u)'
  BY DEF Collide, OneInFlight
<1> QED
  BY <1>1 DEF BudgetInv

LEMMA NextBudget == TypeOK /\ BudgetInv /\ Next /\ Collide => BudgetInv'
<1> SUFFICES ASSUME TypeOK, BudgetInv, Next, Collide, NEW u \in Video, u \notin collided'
             PROVE  WithinBudget(u)'
  BY StillAlone DEF BudgetInv
<1>a. /\ Background \in Runner /\ Ticker \subseteq Runner /\ Background \notin Ticker
      /\ MaxRetry \in Nat
      /\ row \in [Video -> Row] /\ task \in [Runner -> [Video -> Task]]
      /\ \A w \in Video : row[w] \in Row
      /\ \A q \in Runner, w \in Video : task[q][w] \in Task
  BY LifecycleAssumption DEF Runner, TypeOK
<1>b. WithinBudget(u) /\ OneInFlight(u) /\ row[u].retries \in Nat
  BY <1>a, StillAlone DEF Row
(* A step that does not count a retry of u or start to.                      *)
<1>c. ASSUME row'[u].retries = row[u].retries,
             \A k \in Ticker :
               \/ task'[k][u] = task[k][u]
               \/ task'[k][u].pc \in {"starting", "running", "stored"}
                  /\ task[k][u].pc \in {"queued", "starting", "running", "stored"}
               \/ task'[k][u].pc \in {"none", "failed", "moving", "marking"}
      PROVE  WithinBudget(u)'
  BY <1>b, <1>c DEF WithinBudget, InFlight
<1>1. ASSUME NEW v \in Video, Upload(v) PROVE WithinBudget(u)'
  <2>1. row'[u].retries = row[u].retries
    BY <1>1, <1>a, StatusAt DEF Upload, SetStatus, Row
  <2>2. \A k \in Ticker :
          \/ task'[k][u] = task[k][u]
          \/ task'[k][u].pc \in {"starting", "running", "stored"}
             /\ task[k][u].pc \in {"queued", "starting", "running", "stored"}
          \/ task'[k][u].pc \in {"none", "failed", "moving", "marking"}
    BY <1>1, <1>a, GotoAt DEF Upload, Goto, At, Task, NoTask
  <2> QED
    BY <1>c, <2>1, <2>2
<1>2. ASSUME NEW v \in Video, FailFirst(v) PROVE WithinBudget(u)'
  <2>1. row'[u].retries = row[u].retries
    BY <1>2, <1>a, StatusAt DEF FailFirst, SetStatus, Row
  <2>2. \A k \in Ticker :
          \/ task'[k][u] = task[k][u]
          \/ task'[k][u].pc \in {"starting", "running", "stored"}
             /\ task[k][u].pc \in {"queued", "starting", "running", "stored"}
          \/ task'[k][u].pc \in {"none", "failed", "moving", "marking"}
    BY <1>2, <1>a, GotoAt DEF FailFirst, Goto, At, Task, NoTask
  <2> QED
    BY <1>c, <2>1, <2>2
<1>3. ASSUME NEW v \in Video, FailAgain(v) PROVE WithinBudget(u)'
  <2>1. row'[u].retries = row[u].retries
    BY <1>3, <1>a, StatusAt DEF FailAgain, SetStatus, Row
  <2>2. \A k \in Ticker :
          \/ task'[k][u] = task[k][u]
          \/ task'[k][u].pc \in {"starting", "running", "stored"}
             /\ task[k][u].pc \in {"queued", "starting", "running", "stored"}
          \/ task'[k][u].pc \in {"none", "failed", "moving", "marking"}
    BY <1>3, <1>a, TaskAt DEF FailAgain, Done, At, Task, NoTask
  <2> QED
    BY <1>c, <2>1, <2>2
<1>4. ASSUME NEW v \in Video, Age(v) PROVE WithinBudget(u)'
  BY <1>4, <1>c DEF Age
<1>5. ASSUME NEW v \in Video, NEW r \in Runner, Start(r, v) PROVE WithinBudget(u)'
  <2>1. row'[u].retries = row[u].retries
    BY <1>5, <1>a, StatusAt DEF Start, SetStatus, Row
  <2>2. \A k \in Ticker :
          \/ task'[k][u] = task[k][u]
          \/ task'[k][u].pc \in {"starting", "running", "stored"}
             /\ task[k][u].pc \in {"queued", "starting", "running", "stored"}
          \/ task'[k][u].pc \in {"none", "failed", "moving", "marking"}
    BY <1>5, <1>a, GotoAt DEF Start, Goto, At, Task, NoTask
  <2> QED
    BY <1>c, <2>1, <2>2
<1>6. ASSUME NEW v \in Video, NEW r \in Runner, StoreEvents(r, v) PROVE WithinBudget(u)'
  <2>1. row'[u].retries = row[u].retries
    BY <1>6, <1>a, StatusAt DEF StoreEvents, SetStatus, Row
  <2>2. \A k \in Ticker :
          \/ task'[k][u] = task[k][u]
          \/ task'[k][u].pc \in {"starting", "running", "stored"}
             /\ task[k][u].pc \in {"queued", "starting", "running", "stored"}
          \/ task'[k][u].pc \in {"none", "failed", "moving", "marking"}
    BY <1>6, <1>a, GotoAt DEF StoreEvents, Goto, At, Task, NoTask
  <2> QED
    BY <1>c, <2>1, <2>2
<1>7. ASSUME NEW v \in Video, NEW r \in Runner, Complete(r, v) PROVE WithinBudget(u)'
  <2>1. row'[u].retries = row[u].retries
    BY <1>7, <1>a, StatusAt DEF Complete, SetStatus, Row
  <2>2. \A k \in Ticker :
          \/ task'[k][u] = task[k][u]
          \/ task'[k][u].pc \in {"starting", "running", "stored"}
             /\ task[k][u].pc \in {"queued", "starting", "running", "stored"}
          \/ task'[k][u].pc \in {"none", "failed", "moving", "marking"}
    BY <1>7, <1>a, TaskAt DEF Complete, Done, At, Task, NoTask
  <2> QED
    BY <1>c, <2>1, <2>2
<1>8. ASSUME NEW v \in Video, NEW r \in Runner, TaskError(r, v) PROVE WithinBudget(u)'
  <2>1. \/ task' = [task EXCEPT ![r][v].pc = "failed"]
        \/ task' = [task EXCEPT ![r][v] = NoTask]
    BY <1>8 DEF TaskError, Goto, Done
  <2>2. \A k \in Ticker :
          \/ task'[k][u] = task[k][u]
          \/ task'[k][u].pc \in {"none", "failed"}
    <3>1. CASE task' = [task EXCEPT ![r][v].pc = "failed"]
      BY <3>1, <1>a, GotoAt DEF Task
    <3>2. CASE task' = [task EXCEPT ![r][v] = NoTask]
      BY <3>2, <1>a, TaskAt DEF NoTask
    <3> QED
      BY <2>1, <3>1, <3>2
  <2>3. row' = row
    BY <1>8 DEF TaskError
  <2> QED
    BY <1>c, <2>2, <2>3
<1>9. ASSUME NEW v \in Video, NEW k \in Ticker, RetryStep(k, v) PROVE WithinBudget(u)'
  <2>1. CASE Acquire(k, v)
    <3>1. \A l \in Ticker :
            \/ task'[l][u] = task[l][u]
            \/ task'[l][u].pc = "starting" /\ task[l][u].pc = "queued"
      BY <2>1, <1>a, GotoAt DEF Acquire, Goto, At, Task
    <3> QED
      BY <2>1, <1>c, <3>1 DEF Acquire
  <2>2. CASE FailRetry(k, v)
    <3>1. CASE u # v
      BY <2>2, <3>1, <1>a, <1>c DEF FailRetry
    <3>2. CASE u = v
      <4>1. /\ task[k][u] \in Task
            /\ task'[k][u] =
                 [task[k][u] EXCEPT !.pc = "counting", !.count = row[u].retries]
        BY <2>2, <3>2, <1>a DEF FailRetry
      <4>2. task'[k][u].pc = "counting" /\ task'[k][u].count = row[u].retries
        BY <4>1 DEF Task
      <4>3. row' = row /\ task[k][u].pc \in {"running", "stored"}
        BY <2>2, <3>2 DEF FailRetry
      <4>4. \A l \in Ticker : l # k => task'[l][u] = task[l][u]
        BY <2>2, <1>a DEF FailRetry
      <4> QED
        BY <1>b, <4>2, <4>3, <4>4 DEF WithinBudget, InFlight
    <3> QED
      BY <3>1, <3>2
  <2>3. CASE CountRetry(k, v)
    <3>1. CASE u # v
      BY <2>3, <3>1, <1>a, <1>c, GotoAt DEF CountRetry, Goto
    <3>2. CASE u = v
      <4>1. task[k][u].pc = "counting" /\ row'[u].retries = task[k][u].count + 1
        BY <2>3, <3>2, <1>a DEF CountRetry, At, Row
      <4>2. task'[k][u].pc = "failed"
        BY <2>3, <3>2, <1>a, GotoAt DEF CountRetry, Goto, Task
      <4>3. task[k][u].count \in Nat /\ task[k][u].count < MaxRetry
        BY <1>a, <1>b, <4>1 DEF WithinBudget, InFlight, Task
      <4>4. row'[u].retries <= MaxRetry
        BY <1>a, <4>1, <4>3
      <4>5. \A l \in Ticker : l # k => task'[l][u] = task[l][u]
        BY <2>3, <3>2, <1>a, GotoAt DEF CountRetry, Goto
      <4>6. \A l \in Ticker : task'[l][u].pc \notin InFlight
        BY <1>b, <4>1, <4>2, <4>5 DEF OneInFlight, InFlight
      <4> QED
        BY <4>4, <4>6 DEF WithinBudget, InFlight
    <3> QED
      BY <3>1, <3>2
  <2>4. CASE HandleFailure(k, v)
    <3>1. \A l \in Ticker : (l # k \/ u # v) => task'[l][u] = task[l][u]
      <4>1. CASE row[v].retries >= MaxRetry
        BY <2>4, <4>1, <1>a DEF HandleFailure
      <4>2. CASE ~(row[v].retries >= MaxRetry)
        BY <2>4, <4>2, <1>a, TaskAt DEF HandleFailure, Done
      <4> QED
        BY <4>1, <4>2
    <3>2. u = v => task'[k][u].pc \in {"none", "moving"}
      <4>1. CASE row[v].retries >= MaxRetry
        BY <2>4, <4>1, <1>a DEF HandleFailure, Task
      <4>2. CASE ~(row[v].retries >= MaxRetry)
        BY <2>4, <4>2, <1>a, TaskAt DEF HandleFailure, Done, NoTask
      <4> QED
        BY <4>1, <4>2
    <3> QED
      BY <2>4, <1>c, <3>1, <3>2 DEF HandleFailure
  <2>5. CASE MoveFile(k, v)
    <3>1. \A l \in Ticker : (l # k \/ u # v) => task'[l][u] = task[l][u]
      BY <2>5, <1>a DEF MoveFile
    <3>2. u = v => task'[k][u].pc = "marking"
      BY <2>5, <1>a DEF MoveFile, Task
    <3> QED
      BY <2>5, <1>c, <3>1, <3>2 DEF MoveFile
  <2>6. CASE MarkInvalid(k, v)
    <3>1. row'[u].retries = row[u].retries
      BY <2>6, <1>a DEF MarkInvalid, Row
    <3>2. \A l \in Ticker : task'[l][u] = task[l][u] \/ task'[l][u].pc = "none"
      BY <2>6, <1>a, TaskAt DEF MarkInvalid, Done, NoTask
    <3> QED
      BY <1>c, <3>1, <3>2
  <2> QED
    BY <1>9, <2>1, <2>2, <2>3, <2>4, <2>5, <2>6 DEF RetryStep
<1>10. ASSUME NEW k \in Ticker, TickStep(k) PROVE WithinBudget(u)'
  <2>1. CASE SelectStale(k)
    BY <2>1, <1>c DEF SelectStale
  <2>2. CASE MarkStale(k)
    <3>1. row'[u].retries = row[u].retries
      BY <2>2, <1>a DEF MarkStale, Row
    <3> QED
      BY <2>2, <1>c, <3>1 DEF MarkStale
  <2>3. CASE Dispatch(k)
    <3>1. CASE row[u].status = "FAILED" /\ row[u].retries < MaxRetry
      <4>1. task'[k][u].pc = "queued"
        BY <2>3, <3>1, <1>a DEF Dispatch, NoTask
      <4> QED
        BY <2>3, <3>1, <4>1, <1>a, <1>b DEF Dispatch, WithinBudget, InFlight
    <3>2. CASE ~(row[u].status = "FAILED" /\ row[u].retries < MaxRetry)
      <4>1. task'[k][u] = task[k][u]
        BY <2>3, <3>2, <1>a DEF Dispatch
      <4> QED
        BY <2>3, <4>1, <1>c DEF Dispatch
    <3> QED
      BY <3>1, <3>2
  <2>4. CASE EndTick(k)
    BY <2>4, <1>c DEF EndTick
  <2> QED
    BY <1>10, <2>1, <2>2, <2>3, <2>4 DEF TickStep
<1>11. CASE Crash
  BY <1>11, <1>a, <1>c DEF Crash, NoTask
<1>13. ASSUME NEW k \in Ticker, PassError(k) PROVE WithinBudget(u)'
  BY <1>13, <1>c DEF PassError
<1>14. ASSUME NEW v \in Video, CreateSentinel(v) PROVE WithinBudget(u)'
  <2>1. row'[u].retries = row[u].retries
    BY <1>14, <1>a, StatusAt DEF CreateSentinel, SetStatus, Row
  <2> QED
    BY <1>14, <1>c, <2>1 DEF CreateSentinel
<1>15. ASSUME NEW v \in Video, ExtendSentinel(v) PROVE WithinBudget(u)'
  BY <1>15, <1>c DEF ExtendSentinel
<1> QED
  BY <1>1, <1>2, <1>3, <1>4, <1>5, <1>6, <1>7, <1>8, <1>9, <1>10, <1>11, <1>13, <1>14, <1>15
  DEF Next, TaskStep

(* The dispatched retries that did not succeed are accounted for: each is    *)
(* counted in the row, was lost to a fault, or is the one under way.         *)
Account(v) ==
    /\ spent[v] \in Int
    /\ spent[v] <= row[v].retries + faults
                     + (IF \E k \in Ticker : task[k][v].pc \in InFlight THEN 1 ELSE 0)

AccountInv == spent \in [Video -> Int] /\ \A v \in Video \ collided : Account(v)

LEMMA NextAccount ==
  TypeOK /\ IdleInv /\ BudgetInv /\ AccountInv /\ Next /\ Spend /\ Collide => AccountInv'
<1> SUFFICES ASSUME TypeOK, IdleInv, BudgetInv, AccountInv, Next, Spend, Collide
             PROVE  AccountInv'
  OBVIOUS
<1>a. /\ Background \in Runner /\ Ticker \subseteq Runner /\ Background \notin Ticker
      /\ row \in [Video -> Row] /\ task \in [Runner -> [Video -> Task]]
      /\ \A w \in Video : row[w] \in Row
      /\ \A q \in Runner, w \in Video : task[q][w] \in Task
      /\ faults \in Nat
  BY LifecycleAssumption DEF Runner, TypeOK
<1>t. spent' \in [Video -> Int]
  BY DEF Spend, AccountInv
<1> SUFFICES ASSUME NEW u \in Video, u \notin collided' PROVE Account(u)'
  BY <1>t DEF AccountInv
<1>b. /\ WithinBudget(u) /\ OneInFlight(u) /\ OneInFlight(u)'
      /\ Account(u) /\ row[u].retries \in Nat
      /\ spent[u] \in Int /\ spent'[u] \in Int
      /\ spent'[u] = IF Dispatched(u) THEN spent[u] + 1
                     ELSE IF Succeeded(u) THEN spent[u] - 1 ELSE spent[u]
  BY <1>a, <1>t, StillAlone DEF AccountInv, Row, Spend
(* A step that neither dispatches nor ends a retry of u.                     *)
<1>c. ASSUME faults' \in Nat, faults <= faults', row'[u].retries = row[u].retries,
             \A k \in Ticker : task'[k][u].pc \in InFlight <=> task[k][u].pc \in InFlight
      PROVE  Account(u)'
  <2>1. ~Dispatched(u) /\ ~Succeeded(u)
    BY <1>c DEF Dispatched, Succeeded, At, InFlight
  <2>2. spent'[u] = spent[u]
    BY <1>b, <2>1
  <2>3. (\E k \in Ticker : task'[k][u].pc \in InFlight)
          <=> (\E k \in Ticker : task[k][u].pc \in InFlight)
    BY <1>c
  <2>4. spent[u] <= row[u].retries + faults
                      + (IF \E k \in Ticker : task[k][u].pc \in InFlight THEN 1 ELSE 0)
    BY <1>b DEF Account
  <2> QED
    BY <1>a, <1>b, <1>c, <2>2, <2>3, <2>4 DEF Account
(* A step at which a retry of u is counted or lost.                          *)
<1>d. ASSUME row'[u].retries + faults' = row[u].retries + faults + 1,
             row'[u].retries \in Nat, faults' \in Nat, ~Dispatched(u)
      PROVE  Account(u)'
  <2>1. spent'[u] <= spent[u]
    BY <1>b, <1>d
  <2>2. spent[u] <= row[u].retries + faults + 1
    BY <1>a, <1>b DEF Account
  <2> QED
    BY <1>a, <1>b, <1>d, <2>1, <2>2 DEF Account
(* The steps of the tasks and of the rows.                                   *)
<1>e. ASSUME NEW status, NEW v \in Video, row' = [row EXCEPT ![v].status = status]
      PROVE  row'[u].retries = row[u].retries
  BY <1>a, <1>e, StatusAt DEF Row
<1>f. ASSUME NEW v \in Video, NEW r \in Runner, NEW pc,
             task' = [task EXCEPT ![r][v].pc = pc],
             r \in Ticker => (pc \in InFlight <=> task[r][v].pc \in InFlight)
      PROVE  \A k \in Ticker : task'[k][u].pc \in InFlight <=> task[k][u].pc \in InFlight
  BY <1>a, <1>f, GotoAt DEF Task
<1>g. ASSUME NEW v \in Video, NEW r \in Runner, task' = [task EXCEPT ![r][v] = NoTask],
             r \in Ticker => task[r][v].pc \notin InFlight
      PROVE  \A k \in Ticker : task'[k][u].pc \in InFlight <=> task[k][u].pc \in InFlight
  BY <1>a, <1>g, TaskAt DEF NoTask, InFlight
<1>1. ASSUME NEW v \in Video, Upload(v) PROVE Account(u)'
  BY <1>1, <1>a, <1>c, <1>e, <1>f DEF Upload, SetStatus, Goto
<1>2. ASSUME NEW v \in Video, CreateSentinel(v) PROVE Account(u)'
  BY <1>2, <1>a, <1>c, <1>e DEF CreateSentinel, SetStatus
<1>3. ASSUME NEW v \in Video, ExtendSentinel(v) \/ Age(v) PROVE Account(u)'
  BY <1>3, <1>a, <1>c DEF ExtendSentinel, Age
<1>4. ASSUME NEW v \in Video, FailFirst(v) PROVE Account(u)'
  BY <1>4, <1>a, <1>c, <1>e, <1>f DEF FailFirst, SetStatus, Goto
<1>5. ASSUME NEW v \in Video, FailAgain(v) PROVE Account(u)'
  BY <1>5, <1>a, <1>c, <1>e, <1>g DEF FailAgain, SetStatus, Done
<1>6. ASSUME NEW v \in Video, NEW r \in Runner, Start(r, v) PROVE Account(u)'
  BY <1>6, <1>a, <1>c, <1>e, <1>f DEF Start, At, SetStatus, Goto, InFlight
<1>7. ASSUME NEW v \in Video, NEW r \in Runner, StoreEvents(r, v) PROVE Account(u)'
  BY <1>7, <1>a, <1>c, <1>f DEF StoreEvents, At, Goto, InFlight
<1>8. ASSUME NEW v \in Video, NEW r \in Runner, Complete(r, v) PROVE Account(u)'
  <2>1. /\ task' = [task EXCEPT ![r][v] = NoTask] /\ faults' = faults
        /\ row'[u].retries = row[u].retries /\ task[r][v].pc \in {"running", "stored"}
    BY <1>8, <1>e DEF Complete, Done, SetStatus
  <2>2. CASE r \in Ticker /\ u = v
    <3>1. task'[r][u] = NoTask
      BY <1>a, <2>1, <2>2, TaskAt
    <3>2. Succeeded(u)
      BY <2>1, <2>2, <3>1 DEF Succeeded, NoTask
    <3>3. ~Dispatched(u)
      BY <2>1, <2>2, <3>1 DEF Dispatched, NoTask, At
    <3>4. spent[u] <= row[u].retries + faults + 1
      BY <1>a, <1>b DEF Account
    <3>5. \A k \in Ticker : task'[k][u].pc \notin InFlight
      <4>1. \A k \in Ticker : k # r => task'[k][u] = task[k][u]
        BY <1>a, <2>1, <2>2, TaskAt
      <4> QED
        BY <1>b, <2>1, <2>2, <3>1, <4>1 DEF OneInFlight, NoTask, InFlight
    <3>6. spent'[u] = spent[u] - 1
      BY <1>b, <3>2, <3>3
    <3>7. spent'[u] <= row'[u].retries + faults'
      BY <1>a, <1>b, <2>1, <3>4, <3>6
    <3>8. ~\E k \in Ticker : task'[k][u].pc \in InFlight
      BY <3>5
    <3>9. row'[u].retries \in Nat /\ faults' \in Nat
      BY <1>a, <1>b, <2>1
    <3> QED
      BY <1>b, <3>7, <3>8, <3>9 DEF Account
  <2>3. CASE r \notin Ticker \/ u # v
    <3>1. \A k \in Ticker : task'[k][u] = task[k][u]
      BY <1>a, <2>1, <2>3, TaskAt
    <3> QED
      BY <1>a, <1>c, <2>1, <3>1
  <2> QED
    BY <2>2, <2>3
<1>9. ASSUME NEW v \in Video, NEW r \in Runner, TaskError(r, v) PROVE Account(u)'
  <2>1. faults' = faults + 1 /\ row' = row
    BY <1>9 DEF TaskError
  <2>2. ~Dispatched(u)
    <3>1. CASE task' = [task EXCEPT ![r][v].pc = "failed"]
      BY <1>a, <3>1, GotoAt DEF Dispatched, At, Task
    <3>2. CASE task' = [task EXCEPT ![r][v] = NoTask]
      BY <1>a, <3>2, TaskAt DEF Dispatched, At, NoTask
    <3> QED
      BY <1>9, <3>1, <3>2 DEF TaskError, Goto, Done
  <2> QED
    BY <1>a, <1>b, <1>d, <2>1, <2>2
<1>10. ASSUME NEW v \in Video, NEW k \in Ticker, RetryStep(k, v) PROVE Account(u)'
  <2>1. CASE Acquire(k, v)
    BY <2>1, <1>a, <1>c, <1>f DEF Acquire, At, Goto, InFlight
  <2>2. CASE FailRetry(k, v)
    <3>1. \A l \in Ticker : task'[l][u].pc \in InFlight <=> task[l][u].pc \in InFlight
      BY <2>2, <1>a DEF FailRetry, Task, InFlight
    <3> QED
      BY <2>2, <3>1, <1>a, <1>c DEF FailRetry
  <2>3. CASE CountRetry(k, v)
    <3>1. task' = [task EXCEPT ![k][v].pc = "failed"] /\ faults' = faults
      BY <2>3 DEF CountRetry, Goto
    <3>2. CASE u # v
      BY <2>3, <3>1, <3>2, <1>a, <1>c, GotoAt DEF CountRetry
    <3>3. CASE u = v
      <4>1. row'[u].retries = row[u].retries + 1
        <5>1. task[k][u].pc = "counting" /\ row'[u].retries = task[k][u].count + 1
          BY <2>3, <3>3, <1>a DEF CountRetry, At, Row
        <5> QED
          BY <5>1, <1>b DEF WithinBudget
      <4>2. ~Dispatched(u)
        BY <3>1, <1>a, GotoAt DEF Dispatched, At, Task
      <4> QED
        BY <1>a, <1>b, <1>d, <3>1, <4>1, <4>2
    <3> QED
      BY <3>2, <3>3
  <2>4. CASE HandleFailure(k, v)
    <3>1. \A l \in Ticker : task'[l][u].pc \in InFlight <=> task[l][u].pc \in InFlight
      <4>1. CASE row[v].retries >= MaxRetry
        <5>1. \A l \in Ticker : (l # k \/ u # v) => task'[l][u] = task[l][u]
          BY <2>4, <4>1, <1>a DEF HandleFailure
        <5>2. u = v => task[k][u].pc = "failed" /\ task'[k][u].pc = "moving"
          BY <2>4, <4>1, <1>a DEF HandleFailure, At, Task
        <5> QED
          BY <5>1, <5>2 DEF InFlight
      <4>2. CASE ~(row[v].retries >= MaxRetry)
        BY <2>4, <4>2, <1>a, <1>g DEF HandleFailure, At, Done, InFlight
      <4> QED
        BY <4>1, <4>2
    <3> QED
      BY <2>4, <3>1, <1>a, <1>c DEF HandleFailure
  <2>5. CASE MoveFile(k, v)
    <3>1. \A l \in Ticker : task'[l][u].pc \in InFlight <=> task[l][u].pc \in InFlight
      BY <2>5, <1>a DEF MoveFile, At, Task, InFlight
    <3> QED
      BY <2>5, <3>1, <1>a, <1>c DEF MoveFile
  <2>6. CASE MarkInvalid(k, v)
    <3>1. row'[u].retries = row[u].retries
      BY <2>6, <1>a DEF MarkInvalid, Row
    <3>2. \A l \in Ticker : task'[l][u].pc \in InFlight <=> task[l][u].pc \in InFlight
      BY <2>6, <1>a, <1>g DEF MarkInvalid, At, Done, InFlight
    <3> QED
      BY <2>6, <3>1, <3>2, <1>a, <1>c DEF MarkInvalid
  <2> QED
    BY <1>10, <2>1, <2>2, <2>3, <2>4, <2>5, <2>6 DEF RetryStep
<1>11. ASSUME NEW k \in Ticker, TickStep(k) PROVE Account(u)'
  <2>1. CASE SelectStale(k)
    BY <2>1, <1>a, <1>c DEF SelectStale
  <2>2. CASE MarkStale(k)
    <3>1. row'[u].retries = row[u].retries
      BY <2>2, <1>a DEF MarkStale, Row
    <3> QED
      BY <2>2, <1>a, <1>c, <3>1 DEF MarkStale
  <2>3. CASE Dispatch(k)
    <3>1. faults' = faults /\ row' = row /\ task[k][u].pc = "none"
      BY <2>3 DEF Dispatch, IdleInv, At
    <3>2. CASE row[u].status = "FAILED" /\ row[u].retries < MaxRetry
      <4>1. task'[k][u].pc = "queued"
        BY <2>3, <3>2, <1>a DEF Dispatch, NoTask
      <4>2. Dispatched(u)
        BY <3>1, <4>1 DEF Dispatched, At
      <4>3. spent'[u] = spent[u] + 1
        BY <1>b, <4>2
      <4>4. ~\E l \in Ticker : task[l][u].pc \in InFlight
        <5>1. \A l \in Ticker : l # k => task'[l][u] = task[l][u]
          BY <2>3, <1>a DEF Dispatch
        <5> QED
          BY <1>b, <3>1, <4>1, <5>1 DEF OneInFlight, InFlight
      <4>5. spent[u] <= row[u].retries + faults
        BY <1>a, <1>b, <4>4 DEF Account
      <4>6. \E l \in Ticker : task'[l][u].pc \in InFlight
        BY <4>1 DEF InFlight
      <4>7. spent'[u] <= row'[u].retries + faults' + 1
        BY <1>a, <1>b, <3>1, <4>3, <4>5
      <4> QED
        BY <1>b, <4>6, <4>7 DEF Account
    <3>3. CASE ~(row[u].status = "FAILED" /\ row[u].retries < MaxRetry)
      <4>1. \A l \in Ticker : task'[l][u] = task[l][u]
        BY <2>3, <3>3, <1>a DEF Dispatch
      <4> QED
        BY <3>1, <4>1, <1>a, <1>c
    <3> QED
      BY <3>2, <3>3
  <2>4. CASE EndTick(k)
    BY <2>4, <1>a, <1>c DEF EndTick
  <2> QED
    BY <1>11, <2>1, <2>2, <2>3, <2>4 DEF TickStep
<1>12. CASE Crash
  <2>1. faults' = faults + 1 /\ row' = row /\ \A k \in Ticker : task'[k][u] = NoTask
    BY <1>12, <1>a DEF Crash
  <2>2. ~Dispatched(u)
    BY <2>1 DEF Dispatched, NoTask
  <2>3. row'[u].retries = row[u].retries
    BY <2>1
  <2>4. faults' \in Nat /\ row'[u].retries \in Nat
    BY <1>a, <1>b, <2>1, <2>3
  <2>5. row'[u].retries + faults' = row[u].retries + faults + 1
    BY <1>a, <1>b, <2>1, <2>3
  <2> QED
    BY <1>d, <2>2, <2>4, <2>5
<1>13. ASSUME NEW k \in Ticker, PassError(k) PROVE Account(u)'
  BY <1>13, <1>a, <1>c DEF PassError
<1> QED
  BY <1>1, <1>2, <1>3, <1>4, <1>5, <1>6, <1>7, <1>8, <1>9, <1>10, <1>11, <1>12, <1>13
  DEF Next, TaskStep

(* However many tickers run passes that overlap: unless two retries of it    *)
(* are in flight at once, those of a video that were dispatched and did not  *)
(* succeed stay within the budget plus the faults, whatever crashes, fails   *)
(* or is marked stale between a dispatch and the count of the retry, and     *)
(* however often the first attempt still writes.                             *)
THEOREM RetriesBounded == BudgetSpec => []BudgetRespected
<1> DEFINE Inv == TypeOK /\ IdleInv /\ BudgetInv /\ AccountInv
<1>1. BudgetInit => Inv
  <2> SUFFICES ASSUME BudgetInit PROVE Inv
    OBVIOUS
  <2>1. IdleInv /\ BudgetInv
    BY LifecycleAssumption
    DEF BudgetInit, Init, IdleInv, At, BudgetInv, OneInFlight, WithinBudget, InFlight, NoTask, Runner
  <2>2. AccountInv
    BY DEF BudgetInit, Init, AccountInv, Account, InFlight, NoTask, Runner
  <2> QED
    BY <2>1, <2>2, InitTypeOK DEF BudgetInit
<1>2. Inv /\ [Next /\ Spend /\ Collide]_budgetVars => Inv'
  <2> SUFFICES ASSUME Inv, [Next /\ Spend /\ Collide]_budgetVars PROVE Inv'
    OBVIOUS
  <2>1. [Next]_vars
    BY DEF budgetVars
  <2>2. CASE Next /\ Spend /\ Collide
    BY <2>1, <2>2, NextTypeOK, NextIdle, NextBudget, NextAccount
  <2>3. CASE UNCHANGED budgetVars
    BY <2>1, <2>3, NextTypeOK, NextIdle
    DEF budgetVars, vars, BudgetInv, OneInFlight, WithinBudget, AccountInv, Account
  <2> QED
    BY <2>2, <2>3
<1>3. Inv => BudgetRespected
  <2> SUFFICES ASSUME Inv, NEW v \in Video \ collided PROVE spent[v] <= MaxRetry + faults
    BY DEF BudgetRespected
  <2>1. /\ WithinBudget(v) /\ Account(v) /\ MaxRetry \in Nat /\ faults \in Nat
        /\ row[v].retries \in Nat
    BY LifecycleAssumption DEF BudgetInv, AccountInv, TypeOK, Row
  <2>2. CASE \E k \in Ticker : task[k][v].pc \in InFlight
    BY <2>1, <2>2 DEF WithinBudget, Account
  <2>3. CASE ~\E k \in Ticker : task[k][v].pc \in InFlight
    BY <2>1, <2>3 DEF WithinBudget, Account
  <2> QED
    BY <2>2, <2>3
<1> QED
  BY <1>1, <1>2, <1>3, PTL DEF BudgetSpec
=============================================================================
