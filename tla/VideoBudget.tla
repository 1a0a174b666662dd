----------------------------- MODULE VideoBudget -----------------------------
(***************************************************************************)
(* What the retries of a video cost, on top of VideoLifecycle.  The        *)
(* scheduler compares retry_count with its budget when it dispatches a     *)
(* retry, and the count is increased when that has failed: what lies       *)
(* between can be lost in a crash or be counted twice from the same value. *)
(***************************************************************************)
EXTENDS VideoLifecycle

VARIABLES
    spent,     \* history: video -> its retries that were dispatched and did not succeed
    collided   \* history: the videos that two tickers have retried at the same time

budgetVars == <<vars, spent, collided>>

(* What the step does to the retries of a video: see Dispatch and Complete.  *)
Dispatched(v) == \E k \in Ticker : At(k, v, "none") /\ task'[k][v].pc = "queued"

Succeeded(v) ==
    \E k \in Ticker : /\ task[k][v].pc \in {"running", "stored"} /\ task'[k][v].pc = "none"
                      /\ faults' = faults

Spend ==
    spent' = [v \in Video |-> IF Dispatched(v) THEN spent[v] + 1
                              ELSE IF Succeeded(v) THEN spent[v] - 1 ELSE spent[v]]

(* From its dispatch until it is counted.                                    *)
InFlight == {"queued", "starting", "running", "stored", "counting"}

Collide ==
    collided' = collided \cup
        {v \in Video : \E k, l \in Ticker : /\ k # l
                                          /\ task'[k][v].pc \in InFlight
                                          /\ task'[l][v].pc \in InFlight}

BudgetInit == Init /\ spent = [v \in Video |-> 0] /\ collided = {}

BudgetSpec == BudgetInit /\ [][Next /\ Spend /\ Collide]_budgetVars

-----------------------------------------------------------------------------
(* However the passes of the loop and of the admin endpoint overlap, a video *)
(* is not retried in vain more often than the budget allows, plus once for   *)
(* every crash or failing commit, as long as no two retries of it are in     *)
(* flight at once: nothing else dispatches a retry that is not counted, no   *)
(* late write of the first attempt nor a stale mark either.                  *)
BudgetRespected == \A v \in Video \ collided : spent[v] <= MaxRetry + faults
=============================================================================
