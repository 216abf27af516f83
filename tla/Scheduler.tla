------------------------------ MODULE Scheduler ------------------------------
(***************************************************************************)
(* The timers of the API process (workers/scheduler.py, main.py).  Each    *)
(* job ends by setting the timer of its next round, unless the scheduler   *)
(* has stopped; stopping cancels the timers it knows.  A job that looks at *)
(* _running just before it is cleared sets a timer nobody cancels, and a   *)
(* scheduler started again beside a job of its former life has two chains  *)
(* of rounds for that job: for each start, a job has one chain.            *)
(***************************************************************************)
EXTENDS Integers, FiniteSets

CONSTANTS
  Jobs,       \* the jobs
  Flagged,    \* those with a flag of their own: all but scanner_job
  MaxStarts   \* bound: starts of the application in one process

SchedulerAssumption == Flagged \subseteq Jobs /\ MaxStarts \in Nat \ {0}

VARIABLES
  running,   \* _running
  flag,      \* _execution_running, _scan_persisting, ...
  chain,     \* for a job and a start: where the thread of its timer is
  current,   \* the start whose timer _timer, _stats_timer, ... refer to
  main,      \* where start_scheduler or stop_scheduler is
  left,      \* the jobs it has still to schedule or to cancel
  starts

vars == <<running, flag, chain, current, main, left, starts>>

Starts == 1 .. MaxStarts
Steps == {"none", "waiting", "fired", "entered", "working", "ended", "scheduling"}

Init ==
  /\ running = FALSE /\ flag = [j \in Jobs |-> FALSE]
  /\ chain = [j \in Jobs |-> [k \in Starts |-> "none"]]
  /\ current = [j \in Jobs |-> 0]
  /\ main = "down" /\ left = {} /\ starts = 0

At(j, k, step) == chain[j][k] = step
Goes(j, k, step) == chain' = [chain EXCEPT ![j][k] = step]

-----------------------------------------------------------------------------
(* start_scheduler, which does nothing while the scheduler runs, and then  *)
(* one _schedule_next... after the other.                                  *)
Start ==
  /\ main = "down" /\ ~running /\ starts < MaxStarts
  /\ running' = TRUE /\ starts' = starts + 1
  /\ main' = "starting" /\ left' = Jobs
  /\ UNCHANGED <<flag, chain, current>>

StartJob(j) ==
  /\ main = "starting" /\ j \in left
  /\ Goes(j, starts, "waiting") /\ current' = [current EXCEPT ![j] = starts]
  /\ left' = left \ {j}
  /\ main' = IF left = {j} THEN "up" ELSE main
  /\ UNCHANGED <<running, flag, starts>>

(* stop_scheduler: cancel has no effect on a timer that has fired.         *)
Stop ==
  /\ main = "up"
  /\ running' = FALSE
  /\ main' = "stopping" /\ left' = Jobs
  /\ UNCHANGED <<flag, chain, current, starts>>

CancelJob(j) ==
  /\ main = "stopping" /\ j \in left
  /\ IF At(j, current[j], "waiting") THEN Goes(j, current[j], "none") ELSE UNCHANGED chain
  /\ left' = left \ {j}
  /\ main' = IF left = {j} THEN "down" ELSE main
  /\ UNCHANGED <<running, flag, current, starts>>

-----------------------------------------------------------------------------
(* The thread of a timer. *)
Fire(j, k) ==
  /\ At(j, k, "waiting") /\ Goes(j, k, "fired")
  /\ UNCHANGED <<running, flag, current, main, left, starts>>

(* The flag is read, and then set; a round that finds it set is skipped.   *)
Enter(j, k) ==
  /\ At(j, k, "fired")
  /\ Goes(j, k, IF j \in Flagged /\ flag[j] THEN "ended" ELSE "entered")
  /\ UNCHANGED <<running, flag, current, main, left, starts>>

Work(j, k) ==
  /\ At(j, k, "entered") /\ Goes(j, k, "working")
  /\ flag' = IF j \in Flagged THEN [flag EXCEPT ![j] = TRUE] ELSE flag
  /\ UNCHANGED <<running, current, main, left, starts>>

(* A bug the run must notice: the flag of a round that failed stays set.   *)
AfterwardsOnSuccess(j, failed) == IF failed THEN flag ELSE [flag EXCEPT ![j] = FALSE]

(* The round fails or not: the exception is logged, the flag is cleared in *)
(* either case.                                                            *)
Afterwards(j, failed) == [flag EXCEPT ![j] = FALSE]

Finish(j, k) ==
  /\ At(j, k, "working") /\ Goes(j, k, "ended")
  /\ \E failed \in BOOLEAN : flag' = Afterwards(j, failed)
  /\ UNCHANGED <<running, current, main, left, starts>>

(* _schedule_next...: the look at _running, and then the new timer.        *)
Look(j, k) ==
  /\ At(j, k, "ended") /\ Goes(j, k, IF running THEN "scheduling" ELSE "none")
  /\ UNCHANGED <<running, flag, current, main, left, starts>>

ScheduleNext(j, k) ==
  /\ At(j, k, "scheduling") /\ Goes(j, k, "waiting")
  /\ current' = [current EXCEPT ![j] = k]
  /\ UNCHANGED <<running, flag, main, left, starts>>

Next ==
  \/ Start \/ Stop
  \/ \E j \in Jobs : StartJob(j) \/ CancelJob(j)
  \/ \E j \in Jobs, k \in Starts :
        Fire(j, k) \/ Enter(j, k) \/ Work(j, k) \/ Finish(j, k) \/ Look(j, k) \/ ScheduleNext(j, k)

Spec == Init /\ [][Next]_vars

-----------------------------------------------------------------------------
TypeOK ==
  /\ running \in BOOLEAN /\ flag \in [Jobs -> BOOLEAN]
  /\ chain \in [Jobs -> [Starts -> Steps]]
  /\ current \in [Jobs -> 0 .. MaxStarts]
  /\ main \in {"down", "starting", "up", "stopping"} /\ left \subseteq Jobs
  /\ starts \in 0 .. MaxStarts

(* While the scheduler is up every job has a round to come, whatever its   *)
(* rounds came to and whenever it was stopped and started before.          *)
NeverForgotten == main = "up" => \A j \in Jobs : \E k \in Starts : ~At(j, k, "none")

(* A flag is set only while a round is at work, or no round would ever     *)
(* work again.                                                             *)
FlagIsHeld == \A j \in Jobs : flag[j] => \E k \in Starts : At(j, k, "working")
=============================================================================
