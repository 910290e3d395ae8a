---------------------------- MODULE AsyncScheduler ----------------------------
(***************************************************************************)
(* The periodic tasks of one process (crawler/scheduler.py): one loop goes *)
(* through the tasks in the order they were added, runs those that are     *)
(* due one after the other, and sleeps for a second.                       *)
(*                                                                         *)
(* Points in time are kept as the time left until them, so that nothing    *)
(* grows for ever; a tick is the second the loop sleeps.                   *)
(***************************************************************************)
EXTENDS Integers

CONSTANTS
    TaskCount,   \* tasks are 1 .. TaskCount, in the order of add_task
    Interval,    \* interval_seconds of each
    MaxDuration  \* ticks the slowest task takes: an assumption about the jobs

ASSUME SchedulerAssumption ==
    /\ TaskCount \in Nat \ {0}
    /\ Interval \in [1 .. TaskCount -> Nat \ {0}]
    /\ MaxDuration \in Nat

VARIABLES
    running,   \* _running
    place,     \* "off", "sweep", "task" (inside task.fn), "sleep"
    position,  \* the task the sweep is at
    elapsed,   \* time since the sweep read the clock
    due,       \* time left until next_run of each task; negative when overdue
    spent,     \* time the task that runs has taken
    wanted,    \* history: start() was called after the last stop()
    since      \* history: time since each task was last started, up to its interval

schedulerVars == <<running, place, position, elapsed, due, spent, wanted, since>>

Tasks == 1 .. TaskCount

\* What the tasks before t take at most, and all of them
Before(t) == (t - 1) * MaxDuration
Sweep     == TaskCount * MaxDuration

\* next_run is 0 and the clock monotonic: everything is due at once
SchedulerInit ==
    /\ running = FALSE /\ wanted = FALSE
    /\ place = "off"
    /\ position = 1 /\ elapsed = 0 /\ spent = 0
    /\ due = [t \in Tasks |-> 0]
    /\ since = [t \in Tasks |-> Interval[t]]

\* A process builds its scheduler and starts the loop, whatever stop() asked for
\* before and whatever an earlier process has run
RunForever ==
    /\ place = "off"
    /\ running' = TRUE /\ wanted' = TRUE
    /\ place' = "sweep"
    /\ position' = 1 /\ elapsed' = 0
    /\ due' = [t \in Tasks |-> 0]
    /\ since' = [t \in Tasks |-> Interval[t]]
    /\ UNCHANGED spent

\* The clock was read when the sweep began: now >= next_run
IsDue(t) == due[t] + elapsed <= 0

SkipTask ==
    /\ place = "sweep" /\ position \in Tasks
    /\ ~IsDue(position)
    /\ position' = position + 1
    /\ UNCHANGED <<running, place, elapsed, due, spent, wanted, since>>

StartTask ==
    /\ place = "sweep" /\ position \in Tasks
    /\ IsDue(position)
    /\ place' = "task"
    /\ spent' = 0
    /\ since' = [since EXCEPT ![position] = 0]
    /\ UNCHANGED <<running, position, elapsed, due, wanted>>

\* Mutant: the interval is counted from the end of the run, and overdue runs are caught up
EndTask_CatchUp ==
    /\ place = "task"
    /\ place' = "sweep"
    /\ position' = position + 1
    /\ due' = [due EXCEPT ![position] = @ + Interval[position]]
    /\ spent' = 0
    /\ UNCHANGED <<running, elapsed, wanted, since>>
\* run_once keeps any exception, so the next run is planned from the sweep's clock
\* whether the task failed or not
EndTask ==
    /\ place = "task"
    /\ place' = "sweep"
    /\ position' = position + 1
    /\ due' = [due EXCEPT ![position] = Interval[position] - elapsed]
    /\ spent' = 0
    /\ UNCHANGED <<running, elapsed, wanted, since>>

EndSweep ==
    /\ place = "sweep" /\ position > TaskCount
    /\ place' = "sleep"
    /\ UNCHANGED <<running, position, elapsed, due, spent, wanted, since>>

Older(t) == IF since[t] < Interval[t] THEN since[t] + 1 ELSE since[t]

Elapse ==
    /\ due' = [t \in Tasks |-> due[t] - 1]
    /\ since' = [t \in Tasks |-> Older(t)]
    /\ UNCHANGED <<running, wanted>>

TaskRuns ==
    /\ place = "task" /\ spent < MaxDuration
    /\ spent' = spent + 1
    /\ elapsed' = elapsed + 1
    /\ Elapse
    /\ UNCHANGED <<place, position>>

\* Mutant: _running is not looked at
WakeUp_Always ==
    /\ place = "sleep"
    /\ Elapse
    /\ position' = 1 /\ elapsed' = 0
    /\ place' = "sweep"
    /\ UNCHANGED spent
\* Mutant: the clock is read once, before the loop
WakeUp_OldClock ==
    /\ place = "sleep"
    /\ due' = [t \in Tasks |-> due[t] - 1]
    /\ since' = [t \in Tasks |-> Older(t)]
    /\ elapsed' = elapsed + 1
    /\ position' = 1
    /\ place' = IF running THEN "sweep" ELSE "off"
    /\ UNCHANGED <<running, wanted, spent>>
\* After the sleep: another sweep, or the end
WakeUp ==
    /\ place = "sleep"
    /\ Elapse
    /\ position' = 1 /\ elapsed' = 0
    /\ place' = IF running THEN "sweep" ELSE "off"
    /\ UNCHANGED spent

\* Looked at only when the loop comes round
Stop ==
    /\ wanted' = FALSE /\ running' = FALSE
    /\ wanted
    /\ UNCHANGED <<place, position, elapsed, due, spent, since>>

SchedulerStep == SkipTask \/ StartTask \/ TaskRuns \/ EndTask \/ EndSweep \/ WakeUp

SchedulerNext == SchedulerStep \/ RunForever \/ Stop

SchedulerSpec == SchedulerInit /\ [][SchedulerNext]_schedulerVars

SchedulerFairness == WF_schedulerVars(SchedulerStep)

--------------------------------------------------------------------------------

SchedulerTypeOK ==
    /\ running \in BOOLEAN /\ wanted \in BOOLEAN
    /\ place \in {"off", "sweep", "task", "sleep"}
    /\ position \in 1 .. TaskCount + 1
    /\ elapsed \in 0 .. Sweep
    /\ due \in [Tasks -> Int]
    /\ spent \in 0 .. MaxDuration
    /\ since \in [Tasks -> Nat]

\* A task that is started is at most two sweeps late, however slow the others are, and
\* was last started its interval ago less what the tasks before it may take: no task
\* starves and none is run twice for one interval
ScheduleKept ==
    [][\A t \in Tasks :
          place = "sweep" /\ place' = "task" /\ position = t =>
              /\ -due[t] <= Sweep + Before(t)
              /\ since[t] >= Interval[t] - Before(t)]_schedulerVars

\* A loop that was told to stop while it ran ends
StopHeeded == ~wanted ~> place = "off"

================================================================================
