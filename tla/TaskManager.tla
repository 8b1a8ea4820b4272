---------------------------- MODULE TaskManager ----------------------------
(***************************************************************************)
(* internal/tasks: the TaskManager runs every enabled task at its interval *)
(* and follows the configuration while it changes.                         *)
(*                                                                         *)
(* ScheduleTask starts a goroutine per task, a select around a ticker and  *)
(* the context of the schedule.  UpdateConfig, which one goroutine runs    *)
(* for every change it is told of, cancels each schedule and waits for its *)
(* goroutine to say that it is gone before it starts the new ones.  The    *)
(* two share taskData, a sync.Map from a task to its latest TaskData.      *)
(***************************************************************************)
EXTENDS Naturals, Sequences, FiniteSets

CONSTANTS Tasks,       \* the registered tasks
          MaxChanges,  \* bound: configurations saved after the first
          GetMayFail   \* can configSource.Get fail?

ASSUME TaskManagerAssumption ==
  /\ IsFiniteSet(Tasks)
  /\ MaxChanges \in Nat
  /\ GetMayFail \in BOOLEAN

\* A configuration: a number, later ones having higher numbers, and the tasks
\* it enables.  Tasks it does not know and tasks it disables are the same.
Configs == [number : 0 .. MaxChanges, enabled : SUBSET Tasks]

VARIABLES
  saved,        \* the configuration configSource.Get returns
  subscribed,   \* has Start subscribed to changes?
  broadcasts,   \* Broadcast goroutines that have yet to send to this subscriber
  cfg,          \* the configuration UpdateConfig was last called with
  pc,           \* where the updating goroutine is
  todo,         \* the tasks its current loop has still to visit
  waitsFor,     \* the schedule whose isCancelled it waits for, 0 for none
  taskData,     \* task -> [schedule, running], schedule 0 when not in the map
  schedules,    \* every ScheduleTask so far and its goroutine
  missed        \* history: did the last Get fail?

vars == << saved, subscribed, broadcasts, cfg, pc, todo, waitsFor, taskData,
           schedules, missed >>

changes == << saved, subscribed, broadcasts >>

NoData == [schedule |-> 0, running |-> FALSE]

\* Main builds the TaskManager, which calls UpdateConfig, then starts it.
Init ==
  /\ \E S \in SUBSET Tasks : saved = [number |-> 0, enabled |-> S]
  /\ subscribed = FALSE
  /\ broadcasts = 0
  /\ cfg = saved
  /\ pc = "cancel"
  /\ todo = Tasks
  /\ waitsFor = 0
  /\ taskData = [t \in Tasks |-> NoData]
  /\ schedules = << >>
  /\ missed = FALSE

-----------------------------------------------------------------------------
(* The configuration changes.                                              *)

Save(S) ==
  /\ saved.number < MaxChanges
  /\ saved' = [number |-> saved.number + 1, enabled |-> S]
  /\ broadcasts' = broadcasts + 1
  /\ UNCHANGED << subscribed, cfg, pc, todo, waitsFor, taskData, schedules, missed >>

\* A Broadcast goroutine that runs before anyone subscribed finds no channel.
BroadcastMisses ==
  /\ ~subscribed
  /\ broadcasts > 0
  /\ broadcasts' = broadcasts - 1
  /\ UNCHANGED << saved, subscribed, cfg, pc, todo, waitsFor, taskData, schedules, missed >>

Subscribe ==
  /\ pc = "start"
  /\ subscribed' = TRUE
  /\ pc' = "wait"
  /\ UNCHANGED << saved, broadcasts, cfg, todo, waitsFor, taskData, schedules, missed >>

Receive ==
  /\ pc = "wait"
  /\ broadcasts > 0
  /\ broadcasts' = broadcasts - 1
  /\ pc' = "get"
  /\ UNCHANGED << saved, subscribed, cfg, todo, waitsFor, taskData, schedules, missed >>

\* Fault: UpdateConfig is called with the configuration it had.
GetStale ==
  /\ pc = "get"
  /\ pc' = "cancel"
  /\ todo' = Tasks
  /\ UNCHANGED << changes, cfg, waitsFor, taskData, schedules, missed >>

\* Get, and UpdateConfig begins.  When Get fails the change is passed over.
Get ==
  /\ pc = "get"
  /\ \/ /\ cfg' = saved
        /\ pc' = "cancel"
        /\ todo' = Tasks
        /\ missed' = FALSE
     \/ /\ GetMayFail
        /\ pc' = "wait"
        /\ missed' = TRUE
        /\ UNCHANGED << cfg, todo >>
  /\ UNCHANGED << changes, waitsFor, taskData, schedules >>

-----------------------------------------------------------------------------
(* UpdateConfig.  Each loop visits its tasks in any order.                 *)

\* Fault: nobody waits for the goroutine to end.
CancelWithoutWaiting(t) ==
  /\ pc = "cancel"
  /\ t \in todo
  /\ todo' = todo \ {t}
  /\ LET s == taskData[t].schedule
     IN  IF s = 0 THEN UNCHANGED schedules
         ELSE schedules' = [schedules EXCEPT ![s].cancelled = TRUE]
  /\ UNCHANGED << changes, cfg, pc, waitsFor, taskData, missed >>

\* Fault: a task that is running is left alone.
CancelUnlessRunning(t) ==
  /\ pc = "cancel"
  /\ t \in todo
  /\ todo' = todo \ {t}
  /\ LET s == taskData[t].schedule
     IN  IF s = 0 \/ taskData[t].running
           THEN UNCHANGED << pc, waitsFor, schedules >>
           ELSE /\ schedules' = [schedules EXCEPT ![s].cancelled = TRUE]
                /\ waitsFor' = s
                /\ pc' = "await"
  /\ UNCHANGED << changes, cfg, taskData, missed >>

\* The first loop: the schedule of t is cancelled.  A task without TaskData
\* is passed over.
CancelSchedule(t) ==
  /\ pc = "cancel"
  /\ t \in todo
  /\ todo' = todo \ {t}
  /\ LET s == taskData[t].schedule
     IN  IF s = 0
           THEN UNCHANGED << pc, waitsFor, schedules >>
           ELSE /\ schedules' = [schedules EXCEPT ![s].cancelled = TRUE]
                /\ waitsFor' = s
                /\ pc' = "await"
  /\ UNCHANGED << changes, cfg, taskData, missed >>

\* <-isCancelled.
AwaitCancelled ==
  /\ pc = "await"
  /\ schedules[waitsFor].isCancelled
  /\ schedules' = [schedules EXCEPT ![waitsFor].isCancelled = FALSE]
  /\ waitsFor' = 0
  /\ pc' = "cancel"
  /\ UNCHANGED << changes, cfg, todo, taskData, missed >>

AllCancelled ==
  /\ pc = "cancel"
  /\ todo = {}
  /\ todo' = Tasks \ cfg.enabled
  /\ pc' = "remove"
  /\ UNCHANGED << changes, cfg, waitsFor, taskData, schedules, missed >>

\* Fault: taskData keeps tasks that are not scheduled again.
RemoveForgotten(t) ==
  /\ pc = "remove"
  /\ t \in todo
  /\ todo' = todo \ {t}
  /\ UNCHANGED << changes, cfg, pc, waitsFor, taskData, schedules, missed >>

\* A task that is not enabled loses its TaskData.
RemoveTask(t) ==
  /\ pc = "remove"
  /\ t \in todo
  /\ todo' = todo \ {t}
  /\ taskData' = [taskData EXCEPT ![t] = NoData]
  /\ UNCHANGED << changes, cfg, pc, waitsFor, schedules, missed >>

AllRemoved ==
  /\ pc = "remove"
  /\ todo = {}
  /\ todo' = cfg.enabled
  /\ pc' = "schedule"
  /\ UNCHANGED << changes, cfg, waitsFor, taskData, schedules, missed >>

\* ScheduleTask: new TaskData, a new context, a new goroutine.
ScheduleTask(t) ==
  /\ pc = "schedule"
  /\ t \in todo
  /\ todo' = todo \ {t}
  /\ schedules' = Append(schedules,
       [task |-> t, config |-> cfg.number, at |-> "select", cancelled |-> FALSE,
        isCancelled |-> FALSE])
  /\ taskData' = [taskData EXCEPT
       ![t] = [schedule |-> Len(schedules) + 1, running |-> FALSE]]
  /\ UNCHANGED << changes, cfg, pc, waitsFor, missed >>

AllScheduled ==
  /\ pc = "schedule"
  /\ todo = {}
  /\ pc' = IF subscribed THEN "wait" ELSE "start"
  /\ UNCHANGED << changes, cfg, todo, waitsFor, taskData, schedules, missed >>

-----------------------------------------------------------------------------
(* The goroutine of schedule s.                                            *)

\* The ticker fires.  The select may take it although the context is done,
\* when both are ready.
Tick(s) ==
  /\ schedules[s].at = "select"
  /\ schedules' = [schedules EXCEPT ![s].at = "running"]
  /\ taskData' = [taskData EXCEPT
       ![schedules[s].task] = [schedule |-> s, running |-> TRUE]]
  /\ UNCHANGED << changes, cfg, pc, todo, waitsFor, missed >>

\* Run returns; the state goes back to "not running".
RunReturns(s) ==
  /\ schedules[s].at = "running"
  /\ schedules' = [schedules EXCEPT ![s].at = "select"]
  /\ taskData' = [taskData EXCEPT
       ![schedules[s].task] = [schedule |-> s, running |-> FALSE]]
  /\ UNCHANGED << changes, cfg, pc, todo, waitsFor, missed >>

\* The context is done: the goroutine says so and ends.
SeeDone(s) ==
  /\ schedules[s].at = "select"
  /\ schedules[s].cancelled
  /\ schedules' = [schedules EXCEPT ![s].at = "gone", ![s].isCancelled = TRUE]
  /\ UNCHANGED << changes, cfg, pc, todo, waitsFor, taskData, missed >>

-----------------------------------------------------------------------------

Updater ==
  \/ Subscribe \/ Receive \/ Get
  \/ \E t \in Tasks : CancelSchedule(t) \/ RemoveTask(t) \/ ScheduleTask(t)
  \/ AwaitCancelled \/ AllCancelled \/ AllRemoved \/ AllScheduled

Next ==
  \/ \E S \in SUBSET Tasks : Save(S)
  \/ BroadcastMisses
  \/ Updater
  \/ \E s \in DOMAIN schedules : Tick(s) \/ RunReturns(s) \/ SeeDone(s)

Spec == Init /\ [][Next]_vars

\* The updating goroutine runs, a task's Run returns, and the random choice of
\* select does not pass over a cancelled context for ever.
Fairness ==
  /\ WF_vars(Updater)
  /\ \A s \in 1 .. (MaxChanges + 1) * Cardinality(Tasks) :
       /\ WF_vars(s \in DOMAIN schedules /\ RunReturns(s))
       /\ SF_vars(s \in DOMAIN schedules /\ SeeDone(s))

FairSpec == Spec /\ Fairness

-----------------------------------------------------------------------------
(* Properties                                                              *)

Live(s) == schedules[s].at # "gone"

\* UpdateConfig is not under way.
Settled == pc \in {"start", "wait", "get"}

TypeOK ==
  /\ saved \in Configs
  /\ subscribed \in BOOLEAN
  /\ broadcasts \in 0 .. MaxChanges
  /\ cfg \in Configs
  /\ pc \in {"start", "wait", "get", "cancel", "await", "remove", "schedule"}
  /\ todo \subseteq Tasks
  /\ waitsFor \in 0 .. Len(schedules)
  /\ waitsFor # 0 <=> pc = "await"
  /\ taskData \in [Tasks -> [schedule : 0 .. Len(schedules), running : BOOLEAN]]
  /\ schedules \in Seq([task : Tasks, config : 0 .. MaxChanges,
                        at : {"select", "running", "gone"},
                        cancelled : BOOLEAN, isCancelled : BOOLEAN])
  /\ missed \in BOOLEAN

\* A task has one goroutine at a time, so it never runs twice at once, not
\* even while the configuration changes during a run.
OneGoroutine ==
  \A r, s \in DOMAIN schedules :
    Live(r) /\ Live(s) /\ schedules[r].task = schedules[s].task => r = s

\* When UpdateConfig is done, the goroutines left are one for each task the
\* configuration enables, with that configuration and not cancelled: "if there
\* is no configuration for a task, the task will never run" (docs/Tasks.md).
FollowsConfig ==
  Settled =>
    LET live == { s \in DOMAIN schedules : Live(s) }
    IN  /\ { schedules[s].task : s \in live } = cfg.enabled
        /\ \A s \in live : schedules[s].config = cfg.number /\ ~schedules[s].cancelled

\* UpdateConfig waits for a goroutine that will answer, or has: the TaskData
\* it loads is never that of a schedule which answered an earlier update.
WaitIsAnswered ==
  pc = "await" =>
    Live(waitsFor) \/ schedules[waitsFor].isCancelled

\* A change broadcast to the TaskManager ends up applied, unless it cannot be
\* read.
AppliesChanges ==
  (subscribed /\ broadcasts > 0) ~> (pc = "wait" /\ (cfg = saved \/ missed))

=============================================================================
