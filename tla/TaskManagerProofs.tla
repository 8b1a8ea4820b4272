-------------------------- MODULE TaskManagerProofs --------------------------
(***************************************************************************)
(* Proofs about TaskManager, for any tasks and any number of changes.  The *)
(* invariant says for each phase of UpdateConfig which goroutines can be   *)
(* alive: taskData always knows the live one of a task, and only the one   *)
(* that is waited for has been cancelled.                                  *)
(***************************************************************************)
EXTENDS TaskManager, TLAPS

Schedule == [task : Tasks, config : 0 .. MaxChanges,
             at : {"select", "running", "gone"},
             cancelled : BOOLEAN, isCancelled : BOOLEAN]

\* The latest schedule of t, when it has one.
Latest(t) == taskData[t].schedule

\* taskData holds the live goroutine of a task, and nobody else's.
DataIsOwn ==
  /\ \A s \in DOMAIN schedules : Live(s) => Latest(schedules[s].task) = s
  /\ \A t \in Tasks : Latest(t) # 0 => schedules[Latest(t)].task = t

\* A goroutine lives on until it is waited for, and answers as it ends.
EndsWhenAsked ==
  \A s \in DOMAIN schedules :
    /\ Live(s) /\ schedules[s].cancelled => s = waitsFor
    /\ schedules[s].isCancelled => ~Live(s)

\* While schedules are cancelled: those to come are alive, those done are gone.
Cancelling ==
  pc \in {"cancel", "await"} =>
    /\ \A t \in todo : Latest(t) # 0 => Live(Latest(t))
    /\ \A s \in DOMAIN schedules : Live(s) => schedules[s].task \in todo \/ s = waitsFor
    /\ waitsFor # 0 => schedules[waitsFor].task \notin todo

\* While tasks are removed: none is alive.
Removing ==
  pc = "remove" =>
    /\ \A s \in DOMAIN schedules : ~Live(s)
    /\ \A t \in Tasks : Latest(t) # 0 => t \in todo \cup cfg.enabled

\* While tasks are scheduled, and after: those done have their goroutine.
Scheduling ==
  pc \notin {"cancel", "await", "remove"} =>
    /\ todo \subseteq cfg.enabled
    /\ pc # "schedule" => todo = {}
    /\ \A s \in DOMAIN schedules : Live(s) =>
         /\ schedules[s].task \in cfg.enabled \ todo
         /\ schedules[s].config = cfg.number
    /\ \A t \in Tasks \ todo : Latest(t) # 0 => Live(Latest(t))
    /\ \A t \in cfg.enabled \ todo : Latest(t) # 0

IInv ==
  /\ TypeOK
  /\ broadcasts <= saved.number
  /\ DataIsOwn
  /\ EndsWhenAsked
  /\ Cancelling
  /\ Removing
  /\ Scheduling
  /\ WaitIsAnswered

-----------------------------------------------------------------------------

\* Putting another record in the place of a schedule.
LEMMA Replacing ==
  ASSUME schedules \in Seq(Schedule), NEW s \in DOMAIN schedules, NEW r \in Schedule,
         schedules' = [schedules EXCEPT ![s] = r]
  PROVE  /\ schedules' \in Seq(Schedule) /\ Len(schedules') = Len(schedules)
         /\ DOMAIN schedules' = DOMAIN schedules
         /\ schedules'[s] = r
         /\ \A i \in DOMAIN schedules : i # s => schedules'[i] = schedules[i]
OBVIOUS

\* What is known of the data in every state.
LEMMA Typing ==
  ASSUME TypeOK
  PROVE  /\ schedules \in Seq(Schedule)
         /\ Len(schedules) \in Nat
         /\ DOMAIN schedules = 1 .. Len(schedules)
         /\ \A s \in DOMAIN schedules : schedules[s] \in Schedule
         /\ \A t \in Tasks : /\ Latest(t) \in 0 .. Len(schedules)
                             /\ Latest(t) # 0 => Latest(t) \in DOMAIN schedules
         /\ waitsFor # 0 => waitsFor \in DOMAIN schedules
         /\ cfg.enabled \subseteq Tasks /\ cfg.number \in 0 .. MaxChanges
<1>1. /\ schedules \in Seq(Schedule)
      /\ taskData \in [Tasks -> [schedule : 0 .. Len(schedules), running : BOOLEAN]]
      /\ waitsFor \in 0 .. Len(schedules)
      /\ cfg \in Configs
  BY DEF TypeOK, Schedule
<1>2. Len(schedules) \in Nat /\ DOMAIN schedules = 1 .. Len(schedules)
  BY <1>1
<1>3. \A s \in DOMAIN schedules : schedules[s] \in Schedule
  BY <1>1
<1>4. \A t \in Tasks : Latest(t) \in 0 .. Len(schedules)
  BY <1>1 DEF Latest
<1>5. cfg.enabled \subseteq Tasks /\ cfg.number \in 0 .. MaxChanges
  BY <1>1 DEF Configs
<1> QED
  BY <1>1, <1>2, <1>3, <1>4, <1>5

\* Nothing changes but the configuration and who has been told of it.
LEMMA ChangesKeep ==
  ASSUME IInv, UNCHANGED << cfg, pc, todo, waitsFor, taskData, schedules, missed >>,
         saved' \in Configs, subscribed' \in BOOLEAN, broadcasts' \in 0 .. MaxChanges,
         broadcasts' <= saved'.number
  PROVE  IInv'
<1>1. TypeOK'
  BY DEF IInv, TypeOK
<1> QED
  BY <1>1 DEF IInv, DataIsOwn, EndsWhenAsked, Cancelling, Removing, Scheduling,
              WaitIsAnswered, Latest, Live

LEMMA SaveKeeps ==
  ASSUME IInv, NEW S \in SUBSET Tasks, Save(S)
  PROVE  IInv'
<1>1. /\ saved.number \in Nat /\ saved.number < MaxChanges /\ broadcasts \in Nat
      /\ broadcasts <= saved.number /\ MaxChanges \in Nat
  BY TaskManagerAssumption DEF IInv, TypeOK, Configs, Save
<1>2. /\ saved' \in Configs /\ saved'.number = saved.number + 1
  BY <1>1 DEF Save, Configs
<1>3. broadcasts' \in 0 .. MaxChanges /\ broadcasts' <= saved'.number
  BY <1>1, <1>2 DEF Save
<1> QED
  BY <1>2, <1>3, ChangesKeep DEF Save, IInv, TypeOK

LEMMA BroadcastMissesKeeps ==
  ASSUME IInv, BroadcastMisses
  PROVE  IInv'
<1>1. /\ broadcasts' \in 0 .. MaxChanges /\ broadcasts' <= saved.number
      /\ saved' = saved
  BY TaskManagerAssumption DEF IInv, TypeOK, Configs, BroadcastMisses
<1> QED
  BY <1>1, ChangesKeep DEF BroadcastMisses, IInv, TypeOK

\* Between updates: nobody is at work on the schedules.
LEMMA IdleKeeps ==
  ASSUME IInv, Subscribe \/ Receive \/ (Get /\ pc' = "wait")
  PROVE  IInv'
<1>0. /\ broadcasts \in 0 .. MaxChanges /\ MaxChanges \in Nat /\ saved.number \in Nat
      /\ broadcasts <= saved.number /\ subscribed \in BOOLEAN /\ missed \in BOOLEAN
  BY TaskManagerAssumption DEF IInv, TypeOK, Configs
<1>1. /\ pc \in {"start", "wait", "get"} /\ pc' \in {"wait", "get"}
      /\ UNCHANGED << saved, cfg, todo, waitsFor, taskData, schedules >>
      /\ broadcasts' \in 0 .. MaxChanges /\ broadcasts' <= saved'.number
      /\ subscribed' \in BOOLEAN /\ missed' \in BOOLEAN
  <2>1. CASE Subscribe
    BY <1>0, <2>1 DEF Subscribe
  <2>2. CASE Receive
    BY <1>0, <2>2 DEF Receive
  <2>3. CASE Get /\ pc' = "wait"
    BY <1>0, <2>3 DEF Get, changes
  <2> QED
    BY <2>1, <2>2, <2>3
<1>2. TypeOK'
  BY <1>1 DEF IInv, TypeOK
<1> QED
  BY <1>1, <1>2 DEF IInv, DataIsOwn, EndsWhenAsked, Cancelling, Removing, Scheduling,
                    WaitIsAnswered, Latest, Live

\* UpdateConfig begins.
LEMMA GetKeeps ==
  ASSUME IInv, Get, pc' = "cancel"
  PROVE  IInv'
<1>1. /\ pc = "get" /\ cfg' = saved /\ todo' = Tasks /\ missed' \in BOOLEAN
      /\ UNCHANGED << saved, subscribed, broadcasts, waitsFor, taskData, schedules >>
  BY DEF Get, changes
<1>2. todo = {} /\ waitsFor = 0
  BY <1>1 DEF IInv, TypeOK, Scheduling
<1>3. TypeOK'
  BY <1>1, <1>2 DEF IInv, TypeOK
<1>4. Cancelling'
  <2>1. \A t \in Tasks : Latest(t) # 0 => Live(Latest(t))
    BY <1>1, <1>2 DEF IInv, Scheduling
  <2>2. \A s \in DOMAIN schedules : schedules[s].task \in Tasks
    BY Typing DEF IInv, Schedule
  <2> QED
    BY <1>1, <1>2, <2>1, <2>2 DEF Cancelling, Latest, Live
<1>5. DataIsOwn' /\ EndsWhenAsked'
  BY <1>1 DEF IInv, DataIsOwn, EndsWhenAsked, Latest, Live
<1> QED
  BY <1>1, <1>3, <1>4, <1>5 DEF IInv, Removing, Scheduling, WaitIsAnswered

\* The schedule of t is cancelled, or it has none.
LEMMA CancelScheduleKeeps ==
  ASSUME IInv, NEW t \in Tasks, CancelSchedule(t)
  PROVE  IInv'
<1>1. /\ pc = "cancel" /\ t \in todo /\ todo' = todo \ {t} /\ todo \subseteq Tasks
      /\ waitsFor = 0
      /\ UNCHANGED << saved, subscribed, broadcasts, cfg, taskData, missed >>
  BY DEF IInv, TypeOK, CancelSchedule, changes
<1>2. CASE Latest(t) = 0
  <2>1. UNCHANGED << pc, waitsFor, schedules >>
    BY <1>2 DEF CancelSchedule, Latest
  <2>2. TypeOK'
    BY <1>1, <2>1 DEF IInv, TypeOK
  <2>3. \A s \in DOMAIN schedules : Live(s) => schedules[s].task # t
    BY <1>2, Typing DEF IInv, DataIsOwn
  <2> QED
    BY <1>1, <2>1, <2>2, <2>3
       DEF IInv, DataIsOwn, EndsWhenAsked, Cancelling, Removing, Scheduling,
           WaitIsAnswered, Latest, Live
<1>3. CASE Latest(t) # 0
  <2> DEFINE s == Latest(t)
             r == [schedules[s] EXCEPT !.cancelled = TRUE]
  <2>1. /\ s \in DOMAIN schedules /\ schedules[s] \in Schedule
        /\ schedules[s].task = t /\ Live(s)
    BY <1>1, <1>3, Typing DEF IInv, DataIsOwn, Cancelling
  <2>2. /\ r \in Schedule /\ r.task = t /\ r.at = schedules[s].at
        /\ r.config = schedules[s].config /\ r.isCancelled = schedules[s].isCancelled
    BY <2>1 DEF Schedule
  <2>3. schedules' = [schedules EXCEPT ![s] = r] /\ waitsFor' = s /\ pc' = "await"
    BY <1>3 DEF CancelSchedule, Latest
  <2>4. /\ schedules' \in Seq(Schedule) /\ Len(schedules') = Len(schedules)
        /\ DOMAIN schedules' = DOMAIN schedules
        /\ schedules'[s] = r
        /\ \A i \in DOMAIN schedules : i # s => schedules'[i] = schedules[i]
    BY <2>1, <2>2, <2>3, Typing, Replacing DEF IInv
  <2> HIDE DEF r
  <2>5. TypeOK'
    BY <1>1, <1>3, <2>1, <2>3, <2>4, Typing DEF IInv, TypeOK, Schedule
  <2>6. \A i \in DOMAIN schedules : /\ schedules'[i].task = schedules[i].task
                                    /\ schedules'[i].at = schedules[i].at
                                    /\ schedules'[i].isCancelled = schedules[i].isCancelled
                                    /\ i # s => schedules'[i].cancelled = schedules[i].cancelled
    BY <2>1, <2>2, <2>4
  <2>7. DataIsOwn' /\ EndsWhenAsked'
    BY <1>1, <2>3, <2>4, <2>6, Typing DEF IInv, DataIsOwn, EndsWhenAsked, Latest, Live
  <2>8. Cancelling'
    <3>1. \A i \in DOMAIN schedules : Live(i) => schedules[i].task \in todo
      BY <1>1, Typing DEF IInv, Cancelling
    <3>2. \A i \in DOMAIN schedules : Live(i) /\ schedules[i].task = t => i = s
      BY DEF IInv, DataIsOwn
    <3> QED
      BY <1>1, <2>1, <2>3, <2>4, <2>6, <3>1, <3>2, Typing
         DEF IInv, Cancelling, Latest, Live
  <2>9. WaitIsAnswered'
    BY <2>1, <2>3, <2>4, <2>6 DEF WaitIsAnswered, Live
  <2> QED
    BY <1>1, <2>3, <2>5, <2>7, <2>8, <2>9 DEF IInv, Removing, Scheduling
<1> QED
  BY <1>2, <1>3

\* The goroutine that was waited for is gone.
LEMMA AwaitCancelledKeeps ==
  ASSUME IInv, AwaitCancelled
  PROVE  IInv'
<1> DEFINE s == waitsFor
           r == [schedules[s] EXCEPT !.isCancelled = FALSE]
<1>1. /\ pc = "await" /\ pc' = "cancel" /\ waitsFor' = 0
      /\ schedules' = [schedules EXCEPT ![s] = r] /\ schedules[s].isCancelled
      /\ UNCHANGED << saved, subscribed, broadcasts, cfg, todo, taskData, missed >>
  BY DEF AwaitCancelled, changes
<1>2. s \in DOMAIN schedules /\ schedules[s] \in Schedule /\ ~Live(s)
  BY <1>1, Typing DEF IInv, TypeOK, EndsWhenAsked
<1>3. /\ r \in Schedule /\ r.task = schedules[s].task /\ r.at = schedules[s].at
      /\ r.cancelled = schedules[s].cancelled /\ r.isCancelled = FALSE
  BY <1>2 DEF Schedule
<1>4. /\ schedules' \in Seq(Schedule) /\ Len(schedules') = Len(schedules)
      /\ DOMAIN schedules' = DOMAIN schedules
      /\ schedules'[s] = r
      /\ \A i \in DOMAIN schedules : i # s => schedules'[i] = schedules[i]
  BY <1>1, <1>2, <1>3, Typing, Replacing DEF IInv
<1> HIDE DEF r
<1>5. TypeOK'
  BY <1>1, <1>4 DEF IInv, TypeOK, Schedule
<1>6. \A i \in DOMAIN schedules : /\ schedules'[i].task = schedules[i].task
                                  /\ schedules'[i].at = schedules[i].at
                                  /\ schedules'[i].cancelled = schedules[i].cancelled
                                  /\ schedules'[i].isCancelled => schedules[i].isCancelled
  BY <1>3, <1>4
<1>7. DataIsOwn' /\ EndsWhenAsked'
  BY <1>1, <1>2, <1>4, <1>6, Typing DEF IInv, DataIsOwn, EndsWhenAsked, Latest, Live
<1>8. Cancelling'
  BY <1>1, <1>2, <1>4, <1>6, Typing, SMTT(30) DEF IInv, TypeOK, Cancelling, Latest, Live
<1> QED
  BY <1>1, <1>5, <1>7, <1>8 DEF IInv, Removing, Scheduling, WaitIsAnswered

\* All schedules are cancelled.
LEMMA AllCancelledKeeps ==
  ASSUME IInv, AllCancelled
  PROVE  IInv'
<1>1. /\ pc = "cancel" /\ todo = {} /\ waitsFor = 0
      /\ pc' = "remove" /\ todo' = Tasks \ cfg.enabled
      /\ UNCHANGED << saved, subscribed, broadcasts, cfg, waitsFor, taskData, schedules, missed >>
  BY DEF IInv, TypeOK, AllCancelled, changes
<1>2. TypeOK'
  BY <1>1 DEF IInv, TypeOK
<1>3. Removing'
  BY <1>1, Typing DEF IInv, Removing, Cancelling, Latest, Live
<1> QED
  BY <1>1, <1>2, <1>3 DEF IInv, DataIsOwn, EndsWhenAsked, Cancelling, Scheduling,
                          WaitIsAnswered, Latest, Live

\* A task that is not enabled loses its TaskData; no goroutine is left to miss it.
LEMMA RemoveTaskKeeps ==
  ASSUME IInv, NEW t \in Tasks, RemoveTask(t)
  PROVE  IInv'
<1>1. /\ pc = "remove" /\ todo' = todo \ {t}
      /\ UNCHANGED << saved, subscribed, broadcasts, cfg, pc, waitsFor, schedules, missed >>
  BY DEF RemoveTask, changes
<1>2. /\ taskData' \in [Tasks -> [schedule : 0 .. Len(schedules), running : BOOLEAN]]
      /\ Latest(t)' = 0
      /\ \A u \in Tasks : u # t => Latest(u)' = Latest(u)
  BY Typing DEF IInv, TypeOK, RemoveTask, NoData, Latest
<1>3. TypeOK'
  BY <1>1, <1>2 DEF IInv, TypeOK
<1>4. DataIsOwn' /\ Removing'
  BY <1>1, <1>2, Typing DEF IInv, DataIsOwn, Removing, Live
<1> QED
  BY <1>1, <1>3, <1>4 DEF IInv, EndsWhenAsked, Cancelling, Scheduling, WaitIsAnswered, Live

\* All removals are done.
LEMMA AllRemovedKeeps ==
  ASSUME IInv, AllRemoved
  PROVE  IInv'
<1>1. /\ pc = "remove" /\ todo = {}
      /\ pc' = "schedule" /\ todo' = cfg.enabled
      /\ UNCHANGED << saved, subscribed, broadcasts, cfg, waitsFor, taskData, schedules, missed >>
  BY DEF AllRemoved, changes
<1>2. TypeOK'
  BY <1>1, Typing DEF IInv, TypeOK
<1>3. Scheduling'
  BY <1>1, Typing DEF IInv, Removing, Scheduling, Latest, Live
<1> QED
  BY <1>1, <1>2, <1>3 DEF IInv, DataIsOwn, EndsWhenAsked, Cancelling, Removing,
                          WaitIsAnswered, Latest, Live

\* A new goroutine: the task has no other.
LEMMA ScheduleTaskKeeps ==
  ASSUME IInv, NEW t \in Tasks, ScheduleTask(t)
  PROVE  IInv'
<1> DEFINE n == Len(schedules) + 1
           r == [task |-> t, config |-> cfg.number, at |-> "select",
                 cancelled |-> FALSE, isCancelled |-> FALSE]
<1>1. /\ pc = "schedule" /\ t \in todo /\ todo' = todo \ {t}
      /\ schedules' = Append(schedules, r)
      /\ UNCHANGED << saved, subscribed, broadcasts, cfg, pc, waitsFor, missed >>
  BY DEF ScheduleTask, changes
<1>2. /\ schedules' \in Seq(Schedule) /\ Len(schedules') = n
      /\ DOMAIN schedules' = DOMAIN schedules \cup {n}
      /\ n \notin DOMAIN schedules /\ n # 0 /\ n \in Nat
      /\ schedules'[n] = r
      /\ \A i \in DOMAIN schedules : schedules'[i] = schedules[i]
  BY <1>1, Typing DEF IInv, Schedule
<1>3. /\ taskData' \in [Tasks -> [schedule : 0 .. n, running : BOOLEAN]]
      /\ Latest(t)' = n
      /\ \A u \in Tasks : u # t => Latest(u)' = Latest(u)
  BY <1>2, Typing DEF IInv, TypeOK, ScheduleTask, Latest
<1>4. r.task = t /\ r.config = cfg.number /\ r.at = "select" /\ ~r.cancelled /\ ~r.isCancelled
  OBVIOUS
<1> HIDE DEF r
<1>5. TypeOK'
  BY <1>1, <1>2, <1>3, Typing DEF IInv, TypeOK, Schedule
<1>6. \A i \in DOMAIN schedules : Live(i) => schedules[i].task # t
  BY <1>1 DEF IInv, Scheduling
<1>7. DataIsOwn'
  <2>1. \A i \in DOMAIN schedules : schedules[i].task \in Tasks /\ i # n
    BY <1>2, Typing DEF IInv, Schedule
  <2>2. \A i \in DOMAIN schedules' : Live(i)' => Latest(schedules[i].task)' = i
    <3> SUFFICES ASSUME NEW i \in DOMAIN schedules', Live(i)'
                 PROVE  Latest(schedules[i].task)' = i
      OBVIOUS
    <3>1. CASE i = n
      BY <1>2, <1>3, <1>4, <3>1 DEF Latest
    <3>2. CASE i \in DOMAIN schedules
      BY <1>2, <1>3, <1>6, <2>1, <3>2 DEF IInv, DataIsOwn, Live, Latest
    <3> QED
      BY <1>2, <3>1, <3>2
  <2>3. \A u \in Tasks : Latest(u)' # 0 => schedules'[Latest(u)'].task = u
    BY <1>2, <1>3, <1>4, Typing DEF IInv, DataIsOwn
  <2> QED
    BY <2>2, <2>3 DEF DataIsOwn
<1>8. EndsWhenAsked' /\ WaitIsAnswered'
  BY <1>1, <1>2, <1>4, Typing DEF IInv, EndsWhenAsked, WaitIsAnswered, Live
<1>9. Scheduling'
  BY <1>1, <1>2, <1>3, <1>4, <1>6, Typing DEF IInv, Scheduling, Live
<1> QED
  BY <1>1, <1>5, <1>7, <1>8, <1>9 DEF IInv, Cancelling, Removing

LEMMA AllScheduledKeeps ==
  ASSUME IInv, AllScheduled
  PROVE  IInv'
<1>1. /\ pc = "schedule" /\ todo = {} /\ pc' \in {"wait", "start"}
      /\ UNCHANGED << saved, subscribed, broadcasts, cfg, todo, waitsFor, taskData, schedules, missed >>
  BY DEF AllScheduled, changes
<1>2. TypeOK'
  BY <1>1 DEF IInv, TypeOK
<1> QED
  BY <1>1, <1>2 DEF IInv, DataIsOwn, EndsWhenAsked, Cancelling, Removing, Scheduling,
                    WaitIsAnswered, Latest, Live

\* A run begins or ends: taskData names the goroutine it already named.
LEMMA RunKeeps ==
  ASSUME IInv, NEW s \in DOMAIN schedules, Tick(s) \/ RunReturns(s)
  PROVE  IInv'
<1>1. PICK at \in {"select", "running"}, running \in BOOLEAN :
        /\ Live(s)
        /\ schedules' = [schedules EXCEPT ![s].at = at]
        /\ taskData' = [taskData EXCEPT
             ![schedules[s].task] = [schedule |-> s, running |-> running]]
        /\ UNCHANGED << saved, subscribed, broadcasts, cfg, pc, todo, waitsFor, missed >>
  <2>1. CASE Tick(s)
    BY <2>1 DEF Tick, Live, changes
  <2>2. CASE RunReturns(s)
    BY <2>2 DEF RunReturns, Live, changes
  <2> QED
    BY <2>1, <2>2
<1> DEFINE r == [schedules[s] EXCEPT !.at = at]
           t == schedules[s].task
<1>2. schedules[s] \in Schedule /\ t \in Tasks /\ Latest(t) = s
  BY <1>1, Typing DEF IInv, DataIsOwn, Schedule
<1>3. /\ r \in Schedule /\ r.task = t /\ r.at = at /\ r.config = schedules[s].config
      /\ r.cancelled = schedules[s].cancelled /\ r.isCancelled = schedules[s].isCancelled
  BY <1>2 DEF Schedule
<1>4. /\ schedules' \in Seq(Schedule) /\ Len(schedules') = Len(schedules)
      /\ DOMAIN schedules' = DOMAIN schedules
      /\ schedules'[s] = r
      /\ \A i \in DOMAIN schedules : i # s => schedules'[i] = schedules[i]
  BY <1>1, <1>3, Typing, Replacing DEF IInv
<1>5. /\ taskData' \in [Tasks -> [schedule : 0 .. Len(schedules), running : BOOLEAN]]
      /\ \A u \in Tasks : Latest(u)' = Latest(u)
  BY <1>1, <1>2, Typing DEF IInv, TypeOK, Latest
<1> HIDE DEF r
<1>6. TypeOK'
  BY <1>1, <1>4, <1>5 DEF IInv, TypeOK, Schedule
<1>7. /\ \A i \in DOMAIN schedules :
           /\ schedules'[i].task = schedules[i].task
           /\ schedules'[i].config = schedules[i].config
           /\ schedules'[i].cancelled = schedules[i].cancelled
           /\ schedules'[i].isCancelled = schedules[i].isCancelled
           /\ Live(i)' <=> Live(i)
  BY <1>1, <1>3, <1>4 DEF Live
<1>8. DataIsOwn' /\ EndsWhenAsked'
  <2>1. \A i \in DOMAIN schedules : schedules[i].task \in Tasks
    BY Typing DEF IInv, Schedule
  <2>2. DataIsOwn'
    BY <1>4, <1>5, <1>7, <2>1, Typing, SMTT(60) DEF IInv, DataIsOwn
  <2>3. EndsWhenAsked'
    BY <1>1, <1>4, <1>7 DEF IInv, EndsWhenAsked
  <2> QED
    BY <2>2, <2>3
<1>9. Cancelling' /\ WaitIsAnswered'
  <2>1. todo \subseteq Tasks /\ (waitsFor # 0 <=> pc = "await")
    BY DEF IInv, TypeOK
  <2> QED
    BY <1>1, <1>4, <1>5, <1>7, <2>1, Typing DEF IInv, Cancelling, WaitIsAnswered
<1>10. Removing'
  BY <1>1, <1>4, <1>5, <1>7, Typing DEF IInv, Removing
<1>11. Scheduling'
  BY <1>1, <1>4, <1>5, <1>7, Typing DEF IInv, Scheduling
<1> QED
  BY <1>1, <1>6, <1>8, <1>9, <1>10, <1>11 DEF IInv

\* A goroutine ends: it is the one that is waited for.
LEMMA SeeDoneKeeps ==
  ASSUME IInv, NEW s \in DOMAIN schedules, SeeDone(s)
  PROVE  IInv'
<1> DEFINE r == [schedules[s] EXCEPT !.at = "gone", !.isCancelled = TRUE]
<1>1. /\ Live(s) /\ schedules[s].cancelled
      /\ schedules' = [schedules EXCEPT ![s] = r]
      /\ UNCHANGED << saved, subscribed, broadcasts, cfg, pc, todo, waitsFor, taskData, missed >>
  BY DEF SeeDone, Live, changes
<1>2. s = waitsFor /\ pc = "await"
  BY <1>1, Typing, SMTT(30) DEF IInv, TypeOK, EndsWhenAsked
<1>3. /\ schedules[s] \in Schedule
      /\ r \in Schedule /\ r.task = schedules[s].task /\ r.at = "gone" /\ r.isCancelled
  BY Typing DEF IInv, Schedule
<1>4. /\ schedules' \in Seq(Schedule) /\ Len(schedules') = Len(schedules)
      /\ DOMAIN schedules' = DOMAIN schedules
      /\ schedules'[s] = r
      /\ \A i \in DOMAIN schedules : i # s => schedules'[i] = schedules[i]
  BY <1>1, <1>3, Typing, Replacing DEF IInv
<1> HIDE DEF r
<1>5. TypeOK'
  BY <1>1, <1>4 DEF IInv, TypeOK, Schedule
<1>6. /\ \A i \in DOMAIN schedules : /\ schedules'[i].task = schedules[i].task
                                     /\ Live(i)' => Live(i) /\ i # s
                                     /\ i # s => (Live(i)' <=> Live(i))
  BY <1>3, <1>4 DEF Live
<1>7. DataIsOwn' /\ EndsWhenAsked'
  BY <1>1, <1>3, <1>4, <1>6, Typing DEF IInv, DataIsOwn, EndsWhenAsked, Latest, Live
<1>8. Cancelling'
  <2>1. \A t \in todo : Latest(t) # s
    BY <1>2, Typing DEF IInv, TypeOK, DataIsOwn, Cancelling
  <2> QED
    BY <1>1, <1>2, <1>4, <1>6, <2>1, Typing DEF IInv, TypeOK, Cancelling, Latest
<1>9. WaitIsAnswered'
  BY <1>1, <1>2, <1>3, <1>4 DEF WaitIsAnswered
<1> QED
  BY <1>1, <1>2, <1>5, <1>7, <1>8, <1>9 DEF IInv, Removing, Scheduling

-----------------------------------------------------------------------------
(* The invariant                                                           *)

LEMMA InitHolds == Init => IInv
<1> SUFFICES ASSUME Init PROVE IInv
  OBVIOUS
<1>1. saved \in Configs /\ saved.number = 0
  BY TaskManagerAssumption DEF Init, Configs
<1>2. schedules \in Seq(Schedule) /\ Len(schedules) = 0 /\ DOMAIN schedules = {}
  BY DEF Init
<1>3. taskData \in [Tasks -> [schedule : 0 .. Len(schedules), running : BOOLEAN]]
  BY <1>2 DEF Init, NoData
<1>4. TypeOK
  <2>1. /\ broadcasts \in 0 .. MaxChanges /\ waitsFor \in 0 .. Len(schedules)
        /\ cfg \in Configs
    BY <1>1, <1>2, TaskManagerAssumption DEF Init
  <2>2. /\ waitsFor # 0 <=> pc = "await"
        /\ subscribed \in BOOLEAN /\ missed \in BOOLEAN
        /\ pc \in {"start", "wait", "get", "cancel", "await", "remove", "schedule"}
        /\ todo \subseteq Tasks
    BY DEF Init
  <2> QED
    BY <1>1, <1>2, <1>3, <2>1, <2>2 DEF TypeOK, Schedule
<1>5. \A t \in Tasks : Latest(t) = 0
  BY DEF Init, NoData, Latest
<1> QED
  BY <1>1, <1>2, <1>4, <1>5
     DEF Init, IInv, DataIsOwn, EndsWhenAsked, Cancelling, Removing, Scheduling, WaitIsAnswered

LEMMA StepHolds == IInv /\ [Next]_vars => IInv'
<1> SUFFICES ASSUME IInv, [Next]_vars PROVE IInv'
  OBVIOUS
<1>1. ASSUME NEW S \in SUBSET Tasks, Save(S) PROVE IInv'
  BY <1>1, SaveKeeps
<1>2. CASE BroadcastMisses
  BY <1>2, BroadcastMissesKeeps
<1>3. CASE Updater
  <2>1. CASE Subscribe \/ Receive
    BY <2>1, IdleKeeps
  <2>2. CASE Get
    BY <2>2, IdleKeeps, GetKeeps DEF Get
  <2>3. ASSUME NEW t \in Tasks, CancelSchedule(t) PROVE IInv'
    BY <2>3, CancelScheduleKeeps
  <2>4. ASSUME NEW t \in Tasks, RemoveTask(t) PROVE IInv'
    BY <2>4, RemoveTaskKeeps
  <2>5. ASSUME NEW t \in Tasks, ScheduleTask(t) PROVE IInv'
    BY <2>5, ScheduleTaskKeeps
  <2>6. CASE AwaitCancelled \/ AllCancelled \/ AllRemoved \/ AllScheduled
    BY <2>6, AwaitCancelledKeeps, AllCancelledKeeps, AllRemovedKeeps, AllScheduledKeeps
  <2> QED
    BY <1>3, <2>1, <2>2, <2>3, <2>4, <2>5, <2>6 DEF Updater
<1>4. ASSUME NEW s \in DOMAIN schedules, Tick(s) \/ RunReturns(s) PROVE IInv'
  BY <1>4, RunKeeps
<1>5. ASSUME NEW s \in DOMAIN schedules, SeeDone(s) PROVE IInv'
  BY <1>5, SeeDoneKeeps
<1>6. CASE UNCHANGED vars
  BY <1>6 DEF vars, IInv, TypeOK, DataIsOwn, EndsWhenAsked, Cancelling, Removing,
              Scheduling, WaitIsAnswered, Latest, Live
<1> QED
  BY <1>1, <1>2, <1>3, <1>4, <1>5, <1>6 DEF Next

LEMMA Inductive == Spec => []IInv
BY InitHolds, StepHolds, PTL DEF Spec

\* Variables keep their types; the updating goroutine names a schedule it waits
\* for exactly while it waits.
THEOREM TypeCorrect == Spec => []TypeOK
<1>1. IInv => TypeOK
  BY DEF IInv
<1> QED
  BY <1>1, Inductive, PTL

\* No task ever has two goroutines, however often the configuration changes.
THEOREM NeverTwice == Spec => []OneGoroutine
<1>1. IInv => OneGoroutine
  BY DEF IInv, DataIsOwn, OneGoroutine
<1> QED
  BY <1>1, Inductive, PTL

\* After an update the goroutines left are those the configuration asks for.
THEOREM ConfigFollowed == Spec => []FollowsConfig
<1>1. ASSUME IInv, Settled PROVE FollowsConfig
  <2>1. /\ todo = {}
        /\ \A s \in DOMAIN schedules : Live(s) =>
             schedules[s].task \in cfg.enabled /\ schedules[s].config = cfg.number
        /\ \A t \in cfg.enabled : Latest(t) # 0 /\ Live(Latest(t))
    BY <1>1, Typing DEF IInv, Settled, Scheduling
  <2>2. \A s \in DOMAIN schedules : Live(s) => ~schedules[s].cancelled
    BY <1>1, Typing, SMTT(30) DEF IInv, TypeOK, Settled, EndsWhenAsked
  <2>3. \A t \in cfg.enabled : Latest(t) \in DOMAIN schedules /\ schedules[Latest(t)].task = t
    BY <1>1, <2>1, Typing DEF IInv, DataIsOwn
  <2> QED
    BY <2>1, <2>2, <2>3 DEF FollowsConfig
<1>2. IInv => FollowsConfig
  BY <1>1 DEF FollowsConfig
<1> QED
  BY <1>2, Inductive, PTL

\* UpdateConfig never waits for an answer that was already used up.
THEOREM WaitAnswered == Spec => []WaitIsAnswered
<1>1. IInv => WaitIsAnswered
  BY DEF IInv
<1> QED
  BY <1>1, Inductive, PTL

=============================================================================
