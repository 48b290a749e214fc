------------------------------- MODULE TaskLoad -------------------------------
(***************************************************************************)
(* The ActionManager under any sequence of calls: the engine adds a task   *)
(* when it delays or fires an action (twice for one that is delayed, when  *)
(* the timer is armed and when it ends) and takes it out when the command  *)
(* closes.                                                                 *)
(***************************************************************************)
EXTENDS ActionManager

CONSTANT MaxDone     \* bound on tasks_done_count, for the runs

VARIABLE manager

Init == manager = NewManager

Add(t) ==
  /\ manager.tasks_done_count < MaxDone
  /\ manager' = AddTask(manager, t)

Remove(t) == manager' = RemoveTask(manager, t)

Next == \E t \in Task : Add(t) \/ Remove(t)

Spec == Init /\ [][Next]_manager
-------------------------------------------------------------------------------
TypeOK == ManagerType(manager)

\* The number of running tasks the console shows (tasks_count) is the size of
\* running_tasks, whatever the order of the calls, repeated adds and removals
\* of tasks that are not running included.
CountIsExact == TasksCounted(manager)

\* remove_task and add_task keep the fanout of the master task at the lowest
\* fanout among the running tasks.
FanoutInForce == LowestFanoutInForce(manager)

\* Taking a task out lets the fanout rise, never fall: a task that ends does
\* not slow the ones that are left.
RisesOnRemoval ==
  manager'.tasks_count < manager.tasks_count =>
    manager'.fanout = 0 \/ manager'.fanout >= manager.fanout

FanoutRisesOnRemoval == [][RisesOnRemoval]_manager
===============================================================================
