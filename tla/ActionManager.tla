---------------------------- MODULE ActionManager ----------------------------
(***************************************************************************)
(* The ActionManager singleton (lib/MilkCheck/Engine/Action.py): the tasks *)
(* that are running, filed by fanout, and the fanout imposed on the        *)
(* ClusterShell master task, the lowest of the running ones.  The state of *)
(* the manager is one record, so that a handler may call several methods.  *)
(***************************************************************************)
EXTENDS Integers, FiniteSets

CONSTANTS
  Task,           \* the actions given to the manager
  TaskFanout,     \* fanout property of each action, 0 standing for None
  DefaultFanout   \* default_fanout, from the configuration

ASSUME TaskFanoutAssumption == TaskFanout \in [Task -> Int]
ASSUME DefaultFanoutAssumption == DefaultFanout \in Nat \ {0}

\* Manager state: fanout 0 is None; master_fanout is the `fanout' info of
\* the master task; finished tells whether EV_FINISHED was ever notified.
NewManager ==
  [entities      |-> [f \in {} |-> {}],
   fanout        |-> 0,
   master_fanout |-> DefaultFanout,
   tasks_count      |-> 0,
   tasks_done_count |-> 0,
   finished      |-> FALSE]

\* `task.fanout or self.default_fanout'
Fanout(t) == IF TaskFanout[t] = 0 THEN DefaultFanout ELSE TaskFanout[t]

RunningTasks(m) == UNION {m.entities[f] : f \in DOMAIN m.entities}

IsRunningTask(m, t) ==
  LET key == IF TaskFanout[t] < 1 THEN DefaultFanout ELSE TaskFanout[t]
  IN  key \in DOMAIN m.entities /\ t \in m.entities[key]

Category(m, f) == IF f \in DOMAIN m.entities THEN m.entities[f] ELSE {}

\* Files `t' under `fnt', and counts it.
FileTask(m, t, fnt, lowest) ==
  [entities |-> [f \in DOMAIN m.entities \cup {fnt} |->
                   IF f = fnt THEN Category(m, f) \cup {t} ELSE m.entities[f]],
   fanout        |-> IF lowest THEN fnt ELSE m.fanout,
   master_fanout |-> IF lowest THEN fnt ELSE m.master_fanout,
   tasks_count      |-> m.tasks_count + 1,
   tasks_done_count |-> m.tasks_done_count + 1,
   finished         |-> m.finished]

\* Slips: a task that runs is counted again; the highest fanout is kept.
AddTaskTwice(m, t) ==
  FileTask(m, t, Fanout(t), m.fanout = 0 \/ Fanout(t) < m.fanout)
AddTaskHighest(m, t) ==
  IF IsRunningTask(m, t) THEN m
  ELSE FileTask(m, t, Fanout(t), m.fanout = 0 \/ Fanout(t) > m.fanout)

AddTask(m, t) ==
  IF IsRunningTask(m, t) THEN m
  ELSE FileTask(m, t, Fanout(t), m.fanout = 0 \/ Fanout(t) < m.fanout)

\* sorted(keys)[0]
LowestFanout(keys) == CHOOSE f \in keys : \A g \in keys : f <= g

\* The books of `m' with another dictionary, fanout and number of tasks.
Books(m, entities, fanout, master_fanout, count) ==
  [entities |-> entities, fanout |-> fanout, master_fanout |-> master_fanout,
   tasks_count |-> count, tasks_done_count |-> m.tasks_done_count,
   finished |-> m.finished \/ count = 0]

\* The fanout is evaluated again only when a category is emptied.
TakeOut(m, t, fnt, keys) ==
  IF m.entities[fnt] # {t}
  THEN Books(m, [m.entities EXCEPT ![fnt] = @ \ {t}], m.fanout,
             m.master_fanout, m.tasks_count - 1)
  ELSE Books(m, [f \in keys |-> m.entities[f]],
             IF keys = {} THEN 0 ELSE LowestFanout(keys),
             IF keys = {} THEN m.master_fanout ELSE LowestFanout(keys),
             m.tasks_count - 1)

\* Slips: the fanout of the task that ended stays in force; a task that was
\* not running is uncounted too.
RemoveTaskKeepingFanout(m, t) ==
  LET fnt  == Fanout(t)
      left == [f \in DOMAIN m.entities |-> m.entities[f] \ {t}]
  IN  IF IsRunningTask(m, t)
      THEN Books(m, [f \in {g \in DOMAIN left : left[g] # {}} |-> left[f]],
                 m.fanout, m.master_fanout, m.tasks_count - 1)
      ELSE Books(m, m.entities, m.fanout, m.master_fanout, m.tasks_count)
RemoveTaskUnchecked(m, t) ==
  IF IsRunningTask(m, t)
  THEN TakeOut(m, t, Fanout(t), DOMAIN m.entities \ {Fanout(t)})
  ELSE Books(m, m.entities, m.fanout, m.master_fanout, m.tasks_count - 1)

RemoveTask(m, t) ==
  IF IsRunningTask(m, t)
  THEN TakeOut(m, t, Fanout(t), DOMAIN m.entities \ {Fanout(t)})
  ELSE Books(m, m.entities, m.fanout, m.master_fanout, m.tasks_count)
-------------------------------------------------------------------------------
ManagerType(m) ==
  /\ m = [entities |-> m.entities, fanout |-> m.fanout,
          master_fanout |-> m.master_fanout, tasks_count |-> m.tasks_count,
          tasks_done_count |-> m.tasks_done_count, finished |-> m.finished]
  /\ DOMAIN m.entities \subseteq Int
  /\ m.entities \in [DOMAIN m.entities -> SUBSET Task]
  /\ m.fanout \in Int
  /\ m.master_fanout \in Int
  /\ m.tasks_count \in Nat
  /\ m.tasks_done_count \in Nat
  /\ m.finished \in BOOLEAN

\* A task is filed once, under its own fanout, and no category is empty.
TasksFiled(m) ==
  \A f \in DOMAIN m.entities :
    /\ m.entities[f] # {}
    /\ \A t \in m.entities[f] : Fanout(t) = f

\* The counter the console prints is the number of tasks that run.
TasksCounted(m) ==
  /\ IsFiniteSet(RunningTasks(m))
  /\ m.tasks_count = Cardinality(RunningTasks(m))

\* The fanout in force is the lowest one of the running tasks, and it is the
\* one the master task was told.
LowestFanoutInForce(m) ==
  IF DOMAIN m.entities = {}
  THEN m.fanout = 0
  ELSE /\ m.fanout \in DOMAIN m.entities
       /\ \A f \in DOMAIN m.entities : m.fanout <= f
       /\ m.master_fanout = m.fanout

ManagerOK(m) ==
  ManagerType(m) /\ TasksFiled(m) /\ TasksCounted(m) /\ LowestFanoutInForce(m)
===============================================================================
