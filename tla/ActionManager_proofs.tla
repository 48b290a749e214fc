------------------------- MODULE ActionManager_proofs -------------------------
(***************************************************************************)
(* The methods of the ActionManager keep its books right (ManagerOK), and  *)
(* add or take out the task they are given, when no fanout is negative.    *)
(***************************************************************************)
EXTENDS ActionManager, FiniteSetTheorems, WellFoundedInduction, TLAPS

\* A task that gives no fanout, or a positive one; a negative one is filed
\* where _is_running_task does not look for it.
NoNegativeFanout == \A t \in Task : TaskFanout[t] >= 0

\* The category a task is filed in is a positive number.
LEMMA FanoutType ==
  ASSUME NoNegativeFanout, NEW t \in Task
  PROVE  Fanout(t) \in Nat \ {0}
BY TaskFanoutAssumption, DefaultFanoutAssumption DEF NoNegativeFanout, Fanout

\* sorted(keys)[0] exists: a set of naturals that is not empty has a least one.
LEMMA LeastNatural ==
  ASSUME NEW S \in SUBSET Nat, S # {}
  PROVE  \E x \in S : \A y \in S : x <= y
<1>1. PICK x \in S : \A y \in S : ~ (<<y, x>> \in OpToRel(<, Nat))
  BY WFMin, NatLessThanWellFounded, Zenon
<1>2. \A y \in S : ~ (y < x)
  BY <1>1 DEF OpToRel
<1> QED BY <1>2

\* The fanout remove_task picks is in the dictionary, and none is below it.
LEMMA LowestFanoutIsLowest ==
  ASSUME NEW keys \in SUBSET Nat, keys # {}
  PROVE  /\ LowestFanout(keys) \in keys
         /\ \A f \in keys : LowestFanout(keys) <= f
BY LeastNatural DEF LowestFanout

\* The keys of a well filed dictionary are fanouts of tasks.
LEMMA KeysAreFanouts ==
  ASSUME NoNegativeFanout, NEW m, ManagerType(m), TasksFiled(m)
  PROVE  DOMAIN m.entities \subseteq Nat \ {0}
<1> SUFFICES ASSUME NEW f \in DOMAIN m.entities PROVE f \in Nat \ {0}
  OBVIOUS
<1>1. PICK t \in m.entities[f] : TRUE
  BY DEF TasksFiled
<1>2. t \in Task
  BY DEF ManagerType
<1> QED BY <1>1, <1>2, FanoutType DEF TasksFiled

\* _is_running_task looks in the right category.
LEMMA RunningIsFiled ==
  ASSUME NoNegativeFanout, NEW m, ManagerType(m), TasksFiled(m), NEW t \in Task
  PROVE  /\ IsRunningTask(m, t) <=> t \in RunningTasks(m)
         /\ IsRunningTask(m, t) <=> t \in Category(m, Fanout(t))
<1> DEFINE key == IF TaskFanout[t] < 1 THEN DefaultFanout ELSE TaskFanout[t]
<1>1. key = Fanout(t)
  BY TaskFanoutAssumption DEF NoNegativeFanout, Fanout
<1>2. IsRunningTask(m, t) <=> key \in DOMAIN m.entities /\ t \in m.entities[key]
  BY DEF IsRunningTask
<1>3. t \in RunningTasks(m) <=> \E f \in DOMAIN m.entities : t \in m.entities[f]
  BY DEF RunningTasks
<1>4. \A f \in DOMAIN m.entities : t \in m.entities[f] => Fanout(t) = f
  BY DEF TasksFiled
<1> HIDE DEF key
<1> QED BY <1>1, <1>2, <1>3, <1>4 DEF Category

\* Filing a task that does not run, under its own fanout.
LEMMA FileTaskOK ==
  ASSUME NoNegativeFanout, NEW m, ManagerOK(m), NEW t \in Task,
         t \notin RunningTasks(m)
  PROVE  LET n == FileTask(m, t, Fanout(t), m.fanout = 0 \/ Fanout(t) < m.fanout)
         IN  ManagerOK(n) /\ RunningTasks(n) = RunningTasks(m) \cup {t}
<1> DEFINE fnt == Fanout(t)
           lowest == m.fanout = 0 \/ fnt < m.fanout
           n == FileTask(m, t, fnt, lowest)
           keys == DOMAIN m.entities
<1> USE DEF ManagerOK
<1>1. /\ n.entities = [f \in keys \cup {fnt} |->
                        IF f = fnt THEN Category(m, f) \cup {t} ELSE m.entities[f]]
      /\ n.fanout = (IF lowest THEN fnt ELSE m.fanout)
      /\ n.master_fanout = (IF lowest THEN fnt ELSE m.master_fanout)
      /\ n.tasks_done_count = m.tasks_done_count + 1
      /\ n.tasks_count = m.tasks_count + 1
      /\ n.finished = m.finished
      /\ n = [entities |-> n.entities, fanout |-> n.fanout,
              master_fanout |-> n.master_fanout, tasks_count |-> n.tasks_count,
              tasks_done_count |-> n.tasks_done_count, finished |-> n.finished]
  BY DEF FileTask, ManagerType
<1>2. fnt \in Nat \ {0} /\ keys \subseteq Nat \ {0}
  BY FanoutType, KeysAreFanouts
<1>3. \A f \in keys : m.entities[f] \subseteq Task
  BY DEF ManagerType
<1> HIDE DEF n
<1>4. ManagerType(n)
  <2>1. n.entities \in [DOMAIN n.entities -> SUBSET Task]
    BY <1>1, <1>3 DEF Category
  <2>2. DOMAIN n.entities \subseteq Int
    BY <1>1, <1>2
  <2>3. /\ n.fanout \in Int /\ n.master_fanout \in Int /\ n.finished \in BOOLEAN
        /\ n.tasks_count \in Nat /\ n.tasks_done_count \in Nat
    BY <1>1, <1>2 DEF ManagerType
  <2> QED BY <1>1, <2>1, <2>2, <2>3 DEF ManagerType
<1>5. TasksFiled(n)
  BY <1>1 DEF TasksFiled, Category
<1>6. RunningTasks(n) = RunningTasks(m) \cup {t}
  BY <1>1 DEF RunningTasks, Category
<1>7. TasksCounted(n)
  <2>1. /\ IsFiniteSet(RunningTasks(m) \cup {t})
        /\ Cardinality(RunningTasks(m) \cup {t}) = Cardinality(RunningTasks(m)) + 1
    BY FS_AddElement DEF TasksCounted
  <2> QED BY <1>1, <1>6, <2>1 DEF TasksCounted
<1>8. LowestFanoutInForce(n)
  <2>1. DOMAIN n.entities = keys \cup {fnt}
    BY <1>1
  <2>2. CASE lowest
    <3>1. keys # {} => \A f \in keys : m.fanout <= f
      BY DEF LowestFanoutInForce
    <3>2. keys # {} => m.fanout \in keys
      BY DEF LowestFanoutInForce
    <3>3. \A f \in keys : fnt <= f
      BY <1>2, <2>2, <3>1, <3>2
    <3> QED BY <1>1, <1>2, <2>1, <2>2, <3>3 DEF LowestFanoutInForce
  <2>3. CASE ~lowest
    <3>1. keys # {}
      BY <2>3 DEF LowestFanoutInForce
    <3>2. /\ m.fanout \in keys /\ \A f \in keys : m.fanout <= f
          /\ m.master_fanout = m.fanout
      BY <3>1 DEF LowestFanoutInForce
    <3>3. m.fanout <= fnt
      BY <1>2, <2>3, <3>2
    <3> QED BY <1>1, <2>1, <2>3, <3>2, <3>3 DEF LowestFanoutInForce
  <2> QED BY <2>2, <2>3
<1> QED BY <1>4, <1>5, <1>6, <1>7, <1>8 DEF n

\* add_task: a task that runs already is not added again.
THEOREM AddTaskOK ==
  ASSUME NoNegativeFanout, NEW m, ManagerOK(m), NEW t \in Task
  PROVE  /\ ManagerOK(AddTask(m, t))
         /\ RunningTasks(AddTask(m, t)) = RunningTasks(m) \cup {t}
<1>1. IsRunningTask(m, t) <=> t \in RunningTasks(m)
  BY RunningIsFiled DEF ManagerOK
<1>2. CASE IsRunningTask(m, t)
  BY <1>1, <1>2 DEF AddTask
<1>3. CASE ~IsRunningTask(m, t)
  BY <1>1, <1>3, FileTaskOK DEF AddTask
<1> QED BY <1>2, <1>3

\* The category a running task leaves, and the fanout that is then in force.
LEMMA TakeOutOK ==
  ASSUME NoNegativeFanout, NEW m, ManagerOK(m), NEW t \in Task,
         t \in RunningTasks(m)
  PROVE  LET n == TakeOut(m, t, Fanout(t), DOMAIN m.entities \ {Fanout(t)})
         IN  ManagerOK(n) /\ RunningTasks(n) = RunningTasks(m) \ {t}
<1> DEFINE fnt  == Fanout(t)
           keys == DOMAIN m.entities \ {fnt}
           n    == TakeOut(m, t, fnt, keys)
           low  == LowestFanout(keys)
           alone == m.entities[fnt] = {t}
<1> USE DEF ManagerOK
<1>1. fnt \in DOMAIN m.entities /\ t \in m.entities[fnt]
  BY RunningIsFiled DEF Category
<1>2. fnt \in Nat \ {0} /\ DOMAIN m.entities \subseteq Nat \ {0}
  BY FanoutType, KeysAreFanouts
<1>3. \A f \in DOMAIN m.entities : m.entities[f] \subseteq Task
  BY DEF ManagerType
<1>4. keys # {} => low \in keys /\ \A f \in keys : low <= f
  BY <1>2, LowestFanoutIsLowest
<1>5. /\ n.entities = (IF alone THEN [f \in keys |-> m.entities[f]]
                       ELSE [m.entities EXCEPT ![fnt] = @ \ {t}])
      /\ n.fanout = (IF alone THEN IF keys = {} THEN 0 ELSE low ELSE m.fanout)
      /\ n.master_fanout = (IF ~alone \/ keys = {} THEN m.master_fanout ELSE low)
      /\ n.tasks_done_count = m.tasks_done_count
      /\ n.tasks_count = m.tasks_count - 1
      /\ n.finished \in BOOLEAN
      /\ n = [entities |-> n.entities, fanout |-> n.fanout,
              master_fanout |-> n.master_fanout, tasks_count |-> n.tasks_count,
              tasks_done_count |-> n.tasks_done_count, finished |-> n.finished]
  BY DEF TakeOut, Books, ManagerType
<1> HIDE DEF n, low
<1>6. RunningTasks(n) = RunningTasks(m) \ {t}
  <2>1. \A f \in keys : t \notin m.entities[f]
    BY DEF TasksFiled
  <2>2. CASE alone
    BY <1>1, <1>5, <2>1, <2>2 DEF RunningTasks
  <2>3. CASE ~alone
    BY <1>1, <1>5, <2>1, <2>3 DEF RunningTasks, ManagerType
  <2> QED BY <2>2, <2>3
<1>7. TasksCounted(n) /\ n.tasks_count \in Nat
  <2>1. /\ IsFiniteSet(RunningTasks(m) \ {t})
        /\ Cardinality(RunningTasks(m) \ {t}) = Cardinality(RunningTasks(m)) - 1
    BY FS_RemoveElement DEF TasksCounted
  <2>2. Cardinality(RunningTasks(m) \ {t}) \in Nat
    BY <2>1, FS_CardinalityType
  <2> QED BY <1>5, <1>6, <2>1, <2>2 DEF TasksCounted
<1>8. ManagerType(n)
  <2>1. n.entities \in [DOMAIN n.entities -> SUBSET Task]
    BY <1>1, <1>3, <1>5 DEF ManagerType
  <2>2. DOMAIN n.entities \subseteq Int
    BY <1>2, <1>5 DEF ManagerType
  <2>3. n.fanout \in Int /\ n.master_fanout \in Int /\ n.tasks_done_count \in Nat
    BY <1>2, <1>4, <1>5 DEF ManagerType
  <2> QED BY <1>5, <1>7, <2>1, <2>2, <2>3 DEF ManagerType
<1>9. TasksFiled(n)
  BY <1>1, <1>5 DEF TasksFiled, ManagerType
<1>10. LowestFanoutInForce(n)
  <2>1. CASE ~alone
    <3>1. DOMAIN n.entities = DOMAIN m.entities
      BY <1>5, <2>1 DEF ManagerType
    <3> QED BY <1>1, <1>5, <2>1, <3>1 DEF LowestFanoutInForce
  <2>2. CASE alone
    <3>1. DOMAIN n.entities = keys
      BY <1>5, <2>2
    <3> QED BY <1>4, <1>5, <2>2, <3>1 DEF LowestFanoutInForce
  <2> QED BY <2>1, <2>2
<1> QED BY <1>6, <1>7, <1>8, <1>9, <1>10 DEF n

\* remove_task: a task that does not run is left alone.
THEOREM RemoveTaskOK ==
  ASSUME NoNegativeFanout, NEW m, ManagerOK(m), NEW t \in Task
  PROVE  /\ ManagerOK(RemoveTask(m, t))
         /\ RunningTasks(RemoveTask(m, t)) = RunningTasks(m) \ {t}
<1>1. IsRunningTask(m, t) <=> t \in RunningTasks(m)
  BY RunningIsFiled DEF ManagerOK
<1>2. CASE IsRunningTask(m, t)
  BY <1>1, <1>2, TakeOutOK DEF RemoveTask
<1>3. CASE ~IsRunningTask(m, t)
  <2> DEFINE n == RemoveTask(m, t)
  <2>1. /\ n.entities = m.entities /\ n.fanout = m.fanout
        /\ n.master_fanout = m.master_fanout
        /\ n.tasks_count = m.tasks_count
        /\ n.tasks_done_count = m.tasks_done_count
        /\ n.finished = (m.finished \/ m.tasks_count = 0)
        /\ n = [entities |-> n.entities, fanout |-> n.fanout,
                master_fanout |-> n.master_fanout, tasks_count |-> n.tasks_count,
                tasks_done_count |-> n.tasks_done_count, finished |-> n.finished]
    BY <1>3 DEF RemoveTask, Books
  <2> HIDE DEF n
  <2>2. ManagerType(n)
    BY <2>1 DEF ManagerOK, ManagerType
  <2>3. RunningTasks(n) = RunningTasks(m)
    BY <2>1 DEF RunningTasks
  <2>4. TasksFiled(n) /\ TasksCounted(n) /\ LowestFanoutInForce(n)
    BY <2>1, <2>3 DEF ManagerOK, TasksFiled, TasksCounted, LowestFanoutInForce
  <2> QED BY <1>1, <1>3, <2>2, <2>3, <2>4 DEF ManagerOK, n
<1> QED BY <1>2, <1>3

\* The manager starts empty.
LEMMA NewManagerOK == ManagerOK(NewManager) /\ RunningTasks(NewManager) = {}
<1>1. RunningTasks(NewManager) = {}
  BY DEF RunningTasks, NewManager
<1>2. TasksCounted(NewManager)
  BY <1>1, FS_EmptySet DEF TasksCounted, NewManager
<1>3. ManagerType(NewManager) /\ TasksFiled(NewManager)
  BY DefaultFanoutAssumption DEF ManagerType, TasksFiled, NewManager
<1>4. LowestFanoutInForce(NewManager)
  BY DEF LowestFanoutInForce, NewManager
<1> QED BY <1>1, <1>2, <1>3, <1>4 DEF ManagerOK
===============================================================================
