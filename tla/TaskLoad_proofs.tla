---------------------------- MODULE TaskLoad_proofs ----------------------------
(***************************************************************************)
(* The books of the ActionManager are right whatever the tasks, their      *)
(* fanouts and the order of the calls.  The inductive invariant is         *)
(* ManagerOK: the type and the count alone are not inductive, because      *)
(* remove_task finds a task only if it was filed where it is looked for.   *)
(***************************************************************************)
EXTENDS TaskLoad, ActionManager_proofs

\* The inductive invariant.
IInv == ManagerOK(manager)

\* The books of the manager are right after each call of add_task and
\* remove_task.
LEMMA BooksInvariant ==
  ASSUME NoNegativeFanout
  PROVE  Spec => []IInv
<1>1. Init => IInv
  BY NewManagerOK DEF Init, IInv
<1>2. IInv /\ [Next]_manager => IInv'
  <2> SUFFICES ASSUME IInv, [Next]_manager
               PROVE  IInv'
    OBVIOUS
  <2> USE DEF IInv
  <2>1. CASE UNCHANGED manager
    BY <2>1
  <2>2. ASSUME NEW t \in Task, Add(t) PROVE IInv'
    BY <2>2, AddTaskOK DEF Add
  <2>3. ASSUME NEW t \in Task, Remove(t) PROVE IInv'
    BY <2>3, RemoveTaskOK DEF Remove
  <2> QED BY <2>1, <2>2, <2>3 DEF Next
<1> QED BY <1>1, <1>2, PTL DEF Spec

\* The state of the manager is well typed; its count of tasks never falls
\* below zero.
THEOREM TypeCorrect ==
  ASSUME NoNegativeFanout
  PROVE  Spec => []TypeOK
<1>1. IInv => TypeOK
  BY DEF IInv, ManagerOK, TypeOK
<1> QED BY <1>1, BooksInvariant, PTL

\* The number of running tasks that the console shows is exact.
THEOREM CountCorrect ==
  ASSUME NoNegativeFanout
  PROVE  Spec => []CountIsExact
<1>1. IInv => CountIsExact
  BY DEF IInv, ManagerOK, CountIsExact
<1> QED BY <1>1, BooksInvariant, PTL

\* The lowest fanout of the running tasks is the one in force.
THEOREM FanoutCorrect ==
  ASSUME NoNegativeFanout
  PROVE  Spec => []FanoutInForce
<1>1. IInv => FanoutInForce
  BY DEF IInv, ManagerOK, FanoutInForce
<1> QED BY <1>1, BooksInvariant, PTL

\* The fanout never falls when a task is taken out: the lowest of what is left
\* is not below the lowest of all.
THEOREM FanoutRises ==
  ASSUME NoNegativeFanout
  PROVE  Spec => FanoutRisesOnRemoval
<1>1. IInv /\ [Next]_manager => [RisesOnRemoval]_manager
  <2> SUFFICES ASSUME IInv, [Next]_manager,
                      manager'.tasks_count < manager.tasks_count
               PROVE  \/ manager'.fanout = 0
                      \/ manager'.fanout >= manager.fanout
    BY DEF RisesOnRemoval
  <2> USE DEF IInv, ManagerOK
  <2>1. CASE UNCHANGED manager
    BY <2>1 DEF ManagerType
  <2>2. ASSUME NEW t \in Task, Add(t) PROVE FALSE
    BY <2>2 DEF Add, AddTask, FileTask, ManagerType
  <2>3. ASSUME NEW t \in Task, Remove(t)
        PROVE  \/ manager'.fanout = 0 \/ manager'.fanout >= manager.fanout
    <3> DEFINE keys == DOMAIN manager.entities \ {Fanout(t)}
    <3>1. CASE ~IsRunningTask(manager, t)
      BY <2>3, <3>1 DEF Remove, RemoveTask, Books, ManagerType
    <3>2. CASE IsRunningTask(manager, t)
      <4>1. keys \subseteq Nat
        BY KeysAreFanouts
      <4>2. keys # {} => LowestFanout(keys) \in keys
        BY <4>1, LowestFanoutIsLowest
      <4>3. keys # {} => manager.fanout <= LowestFanout(keys)
        BY <4>2 DEF LowestFanoutInForce
      <4>4. \/ manager'.fanout = manager.fanout
            \/ manager'.fanout = 0
            \/ keys # {} /\ manager'.fanout = LowestFanout(keys)
        BY <2>3, <3>2 DEF Remove, RemoveTask, TakeOut, Books
      <4>5. manager.fanout \in Int
        BY DEF ManagerType
      <4>6. keys # {} => LowestFanout(keys) \in Int
        BY <4>1, <4>2
      <4> HIDE DEF keys
      <4> QED BY <4>3, <4>4, <4>5, <4>6
    <3> QED BY <3>1, <3>2
  <2> QED BY <2>1, <2>2, <2>3 DEF Next
<1> QED BY <1>1, BooksInvariant, PTL DEF Spec, FanoutRisesOnRemoval
===============================================================================
