----------------------------- MODULE Engine_proofs -----------------------------
(***************************************************************************)
(* What a call of the engine keeps true, for any services, any dependency  *)
(* graph and any configuration without a negative fanout: types, one       *)
(* command or timer in flight per action, the books of the manager, and    *)
(* how the tries of an action end.  First: what eval_deps_status returns.  *)
(***************************************************************************)
EXTENDS EngineProperties, ActionManager_proofs, SequenceTheorems

(* What the evaluation of a set of dependencies returns *)

\* Every status a dependency can evaluate to has a rank.
LEMMA DepOrderType == DEP_ORDER \in [DepResult -> 3..10]
BY DEF DEP_ORDER, DepResult, Status, NO_STATUS, WAITING_STATUS, DONE, WARNING,
       TIMEOUT, ERROR, DEP_ERROR, LOCKED, SKIPPED, MISSING

\* No two statuses have the same rank: the worst one is unique.
LEMMA DepOrderInjective ==
  \A q, r \in DepResult : DEP_ORDER[q] = DEP_ORDER[r] => q = r
BY DEF DEP_ORDER, DepResult, Status, NO_STATUS, WAITING_STATUS, DONE, WARNING,
       TIMEOUT, ERROR, DEP_ERROR, LOCKED, SKIPPED, MISSING

\* A dependency always evaluates to a status that has a rank.
LEMMA DepStatusType ==
  ASSUME NEW type, NEW st \in Status
  PROVE  DepStatus(type, st) \in DepResult
BY DEF DepStatus, DepResult, Failed, Status, NO_STATUS, WAITING_STATUS, DONE,
       WARNING, TIMEOUT, ERROR, DEP_ERROR, LOCKED, SKIPPED, MISSING

\* Of several results, Worst is one of them, and none ranks higher.
LEMMA WorstIsWorst ==
  ASSUME NEW results \in SUBSET DepResult, results # {}
  PROVE  /\ Worst(results) \in results
         /\ \A q \in results : DEP_ORDER[q] <= DEP_ORDER[Worst(results)]
<1>1. \A q \in results : DEP_ORDER[q] \in 3..10
  BY DepOrderType
<1>2. PICK r \in results : \A q \in results : DEP_ORDER[q] <= DEP_ORDER[r]
  <2> DEFINE Ranked(n) == \E q \in results : DEP_ORDER[q] = n
             Bounded(n) == \A q \in results : DEP_ORDER[q] <= n
  <2>1. Bounded(10) /\ ~Bounded(2)
    BY <1>1
  <2>2. \A n \in 3..10 : Bounded(n) => Ranked(n) \/ Bounded(n - 1)
    BY <1>1
  <2>3. \E n \in 3..10 : Bounded(n) /\ Ranked(n)
    <3> HIDE DEF Ranked, Bounded
    <3> QED BY <2>1, <2>2
  <2> QED BY <2>3
<1> QED BY <1>2 DEF Worst

\* eval_deps_status returns a status that has a rank, MISSING when there is no
\* dependency, and the rank of no dependency is above it.
LEMMA EvalDepsStatusIsWorst ==
  ASSUME NEW S, NEW deps, DOMAIN deps \subseteq S, NEW known \in [S -> Status]
  PROVE  /\ EvalDepsStatus(deps, known) \in DepResult
         /\ \A t \in DOMAIN deps :
              DEP_ORDER[DepStatus(deps[t], known[t])]
                <= DEP_ORDER[EvalDepsStatus(deps, known)]
<1> DEFINE results == {DepStatus(deps[t], known[t]) : t \in DOMAIN deps}
<1>1. results \in SUBSET DepResult
  BY DepStatusType
<1>2. MISSING \in DepResult
  BY DEF DepResult, Status, MISSING, ERROR, TIMEOUT
<1>3. CASE DOMAIN deps = {}
  BY <1>2, <1>3 DEF EvalDepsStatus
<1>4. CASE DOMAIN deps # {}
  <2>1. results # {}
    BY <1>4
  <2>2. EvalDepsStatus(deps, known) = Worst(results)
    BY <1>4 DEF EvalDepsStatus
  <2> HIDE DEF results
  <2>3. /\ Worst(results) \in DepResult
        /\ \A q \in results : DEP_ORDER[q] <= DEP_ORDER[Worst(results)]
    BY <1>1, <2>1, WorstIsWorst
  <2> QED BY <2>2, <2>3 DEF results
<1> QED BY <1>3, <1>4

\* When eval_deps_status is neither DEP_ERROR nor WAITING_STATUS, no strong
\* dependency failed and none is running: the entity may be launched.
THEOREM LaunchIsSafe ==
  ASSUME NEW S, NEW deps, DOMAIN deps \subseteq S, NEW known \in [S -> Status],
         EvalDepsStatus(deps, known) \notin {DEP_ERROR, WAITING_STATUS},
         SearchDeps(deps, known, {NO_STATUS}) = {}
  PROVE  \A t \in DOMAIN deps :
           /\ Final(known[t])
           /\ IsStrong(deps[t]) => ~Failed(known[t])
<1> SUFFICES ASSUME NEW t \in DOMAIN deps
             PROVE  /\ Final(known[t])
                    /\ IsStrong(deps[t]) => ~Failed(known[t])
  OBVIOUS
<1> DEFINE seen == DepStatus(deps[t], known[t])
           worst == EvalDepsStatus(deps, known)
<1>1. worst \in DepResult /\ seen \in DepResult /\ DEP_ORDER[seen] <= DEP_ORDER[worst]
  BY EvalDepsStatusIsWorst, DepStatusType
<1>2. \A r \in DepResult \ {DEP_ERROR, WAITING_STATUS} : DEP_ORDER[r] < 9
  BY DEF DEP_ORDER, DepResult, Status, NO_STATUS, WAITING_STATUS, DONE, WARNING,
         TIMEOUT, ERROR, DEP_ERROR, LOCKED, SKIPPED, MISSING
<1>3. DEP_ORDER[DEP_ERROR] = 10 /\ DEP_ORDER[WAITING_STATUS] = 9
  BY DEF DEP_ORDER, DepResult, Status, NO_STATUS, WAITING_STATUS, DONE, WARNING,
         TIMEOUT, ERROR, DEP_ERROR, LOCKED, SKIPPED, MISSING
<1>4. seen # DEP_ERROR /\ seen # WAITING_STATUS
  <2> HIDE DEF seen, worst
  <2>1. DEP_ORDER[worst] < 9
    BY <1>1, <1>2 DEF worst
  <2> QED BY <1>1, <1>3, <2>1, DepOrderType
<1>5. known[t] # WAITING_STATUS
  BY <1>4 DEF DepStatus, Failed, WAITING_STATUS, ERROR, TIMEOUT, DEP_ERROR
<1>6. known[t] # NO_STATUS
  BY DEF SearchDeps
<1>7. IsStrong(deps[t]) => ~Failed(known[t])
  BY <1>4 DEF DepStatus
<1> QED BY <1>5, <1>6, <1>7 DEF Final
-------------------------------------------------------------------------------
(* The inductive invariant *)

\* Frames of a method that runs for an entity that was prepared: a loop of
\* Service.prepare, and a call of it without an action.
NeedsTag(f) ==
  f.op = "prepare_deps" \/ (f.op = "prepare" /\ f.act = None)

Good(T) == {f \in Frame : NeedsTag(f) => f.svc \in T}

\* The part of the inductive invariant about services and the call stack.
SvcInv ==
  /\ status \in [Svc -> Status]
  /\ tagged \subseteq Svc
  /\ last_action \in [Svc -> {None} \cup Name]
  /\ \A s \in tagged : last_action[s] # None
  /\ failed_nodes \in [Svc -> SUBSET Node]
  /\ act_failed \in [Action -> SUBSET Node]
  /\ worker \in [Action -> SUBSET Node]
  /\ stack \in Seq(Good(tagged))
  /\ retcode \in {None, RC_OK, RC_WARNING, RC_ERROR}

\* The part about actions, and what is in flight.
ActInv ==
  /\ ConfigOK(conf)
  /\ act_status \in [Action -> Status]
  /\ target \in [Action -> {None} \cup SUBSET Node]
  /\ tries \in [Action -> Nat]
  /\ completed \in [Action -> Nat]
  /\ workers \in [Action -> Nat]
  /\ timers \in [Action -> Nat]
  /\ OneFlight
  /\ ManagerInStep

IInv == SvcInv /\ ActInv
-------------------------------------------------------------------------------
(* Actions and what is in flight *)

InFlight == {a \in Action : workers[a] + timers[a] > 0}

\* Schedule puts one more command or timer of `a' in flight, and the manager
\* knows it: from any state of the manager that knows the others.
LEMMA ScheduleOK ==
  ASSUME NoNegativeFanout, NEW a \in Action, NEW delay,
         NEW mgr, ManagerOK(mgr),
         NEW wks \in [Action -> Nat], NEW tms \in [Action -> Nat],
         wks[a] + tms[a] = 0, tries \in [Action -> Nat],
         Schedule(a, delay, mgr, wks, tms)
  PROVE  /\ workers' \in [Action -> Nat] /\ timers' \in [Action -> Nat]
         /\ tries' \in [Action -> Nat]
         /\ workers'[a] + timers'[a] = 1
         /\ \A b \in Action \ {a} : workers'[b] = wks[b] /\ timers'[b] = tms[b]
         /\ ManagerOK(manager')
         /\ RunningTasks(manager') = RunningTasks(mgr) \cup {a}
<1>1. a \in Task
  BY TaskAssumption
<1>2. /\ ManagerOK(manager')
      /\ RunningTasks(manager') = RunningTasks(mgr) \cup {a}
  BY <1>1, AddTaskOK DEF Schedule, PerformAction, PerformDelayedAction
<1>3. CASE a \in conf.delayed /\ delay
  BY <1>2, <1>3 DEF Schedule, PerformAction, PerformDelayedAction
<1>4. CASE ~(a \in conf.delayed /\ delay)
  BY <1>2, <1>4 DEF Schedule, PerformAction, PerformDelayedAction
<1> QED BY <1>3, <1>4

\* The outcome of a command is a final status.
LEMMA OutcomeFinal ==
  ASSUME NEW a, NEW r
  PROVE  Outcome(a, r) \in {TIMEOUT, ERROR, WARNING, DONE}
BY DEF Outcome

LEMMA FinalNotWaiting ==
  /\ {TIMEOUT, ERROR, WARNING, DONE, SKIPPED} \subseteq Status
  /\ WAITING_STATUS \notin {TIMEOUT, ERROR, WARNING, DONE, SKIPPED, NO_STATUS}
  /\ {WAITING_STATUS, NO_STATUS} \subseteq Status
BY DEF Status, NO_STATUS, WAITING_STATUS, DONE, WARNING, TIMEOUT, ERROR,
       DEP_ERROR, LOCKED, SKIPPED, MISSING

\* The steps that leave the actions alone: those of the services, the loops of
\* the actions, and the exit.
LEMMA ActInvUnchanged ==
  ASSUME ActInv, UNCHANGED actVars, UNCHANGED conf
  PROVE  ActInv'
BY DEF ActInv, actVars, OneFlight, ManagerInStep, Action, Plain

\* Two states of the actions with the same commands and timers in flight.
LEMMA ActInvSameFlights ==
  ASSUME ActInv, NEW a \in Action, act_status[a] # WAITING_STATUS,
         NEW st \in Status, st # WAITING_STATUS,
         act_status' = [act_status EXCEPT ![a] = st],
         target' \in [Action -> {None} \cup SUBSET Node],
         completed' \in [Action -> Nat],
         UNCHANGED <<conf, tries, manager, workers, timers>>
  PROVE  ActInv'
<1> USE DEF ActInv
<1>1. act_status' \in [Action -> Status]
  OBVIOUS
<1>2. OneFlight'
  BY DEF OneFlight, Action, Plain
<1>3. ManagerInStep'
  BY DEF ManagerInStep, Action, Plain
<1> QED BY <1>1, <1>2, <1>3 DEF Action, Plain

LEMMA RemainingType ==
  ASSUME ActInv, SvcInv, NEW a \in Action
  PROVE  [target EXCEPT ![a] = Remaining(a)] \in [Action -> {None} \cup SUBSET Node]
<1>1. target[a] \in {None} \cup SUBSET Node
  BY DEF ActInv
<1>2. Remaining(a) \in {None} \cup SUBSET Node
  BY <1>1 DEF Remaining
<1> QED BY <1>2 DEF ActInv

\* An action that is skipped, or not needed, ends without being in flight.
LEMMA EndWithoutRunOK ==
  ASSUME ActInv, SvcInv, NEW a \in Action, SkipAction(a) \/ ActionNotNeeded(a)
  PROVE  ActInv'
<1>1. /\ act_status[a] = NO_STATUS
      /\ target' = [target EXCEPT ![a] = Remaining(a)]
      /\ completed' = [completed EXCEPT ![a] = @ + 1]
      /\ UNCHANGED <<conf, tries, manager, workers, timers>>
  BY DEF SkipAction, ActionNotNeeded, PreparingAction, Preparable,
         CompleteAction, envVars
<1>2. PICK st \in {SKIPPED, DONE} : act_status' = [act_status EXCEPT ![a] = st]
  BY DEF SkipAction, ActionNotNeeded, CompleteAction
<1>3. completed' \in [Action -> Nat]
  BY <1>1 DEF ActInv
<1>4. target' \in [Action -> {None} \cup SUBSET Node]
  BY <1>1, RemainingType
<1> QED BY <1>1, <1>2, <1>3, <1>4, ActInvSameFlights, FinalNotWaiting

\* Looking at the sub-actions changes but the nodes of the action.
LEMMA PrepareSubActionsOK ==
  ASSUME ActInv, SvcInv, NEW a \in Action, PrepareSubActions(a)
  PROVE  ActInv'
<1>1. /\ target' = [target EXCEPT ![a] = Remaining(a)]
      /\ UNCHANGED <<conf, act_status, completed, tries, manager, workers, timers>>
  BY DEF PrepareSubActions, PreparingAction, envVars
<1>2. target' \in [Action -> {None} \cup SUBSET Node]
  BY <1>1, RemainingType
<1> QED BY <1>1, <1>2 DEF ActInv, OneFlight, ManagerInStep, Action, Plain

\* Three ways to put an action in flight: the first time, when a timer ends,
\* and again when it failed.  `mgr', `wks' and `tms' are what is left in flight
\* when its last command or timer is taken out.
LEMMA ScheduledOK ==
  ASSUME NoNegativeFanout, ActInv, NEW a \in Action, NEW delay,
         NEW mgr, ManagerOK(mgr),
         RunningTasks(mgr) \cup {a} = InFlight \cup {a},
         NEW wks \in [Action -> Nat], NEW tms \in [Action -> Nat],
         wks[a] + tms[a] = 0,
         \A b \in Action \ {a} : wks[b] = workers[b] /\ tms[b] = timers[b],
         Schedule(a, delay, mgr, wks, tms),
         act_status' = [act_status EXCEPT ![a] = WAITING_STATUS],
         target' \in [Action -> {None} \cup SUBSET Node],
         UNCHANGED <<conf, completed>>
  PROVE  ActInv'
<1>1. /\ workers' \in [Action -> Nat] /\ timers' \in [Action -> Nat]
      /\ tries' \in [Action -> Nat]
      /\ workers'[a] + timers'[a] = 1
      /\ \A b \in Action \ {a} : workers'[b] = workers[b] /\ timers'[b] = timers[b]
      /\ ManagerOK(manager')
      /\ RunningTasks(manager') = InFlight \cup {a}
  <2>1. tries \in [Action -> Nat]
    BY DEF ActInv
  <2>2. /\ workers' \in [Action -> Nat] /\ timers' \in [Action -> Nat]
        /\ tries' \in [Action -> Nat]
        /\ workers'[a] + timers'[a] = 1
        /\ \A b \in Action \ {a} : workers'[b] = wks[b] /\ timers'[b] = tms[b]
        /\ ManagerOK(manager')
        /\ RunningTasks(manager') = RunningTasks(mgr) \cup {a}
    BY <2>1, ScheduleOK
  <2> QED BY <2>2
<1>2. act_status' \in [Action -> Status]
  BY FinalNotWaiting DEF ActInv
<1>3. OneFlight'
  <2> SUFFICES ASSUME NEW b \in Action
               PROVE  workers'[b] + timers'[b]
                        = (IF act_status'[b] = WAITING_STATUS THEN 1 ELSE 0)
    BY DEF OneFlight, Action, Plain
  <2>1. CASE b = a
    BY <1>1, <2>1 DEF ActInv
  <2>2. CASE b # a
    BY <1>1, <2>2 DEF ActInv, OneFlight
  <2> QED BY <2>1, <2>2
<1>4. ManagerInStep'
  <2>1. InFlight \cup {a} = {b \in Action : workers'[b] + timers'[b] > 0}
    BY <1>1 DEF InFlight
  <2> QED BY <1>1, <2>1 DEF ManagerInStep, Action, Plain
<1> QED BY <1>1, <1>2, <1>3, <1>4 DEF ActInv, Action, Plain

LEMMA RunOK ==
  ASSUME NoNegativeFanout, ActInv, SvcInv, NEW a \in Action, RunAction(a)
  PROVE  ActInv'
<1>1. /\ act_status[a] = NO_STATUS
      /\ target' = [target EXCEPT ![a] = Remaining(a)]
      /\ act_status' = [act_status EXCEPT ![a] = WAITING_STATUS]
      /\ Schedule(a, TRUE, manager, workers, timers)
      /\ UNCHANGED <<conf, completed>>
  BY DEF RunAction, PreparingAction, Preparable, envVars
<1>2. workers[a] + timers[a] = 0
  BY <1>1, FinalNotWaiting DEF ActInv, OneFlight
<1>3. ManagerOK(manager) /\ RunningTasks(manager) = InFlight
  BY DEF ActInv, ManagerInStep, InFlight
<1>4. target' \in [Action -> {None} \cup SUBSET Node]
  BY <1>1, RemainingType
<1>5. workers \in [Action -> Nat] /\ timers \in [Action -> Nat]
  BY DEF ActInv
<1> QED BY <1>1, <1>2, <1>3, <1>4, <1>5, ScheduledOK

\* An action in flight is WAITING, by one command or one timer.
LEMMA FlightIsWaiting ==
  ASSUME ActInv, NEW a \in Action, workers[a] + timers[a] > 0
  PROVE  act_status[a] = WAITING_STATUS /\ workers[a] + timers[a] = 1
BY DEF ActInv, OneFlight

LEMMA FireOK ==
  ASSUME NoNegativeFanout, ActInv, NEW a \in Action, Fire(a)
  PROVE  ActInv'
<1> DEFINE tms == [timers EXCEPT ![a] = @ - 1]
<1>1. /\ timers[a] > 0
      /\ Schedule(a, FALSE, manager, workers, tms)
      /\ UNCHANGED <<conf, act_status, target, completed>>
  BY DEF Fire, envVars
<1>2. /\ workers \in [Action -> Nat] /\ timers \in [Action -> Nat]
      /\ act_status \in [Action -> Status]
  BY DEF ActInv
<1>3. act_status[a] = WAITING_STATUS /\ timers[a] = 1 /\ workers[a] = 0
  BY <1>1, <1>2, FlightIsWaiting
<1>4. /\ tms \in [Action -> Nat] /\ workers[a] + tms[a] = 0
      /\ \A b \in Action \ {a} : tms[b] = timers[b]
  BY <1>2, <1>3
<1>5. ManagerOK(manager) /\ RunningTasks(manager) = InFlight
  BY DEF ActInv, ManagerInStep, InFlight
<1>6. act_status' = [act_status EXCEPT ![a] = WAITING_STATUS]
  BY <1>1, <1>2, <1>3
<1>7. target' \in [Action -> {None} \cup SUBSET Node]
  BY <1>1 DEF ActInv
<1> HIDE DEF tms
<1> QED BY <1>1, <1>2, <1>4, <1>5, <1>6, <1>7, ScheduledOK

\* The books when the command of `a' is taken out.
LEMMA RemovedOK ==
  ASSUME NoNegativeFanout, ActInv, NEW a \in Action, workers[a] > 0
  PROVE  LET wks == [workers EXCEPT ![a] = @ - 1]
         IN  /\ act_status[a] = WAITING_STATUS
             /\ wks \in [Action -> Nat] /\ wks[a] + timers[a] = 0
             /\ \A b \in Action \ {a} : wks[b] = workers[b]
             /\ ManagerOK(RemoveTask(manager, a))
             /\ RunningTasks(RemoveTask(manager, a)) = InFlight \ {a}
<1>1. workers \in [Action -> Nat] /\ timers \in [Action -> Nat]
  BY DEF ActInv
<1>2. act_status[a] = WAITING_STATUS /\ workers[a] = 1 /\ timers[a] = 0
  BY <1>1, FlightIsWaiting
<1>3. ManagerOK(manager) /\ RunningTasks(manager) = InFlight /\ a \in Task
  BY TaskAssumption DEF ActInv, ManagerInStep, InFlight
<1>4. /\ ManagerOK(RemoveTask(manager, a))
      /\ RunningTasks(RemoveTask(manager, a)) = InFlight \ {a}
  BY <1>3, RemoveTaskOK
<1> QED BY <1>1, <1>2, <1>4

LEMMA RetryOK ==
  ASSUME NoNegativeFanout, ActInv, NEW a \in Action, NEW r, Retry(a, r)
  PROVE  ActInv'
<1> DEFINE wks == [workers EXCEPT ![a] = @ - 1]
           mgr == RemoveTask(manager, a)
<1>1. /\ workers[a] > 0
      /\ Schedule(a, TRUE, mgr, wks, timers)
      /\ UNCHANGED <<conf, act_status, target, completed>>
  BY DEF Retry, Closing
<1>2. /\ act_status[a] = WAITING_STATUS
      /\ wks \in [Action -> Nat] /\ wks[a] + timers[a] = 0
      /\ \A b \in Action \ {a} : wks[b] = workers[b]
      /\ ManagerOK(mgr) /\ RunningTasks(mgr) = InFlight \ {a}
  BY <1>1, RemovedOK
<1>3. /\ timers \in [Action -> Nat] /\ act_status \in [Action -> Status]
      /\ target' \in [Action -> {None} \cup SUBSET Node]
  BY <1>1 DEF ActInv
<1>4. act_status' = [act_status EXCEPT ![a] = WAITING_STATUS]
  BY <1>1, <1>2, <1>3
<1>5. RunningTasks(mgr) \cup {a} = InFlight \cup {a}
  BY <1>2
<1> HIDE DEF wks, mgr
<1> QED BY <1>1, <1>2, <1>3, <1>4, <1>5, ScheduledOK

LEMMA CloseOK ==
  ASSUME NoNegativeFanout, ActInv, NEW a \in Action, NEW r, Close(a, r)
  PROVE  ActInv'
<1> DEFINE wks == [workers EXCEPT ![a] = @ - 1]
           st == Outcome(a, r)
<1>1. /\ workers[a] > 0 /\ workers' = wks
      /\ manager' = RemoveTask(manager, a)
      /\ act_status' = [act_status EXCEPT ![a] = st]
      /\ completed' = [completed EXCEPT ![a] = @ + 1]
      /\ UNCHANGED <<conf, target, tries, timers>>
  BY DEF Close, Closing, CompleteAction
<1>2. /\ wks \in [Action -> Nat] /\ wks[a] + timers[a] = 0
      /\ \A b \in Action \ {a} : wks[b] = workers[b]
      /\ ManagerOK(manager') /\ RunningTasks(manager') = InFlight \ {a}
  BY <1>1, RemovedOK
<1>3. st \in Status /\ st # WAITING_STATUS
  BY OutcomeFinal, FinalNotWaiting
<1> HIDE DEF wks, st
<1>4. /\ act_status' \in [Action -> Status] /\ completed' \in [Action -> Nat]
      /\ workers' \in [Action -> Nat]
  <2>1. act_status \in [Action -> Status] /\ completed \in [Action -> Nat]
    BY DEF ActInv
  <2>2. act_status' \in [Action -> Status]
    BY <1>1, <1>3, <2>1
  <2>3. completed' \in [Action -> Nat]
    BY <1>1, <2>1
  <2> QED BY <1>1, <1>2, <2>2, <2>3
<1>5. OneFlight'
  <2> SUFFICES ASSUME NEW b \in Action
               PROVE  workers'[b] + timers'[b]
                        = (IF act_status'[b] = WAITING_STATUS THEN 1 ELSE 0)
    BY DEF OneFlight, Action, Plain
  <2>1. CASE b = a
    BY <1>1, <1>2, <1>3, <2>1 DEF ActInv
  <2>2. CASE b # a
    BY <1>1, <1>2, <2>2 DEF ActInv, OneFlight
  <2> QED BY <2>1, <2>2
<1>6. ManagerInStep'
  <2>1. InFlight \ {a} = {b \in Action : workers'[b] + timers'[b] > 0}
    BY <1>1, <1>2 DEF InFlight, ActInv
  <2> QED BY <1>2, <2>1 DEF ManagerInStep, Action, Plain
<1>7. /\ ConfigOK(conf)' /\ tries' \in [Action -> Nat] /\ timers' \in [Action -> Nat]
      /\ target' \in [Action -> {None} \cup SUBSET Node]
  BY <1>1 DEF ActInv
<1> QED BY <1>4, <1>5, <1>6, <1>7 DEF ActInv, Action, Plain
-------------------------------------------------------------------------------
(* Services and the call stack *)

Ops == {"prepare", "prepare_deps", "trigger",
        "action_prepare", "action_deps", "action_trigger"}

LEMMA CallIsGood ==
  ASSUME NEW T, NEW op \in Ops, NEW s \in Svc, NEW n \in {None} \cup Name,
         NEW todo, todo \in SUBSET Svc \/ todo \in SUBSET Action,
         op = "prepare_deps" \/ (op = "prepare" /\ n = None) => s \in T
  PROVE  Call(op, s, n, todo) \in Good(T)
<1>1. todo \in (SUBSET Svc) \cup (SUBSET Action)
  OBVIOUS
<1>2. Call(op, s, n, todo) \in Frame
  BY <1>1 DEF Call, Frame, Ops
<1> QED BY <1>2 DEF Call, Good, NeedsTag

LEMMA PushIsGood ==
  ASSUME NEW F, NEW f \in F, NEW c \in Seq(F)
  PROVE  <<f>> \o c \in Seq(F)
<1>1. <<f>> \in Seq(F)
  OBVIOUS
<1> QED BY <1>1, ConcatProperties

\* What is below the running frame stays good when entities are prepared.
LEMMA CallerIsGood ==
  ASSUME SvcInv, stack # <<>>, NEW T, tagged \subseteq T
  PROVE  Top \in Good(tagged) /\ Caller \in Seq(Good(T)) /\ Top \in Frame
<1>1. Top \in Good(tagged) /\ Caller \in Seq(Good(tagged))
  BY HeadTailProperties DEF SvcInv, Top, Caller
<1>2. Good(tagged) \subseteq Good(T)
  BY DEF Good
<1>3. Caller \in Seq(Good(T))
  BY <1>1, <1>2
<1> QED BY <1>1, <1>3 DEF Good

LEMMA VisitIsGood ==
  ASSUME SvcInv, stack # <<>>, NEW x, NEW frames \in Seq(Good(tagged)),
         Visit(x, frames)
  PROVE  stack' \in Seq(Good(tagged))
<1> DEFINE left == Call(Top.op, Top.svc, Top.act, Top.todo \ {x})
<1>1. Top \in Good(tagged) /\ Top \in Frame /\ Caller \in Seq(Good(tagged))
  BY CallerIsGood
<1>2. /\ Top.op \in Ops /\ Top.svc \in Svc /\ Top.act \in {None} \cup Name
      /\ Top.todo \in SUBSET Svc \/ Top.todo \in SUBSET Action
      /\ NeedsTag(Top) => Top.svc \in tagged
  BY <1>1 DEF Frame, Good, Ops
<1>3. left \in Good(tagged)
  <2> DEFINE rest == Top.todo \ {x}
  <2>1. rest \in SUBSET Svc \/ rest \in SUBSET Action
    BY <1>2
  <2>2. Top.op = "prepare_deps" \/ (Top.op = "prepare" /\ Top.act = None)
          => Top.svc \in tagged
    BY <1>2 DEF NeedsTag
  <2> HIDE DEF rest
  <2>3. Call(Top.op, Top.svc, Top.act, rest) \in Good(tagged)
    BY <1>2, <2>1, <2>2, CallIsGood
  <2> QED BY <2>3 DEF rest
<1> HIDE DEF left
<1>4. <<left>> \o Caller \in Seq(Good(tagged))
  BY <1>1, <1>3, PushIsGood
<1>5. stack' = frames \o <<left>> \o Caller
  BY DEF Visit, left
<1>6. /\ frames \in Seq(Good(tagged)) /\ <<left>> \in Seq(Good(tagged))
      /\ Caller \in Seq(Good(tagged))
  BY <1>1, <1>3
<1>7. frames \o <<left>> \in Seq(Good(tagged))
  BY <1>6, ConcatProperties
<1>8. (frames \o <<left>>) \o Caller \in Seq(Good(tagged))
  BY <1>6, <1>7, ConcatProperties
<1> QED BY <1>5, <1>8

\* The dictionaries of the configuration.
LEMMA DepsType ==
  ASSUME ActInv, NEW s \in Svc
  PROVE  /\ DOMAIN Deps(s) \subseteq Svc /\ DOMAIN Dependents(s) \subseteq Svc
         /\ Deps(s) = conf.children[s] \/ Deps(s) = conf.parents[s]
BY DEF ActInv, ConfigOK, IsDict, Deps, Dependents

LEMMA DependentActionsType ==
  ASSUME ActInv, NEW a \in Action
  PROVE  ActDependents(a) \in SUBSET Action /\ DOMAIN ActDeps(a) \in SUBSET Action
<1>1. a[1] \in Plain /\ a[1] \in Svc /\ a[2] \in Name
  BY DEF Action, Plain
<1>2. conf.actions[a[1]] \subseteq Name /\ conf.check[a] \subseteq Name
  BY <1>1 DEF ActInv, ConfigOK
<1>3. ActDependents(a) \in SUBSET Action
  BY <1>1, <1>2 DEF ActDependents, Action
<1>4. DOMAIN ActDeps(a) = {<<a[1], n>> : n \in conf.check[a]}
  BY DEF ActDeps
<1>5. DOMAIN ActDeps(a) \in SUBSET Action
  BY <1>1, <1>2, <1>4 DEF Action
<1> QED BY <1>3, <1>5

LEMMA FilteredType ==
  ASSUME NEW failed \in [Svc -> SUBSET Node], NEW s, NEW nodes \in SUBSET Node
  PROVE  Filtered(failed, s, nodes) \in [Svc -> SUBSET Node]
BY DEF Filtered

\* update_status writes a status, and at most pushes the loop over dependents.
LEMMA UpdateStatusOK ==
  ASSUME ActInv, SvcInv, NEW s \in Svc, NEW st \in Status, NEW T,
         NEW caller \in Seq(Good(T)), UpdateStatus(s, st, caller)
  PROVE  status' \in [Svc -> Status] /\ stack' \in Seq(Good(T))
<1>1. status' \in [Svc -> Status]
  BY DEF UpdateStatus, SvcInv
<1>2. Call("trigger", s, None, DOMAIN Dependents(s)) \in Good(T)
  <2>1. DOMAIN Dependents(s) \in SUBSET Svc
    BY DepsType
  <2>2. "trigger" \in Ops /\ None \in {None} \cup Name
    BY DEF Ops
  <2> QED BY <2>1, <2>2, CallIsGood
<1>3. <<Call("trigger", s, None, DOMAIN Dependents(s))>> \o caller \in Seq(Good(T))
  BY <1>2, PushIsGood
<1> QED BY <1>1, <1>3 DEF UpdateStatus

\* The end of an action: its service takes the status over, or the actions it
\* is a check of are tried.
LEMMA CompleteActionOK ==
  ASSUME ActInv, SvcInv, NEW a \in Action, NEW st \in Status,
         NEW failed \in SUBSET Node, NEW T, NEW caller \in Seq(Good(T)),
         CompleteAction(a, st, failed, caller)
  PROVE  /\ status' \in [Svc -> Status]
         /\ failed_nodes' \in [Svc -> SUBSET Node]
         /\ stack' \in Seq(Good(T))
<1>1. a[1] \in Svc /\ a[2] \in Name
  BY DEF Action, Plain
<1>2. CASE ActDependents(a) # {}
  <2> DEFINE loop == Call("action_trigger", a[1], a[2], ActDependents(a))
  <2>1. stack' = <<loop>> \o caller /\ UNCHANGED <<status, failed_nodes>>
    BY <1>2 DEF CompleteAction
  <2>2. loop \in Good(T)
    <3>1. ActDependents(a) \in SUBSET Action
      BY DependentActionsType
    <3>2. "action_trigger" \in Ops /\ a[2] \in {None} \cup Name
      BY <1>1 DEF Ops
    <3> QED BY <1>1, <3>1, <3>2, CallIsGood
  <2> HIDE DEF loop
  <2>3. stack' \in Seq(Good(T))
    BY <2>1, <2>2, PushIsGood
  <2> QED BY <2>1, <2>3 DEF SvcInv
<1>3. CASE ActDependents(a) = {}
  <2>1. /\ failed_nodes' = Filtered(failed_nodes, a[1], failed)
        /\ UpdateStatus(a[1], st, caller)
    BY <1>3 DEF CompleteAction
  <2>2. failed_nodes \in [Svc -> SUBSET Node]
    BY DEF SvcInv
  <2>3. failed_nodes' \in [Svc -> SUBSET Node]
    BY <2>1, <2>2, FilteredType
  <2> QED BY <1>1, <2>1, <2>3, UpdateStatusOK
<1> QED BY <1>2, <1>3

\* What the branches of Service.prepare have in common: the service is tagged,
\* with an action to run.
LEMMA PreparingOK ==
  ASSUME SvcInv, NEW s \in Svc, Preparing(s)
  PROVE  /\ stack # <<>> /\ s \in tagged' /\ tagged \subseteq tagged'
         /\ tagged' \subseteq Svc
         /\ Requested(s) \in Name
         /\ last_action' \in [Svc -> {None} \cup Name]
         /\ \A t \in tagged' : last_action'[t] # None
         /\ failed_nodes' \in [Svc -> SUBSET Node]
         /\ act_failed' \in [Action -> SUBSET Node]
         /\ worker' \in [Action -> SUBSET Node]
         /\ retcode' \in {None, RC_OK, RC_WARNING, RC_ERROR}
         /\ Caller \in Seq(Good(tagged'))
<1>1. /\ stack # <<>> /\ Top.op = "prepare" /\ Top.svc = s
      /\ tagged' = tagged \cup {s}
      /\ last_action' = [last_action EXCEPT ![s] = Requested(s)]
      /\ UNCHANGED <<failed_nodes, act_failed, worker, retcode>>
  BY DEF Preparing, Running, envVars
<1>2. Top \in Good(tagged) /\ Top \in Frame /\ Caller \in Seq(Good(tagged'))
  BY <1>1, CallerIsGood
<1>3. Requested(s) \in Name
  <2>1. CASE Top.act = None
    <3>1. s \in tagged
      BY <1>1, <1>2, <2>1 DEF Good, NeedsTag
    <3> QED BY <2>1, <3>1 DEF Requested, SvcInv
  <2>2. CASE Top.act # None
    BY <1>2, <2>2 DEF Requested, Frame
  <2> QED BY <2>1, <2>2
<1>4. /\ last_action' \in [Svc -> {None} \cup Name]
      /\ \A t \in tagged' : last_action'[t] # None
  BY <1>1, <1>3, NameAssumption DEF SvcInv
<1>5. tagged' \subseteq Svc
  BY <1>1 DEF SvcInv
<1> QED BY <1>1, <1>2, <1>3, <1>4, <1>5 DEF SvcInv

\* The status of a set of dependencies is a status.
LEMMA EvalDepsStatusType ==
  ASSUME ActInv, SvcInv, NEW s \in Svc
  PROVE  EvalDepsStatus(Deps(s), status) \in Status
<1>1. DOMAIN Deps(s) \subseteq Svc /\ status \in [Svc -> Status]
  BY DepsType DEF SvcInv
<1>2. EvalDepsStatus(Deps(s), status) \in DepResult
  BY <1>1, EvalDepsStatusIsWorst
<1> QED BY <1>2 DEF DepResult

LEMMA GateType ==
  ASSUME NEW g \in Group
  PROVE  Gate(g) \in Svc
BY StructureAssumption DEF Gate

\* The statuses the launch of a service may write.
LEMMA LaunchStatuses ==
  {MISSING, SKIPPED, DEP_ERROR, WAITING_STATUS} \subseteq Status
BY DEF Status, NO_STATUS, WAITING_STATUS, DONE, WARNING, TIMEOUT, ERROR,
       DEP_ERROR, LOCKED, SKIPPED, MISSING

\* A branch of Service.prepare writes a status and pushes good frames, or calls
\* update_status.
LEMMA PreparedOK ==
  ASSUME SvcInv, NEW s \in Svc, Preparing(s),
         status' \in [Svc -> Status], stack' \in Seq(Good(tagged'))
  PROVE  SvcInv'
BY PreparingOK DEF SvcInv, Action, Plain

LEMMA ServicePrepareOK ==
  ASSUME SvcInv, ActInv, NEW s \in Svc,
         \/ PrepareAgain(s) \/ PrepareDeps(s) \/ PrepareWaits(s)
         \/ LaunchMissing(s) \/ LaunchSkipped(s) \/ LaunchDepError(s)
         \/ LaunchAction(s) \/ LaunchGate(s) \/ LaunchInternal(s)
  PROVE  SvcInv'
<1>1. Preparing(s)
  BY DEF PrepareAgain, PrepareDeps, PrepareWaits, LaunchMissing, LaunchSkipped,
         LaunchDepError, LaunchAction, LaunchGate, LaunchInternal, Launching
<1>2. /\ Caller \in Seq(Good(tagged')) /\ s \in tagged' /\ Requested(s) \in Name
  BY <1>1, PreparingOK
<1>3. status \in [Svc -> Status]
  BY DEF SvcInv
<1>4. CASE PrepareAgain(s) \/ PrepareWaits(s)
  BY <1>1, <1>2, <1>3, <1>4, PreparedOK DEF PrepareAgain, PrepareWaits, Return
<1>5. CASE PrepareDeps(s)
  <2> DEFINE loop == Call("prepare_deps", s, None, Unprocessed(s))
  <2>1. stack' = <<loop>> \o Caller /\ status' = status
    BY <1>5 DEF PrepareDeps
  <2>2. Unprocessed(s) \in SUBSET Svc
    BY DepsType DEF Unprocessed, SearchDeps
  <2>3. "prepare_deps" \in Ops
    BY DEF Ops
  <2>4. loop \in Good(tagged')
    BY <1>2, <2>2, <2>3, CallIsGood
  <2> HIDE DEF loop
  <2>5. stack' \in Seq(Good(tagged'))
    BY <1>2, <2>1, <2>4, PushIsGood
  <2> QED BY <1>1, <1>3, <2>1, <2>5, PreparedOK
<1>6. ASSUME NEW st \in Status, UpdateStatus(s, st, Caller)
      PROVE  SvcInv'
  BY <1>1, <1>2, <1>6, UpdateStatusOK, PreparedOK
<1>7. CASE LaunchMissing(s)
  BY <1>6, <1>7, LaunchStatuses DEF LaunchMissing
<1>8. CASE LaunchDepError(s)
  BY <1>6, <1>8, LaunchStatuses DEF LaunchDepError
<1>9. Call("action_prepare", s, Requested(s), {}) \in Good(tagged')
  <2>1. "action_prepare" \in Ops
    BY DEF Ops
  <2> QED BY <1>2, <2>1, CallIsGood
<1>10. <<Call("action_prepare", s, Requested(s), {})>> \o Caller \in Seq(Good(tagged'))
  BY <1>2, <1>9, PushIsGood
<1>11. CASE LaunchSkipped(s)
  <2>1. CASE s \in Group
    BY <1>6, <1>11, <2>1, LaunchStatuses DEF LaunchSkipped
  <2>2. CASE s \notin Group
    BY <1>1, <1>3, <1>10, <1>11, <2>2, PreparedOK DEF LaunchSkipped
  <2> QED BY <2>1, <2>2
<1>12. CASE LaunchAction(s)
  <2> DEFINE called == <<Call("action_prepare", s, Requested(s), {})>> \o Caller
  <2>1. UpdateStatus(s, WAITING_STATUS, called) /\ called \in Seq(Good(tagged'))
    BY <1>10, <1>12 DEF LaunchAction
  <2> HIDE DEF called
  <2>2. status' \in [Svc -> Status] /\ stack' \in Seq(Good(tagged'))
    BY <2>1, LaunchStatuses, UpdateStatusOK
  <2> QED BY <1>1, <2>2, PreparedOK
<1>13. CASE LaunchGate(s)
  <2> DEFINE call == Call("prepare", Gate(s), Requested(s), {})
  <2>1. stack' = <<call>> \o Caller /\ status' = status /\ s \in Group
    BY <1>13 DEF LaunchGate
  <2>2. "prepare" \in Ops /\ Requested(s) # None /\ Gate(s) \in Svc
    BY <1>2, <2>1, GateType, NameAssumption DEF Ops
  <2>3. call \in Good(tagged')
    BY <1>2, <2>2, CallIsGood
  <2> HIDE DEF call
  <2>4. stack' \in Seq(Good(tagged'))
    BY <1>2, <2>1, <2>3, PushIsGood
  <2> QED BY <1>1, <1>3, <2>1, <2>4, PreparedOK
<1>14. CASE LaunchInternal(s)
  <2>1. /\ s \in Group
        /\ UpdateStatus(s, EvalDepsStatus(Deps(Gate(s)), status), Caller)
    BY <1>14 DEF LaunchInternal
  <2>2. EvalDepsStatus(Deps(Gate(s)), status) \in Status
    BY <2>1, GateType, EvalDepsStatusType
  <2> QED BY <1>6, <2>1, <2>2
<1> QED BY <1>4, <1>5, <1>7, <1>8, <1>11, <1>12, <1>13, <1>14

\* A step of another kind prepares no service, and ends with good frames.
LEMMA UntaggedOK ==
  ASSUME SvcInv, UNCHANGED <<svcVars, retcode>>,
         status' \in [Svc -> Status],
         failed_nodes' \in [Svc -> SUBSET Node],
         act_failed' \in [Action -> SUBSET Node],
         worker' \in [Action -> SUBSET Node],
         stack' \in Seq(Good(tagged))
  PROVE  SvcInv'
BY DEF SvcInv, svcVars, Action, Plain

\* The parts of SvcInv that many steps leave alone.
LEMMA SvcParts ==
  ASSUME SvcInv
  PROVE  /\ status \in [Svc -> Status]
         /\ tagged \subseteq Svc
         /\ last_action \in [Svc -> {None} \cup Name]
         /\ failed_nodes \in [Svc -> SUBSET Node]
         /\ act_failed \in [Action -> SUBSET Node]
         /\ worker \in [Action -> SUBSET Node]
         /\ stack \in Seq(Good(tagged))
BY DEF SvcInv

LEMMA PrepareDepOK ==
  ASSUME SvcInv, NEW s \in Svc, NEW t \in Svc, PrepareDep(s, t)
  PROVE  SvcInv'
<1> DEFINE n == IF IsCheck(Deps(s)[t]) THEN STATUS ELSE last_action[s]
           call == Call("prepare", t, n, {})
<1>1. /\ stack # <<>> /\ Top.op = "prepare_deps" /\ Top.svc = s
      /\ Visit(t, <<call>>)
      /\ UNCHANGED <<svcVars, retcode, status, failed_nodes, act_failed, worker>>
  BY DEF PrepareDep, Running, envVars
<1>2. s \in tagged
  BY <1>1, CallerIsGood DEF Good, NeedsTag
<1>3. n \in Name
  BY <1>2, NameAssumption DEF SvcInv
<1>4. "prepare" \in Ops /\ n # None
  BY <1>3, NameAssumption DEF Ops
<1> HIDE DEF n
<1>5. call \in Good(tagged)
  BY <1>3, <1>4, CallIsGood
<1> HIDE DEF call
<1>6. <<call>> \in Seq(Good(tagged))
  BY <1>5
<1>7. stack' \in Seq(Good(tagged))
  BY <1>1, <1>6, VisitIsGood
<1> QED BY <1>1, <1>7, SvcParts, UntaggedOK

LEMMA TriggerOK ==
  ASSUME SvcInv, NEW s \in Svc, NEW t \in Svc, Trigger(s, t)
  PROVE  SvcInv'
<1> DEFINE call == Call("prepare", t, None, {})
           frames == IF /\ status[t] = NO_STATUS
                        /\ IsReady(Deps(t), status)
                        /\ t \in tagged
                     THEN <<call>> ELSE <<>>
<1>1. /\ stack # <<>> /\ Visit(t, frames)
      /\ failed_nodes' = failed_nodes
           \/ failed_nodes' = Filtered(failed_nodes, t, failed_nodes[s])
      /\ UNCHANGED <<svcVars, retcode, status, act_failed, worker>>
  BY DEF Trigger, Running, envVars
<1>2. ASSUME t \in tagged PROVE call \in Good(tagged)
  <2>1. "prepare" \in Ops /\ None \in {None} \cup Name
    BY DEF Ops
  <2> QED BY <1>2, <2>1, CallIsGood
<1> HIDE DEF call
<1>3. frames \in Seq(Good(tagged))
  BY <1>2
<1> HIDE DEF frames
<1>4. stack' \in Seq(Good(tagged))
  BY <1>1, <1>3, VisitIsGood
<1>5. failed_nodes' \in [Svc -> SUBSET Node]
  <2>1. failed_nodes \in [Svc -> SUBSET Node] /\ failed_nodes[s] \in SUBSET Node
    BY SvcParts
  <2>2. Filtered(failed_nodes, t, failed_nodes[s]) \in [Svc -> SUBSET Node]
    BY <2>1, FilteredType
  <2> QED BY <1>1, <2>1, <2>2
<1> QED BY <1>1, <1>4, <1>5, SvcParts, UntaggedOK

\* A method that returns leaves good frames behind.
LEMMA ReturnOK ==
  ASSUME SvcInv, stack # <<>>, Return
  PROVE  stack' \in Seq(Good(tagged))
BY CallerIsGood DEF Return

\* Action.prepare and the loops of the actions.
LEMMA ActionPrepareOK ==
  ASSUME SvcInv, ActInv, NEW a \in Action,
         \/ ActionPrepareAgain(a) \/ RunAction(a)
         \/ SkipAction(a) \/ ActionNotNeeded(a)
  PROVE  SvcInv'
<1>1. /\ stack # <<>>
      /\ UNCHANGED <<svcVars, retcode, act_failed, worker>>
  BY DEF ActionPrepareAgain, RunAction, SkipAction, ActionNotNeeded,
         PreparingAction, Running, envVars
<1>2. CASE ActionPrepareAgain(a) \/ RunAction(a)
  <2>1. Return /\ UNCHANGED <<status, failed_nodes>>
    BY <1>2 DEF ActionPrepareAgain, RunAction
  <2>2. stack' \in Seq(Good(tagged))
    BY <1>1, <2>1, ReturnOK
  <2> QED BY <1>1, <2>1, <2>2, SvcParts, UntaggedOK
<1>3. CASE SkipAction(a) \/ ActionNotNeeded(a)
  <2>1. PICK st \in {SKIPPED, DONE} : CompleteAction(a, st, act_failed[a], Caller)
    BY <1>3 DEF SkipAction, ActionNotNeeded
  <2>2. act_failed[a] \in SUBSET Node /\ Caller \in Seq(Good(tagged)) /\ st \in Status
    BY <1>1, SvcParts, CallerIsGood, FinalNotWaiting
  <2>3. /\ status' \in [Svc -> Status] /\ failed_nodes' \in [Svc -> SUBSET Node]
        /\ stack' \in Seq(Good(tagged))
    BY <2>1, <2>2, CompleteActionOK
  <2> QED BY <1>1, <2>3, SvcParts, UntaggedOK
<1> QED BY <1>2, <1>3

LEMMA SubActionsOK ==
  ASSUME SvcInv, ActInv, NEW a \in Action,
         PrepareSubActions(a) \/ PrepareSubAction(a)
  PROVE  SvcInv'
<1>1. /\ stack # <<>>
      /\ UNCHANGED <<svcVars, retcode, status, failed_nodes, act_failed, worker>>
  BY DEF PrepareSubActions, PrepareSubAction, PreparingAction, Running, envVars
<1>2. a[1] \in Svc /\ a[2] \in {None} \cup Name
  BY DEF Action, Plain
<1>3. "action_deps" \in Ops /\ "action_prepare" \in Ops
  BY DEF Ops
<1>4. CASE PrepareSubActions(a)
  <2> DEFINE todo == SearchDeps(ActDeps(a), act_status, {NO_STATUS})
             loop == Call("action_deps", a[1], a[2], todo)
  <2>1. stack' = <<loop>> \o Caller
    BY <1>4 DEF PrepareSubActions
  <2>2. todo \in SUBSET Action
    BY DependentActionsType DEF SearchDeps
  <2> HIDE DEF todo
  <2>3. loop \in Good(tagged)
    BY <1>2, <1>3, <2>2, CallIsGood
  <2> HIDE DEF loop
  <2>4. stack' \in Seq(Good(tagged))
    BY <1>1, <2>1, <2>3, CallerIsGood, PushIsGood
  <2> QED BY <1>1, <2>4, SvcParts, UntaggedOK
<1>5. CASE PrepareSubAction(a)
  <2> DEFINE call == Call("action_prepare", a[1], a[2], {})
  <2>1. Visit(a, <<call>>)
    BY <1>5 DEF PrepareSubAction
  <2>2. call \in Good(tagged)
    BY <1>2, <1>3, CallIsGood
  <2> HIDE DEF call
  <2>3. <<call>> \in Seq(Good(tagged))
    BY <2>2
  <2>4. stack' \in Seq(Good(tagged))
    BY <1>1, <2>1, <2>3, VisitIsGood
  <2> QED BY <1>1, <2>4, SvcParts, UntaggedOK
<1> QED BY <1>4, <1>5

LEMMA ActionTriggerOK ==
  ASSUME SvcInv, NEW a \in Action, NEW b \in Action, ActionTrigger(a, b)
  PROVE  SvcInv'
<1> DEFINE call == Call("action_prepare", b[1], b[2], {})
           frames == IF IsReady(ActDeps(b), act_status) THEN <<call>> ELSE <<>>
<1>1. /\ stack # <<>> /\ Visit(b, frames)
      /\ act_failed' = [act_failed EXCEPT ![b] = @ \cup act_failed[a]]
      /\ UNCHANGED <<svcVars, retcode, status, failed_nodes, worker>>
  BY DEF ActionTrigger, Running, envVars
<1>2. call \in Good(tagged)
  <2>1. b[1] \in Svc /\ b[2] \in {None} \cup Name /\ "action_prepare" \in Ops
    BY DEF Action, Plain, Ops
  <2> QED BY <2>1, CallIsGood
<1> HIDE DEF call
<1>3. frames \in Seq(Good(tagged))
  BY <1>2
<1> HIDE DEF frames
<1>4. stack' \in Seq(Good(tagged))
  BY <1>1, <1>3, VisitIsGood
<1>5. act_failed' \in [Action -> SUBSET Node]
  BY <1>1, SvcParts
<1> QED BY <1>1, <1>4, <1>5, SvcParts, UntaggedOK

\* A command that closes: its nodes are among those the run knows.
LEMMA ResultsType ==
  ASSUME ActInv, NEW a \in Action, NEW r \in Results(a)
  PROVE  r.errors \cup r.timeouts \in SUBSET Node
<1>1. target[a] \in {None} \cup SUBSET Node
  BY DEF ActInv
<1> QED BY <1>1, NodeAssumption DEF Results

LEMMA EventOK ==
  ASSUME SvcInv, ActInv, NEW a \in Action, EventStep(a)
  PROVE  SvcInv'
<1>1. CASE Fire(a)
  <2>1. UNCHANGED <<svcVars, retcode, status, failed_nodes, act_failed, worker, stack>>
    BY <1>1 DEF Fire, envVars
  <2> QED BY <2>1, SvcParts, UntaggedOK
<1>2. ASSUME NEW r \in Results(a), Retry(a, r) \/ Close(a, r)
      PROVE  SvcInv'
  <2>1. /\ worker' = [worker EXCEPT ![a] = r.errors \cup r.timeouts]
        /\ UNCHANGED <<svcVars, retcode>>
    BY <1>2 DEF Retry, Close, Closing
  <2>2. r.errors \cup r.timeouts \in SUBSET Node
    BY ResultsType
  <2>3. worker' \in [Action -> SUBSET Node]
    BY <2>1, <2>2, SvcParts
  <2>4. CASE Retry(a, r)
    <3>1. UNCHANGED <<status, failed_nodes, act_failed, stack>>
      BY <2>4 DEF Retry
    <3> QED BY <2>1, <2>3, <3>1, SvcParts, UntaggedOK
  <2>5. CASE Close(a, r)
    <3>1. /\ act_failed' = [act_failed EXCEPT ![a] = Spoiled(a, r)]
          /\ CompleteAction(a, Outcome(a, r), Spoiled(a, r), <<>>)
      BY <2>5 DEF Close
    <3>2. Spoiled(a, r) \in SUBSET Node /\ Outcome(a, r) \in Status
      BY <2>2, SvcParts, OutcomeFinal, FinalNotWaiting DEF Spoiled
    <3>3. <<>> \in Seq(Good(tagged))
      OBVIOUS
    <3>4. /\ status' \in [Svc -> Status] /\ failed_nodes' \in [Svc -> SUBSET Node]
          /\ stack' \in Seq(Good(tagged))
      BY <3>1, <3>2, <3>3, CompleteActionOK
    <3>5. act_failed' \in [Action -> SUBSET Node]
      BY <3>1, <3>2, SvcParts
    <3> QED BY <2>1, <2>3, <3>4, <3>5, UntaggedOK
  <2> QED BY <1>2, <2>4, <2>5
<1> QED BY <1>1, <1>2 DEF EventStep
-------------------------------------------------------------------------------
(* The invariant, and what follows from it *)

LEMMA InitOK == Init => IInv
<1> SUFFICES ASSUME Init PROVE IInv
  OBVIOUS
<1>1. ConfigOK(conf)
  BY ConfigAssumption DEF Init
<1>2. SvcInv
  <2> DEFINE call == Call("prepare", MAIN, conf.request, {})
  <2>1. MAIN \in Svc /\ conf.request \in Name /\ conf.request # None
    BY <1>1, StructureAssumption, NameAssumption DEF ConfigOK
  <2>2. "prepare" \in Ops
    BY DEF Ops
  <2>3. call \in Good({})
    BY <2>1, <2>2, CallIsGood
  <2>4. stack = <<call>> /\ tagged = {}
    BY DEF Init
  <2> HIDE DEF call
  <2>5. stack \in Seq(Good(tagged))
    BY <2>3, <2>4
  <2>6. status \in [Svc -> Status]
    BY DEF Init, Status
  <2> QED BY <2>5, <2>6 DEF SvcInv, Init
<1>3. OneFlight
  BY FinalNotWaiting DEF OneFlight, Init
<1>4. ManagerInStep
  <2>1. {a \in Action : workers[a] + timers[a] > 0} = {}
    BY DEF Init
  <2> QED BY <2>1, NewManagerOK DEF ManagerInStep, Init
<1>5. act_status \in [Action -> Status]
  BY FinalNotWaiting DEF Init
<1>6. target \in [Action -> {None} \cup SUBSET Node]
  BY <1>1 DEF Init, ConfigOK
<1> QED BY <1>1, <1>2, <1>3, <1>4, <1>5, <1>6 DEF IInv, ActInv, Init

LEMMA NextOK ==
  ASSUME NoNegativeFanout
  PROVE  IInv /\ [Next]_vars => IInv'
<1> SUFFICES ASSUME SvcInv, ActInv, [Next]_vars
             PROVE  SvcInv' /\ ActInv'
  BY DEF IInv
<1>1. ASSUME NEW s \in Svc, ServiceStep(s)
      PROVE  SvcInv' /\ ActInv'
  <2>1. UNCHANGED actVars /\ UNCHANGED conf
    BY <1>1 DEF ServiceStep, PrepareAgain, PrepareDeps, PrepareWaits,
                LaunchMissing, LaunchSkipped, LaunchDepError, LaunchAction,
                LaunchGate, LaunchInternal, Launching, Preparing, PrepareDep,
                Trigger, envVars
  <2>2. CASE \/ PrepareAgain(s) \/ PrepareDeps(s) \/ PrepareWaits(s)
             \/ LaunchMissing(s) \/ LaunchSkipped(s) \/ LaunchDepError(s)
             \/ LaunchAction(s) \/ LaunchGate(s) \/ LaunchInternal(s)
    BY <2>1, <2>2, ServicePrepareOK, ActInvUnchanged
  <2>3. CASE \E t \in Svc : PrepareDep(s, t) \/ Trigger(s, t)
    BY <2>1, <2>3, PrepareDepOK, TriggerOK, ActInvUnchanged
  <2> QED BY <1>1, <2>2, <2>3 DEF ServiceStep
<1>2. ASSUME NEW a \in Action, ActionStep(a)
      PROVE  SvcInv' /\ ActInv'
  <2>1. CASE ActionPrepareAgain(a)
    <3>1. UNCHANGED actVars /\ UNCHANGED conf
      BY <2>1 DEF ActionPrepareAgain, envVars
    <3> QED BY <2>1, <3>1, ActionPrepareOK, ActInvUnchanged
  <2>2. CASE SkipAction(a) \/ ActionNotNeeded(a)
    BY <2>2, ActionPrepareOK, EndWithoutRunOK
  <2>3. CASE RunAction(a)
    BY <2>3, ActionPrepareOK, RunOK
  <2>4. CASE PrepareSubActions(a)
    BY <2>4, SubActionsOK, PrepareSubActionsOK
  <2>5. CASE PrepareSubAction(a)
    <3>1. UNCHANGED actVars /\ UNCHANGED conf
      BY <2>5 DEF PrepareSubAction, envVars
    <3> QED BY <2>5, <3>1, SubActionsOK, ActInvUnchanged
  <2>6. ASSUME NEW b \in Action, ActionTrigger(a, b)
        PROVE  SvcInv' /\ ActInv'
    <3>1. UNCHANGED actVars /\ UNCHANGED conf
      BY <2>6 DEF ActionTrigger, envVars
    <3> QED BY <2>6, <3>1, ActionTriggerOK, ActInvUnchanged
  <2> QED BY <1>2, <2>1, <2>2, <2>3, <2>4, <2>5, <2>6 DEF ActionStep
<1>3. CASE EndLoop
  <2>1. /\ stack # <<>> /\ Return
        /\ UNCHANGED <<svcVars, actVars, conf, retcode, status, failed_nodes,
                       act_failed, worker>>
    BY <1>3 DEF EndLoop, envVars
  <2>2. stack' \in Seq(Good(tagged))
    BY <2>1, ReturnOK
  <2> QED BY <2>1, <2>2, SvcParts, UntaggedOK, ActInvUnchanged
<1>4. ASSUME NEW a \in Action, EventStep(a)
      PROVE  SvcInv' /\ ActInv'
  <2>1. SvcInv'
    BY <1>4, EventOK
  <2>2. ActInv'
    BY <1>4, FireOK, RetryOK, CloseOK DEF EventStep
  <2> QED BY <2>1, <2>2
<1>5. CASE Exit
  <2>1. /\ UNCHANGED <<conf, svcVars, actVars, worker, status, failed_nodes,
                       act_failed, stack>>
        /\ retcode' \in {RC_OK, RC_WARNING, RC_ERROR}
    BY <1>5 DEF Exit
  <2>2. ActInv'
    BY <2>1, ActInvUnchanged
  <2>3. SvcInv'
    BY <2>1 DEF SvcInv, svcVars, Action, Plain
  <2> QED BY <2>2, <2>3
<1>6. CASE UNCHANGED vars
  <2>1. UNCHANGED <<conf, svcVars, actVars, worker, status, failed_nodes,
                    act_failed, stack, retcode>>
    BY <1>6 DEF vars, svcVars, actVars
  <2>2. ActInv'
    BY <2>1, ActInvUnchanged
  <2>3. SvcInv'
    BY <2>1 DEF SvcInv, svcVars, Action, Plain
  <2> QED BY <2>2, <2>3
<1> QED BY <1>1, <1>2, <1>3, <1>4, <1>5, <1>6 DEF Next, Step, Terminated

\* The inductive invariant holds all along.
THEOREM EngineInvariant ==
  ASSUME NoNegativeFanout
  PROVE  Spec => []IInv
<1>1. Init => IInv
  BY InitOK
<1>2. IInv /\ [Next]_vars => IInv'
  BY NextOK
<1> QED BY <1>1, <1>2, PTL DEF Spec

\* Every variable has its type; a service that was prepared knows what for, so
\* that it can be prepared again without being told.
THEOREM TypeCorrect ==
  ASSUME NoNegativeFanout
  PROVE  Spec => []TypeOK
<1>1. IInv => TypeOK
  <2> SUFFICES ASSUME SvcInv, ActInv PROVE TypeOK
    BY DEF IInv
  <2>1. stack \in Seq(Frame)
    <3>1. Good(tagged) \subseteq Frame
      BY DEF Good
    <3> QED BY <3>1, SvcParts
  <2>2. ManagerType(manager)
    BY DEF ActInv, ManagerInStep, ManagerOK
  <2> QED BY <2>1, <2>2 DEF TypeOK, SvcInv, ActInv
<1> QED BY <1>1, EngineInvariant, PTL

\* No command is fired twice at a time: a WAITING action has one command or one
\* timer in flight, another has none.
THEOREM OneFlightHolds ==
  ASSUME NoNegativeFanout
  PROVE  Spec => []OneFlight
<1>1. IInv => OneFlight
  BY DEF IInv, ActInv
<1> QED BY <1>1, EngineInvariant, PTL

\* The manager runs the tasks that are in flight, counts them right and keeps
\* the lowest of their fanouts, through delays, retries and failures.
THEOREM ManagerInStepHolds ==
  ASSUME NoNegativeFanout
  PROVE  Spec => []ManagerInStep
<1>1. IInv => ManagerInStep
  BY DEF IInv, ActInv
<1> QED BY <1>1, EngineInvariant, PTL
-------------------------------------------------------------------------------
(* How the tries of an action end: retries are used up before a failure is   *)
(* reported, and the action is reported once.                                *)

\* The life of one action: nothing was tried before it is launched; a timer in
\* flight stands for a try that is left.
Tried(a) ==
  /\ act_status[a] = NO_STATUS => tries[a] = 0 /\ worker[a] = {}
  /\ timers[a] > 0 => tries[a] <= conf.maxretry[a]
  /\ tries[a] <= conf.maxretry[a] + 1
  /\ act_status[a] \in {ERROR, TIMEOUT, WARNING} =>
       tries[a] = conf.maxretry[a] + 1
  /\ Final(act_status[a]) /\ worker[a] # {} => tries[a] = conf.maxretry[a] + 1
  /\ completed[a] = (IF Final(act_status[a]) THEN 1 ELSE 0)

Tries == \A a \in Action : Tried(a)

\* What a step on one action leaves of another.
SameTries(b) ==
  /\ act_status'[b] = act_status[b] /\ tries'[b] = tries[b]
  /\ worker'[b] = worker[b] /\ timers'[b] = timers[b]
  /\ completed'[b] = completed[b]

LEMMA SameTried ==
  ASSUME NEW b, Tried(b), SameTries(b), UNCHANGED conf
  PROVE  Tried(b)'
BY DEF Tried, SameTries

LEMMA OneActionTried ==
  ASSUME Tries, NEW a \in Action, Tried(a)', UNCHANGED conf,
         \A b \in Action \ {a} : SameTries(b)
  PROVE  Tries'
<1> SUFFICES ASSUME NEW b \in Action PROVE Tried(b)'
  BY DEF Tries, Action, Plain
<1>1. CASE b = a
  BY <1>1
<1>2. CASE b # a
  BY <1>2, SameTried DEF Tries
<1> QED BY <1>1, <1>2

LEMMA SameTriesAll ==
  ASSUME Tries, UNCHANGED <<conf, act_status, tries, worker, timers, completed>>
  PROVE  Tries'
<1> SUFFICES ASSUME NEW b \in Action PROVE Tried(b)'
  BY DEF Tries, Action, Plain
<1> QED BY SameTried DEF Tries, SameTries

\* The names of statuses that the life of an action tells apart.
LEMMA FinalStatuses ==
  /\ \A st \in {TIMEOUT, ERROR, WARNING, DONE, SKIPPED} : Final(st)
  /\ ~Final(NO_STATUS) /\ ~Final(WAITING_STATUS)
  /\ {SKIPPED, DONE, WAITING_STATUS, NO_STATUS} \cap {ERROR, TIMEOUT, WARNING} = {}
  /\ NO_STATUS # WAITING_STATUS
BY DEF Final, NO_STATUS, WAITING_STATUS, DONE, WARNING, TIMEOUT, ERROR, SKIPPED

LEMMA TriesTypes ==
  ASSUME IInv, NEW a \in Action
  PROVE  /\ act_status \in [Action -> Status] /\ tries \in [Action -> Nat]
         /\ completed \in [Action -> Nat] /\ timers \in [Action -> Nat]
         /\ workers \in [Action -> Nat] /\ worker \in [Action -> SUBSET Node]
         /\ conf.maxretry[a] \in Nat /\ conf.errors[a] \in Nat
         /\ conf.warnings[a] \in Nat
BY DEF IInv, ActInv, SvcInv, ConfigOK

\* An action in flight has a command or a timer, and no other.
LEMMA OneOfThem ==
  ASSUME IInv, NEW a \in Action
  PROVE  /\ workers[a] > 0 => act_status[a] = WAITING_STATUS /\ timers[a] = 0
         /\ timers[a] > 0 => act_status[a] = WAITING_STATUS /\ timers[a] = 1
<1>1. workers[a] \in Nat /\ timers[a] \in Nat
  BY TriesTypes
<1>2. workers[a] + timers[a] = (IF act_status[a] = WAITING_STATUS THEN 1 ELSE 0)
  BY DEF IInv, ActInv, OneFlight
<1> QED BY <1>1, <1>2

\* A command that failed nowhere is DONE.
LEMMA FailedSomewhere ==
  ASSUME IInv, NEW a \in Action, NEW r \in Results(a), Outcome(a, r) # DONE
  PROVE  r.errors \cup r.timeouts # {}
<1> SUFFICES ASSUME r.errors \cup r.timeouts = {} PROVE FALSE
  OBVIOUS
<1>1. r.errors = {} /\ r.timeouts = {}
  OBVIOUS
<1>2. Cardinality(r.timeouts) = 0 /\ Cardinality(r.errors \cup r.timeouts) = 0
  BY <1>1, FS_EmptySet
<1>3. conf.errors[a] \in Nat /\ conf.warnings[a] \in Nat
  BY TriesTypes
<1>4. /\ ~(Cardinality(r.timeouts) > conf.errors[a])
      /\ ~(Cardinality(r.errors \cup r.timeouts) > conf.errors[a])
      /\ ~(Cardinality(r.errors \cup r.timeouts) > conf.warnings[a])
  BY <1>2, <1>3
<1> QED BY <1>4 DEF Outcome

LEMMA EndWithoutRunTries ==
  ASSUME IInv, Tries, NEW a \in Action, SkipAction(a) \/ ActionNotNeeded(a)
  PROVE  Tries'
<1>1. /\ act_status[a] = NO_STATUS
      /\ completed' = [completed EXCEPT ![a] = @ + 1]
      /\ UNCHANGED <<conf, tries, timers, worker>>
  BY DEF SkipAction, ActionNotNeeded, PreparingAction, Preparable,
         CompleteAction, envVars
<1>2. PICK st \in {SKIPPED, DONE} : act_status' = [act_status EXCEPT ![a] = st]
  BY DEF SkipAction, ActionNotNeeded, CompleteAction
<1>3. Tried(a) /\ \A b \in Action \ {a} : SameTries(b)
  BY <1>1, <1>2, TriesTypes DEF Tries, SameTries
<1>4. act_status'[a] = st /\ completed'[a] = completed[a] + 1
  BY <1>1, <1>2, TriesTypes
<1>5. completed[a] = 0 /\ tries[a] = 0 /\ worker[a] = {}
  BY <1>1, <1>3, FinalStatuses DEF Tried
<1>6. st # NO_STATUS /\ Final(st) /\ st \notin {ERROR, TIMEOUT, WARNING}
  BY FinalStatuses
<1>7. Tried(a)'
  BY <1>1, <1>3, <1>4, <1>5, <1>6 DEF Tried
<1> QED BY <1>1, <1>3, <1>7, OneActionTried

\* schedule, as the tries see it: a timer is armed, or a try is made.
LEMMA ScheduleTries ==
  ASSUME IInv, NEW a \in Action, NEW delay, NEW mgr, NEW wks,
         NEW tms \in [Action -> Nat], Schedule(a, delay, mgr, wks, tms)
  PROVE  /\ \/ timers'[a] = tms[a] + 1 /\ tries' = tries
            \/ timers'[a] = tms[a] /\ tries' = [tries EXCEPT ![a] = @ + 1]
         /\ \A b \in Action \ {a} : timers'[b] = tms[b] /\ tries'[b] = tries[b]
<1>1. tries \in [Action -> Nat]
  BY TriesTypes
<1>2. CASE a \in conf.delayed /\ delay
  BY <1>2 DEF Schedule, PerformAction, PerformDelayedAction
<1>3. CASE ~(a \in conf.delayed /\ delay)
  BY <1>1, <1>3 DEF Schedule, PerformAction, PerformDelayedAction
<1> QED BY <1>2, <1>3

LEMMA RunTries ==
  ASSUME IInv, Tries, NEW a \in Action, RunAction(a)
  PROVE  Tries'
<1>1. /\ act_status[a] = NO_STATUS
      /\ act_status' = [act_status EXCEPT ![a] = WAITING_STATUS]
      /\ Schedule(a, TRUE, manager, workers, timers)
      /\ UNCHANGED <<conf, worker, completed>>
  BY DEF RunAction, PreparingAction, Preparable, envVars
<1>2. timers \in [Action -> Nat]
  BY TriesTypes
<1>3. /\ \/ timers'[a] = timers[a] + 1 /\ tries' = tries
         \/ timers'[a] = timers[a] /\ tries' = [tries EXCEPT ![a] = @ + 1]
      /\ \A b \in Action \ {a} : timers'[b] = timers[b] /\ tries'[b] = tries[b]
  BY <1>1, <1>2, ScheduleTries
<1>4. Tried(a) /\ \A b \in Action \ {a} : SameTries(b)
  BY <1>1, <1>3, TriesTypes DEF Tries, SameTries
<1>5. tries[a] = 0 /\ tries'[a] \in {0, 1} /\ (timers'[a] > 0 => tries'[a] = 0)
  <2>1. tries[a] = 0
    BY <1>1, <1>4 DEF Tried
  <2>2. timers[a] = 0
    BY <1>1, FinalStatuses, TriesTypes DEF IInv, ActInv, OneFlight
  <2> QED BY <1>3, <2>1, <2>2, TriesTypes
<1>6. act_status'[a] = WAITING_STATUS
  BY <1>1, TriesTypes
<1>7. Tried(a)'
  BY <1>1, <1>4, <1>5, <1>6, FinalStatuses, TriesTypes DEF Tried
<1> QED BY <1>1, <1>4, <1>7, OneActionTried

LEMMA FireTries ==
  ASSUME IInv, Tries, NEW a \in Action, Fire(a)
  PROVE  Tries'
<1> DEFINE tms == [timers EXCEPT ![a] = @ - 1]
<1>1. /\ timers[a] > 0
      /\ Schedule(a, FALSE, manager, workers, tms)
      /\ UNCHANGED <<conf, act_status, worker, completed>>
  BY DEF Fire, envVars
<1>2. act_status[a] = WAITING_STATUS /\ timers[a] = 1
  BY <1>1, OneOfThem
<1>3. tms \in [Action -> Nat] /\ tms[a] = 0 /\ \A b \in Action \ {a} : tms[b] = timers[b]
  BY <1>2, TriesTypes
<1>4. /\ timers'[a] = 0 /\ tries' = [tries EXCEPT ![a] = @ + 1]
      /\ \A b \in Action \ {a} : timers'[b] = timers[b] /\ tries'[b] = tries[b]
  <2>1. /\ timers' = tms /\ tries' = [tries EXCEPT ![a] = @ + 1]
    BY <1>1 DEF Schedule, PerformAction, PerformDelayedAction
  <2> QED BY <1>3, <2>1, TriesTypes
<1>5. Tried(a) /\ \A b \in Action \ {a} : SameTries(b)
  BY <1>1, <1>4 DEF Tries, SameTries
<1>6. tries'[a] = tries[a] + 1
  BY <1>4, TriesTypes
<1>7. Tried(a)'
  BY <1>1, <1>2, <1>4, <1>5, <1>6, FinalStatuses, TriesTypes DEF Tried
<1> QED BY <1>1, <1>5, <1>7, OneActionTried

LEMMA RetryTries ==
  ASSUME IInv, Tries, NEW a \in Action, NEW r, Retry(a, r)
  PROVE  Tries'
<1> DEFINE failed == r.errors \cup r.timeouts
<1>1. /\ workers[a] > 0 /\ tries[a] <= conf.maxretry[a]
      /\ Schedule(a, TRUE, RemoveTask(manager, a),
                  [workers EXCEPT ![a] = @ - 1], timers)
      /\ worker' = [worker EXCEPT ![a] = failed]
      /\ UNCHANGED <<conf, act_status, completed>>
  BY DEF Retry, Closing, Retried
<1>2. act_status[a] = WAITING_STATUS /\ timers[a] = 0
  BY <1>1, OneOfThem
<1>3. timers \in [Action -> Nat]
  BY TriesTypes
<1>4. /\ \/ timers'[a] = timers[a] + 1 /\ tries' = tries
         \/ timers'[a] = timers[a] /\ tries' = [tries EXCEPT ![a] = @ + 1]
      /\ \A b \in Action \ {a} : timers'[b] = timers[b] /\ tries'[b] = tries[b]
  BY <1>1, <1>3, ScheduleTries
<1> HIDE DEF failed
<1>5. Tried(a) /\ \A b \in Action \ {a} : SameTries(b)
  BY <1>1, <1>4, TriesTypes DEF Tries, SameTries
<1>6. /\ tries'[a] <= conf.maxretry[a] + 1
      /\ timers'[a] > 0 => tries'[a] <= conf.maxretry[a]
  BY <1>1, <1>2, <1>4, TriesTypes
<1>7. Tried(a)'
  BY <1>1, <1>2, <1>5, <1>6, FinalStatuses DEF Tried
<1> QED BY <1>1, <1>5, <1>7, OneActionTried

LEMMA CloseTries ==
  ASSUME IInv, Tries, NEW a \in Action, NEW r, Close(a, r)
  PROVE  Tries'
<1> DEFINE failed == r.errors \cup r.timeouts
           st == Outcome(a, r)
<1>1. /\ workers[a] > 0 /\ r \in Results(a)
      /\ failed = {} \/ ~(tries[a] <= conf.maxretry[a])
      /\ worker' = [worker EXCEPT ![a] = failed]
      /\ act_status' = [act_status EXCEPT ![a] = st]
      /\ completed' = [completed EXCEPT ![a] = @ + 1]
      /\ UNCHANGED <<conf, tries, timers>>
  BY DEF Close, Closing, CompleteAction, Retried
<1>2. act_status[a] = WAITING_STATUS /\ timers[a] = 0
  BY <1>1, OneOfThem
<1>3. st \in {TIMEOUT, ERROR, WARNING, DONE} /\ (st # DONE => failed # {})
  BY <1>1, OutcomeFinal, FailedSomewhere
<1> HIDE DEF failed, st
<1>4. Tried(a) /\ \A b \in Action \ {a} : SameTries(b)
  BY <1>1, TriesTypes DEF Tries, SameTries
<1>5. act_status'[a] = st /\ completed'[a] = completed[a] + 1 /\ worker'[a] = failed
  BY <1>1, TriesTypes
<1>6. failed # {} => tries[a] = conf.maxretry[a] + 1
  BY <1>1, <1>4, TriesTypes DEF Tried
<1>7. completed[a] = 0
  BY <1>2, <1>4, FinalStatuses DEF Tried
<1>8. Final(st) /\ st # NO_STATUS
  BY <1>3, FinalStatuses
<1>9. st \in {ERROR, TIMEOUT, WARNING} => st # DONE
  BY FinalStatuses
<1>10. Tried(a)'
  BY <1>1, <1>2, <1>3, <1>4, <1>5, <1>6, <1>7, <1>8, <1>9, TriesTypes DEF Tried
<1> QED BY <1>1, <1>4, <1>10, OneActionTried

LEMMA TriesInit == Init => Tries
BY FinalStatuses, ConfigAssumption DEF Init, Tries, Tried, ConfigOK

LEMMA TriesNext == IInv /\ Tries /\ [Next]_vars => Tries'
<1> SUFFICES ASSUME IInv, Tries, [Next]_vars PROVE Tries'
  OBVIOUS
<1>1. ASSUME UNCHANGED <<conf, actVars, worker>> PROVE Tries'
  BY <1>1, SameTriesAll DEF actVars
<1>2. ASSUME NEW s \in Svc, ServiceStep(s) PROVE Tries'
  <2>1. UNCHANGED <<conf, actVars, worker>>
    BY <1>2 DEF ServiceStep, PrepareAgain, PrepareDeps, PrepareWaits,
                LaunchMissing, LaunchSkipped, LaunchDepError, LaunchAction,
                LaunchGate, LaunchInternal, Launching, Preparing, PrepareDep,
                Trigger, envVars
  <2> QED BY <1>1, <2>1
<1>3. ASSUME NEW a \in Action, ActionStep(a) PROVE Tries'
  <2>1. CASE ActionPrepareAgain(a) \/ PrepareSubAction(a)
             \/ \E b \in Action : ActionTrigger(a, b)
    <3>1. UNCHANGED <<conf, actVars, worker>>
      BY <2>1 DEF ActionPrepareAgain, PrepareSubAction, ActionTrigger, envVars
    <3> QED BY <1>1, <3>1
  <2>2. CASE PrepareSubActions(a)
    <3>1. UNCHANGED <<conf, act_status, tries, worker, timers, completed>>
      BY <2>2 DEF PrepareSubActions, PreparingAction, envVars
    <3> QED BY <3>1, SameTriesAll
  <2> QED BY <1>3, <2>1, <2>2, EndWithoutRunTries, RunTries DEF ActionStep
<1>4. ASSUME NEW a \in Action, EventStep(a) PROVE Tries'
  BY <1>4, FireTries, RetryTries, CloseTries DEF EventStep
<1>5. CASE EndLoop \/ Exit \/ UNCHANGED vars
  <2>1. UNCHANGED <<conf, actVars, worker>>
    BY <1>5 DEF EndLoop, Exit, vars, actVars, envVars
  <2> QED BY <1>1, <2>1
<1> QED BY <1>2, <1>3, <1>4, <1>5 DEF Next, Step, Terminated

LEMMA TriesInvariant ==
  ASSUME NoNegativeFanout
  PROVE  Spec => [](IInv /\ Tries)
<1>1. Init => Tries
  BY TriesInit
<1>2. IInv /\ Tries /\ [Next]_vars => Tries'
  BY TriesNext
<1> QED BY <1>1, <1>2, EngineInvariant, PTL DEF Spec

\* ev_close reports a failure or a warning only when the retries are used up,
\* and a try that succeeded is the last.
THEOREM RetriesExhaustedHolds ==
  ASSUME NoNegativeFanout
  PROVE  Spec => []RetriesExhausted
<1>1. Tries => RetriesExhausted
  BY DEF Tries, Tried, RetriesExhausted
<1> QED BY <1>1, TriesInvariant, PTL

\* An action is reported complete once it has its status, and never again,
\* however often it is prepared, checked, delayed or retried.
THEOREM CompletedOnceHolds ==
  ASSUME NoNegativeFanout
  PROVE  Spec => []CompletedOnce
<1>1. Tries => CompletedOnce
  BY DEF Tries, Tried, CompletedOnce
<1> QED BY <1>1, TriesInvariant, PTL
===============================================================================
