-------------------------------- MODULE Engine --------------------------------
(***************************************************************************)
(* One call of the MilkCheck engine: `milkcheck [SERVICES] ACTION', from   *)
(* the run of the root group MAIN to the exit code.                        *)
(*                                                                         *)
(* The engine is a single thread.  Its methods (prepare, _launch_action,   *)
(* update_status of services, groups and actions) call each other to any   *)
(* depth, and return to ClusterShell's event loop, which calls them back   *)
(* when a timer fires or a command closes.  The call stack is explicit: a  *)
(* frame is a pending call, or a loop of a method that has entities left.  *)
(* The order in which a loop visits a dictionary is left open.             *)
(***************************************************************************)
EXTENDS ServiceGraph, ActionManager, Sequences

CONSTANTS
  Name,       \* names of actions
  STATUS,     \* the action a `check' dependency asks for
  Node,       \* nodes a command runs on
  LOCALHOST,  \* the node a local or delegated command is accounted to
  None,       \* Python's None
  Configs     \* the configurations of the run, see ConfigOK

Action == Plain \X Name

\* What is read from the command line and from YAML, once resolved.
ConfigOK(c) ==
  /\ \A s \in Svc : IsDict(c.parents[s])   \* dependencies of each entity,
  /\ \A s \in Svc : IsDict(c.children[s])  \*   both ways
  /\ c.actions \in [Svc -> SUBSET Name]
  /\ \A s \in Svc \ Plain : c.actions[s] = {}
  /\ c.check \in [Action -> SUBSET Name]   \* sub-actions of an action
  /\ c.target \in [Action -> {None} \cup SUBSET Node]
  /\ c.delegate \subseteq Action           \* actions whose mode is `delegate'
  /\ c.errors \in [Action -> Nat]
  /\ c.warnings \in [Action -> Nat]
  /\ c.maxretry \in [Action -> Nat]
  /\ c.delayed \subseteq Action            \* actions with a delay
  /\ c.locked \subseteq Svc                \* -X
  /\ c.reversed \in BOOLEAN                \* is it a reverse action?
  /\ c.request \in Name                    \* the action asked for

ASSUME NameAssumption == STATUS \in Name /\ None \notin Name
ASSUME NodeAssumption ==
  /\ IsFiniteSet(Node) /\ LOCALHOST \in Node
  /\ \A nodes \in SUBSET Node : nodes # None
ASSUME TaskAssumption == Task = Action
ASSUME ConfigAssumption == \A c \in Configs : ConfigOK(c)

VARIABLES
  conf,           \* the configuration, a constant of the call
  \* services and groups
  status,         \* status of each of them
  tagged,         \* those that were prepared
  last_action,    \* the action each was last prepared for
  failed_nodes,   \* nodes each must not run on
  \* actions
  act_status,     \* status of each action
  act_failed,     \* failed_nodes of each action
  target,         \* nodes each action runs on
  tries,          \* number of times its command was fired
  worker,         \* nodes that failed in the last command that closed
  completed,      \* number of EV_COMPLETE notified, what the report counts
  \* the master task and its manager
  manager,        \* ActionManager
  workers,        \* commands in flight, per action
  timers,         \* delays in flight, per action
  stack,          \* call stack, the running method first
  retcode         \* exit code, None until the end

vars == <<conf, status, tagged, last_action, failed_nodes, act_status,
          act_failed, target, tries, worker, completed, manager, workers,
          timers, stack, retcode>>
svcVars == <<tagged, last_action>>
actVars == <<act_status, target, tries, completed, manager, workers, timers>>
envVars == <<conf, worker, retcode>>
-------------------------------------------------------------------------------
(* Dependencies *)

Deps(s) == IF conf.reversed THEN conf.children[s] ELSE conf.parents[s]
Dependents(s) == IF conf.reversed THEN conf.parents[s] ELSE conf.children[s]

\* Where a group enters its subservices.
Gate(g) == IF conf.reversed THEN Sink[g] ELSE Source[g]

\* Slip: a group is held by its subservices only.
SvcDepsStatusInternal(s) ==
  EvalDepsStatus(IF s \in Group THEN Deps(Gate(s)) ELSE Deps(s), status)

\* A group is held both by its dependencies and by its subservices.
SvcDepsStatus(s) ==
  LET extd == EvalDepsStatus(Deps(s), status)
      intd == EvalDepsStatus(Deps(Gate(s)), status)
  IN  IF s \in Group /\ DEP_ORDER[extd] <= DEP_ORDER[intd] THEN intd ELSE extd

\* Dependencies of an action (all REQUIRE), and the actions it is a check of.
ActDeps(a) == [b \in {<<a[1], n>> : n \in conf.check[a]} |-> REQUIRE]
ActDependents(a) ==
  {b \in {<<a[1], n>> : n \in conf.actions[a[1]]} : a[2] \in conf.check[b]}

ActToSkip(a) == target[a] = {}

\* Services with actions that `s' stands for: itself, or those of the group.
Leaves(s) == IF s \in Group THEN Inner[s] \ Group ELSE {s}

HasAction(s, n) == \E t \in Leaves(s) : n \in conf.actions[t]

ToSkip(s, n) ==
  \A t \in Leaves(s) : n \in conf.actions[t] /\ ActToSkip(<<t, n>>)

\* filter_nodes: a group hands the nodes on to its subservices.
Filtered(failed, s, nodes) ==
  [t \in Svc |-> IF t = s \/ (s \in Group /\ t \in Inner[s])
                 THEN failed[t] \cup nodes ELSE failed[t]]
-------------------------------------------------------------------------------
(* The call stack *)

Frame == [op   : {"prepare", "prepare_deps", "trigger",
                  "action_prepare", "action_deps", "action_trigger"},
          svc  : Svc,
          act  : {None} \cup Name,
          todo : (SUBSET Svc) \cup (SUBSET Action)]

Call(op, s, n, todo) == [op |-> op, svc |-> s, act |-> n, todo |-> todo]

Top == Head(stack)
Caller == Tail(stack)

Running(op) == stack # <<>> /\ Top.op = op
TopAction == <<Top.svc, Top.act>>

Return == stack' = Caller

\* The loop at the top visits `x', and calls `frames' for it.
Visit(x, frames) ==
  stack' = frames \o <<Call(Top.op, Top.svc, Top.act, Top.todo \ {x})>> \o Caller

Init ==
  /\ conf \in Configs
  /\ status = [s \in Svc |-> IF s \in conf.locked THEN LOCKED ELSE NO_STATUS]
  /\ tagged = {}
  /\ last_action = [s \in Svc |-> None]
  /\ failed_nodes = [s \in Svc |-> {}]
  /\ act_status = [a \in Action |-> NO_STATUS]
  /\ act_failed = [a \in Action |-> {}]
  /\ target = conf.target
  /\ tries = [a \in Action |-> 0]
  /\ worker = [a \in Action |-> {}]
  /\ completed = [a \in Action |-> 0]
  /\ manager = NewManager
  /\ workers = [a \in Action |-> 0]
  /\ timers = [a \in Action |-> 0]
  /\ stack = <<Call("prepare", MAIN, conf.request, {})>>
  /\ retcode = None
-------------------------------------------------------------------------------
(* Services and groups *)

\* Slip: a service with nothing to run does not trigger its dependents.
UpdateStatusUnlessMissing(s, st, caller) ==
  /\ status' = [status EXCEPT ![s] = st]
  /\ stack' = IF Final(st) /\ st # MISSING /\ s # MAIN
              THEN <<Call("trigger", s, None, DOMAIN Dependents(s))>> \o caller
              ELSE caller

\* Service.update_status, called last: a final status is propagated to the
\* dependents, except by MAIN, the origin of the call.
UpdateStatus(s, st, caller) ==
  /\ status' = [status EXCEPT ![s] = st]
  /\ stack' = IF Final(st) /\ s # MAIN
              THEN <<Call("trigger", s, None, DOMAIN Dependents(s))>> \o caller
              ELSE caller

\* One turn of its loop: the failed nodes travel along the dependency, then
\* the dependent is prepared if it was waiting for nothing else.
Trigger(s, t) ==
  /\ Running("trigger") /\ Top.svc = s /\ t \in Top.todo
  /\ failed_nodes' = IF Filters(Dependents(s)[t])
                     THEN Filtered(failed_nodes, t, failed_nodes[s])
                     ELSE failed_nodes
  /\ Visit(t, IF /\ status[t] = NO_STATUS
                 /\ IsReady(Deps(t), status)
                 /\ t \in tagged
              THEN <<Call("prepare", t, None, {})>> ELSE <<>>)
  /\ UNCHANGED <<svcVars, actVars, envVars, status, act_failed>>

\* Slip: a service that is prepared again forgets what it was asked for.
RequestedNow(s) == Top.act

\* Service.prepare: what each of its branches has in common.
Requested(s) == IF Top.act = None THEN last_action[s] ELSE Top.act

Preparing(s) ==
  /\ Running("prepare") /\ Top.svc = s
  /\ tagged' = tagged \cup {s}
  /\ last_action' = [last_action EXCEPT ![s] = Requested(s)]
  /\ UNCHANGED <<actVars, envVars, failed_nodes, act_failed>>

Unprocessed(s) == SearchDeps(Deps(s), status, {NO_STATUS})

PrepareAgain(s) ==
  /\ Preparing(s) /\ status[s] # NO_STATUS
  /\ Return /\ UNCHANGED status

PrepareDeps(s) ==
  /\ Preparing(s) /\ status[s] = NO_STATUS /\ Unprocessed(s) # {}
  /\ stack' = <<Call("prepare_deps", s, None, Unprocessed(s))>> \o Caller
  /\ UNCHANGED status

PrepareWaits(s) ==
  /\ Preparing(s) /\ status[s] = NO_STATUS /\ Unprocessed(s) = {}
  /\ SvcDepsStatus(s) = WAITING_STATUS
  /\ Return /\ UNCHANGED status

\* One turn of its loop over the dependencies that were not processed.
PrepareDep(s, t) ==
  /\ Running("prepare_deps") /\ Top.svc = s /\ t \in Top.todo
  /\ Visit(t, <<Call("prepare", t,
                     IF IsCheck(Deps(s)[t]) THEN STATUS ELSE last_action[s], {})>>)
  /\ UNCHANGED <<svcVars, actVars, envVars, status, failed_nodes, act_failed>>

\* _launch_action, of a service or of a group.
Launching(s) ==
  /\ Preparing(s) /\ status[s] = NO_STATUS /\ Unprocessed(s) = {}
  /\ SvcDepsStatus(s) # WAITING_STATUS

Launchable(s) ==
  HasAction(s, Requested(s)) /\ ~ToSkip(s, Requested(s))

LaunchMissing(s) ==
  /\ Launching(s) /\ ~HasAction(s, Requested(s))
  /\ UpdateStatus(s, MISSING, Caller)

LaunchSkipped(s) ==
  /\ Launching(s) /\ HasAction(s, Requested(s)) /\ ToSkip(s, Requested(s))
  /\ IF s \in Group
     THEN UpdateStatus(s, SKIPPED, Caller)
     ELSE /\ stack' = <<Call("action_prepare", s, Requested(s), {})>> \o Caller
          /\ UNCHANGED status

LaunchDepError(s) ==
  /\ Launching(s) /\ Launchable(s) /\ SvcDepsStatus(s) = DEP_ERROR
  /\ UpdateStatus(s, DEP_ERROR, Caller)

LaunchAction(s) ==
  /\ s \notin Group
  /\ Launching(s) /\ Launchable(s) /\ SvcDepsStatus(s) # DEP_ERROR
  /\ UpdateStatus(s, WAITING_STATUS,
                  <<Call("action_prepare", s, Requested(s), {})>> \o Caller)

\* Slip: a group enters its subservices again when they are over.
EnterableAgain(g) == DOMAIN Deps(Gate(g)) # {}

\* The status of a group does not move while its subservices are processed.
Enterable(g) == DOMAIN Deps(Gate(g)) # {} /\ status[Gate(g)] = NO_STATUS

LaunchGate(g) ==
  /\ g \in Group
  /\ Launching(g) /\ Launchable(g) /\ SvcDepsStatus(g) # DEP_ERROR
  /\ Enterable(g)
  /\ stack' = <<Call("prepare", Gate(g), Requested(g), {})>> \o Caller
  /\ UNCHANGED status

LaunchInternal(g) ==
  /\ g \in Group
  /\ Launching(g) /\ Launchable(g) /\ SvcDepsStatus(g) # DEP_ERROR
  /\ ~Enterable(g)
  /\ UpdateStatus(g, EvalDepsStatus(Deps(Gate(g)), status), Caller)
-------------------------------------------------------------------------------
(* Actions *)

\* perform_action and perform_delayed_action: the task is given to the manager,
\* its command fired or its timer armed.  The last three arguments are the
\* state the handler left them in.
PerformAction(a, mgr, wks, tms) ==
  /\ manager' = AddTask(mgr, a)
  /\ workers' = [wks EXCEPT ![a] = @ + 1]
  /\ timers' = tms

PerformDelayedAction(a, mgr, wks, tms) ==
  /\ manager' = AddTask(mgr, a)
  /\ timers' = [tms EXCEPT ![a] = @ + 1]
  /\ workers' = wks

Schedule(a, allow_delay, mgr, wks, tms) ==
  IF a \in conf.delayed /\ allow_delay
  THEN PerformDelayedAction(a, mgr, wks, tms) /\ UNCHANGED tries
  ELSE PerformAction(a, mgr, wks, tms) /\ tries' = [tries EXCEPT ![a] = @ + 1]

\* Action.update_status for a final status, called last: the actions it is a
\* check of are tried, or its service takes the status over.
CompleteAction(a, st, failed, caller) ==
  /\ act_status' = [act_status EXCEPT ![a] = st]
  /\ completed' = [completed EXCEPT ![a] = @ + 1]
  /\ IF ActDependents(a) # {}
     THEN /\ stack' = <<Call("action_trigger", a[1], a[2], ActDependents(a))>>
                        \o caller
          /\ UNCHANGED <<status, failed_nodes>>
     ELSE /\ failed_nodes' = Filtered(failed_nodes, a[1], failed)
          /\ UpdateStatus(a[1], st, caller)

ActionTrigger(a, b) ==
  /\ Running("action_trigger") /\ TopAction = a /\ b \in Top.todo
  /\ act_failed' = [act_failed EXCEPT ![b] = @ \cup act_failed[a]]
  /\ Visit(b, IF IsReady(ActDeps(b), act_status)
              THEN <<Call("action_prepare", b[1], b[2], {})>> ELSE <<>>)
  /\ UNCHANGED <<svcVars, actVars, envVars, status, failed_nodes>>

\* Action.prepare, one branch after the other.
ActDepsStatus(a) == EvalDepsStatus(ActDeps(a), act_status)

Preparable(a) == act_status[a] = NO_STATUS /\ ActDepsStatus(a) # WAITING_STATUS

ActionPrepareAgain(a) ==
  /\ Running("action_prepare") /\ TopAction = a /\ ~Preparable(a)
  /\ Return
  /\ UNCHANGED <<svcVars, actVars, envVars, status, failed_nodes, act_failed>>

\* The nodes the dependencies of the service failed on are left out.
Remaining(a) ==
  IF target[a] = None THEN None ELSE target[a] \ failed_nodes[a[1]]

PreparingAction(a) ==
  /\ Running("action_prepare") /\ TopAction = a /\ Preparable(a)
  /\ target' = [target EXCEPT ![a] = Remaining(a)]
  /\ UNCHANGED <<svcVars, envVars, act_failed>>

SkipAction(a) ==
  /\ PreparingAction(a) /\ Remaining(a) = {}
  /\ CompleteAction(a, SKIPPED, act_failed[a], Caller)
  /\ UNCHANGED <<tries, manager, workers, timers>>

\* Slip: the action is not run when its check fails.
ToRunUnchecked(a) == conf.check[a] = {}

ToRun(a) == ActDepsStatus(a) = DEP_ERROR \/ conf.check[a] = {}

RunAction(a) ==
  /\ PreparingAction(a) /\ Remaining(a) # {} /\ ToRun(a)
  /\ act_status' = [act_status EXCEPT ![a] = WAITING_STATUS]
  /\ Schedule(a, TRUE, manager, workers, timers)
  /\ Return
  /\ UNCHANGED <<status, failed_nodes, completed>>

\* The check succeeded: there is nothing to run.
ActionNotNeeded(a) ==
  /\ PreparingAction(a) /\ Remaining(a) # {} /\ ~ToRun(a)
  /\ ActDepsStatus(a) = DONE
  /\ CompleteAction(a, DONE, act_failed[a], Caller)
  /\ UNCHANGED <<tries, manager, workers, timers>>

PrepareSubActions(a) ==
  /\ PreparingAction(a) /\ Remaining(a) # {} /\ ~ToRun(a)
  /\ ActDepsStatus(a) # DONE
  /\ stack' = <<Call("action_deps", a[1], a[2],
                     SearchDeps(ActDeps(a), act_status, {NO_STATUS}))>> \o Caller
  /\ UNCHANGED <<status, failed_nodes, act_status, completed, tries, manager,
                 workers, timers>>

PrepareSubAction(b) ==
  /\ Running("action_deps") /\ b \in Top.todo
  /\ Visit(b, <<Call("action_prepare", b[1], b[2], {})>>)
  /\ UNCHANGED <<svcVars, actVars, envVars, status, failed_nodes, act_failed>>

\* A loop that has visited all its entities returns.
EndLoop ==
  /\ stack # <<>> /\ Top.op \notin {"prepare", "action_prepare"}
  /\ Top.todo = {}
  /\ Return
  /\ UNCHANGED <<svcVars, actVars, envVars, status, failed_nodes, act_failed>>
-------------------------------------------------------------------------------
(* The event loop of ClusterShell, between two calls of the engine *)

InEventLoop == stack = <<>> /\ retcode = None

\* Slip: the timer is not used up.
FireAgain(a) ==
  /\ InEventLoop /\ timers[a] > 0
  /\ Schedule(a, FALSE, manager, workers, timers)
  /\ UNCHANGED <<svcVars, envVars, status, failed_nodes, act_status,
                 act_failed, target, completed, stack>>

\* ev_timer
Fire(a) ==
  /\ InEventLoop /\ timers[a] > 0
  /\ Schedule(a, FALSE, manager, workers, [timers EXCEPT ![a] = @ - 1])
  /\ UNCHANGED <<svcVars, envVars, status, failed_nodes, act_status,
                 act_failed, target, completed, stack>>

\* The nodes a command fails on: any of its targets, or the local node.
Results(a) ==
  LET on == IF target[a] = None \/ a \in conf.delegate THEN {LOCALHOST}
                                                       ELSE target[a]
  IN  {r \in [errors : SUBSET on, timeouts : SUBSET on] :
         r.errors \cap r.timeouts = {}}

\* Slip: one try too few.
RetriedLess(a, failed) == failed # {} /\ tries[a] < conf.maxretry[a]

Retried(a, failed) == failed # {} /\ tries[a] <= conf.maxretry[a]

\* Status of an action that is not tried again.
Outcome(a, r) ==
  LET failed == Cardinality(r.errors \cup r.timeouts)
  IN  IF Cardinality(r.timeouts) > conf.errors[a] /\ r.errors = {}
      THEN TIMEOUT
      ELSE IF failed > conf.errors[a] THEN ERROR
      ELSE IF failed > conf.warnings[a] THEN WARNING
      ELSE DONE

\* ev_close, for a command that is tried again and for one that is not.
Closing(a, r) ==
  /\ InEventLoop /\ workers[a] > 0 /\ r \in Results(a)
  /\ worker' = [worker EXCEPT ![a] = r.errors \cup r.timeouts]
  /\ UNCHANGED <<svcVars, conf, retcode, target>>

\* Slip: ev_close goes on after it has scheduled the action again.
RetryAndReport(a, r) ==
  /\ Closing(a, r) /\ Retried(a, r.errors \cup r.timeouts)
  /\ Schedule(a, TRUE, RemoveTask(manager, a),
              [workers EXCEPT ![a] = @ - 1], timers)
  /\ act_failed' = [act_failed EXCEPT ![a] = @ \cup r.errors \cup r.timeouts]
  /\ CompleteAction(a, Outcome(a, r), act_failed'[a], <<>>)

Retry(a, r) ==
  /\ Closing(a, r) /\ Retried(a, r.errors \cup r.timeouts)
  /\ Schedule(a, TRUE, RemoveTask(manager, a),
              [workers EXCEPT ![a] = @ - 1], timers)
  /\ UNCHANGED <<status, failed_nodes, act_status, act_failed, completed, stack>>

\* Slip: the nodes that timed out are not filtered.
SpoiledByErrors(a, r) ==
  IF target[a] = None THEN act_failed[a] ELSE act_failed[a] \cup r.errors

\* A local command has no node to filter.
Spoiled(a, r) ==
  IF target[a] = None THEN act_failed[a]
                      ELSE act_failed[a] \cup r.errors \cup r.timeouts

Close(a, r) ==
  /\ Closing(a, r) /\ ~Retried(a, r.errors \cup r.timeouts)
  /\ manager' = RemoveTask(manager, a)
  /\ workers' = [workers EXCEPT ![a] = @ - 1]
  /\ act_failed' = [act_failed EXCEPT ![a] = Spoiled(a, r)]
  /\ CompleteAction(a, Outcome(a, r), Spoiled(a, r), <<>>)
  /\ UNCHANGED <<tries, timers>>

\* The master task returns when it has no worker and no timer left, and the
\* command line turns the status of MAIN into an exit code.
RC_OK == 0
RC_WARNING == 3
RC_ERROR == 6

ASSUME RetcodeAssumption == None \notin {RC_OK, RC_WARNING, RC_ERROR}

HasWarnings == \E s \in Sub[MAIN] : status[s] = WARNING

MasterTaskDone == InEventLoop /\ \A a \in Action : workers[a] = 0 /\ timers[a] = 0

\* Slips: only ERROR is an error; the end is not seen before EV_FINISHED.
ExitOnError ==
  /\ MasterTaskDone
  /\ retcode' = IF status[MAIN] = ERROR THEN RC_ERROR
                ELSE IF HasWarnings THEN RC_WARNING ELSE RC_OK
  /\ UNCHANGED <<conf, svcVars, actVars, worker, status, failed_nodes,
                 act_failed, stack>>
ExitOnFinish ==
  /\ MasterTaskDone /\ manager.finished
  /\ retcode' = IF status[MAIN] \in {DEP_ERROR, ERROR} THEN RC_ERROR
                ELSE IF HasWarnings THEN RC_WARNING ELSE RC_OK
  /\ UNCHANGED <<conf, svcVars, actVars, worker, status, failed_nodes,
                 act_failed, stack>>

Exit ==
  /\ MasterTaskDone
  /\ retcode' = IF status[MAIN] \in {DEP_ERROR, ERROR} THEN RC_ERROR
                ELSE IF HasWarnings THEN RC_WARNING ELSE RC_OK
  /\ UNCHANGED <<conf, svcVars, actVars, worker, status, failed_nodes,
                 act_failed, stack>>

ServiceStep(s) ==
  \/ PrepareAgain(s) \/ PrepareDeps(s) \/ PrepareWaits(s)
  \/ LaunchMissing(s) \/ LaunchSkipped(s) \/ LaunchDepError(s)
  \/ LaunchAction(s) \/ LaunchGate(s) \/ LaunchInternal(s)
  \/ \E t \in Svc : PrepareDep(s, t) \/ Trigger(s, t)

ActionStep(a) ==
  \/ ActionPrepareAgain(a) \/ SkipAction(a) \/ RunAction(a)
  \/ ActionNotNeeded(a) \/ PrepareSubActions(a) \/ PrepareSubAction(a)
  \/ \E b \in Action : ActionTrigger(a, b)

EventStep(a) ==
  \/ Fire(a)
  \/ \E r \in Results(a) : Retry(a, r) \/ Close(a, r)

Step ==
  \/ \E s \in Svc : ServiceStep(s)
  \/ \E a \in Action : ActionStep(a)
  \/ EndLoop
  \/ \E a \in Action : EventStep(a)
  \/ Exit

Terminated == retcode # None /\ UNCHANGED vars

Next == Step \/ Terminated

Spec == Init /\ [][Next]_vars

\* The engine runs on, and ClusterShell sees every command and timer to its end.
FairSpec == Spec /\ WF_vars(Step)
===============================================================================
