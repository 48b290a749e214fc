# MilkCheck in TLA+

MilkCheck starts, stops and checks services on the nodes of a cluster. Services
are declared in YAML with dependencies between them; each has actions (`start`,
`status`, ...), a command per action, and groups hold services and groups.
`milkcheck start` runs the `start` of every service, in the order of the
dependencies, in parallel where they allow it, over ClusterShell. This directory
holds models of the program from its command line to its exit code, the
properties it should have, the configurations TLC checks them on, and proofs.

All references are to `src/`; `Engine/X.py` is `src/lib/MilkCheck/Engine/X.py`,
`UI/X.py` is `src/lib/MilkCheck/UI/X.py`.

## 1. Inventory

| component | state | operations | what makes it correct |
|---|---|---|---|
| entities (`Engine/BaseEntity.py`) | `status`, `parents`, `children`, `failed_nodes`, `target`, `_tagged` | `Dependency.status`, `eval_deps_status`, `search_deps`, `is_ready`, `filter_nodes`, `add_dep`, `remove_dep`, `search`, `reset`, `resolve_all`; variables and inheritance | a set of dependencies evaluates to the worst of them; a weak one never fails its dependent; the two ends of an edge agree |
| actions (`Engine/Action.py`) | `status`, `tries`, `worker`, `pending_target` | `prepare`, `schedule`, `update_status`, `ev_timer`, `ev_close` | one command at a time, retries used up before a report, one report, checks decide whether it runs, no command on a node that failed before |
| ActionManager (`Engine/Action.py`) | `entities` (tasks by fanout), `fanout`, counters | `add_task`, `remove_task`, `perform_action`, `perform_delayed_action`, `run` | exact counter, lowest fanout in force |
| services (`Engine/Service.py`) | `status`, `_tagged`, `_last_action`, `origin` | `prepare`, `_launch_action`, `update_status`, `run` | launched once, after its dependencies and only if they allow it; never forgotten |
| groups (`Engine/ServiceGroup.py`) | `_source`, `_sink`, `_subservices`, `_algo_reversed` | `eval_deps_status`, `_launch_action`, `to_skip`, `has_action`, `filter_nodes`, `set_algo_reversed`, `fromdict`, `search`, `add_inter_dep` | subservices wait for what the group waits for; the group ends with them; loading gives the graph that was declared |
| ServiceManager (`ServiceManager.py`) | the root group | `call_services`, `load_config`, `select_services`, `_disable_deps`, `_apply_config`, `_variable_config`, `has_warnings` | a call runs what was asked, on the nodes that were asked, whatever was called before |
| command line (`UI/Cli.py`) | options, report | `execute`, `retcode`, console and summary | nothing runs that was not asked; exit code |
| interactive thread (`UI/Cli.py`) | a pipe | `run`, `quit`, `join`, `print_manager_status` | is over when `execute` returns |
| callbacks (`Callback.py`) | listeners | `attach`, `detach`, `notify` | complete and finished notified when they are true |
| `config.py`, `UI/OptionParser.py` | options | merge of defaults, file, options | precedence; `-n` and `-x` in any order |
| ClusterShell (external) | workers, timers | event loop | - |

How they interact. `CommandLine.execute` reads the options and the file, asks for
a confirmation, starts the interactive thread and calls
`ServiceManager.call_services`, which loads the graph, applies the options, cuts
edges and calls `run` on itself, the root group. `prepare` then recurses from the
source of MAIN up the dependencies. A service with nothing left to wait for
prepares its action, which gives a command or a timer to the ActionManager and
ClusterShell. When the event loop calls back (`ev_timer`, `ev_close`), the action
updates its status, hence that of its service, which prepares its dependents, and
so on down the graph within one handler. When ClusterShell has nothing left in
flight, `run` returns, `retcode` reads the result off the graph, and `execute`
quits the other thread, which until then reads the ActionManager when the user
presses Enter.

What is hard. The engine has one thread, but three sources of interleaving:
commands and timers end in any order; within one handler the methods call each
other to any depth, while loops over dictionaries above them are half done; and a
service is reached several times and from several sides. A service must be
prepared at the right one of these times: earlier breaks the order, later means
never, since nothing tries again. Failures add nodes to filter, retries,
thresholds, checks that turn a failure into a reason to run, and strengths of
dependencies. Around the engine: a graph keyed by short names that are not
unique, read in the order of a dictionary; a manager whose calls leave the graph
and the targets changed for the next call; and a second thread that reads what
the first one changes, while exceptions and Control-C may come at any time.
`PROJECT.json` ("hazards") lists these points at their lines.

## 2. Modules

| module | models | state and actions |
|---|---|---|
| `BaseEntity` | statuses, strengths, evaluation of dependencies | constant operators over dictionaries as functions |
| `ActionManager` | the books of running tasks | operators from a record to a record, one per method |
| `TaskLoad` | the ActionManager alone, under any sequence of calls | `Add`, `Remove` |
| `ServiceGraph` | the graph a call runs on, as stated | constant operators |
| `Engine` | the run of a call: services, groups, actions, manager, event loop, exit code | section 3 |
| `Scheduler` | what a run promises, without the way it is computed | `Launch`, `Finish`, `Pass`, `Refuse`, `Ignore`, `Return` |
| `EngineProperties` | what a run promises, the refinement of `Scheduler`, and what some theorems assume of the graph | properties only |
| `Loader` | `fromdict` and the methods that edit the graph | section 3 |
| `ServiceManager` | `call_services`, once or twice on one manager, over `Loader` | section 3 |
| `ManagerProperties` | what the graph and the calls promise | properties only |
| `Options` | from the options and milkcheck.conf to the configuration | operators |
| `CommandLine` | `execute` and the interactive thread, with an ActionManager between them | section 3, with its properties |
| `MCTaskLoad`, `MCFlat`, `MCGroup`, `MCActions`, `MCFindings`, `MCCalls`, `MCCommandLine` | instances for TLC | constants and configurations |
| `ActionManager_proofs`, `TaskLoad_proofs`, `Engine_proofs`, `Order_proofs`, `Waiting_proofs`, `Manager_proofs`, `Calls_proofs`, `CommandLine_proofs` | proofs | - |

`Engine` EXTENDS `ServiceGraph` (hence `BaseEntity`) and `ActionManager`; its
handlers call the operators of the latter, so that the manager `TaskLoad` checks
alone is the one the engine runs, and the one the interactive thread walks in
`CommandLine`. `Engine` starts from the graph that `ServiceGraph` states;
`Loader`, which builds the graph the way the code does, is checked and proved to
leave this very graph (`GraphAsStated`): the two halves meet there.

An operator whose comment starts with "Slip" is not part of a model: it is the
definition next to it with a mistake that code like this could make, under which
TLC finds the property listed with it in `PROJECT.json` violated.

## 3. How the models follow the code

### The engine

*Configuration.* Everything read from the command line and from YAML is one record,
`conf`, chosen in Init among `Configs` and constant afterwards: the dictionaries
of dependencies both ways, the actions of each service, the checks of each
action, targets, mode, thresholds, retries, delays, excluded services, direction
and the action asked for. Dependencies between actions exist only through
`check`, and are strong.

*Call stack.* A method that calls another in the middle of a loop is the heart
of this code, so the stack is a variable. A frame is a pending call (`prepare` of
a service, `action_prepare`), or a loop with the entities it has not visited
(`prepare_deps`, `trigger`, `action_deps`, `action_trigger`). The top frame runs;
each branch of a method is an action that replaces it. `update_status` is always
a tail call, except before the call of the action in `_launch_action`, where
WAITING propagates nothing; it is therefore an operator inside those actions. A
loop visits a dictionary in any order. The event loop runs only when the stack is
empty: handlers are atomic with respect to each other, as in the code.

| code | actions |
|---|---|
| `Service.prepare` | `PrepareAgain`, `PrepareDeps`, `PrepareDep` (its loop), `PrepareWaits`, and the launches |
| `_launch_action` (service, group) | `LaunchMissing`, `LaunchSkipped`, `LaunchDepError`, `LaunchAction`; `LaunchGate`, `LaunchInternal` for a group |
| `Service.update_status` | `UpdateStatus` in the caller, then `Trigger` (its loop) |
| `Action.prepare` | `ActionPrepareAgain`, `SkipAction`, `RunAction`, `ActionNotNeeded`, `PrepareSubActions`, `PrepareSubAction` (its loop) |
| `Action.update_status` | `CompleteAction` in the caller, then `ActionTrigger` (its loop) |
| `Action.schedule`, `perform_*` | `Schedule` in the caller |
| `ev_timer` | `Fire` |
| `ev_close` | `Retry` (scheduled again), `Close` (reported) |
| end of `ActionManager.run`, `retcode` | `Exit` |

*Results.* A command fails on any set of its nodes and times out on another,
disjoint one; a local or delegated command fails or not, on `localhost`. `worker` holds the
failed nodes of the last one, `tries` counts commands, `workers` and `timers`
count what is in flight.

*Groups.* A group is an entity with a source and a sink, entities too, without
actions. Their half edges (`del self.parents['source']`) are in `ServiceGraph`: a group points at its
gate, which does not point back. `Filtered`, `HasAction` and `ToSkip` go down to
the services of the group at any depth.

### The loader and the manager

The dictionaries of `Loader` are keyed by the short name of an entity (`Label`),
as in the code: unique in a group only. `AddDeps` and `RemoveDeps` write both
sides, each with the key it has there; `CanAddDep` and `CanRemoveDeps` say when
`add_dep` and `remove_dep` raise instead. `fromdict` is a stack of groups being
loaded: `Link` takes one dependency of one subservice, in any order, looks its
name up in the graph as it is at that moment (`Lookup`: the siblings, then
`Search`, with dotted names from the root) and adds the edge or raises; `Bind`
ties the free subservices to the two gates; `Descend` enters a subgroup;
`EndGroup` reads the services and hands the target down. `Wrap` is `DepWrapper`, where
several properties share an entry.

`ServiceManager` has one action per statement of `call_services`: `Reset`,
`Load`/`Loaded` (the steps of `Loader`), `ApplyConfig` (-X, -t, -n or -x),
`SetReversed`, `VariableConfig` (-D), `ResolveAll`, `SelectServices`,
`DisableDeps` (--nodeps), `Run`. The run is `Engine`'s: here it is recorded with
the targets, the command, the entities that `prepare` can reach, and the nodes that
failures took (`Filterable`: any node that a command before it may fail on).
`Action.prepare` takes these from the target in place, and `resolve_all` left the same
NodeSet as `_target_backup`: `Run` changes both. A second call
starts from the graph and the targets the first one left, as in the code. One target
stands for a service and for the action that the calls run. An exception ends the calls, and the graph it leaves half changed is not read any more. `declared`, `bound` and `runs` are history only.

### The command line and the interactive thread

`CommandLine` has two threads. The main one goes through the statements of
`execute` (`pc`): `Parse`, `Configure`, the four cases (`Case`: `OutputGraph`,
`CheckConfig`, `Help`, or the action), `Confirm`, `Start`, the call, `SetRetcode`, `Report`, the `except` clauses (`Except`,
`Code`), `Quit`, `Join`. The call gives tasks to the manager and takes them out,
in any order, or raises. `Interrupt` is Control-C before any of these steps:
caught in `try`, let through after it. The other thread is `Poll`, `Dispatch`,
`EndEvents`, `Flush` and `Walk`; the walk of the dictionary of the manager takes
one entry per step, and ends the thread with a RuntimeError when the dictionary
changed its size. `User` presses Enter or closes the terminal, at any time.

`Options` reads the options one after the other (`Parsing`, `Take`, `CheckServiceMode`)
and lays them over milkcheck.conf and the defaults (`Config`, `LaidOver`). The fanout of
the configuration, which `execute` gives to the ActionManager, is the constant
`DefaultFanout` of the latter.

### Not told apart

Names, commands, outputs, durations. `pending_target` is displayed only. One
variable V stands for all of them, in one target or command. One exception stands
for all those that the manager raises.

## 4. Runs

| run | instance | checks |
|---|---|---|
| `task_load` | 5 tasks of 3 fanouts, one without fanout; up to 6 adds | the manager: type, counter, fanout |
| `flat_graphs` | all 125 graphs over 3 services (each of the 3 possible edges absent or of one of the 4 strengths), both directions; one direction with `-X`, an action missing, on a node, all missing: 750 configurations | type, order, nothing forgotten, DEP_ERROR justified, exit code, termination, refinement of `Scheduler` |
| `nested_groups` | service `d`, group `G` of service `x` and group `K` of service `k`; all edges d-G and x-K, both directions, `-X G`, missing and skipped services: 972 configurations | order across groups, nothing forgotten, DEP_ERROR justified, no error without a command, refinement |
| `actions` | two services, two nodes, checks (none, one, two, a check of a check, one shared by both), thresholds, retry, delay, local, delegated | one flight, manager in step, retries, filtering, one report, final statuses stay, refinement |
| `calls` | two services and two groups whose subservices share short names; nine files; two calls among 22, with services, `--nodeps`, `-X`, `-t`, `-n`, `-x`, `-D`, both ways | the two ends of the edges agree, edges can be cut, loading gives the stated graph, scope and nodes of a call, -D |
| `command_line` | options that ask for an action, the graph, nothing; up to 3 `-n` and `-x` in any order; files that contradict them, the shipped one and that of the man page; two tasks of different fanouts; a terminal or not | nothing runs unasked, exit code, nodes, precedence, and `execute` and its thread end |

Violation runs, each one sentence of the documentation or a comment that the
code does not follow (section 7): `status_action`, `check_stuck`,
`check_repaired`, `filter_order`, `exit_code`, `define_target`.

*Bounds.* `MaxDone` in `TaskLoad` bounds the tasks ever added, 6 for 5 tasks: enough to
empty every category, refill one, and add twice. `Engine` needs no bound: every
loop ends, retries are bounded by `maxretry`, statuses move forward; its state
space is finite for finite constants. Three services are enough for a chain, a
fork, a join and a triangle, where a service is reached by two ways of different
length; two levels of groups for a gate inside a gate. One command per service
and at most one node are enough in the graph runs, where only the verdict matters:
most commands are local there, because a service whose only node was filtered is
skipped and would hide a dependency that was not respected; two nodes in
`actions`, where a command fails on a part of its target. `maxretry` is
0 or 1: the first, a middle and the last try are told apart by the property at 1.
`MaxCalls` is 2: what a call leaves to the next shows at the second one. The nine
files hold each a case of names (a collision, a shared entry, a name in another
group, a name that is not there, one that is there twice), or of targets and tags.
`MaxTries` in `CommandLine` bounds the times a task is given to the manager to 1:
two tasks of two fanouts already make its dictionary grow and shrink under the walk.
The order in which a dictionary is visited, which Python fixes, is left open:
the properties hold for all of them.

*What the bounds leave out.* In the graph runs there is no retry and no delay, and in
`actions` no group; the manners of an action and the shape of the graph meet only
through the status of the service and its failed nodes. `actions` uses checks
that run on the same nodes as what they guard: with others, `check_stuck` bites,
and `NothingLeftWaiting` is false. `NoFailedNodeTargeted` is not checked on three
services, where `filter_order` violates it. `FinalStatusStable` and `OneFlight` are
cheap to break only with actions, hence their run.

*Deadlock* is checked in every run: a state where no method can go on and the loop
has not returned would be one. `Terminated` (`Engine`), `Stopped`
(`ServiceManager`) and `Stop` (`CommandLine`) are the stutters of the ends.

*Fairness.* `Terminates` assumes `WF_vars(Step)` only: while something can be
done, something is. A running method goes on, and ClusterShell sees every
command and timer to its end: commands have a timeout or end by themselves, and
a command that never ends without a timeout does block the program. There is no
fairness between commands: none is needed. `Returns` assumes `WF_vars(Main)` and
`WF_vars(Thread)`: the system runs both threads, the call ends (that is
`Terminates`) and somebody answers the confirmation. Nothing is assumed of
`Interrupt` and `User`: nobody has to press Control-C or Enter, nor to stop doing so.

## 5. Properties

*Run of a call.* Order: `OrderRespected` (a launched action has all its dependencies,
and those of the groups around it, final, and no strong one failed, for the whole
call), `DepErrorJustified` (both ways), `FailuresHaveCommand` (no error without a
command that failed), `FinalStatusStable`. Liveness: `Terminates`,
`NothingLeftWaiting`. Actions: `OneFlight`, `RetriesExhausted`, `CompletedOnce`,
`NoFailedNodeTargeted`. Manager: `ManagerInStep`, `CountIsExact`,
`FanoutInForce`, `FanoutRisesOnRemoval`. Exit: `ExitCodeJustified`.

*Refinement.* `Scheduler` says in six actions what a call promises: each service
runs once at most, when what it depends on is over and no strong part of it
failed; it fails without running only if one did; a group passes when it could
run and its subservices are over; the call returns when nothing runs, and nothing
moves afterwards. `Implements` maps a status to idle, running, passed, failed or
void, the dictionaries to what is required and whether it is strong, and the exit code to
`over`. Everything else (stack, manager, nodes, retries) is hidden: a try that is
repeated is a stutter.

*Graph and calls.* `Mirrored`: the two ends of every edge agree, up to the half
edges of the gates and to dependents of the same short name, of which a service
knows one; this is why the property excepts them and why two services of the same
name should not depend on the same one. `CutsSucceed`: where they do, and only there,
`remove_dep` may look for an entry that an earlier cut took away, and raise
KeyError (in the run: a reverse call with `--nodeps`, then a forward one). `GraphAsStated`: `Loader` and `ServiceGraph` agree.
`ScopeExact`: a call reaches what it names and what that depends on, in its
direction, and nothing else; an earlier call may have cut edges that it meets
(`UncutBefore` says when it has not). `TargetsAsAsked`: nodes are never more than declared
and asked, without those that failures took from the service in an earlier call
(`TakenBefore`), and are all of these as long as no call restricted the nodes.
`DefineReachesCommands`.

*Command line.* `Returns`: `execute` ends, and so does the thread that was told to quit.
`RunsAsAsked`, `RetcodeHonest`, `NodesAsAsked`. `OptionsPrevail`: the report and the
directory of the last option, or else of milkcheck.conf, whose other entries are kept.
It does not say what the report is when only `summary: True` asks for one (section 7).

Each is stated in words above its definition; each has a mutant of a definition
of the code under which TLC finds it violated.

## 6. Proofs

Everything below is proved by TLAPS for all values of the constants that satisfy
the named assumptions of `ServiceGraph`, `Loader`, `ServiceManager`, `ActionManager`, `Engine` and `CommandLine`: any
services, groups and dictionaries (cyclic or inconsistent ones included), any
number of nodes and actions, any configuration. The theorems on the
engine add hypotheses, named in their statements: `NoNegativeFanout`, because `add_task` and `_is_running_task` disagree on a
negative fanout (`Engine/Action.py:129`); and, from `Order_proofs` on, those on
checks and on the shape of the graph that are discussed there.

* `ActionManager_proofs`: `AddTaskOK` and `RemoveTaskOK`. From books that are right
  (typed, tasks filed under their fanout, counter exact, lowest fanout in force:
  `ManagerOK`) each method makes right books of the tasks it should. The
  argument for the fanout: a category is emptied only by its last task, and only
  then can the minimum move.
* `TaskLoad_proofs`: `ManagerOK` is inductive; `TypeCorrect`, `CountCorrect`,
  `FanoutCorrect`, `FanoutRises`.
* `Engine_proofs`, first part: `EvalDepsStatus` returns one of the results and none is
  worse; hence `LaunchIsSafe`, the fact behind `OrderRespected`: the two tests of
  `Service.prepare` together mean that every dependency ended and no strong one
  failed.
* `Engine_proofs`: `TypeCorrect`, `OneFlightHolds`, `ManagerInStepHolds`. The inductive invariant is
  `IInv = SvcInv /\ ActInv`. `OneFlight` alone is not inductive: a
  retry closes one command and schedules another in the same step, which keeps
  the books only if the manager knew the task, hence `ManagerInStep`. The type
  of `last_action` is not either: `prepare()` without an action reuses the one of the
  service, which must have been prepared before, so the frames on the stack that
  need it (`NeedsTag`) are part of the invariant, and `tagged` only grows.
  `RetriesExhaustedHolds` and `CompletedOnceHolds` follow from `IInv` and the life of
  one action, `Tried`: a timer in flight stands for a try that is left.
* `Order_proofs`: `FinalStatusKept`, `DepErrorJustifiedHolds`,
  `FailuresHaveCommandHolds`, `EngineImplements`, `OrderRespectedHolds`, of
  calls where no action has a check (`NoChecks`). The core is the lemma
  `OrderNext`: every step of the engine leaves the statuses alone or is one of
  three moves, an idle service that settles without running, for a reason
  (`Settles`), one that is launched with its dependencies cleared (`Launches`), one
  whose command ends (`Finishes`). The invariant `OInv` that carries it says of
  each status that it is deserved, and of each action that it runs alone, for a
  service that waits for it; hence nothing is WAITING when the event loop is
  empty, which is what `Return` of `Scheduler` asks. The hard point is
  `Action.prepare`, which overwrites the status of the service whatever it was:
  `AboutToRun` says that whenever it is called, the service was launched for it in
  the same handler and has no other action under way. Moves never touch a final
  status, so what was deserved stays so; then each theorem follows from the moves.
  `OrderRespectedHolds` also needs the groups around a service, and so `AllNested`:
  what depends on something inside a group is inside too, so that the only way in
  is the gate, which opens when the group is cleared (`EInv`). A dependency from
  outside on a service inside a group breaks `AllNested`, and with it the property:
  `prepare` then enters the group from the side. The runs `flat_graphs` and
  `nested_groups` evaluate both hypotheses on their configurations.
* `Waiting_proofs`: `NothingLeftWaitingHolds`, of calls without checks on graphs that
  are nested and `Walkable` (the two ends of every edge know each other, the gates lead
  into their group and back, nothing waits for itself). "Nothing is forgotten" is
  a liveness argument put into an invariant: `WInv` says that whatever a prepared
  entity waits for is prepared too or has a frame on the stack that will prepare it
  (`DepsKnown`), and that an entity whose dependencies are over has a frame that
  will look at it again, unless it is a group whose subservices run
  (`AbleAttended`). Each step of the engine was shown to keep
  that (`Follows`), one branch of `prepare` and of the loops after the other: a
  branch drops a frame only after it did what the frame stood for. At the return
  the stack is empty and no command is in flight, so an entity that is still waiting
  waits for another such entity, and so on: the graph would have a cycle.
* In the same module, `ExitCodeJustifiedHolds`. The first half of the property
  hides that a failure of the last services does reach MAIN, which is itself skipped or
  missing when it has nothing to run. `XInv` says that what failed was asked for the
  action of the command line (`Asking`), has that action (`RunsRequest`), and keeps
  a service with nodes left, for good (`FailedFirmly`); so MAIN has something to
  run and is in error (`MainFollows`).
* In the same module, `NoFailedNodeTargetedHolds`. It is false of some graphs
  (`filter_order`): `update_status` hands the failed nodes to one dependent, prepares it,
  and only then goes to the next, which may be launched meanwhile by what the first one
  set off. `FInv` follows the nodes of a failure on their way: the action hands them to its
  service (`Accounted`), the service to each idle dependent or is still about to
  (`Carried`, `Told`), and a command spares them (`Spares`). The step that fails in general
  is a launch by `prepare` while the loop of a dependency that is filtered on has not
  come to this service: `Links` says what the stack looks like above such a loop (all
  its frames are about services that come after that dependency, `Chained`), and
  `NotTold` that the service launched is not to be told any more. The hypothesis
  `FiltersOnOneWay` is what makes the last fact true: what a service filters on is a
  service and not a group, of which the code hands over the nodes of the last entities;
  none of the dependents of that service but it leads to it; the loop leads into
  no group, only out of those around it; and the two ends of an edge agree. `NotByName`
  says that no target contains the local node, where local commands fail. The
  configurations of `actions` satisfy both (`ASSUME` in `MCActions`), that of
  `filter_order` does not: c comes after a directly and through b.
* The hypotheses on graphs are not taken for granted. `SiblingsAreNested` and
  `SiblingsAreAsked` prove them of the graphs that `ServiceGraph` builds, with its
  source, sink and half edges, from any dependencies declared between subservices of
  the same group: what remains is that the declared graph has no cycle, that `-X`
  names no gate, that MAIN is not locked and that no dependency between services is
  a `check`. The runs `flat_graphs` and `nested_groups` evaluate all of them on their
  configurations (`ASSUME` in `MCFlat` and `MCGroup`).
* `Manager_proofs`: `MirroredHolds`, `CutsSucceedHolds`, `DefineReachesCommandsHolds`,
  `GraphAsStatedHolds`, of any files, read in any order, and any number of calls. `Mirrored` is not inductive: whether
  the entry at the other end is the right one depends on which entities have the same
  short name, and a change of direction deletes entries by name. The invariant
  `GraphOK` says, besides the two sides (`MirroredIn`), that an entry is filed under
  the name of its target (`Keyed`), that a gate waits for subservices of its group only and
  nobody waits for a source (`GatesInside`), and that an entity has no parent but
  what was declared for it and maybe the sink of its group (`OnlyDeclared`), so that two
  entries that meet are a collision of declared names. `AddDepsMirrored`, `RemoveDepsOK` and
  `MoveHalfEdgesOK` show that each method that edits the graph keeps it; when the entries
  to cut belong to one gate, or to subservices of MAIN, they have different names
  (`Alone`), and when no declared names collide the other end is there (`CutWorks`).
  The hypothesis `GatesUnnamed`, that no entity is called `source` or `sink` but the
  gates and no dependency is declared on one, is needed: `del self.parents['source']`
  (`Engine/ServiceGroup.py:79`) takes whatever has this name; the files of `calls` satisfy it. The
  assumptions say that a group makes its own gates and subservices
  (`TreeAssumption`) and that these have different names, being the keys of one
  dictionary (`LabelAssumption`). For `DefineReachesCommands`, `DefineInv` follows
  the value of V through the statements of the first call.
  `GraphAsStated` is about the end of the loading, so its invariant, `LoadInv`, says
  what the graph is in the middle: what `ServiceGraph` states, of the groups bound so
  far (`AsStated`, entry by entry: `IsParent`, `IsChild`). A dependency may be linked
  to an entity of a group that is bound already, and a group is bound by what its
  subservices have at that time, so this holds only because of the order in which
  `fromdict` goes (`FramesOK`): the groups whose loading runs are bound but the
  innermost, no group is entered twice nor before the one around it is bound
  (`InTurn`), none is forgotten (`Covered`), and what was declared was said by the groups
  entered (`SaidBy`); `LinkStated`, `BindStated` and `ReversedStated` take one step each.
  `InsideAssumption`, that everything is inside MAIN and that what is inside a group is
  its subservices and what is inside them, is needed for `Covered`: entities are made
  by `fromdict` only, each by its group. That the engine's `Children` shows all the
  dependents, while a dictionary has one per short name, is why the half about
  children is stated where no names collide (`ChildNames`).
* `Calls_proofs`: `TargetsAsAskedHolds` and `ScopeExactHolds`, which compare what the
  code computes by walking the graph with what was asked. `TargetsAsAsked` compares the
  inheritance of a target, from the parent when a group is entered, with the
  nearest declaration upwards: `Upwards` is the induction over the tree of groups
  (from `InsideAssumption`: it is finite and everything is inside MAIN),
  `UpRecursion` shows that the recursion it speaks of exists, and the invariant
  `TargetsInv` follows the targets through the loading, the overrides of `-n` and `-x`
  and the calls: a group not entered yet has its declaration only, one entered has what
  the one around it had at that time (`TargetsRead`, `Nested`); after a call, what is
  saved for the next one is what was declared less what the calls took (`TargetsLeft`,
  `GoneAfter`).
  `ScopeExact` compares the entities that a call reaches with the closure of what was
  asked under the declared dependencies. The exploration of the code is a recursion
  over the graph with a set of entities seen; `ExplorerIs` and `ExploredIs` show that it
  returns the least set closed under the edges (`ReachIs`): were something reached and missed,
  the largest set of entities for which this fails would contradict its own step. From
  `GraphAsStated` the edges are the declared ones and those of the gates (`AsLoaded`),
  which calls that cut and restore MAIN's gates keep (`Kept`), and `ScopeInv` says at
  each statement of the call which of them are there. Its hypotheses are
  `GatesUnnamed` and `MainUnnamed`, that nobody declares a dependency on the root:
  one that does would have MAIN, hence everything, in the scope of any call. The
  assumptions on the values that stand for `None` and for an error say that these
  are different from the services and targets that they are compared with
  (`NoneAssumption`).
* `CommandLine_proofs`: `RetcodeIsHonest`. The invariant says, for each
  statement of `execute`, which of the exception, the outcome and the exit code is
  set there; Control-C may come between any two. `RunsAsAskedHolds`,
  `NodesAsAskedHolds` and `OptionsPrevailHolds` are about command lines of any
  length: `ParsingIs` shows that the recursion over the options defines their
  values, `ParsedAsAsked` that after any number of them the values are those asked
  for (both by the first number of options for which it would fail, `LeastNatural`),
  and `ConfigFields` what the file and the defaults leave of them. The state invariant
  `RInv` adds that the call is reached only through a configuration that was read and,
  if it must be, confirmed.

Only model-checked: the theorems of `Order_proofs` and `Waiting_proofs` for actions with
checks, where `NothingLeftWaiting` is false in general (`check_stuck`), and
`NoFailedNodeTargeted` for them. Out of reach altogether: `Terminates` and `Returns`,
liveness under fairness.

## 7. Findings

1. `status_action`: a status that fails triggers the action it guards, even when only
   the status was asked for (`Engine/Action.py:395`).
2. `check_stuck`: an action whose check ends SKIPPED or WARNING is neither run nor
   ended; the service stays WAITING_STATUS for ever (`Engine/Action.py:371`).
3. `check_repaired`: the nodes a check failed on are filtered from the dependents although
   the action repaired them (`Engine/Action.py:397`).
4. `filter_order`: failed nodes reach the dependents one by one, between their
   preparations (`Engine/Service.py:175`).
5. `exit_code`: a service in ERROR may leave the exit code at 0 (`UI/Cli.py:608`).
6. `define_target`: `-D` comes too late for a target written with a variable of
   the files, which was resolved when they were read (`Engine/BaseEntity.py:352`).

Seen while modelling, without a run of their own:

* The docstring of `reset` is "Reset values of attributes in order to perform multiple
  exec." (`Engine/BaseEntity.py:357`, `Engine/Service.py:104`), but the nodes that failures
  take from a target during a call stay lost to the next calls of that action
  (`Engine/Action.py:367` changes what `Engine/BaseEntity.py:778` saved): the model does
  the same, and `TargetsAsAsked` says so.
* `summary: False` is an entry of milkcheck.conf in `doc/milkcheck.asciidoc:103`, and
  `conf/milkcheck.conf:10` says "Use 'default' for compat with summary: True"; the
  code accepts the entry and never looks at it (`config.py:96` looks at the options,
  none of which has this name). The model does the same, and `OptionsPrevail` leaves
  out the report of such a file.
* Control-C in a handler of `execute`, before `quit`, leaves the thread polling an open
  pipe: as it is not a daemon, the process stays until the terminal closes
  (`UI/Cli.py:564-591`). `Returns` is about a thread that was told to quit.

The hazards of `PROJECT.json` that no property covers say why.

## 8. Not modelled

Variables beyond one V, their evaluation by a shell, and the inheritance of
properties other than the target and the tags (text, or values the engine takes
as they are once inherited); the merge of the YAML files of a directory
(`load_from_dir`, `_merge_flow`), whose result is a constant; the files read again by a
later call of the same manager (`ServiceManager.py:94-96` reads them whenever the
configuration has a `config_dir`, and makes new entities): the later calls of the model
have none; the layout of the
console and of the summary; `SystemExit` of `-h` and `--version`; a second
`execute` of one `CommandLine`; packaging; `add_inter_dep` and
`remove_inter_dep` (tests only); ClusterShell itself beyond the contract above.
Dry run and debug options do not change what is modelled. Simulated services
(source, sink) notify nothing: no property depends on it. A cycle of dependencies
makes `prepare` recurse without end: the instances are acyclic.

## 9. Plan

Written in this order: the manager and the evaluation of dependencies, the engine
over both and its instances, the abstract scheduler and its refinement, the
loader and the manager, the command line and its thread, the proofs from the
leaves up. What is left:

1. `Order_proofs` with checks: an action with a check is under way before it has a
   command, so that `AboutToRun` must speak of a set of actions.
2. `ExitCodeJustifiedHolds` with dependencies of kind `check` between services.
