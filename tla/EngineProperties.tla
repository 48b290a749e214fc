--------------------------- MODULE EngineProperties ---------------------------
(* What a call of the engine promises. *)
EXTENDS Engine

TypeOK ==
  /\ ConfigOK(conf)
  /\ status \in [Svc -> Status]
  /\ tagged \subseteq Svc
  /\ last_action \in [Svc -> {None} \cup Name]
  /\ \A s \in tagged : last_action[s] # None
  /\ failed_nodes \in [Svc -> SUBSET Node]
  /\ act_status \in [Action -> Status]
  /\ act_failed \in [Action -> SUBSET Node]
  /\ target \in [Action -> {None} \cup SUBSET Node]
  /\ tries \in [Action -> Nat]
  /\ worker \in [Action -> SUBSET Node]
  /\ completed \in [Action -> Nat]
  /\ ManagerType(manager)
  /\ workers \in [Action -> Nat]
  /\ timers \in [Action -> Nat]
  /\ stack \in Seq(Frame)
  /\ retcode \in {None, RC_OK, RC_WARNING, RC_ERROR}

\* The command of the action was fired, or is about to be when a timer ends.
Launched(a) == tries[a] > 0 \/ timers[a] > 0

\* The entities whose dependencies hold a service back: itself and its groups.
Held(s) == {s} \cup {g \in Group \ {MAIN} : s \in Inner[g]}

\* An action is WAITING as long as it has one command or one timer in flight,
\* and never has two: neither the retries (ev_close), nor the end of a delay
\* (ev_timer), nor the two ways to reach an action (its service, its checks)
\* fire it twice.
OneFlight ==
  \A a \in Action :
    workers[a] + timers[a] = (IF act_status[a] = WAITING_STATUS THEN 1 ELSE 0)

\* The manager knows the tasks in flight, no other, and keeps its fanout and
\* its counter right, through delays and retries.
ManagerInStep ==
  /\ ManagerOK(manager)
  /\ RunningTasks(manager) = {a \in Action : workers[a] + timers[a] > 0}

\* A service runs a command only when all that it, or a group around it,
\* depends on came to an end, and no strong dependency failed; and these ends
\* stay true for as long as the call lasts.
OrderRespected ==
  \A a \in Action : Launched(a) =>
    \A s \in Held(a[1]) : \A t \in DOMAIN Deps(s) :
      /\ Final(status[t])
      /\ IsStrong(Deps(s)[t]) => ~Failed(status[t])

\* A service that reached a final status keeps it until the call ends: the
\* dependents that were triggered on it were right to start.
FinalStatusStable ==
  [][\A s \in Svc : Final(status[s]) => status'[s] = status[s]]_status

\* An action fails or warns only after all its retries, and once a try
\* succeeds there are no more.
RetriesExhausted ==
  \A a \in Action :
    /\ tries[a] <= conf.maxretry[a] + 1
    /\ act_status[a] \in {ERROR, TIMEOUT, WARNING} =>
         tries[a] = conf.maxretry[a] + 1
    /\ Final(act_status[a]) /\ worker[a] # {} => tries[a] = conf.maxretry[a] + 1

\* A command never runs on a node where the last command of a service that its
\* own service depends on, other than by a weak requirement, failed; and it
\* never runs with no node left.
NoFailedNodeTargeted ==
  \A a \in Action : Launched(a) /\ target[a] # None =>
    /\ target[a] # {}
    /\ \A t \in DOMAIN Deps(a[1]) : Filters(Deps(a[1])[t]) =>
         \A b \in Action : b[1] \in Leaves(t) => target[a] \cap worker[b] = {}

\* When the master task has nothing left to do, every service that was asked
\* for has its final status: none is forgotten in front of dependencies that
\* are over, none waits for an action that will never end.
NothingLeftWaiting ==
  retcode # None =>
    \A s \in Svc : Final(status[s]) \/ (status[s] = NO_STATUS /\ s \notin tagged)

\* DEP_ERROR comes from a strong dependency that failed (inside a group, from a
\* subservice that ends it), and conversely a failure stops the dependents
\* that had something to run.
DepErrorJustified ==
  \A s \in Svc :
    LET causes(e) == {t \in DOMAIN Deps(e) : IsStrong(Deps(e)[t]) /\ Failed(status[t])}
    IN  /\ status[s] = DEP_ERROR =>
             causes(s) # {} \/ (s \in Group /\ causes(Gate(s)) # {})
        /\ Final(status[s]) /\ causes(s) # {} =>
             status[s] \in {DEP_ERROR, MISSING, SKIPPED, LOCKED}

\* The exit code is an error when a service that ends the graph failed, and it is
\* not a plain success when a service of MAIN ended with a warning.
ExitCodeJustified ==
  /\ retcode # None /\ (\E s \in DOMAIN Deps(Gate(MAIN)) : Failed(status[s])) =>
       retcode = RC_ERROR
  /\ retcode = RC_OK => \A s \in Sub[MAIN] : status[s] # WARNING

\* Nothing fails by itself: however far from it a service or a group is in error,
\* or the call as a whole, a command failed or timed out, and its action says so
\* until the end.
FailuresHaveCommand ==
  retcode = RC_ERROR \/ (\E s \in Svc : Failed(status[s])) =>
    \E a \in Action : act_status[a] \in {ERROR, TIMEOUT}

\* An action is reported complete once at most: the summary counts it once.
CompletedOnce ==
  \A a \in Action : completed[a] = (IF Final(act_status[a]) THEN 1 ELSE 0)

\* The call comes to an end, whatever the graph and the results.
Terminates == <>(retcode # None)
-------------------------------------------------------------------------------
\* The state of the call as Scheduler sees it.
OutcomeOf(st) ==
  CASE st = NO_STATUS -> "idle"
    [] st = WAITING_STATUS -> "running"
    [] st \in {DONE, WARNING} -> "passed"
    [] Failed(st) -> "failed"
    [] st \in {LOCKED, SKIPPED, MISSING} -> "void"

Strong(deps) == [t \in DOMAIN deps |-> IsStrong(deps[t])]

Abstract == INSTANCE Scheduler WITH
  requires <- [s \in Svc |-> Strong(Deps(s))],
  inside   <- [s \in Svc |-> IF s \in Group THEN Strong(Deps(Gate(s)))
                             ELSE [t \in {} |-> FALSE]],
  outcome  <- [s \in Svc |-> OutcomeOf(status[s])],
  over     <- retcode # None

\* The engine implements Scheduler: each service or group runs once at most,
\* when what it depends on allows it, fails without running only if a strong
\* dependency failed, and a group passes when its subservices are over; the call
\* returns when nothing runs, and nothing moves after it returned.
Implements == Abstract!Spec
-------------------------------------------------------------------------------
(* What some theorems assume of the configurations. *)

\* No action has a check.
NoChecks == \A c \in Configs : \A a \in Action : c.check[a] = {}

DepsOf(c, s) == IF c.reversed THEN c.children[s] ELSE c.parents[s]
GateOf(c, g) == IF c.reversed THEN Sink[g] ELSE Source[g]

\* What is inside a group: its subservices, and the gates that lead to them.
Region(c, g) ==
  Inner[g] \cup {GateOf(c, h) : h \in {g} \cup (Inner[g] \cap Group)}

\* A group is entered through its gate only: what depends on something inside is
\* inside, and the gate of another group is inside with its group.
NestedIn(c, g) ==
  /\ \A s \in Svc : DOMAIN DepsOf(c, s) \cap Region(c, g) # {} => s \in Region(c, g)
  /\ \A h \in Group \ {g} : GateOf(c, h) \in Region(c, g) => h \in Region(c, g)

AllNested == \A c \in Configs : \A g \in Group \ {MAIN} : NestedIn(c, g)

\* The ends of every edge know each other, MAIN is at the end of none.
DependentsOf(c, s) == IF c.reversed THEN c.parents[s] ELSE c.children[s]

TwoWay(c) ==
  \A s \in Svc : \A t \in DOMAIN DepsOf(c, s) :
    t # MAIN /\ s \in DOMAIN DependentsOf(c, t)

\* A gate leads into its group, and back to it: it is not locked.
GatesOpen(c) ==
  \A g \in Group :
    /\ DOMAIN DepsOf(c, GateOf(c, g)) \subseteq Sub[g]
    /\ g \in DOMAIN DependentsOf(c, GateOf(c, g))
    /\ GateOf(c, g) \notin c.locked

\* What must be over before `s' is: no entity waits for itself.
Needs(c, s) ==
  DOMAIN DepsOf(c, s) \cup {GateOf(c, g) : g \in Group \cap {s}}

Acyclic(c) == \A S \in SUBSET Svc : S # {} => \E s \in S : Needs(c, s) \cap S = {}

\* The graph can be walked from MAIN to its ends, and back.
Walkable(c) == TwoWay(c) /\ GatesOpen(c) /\ Acyclic(c) /\ NestedIn(c, MAIN)

AllWalkable == \A c \in Configs : Walkable(c)

\* The subservices of the groups form a tree, and every gate has one group.
Tree ==
  \A g \in Group :
    /\ \A h \in Group \cap Inner[g] : Sub[h] \subseteq Inner[g]
    /\ \A h \in Group : Sub[h] \cap Inner[g] # {} => h \in {g} \cup Inner[g]
    /\ \A h \in Group : Source[h] # Sink[g]
    /\ \A h \in Group \ {g} : Source[h] # Source[g] /\ Sink[h] # Sink[g]

\* Dependencies are declared between subservices of the same group.
BetweenSiblings(require) ==
  \A s \in Svc : \A t \in DOMAIN require[s] : \E g \in Group : {s, t} \subseteq Sub[g]

\* What ends the call is asked for the action of the command line, and for no other:
\* there are entities, MAIN and down from it, that nothing else depends on.
AskedOnce(c, E) ==
  /\ MAIN \in E
  /\ \A g \in Group \cap E :
       {GateOf(c, g)} \cup DOMAIN DepsOf(c, GateOf(c, g)) \subseteq E
  /\ \A g \in Group : GateOf(c, g) \in E => g \in E
  /\ \A s \in Svc : \A t \in E \cap DOMAIN DepsOf(c, s) :
       s \in E /\ ~IsCheck(DepsOf(c, s)[t])

EndsAsked == \A c \in Configs : \E E \in SUBSET Svc : AskedOnce(c, E)

\* MAIN is not locked, and requires what ends it.
RequiresEnds(c) ==
  LET ends == DepsOf(c, GateOf(c, MAIN))
  IN  \A t \in DOMAIN ends : IsStrong(ends[t])

MainRequires == \A c \in Configs : MAIN \notin c.locked /\ RequiresEnds(c)

\* What comes after `t', however far, and the services after which the only groups are
\* those around them.
After(c, t) ==
  {u \in Svc : \A X \in SUBSET Svc :
     (\A v \in X \cup {t} : DOMAIN DependentsOf(c, v) \subseteq X) => u \in X}

Outward(c, t) ==
  \A u \in After(c, t) \cup {t} : \A g \in Group \cap DOMAIN DependentsOf(c, u) :
    u = GateOf(c, g)

\* What a service filters on is a service, and waits for no other path: nothing that
\* comes after one comes before the other.
FiltersOnOneWay(c) ==
  \A s \in Svc : \A t \in DOMAIN DepsOf(c, s) :
    /\ s \in DOMAIN DependentsOf(c, t) /\ DependentsOf(c, t)[s] = DepsOf(c, s)[t]
    /\ s \in Plain /\ Filters(DepsOf(c, s)[t]) =>
         /\ t \notin Group
         /\ t \in Plain => /\ Outward(c, t)
                           /\ \A u \in After(c, t) : s \notin DOMAIN DependentsOf(c, u)

\* The local node is not the target of any action.
NotByName(c) ==
  \A a \in Action : c.target[a] # None => LOCALHOST \notin c.target[a]

AllOnOneWay == \A c \in Configs : FiltersOnOneWay(c) /\ NotByName(c)
===============================================================================
