---------------------------- MODULE ServiceManager ----------------------------
(***************************************************************************)
(* call_services (lib/MilkCheck/ServiceManager.py), once or several times  *)
(* on one manager: reset, load, apply the options, choose the direction,   *)
(* resolve the variables, select the services, cut the dependencies, run.  *)
(* The run itself is Engine: here it is only recorded, with what it is run *)
(* on.  The graph and the targets of a call are what the one before left.  *)
(***************************************************************************)
EXTENDS Loader

CONSTANTS
  Calls,      \* the calls to choose from, see CallOK
  MaxCalls    \* bound on the number of calls

CallOK(c) ==
  /\ c.services \subseteq STRING                 \* services named, {} for all
  /\ c.reversed \in BOOLEAN                      \* is it a reverse action?
  /\ c.nodeps \in BOOLEAN
  /\ c.excluded \subseteq STRING                 \* -X
  /\ c.tags \subseteq STRING                     \* -t
  /\ c.only \in {None} \cup SUBSET Node          \* -n
  /\ c.without \in {None} \cup SUBSET Node       \* -x
  /\ c.define \in {None} \cup SUBSET Node        \* -D V=...

ASSUME FileAssumption == \A file \in Files : FileOK(file)
ASSUME CallAssumption == \A c \in Calls : CallOK(c)
ASSUME MaxCallsAssumption == MaxCalls \in Nat

VARIABLES
  pc,         \* the next statement of call_services
  call,       \* its arguments
  locked,     \* the services that were excluded
  reversed,   \* _algo_reversed, of all the entities
  backup,     \* _target_backup
  command,    \* VAR, or what V was when the commands were resolved
  runs        \* the calls that ran, with what they ran on

vars == <<loaderVars, pc, call, locked, reversed, backup, command, runs>>

Init ==
  /\ LoaderInit
  /\ pc = "idle"
  /\ call = CHOOSE c \in Calls : TRUE
  /\ locked = {}
  /\ reversed = FALSE
  /\ backup = [s \in Svc |-> None]
  /\ command = VAR
  /\ runs = <<>>
-------------------------------------------------------------------------------
At(here, next) == pc = here /\ failure = None /\ pc' = next

\* Slip: reset leaves the direction, hence the half edges, as they were.
ResetForward(c) ==
  /\ At("idle", IF runs = <<>> THEN "load" ELSE "apply") /\ Len(runs) < MaxCalls
  /\ call' = c
  /\ locked' = {}
  /\ target' = backup
  /\ graph' = graph
  /\ reversed' = FALSE
  /\ var' = None
  /\ UNCHANGED <<yaml, loading, failure, declared, bound, backup, command, runs>>

\* reset, and variables.clear().  The first call reads the files, and the others
\* have no config_dir: a manager that reads them again makes new entities.
Reset(c) ==
  /\ At("idle", IF runs = <<>> THEN "load" ELSE "apply") /\ Len(runs) < MaxCalls
  /\ call' = c
  /\ locked' = {}
  /\ target' = backup
  /\ graph' = AlgoReversed(graph, reversed, FALSE)
  /\ reversed' = FALSE
  /\ var' = None
  /\ UNCHANGED <<yaml, loading, failure, declared, bound, backup, command, runs>>

managerVars == <<call, locked, reversed, command, runs>>

Load ==
  /\ At("load", "loading") /\ StartLoading
  /\ UNCHANGED <<managerVars, backup>>

Loaded ==
  /\ pc = "loading" /\ LoadStep
  /\ pc' = IF loading' = <<>> THEN "apply" ELSE pc
  /\ UNCHANGED <<managerVars, backup>>

\* Tags are inherited like targets, and looked at for the top services only.
Inherited(s) ==
  LET grps == {g \in Group : s \in Inner[g]}
      near == {g \in grps : yaml.tags[g] # {} /\
                 ~\E h \in grps : h \in Inner[g] /\ yaml.tags[h] # {}}
  IN  IF yaml.tags[s] # {} THEN yaml.tags[s]
      ELSE UNION {yaml.tags[g] : g \in near}

Skipped(c) ==
  IF c.tags = {} THEN {}
  ELSE UNION {Inner[s] \cup {s} :
                s \in {t \in Sub[MAIN] \cap Group : Inherited(t) \cap c.tags = {}}}
       \cup {s \in Sub[MAIN] \ Group : Inherited(s) \cap c.tags = {}}

\* update_target for all the entities: an empty or absent target stays as it is.
Restricted(c, nodes) ==
  IF nodes = None THEN None
  ELSE IF c.only # None THEN nodes \cap c.only
  ELSE IF c.without # None THEN nodes \ c.without
  ELSE nodes

Excluded(c) == {s \in Sub[MAIN] : Label[s] \in c.excluded}

\* _apply_config: -X, then -t, then -n or else -x.
ApplyConfig ==
  /\ At("apply", "reverse")
  /\ locked' = Excluded(call)
  /\ target' = [s \in Svc |-> IF s \in Skipped(call) \cap Plain THEN {}
                              ELSE Restricted(call, target[s])]
  /\ UNCHANGED <<yaml, graph, var, loading, failure, declared, bound, call,
                 reversed, backup, command, runs>>

SetReversed ==
  /\ At("reverse", "variables")
  /\ reversed' = call.reversed
  /\ graph' = AlgoReversed(graph, reversed, call.reversed)
  /\ UNCHANGED <<yaml, target, var, loading, failure, declared, bound, call,
                 locked, backup, command, runs>>

\* Slip: add_var fails on a variable of the files, which is kept.
VariableConfigKeeping ==
  /\ At("variables", "resolve")
  /\ var' = IF var = None THEN call.define ELSE var
  /\ UNCHANGED <<yaml, graph, target, loading, failure, declared, bound, call,
                 locked, reversed, backup, command, runs>>

\* -D, over what the files say.
VariableConfig ==
  /\ At("variables", "resolve")
  /\ var' = IF call.define # None THEN call.define ELSE var
  /\ UNCHANGED <<yaml, graph, target, loading, failure, declared, bound, call,
                 locked, reversed, backup, command, runs>>

\* resolve_all: the target of this call is also the one of the next ones, as
\* _target_backup is not a copy (see Run).
ResolveAll ==
  /\ At("resolve", "select")
  /\ failure' = IF yaml.cmd /\ command = VAR /\ var = None
                THEN "UndefinedVariableError" ELSE failure
  /\ command' = IF command = VAR THEN var ELSE command
  /\ backup' = target
  /\ UNCHANGED <<yaml, graph, target, var, loading, declared, bound, call, locked,
                 reversed, runs>>

Spot == IF reversed THEN Sink[MAIN] ELSE Source[MAIN]
Side == IF reversed THEN "children" ELSE "parents"

Others(g, names) == DOMAIN g[Side][Spot] \ names

Select(g, names) ==
  AddDeps(RemoveDeps(g, {Spot}, Others(g, names), Side), Spot,
          {s \in Sub[MAIN] : Label[s] \in names \ DOMAIN g[Side][Spot]}, REQUIRE, Side)

SelectServices ==
  /\ At("select", "nodeps")
  /\ LET known == call.services \subseteq {Label[s] : s \in Sub[MAIN]}
         found == CanRemoveDeps(graph, {Spot}, Others(graph, call.services), Side)
     IN  IF known /\ (call.services = {} \/ found)
         THEN /\ graph' = IF call.services = {} THEN graph ELSE Select(graph, call.services)
              /\ UNCHANGED failure
         ELSE /\ failure' = IF known THEN "KeyError" ELSE "ServiceNotFoundError"
              /\ UNCHANGED graph
  /\ UNCHANGED <<yaml, target, var, loading, declared, bound, call, locked,
                 reversed, backup, command, runs>>

\* clear_parent_deps or clear_child_deps of the services to start from
DisableDeps ==
  /\ At("nodeps", "run")
  /\ LET entries == Targets(graph[Side][Spot])
         all     == {Label[s] : s \in Svc}
     IN  IF ~call.nodeps THEN UNCHANGED <<graph, failure>>
         ELSE IF CanRemoveDeps(graph, entries, all, Side)
         THEN graph' = RemoveDeps(graph, entries, all, Side) /\ UNCHANGED failure
         ELSE failure' = "KeyError" /\ UNCHANGED graph
  /\ UNCHANGED <<yaml, target, var, loading, declared, bound, call, locked,
                 reversed, backup, command, runs>>

\* What prepare can reach: the dependencies, and the inside of the groups; an
\* excluded service is over already.
DepsIn(g, s) ==
  Targets(g[Side][s]) \cup (IF s \in Group THEN {IF reversed THEN Sink[s] ELSE Source[s]}
                            ELSE {})

Reach(g, start) ==
  LET Further[from \in SUBSET Svc] ==
        LET more == (UNION {DepsIn(g, s) : s \in from}) \ (from \cup locked)
        IN  IF more = {} THEN from ELSE Further[from \cup more]
  IN  Further[start]

\* Who hands s the nodes they failed on (filter_nodes) before it runs: the dependencies
\* of s and of the groups around it, but the weak ones; those of a group come to its gate.
Feeds(g, s) ==
  LET around  == {s} \cup {h \in Group : s \in Inner[h]}
      entries == UNION {{g[Side][u][k] : k \in DOMAIN g[Side][u]} : u \in around}
  IN  {e.target : e \in {f \in entries : Filters(f.type)}}
      \cup (IF s \in Group THEN {IF reversed THEN Sink[s] ELSE Source[s]} ELSE {})

Feeding(g, s) ==
  LET Further[from \in SUBSET Svc] ==
        LET more == (UNION {Feeds(g, t) : t \in from}) \ (from \cup locked)
        IN  IF more = {} THEN from ELSE Further[from \cup more]
  IN  Further[{s}] \ {s}

\* The services of a run, each with a node that failures may take from its target.
Filterable(reached) ==
  {p \in (Plain \cap reached) \X Node :
     \E t \in Feeding(graph, p[1]) \cap Plain \cap reached :
       \A s \in {p[1], t} : target[s] # None /\ p[2] \in target[s]}

Less(targets, filtered) ==
  [s \in Svc |-> IF targets[s] = None THEN None ELSE targets[s] \ {n \in Node : <<s, n>> \in filtered}]

\* Action.prepare takes the nodes from its target in place, and resolve_all left the
\* same NodeSet as _target_backup.  The calls run one action of each service, in
\* either direction: another action would keep its own nodes.
Run ==
  /\ At("run", "idle")
  /\ LET reached == Reach(graph, {MAIN})
     IN  \E filtered \in SUBSET Filterable(reached) :
           /\ target' = Less(target, filtered) /\ backup' = Less(backup, filtered)
           /\ runs' = Append(runs, [call |-> call, target |-> target, command |-> command,
                                    filtered |-> filtered,
                                    reached |-> reached \cap (Plain \cup Group)])
  /\ UNCHANGED <<yaml, graph, var, loading, failure, declared, bound, call, locked,
                 reversed, command>>

Step ==
  \/ \E c \in Calls : Reset(c)
  \/ Load \/ Loaded \/ ApplyConfig \/ SetReversed \/ VariableConfig
  \/ ResolveAll \/ SelectServices \/ DisableDeps \/ Run

Stopped ==
  /\ failure # None \/ Len(runs) = MaxCalls
  /\ UNCHANGED vars

Next == Step \/ Stopped

Spec == Init /\ [][Next]_vars
===============================================================================
