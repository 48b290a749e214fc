-------------------------------- MODULE MCFlat --------------------------------
(* Services of MAIN only, every dependency graph over three of them. *)
EXTENDS EngineProperties

FlatSvc == {"MAIN", "source", "sink", "a", "b", "c"}
FlatSub == [g \in {"MAIN"} |-> {"a", "b", "c"}]
FlatSource == [g \in {"MAIN"} |-> "source"]
FlatSink == [g \in {"MAIN"} |-> "sink"]
FlatAction == {"a", "b", "c"} \X {"start", "status"}
FlatFanout == [t \in FlatAction |-> IF t[1] = "a" THEN 1 ELSE 0]

\* b may depend on a, c on a and on b
Dicts(names) == UNION {[T -> Strength] : T \in SUBSET names}
Declared == [a : Dicts({}), b : Dicts({"a"}), c : Dicts({"a", "b"})]

NoDep == [t \in {} |-> REQUIRE]
Require(d) == [s \in FlatSvc |-> IF s \in {"a", "b", "c"} THEN d[s] ELSE NoDep]

Linked == [g \in {"MAIN"} |-> {"MAIN"}]

Graphs(reversed) ==
  {[parents  |-> Parents(Require(d), Linked, reversed),
    children |-> Children(Require(d), Linked, reversed),
    reversed |-> reversed] : d \in Declared}

Config(graph, locked, lacking, where) ==
  [parents  |-> graph.parents,
   children |-> graph.children,
   actions  |-> [s \in FlatSvc |->
                   IF s \notin {"a", "b", "c"} THEN {}
                   ELSE IF s \in lacking THEN {"status"}
                   ELSE {"start", "status"}],
   check    |-> [a \in FlatAction |-> {}],
   target   |-> [a \in FlatAction |-> where],
   delegate |-> {},
   errors   |-> [a \in FlatAction |-> 0],
   warnings |-> [a \in FlatAction |-> 0],
   maxretry |-> [a \in FlatAction |-> 0],
   delayed  |-> {},
   locked   |-> locked,
   reversed |-> graph.reversed,
   request  |-> "start"]

\* Every graph both ways with local commands, which no failed node keeps from
\* running; in one direction, with -X a, with an action missing in b, on a node,
\* and with nothing to run.
FlatConfigs ==
  {Config(g, {}, {}, None) : g \in Graphs(FALSE) \cup Graphs(TRUE)}
  \cup
  {Config(g, x.locked, x.lacking, x.where) : g \in Graphs(FALSE),
     x \in {[locked |-> {"a"}, lacking |-> {},              where |-> None],
            [locked |-> {},    lacking |-> {"b"},           where |-> None],
            [locked |-> {},    lacking |-> {},              where |-> {"n1"}],
            [locked |-> {},    lacking |-> {"a", "b", "c"}, where |-> {"n1"}]}}

\* The hypotheses of the theorems of Order_proofs and Waiting_proofs
\* hold for these graphs.
ASSUME FlatHypotheses == NoChecks /\ AllNested /\ AllWalkable /\ EndsAsked /\ MainRequires
===============================================================================
