------------------------------- MODULE MCGroup --------------------------------
(* A service d beside a group G that holds a service x and a group K of one  *)
(* service k; d and G may depend on each other, and so may x and K.  The     *)
(* commands of d and x are local, those of k run on a node.                  *)
EXTENDS EngineProperties

Services == {"d", "x", "k"}
GroupSvc == Services \cup {"MAIN", "G", "K", "source", "sink",
                           "G.source", "G.sink", "K.source", "K.sink"}
GroupGroup == {"MAIN", "G", "K"}
GroupSub == [MAIN |-> {"d", "G"}, G |-> {"x", "K"}, K |-> {"k"}]
GroupInner == [MAIN |-> {"d", "G", "x", "K", "k"}, G |-> {"x", "K", "k"}, K |-> {"k"}]
GroupSource == [MAIN |-> "source", G |-> "G.source", K |-> "K.source"]
GroupSink == [MAIN |-> "sink", G |-> "G.sink", K |-> "K.sink"]
GroupAction == Services \X {"start", "status"}
GroupFanout == [t \in GroupAction |-> IF t[1] = "x" THEN 1 ELSE 0]

\* How two entities depend on each other: the dependent, and the strength.
Edges(s, t) == {[from |-> f, type |-> type] : f \in {s, t}, type \in Strength}
                 \cup {[from |-> "none", type |-> REQUIRE]}

Require(outer, inner) ==
  [s \in GroupSvc |->
     [t \in {u \in GroupSvc : \/ {s, u} = {"d", "G"} /\ s = outer.from
                              \/ {s, u} = {"x", "K"} /\ s = inner.from}
        |-> IF s \in {"d", "G"} THEN outer.type ELSE inner.type]]

\* MAIN is linked and bound first, then G, then K.
Linked == [MAIN |-> {"MAIN"}, G |-> {"MAIN", "G"}, K |-> {"MAIN", "G", "K"}]

Graphs ==
  {[parents  |-> Parents(Require(o, i), Linked, r),
    children |-> Children(Require(o, i), Linked, r),
    reversed |-> r] : o \in Edges("d", "G"), i \in Edges("x", "K"), r \in BOOLEAN}

Config(graph, locked, lacking, skipped) ==
  [parents  |-> graph.parents,
   children |-> graph.children,
   actions  |-> [s \in GroupSvc |->
                   IF s \notin Services THEN {}
                   ELSE IF s \in lacking THEN {"status"} ELSE {"start", "status"}],
   check    |-> [a \in GroupAction |-> {}],
   target   |-> [a \in GroupAction |-> IF a[1] \in skipped THEN {}
                                      ELSE IF a[1] = "k" THEN {"n1"} ELSE None],
   delegate |-> {},
   errors   |-> [a \in GroupAction |-> 0],
   warnings |-> [a \in GroupAction |-> 0],
   maxretry |-> [a \in GroupAction |-> 0],
   delayed  |-> {},
   locked   |-> locked,
   reversed |-> graph.reversed,
   request  |-> "start"]

\* -X G; actions missing in one or both services of G; tags or nodes that skip
\* one service, or the whole group.
GroupConfigs ==
  {Config(g, x.locked, x.lacking, x.skipped) : g \in Graphs,
     x \in {[locked |-> {},    lacking |-> {},         skipped |-> {}],
            [locked |-> {"G"}, lacking |-> {},         skipped |-> {}],
            [locked |-> {},    lacking |-> {"x"},      skipped |-> {}],
            [locked |-> {},    lacking |-> {"x", "k"}, skipped |-> {}],
            [locked |-> {},    lacking |-> {},         skipped |-> {"k", "d"}],
            [locked |-> {},    lacking |-> {"x"},      skipped |-> {"k"}]}}

\* The hypotheses of the theorems of Order_proofs and Waiting_proofs
\* hold for these groups.
ASSUME GroupHypotheses == NoChecks /\ AllNested /\ AllWalkable /\ EndsAsked /\ MainRequires

ASSUME GroupTree ==
  /\ Tree
  /\ \A o \in Edges("d", "G"), i \in Edges("x", "K") : BetweenSiblings(Require(o, i))
===============================================================================
