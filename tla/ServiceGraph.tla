----------------------------- MODULE ServiceGraph -----------------------------
(***************************************************************************)
(* The dependency graph that ServiceGroup.fromdict builds from YAML        *)
(* (lib/MilkCheck/Engine/ServiceGroup.py): the dependencies that were      *)
(* declared, and the binding of every group's source and sink to the       *)
(* subservices nothing depends on, or that depend on nothing.              *)
(***************************************************************************)
EXTENDS BaseEntity

CONSTANTS
  Svc,        \* services, groups, and the source and sink of every group
  Group,      \* the groups
  MAIN,       \* the ServiceManager, root of all services
  Sub,        \* direct subservices of each group
  Inner,      \* subservices of each group at any depth
  Source,     \* entry point of each group
  Sink        \* entry point of each group when the algorithm is reversed

\* The services that have actions of their own.
Plain == Svc \ (Group \cup {Source[g] : g \in Group} \cup {Sink[g] : g \in Group})

ASSUME StructureAssumption ==
  /\ MAIN \in Group /\ Group \subseteq Svc
  /\ Sub \in [Group -> SUBSET Svc] /\ Inner \in [Group -> SUBSET (Plain \cup Group)]
  /\ Source \in [Group -> Svc \ Group] /\ Sink \in [Group -> Svc \ Group]
  /\ \A g \in Group : Sub[g] \subseteq Inner[g] /\ MAIN \notin Inner[g]
  /\ \A g \in Group : \A h \in Group \cap Inner[g] : Inner[h] \subseteq Inner[g]

\* A dictionary of dependencies
IsDict(deps) ==
  DOMAIN deps \subseteq Svc /\ \A t \in DOMAIN deps : deps[t] \in Strength

\* Below, require[s] is the dictionary of the dependencies declared for `s',
\* linked[g] the groups whose subservices are linked to their dependencies
\* when `g' binds its own: itself, and those that were loaded before it.
BoundToSink(require, g) == {s \in Sub[g] : DOMAIN require[s] = {}}

BoundToSource(require, linked, g) ==
  {s \in Sub[g] :
     \A h \in linked[g] : \A c \in Sub[h] : s \notin DOMAIN require[c]}

\* The strength given to add_dep, REQUIRE when it is given none.
DeclaredStrength(require, c, p) ==
  IF p \in DOMAIN require[c] THEN require[c][p] ELSE REQUIRE

\* Only one of the ends of the edge between a group and its gate is kept, and
\* set_algo_reversed moves it from the source to the sink.
Parents(require, linked, reversed) ==
  [s \in Svc |->
     [p \in DOMAIN require[s]
            \cup {Sink[g] : g \in {h \in Group : s \in BoundToSink(require, h)}}
            \cup (UNION {BoundToSource(require, linked, g) :
                           g \in {h \in Group : s = Source[h]}})
            \cup {g \in Group : reversed /\ s = Sink[g]}
        |-> DeclaredStrength(require, s, p)]]

Children(require, linked, reversed) ==
  [s \in Svc |->
     [c \in {t \in Svc : s \in DOMAIN require[t]}
            \cup {Source[g] :
                    g \in {h \in Group : s \in BoundToSource(require, linked, h)}}
            \cup (UNION {BoundToSink(require, g) :
                           g \in {h \in Group : s = Sink[h]}})
            \cup {g \in Group : ~reversed /\ s = Source[g]}
        |-> DeclaredStrength(require, c, s)]]
===============================================================================
