-------------------------------- MODULE Loader --------------------------------
(***************************************************************************)
(* How ServiceGroup.fromdict turns YAML into the graph of services, and    *)
(* the methods of BaseEntity and ServiceGroup that edit this graph.        *)
(*                                                                         *)
(* Here the dictionaries `parents' and `children' are what they are in the *)
(* code: keyed by the short name of an entity, which is unique within its  *)
(* group only.  The order of a dictionary, the one of YAML, is left open.  *)
(***************************************************************************)
EXTENDS ServiceGraph, Sequences, FiniteSets

CONSTANTS
  Label,      \* short name of each entity
  None,       \* Python's None
  Node,       \* nodes
  VAR,        \* a target written `%V', with V a variable
  Files       \* what YAML may say, see FileOK

\* A name is a sequence of labels: <<"g", "s">> is written g.s
Properties == {"require", "require_weak", "require_filter", "filter",
               "before", "after", "check"}

FileOK(file) ==
  /\ file.deps \in [Svc -> SUBSET (Properties \X Seq(STRING))]
  /\ file.target \in [Svc -> {None, VAR} \cup SUBSET Node]
  /\ file.target[MAIN] # VAR
  /\ file.tags \in [Svc -> SUBSET STRING]
  /\ file.var \in {None} \cup SUBSET Node       \* V, in the variables of MAIN
  /\ file.cmd \in BOOLEAN                       \* do the commands mention V?

ASSUME LabelAssumption == \A s, t \in Svc : \A g \in Group :
  {s, t} \subseteq Sub[g] /\ Label[s] = Label[t] => s = t

\* Each group makes its own gates and its own subservices.
ASSUME TreeAssumption == \A g, h \in Group :
  /\ Source[g] # Sink[h] /\ g \notin Sub[g]
  /\ g # h => Source[g] # Source[h] /\ Sink[g] # Sink[h] /\ Sub[g] \cap Sub[h] = {}

\* What is inside a group is in it or inside one of its groups, and never the
\* group; all is inside MAIN.  Files are finite.
ASSUME InsideAssumption ==
  /\ Inner[MAIN] = (Plain \cup Group) \ {MAIN}
  /\ \A g \in Group : /\ Inner[g] = Sub[g] \cup UNION {Inner[h] : h \in Sub[g] \cap Group}
                      /\ g \notin Inner[g]
  /\ IsFiniteSet(Svc)

ASSUME NoneAssumption ==
  /\ None \notin Svc /\ None # VAR
  /\ None \notin {"KeyError", "UndefinedVariableError", "ServiceNotFoundError"}
  /\ \A nodes \in SUBSET Node : nodes # None /\ nodes # VAR

VARIABLES
  yaml,       \* the files, constant
  graph,      \* the dictionaries of each entity, both sides
  target,     \* of each entity; for a service, of its actions
  var,        \* the value of V for MAIN
  loading,    \* the groups whose fromdict is running, innermost first
  failure,    \* the exception raised, None as long as there is none
  \* history
  declared,   \* the dependencies of each entity, its names looked up
  bound       \* the groups that were linked when each group was bound

loaderVars == <<yaml, graph, target, var, loading, failure, declared, bound>>
-------------------------------------------------------------------------------
(* Edges: side is "parents" or "children" *)

Flip(side) == IF side = "parents" THEN "children" ELSE "parents"

Empty == [k \in {} |-> None]
\* dict[t.name] = Dependency(t, type), for all the entities of a set.
Put(dict, entities, type) ==
  LET names == {Label[t] : t \in entities}
  IN  [k \in DOMAIN dict \cup names |->
         IF k \in names
         THEN [target |-> CHOOSE t \in entities : Label[t] = k, type |-> type]
         ELSE dict[k]]

Drop(dict, names) == [k \in DOMAIN dict \ names |-> dict[k]]

\* Slip: the other end of the edge is left as it is.
AddDepsOneSide(g, s, entities, type, side) ==
  [g EXCEPT ![side][s] = Put(@, entities, type)]

\* add_dep: raises when the name is taken on this side, replaces on the other.
CanAddDep(g, s, t, side) == Label[t] \notin DOMAIN g[side][s]

AddDeps(g, s, entities, type, side) ==
  [g EXCEPT ![side][s] = Put(@, entities, type),
            ![Flip(side)] = [t \in Svc |-> IF t \in entities
                                           THEN Put(@[t], {s}, type) ELSE @[t]]]

Targets(dict) == {dict[k].target : k \in DOMAIN dict}

\* A dictionary by entities instead of names.
ByEntity(dict) ==
  [t \in Targets(dict) |-> dict[CHOOSE k \in DOMAIN dict : dict[k].target = t].type]

\* remove_dep, of all the names given in the dictionaries of some entities.  It
\* raises KeyError when the other end is not there.
Removed(g, s, names, side) ==
  {g[side][s][k].target : k \in DOMAIN g[side][s] \cap names}

CanRemoveDeps(g, entities, names, side) ==
  \A s \in entities : \A t \in Removed(g, s, names, side) :
    Label[s] \in DOMAIN g[Flip(side)][t]

RemoveDeps(g, entities, names, side) ==
  [g EXCEPT ![side] = [s \in Svc |-> IF s \in entities THEN Drop(@[s], names) ELSE @[s]],
            ![Flip(side)] = [t \in Svc |->
              Drop(@[t], {Label[s] : s \in {u \in entities : t \in Removed(g, u, names, side)}})]]

\* The groups whose gate this is.
GroupsOf(gate, s) == {g \in Group : gate[g] = s}

\* __init__ of all the groups: the half edge from the source to its group.
NewGraph ==
  [parents  |-> [s \in Svc |-> Empty],
   children |-> [s \in Svc |-> Put(Empty, GroupsOf(Source, s), REQUIRE)]]

\* set_algo_reversed of all the groups: the half edges move from the gates of
\* one kind to those of the other.
MoveHalfEdges(g, side, gate, otherGate) ==
  [g EXCEPT ![side] = [s \in Svc |-> Drop(@[s], {Label[grp] : grp \in GroupsOf(gate, s)})],
            ![Flip(side)] = [s \in Svc |-> Put(@[s], GroupsOf(otherGate, s), REQUIRE)]]

AlgoReversed(g, from, to) ==
  IF from = to THEN g
  ELSE IF to THEN MoveHalfEdges(g, "children", Source, Sink)
  ELSE MoveHalfEdges(g, "parents", Sink, Source)
-------------------------------------------------------------------------------
(* Names.  A search returns one of a set of entities, or None, according to *)
(* the order of the dictionaries it goes through.                           *)

RootOf(g, s) ==
  LET Up[t \in Svc] ==
        LET above == Targets(g.children[t])
        IN  IF above = {} THEN {None}
            ELSE IF MAIN \in above THEN {MAIN}
            ELSE UNION {Up[u] : u \in above}
  IN  Up[s]

\* The first result that is not None, the alternatives being tried in any order.
FirstOf(results) ==
  ((UNION results) \ {None}) \cup (IF \A r \in results : None \in r THEN {None} ELSE {})

Search(g, entity, path) ==
  LET Find[s \in Svc, name \in Seq(STRING)] ==
        LET Entity(e) ==
              LET deps == g.parents[e]
                  rest == FirstOf({Find[t, name] : t \in Targets(deps)} \cup {{None}})
                  \* from the root: the group, then what it calls so
                  Dotted(root) ==
                    IF root = None THEN rest
                    ELSE UNION {IF grp = None THEN rest ELSE Find[grp, Tail(name)] :
                                  grp \in Find[root, <<Head(name)>>]}
              IN  IF Len(name) = 1 /\ name[1] \in DOMAIN deps
                  THEN {deps[name[1]].target}
                  ELSE IF Len(name) > 1
                  THEN UNION {Dotted(root) : root \in RootOf(g, e)}
                  ELSE rest
            \* a group looks from its source first
            inside == Entity(Source[s])
        IN  IF s \in Group
            THEN (inside \ {None}) \cup (IF None \in inside THEN Entity(s) ELSE {})
            ELSE Entity(s)
  IN  Find[entity, path]

Sibling(grp, name) == {t \in Sub[grp] : name = <<Label[t]>>}

\* What a dependency of a subservice of `grp' is on.
Lookup(g, grp, name) ==
  IF Sibling(grp, name) # {} THEN Sibling(grp, name) ELSE Search(g, grp, name)
-------------------------------------------------------------------------------
(* fromdict *)

\* DepWrapper: `before', `after' and `require_weak' share one entry, which the
\* last one read takes, and so do `require_filter' and `filter', but the other way.
Wrap(file, s) ==
  LET Of(prop) == {d[2] : d \in {e \in file.deps[s] : e[1] = prop}}
      Or(names, others) == IF names # {} THEN names ELSE others
  IN  ({REQUIRE} \X Of("require"))
      \cup ({REQUIRE_WEAK} \X Or(Of("after"), Or(Of("before"), Of("require_weak"))))
      \cup ({CHECK} \X Of("check"))
      \cup ({FILTER} \X Or(Of("require_filter"), Of("filter")))

\* The call of fromdict for `g': dependencies to link, then groups to load.
Frame(g) ==
  [group |-> g, bound |-> FALSE,
   links |-> UNION {{s} \X Wrap(yaml, s) : s \in Sub[g]},
   rest  |-> Sub[g] \cap Group]

Top == Head(loading)
Loading == loading # <<>> /\ failure = None

\* The target, or the one of V, which is looked up when the target is read.
ReadTarget(file, s, value) == IF file.target[s] = VAR THEN value ELSE file.target[s]

\* What BaseEntity.fromdict sets for `g' itself.
Enter(g, value) ==
  /\ failure' = IF yaml.target[g] = VAR /\ value = None
                THEN "UndefinedVariableError" ELSE failure
  /\ target' = [target EXCEPT ![g] = ReadTarget(yaml, g, value)]

Link(s, type, name) ==
  /\ Loading /\ <<s, <<type, name>>>> \in Top.links
  /\ \E t \in Svc \cup {None} :
       /\ t \in Lookup(graph, Top.group, name)
       /\ IF t = None \/ ~CanAddDep(graph, s, t, "parents")
          THEN /\ failure' = IF t = None THEN "UnknownDependencyError"
                                         ELSE "DependencyAlreadyReferenced"
               /\ UNCHANGED <<graph, loading, declared>>
          ELSE /\ graph' = AddDeps(graph, s, {t}, type, "parents")
               /\ declared' = [declared EXCEPT ![s] =
                    [u \in DOMAIN declared[s] \cup {t} |->
                       IF u = t THEN type ELSE declared[s][u]]]
               /\ loading' = [loading EXCEPT ![1].links = @ \ {<<s, <<type, name>>>>}]
               /\ UNCHANGED failure
  /\ UNCHANGED <<yaml, target, var, bound>>

\* Slip: a subservice is bound to one of the gates only.
BindOnce(g, grp) ==
  LET ends == {s \in Sub[grp] : g.children[s] = Empty}
  IN  AddDeps(AddDeps(g, Source[grp], ends, REQUIRE, "parents"),
              Sink[grp], {s \in Sub[grp] \ ends : g.parents[s] = Empty}, REQUIRE, "children")

\* The subservices without dependents are bound to the source, and those
\* without dependencies to the sink.
BindAll(g, grp) ==
  AddDeps(AddDeps(g, Source[grp], {s \in Sub[grp] : g.children[s] = Empty},
                  REQUIRE, "parents"),
          Sink[grp], {s \in Sub[grp] : g.parents[s] = Empty}, REQUIRE, "children")

Bind ==
  /\ Loading /\ Top.links = {} /\ ~Top.bound
  /\ graph' = BindAll(graph, Top.group)
  /\ loading' = [loading EXCEPT ![1].bound = TRUE]
  /\ bound' = [bound EXCEPT ![Top.group] = {g \in Group : bound[g] # {}}
                                             \cup {Top.group}]
  /\ UNCHANGED <<yaml, target, var, failure, declared>>

\* fromdict of a subservice that is a group, in the last loop of its parent.
Descend(g) ==
  /\ Loading /\ Top.bound /\ g \in Top.rest
  /\ loading' = <<Frame(g)>> \o [loading EXCEPT ![1].rest = @ \ {g}]
  /\ Enter(g, var)
  /\ UNCHANGED <<yaml, graph, var, declared, bound>>

\* Slip: the subservices of a subgroup do not inherit.
InheritOnce(targets, grp) ==
  [s \in Svc |-> IF s \in Sub[grp] /\ targets[s] = None THEN targets[grp] ELSE targets[s]]

\* inherits_from: what has no target takes the one of its group, all the way down.
Inherit(targets, grp) ==
  LET From[s \in Svc] ==
        IF targets[s] # None \/ s \notin Inner[grp] THEN targets[s]
        ELSE From[CHOOSE g \in Group : s \in Sub[g]]
  IN  From

\* The services of the group are read, and all its subservices inherit.
EndGroup ==
  /\ Loading /\ Top.bound /\ Top.rest = {}
  /\ LET plain == Sub[Top.group] \ Group
         read  == [s \in Svc |-> IF s \in plain THEN ReadTarget(yaml, s, var)
                                                ELSE target[s]]
     IN  IF var = None /\ \E s \in plain : yaml.target[s] = VAR
         THEN /\ failure' = "UndefinedVariableError"
              /\ UNCHANGED <<target, loading>>
         ELSE /\ target' = Inherit(read, Top.group)
              /\ loading' = Tail(loading)
              /\ UNCHANGED failure
  /\ UNCHANGED <<yaml, graph, var, declared, bound>>

LoaderInit ==
  /\ yaml \in Files
  /\ graph = NewGraph
  /\ target = [s \in Svc |-> None]
  /\ var = None
  /\ loading = <<>>
  /\ failure = None
  /\ declared = [s \in Svc |-> Empty]
  /\ bound = [g \in Group |-> {}]

\* fromdict of MAIN, whose variables come first.
StartLoading ==
  /\ var' = yaml.var
  /\ loading' = <<Frame(MAIN)>>
  /\ Enter(MAIN, yaml.var)
  /\ UNCHANGED <<yaml, graph, declared, bound>>

LoadStep ==
  \/ \E s \in Svc, type \in Strength :
       \E name \in {l[2][2] : l \in (IF Loading THEN Top.links ELSE {})} :
         Link(s, type, name)
  \/ Bind \/ EndGroup \/ \E g \in Group : Descend(g)
===============================================================================
