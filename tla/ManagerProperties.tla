-------------------------- MODULE ManagerProperties ---------------------------
(* What the graph and the calls of a ServiceManager promise. *)
EXTENDS ServiceManager

\* Two entities of the same short name that depend on `t' have one entry there.
Collide(s, t) ==
  \E u \in Svc \ {s} : Label[u] = Label[s] /\ t \in DOMAIN declared[u]

NoCollision == \A s \in Svc : \A t \in DOMAIN declared[s] : ~Collide(s, t)

HalfEdge(s, t) == t \in Group /\ s \in {Source[t], Sink[t]}

\* No entity is called as a gate is.
GatesApart ==
  \A g \in Group : \A s \in Svc :
    /\ Label[s] = Label[Source[g]] => \E h \in Group : s = Source[h]
    /\ Label[s] = Label[Sink[g]] => \E h \in Group : s = Sink[h]

\* Nor is a dependency declared on a gate.
GatesUnnamed == GatesApart /\ \A s \in Svc : DOMAIN declared[s] \subseteq Plain \cup Group

\* Nor on the root.
MainUnnamed == \A s \in Svc : MAIN \notin DOMAIN declared[s]

\* The two ends of every dependency agree, through the loading, the changes of
\* direction and the cuts of every call: whoever ends triggers the services that
\* wait for it (children), and nobody else.  Two exceptions: a gate points at its
\* group, which does not point back; and of the dependents of the same short
\* name, the service that ends knows one at most.
Mirrored ==
  /\ \A s \in Svc : \A k \in DOMAIN graph.children[s] :
       LET e == graph.children[s][k]
       IN  HalfEdge(s, e.target) \/
           (/\ Label[s] \in DOMAIN graph.parents[e.target]
            /\ graph.parents[e.target][Label[s]] = [target |-> s, type |-> e.type])
  /\ \A s \in Svc : \A k \in DOMAIN graph.parents[s] :
       LET e == graph.parents[s][k]
       IN  HalfEdge(s, e.target) \/ Collide(s, e.target) \/
           (/\ Label[s] \in DOMAIN graph.children[e.target]
            /\ graph.children[e.target][Label[s]] = [target |-> s, type |-> e.type])

\* To cut a dependency, the entry at its other end is deleted too, and KeyError
\* raised if there is none: this happens only when two entities of the same short
\* name depend on the same one, so that a cut for the one took away the entry
\* that the other needs to be cut, maybe in a later call.
CutsSucceed == failure = "KeyError" => ~NoCollision

\* When it is loaded, and when its direction is set, the graph is the one that
\* ServiceGraph states, on which the engine is checked: whatever the order in
\* which the files are read, groups and their gates included.
GraphAsStated ==
  runs = <<>> /\ pc \in {"apply", "reverse", "variables", "resolve", "select"} =>
    /\ [s \in Svc |-> ByEntity(graph.parents[s])] = Parents(declared, bound, reversed)
    /\ NoCollision =>
         [s \in Svc |-> ByEntity(graph.children[s])] = Children(declared, bound, reversed)
-------------------------------------------------------------------------------
(* The scope of a call: what it names, and what that depends on. *)

Ends(c, g) == IF c.reversed THEN BoundToSink(declared, g)
                            ELSE BoundToSource(declared, bound, g)

Entries(c) == IF c.services = {} THEN Ends(c, MAIN)
              ELSE {s \in Sub[MAIN] : Label[s] \in c.services}

Needs(c, s) ==
  IF c.nodeps /\ s \in Entries(c) THEN {}
  ELSE IF c.reversed THEN {t \in Svc : s \in DOMAIN declared[t]}
  ELSE DOMAIN declared[s]

Scope(c, start) ==
  LET Further[from \in SUBSET Svc] ==
        LET more == UNION {Needs(c, s) \cup (IF s \in Group THEN Ends(c, s) ELSE {}) :
                             s \in from}
            new  == more \ (from \cup Excluded(c))
        IN  IF new = {} THEN from ELSE Further[from \cup new]
  IN  Further[start]

\* No earlier call left cuts that this one meets: --nodeps, or services named in
\* the same direction when this one names none.
UncutBefore(i) ==
  \A j \in 1..i-1 :
    /\ ~runs[j].call.nodeps
    /\ \/ runs[j].call.services = {} \/ runs[i].call.services # {}
       \/ runs[j].call.reversed # runs[i].call.reversed

\* A call reaches the services it names (all of them if it names none), what
\* they depend on in the direction of the action and the inside of the groups,
\* and no other, excluded services being neither run nor crossed; --nodeps leaves
\* the services named; and an earlier call with other services changes nothing.
ScopeExact ==
  \A i \in DOMAIN runs :
    LET c == runs[i].call
    IN  UncutBefore(i) /\ (c.reversed => NoCollision) =>
          runs[i].reached \ {MAIN} = Scope(c, Entries(c) \ Excluded(c))
-------------------------------------------------------------------------------
(* The nodes of a call. *)

\* The target written for a service, or the one of the group around it.
DeclaredTarget[s \in Svc] ==
  IF yaml.target[s] # None THEN ReadTarget(yaml, s, yaml.var)
  ELSE IF s \notin Inner[MAIN] THEN None
  ELSE DeclaredTarget[CHOOSE g \in Group : s \in Sub[g]]

Unrestricted(c) == c.tags = {} /\ c.only = None /\ c.without = None

\* The nodes that the calls before this one took from a service.
TakenBefore(i, s) == {n \in Node : \E j \in 1..i-1 : <<s, n>> \in runs[j].filtered}

\* A command runs on nodes that were declared for its service, none of those
\* that -x excludes, only those that -n gives, and none that failures took from its
\* service in an earlier call; on all of these when no call restricted them before;
\* a local command stays local; and a service that a tag leaves out runs nowhere.
TargetsAsAsked ==
  \A i \in DOMAIN runs : \A s \in Plain :
    LET c == runs[i].call
        declaredFor == DeclaredTarget[s]
        asked == {n \in declaredFor : /\ c.only # None => n \in c.only
                                      /\ c.only = None /\ c.without # None
                                           => n \notin c.without
                                      /\ n \notin TakenBefore(i, s)}
        here == runs[i].target[s]
        fresh == \A j \in 1..i-1 : Unrestricted(runs[j].call)
    IN  IF s \in Skipped(c) THEN here = {}
        ELSE IF declaredFor = None THEN fresh => here = None
        ELSE here # None /\ here \subseteq asked /\ (fresh => here = asked)

\* -D prevails over the files for the commands of the first call.
DefineReachesCommands ==
  runs # <<>> /\ runs[1].call.define # None /\ yaml.cmd =>
    runs[1].command = runs[1].call.define

\* -D defines the variable for this run: a target written with it follows.
DefineReachesTargets ==
  runs # <<>> /\ runs[1].call.define # None /\ Unrestricted(runs[1].call) =>
    \A s \in Plain : yaml.target[s] = VAR =>
      runs[1].target[s] = runs[1].call.define
===============================================================================
