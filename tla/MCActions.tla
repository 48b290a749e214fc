------------------------------ MODULE MCActions -------------------------------
(* Two services and two nodes: the actions of `a', the checks that guard its *)
(* start, its delays, retries and thresholds, and `b' that depends on it.    *)
EXTENDS EngineProperties

ActSvc == {"MAIN", "source", "sink", "a", "b"}
ActSub == [g \in {"MAIN"} |-> {"a", "b"}]
ActSource == [g \in {"MAIN"} |-> "source"]
ActSink == [g \in {"MAIN"} |-> "sink"]
ActNames == {"start", "status", "probe"}
ActAction == {"a", "b"} \X ActNames
ActFanout == [t \in ActAction |-> IF t[2] = "start" THEN 1 ELSE 0]

a_start == <<"a", "start">>
Both == {"n1", "n2"}

Require(type) ==
  [s \in ActSvc |-> [t \in IF s = "b" THEN {"a"} ELSE {} |-> type]]

\* The checks of a's start, and those of its status.
\* These run on the nodes of the start: see MCFindings for one that does not.
Guards ==
  {[start |-> {}, status |-> {}],
   [start |-> {"status"}, status |-> {}],
   [start |-> {"status", "probe"}, status |-> {}],
   [start |-> {"status"}, status |-> {"probe"}],
   [start |-> {"status", "probe"}, status |-> {"probe"}]}

\* How a's start is run.
Plain2 == [target |-> Both, delegate |-> FALSE, errors |-> 0, warnings |-> 0,
           maxretry |-> 0, delayed |-> FALSE]
Manners ==
  {Plain2,
   [Plain2 EXCEPT !.target = None],
   [Plain2 EXCEPT !.delegate = TRUE],
   [Plain2 EXCEPT !.errors = 1],
   [Plain2 EXCEPT !.errors = 1, !.warnings = 1],
   [Plain2 EXCEPT !.maxretry = 1],
   [Plain2 EXCEPT !.maxretry = 1, !.delayed = TRUE]}

Config(type, reversed, guard, how) ==
  LET linked == [g \in {"MAIN"} |-> {"MAIN"}]
  IN  [parents  |-> Parents(Require(type), linked, reversed),
       children |-> Children(Require(type), linked, reversed),
       actions  |-> [s \in ActSvc |-> IF s = "a" THEN ActNames
                                      ELSE IF s = "b" THEN {"start"} ELSE {}],
       check    |-> [a \in ActAction |->
                       IF a = a_start THEN guard.start
                       ELSE IF a = <<"a", "status">> THEN guard.status ELSE {}],
       target   |-> [a \in ActAction |->
                       IF a[1] = "a" THEN how.target ELSE Both],
       delegate |-> IF how.delegate THEN {a_start} ELSE {},
       errors   |-> [a \in ActAction |-> IF a = a_start THEN how.errors ELSE 0],
       warnings |-> [a \in ActAction |-> IF a = a_start THEN how.warnings ELSE 0],
       maxretry |-> [a \in ActAction |-> IF a = a_start THEN how.maxretry ELSE 0],
       delayed  |-> IF how.delayed THEN {a_start} ELSE {},
       locked   |-> {},
       reversed |-> reversed,
       request  |-> "start"]

\* Every manner without a check, those without retries with one check, and the
\* delayed retries with the checks that a filtering dependency leaves.
ActConfigs ==
  {Config(type, r, g, h) : type \in Strength \ {CHECK}, r \in BOOLEAN,
     g \in {k \in Guards : k.start = {}}, h \in Manners}
  \cup
  {Config(type, r, [start |-> {"status"}, status |-> {}], h) :
     type \in Strength \ {CHECK}, r \in BOOLEAN,
     h \in {m \in Manners : m.maxretry = 0}}
  \cup
  {Config(FILTER, FALSE, g, h) : g \in {k \in Guards : k.start # {}},
     h \in {m \in Manners : m.delayed}}

\* The hypothesis of NoFailedNodeTargetedHolds, besides NoChecks, holds for all of them.
ASSUME ActHypotheses == AllOnOneWay
===============================================================================
