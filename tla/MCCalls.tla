------------------------------- MODULE MCCalls --------------------------------
(* Two services and two groups, whose subservices share short names with    *)
(* them and with each other: what files may say of them, and what may be    *)
(* asked of the manager, twice.                                             *)
EXTENDS ManagerProperties, TLC

CallSvc == {"MAIN", "source", "sink", "a", "b", "G", "G.source", "G.sink",
            "G.x", "G.b", "H", "H.source", "H.sink", "H.x"}
CallGroup == {"MAIN", "G", "H"}
CallSub == [MAIN |-> {"a", "b", "G", "H"}, G |-> {"G.x", "G.b"}, H |-> {"H.x"}]
CallInner == [CallSub EXCEPT !.MAIN = @ \cup {"G.x", "G.b", "H.x"}]
CallSource == [MAIN |-> "source", G |-> "G.source", H |-> "H.source"]
CallSink == [MAIN |-> "sink", G |-> "G.sink", H |-> "H.sink"]
CallLabel ==
  [s \in CallSvc |->
     CASE s \in {"source", "G.source", "H.source"} -> "source"
       [] s \in {"sink", "G.sink", "H.sink"} -> "sink"
       [] s \in {"G.x", "H.x"} -> "x"
       [] s = "G.b" -> "b"
       [] OTHER -> s]

File(deps) ==
  [deps   |-> [s \in CallSvc |-> IF s \in DOMAIN deps THEN deps[s] ELSE {}],
   target |-> [s \in CallSvc |-> None],
   tags   |-> [s \in CallSvc |-> {}],
   var    |-> None,
   cmd    |-> FALSE]

\* A chain through a group, whose b prefers the x beside it.
Chain == File([b |-> {<<"require", <<"a">>>>}, G |-> {<<"require_weak", <<"b">>>>},
               H |-> {<<"check", <<"G">>>>}] @@ ("G.b" :> {<<"require", <<"x">>>>}))

\* b and G.b depend on a, which files both under b.
Collision == File([b |-> {<<"require", <<"a">>>>}, G |-> {<<"require", <<"a">>>>}]
                  @@ ("G.b" :> {<<"filter", <<"a">>>>}))

\* Properties that share an entry: b comes after a only, G filters a only.
Shared == File([b |-> {<<"require_weak", <<"H">>>>, <<"after", <<"a">>>>},
                G |-> {<<"filter", <<"b">>>>, <<"require_filter", <<"a">>>>},
                H |-> {<<"before", <<"a">>>>}])

\* A subservice of H that depends on one of G, seen through the root.
Across == File([b |-> {<<"require", <<"G">>>>, <<"check", <<"a">>>>}]
               @@ ("H.x" :> {<<"require", <<"G", "x">>>>}))

\* A name that is not there, and one that is there twice.
Wrong == {File([b |-> {<<"require", <<"a">>>>, <<"filter", <<"z">>>>}]),
          File([b |-> {<<"require", <<"a">>>>, <<"check", <<"a">>>>}])}

\* Targets and tags, inherited or not; V is in a command and in two targets.
Nodes ==
  [Chain EXCEPT !.target = [@ EXCEPT !["MAIN"] = {"n1", "n2"}, !["G"] = {"n2", "n3"},
                                     !["b"] = VAR, !["G.x"] = VAR],
                !.tags = [@ EXCEPT !["a"] = {"t"}, !["G"] = {"u"}, !["G.x"] = {"t"},
                                   !["H.x"] = {"t"}],
                !.var = {"n1", "n3"}, !.cmd = TRUE]

\* V is in a command only, and -D must define it.
Undefined == [Nodes EXCEPT !.target = [@ EXCEPT !["b"] = {"n3"}, !["G.x"] = None],
                           !.var = None]

CallFiles == {Chain, Collision, Shared, Across, Nodes, Undefined,
              [Nodes EXCEPT !.var = None]} \cup Wrong

Plainly == [services |-> {}, reversed |-> FALSE, nodeps |-> FALSE, excluded |-> {},
            tags |-> {}, only |-> None, without |-> None, define |-> None]

CallCalls ==
  {[Plainly EXCEPT !.services = names, !.reversed = r, !.nodeps = n] :
     names \in {{}, {"b"}, {"G", "a"}}, r \in BOOLEAN, n \in BOOLEAN}
  \cup {[Plainly EXCEPT !.services = {"H"}, !.reversed = r, !.excluded = x] :
          r \in BOOLEAN, x \in {{"b"}, {"G", "x"}}}
  \cup {[Plainly EXCEPT !.services = {"H", "z"}],
        [Plainly EXCEPT !.tags = {"t"}], [Plainly EXCEPT !.tags = {"u", "v"}],
        [Plainly EXCEPT !.only = {"n2"}], [Plainly EXCEPT !.without = {"n2"}],
        [Plainly EXCEPT !.define = {"n2"}]}

\* The call with -D, over files that give V another value.
DefineFiles == {Nodes}
DefineCalls == {[Plainly EXCEPT !.define = {"n2"}]}
===============================================================================
