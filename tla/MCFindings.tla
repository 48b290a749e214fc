------------------------------ MODULE MCFindings ------------------------------
(* Configurations in which the engine does not do what its documentation     *)
(* says, and the sentences of the documentation as properties.               *)
EXTENDS EngineProperties

Services == {"a", "b", "c"}
FindSvc == Services \cup {"MAIN", "source", "sink"}
FindSub == [g \in {"MAIN"} |-> Services]
FindSource == [g \in {"MAIN"} |-> "source"]
FindSink == [g \in {"MAIN"} |-> "sink"]
FindAction == Services \X {"start", "status"}
FindFanout == [t \in FindAction |-> 0]

Both == {"n1", "n2"}

\* `require' holds the dependencies of b and of c, `checked' the services whose
\* start is guarded by their status.
Config(require, request, actions, checked, nodes) ==
  LET linked == [g \in {"MAIN"} |-> {"MAIN"}]
      declared == [s \in FindSvc |-> IF s \in DOMAIN require THEN require[s]
                                     ELSE [t \in {} |-> REQUIRE]]
  IN  [parents  |-> Parents(declared, linked, FALSE),
       children |-> Children(declared, linked, FALSE),
       actions  |-> [s \in FindSvc |-> IF s \in DOMAIN actions THEN actions[s] ELSE {}],
       check    |-> [a \in FindAction |->
                       IF a[1] \in checked /\ a[2] = "start" THEN {"status"} ELSE {}],
       target   |-> nodes,
       delegate |-> {},
       errors   |-> [a \in FindAction |-> 0],
       warnings |-> [a \in FindAction |-> 0],
       maxretry |-> [a \in FindAction |-> 0],
       delayed  |-> {},
       locked   |-> {},
       reversed |-> FALSE,
       request  |-> request]

OnA(type) == [s \in {"b"} |-> [t \in {"a"} |-> type]]
Started(services) == [s \in services |-> {"start"}]
Checked == [s \in {"a", "b"} |-> {"start", "status"}]
Anywhere == [a \in FindAction |-> Both]

\* `milkcheck status', and a service whose start is guarded by its status.
StatusConfigs == {Config(OnA(REQUIRE), "status", Checked, {"a"}, Anywhere)}

\* b filters on a, and its status runs on one of its two nodes.
StuckConfigs ==
  {Config(OnA(FILTER), "start", Checked, {"b"},
          [Anywhere EXCEPT ![<<"b", "status">>] = {"n1"}])}

\* The start of a is guarded by its status, and b filters on a.
RepairedConfigs == {Config(OnA(FILTER), "start", Checked, {"a"}, Anywhere)}

\* c filters on a, and comes after b which requires a.
OrderConfigs ==
  {Config([b |-> [a |-> REQUIRE], c |-> [a |-> FILTER, b |-> REQUIRE_WEAK]],
          "start", Started(Services), {}, Anywhere)}

\* b comes after a.
AfterConfigs == {Config(OnA(REQUIRE_WEAK), "start", Started({"a", "b"}), {}, Anywhere)}
-------------------------------------------------------------------------------
\* `milkcheck status' launches the status of the services, and `milkcheck start'
\* their start, with nothing but their checks.
OnlyRequestedActionsRun ==
  \A a \in Action :
    Launched(a) => a[2] \in {conf.request, STATUS} \/ ActDependents(a) # {}

\* A service that is WAITING is doing something: once the handlers returned, it
\* has a command or a timer in flight.
WaitingMeansBusy ==
  \A s \in Plain : InEventLoop /\ status[s] = WAITING_STATUS =>
    \E a \in Action : a[1] = s /\ workers[a] + timers[a] > 0

\* The nodes kept from the dependents of a service that is DONE are nodes where
\* it failed: those of the last command of the action it was asked for.
OnlyFailedNodesFiltered ==
  \A s \in Plain :
    status[s] = DONE /\ (\A t \in DOMAIN Deps(s) : failed_nodes[t] = {}) =>
      failed_nodes[s] \subseteq worker[<<s, last_action[s]>>]

\* At the end, a service in ERROR makes the exit code 6.
ErrorMeansExitCode6 ==
  retcode # None /\ (\E s \in Sub[MAIN] : status[s] = ERROR) => retcode = RC_ERROR
===============================================================================
