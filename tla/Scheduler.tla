------------------------------- MODULE Scheduler -------------------------------
(***************************************************************************)
(* What a call of MilkCheck promises, without the way it is computed: each *)
(* service and group runs once at most, after what it depends on, and only *)
(* if that allows it.  Engine implements it (EngineProperties!Implements). *)
(***************************************************************************)

CONSTANT Svc    \* services and groups

VARIABLES
  requires,   \* what each depends on; TRUE for a dependency that is strong
  inside,     \* what ends a group, the same way
  outcome,    \* of each, see Outcomes
  over        \* has the call returned?

vars == <<requires, inside, outcome, over>>

\* "void": there was nothing to run, or it was excluded.
Outcomes == {"idle", "running", "passed", "failed", "void"}

Ended(s) == outcome[s] \notin {"idle", "running"}

\* All that `deps' holds came to an end, and no strong one failed.
Allowed(deps) ==
  \A t \in DOMAIN deps : Ended(t) /\ (deps[t] => outcome[t] # "failed")

Forbidden(deps) == \E t \in DOMAIN deps : deps[t] /\ outcome[t] = "failed"

Init ==
  /\ outcome \in [Svc -> {"idle", "void"}]
  /\ over = FALSE

\* One service moves on.
Move(s, from, to) ==
  /\ ~over
  /\ outcome[s] = from
  /\ outcome' = [outcome EXCEPT ![s] = to]
  /\ UNCHANGED <<requires, inside, over>>

Launch(s) == Allowed(requires[s]) /\ Move(s, "idle", "running")

Finish(s) == \E o \in {"passed", "failed", "void"} : Move(s, "running", o)

\* A group that could run is over when its subservices are.
Pass(g) ==
  Allowed(requires[g]) /\ Allowed(inside[g]) /\ Move(g, "idle", "passed")

\* A service that cannot run fails at once, whatever else it waits for.
Refuse(s) ==
  /\ Forbidden(requires[s]) \/ Forbidden(inside[s])
  /\ Move(s, "idle", "failed")

\* Nothing to run here, whether or not it could.
Ignore(s) ==
  /\ Allowed(requires[s]) \/ Forbidden(requires[s]) \/ Forbidden(inside[s])
  /\ Move(s, "idle", "void")

\* The call returns when nothing runs.
Return ==
  /\ ~over /\ \A s \in Svc : outcome[s] # "running"
  /\ over' = TRUE
  /\ UNCHANGED <<requires, inside, outcome>>

Next ==
  \/ \E s \in Svc : Launch(s) \/ Finish(s) \/ Pass(s) \/ Refuse(s) \/ Ignore(s)
  \/ Return

Spec == Init /\ [][Next]_vars
===============================================================================
