------------------------------ MODULE BaseEntity ------------------------------
(***************************************************************************)
(* Statuses of the entities (services, groups and actions), strengths of   *)
(* the dependencies between them, and the evaluation of a set of           *)
(* dependencies (lib/MilkCheck/Engine/BaseEntity.py).                      *)
(*                                                                         *)
(* The dictionaries `parents' and `children' of an entity are functions    *)
(* from the entities they point at to a strength; `status' is a function   *)
(* from entities to statuses.                                              *)
(***************************************************************************)
EXTENDS Integers

NO_STATUS      == "NO_STATUS"
WAITING_STATUS == "WAITING_STATUS"
DONE           == "DONE"
WARNING        == "WARNING"
TIMEOUT        == "TIMEOUT"
ERROR          == "ERROR"
DEP_ERROR      == "DEP_ERROR"
LOCKED         == "LOCKED"
SKIPPED        == "SKIPPED"
MISSING        == "MISSING"

Status == {NO_STATUS, WAITING_STATUS, DONE, WARNING, TIMEOUT, ERROR,
           DEP_ERROR, LOCKED, SKIPPED, MISSING}

\* Statuses an entity leaves only for another call.
Final(st) == st \notin {NO_STATUS, WAITING_STATUS}
Failed(st) == st \in {ERROR, TIMEOUT, DEP_ERROR}

CHECK        == "CHECK"
REQUIRE      == "REQUIRE"
REQUIRE_WEAK == "REQUIRE_WEAK"
FILTER       == "FILTER"

Strength == {CHECK, REQUIRE, REQUIRE_WEAK, FILTER}

IsStrong(type) == type \in {REQUIRE, CHECK}
IsCheck(type) == type = CHECK

\* A weak requirement is the only one failed nodes do not travel along.
Filters(type) == type # REQUIRE_WEAK

\* What a dependency can evaluate to: a failure is DEP_ERROR or DONE.
DepResult == Status \ {ERROR, TIMEOUT}

DEP_ORDER ==
  [st \in DepResult |->
     CASE st = DEP_ERROR      -> 10
       [] st = WAITING_STATUS -> 9
       [] st = NO_STATUS      -> 8
       [] st = WARNING        -> 7
       [] st = DONE           -> 6
       [] st = SKIPPED        -> 5
       [] st = MISSING        -> 4
       [] st = LOCKED         -> 3]

\* Slips: the strength is not looked at; a filter is taken for a requirement; an
\* excluded target is taken for one that failed.
DepStatusIgnoringStrength(type, st) == IF Failed(st) THEN DONE ELSE st
DepStatusFiltering(type, st) ==
  IF Failed(st) THEN IF Filters(type) THEN DEP_ERROR ELSE DONE ELSE st
DepStatusExcluded(type, st) ==
  IF Failed(st) \/ st = LOCKED THEN IF IsStrong(type) THEN DEP_ERROR ELSE DONE ELSE st

\* Dependency.status: the status of the target seen through the dependency.
DepStatus(type, st) ==
  IF Failed(st) THEN IF IsStrong(type) THEN DEP_ERROR ELSE DONE ELSE st

Worst(results) ==
  CHOOSE r \in results : \A q \in results : DEP_ORDER[q] <= DEP_ORDER[r]

EvalDepsStatus(deps, status) ==
  IF DOMAIN deps = {}
  THEN MISSING
  ELSE Worst({DepStatus(deps[t], status[t]) : t \in DOMAIN deps})

IsReady(deps, status) == \A t \in DOMAIN deps : Final(status[t])

SearchDeps(deps, status, symbols) == {t \in DOMAIN deps : status[t] \in symbols}
===============================================================================
