------------------------------ MODULE Order_proofs ------------------------------
(***************************************************************************)
(* The order of a call, for any services, dependencies and results, when   *)
(* no action has a check: what a service depends on is over when it is     *)
(* launched and stays so, errors of dependencies have a cause, and the     *)
(* engine implements Scheduler.                                            *)
(***************************************************************************)
EXTENDS Engine_proofs

\* All that an entity depends on came to an end and no strong dependency failed;
\* or one did, and the entity is stopped.
Cleared(s) ==
  \A t \in DOMAIN Deps(s) :
    Final(status[t]) /\ (IsStrong(Deps(s)[t]) => ~Failed(status[t]))

Stopped(s) == \E t \in DOMAIN Deps(s) : IsStrong(Deps(s)[t]) /\ Failed(status[t])

StoppedInside(s) == s \in Group /\ Stopped(Gate(s))

\* The frames of the methods of services.  Of those of actions only prepare is
\* called, last, and runs at once.
ServiceFrame == {f \in Frame : f.op \in {"prepare", "prepare_deps", "trigger"}}

Below == IF Running("action_prepare") THEN Caller ELSE stack

\* An action that is about to be prepared is the first of its service, which was
\* launched for it, or skips it.
AboutToRun ==
  Running("action_prepare") =>
    /\ TopAction \in Action
    /\ \A a \in Action : a[1] = Top.svc => act_status[a] = NO_STATUS
    /\ \/ status[Top.svc] = WAITING_STATUS
       \/ /\ status[Top.svc] = NO_STATUS /\ target[TopAction] = {}
          /\ Cleared(Top.svc) \/ Stopped(Top.svc)

\* The status of a service or group says how its dependencies ended,
Deserved(s) ==
  /\ status[s] \in {WAITING_STATUS, DONE, WARNING, ERROR, TIMEOUT} => Cleared(s)
  /\ status[s] = DEP_ERROR => Stopped(s) \/ StoppedInside(s)

\* and whether it has an action that runs.
Working(s) ==
  /\ status[s] = NO_STATUS =>
       \A a \in Action : a[1] = s => act_status[a] = NO_STATUS
  /\ status[s] = WAITING_STATUS =>
       /\ s \in tagged
       /\ \/ \E a \in Action : a[1] = s /\ act_status[a] = WAITING_STATUS
          \/ Running("action_prepare") /\ Top.svc = s

\* An action runs alone, for a service that could be launched.
Acting(a) ==
  /\ act_status[a] = WAITING_STATUS =>
       /\ status[a[1]] = WAITING_STATUS
       /\ \A b \in Action : b[1] = a[1] /\ b # a => act_status[b] # WAITING_STATUS
  /\ Launched(a) => Cleared(a[1]) /\ a[1] \in tagged

OInv ==
  /\ conf \in Configs
  /\ Below \in Seq(ServiceFrame)
  /\ AboutToRun
  /\ \A s \in Svc : Deserved(s) /\ Working(s)
  /\ \A a \in Action : Acting(a)
  /\ retcode # None => stack = <<>>
-------------------------------------------------------------------------------
(* Dependencies *)

LEMMA StatusNames ==
  /\ \A st \in {DONE, WARNING, ERROR, TIMEOUT, SKIPPED, DEP_ERROR, MISSING, LOCKED} :
       Final(st) /\ st # WAITING_STATUS /\ st # NO_STATUS
  /\ ~Final(NO_STATUS) /\ ~Final(WAITING_STATUS) /\ NO_STATUS # WAITING_STATUS
  /\ \A st : Failed(st) => Final(st)
  /\ {MISSING, SKIPPED, LOCKED, DEP_ERROR}
        \cap {WAITING_STATUS, DONE, WARNING, ERROR, TIMEOUT} = {}
  /\ DEP_ERROR \notin {MISSING, SKIPPED, LOCKED, DONE, WARNING}
BY DEF Final, Failed, NO_STATUS, WAITING_STATUS, DONE, WARNING, TIMEOUT, ERROR,
       DEP_ERROR, LOCKED, SKIPPED, MISSING

LEMMA DepOrders ==
  /\ DEP_ORDER \in [DepResult -> Int]
  /\ DEP_ORDER[DEP_ERROR] = 10 /\ DEP_ORDER[WAITING_STATUS] = 9
  /\ DEP_ORDER[NO_STATUS] = 8 /\ DEP_ORDER[WARNING] = 7 /\ DEP_ORDER[DONE] = 6
  /\ \A r \in DepResult : r \notin {DEP_ERROR, WAITING_STATUS} <=> DEP_ORDER[r] < 9
  /\ DepResult = {NO_STATUS, WAITING_STATUS, DONE, WARNING, DEP_ERROR, LOCKED,
                  SKIPPED, MISSING}
BY DEF DEP_ORDER, DepResult, Status, NO_STATUS, WAITING_STATUS, DONE, WARNING,
       TIMEOUT, ERROR, DEP_ERROR, LOCKED, SKIPPED, MISSING

\* A set of dependencies in error holds a strong one that failed.
LEMMA DepErrorHasCause ==
  ASSUME NEW S, NEW deps, DOMAIN deps \subseteq S, NEW st \in [S -> Status],
         EvalDepsStatus(deps, st) = DEP_ERROR
  PROVE  \E t \in DOMAIN deps : IsStrong(deps[t]) /\ Failed(st[t])
<1> DEFINE results == {DepStatus(deps[t], st[t]) : t \in DOMAIN deps}
<1>1. DOMAIN deps # {} /\ Worst(results) = DEP_ERROR
  BY DEF EvalDepsStatus, MISSING, DEP_ERROR
<1>2. results \in SUBSET DepResult /\ results # {}
  BY <1>1, DepStatusType
<1> HIDE DEF results
<1>3. DEP_ERROR \in results
  BY <1>1, <1>2, WorstIsWorst
<1>4. PICK t \in DOMAIN deps : DepStatus(deps[t], st[t]) = DEP_ERROR
  BY <1>3 DEF results
<1>5. IsStrong(deps[t]) /\ Failed(st[t])
  BY <1>4 DEF DepStatus, Failed, DEP_ERROR, DONE
<1> QED BY <1>5

\* Dependencies that evaluate to a success are over, no strong one failed.
LEMMA SuccessIsSafe ==
  ASSUME NEW S, NEW deps, DOMAIN deps \subseteq S, NEW st \in [S -> Status],
         EvalDepsStatus(deps, st) \in {DONE, WARNING}
  PROVE  \A t \in DOMAIN deps :
           Final(st[t]) /\ (IsStrong(deps[t]) => ~Failed(st[t]))
<1>1. SearchDeps(deps, st, {NO_STATUS}) = {}
  <2> SUFFICES ASSUME NEW t \in DOMAIN deps, st[t] = NO_STATUS PROVE FALSE
    BY DEF SearchDeps
  <2>1. DEP_ORDER[DepStatus(deps[t], st[t])] <= DEP_ORDER[EvalDepsStatus(deps, st)]
    BY EvalDepsStatusIsWorst
  <2>2. DepStatus(deps[t], st[t]) = NO_STATUS
    BY StatusNames DEF DepStatus
  <2> QED BY <2>1, <2>2, DepOrders
<1>2. EvalDepsStatus(deps, st) \notin {DEP_ERROR, WAITING_STATUS}
  BY StatusNames
<1> QED BY <1>1, <1>2, LaunchIsSafe
\* The parts of the invariants of Engine_proofs that are used below.
LEMMA EngineParts ==
  ASSUME IInv
  PROVE  /\ SvcInv /\ ActInv /\ ConfigOK(conf)
         /\ status \in [Svc -> Status] /\ act_status \in [Action -> Status]
         /\ tagged \subseteq Svc /\ stack \in Seq(Good(tagged))
         /\ workers \in [Action -> Nat] /\ timers \in [Action -> Nat]
         /\ tries \in [Action -> Nat]
         /\ target \in [Action -> {None} \cup SUBSET Node]
BY DEF IInv, SvcInv, ActInv

\* The two tests of Service.prepare, for a service or for a group: what is
\* neither waiting nor in error may start, what is in error has a cause.
LEMMA LaunchCases ==
  ASSUME IInv, NEW s \in Svc, Unprocessed(s) = {}, SvcDepsStatus(s) # WAITING_STATUS
  PROVE  /\ SvcDepsStatus(s) # DEP_ERROR => Cleared(s)
         /\ SvcDepsStatus(s) = DEP_ERROR => Stopped(s) \/ StoppedInside(s)
         /\ s \notin Group /\ SvcDepsStatus(s) = DEP_ERROR => Stopped(s)
<1> DEFINE extd == EvalDepsStatus(Deps(s), status)
           intd == EvalDepsStatus(Deps(Gate(s)), status)
<1>1. DOMAIN Deps(s) \subseteq Svc /\ status \in [Svc -> Status]
  BY EngineParts, DepsType
<1>2. extd \in DepResult
  BY <1>1, EvalDepsStatusIsWorst
<1>3. ASSUME s \in Group PROVE DOMAIN Deps(Gate(s)) \subseteq Svc /\ intd \in DepResult
  <2>1. DOMAIN Deps(Gate(s)) \subseteq Svc
    BY <1>3, EngineParts, DepsType, GateType
  <2> QED BY <1>1, <2>1, EvalDepsStatusIsWorst
<1>4. SearchDeps(Deps(s), status, {NO_STATUS}) = {}
  BY DEF Unprocessed
<1>5. ASSUME extd \notin {DEP_ERROR, WAITING_STATUS} PROVE Cleared(s)
  BY <1>1, <1>4, <1>5, LaunchIsSafe DEF Cleared
<1>6. ASSUME extd = DEP_ERROR PROVE Stopped(s)
  BY <1>1, <1>6, DepErrorHasCause DEF Stopped
<1>7. ASSUME s \in Group, intd = DEP_ERROR PROVE StoppedInside(s)
  BY <1>1, <1>3, <1>7, DepErrorHasCause DEF Stopped, StoppedInside
<1>8. SvcDepsStatus(s) = IF s \in Group /\ DEP_ORDER[extd] <= DEP_ORDER[intd]
                         THEN intd ELSE extd
  BY DEF SvcDepsStatus
<1> HIDE DEF extd, intd
<1>9. CASE s \in Group /\ DEP_ORDER[extd] <= DEP_ORDER[intd]
  <2>1. intd # DEP_ERROR => DEP_ORDER[intd] < 9
    BY <1>3, <1>8, <1>9, DepOrders
  <2>2. intd # DEP_ERROR => extd \notin {DEP_ERROR, WAITING_STATUS}
    BY <1>2, <1>3, <1>9, <2>1, DepOrders
  <2> QED BY <1>5, <1>7, <1>8, <1>9, <2>2
<1>10. CASE ~(s \in Group /\ DEP_ORDER[extd] <= DEP_ORDER[intd])
  BY <1>5, <1>6, <1>8, <1>10
<1> QED BY <1>9, <1>10

\* The status a group takes over from its subservices.
LEMMA InternalCases ==
  ASSUME IInv, NEW g \in Group, SvcDepsStatus(g) \notin {WAITING_STATUS, DEP_ERROR}
  PROVE  LET st == EvalDepsStatus(Deps(Gate(g)), status)
         IN  /\ st \in {NO_STATUS, DONE, WARNING, MISSING, SKIPPED, LOCKED}
             /\ st \in {DONE, WARNING} => Cleared(Gate(g))
<1> DEFINE extd == EvalDepsStatus(Deps(g), status)
           intd == EvalDepsStatus(Deps(Gate(g)), status)
<1>1. g \in Svc /\ Gate(g) \in Svc
  BY StructureAssumption, GateType
<1>2. /\ DOMAIN Deps(g) \subseteq Svc /\ DOMAIN Deps(Gate(g)) \subseteq Svc
      /\ status \in [Svc -> Status]
  BY <1>1, EngineParts, DepsType
<1>3. extd \in DepResult /\ intd \in DepResult
  BY <1>2, EvalDepsStatusIsWorst
<1>4. intd \in {DONE, WARNING} => Cleared(Gate(g))
  BY <1>2, SuccessIsSafe DEF Cleared
<1>5. SvcDepsStatus(g) = IF DEP_ORDER[extd] <= DEP_ORDER[intd] THEN intd ELSE extd
  BY DEF SvcDepsStatus
<1>6. intd \notin {DEP_ERROR, WAITING_STATUS}
  <2> HIDE DEF extd, intd
  <2>1. CASE DEP_ORDER[extd] <= DEP_ORDER[intd]
    BY <1>5, <2>1
  <2>2. CASE ~(DEP_ORDER[extd] <= DEP_ORDER[intd])
    <3>1. DEP_ORDER[extd] < 9
      BY <1>3, <1>5, <2>2, DepOrders
    <3>2. DEP_ORDER[extd] \in Int /\ DEP_ORDER[intd] \in Int
      BY <1>3, DepOrders
    <3>3. DEP_ORDER[intd] < 9
      BY <2>2, <3>1, <3>2
    <3> QED BY <1>3, <3>3, DepOrders
  <2> QED BY <2>1, <2>2
<1> QED BY <1>3, <1>4, <1>6, DepOrders
-------------------------------------------------------------------------------
(* Steps that write a status *)

\* What a service that runs nothing ends with, and why.
Justified(s, st) ==
  \/ st \in {DONE, WARNING} /\ s \in Group /\ Cleared(s) /\ Cleared(Gate(s))
  \/ st = DEP_ERROR /\ (Stopped(s) \/ StoppedInside(s))
  \/ /\ st \in {MISSING, SKIPPED, LOCKED}
     /\ Cleared(s) \/ Stopped(s) \/ StoppedInside(s)

Write(s, st) == status' = [status EXCEPT ![s] = st]

Settles(s) == status[s] = NO_STATUS /\ \E st : Justified(s, st) /\ Write(s, st)

Launches(s) == status[s] = NO_STATUS /\ Cleared(s) /\ Write(s, WAITING_STATUS)

Finishes(s) ==
  /\ status[s] = WAITING_STATUS
  /\ \E st \in {DONE, WARNING, ERROR, TIMEOUT, SKIPPED} :
       /\ Write(s, st)
       /\ Failed(st) => \E a \in Action : act_status'[a] = st

Moves ==
  /\ UNCHANGED conf
  /\ \/ UNCHANGED status
     \/ \E s \in Svc : Settles(s) \/ Launches(s) \/ Finishes(s)

FinalKept == \A s \in Svc : Final(status[s]) => status'[s] = status[s]

LEMMA MovesKeepFinal ==
  ASSUME status \in [Svc -> Status], Moves
  PROVE  FinalKept
BY StatusNames DEF Moves, FinalKept, Settles, Launches, Finishes, Write

\* Dependencies that ended stay so, and so does what they allow or stop.
LEMMA ClearedStays ==
  ASSUME IInv, FinalKept, UNCHANGED conf, NEW s \in Svc
  PROVE  /\ Deps(s)' = Deps(s)
         /\ Cleared(s) => Cleared(s)'
         /\ Stopped(s) => Stopped(s)'
<1>1. DOMAIN Deps(s) \subseteq Svc
  BY EngineParts, DepsType
<1>2. Deps(s)' = Deps(s)
  BY DEF Deps
<1>3. Cleared(s) => Cleared(s)'
  BY <1>1, <1>2 DEF Cleared, FinalKept
<1>4. Stopped(s) => Stopped(s)'
  BY <1>1, <1>2, StatusNames DEF Stopped, FinalKept
<1> QED BY <1>2, <1>3, <1>4

LEMMA StoppedInsideStays ==
  ASSUME IInv, FinalKept, UNCHANGED conf, NEW s \in Svc, StoppedInside(s)
  PROVE  StoppedInside(s)'
<1>1. s \in Group /\ Gate(s) \in Svc /\ Gate(s)' = Gate(s)
  BY GateType DEF StoppedInside, Gate
<1>2. Stopped(Gate(s)) => Stopped(Gate(s))'
  BY <1>1, ClearedStays DEF Stopped
<1> QED BY <1>1, <1>2 DEF StoppedInside

\* Hence the statuses stay deserved.
LEMMA DeservedStays ==
  ASSUME IInv, OInv, Moves, NEW t \in Svc
  PROVE  Deserved(t)'
<1>1. FinalKept /\ UNCHANGED conf /\ status \in [Svc -> Status]
  BY MovesKeepFinal, EngineParts DEF Moves
<1>2. /\ Cleared(t) => Cleared(t)'
      /\ Stopped(t) => Stopped(t)'
      /\ StoppedInside(t) => StoppedInside(t)'
  BY <1>1, ClearedStays, StoppedInsideStays
<1>3. Deserved(t)
  BY DEF OInv
<1>4. CASE status'[t] = status[t]
  BY <1>2, <1>3, <1>4 DEF Deserved
<1>5. CASE status'[t] # status[t]
  <2>1. Settles(t) \/ Launches(t) \/ Finishes(t)
    BY <1>1, <1>5 DEF Moves, Settles, Launches, Finishes, Write
  <2>2. CASE Settles(t)
    <3>1. PICK st : Justified(t, st) /\ status' = [status EXCEPT ![t] = st]
      BY <2>2 DEF Settles, Write
    <3>2. status'[t] = st
      BY <1>1, <3>1
    <3> QED BY <1>2, <3>1, <3>2, StatusNames DEF Justified, Deserved
  <2>3. CASE Launches(t)
    BY <1>1, <1>2, <2>3, StatusNames DEF Launches, Write, Deserved
  <2>4. CASE Finishes(t)
    <3>1. Cleared(t)
      BY <1>3, <2>4 DEF Finishes, Deserved
    <3>2. status'[t] \in {DONE, WARNING, ERROR, TIMEOUT, SKIPPED}
      BY <1>1, <2>4 DEF Finishes, Write
    <3> QED BY <1>2, <3>1, <3>2, StatusNames DEF Deserved
  <2> QED BY <2>1, <2>2, <2>3, <2>4
<1> QED BY <1>4, <1>5
-------------------------------------------------------------------------------
(* The call stack *)

LEMMA CallerIsService ==
  ASSUME IInv, OInv, stack # <<>>
  PROVE  /\ Caller \in Seq(ServiceFrame)
         /\ ~Running("action_prepare") => Top \in ServiceFrame
         /\ Top \in Good(tagged) /\ Top \in Frame
<1>1. Top \in Good(tagged) /\ Top \in Frame
  BY EngineParts, CallerIsGood
<1>2. CASE Running("action_prepare")
  BY <1>1, <1>2 DEF OInv, Below
<1>3. CASE ~Running("action_prepare")
  <2>1. stack \in Seq(ServiceFrame)
    BY <1>3 DEF OInv, Below
  <2> QED BY <1>1, <1>3, <2>1, HeadTailProperties DEF Caller, Top
<1> QED BY <1>2, <1>3

\* A stack of frames of services.
LEMMA ServiceStack ==
  ASSUME stack' \in Seq(ServiceFrame)
  PROVE  ~Running("action_prepare")' /\ Below' \in Seq(ServiceFrame)
<1>1. ~Running("action_prepare")'
  <2> SUFFICES ASSUME stack' # <<>>, Head(stack').op = "action_prepare" PROVE FALSE
    BY DEF Running, Top
  <2>1. Head(stack') \in ServiceFrame
    BY HeadTailProperties
  <2> QED BY <2>1 DEF ServiceFrame
<1> QED BY <1>1 DEF Below

\* The call of Action.prepare.
LEMMA ActionStack ==
  ASSUME NEW s \in Svc, NEW n \in Name, NEW c \in Seq(ServiceFrame),
         stack' = <<Call("action_prepare", s, n, {})>> \o c
  PROVE  /\ Running("action_prepare")' /\ Below' \in Seq(ServiceFrame)
         /\ Top.svc' = s /\ TopAction' = <<s, n>>
<1> DEFINE f == Call("action_prepare", s, n, {})
<1>1. f.op = "action_prepare" /\ f.svc = s /\ f.act = n
  BY DEF Call
<1> HIDE DEF f
<1>2. stack' # <<>> /\ Head(stack') = f /\ Tail(stack') = c
  <2>1. stack' = <<f>> \o c
    BY DEF f
  <2>2. Len(<<f>>) = 1 /\ <<f>> \in Seq({f}) /\ c \in Seq(ServiceFrame)
    OBVIOUS
  <2> QED BY <2>1, <2>2
<1>3. Running("action_prepare")'
  BY <1>1, <1>2 DEF Running, Top
<1> QED BY <1>1, <1>2, <1>3 DEF Below, Caller, Top, TopAction

LEMMA ServiceCall ==
  ASSUME NEW op \in {"prepare", "prepare_deps", "trigger"}, NEW s \in Svc,
         NEW n \in {None} \cup Name, NEW todo, todo \in SUBSET Svc
  PROVE  Call(op, s, n, todo) \in ServiceFrame
<1>1. todo \in (SUBSET Svc) \cup (SUBSET Action)
  OBVIOUS
<1> QED BY <1>1 DEF Call, ServiceFrame, Frame

LEMMA VisitIsService ==
  ASSUME IInv, OInv, stack # <<>>, ~Running("action_prepare"), NEW x,
         NEW frames \in Seq(ServiceFrame), Visit(x, frames)
  PROVE  stack' \in Seq(ServiceFrame)
<1> DEFINE left == Call(Top.op, Top.svc, Top.act, Top.todo \ {x})
<1>1. Top \in ServiceFrame /\ Caller \in Seq(ServiceFrame)
  BY CallerIsService
<1>2. left \in ServiceFrame
  <2>1. Top.todo \ {x} \in (SUBSET Svc) \cup (SUBSET Action)
    BY <1>1 DEF ServiceFrame, Frame
  <2> QED BY <1>1, <2>1 DEF ServiceFrame, Frame, Call
<1> HIDE DEF left
<1>3. <<left>> \o Caller \in Seq(ServiceFrame)
  BY <1>1, <1>2, PushIsGood
<1>4. stack' = frames \o <<left>> \o Caller
  BY DEF Visit, left
<1>5. frames \o <<left>> \in Seq(ServiceFrame)
  BY <1>2, ConcatProperties
<1>6. (frames \o <<left>>) \o Caller \in Seq(ServiceFrame)
  BY <1>1, <1>5, ConcatProperties
<1> QED BY <1>4, <1>6

LEMMA UpdateIsService ==
  ASSUME IInv, NEW s \in Svc, NEW st, NEW caller \in Seq(ServiceFrame),
         UpdateStatus(s, st, caller)
  PROVE  Write(s, st) /\ stack' \in Seq(ServiceFrame)
<1>1. Call("trigger", s, None, DOMAIN Dependents(s)) \in ServiceFrame
  BY EngineParts, DepsType, ServiceCall
<1>2. <<Call("trigger", s, None, DOMAIN Dependents(s))>> \o caller \in Seq(ServiceFrame)
  BY <1>1, PushIsGood
<1> QED BY <1>2 DEF UpdateStatus, Write
-------------------------------------------------------------------------------
(* Steps of services *)

\* What most of them do: they leave the actions alone, and at most settle an
\* entity that runs nothing.
ServiceMove ==
  /\ stack # <<>> /\ ~Running("action_prepare")
  /\ UNCHANGED <<actVars, envVars>>
  /\ tagged \subseteq tagged'
  /\ stack' \in Seq(ServiceFrame)
  /\ UNCHANGED status \/ \E s \in Svc : Settles(s)

LEMMA JustifiedFinal ==
  ASSUME NEW s, NEW st, Justified(s, st)
  PROVE  Final(st) /\ st # WAITING_STATUS /\ st # NO_STATUS
BY StatusNames DEF Justified

LEMMA ServiceMoveOK ==
  ASSUME IInv, OInv, ServiceMove
  PROVE  Moves /\ OInv'
<1>1. Moves
  BY DEF ServiceMove, Moves, envVars
<1>2. /\ FinalKept /\ UNCHANGED <<conf, retcode>> /\ status \in [Svc -> Status]
      /\ UNCHANGED <<act_status, target, tries, workers, timers>>
  BY <1>1, MovesKeepFinal, EngineParts DEF ServiceMove, actVars, envVars
<1>3. ~Running("action_prepare")' /\ Below' \in Seq(ServiceFrame) /\ AboutToRun'
  BY ServiceStack DEF ServiceMove, AboutToRun
<1>4. ASSUME NEW t \in Svc
      PROVE  Deserved(t)' /\ Working(t)'
  <2>1. Deserved(t)'
    BY <1>1, DeservedStays
  <2>2. Working(t)
    BY DEF OInv
  <2>3. status'[t] = status[t] \/ status'[t] \notin {NO_STATUS, WAITING_STATUS}
    BY <1>2, JustifiedFinal DEF ServiceMove, Settles, Write
  <2>4. Working(t)'
    <3>1. tagged \subseteq tagged' /\ ~Running("action_prepare")
      BY DEF ServiceMove
    <3> QED BY <1>2, <2>2, <2>3, <3>1 DEF Working, Action, Plain
  <2> QED BY <2>1, <2>4
<1>5. ASSUME NEW a \in Action
      PROVE  Acting(a)'
  <2>1. Acting(a) /\ a[1] \in Svc
    BY DEF OInv, Action, Plain
  <2>2. status[a[1]] = WAITING_STATUS => status'[a[1]] = WAITING_STATUS
    BY <1>2, <2>1, StatusNames DEF ServiceMove, Settles, Write
  <2>3. Cleared(a[1]) => Cleared(a[1])'
    BY <1>2, <2>1, ClearedStays
  <2>4. Launched(a)' = Launched(a) /\ tagged \subseteq tagged'
    BY <1>2 DEF Launched, ServiceMove
  <2> QED BY <1>2, <2>1, <2>2, <2>3, <2>4 DEF Acting, Action, Plain
<1>6. (retcode # None => stack = <<>>)'
  BY <1>2 DEF OInv, ServiceMove
<1>7. conf' \in Configs
  BY <1>2 DEF OInv
<1> QED BY <1>1, <1>3, <1>4, <1>5, <1>6, <1>7 DEF OInv, Action, Plain
\* What the branches of Service.prepare have in common.
LEMMA PreparingFacts ==
  ASSUME IInv, OInv, NEW s \in Svc, Preparing(s)
  PROVE  /\ stack # <<>> /\ ~Running("action_prepare") /\ Top.svc = s
         /\ UNCHANGED <<actVars, envVars>>
         /\ tagged' = tagged \cup {s}
         /\ Caller \in Seq(ServiceFrame) /\ Requested(s) \in Name
<1>1. /\ stack # <<>> /\ ~Running("action_prepare") /\ Top.svc = s
      /\ UNCHANGED <<actVars, envVars>> /\ tagged' = tagged \cup {s}
  BY DEF Preparing, Running
<1>2. Requested(s) \in Name
  BY EngineParts, PreparingOK
<1> QED BY <1>1, <1>2, CallerIsService

LEMMA LaunchFacts ==
  ASSUME IInv, OInv, NEW s \in Svc, Launching(s)
  PROVE  /\ Preparing(s) /\ status[s] = NO_STATUS
         /\ SvcDepsStatus(s) # DEP_ERROR => Cleared(s)
         /\ SvcDepsStatus(s) = DEP_ERROR => Stopped(s) \/ StoppedInside(s)
         /\ s \notin Group => Cleared(s) \/ Stopped(s)
BY LaunchCases DEF Launching

\* A branch that ends with update_status settles the entity.
LEMMA SettledOK ==
  ASSUME IInv, OInv, NEW s \in Svc, Launching(s), NEW st, Justified(s, st),
         UpdateStatus(s, st, Caller)
  PROVE  ServiceMove
<1>1. /\ stack # <<>> /\ ~Running("action_prepare")
      /\ UNCHANGED <<actVars, envVars>> /\ tagged' = tagged \cup {s}
      /\ Caller \in Seq(ServiceFrame) /\ status[s] = NO_STATUS
  BY LaunchFacts, PreparingFacts
<1>2. Write(s, st) /\ stack' \in Seq(ServiceFrame)
  BY <1>1, UpdateIsService
<1> QED BY <1>1, <1>2 DEF ServiceMove, Settles

\* The branches of Service.prepare, but those that call Action.prepare.
LEMMA ServicePrepareMoves ==
  ASSUME IInv, OInv, NEW s \in Svc,
         \/ PrepareAgain(s) \/ PrepareDeps(s) \/ PrepareWaits(s)
         \/ LaunchMissing(s) \/ (s \in Group /\ LaunchSkipped(s))
         \/ LaunchDepError(s) \/ LaunchGate(s) \/ LaunchInternal(s)
  PROVE  ServiceMove
<1>1. Preparing(s)
  BY DEF PrepareAgain, PrepareDeps, PrepareWaits, LaunchMissing, LaunchSkipped,
         LaunchDepError, LaunchGate, LaunchInternal, Launching
<1>2. /\ stack # <<>> /\ ~Running("action_prepare")
      /\ UNCHANGED <<actVars, envVars>> /\ tagged' = tagged \cup {s}
      /\ Caller \in Seq(ServiceFrame) /\ Requested(s) \in Name
  BY <1>1, PreparingFacts
<1>3. ASSUME UNCHANGED status, stack' \in Seq(ServiceFrame)
      PROVE  ServiceMove
  BY <1>2, <1>3 DEF ServiceMove
<1>4. CASE PrepareAgain(s) \/ PrepareWaits(s)
  BY <1>2, <1>3, <1>4 DEF PrepareAgain, PrepareWaits, Return
<1>5. CASE PrepareDeps(s)
  <2>1. Unprocessed(s) \in SUBSET Svc
    BY EngineParts, DepsType DEF Unprocessed, SearchDeps
  <2>2. Call("prepare_deps", s, None, Unprocessed(s)) \in ServiceFrame
    BY <2>1, ServiceCall
  <2>3. <<Call("prepare_deps", s, None, Unprocessed(s))>> \o Caller \in Seq(ServiceFrame)
    BY <1>2, <2>2, PushIsGood
  <2> QED BY <1>3, <1>5, <2>3 DEF PrepareDeps
<1>6. CASE LaunchMissing(s)
  <2>1. Launching(s) /\ UpdateStatus(s, MISSING, Caller)
    BY <1>6 DEF LaunchMissing
  <2>2. Justified(s, MISSING)
    BY <2>1, LaunchFacts DEF Justified
  <2> QED BY <2>1, <2>2, SettledOK
<1>7. CASE s \in Group /\ LaunchSkipped(s)
  <2>1. Launching(s) /\ UpdateStatus(s, SKIPPED, Caller)
    BY <1>7 DEF LaunchSkipped
  <2>2. Justified(s, SKIPPED)
    BY <2>1, LaunchFacts DEF Justified
  <2> QED BY <2>1, <2>2, SettledOK
<1>8. CASE LaunchDepError(s)
  <2>1. Launching(s) /\ UpdateStatus(s, DEP_ERROR, Caller)
    BY <1>8 DEF LaunchDepError
  <2>2. Justified(s, DEP_ERROR)
    BY <1>8, <2>1, LaunchFacts DEF Justified, LaunchDepError
  <2> QED BY <2>1, <2>2, SettledOK
<1>9. CASE LaunchGate(s)
  <2>1. s \in Group /\ UNCHANGED status
        /\ stack' = <<Call("prepare", Gate(s), Requested(s), {})>> \o Caller
    BY <1>9 DEF LaunchGate
  <2>2. Call("prepare", Gate(s), Requested(s), {}) \in ServiceFrame
    BY <1>2, <2>1, GateType, ServiceCall
  <2>3. stack' \in Seq(ServiceFrame)
    BY <1>2, <2>1, <2>2, PushIsGood
  <2> QED BY <1>3, <2>1, <2>3
<1>10. CASE LaunchInternal(s)
  <2> DEFINE st == EvalDepsStatus(Deps(Gate(s)), status)
  <2>1. /\ Launching(s) /\ s \in Group /\ UpdateStatus(s, st, Caller)
        /\ SvcDepsStatus(s) \notin {WAITING_STATUS, DEP_ERROR}
    BY <1>10 DEF LaunchInternal, Launching
  <2>2. /\ st \in {NO_STATUS, DONE, WARNING, MISSING, SKIPPED, LOCKED}
        /\ st \in {DONE, WARNING} => Cleared(Gate(s))
    BY <2>1, InternalCases
  <2>3. Cleared(s) /\ status[s] = NO_STATUS
    BY <2>1, LaunchFacts
  <2> HIDE DEF st
  <2>4. CASE st = NO_STATUS
    <3>1. UNCHANGED status /\ stack' \in Seq(ServiceFrame)
      BY <1>2, <2>1, <2>3, <2>4, UpdateIsService, EngineParts DEF Write
    <3> QED BY <1>3, <3>1
  <2>5. CASE st # NO_STATUS
    <3>1. Justified(s, st)
      BY <2>1, <2>2, <2>3, <2>5 DEF Justified
    <3> QED BY <2>1, <3>1, SettledOK
  <2> QED BY <2>4, <2>5
<1> QED BY <1>4, <1>5, <1>6, <1>7, <1>8, <1>9, <1>10

\* The loops of prepare and update_status.
LEMMA LoopMoves ==
  ASSUME IInv, OInv, NEW s \in Svc, NEW t \in Svc, PrepareDep(s, t) \/ Trigger(s, t)
  PROVE  ServiceMove
<1> DEFINE n == IF IsCheck(Deps(s)[t]) THEN STATUS ELSE last_action[s]
           called == <<Call("prepare", t, n, {})>>
           again == <<Call("prepare", t, None, {})>>
<1>1. /\ stack # <<>> /\ ~Running("action_prepare")
      /\ UNCHANGED <<actVars, envVars, status, tagged>>
  BY DEF PrepareDep, Trigger, Running, svcVars
<1>2. Visit(t, called) \/ Visit(t, again) \/ Visit(t, <<>>)
  BY DEF PrepareDep, Trigger
<1>3. again \in Seq(ServiceFrame)
  BY ServiceCall
<1>4. called \in Seq(ServiceFrame)
  <2>1. n \in {None} \cup Name
    BY NameAssumption, EngineParts DEF SvcInv
  <2> HIDE DEF n
  <2>2. Call("prepare", t, n, {}) \in ServiceFrame
    BY <2>1, ServiceCall
  <2> QED BY <2>2
<1>5. <<>> \in Seq(ServiceFrame)
  OBVIOUS
<1> HIDE DEF called, again
<1>6. stack' \in Seq(ServiceFrame)
  BY <1>1, <1>2, <1>3, <1>4, <1>5, VisitIsService
<1> QED BY <1>1, <1>6 DEF ServiceMove

LEMMA EndLoopMoves ==
  ASSUME IInv, OInv, EndLoop
  PROVE  ServiceMove
<1>1. /\ stack # <<>> /\ ~Running("action_prepare") /\ stack' = Caller
      /\ UNCHANGED <<actVars, envVars, status, tagged>>
  BY DEF EndLoop, Running, Return, svcVars
<1> QED BY <1>1, CallerIsService DEF ServiceMove

\* The branches that call Action.prepare, of a service with actions.
LEMMA LaunchActionOK ==
  ASSUME IInv, OInv, NEW s \in Svc,
         LaunchAction(s) \/ (s \notin Group /\ LaunchSkipped(s))
  PROVE  Moves /\ OInv'
<1> DEFINE n == Requested(s)
           a0 == <<s, n>>
<1>1. Launching(s) /\ s \notin Group /\ HasAction(s, n)
  BY DEF LaunchAction, LaunchSkipped, Launchable
<1>2. /\ stack # <<>> /\ ~Running("action_prepare")
      /\ UNCHANGED <<actVars, envVars>> /\ tagged' = tagged \cup {s}
      /\ Caller \in Seq(ServiceFrame) /\ n \in Name /\ status[s] = NO_STATUS
  BY <1>1, LaunchFacts, PreparingFacts
<1>3. a0 \in Action /\ n \in conf.actions[s]
  <2>1. n \in conf.actions[s]
    BY <1>1 DEF HasAction, Leaves
  <2>2. s \in Plain
    BY <2>1, EngineParts DEF ConfigOK
  <2> QED BY <1>2, <2>1, <2>2 DEF Action
<1>4. /\ stack' = <<Call("action_prepare", s, n, {})>> \o Caller
      /\ \/ Launches(s)
         \/ UNCHANGED status /\ target[a0] = {} /\ (Cleared(s) \/ Stopped(s))
  <2>1. CASE LaunchAction(s)
    <3>1. /\ UpdateStatus(s, WAITING_STATUS,
                          <<Call("action_prepare", s, n, {})>> \o Caller)
          /\ SvcDepsStatus(s) # DEP_ERROR
      BY <2>1 DEF LaunchAction
    <3>2. Cleared(s)
      BY <1>1, <3>1, LaunchFacts
    <3> QED BY <1>2, <3>1, <3>2, StatusNames DEF UpdateStatus, Launches, Write
  <2>2. CASE LaunchSkipped(s)
    <3>1. /\ stack' = <<Call("action_prepare", s, n, {})>> \o Caller
          /\ UNCHANGED status /\ ToSkip(s, n)
      BY <1>1, <2>2 DEF LaunchSkipped
    <3>2. target[a0] = {}
      BY <1>1, <1>3, <3>1 DEF ToSkip, Leaves, ActToSkip
    <3> QED BY <1>1, <3>1, <3>2, LaunchFacts
  <2> QED BY <2>1, <2>2
<1> HIDE DEF n, a0
<1>5. Moves
  BY <1>2, <1>4 DEF Moves, envVars
<1>6. /\ FinalKept /\ UNCHANGED <<conf, retcode>> /\ status \in [Svc -> Status]
      /\ UNCHANGED <<act_status, target, tries, workers, timers>>
  BY <1>2, <1>5, MovesKeepFinal, EngineParts DEF actVars, envVars
<1>7. /\ Running("action_prepare")' /\ Below' \in Seq(ServiceFrame)
      /\ Top.svc' = s /\ TopAction' = a0
  BY <1>2, <1>4, ActionStack DEF a0
<1>8. /\ \A t \in Svc \ {s} : status'[t] = status[t]
      /\ status'[s] = WAITING_STATUS \/ (status'[s] = NO_STATUS /\ UNCHANGED status)
  BY <1>2, <1>4, <1>6 DEF Launches, Write
<1>9. \A a \in Action : a[1] = s => act_status[a] = NO_STATUS
  BY <1>2 DEF OInv, Working
<1>10. (Cleared(s) => Cleared(s)') /\ (Stopped(s) => Stopped(s)')
  BY <1>6, ClearedStays
<1>11. AboutToRun'
  <2>1. status'[s] = NO_STATUS =>
          target'[a0] = {} /\ (Cleared(s)' \/ Stopped(s)')
    BY <1>4, <1>6, <1>10, StatusNames DEF Launches, Write
  <2> QED BY <1>3, <1>6, <1>7, <1>8, <1>9, <2>1 DEF AboutToRun, Cleared, Stopped, Action, Plain
<1>12. ASSUME NEW t \in Svc
       PROVE  Deserved(t)' /\ Working(t)'
  <2>1. Deserved(t)'
    BY <1>5, DeservedStays
  <2>2. Working(t)
    BY DEF OInv
  <2>3. Working(t)'
    BY <1>2, <1>6, <1>7, <1>8, <1>9, <2>2 DEF Working, Action, Plain
  <2> QED BY <2>1, <2>3
<1>13. ASSUME NEW a \in Action
       PROVE  Acting(a)'
  <2>1. Acting(a) /\ a[1] \in Svc
    BY DEF OInv, Action, Plain
  <2>2. status[a[1]] = WAITING_STATUS => status'[a[1]] = WAITING_STATUS
    BY <1>2, <1>8, <2>1, StatusNames
  <2>3. Cleared(a[1]) => Cleared(a[1])'
    BY <1>6, <2>1, ClearedStays
  <2>4. Launched(a)' = Launched(a) /\ tagged \subseteq tagged'
    BY <1>2, <1>6 DEF Launched
  <2> QED BY <1>6, <2>1, <2>2, <2>3, <2>4 DEF Acting, Action, Plain
<1>14. (retcode # None => stack = <<>>)' /\ conf' \in Configs
  BY <1>2, <1>6 DEF OInv
<1> QED BY <1>5, <1>7, <1>11, <1>12, <1>13, <1>14 DEF OInv, Action, Plain
-------------------------------------------------------------------------------
(* Steps of actions *)

LEMMA WithoutChecks ==
  ASSUME NoChecks, IInv, OInv, NEW a \in Action
  PROVE  ActDependents(a) = {} /\ ActDepsStatus(a) = MISSING /\ ToRun(a)
<1>1. \A b \in Action : conf.check[b] = {}
  BY DEF NoChecks, OInv
<1>2. ActDependents(a) = {}
  BY <1>1, EngineParts, DependentActionsType DEF ActDependents
<1>3. DOMAIN ActDeps(a) = {}
  BY <1>1 DEF ActDeps
<1> QED BY <1>1, <1>2, <1>3 DEF ActDepsStatus, EvalDepsStatus, ToRun

\* With nothing to trigger, the service takes the status over.
LEMMA CompleteIsService ==
  ASSUME NoChecks, IInv, OInv, NEW a \in Action, NEW st, NEW failed,
         NEW caller \in Seq(ServiceFrame), CompleteAction(a, st, failed, caller)
  PROVE  /\ act_status' = [act_status EXCEPT ![a] = st]
         /\ Write(a[1], st) /\ stack' \in Seq(ServiceFrame)
<1>1. /\ act_status' = [act_status EXCEPT ![a] = st]
      /\ UpdateStatus(a[1], st, caller) /\ a[1] \in Svc
  BY WithoutChecks DEF CompleteAction, Action, Plain
<1> QED BY <1>1, UpdateIsService

\* No other action of its service runs.
Alone(a) == \A b \in Action : b[1] = a[1] /\ b # a => act_status[b] # WAITING_STATUS

\* What a step on an action leaves: the other actions, and what is below it.
ActionMove(a) ==
  /\ Running("action_prepare") => Top.svc = a[1]
  /\ Alone(a)
  /\ \A b \in Action \ {a} : tries'[b] = tries[b] /\ timers'[b] = timers[b]
  /\ stack' \in Seq(ServiceFrame)
  /\ retcode = None
  /\ UNCHANGED <<conf, tagged, retcode>>

\* An action ends, and its service with it.
LEMMA EndedOK ==
  ASSUME IInv, OInv, NEW a \in Action, ActionMove(a), NEW st,
         act_status' = [act_status EXCEPT ![a] = st], Write(a[1], st),
         Finishes(a[1]) \/ (Settles(a[1]) /\ st = SKIPPED),
         st \in {DONE, WARNING, ERROR, TIMEOUT, SKIPPED},
         UNCHANGED <<tries, timers>>
  PROVE  Moves /\ OInv'
<1>1. a[1] \in Svc
  BY DEF Action, Plain
<1>2. Moves
  BY <1>1 DEF Moves, ActionMove
<1>3. /\ FinalKept /\ UNCHANGED <<conf, retcode, tagged>> /\ retcode = None
      /\ status \in [Svc -> Status] /\ act_status \in [Action -> Status]
  BY <1>2, MovesKeepFinal, EngineParts DEF ActionMove
<1>4. ~Running("action_prepare")' /\ Below' \in Seq(ServiceFrame) /\ AboutToRun'
  BY ServiceStack DEF ActionMove, AboutToRun
<1>5. /\ status'[a[1]] = st /\ \A t \in Svc \ {a[1]} : status'[t] = status[t]
      /\ act_status'[a] = st /\ \A b \in Action \ {a} : act_status'[b] = act_status[b]
  BY <1>1, <1>3 DEF Write
<1>6. ASSUME NEW t \in Svc
      PROVE  Deserved(t)' /\ Working(t)'
  <2>1. Deserved(t)'
    BY <1>2, DeservedStays
  <2>2. CASE t = a[1]
    BY <1>5, <2>1, <2>2, StatusNames DEF Working
  <2>3. CASE t # a[1]
    <3>1. Working(t) /\ ~(Running("action_prepare") /\ Top.svc = t)
      BY <2>3 DEF OInv, ActionMove
    <3> QED BY <1>3, <1>5, <2>1, <2>3, <3>1 DEF Working, Action, Plain
  <2> QED BY <2>2, <2>3
<1>7. ASSUME NEW b \in Action
      PROVE  Acting(b)'
  <2>1. Acting(b) /\ b[1] \in Svc
    BY DEF OInv, Action, Plain
  <2>2. Launched(b)' => Cleared(b[1])' /\ b[1] \in tagged'
    BY <1>3, <2>1, ClearedStays DEF Acting, Launched
  <2>3. CASE b = a
    BY <1>5, <2>2, <2>3, StatusNames DEF Acting
  <2>4. CASE b # a
    <3>1. act_status[b] = WAITING_STATUS => b[1] # a[1]
      BY <2>4 DEF ActionMove, Alone
    <3>2. act_status'[b] = act_status[b]
      BY <1>5, <2>4
    <3>3. ASSUME act_status[b] = WAITING_STATUS
          PROVE  /\ status'[b[1]] = WAITING_STATUS
                 /\ \A c \in Action : c[1] = b[1] /\ c # b =>
                      act_status'[c] # WAITING_STATUS
      BY <1>5, <2>1, <3>1, <3>3 DEF Acting
    <3> QED BY <2>2, <3>2, <3>3 DEF Acting, Action, Plain
  <2> QED BY <2>3, <2>4
<1>8. (retcode # None => stack = <<>>)' /\ conf' \in Configs
  BY <1>3 DEF OInv
<1> QED BY <1>2, <1>4, <1>6, <1>7, <1>8 DEF OInv, Action, Plain

\* An action is given to the manager, for the first time or again.
LEMMA ScheduledStays ==
  ASSUME IInv, OInv, NEW a \in Action, ActionMove(a),
         status[a[1]] = WAITING_STATUS, UNCHANGED status,
         act_status' = [act_status EXCEPT ![a] = WAITING_STATUS]
  PROVE  Moves /\ OInv'
<1>1. a[1] \in Svc /\ Moves
  BY DEF Moves, ActionMove, Action, Plain
<1>2. /\ FinalKept /\ UNCHANGED <<conf, retcode, tagged>> /\ retcode = None
      /\ status \in [Svc -> Status] /\ act_status \in [Action -> Status]
  BY <1>1, MovesKeepFinal, EngineParts DEF ActionMove
<1>3. ~Running("action_prepare")' /\ Below' \in Seq(ServiceFrame) /\ AboutToRun'
  BY ServiceStack DEF ActionMove, AboutToRun
<1>4. /\ act_status'[a] = WAITING_STATUS
      /\ \A b \in Action \ {a} : act_status'[b] = act_status[b]
  BY <1>2
<1>5. ASSUME NEW t \in Svc
      PROVE  Deserved(t)' /\ Working(t)'
  <2>1. Deserved(t)' /\ Working(t)
    BY <1>1, DeservedStays DEF OInv
  <2>2. Working(t)'
    <3>1. CASE t = a[1]
      BY <1>2, <1>4, <2>1, <3>1, StatusNames DEF Working, Action, Plain
    <3>2. CASE t # a[1]
      <4>1. ~(Running("action_prepare") /\ Top.svc = t)
        BY <3>2 DEF ActionMove
      <4> QED BY <1>2, <1>4, <2>1, <3>2, <4>1 DEF Working, Action, Plain
    <3> QED BY <3>1, <3>2
  <2> QED BY <2>1, <2>2
<1>6. ASSUME NEW b \in Action
      PROVE  Acting(b)'
  <2>1. Acting(b) /\ b[1] \in Svc
    BY DEF OInv, Action, Plain
  <2>2. Cleared(b[1]) => Cleared(b[1])'
    BY <1>2, <2>1, ClearedStays
  <2>3. CASE b = a
    <3>1. Cleared(a[1]) /\ a[1] \in tagged
      BY <1>1 DEF OInv, Deserved, Working
    <3>2. \A c \in Action : c[1] = a[1] /\ c # a => act_status'[c] # WAITING_STATUS
      BY <1>4 DEF ActionMove, Alone
    <3> QED BY <1>2, <2>2, <2>3, <3>1, <3>2 DEF Acting, Action, Plain
  <2>4. CASE b # a
    <3>1. Launched(b)' = Launched(b) /\ act_status'[b] = act_status[b]
      BY <1>4, <2>4 DEF ActionMove, Launched
    <3>2. act_status[b] = WAITING_STATUS => b[1] # a[1]
      BY <2>4 DEF ActionMove, Alone
    <3>3. ASSUME act_status[b] = WAITING_STATUS
          PROVE  \A c \in Action : c[1] = b[1] /\ c # b =>
                   act_status'[c] # WAITING_STATUS
      BY <1>4, <2>1, <3>2, <3>3 DEF Acting
    <3> QED BY <1>2, <2>1, <2>2, <3>1, <3>3 DEF Acting, Action, Plain
  <2> QED BY <2>3, <2>4
<1>7. (retcode # None => stack = <<>>)' /\ conf' \in Configs
  BY <1>2 DEF OInv
<1> QED BY <1>1, <1>3, <1>5, <1>6, <1>7 DEF OInv, Action, Plain

LEMMA ScheduleLeavesOthers ==
  ASSUME IInv, NEW a \in Action, NEW delay, NEW mgr, NEW wks, NEW tms,
         \A b \in Action \ {a} : tms[b] = timers[b], DOMAIN tms = Action,
         Schedule(a, delay, mgr, wks, tms)
  PROVE  \A b \in Action \ {a} : tries'[b] = tries[b] /\ timers'[b] = timers[b]
BY EngineParts DEF Schedule, PerformAction, PerformDelayedAction

\* What is known when Action.prepare runs.
LEMMA PreparingActionFacts ==
  ASSUME IInv, OInv, NEW a \in Action, Running("action_prepare"), TopAction = a
  PROVE  /\ stack # <<>> /\ Top.svc = a[1] /\ Caller \in Seq(ServiceFrame)
         /\ \A b \in Action : b[1] = a[1] => act_status[b] = NO_STATUS
         /\ Alone(a) /\ retcode = None
         /\ \/ status[a[1]] = WAITING_STATUS
            \/ /\ status[a[1]] = NO_STATUS /\ target[a] = {}
               /\ Cleared(a[1]) \/ Stopped(a[1])
<1>1. stack # <<>> /\ Top.svc = a[1] /\ retcode = None
  BY DEF Running, TopAction, OInv
<1>2. /\ \A b \in Action : b[1] = a[1] => act_status[b] = NO_STATUS
      /\ \/ status[a[1]] = WAITING_STATUS
         \/ /\ status[a[1]] = NO_STATUS /\ target[a] = {}
            /\ Cleared(a[1]) \/ Stopped(a[1])
  BY <1>1 DEF OInv, AboutToRun
<1> QED BY <1>1, <1>2, CallerIsService, StatusNames DEF Alone

LEMMA ActionStepOK ==
  ASSUME NoChecks, IInv, OInv, NEW a \in Action, ActionStep(a)
  PROVE  Moves /\ OInv'
<1>1. ASSUME NEW b \in Action, PrepareSubAction(a) \/ ActionTrigger(a, b)
      PROVE  FALSE
  <2>1. stack # <<>> /\ Top.op \in {"action_deps", "action_trigger"}
    BY <1>1 DEF PrepareSubAction, ActionTrigger, Running
  <2> QED BY <2>1, CallerIsService DEF Running, ServiceFrame
<1>2. Running("action_prepare") /\ TopAction = a
  BY <1>1 DEF ActionStep, ActionPrepareAgain, SkipAction, RunAction,
              ActionNotNeeded, PrepareSubActions, PreparingAction
<1>3. /\ stack # <<>> /\ Top.svc = a[1] /\ Caller \in Seq(ServiceFrame)
      /\ act_status[a] = NO_STATUS /\ Alone(a) /\ retcode = None
      /\ \/ status[a[1]] = WAITING_STATUS
         \/ /\ status[a[1]] = NO_STATUS /\ target[a] = {}
            /\ Cleared(a[1]) \/ Stopped(a[1])
  BY <1>2, PreparingActionFacts
<1>4. CASE SkipAction(a)
  <2>1. /\ CompleteAction(a, SKIPPED, act_failed[a], Caller)
        /\ UNCHANGED <<conf, tagged, retcode, tries, timers>>
    BY <1>4 DEF SkipAction, PreparingAction, svcVars, envVars
  <2>2. /\ act_status' = [act_status EXCEPT ![a] = SKIPPED]
        /\ Write(a[1], SKIPPED) /\ stack' \in Seq(ServiceFrame)
    BY <1>3, <2>1, CompleteIsService
  <2>3. ActionMove(a)
    BY <1>3, <2>1, <2>2 DEF ActionMove
  <2>4. Finishes(a[1]) \/ Settles(a[1])
    BY <1>3, <2>2 DEF Finishes, Settles, Justified, Failed, SKIPPED, ERROR, TIMEOUT,
                      DEP_ERROR
  <2> QED BY <2>1, <2>2, <2>3, <2>4, EndedOK
<1>5. CASE RunAction(a)
  <2>1. /\ act_status' = [act_status EXCEPT ![a] = WAITING_STATUS]
        /\ Schedule(a, TRUE, manager, workers, timers)
        /\ stack' = Caller /\ Remaining(a) # {}
        /\ UNCHANGED <<status, conf, tagged, retcode>>
    BY <1>5 DEF RunAction, PreparingAction, Return, svcVars, envVars
  <2>2. target[a] # {}
    BY <2>1, NodeAssumption DEF Remaining
  <2>3. \A b \in Action \ {a} : tries'[b] = tries[b] /\ timers'[b] = timers[b]
    BY <2>1, EngineParts, ScheduleLeavesOthers
  <2>4. ActionMove(a)
    BY <1>3, <2>1, <2>3 DEF ActionMove
  <2> QED BY <1>3, <2>1, <2>2, <2>4, ScheduledStays
<1>6. ActDepsStatus(a) = MISSING /\ ToRun(a)
  BY WithoutChecks
<1>7. ~ActionPrepareAgain(a)
  BY <1>3, <1>6 DEF ActionPrepareAgain, Preparable, MISSING, WAITING_STATUS
<1>8. ~ActionNotNeeded(a) /\ ~PrepareSubActions(a)
  BY <1>6 DEF ActionNotNeeded, PrepareSubActions
<1> QED BY <1>1, <1>4, <1>5, <1>7, <1>8 DEF ActionStep
-------------------------------------------------------------------------------
(* Steps of the event loop *)

LEMMA FlightFacts ==
  ASSUME IInv, OInv, NEW a \in Action, InEventLoop, workers[a] + timers[a] > 0
  PROVE  /\ a[1] \in Svc /\ act_status[a] = WAITING_STATUS
         /\ status[a[1]] = WAITING_STATUS /\ Alone(a)
         /\ ~Running("action_prepare") /\ retcode = None
<1>1. act_status[a] = WAITING_STATUS /\ a[1] \in Svc
  BY FlightIsWaiting, EngineParts DEF Action, Plain
<1> QED BY <1>1 DEF OInv, Acting, Alone, InEventLoop, Running

LEMMA EventStepOK ==
  ASSUME NoChecks, IInv, OInv, NEW a \in Action, EventStep(a)
  PROVE  Moves /\ OInv'
<1>1. InEventLoop /\ (timers[a] > 0 \/ workers[a] > 0)
  BY DEF EventStep, Fire, Retry, Close, Closing
<1>2. workers[a] \in Nat /\ timers[a] \in Nat
  BY EngineParts
<1>3. /\ a[1] \in Svc /\ act_status[a] = WAITING_STATUS
      /\ status[a[1]] = WAITING_STATUS /\ Alone(a)
      /\ ~Running("action_prepare") /\ retcode = None
  BY <1>1, <1>2, FlightFacts
<1>4. stack = <<>> /\ <<>> \in Seq(ServiceFrame)
  BY <1>1 DEF InEventLoop
<1>5. CASE Fire(a) \/ \E r \in Results(a) : Retry(a, r)
  <2>1. UNCHANGED <<conf, tagged, retcode, status, act_status, stack>>
    BY <1>5 DEF Fire, Retry, Closing, svcVars, envVars
  <2>2. \A b \in Action \ {a} : tries'[b] = tries[b] /\ timers'[b] = timers[b]
    <3>1. CASE Fire(a)
      <4> DEFINE tms == [timers EXCEPT ![a] = @ - 1]
      <4>1. Schedule(a, FALSE, manager, workers, tms)
        BY <3>1 DEF Fire
      <4>2. DOMAIN tms = Action /\ \A b \in Action \ {a} : tms[b] = timers[b]
        BY EngineParts
      <4> HIDE DEF tms
      <4> QED BY <4>1, <4>2, ScheduleLeavesOthers
    <3>2. CASE \E r \in Results(a) : Retry(a, r)
      <4>1. Schedule(a, TRUE, RemoveTask(manager, a),
                     [workers EXCEPT ![a] = @ - 1], timers)
        BY <3>2 DEF Retry
      <4> QED BY <4>1, EngineParts, ScheduleLeavesOthers
    <3> QED BY <1>5, <3>1, <3>2
  <2>3. act_status' = [act_status EXCEPT ![a] = WAITING_STATUS]
    BY <1>3, <2>1, EngineParts
  <2>4. ActionMove(a)
    BY <1>3, <1>4, <2>1, <2>2 DEF ActionMove
  <2> QED BY <1>3, <2>1, <2>3, <2>4, ScheduledStays
<1>6. ASSUME NEW r \in Results(a), Close(a, r)
      PROVE  Moves /\ OInv'
  <2> DEFINE st == Outcome(a, r)
  <2>1. /\ CompleteAction(a, st, Spoiled(a, r), <<>>)
        /\ UNCHANGED <<conf, tagged, retcode, tries, timers>>
    BY <1>6 DEF Close, Closing, svcVars
  <2>2. st \in {TIMEOUT, ERROR, WARNING, DONE}
    BY OutcomeFinal
  <2> HIDE DEF st
  <2>3. /\ act_status' = [act_status EXCEPT ![a] = st]
        /\ Write(a[1], st) /\ stack' \in Seq(ServiceFrame)
    BY <1>4, <2>1, CompleteIsService
  <2>4. ActionMove(a)
    BY <1>3, <2>1, <2>3 DEF ActionMove
  <2>5. Finishes(a[1])
    BY <1>3, <2>2, <2>3, EngineParts DEF Finishes
  <2> QED BY <2>1, <2>2, <2>3, <2>4, <2>5, EndedOK
<1> QED BY <1>5, <1>6 DEF EventStep

\* A step that leaves the services and actions alone.
LEMMA IdleStepOK ==
  ASSUME IInv, OInv,
         UNCHANGED <<conf, status, act_status, tagged, target, tries, timers, stack>>,
         UNCHANGED retcode \/ stack = <<>>
  PROVE  Moves /\ OInv'
<1>1. Moves
  BY DEF Moves
<1>2. /\ Below' = Below /\ AboutToRun'
      /\ Running("action_prepare")' = Running("action_prepare")
  BY DEF OInv, AboutToRun, Below, Caller, Running, Top, TopAction, Cleared, Stopped,
         Deps, Action, Plain
<1>3. \A s \in Svc : Deserved(s)' /\ Working(s)'
  BY <1>1, <1>2, DeservedStays DEF OInv, Working, Top, Action, Plain
<1>4. \A a \in Action : Acting(a)'
  BY DEF OInv, Acting, Launched, Cleared, Deps, Action, Plain
<1> QED BY <1>1, <1>2, <1>3, <1>4 DEF OInv, Action, Plain

LEMMA OrderInit == Init => OInv
<1> SUFFICES ASSUME Init PROVE OInv
  OBVIOUS
<1>1. /\ conf \in Configs /\ retcode = None /\ tagged = {}
      /\ stack = <<Call("prepare", MAIN, conf.request, {})>>
      /\ \A a \in Action : /\ act_status[a] = NO_STATUS
                           /\ tries[a] = 0 /\ timers[a] = 0
      /\ \A s \in Svc : status[s] \in {LOCKED, NO_STATUS}
  BY DEF Init
<1>2. ~Running("action_prepare") /\ Below \in Seq(ServiceFrame)
  <2>1. MAIN \in Svc /\ conf.request \in Name
    BY <1>1, ConfigAssumption, StructureAssumption DEF ConfigOK
  <2>2. Call("prepare", MAIN, conf.request, {}) \in ServiceFrame
    BY <2>1, ServiceCall
  <2>3. stack \in Seq(ServiceFrame) /\ Top.op = "prepare"
    BY <1>1, <2>2 DEF Top, Call
  <2> QED BY <2>3 DEF Below, Running
<1>3. \A s \in Svc : Deserved(s) /\ Working(s)
  BY <1>1, StatusNames DEF Deserved, Working
<1>4. \A a \in Action : Acting(a)
  BY <1>1, StatusNames DEF Acting, Launched
<1> QED BY <1>1, <1>2, <1>3, <1>4 DEF OInv, AboutToRun

LEMMA OrderNext ==
  ASSUME NoChecks
  PROVE  IInv /\ OInv /\ [Next]_vars => Moves /\ OInv'
<1> SUFFICES ASSUME IInv, OInv, [Next]_vars PROVE Moves /\ OInv'
  OBVIOUS
<1>1. ASSUME NEW s \in Svc, ServiceStep(s)
      PROVE  Moves /\ OInv'
  <2>1. \/ PrepareAgain(s) \/ PrepareDeps(s) \/ PrepareWaits(s)
        \/ LaunchMissing(s) \/ LaunchSkipped(s) \/ LaunchDepError(s)
        \/ LaunchAction(s) \/ LaunchGate(s) \/ LaunchInternal(s)
        \/ \E t \in Svc : PrepareDep(s, t) \/ Trigger(s, t)
    BY <1>1 DEF ServiceStep
  <2>2. CASE LaunchAction(s) \/ (s \notin Group /\ LaunchSkipped(s))
    BY <2>2, LaunchActionOK
  <2>3. CASE ~(LaunchAction(s) \/ (s \notin Group /\ LaunchSkipped(s)))
    BY <2>1, <2>3, ServicePrepareMoves, LoopMoves, ServiceMoveOK
  <2> QED BY <2>2, <2>3
<1>2. CASE EndLoop
  BY <1>2, EndLoopMoves, ServiceMoveOK
<1>3. CASE Exit
  <2>1. UNCHANGED <<conf, status, act_status, tagged, target, tries, timers, stack>>
        /\ stack = <<>>
    BY <1>3 DEF Exit, svcVars, actVars, MasterTaskDone, InEventLoop
  <2> QED BY <2>1, IdleStepOK
<1>4. CASE UNCHANGED vars
  BY <1>4, IdleStepOK DEF vars
<1> QED BY <1>1, <1>2, <1>3, <1>4, ActionStepOK, EventStepOK
        DEF Next, Step, Terminated
-------------------------------------------------------------------------------
(* Theorems *)

\* The invariant of this module, on top of that of Engine_proofs.
THEOREM OrderInvariant ==
  ASSUME NoNegativeFanout, NoChecks
  PROVE  Spec => [](IInv /\ OInv)
<1>1. Init => IInv /\ OInv
  BY InitOK, OrderInit
<1>2. IInv /\ OInv /\ [Next]_vars => IInv' /\ OInv'
  BY NextOK, OrderNext
<1> QED BY <1>1, <1>2, PTL DEF Spec

\* A service that reached a final status (update_status) keeps it until the call
\* ends, whatever triggers it or prepares it again.
THEOREM FinalStatusKept ==
  ASSUME NoNegativeFanout, NoChecks
  PROVE  Spec => FinalStatusStable
<1>1. IInv /\ OInv /\ [Next]_vars =>
        [\A s \in Svc : Final(status[s]) => status'[s] = status[s]]_status
  BY OrderNext, MovesKeepFinal, EngineParts DEF FinalKept
<1> QED BY <1>1, OrderInvariant, PTL DEF Spec, FinalStatusStable

\* DEP_ERROR (Service.prepare) always has a strong dependency that failed, and a
\* service with one never passes or runs.
THEOREM DepErrorJustifiedHolds ==
  ASSUME NoNegativeFanout, NoChecks
  PROVE  Spec => []DepErrorJustified
<1>1. IInv /\ OInv => DepErrorJustified
  <2> SUFFICES ASSUME IInv, OInv, NEW s \in Svc
               PROVE  LET causes(e) == {t \in DOMAIN Deps(e) :
                                          IsStrong(Deps(e)[t]) /\ Failed(status[t])}
                      IN  /\ status[s] = DEP_ERROR =>
                               causes(s) # {} \/ (s \in Group /\ causes(Gate(s)) # {})
                          /\ Final(status[s]) /\ causes(s) # {} =>
                               status[s] \in {DEP_ERROR, MISSING, SKIPPED, LOCKED}
    BY DEF DepErrorJustified
  <2>1. Deserved(s) /\ status[s] \in Status
    BY EngineParts DEF OInv
  <2>2. status[s] = DEP_ERROR => Stopped(s) \/ StoppedInside(s)
    BY <2>1 DEF Deserved
  <2>3. Stopped(s) => status[s] \notin {DONE, WARNING, ERROR, TIMEOUT}
    BY <2>1 DEF Deserved, Cleared, Stopped
  <2>4. Final(status[s]) =>
          status[s] \in {DONE, WARNING, ERROR, TIMEOUT, DEP_ERROR, MISSING, SKIPPED,
                         LOCKED}
    BY <2>1 DEF Final, Status, NO_STATUS, WAITING_STATUS
  <2> QED BY <2>2, <2>3, <2>4 DEF Stopped, StoppedInside
<1> QED BY <1>1, OrderInvariant, PTL
-------------------------------------------------------------------------------
(* Refinement: the statuses as Scheduler sees them *)

LEMMA Outcomes ==
  /\ OutcomeOf(NO_STATUS) = "idle" /\ OutcomeOf(WAITING_STATUS) = "running"
  /\ \A st \in {DONE, WARNING} : OutcomeOf(st) = "passed"
  /\ \A st \in {TIMEOUT, ERROR, DEP_ERROR} : OutcomeOf(st) = "failed"
  /\ \A st \in {LOCKED, SKIPPED, MISSING} : OutcomeOf(st) = "void"
BY DEF OutcomeOf, Failed, NO_STATUS, WAITING_STATUS, DONE, WARNING, TIMEOUT, ERROR,
       DEP_ERROR, LOCKED, SKIPPED, MISSING

LEMMA OutcomeMeans ==
  ASSUME NEW st \in Status
  PROVE  /\ OutcomeOf(st) \notin {"idle", "running"} <=> Final(st)
         /\ OutcomeOf(st) = "failed" <=> Failed(st)
         /\ OutcomeOf(st) = "running" <=> st = WAITING_STATUS
BY Outcomes DEF Status, Final, Failed, NO_STATUS, WAITING_STATUS, DONE, WARNING,
                TIMEOUT, ERROR, DEP_ERROR, LOCKED, SKIPPED, MISSING

\* The variables of Scheduler.
RequiresBar == [s \in Svc |-> Strong(Deps(s))]
InsideBar == [s \in Svc |-> IF s \in Group THEN Strong(Deps(Gate(s)))
                         ELSE [t \in {} |-> FALSE]]
OutcomeBar == [s \in Svc |-> OutcomeOf(status[s])]

LEMMA StrongMeans ==
  ASSUME IInv, NEW s \in Svc
  PROVE  /\ Abstract!Allowed(Strong(Deps(s))) <=> Cleared(s)
         /\ Abstract!Forbidden(Strong(Deps(s))) <=> Stopped(s)
<1>1. DOMAIN Strong(Deps(s)) = DOMAIN Deps(s) /\ DOMAIN Deps(s) \subseteq Svc
      /\ \A t \in DOMAIN Deps(s) : Strong(Deps(s))[t] = IsStrong(Deps(s)[t])
  BY EngineParts, DepsType DEF Strong
<1>2. ASSUME NEW t \in DOMAIN Deps(s)
      PROVE  /\ OutcomeBar[t] = OutcomeOf(status[t])
             /\ Abstract!Ended(t) <=> Final(status[t])
             /\ OutcomeBar[t] = "failed" <=> Failed(status[t])
  BY <1>1, EngineParts, OutcomeMeans DEF OutcomeBar, Abstract!Ended
<1> QED BY <1>1, <1>2 DEF Abstract!Allowed, Abstract!Forbidden, Cleared, Stopped, OutcomeBar

LEMMA AbstractMeans ==
  ASSUME IInv, NEW s \in Svc
  PROVE  /\ Abstract!Allowed(RequiresBar[s]) <=> Cleared(s)
         /\ Abstract!Forbidden(RequiresBar[s]) <=> Stopped(s)
         /\ s \in Group => (Abstract!Allowed(InsideBar[s]) <=> Cleared(Gate(s)))
         /\ s \in Group => (Abstract!Forbidden(InsideBar[s]) <=> StoppedInside(s))
<1>1. RequiresBar[s] = Strong(Deps(s))
  BY DEF RequiresBar
<1>2. s \in Group => InsideBar[s] = Strong(Deps(Gate(s))) /\ Gate(s) \in Svc
  BY GateType DEF InsideBar
<1> QED BY <1>1, <1>2, StrongMeans DEF StoppedInside

\* The engine moves no service once it has returned: the stack is empty and no
\* command or timer is left.
LEMMA ReturnedIsOver ==
  ASSUME IInv, OInv, retcode # None, [Next]_vars
  PROVE  UNCHANGED <<conf, status, retcode, workers, timers>>
<1>1. stack = <<>> /\ ~InEventLoop
  BY DEF OInv, InEventLoop
<1> QED BY <1>1 DEF Next, Step, ServiceStep, ActionStep, EventStep, EndLoop, Exit,
     MasterTaskDone, Terminated, vars, PrepareAgain, PrepareDeps, PrepareWaits,
     LaunchMissing, LaunchSkipped, LaunchDepError, LaunchAction, LaunchGate,
     LaunchInternal, Launching, Preparing, PrepareDep, Trigger, ActionPrepareAgain,
     SkipAction, RunAction, ActionNotNeeded, PrepareSubActions, PreparingAction,
     PrepareSubAction, ActionTrigger, Running, Fire, Retry, Close, Closing

\* Only Exit returns.
LEMMA OnlyExitReturns ==
  ASSUME [Next]_vars, retcode = None, ~Exit
  PROVE  UNCHANGED retcode
BY DEF Next, Step, ServiceStep, ActionStep, EventStep, EndLoop,
     Terminated, vars, PrepareAgain, PrepareDeps, PrepareWaits,
     LaunchMissing, LaunchSkipped, LaunchDepError, LaunchAction, LaunchGate,
     LaunchInternal, Launching, Preparing, PrepareDep, Trigger, ActionPrepareAgain,
     SkipAction, RunAction, ActionNotNeeded, PrepareSubActions, PreparingAction,
     PrepareSubAction, ActionTrigger, Fire, Retry, Close, Closing, envVars

\* A step of the engine is a step of Scheduler or changes none of its variables.
LEMMA MoveIsMove ==
  ASSUME IInv, NEW s \in Svc, NEW st \in Status, Write(s, st),
         UNCHANGED <<conf, retcode>>, retcode = None
  PROVE  /\ OutcomeBar' = [OutcomeBar EXCEPT ![s] = OutcomeOf(st)]
         /\ OutcomeBar[s] = OutcomeOf(status[s])
         /\ UNCHANGED <<RequiresBar, InsideBar, (retcode # None)>>
         /\ ~(retcode # None)
<1>1. status' = [status EXCEPT ![s] = st] /\ status \in [Svc -> Status]
  BY EngineParts DEF Write
<1>2. OutcomeBar' = [OutcomeBar EXCEPT ![s] = OutcomeOf(st)]
  BY <1>1 DEF OutcomeBar
<1>3. UNCHANGED <<RequiresBar, InsideBar>>
  BY DEF RequiresBar, InsideBar, Deps, Gate, Strong
<1> QED BY <1>2, <1>3 DEF OutcomeBar

LEMMA StepImplements ==
  ASSUME IInv, OInv, Moves, [Next]_vars
  PROVE  [Abstract!Next]_(Abstract!vars)
<1>1. UNCHANGED conf => UNCHANGED <<RequiresBar, InsideBar>>
  BY DEF RequiresBar, InsideBar, Deps, Gate, Strong
<1>2. UNCHANGED status => UNCHANGED OutcomeBar
  BY DEF OutcomeBar
<1>3. CASE retcode # None
  <2>1. UNCHANGED <<conf, status, retcode>>
    BY <1>3, ReturnedIsOver
  <2> QED BY <1>1, <1>2, <2>1 DEF Abstract!vars, RequiresBar, InsideBar, OutcomeBar
<1>4. CASE Exit
  <2>1. /\ UNCHANGED <<conf, status>> /\ retcode = None /\ stack = <<>>
        /\ \A a \in Action : workers[a] = 0 /\ timers[a] = 0
        /\ retcode' \in {RC_OK, RC_WARNING, RC_ERROR}
    BY <1>4 DEF Exit, MasterTaskDone, InEventLoop
  <2>2. retcode' # None
    BY <2>1, RetcodeAssumption
  <2>3. \A s \in Svc : OutcomeBar[s] # "running"
    <3> SUFFICES ASSUME NEW s \in Svc, OutcomeBar[s] = "running" PROVE FALSE
      OBVIOUS
    <3>1. status[s] = WAITING_STATUS
      BY EngineParts, OutcomeMeans DEF OutcomeBar
    <3>2. PICK a \in Action : act_status[a] = WAITING_STATUS
      BY <2>1, <3>1 DEF OInv, Working, Running
    <3>3. workers[a] + timers[a] = 1
      BY <3>2 DEF IInv, ActInv, OneFlight
    <3> QED BY <2>1, <3>3
  <2>4. Abstract!Return
    BY <1>1, <1>2, <2>1, <2>2, <2>3
       DEF Abstract!Return, RequiresBar, InsideBar, OutcomeBar
  <2> QED BY <2>4 DEF Abstract!Next
<1>5. CASE retcode = None /\ ~Exit
  <2>1. UNCHANGED <<conf, retcode>>
    BY <1>5, OnlyExitReturns DEF Moves
  <2>2. CASE UNCHANGED status
    BY <1>1, <1>2, <2>1, <2>2 DEF Abstract!vars, RequiresBar, InsideBar, OutcomeBar
  <2>3. ASSUME NEW s \in Svc, Settles(s) \/ Launches(s) \/ Finishes(s)
        PROVE  Abstract!Next
    <3>1. CASE Settles(s)
      <4>1. PICK st : Justified(s, st) /\ Write(s, st) /\ status[s] = NO_STATUS
        BY <3>1 DEF Settles
      <4>2. st \in {DONE, WARNING, DEP_ERROR, MISSING, SKIPPED, LOCKED}
        BY <4>1 DEF Justified
      <4>3. st \in Status
        BY <4>2 DEF Status
      <4>4. /\ OutcomeBar' = [OutcomeBar EXCEPT ![s] = OutcomeOf(st)]
            /\ OutcomeBar[s] = "idle"
            /\ UNCHANGED <<RequiresBar, InsideBar, (retcode # None)>>
        BY <1>5, <2>1, <4>1, <4>3, MoveIsMove, Outcomes
      <4>5. ASSUME NEW o, o = OutcomeOf(st) PROVE Abstract!Move(s, "idle", o)
        BY <1>5, <4>4, <4>5 DEF Abstract!Move, RequiresBar, InsideBar, OutcomeBar
      <4>6. CASE st \in {DONE, WARNING}
        <5>1. s \in Group /\ Cleared(s) /\ Cleared(Gate(s))
          BY <4>1, <4>6, StatusNames DEF Justified
        <5>2. Abstract!Allowed(RequiresBar[s]) /\ Abstract!Allowed(InsideBar[s])
          BY <5>1, AbstractMeans
        <5>3. Abstract!Move(s, "idle", "passed")
          BY <4>5, <4>6, Outcomes
        <5>4. Abstract!Pass(s)
          BY <5>2, <5>3 DEF Abstract!Pass, RequiresBar, InsideBar
        <5> QED BY <5>4 DEF Abstract!Next
      <4>7. CASE st = DEP_ERROR
        <5>1. Stopped(s) \/ StoppedInside(s)
          BY <4>1, <4>7, StatusNames DEF Justified
        <5>2. Abstract!Forbidden(RequiresBar[s]) \/ Abstract!Forbidden(InsideBar[s])
          BY <5>1, AbstractMeans DEF StoppedInside
        <5>3. Abstract!Move(s, "idle", "failed")
          BY <4>5, <4>7, Outcomes
        <5>4. Abstract!Refuse(s)
          BY <5>2, <5>3 DEF Abstract!Refuse, RequiresBar, InsideBar
        <5> QED BY <5>4 DEF Abstract!Next
      <4>8. CASE st \in {MISSING, SKIPPED, LOCKED}
        <5>1. Cleared(s) \/ Stopped(s) \/ StoppedInside(s)
          BY <4>1, <4>8, StatusNames DEF Justified
        <5>2. \/ Abstract!Allowed(RequiresBar[s])
              \/ Abstract!Forbidden(RequiresBar[s]) \/ Abstract!Forbidden(InsideBar[s])
          BY <5>1, AbstractMeans DEF StoppedInside
        <5>3. Abstract!Move(s, "idle", "void")
          BY <4>5, <4>8, Outcomes
        <5>4. Abstract!Ignore(s)
          BY <5>2, <5>3 DEF Abstract!Ignore, RequiresBar, InsideBar
        <5> QED BY <5>4 DEF Abstract!Next
      <4> QED BY <4>2, <4>6, <4>7, <4>8
    <3>2. CASE Launches(s)
      <4>1. Write(s, WAITING_STATUS) /\ status[s] = NO_STATUS /\ Cleared(s)
            /\ WAITING_STATUS \in Status
        BY <3>2 DEF Launches, Status
      <4>2. /\ OutcomeBar' = [OutcomeBar EXCEPT ![s] = "running"]
            /\ OutcomeBar[s] = "idle"
            /\ UNCHANGED <<RequiresBar, InsideBar, (retcode # None)>>
        BY <1>5, <2>1, <4>1, MoveIsMove, Outcomes
      <4>3. Abstract!Move(s, "idle", "running")
        BY <1>5, <4>2 DEF Abstract!Move, RequiresBar, InsideBar, OutcomeBar
      <4>4. Abstract!Launch(s)
        BY <4>1, <4>3, AbstractMeans DEF Abstract!Launch, RequiresBar
      <4> QED BY <4>4 DEF Abstract!Next
    <3>3. CASE Finishes(s)
      <4>1. PICK st \in {DONE, WARNING, ERROR, TIMEOUT, SKIPPED} :
              Write(s, st) /\ status[s] = WAITING_STATUS
        BY <3>3 DEF Finishes
      <4>2. st \in Status /\ OutcomeOf(st) \in {"passed", "failed", "void"}
        BY Outcomes DEF Status
      <4>3. /\ OutcomeBar' = [OutcomeBar EXCEPT ![s] = OutcomeOf(st)]
            /\ OutcomeBar[s] = "running"
            /\ UNCHANGED <<RequiresBar, InsideBar, (retcode # None)>>
        BY <1>5, <2>1, <4>1, <4>2, MoveIsMove, Outcomes
      <4>4. Abstract!Move(s, "running", OutcomeOf(st))
        BY <1>5, <4>3 DEF Abstract!Move, RequiresBar, InsideBar, OutcomeBar
      <4>5. Abstract!Finish(s)
        BY <4>2, <4>4 DEF Abstract!Finish
      <4> QED BY <4>5 DEF Abstract!Next
    <3> QED BY <2>3, <3>1, <3>2, <3>3
  <2> QED BY <2>2, <2>3 DEF Moves
<1> QED BY <1>3, <1>4, <1>5

LEMMA InitImplements == Init => Abstract!Init
<1> SUFFICES ASSUME Init PROVE Abstract!Init
  OBVIOUS
<1>1. \A s \in Svc : OutcomeOf(status[s]) \in {"idle", "void"}
  BY Outcomes DEF Init
<1>2. OutcomeBar \in [Svc -> {"idle", "void"}] /\ ~(retcode # None)
  BY <1>1 DEF OutcomeBar, Init
<1>3. (retcode # None) = FALSE
  BY <1>2
<1> QED BY <1>2, <1>3 DEF Abstract!Init, OutcomeBar

\* The engine (prepare, _launch_action, update_status, the event loop) implements
\* Scheduler, for any graph, results and order of visit.
THEOREM EngineImplements ==
  ASSUME NoNegativeFanout, NoChecks
  PROVE  Spec => Implements
<1>1. IInv /\ OInv /\ [Next]_vars => [Abstract!Next]_(Abstract!vars)
  BY OrderNext, StepImplements
<1> QED BY <1>1, InitImplements, OrderInvariant, PTL DEF Spec, Implements, Abstract!Spec
-------------------------------------------------------------------------------
(* Failures *)

\* An action that failed stays so.
LEMMA FailedActionsStay ==
  ASSUME IInv, [Next]_vars, NEW a \in Action, act_status[a] \in {ERROR, TIMEOUT}
  PROVE  act_status'[a] = act_status[a]
<1>1. act_status[a] \notin {NO_STATUS, WAITING_STATUS} /\ act_status \in [Action -> Status]
  BY EngineParts DEF ERROR, TIMEOUT, NO_STATUS, WAITING_STATUS
<1>2. ASSUME NEW b \in Action, ActionStep(b) PROVE act_status'[a] = act_status[a]
  <2>1. UNCHANGED act_status
        \/ \E st : act_status' = [act_status EXCEPT ![b] = st] /\ Preparable(b)
    BY <1>2 DEF ActionStep, ActionPrepareAgain, SkipAction, RunAction, ActionNotNeeded,
       PrepareSubActions, PreparingAction, PrepareSubAction, ActionTrigger,
       CompleteAction, actVars
  <2> QED BY <1>1, <2>1 DEF Preparable
<1>3. ASSUME NEW b \in Action, EventStep(b) PROVE act_status'[a] = act_status[a]
  <2>1. CASE Fire(b) \/ \E r \in Results(b) : Retry(b, r)
    BY <2>1 DEF Fire, Retry
  <2>2. ASSUME NEW r \in Results(b), Close(b, r) PROVE act_status'[a] = act_status[a]
    <3>1. /\ act_status' = [act_status EXCEPT ![b] = Outcome(b, r)]
          /\ workers[b] > 0 /\ workers[b] \in Nat /\ timers[b] \in Nat
      BY <2>2, EngineParts DEF Close, Closing, CompleteAction
    <3>2. act_status[b] = WAITING_STATUS
      BY <3>1, EngineParts, FlightIsWaiting
    <3> QED BY <1>1, <3>1, <3>2
  <2> QED BY <1>3, <2>1, <2>2 DEF EventStep
<1>4. ASSUME NEW s \in Svc, ServiceStep(s) PROVE UNCHANGED act_status
  BY <1>4 DEF ServiceStep, PrepareAgain, PrepareDeps, PrepareWaits, LaunchMissing,
     LaunchSkipped, LaunchDepError, LaunchAction, LaunchGate, LaunchInternal, Launching,
     Preparing, PrepareDep, Trigger, actVars
<1>5. CASE EndLoop \/ Exit \/ UNCHANGED vars
  BY <1>5 DEF EndLoop, Exit, actVars, vars
<1> QED BY <1>2, <1>3, <1>4, <1>5 DEF Next, Step, Terminated

\* A service that fails takes over the failure of an action, or has one that failed
\* before it among what it depends on.
LEMMA FailuresStep ==
  ASSUME NoChecks, IInv, OInv, FailuresHaveCommand, [Next]_vars
  PROVE  FailuresHaveCommand'
<1> DEFINE some == \E a \in Action : act_status[a] \in {ERROR, TIMEOUT}
           fail == \E t \in Svc : Failed(status[t])
<1>1. some => some'
  BY FailedActionsStay
<1>2. Moves /\ (fail => some) /\ (retcode = RC_ERROR => some)
  BY OrderNext DEF FailuresHaveCommand
<1>3. ASSUME NEW s \in Svc, Failed(status'[s]), ~Failed(status[s])
      PROVE  some'
  <2>1. status \in [Svc -> Status]
    BY EngineParts
  <2>2. Settles(s) \/ Launches(s) \/ Finishes(s)
    BY <1>2, <1>3, <2>1 DEF Moves, Settles, Launches, Finishes, Write
  <2>3. CASE Settles(s)
    <3>1. PICK st : Justified(s, st) /\ status'[s] = st
      BY <2>1, <2>3 DEF Settles, Write
    <3>2. Stopped(s) \/ StoppedInside(s)
      BY <1>3, <3>1, StatusNames DEF Justified, Failed, DEP_ERROR, DONE, WARNING,
         MISSING, SKIPPED, LOCKED, ERROR, TIMEOUT
    <3>3. PICK t \in {s} \cup {Gate(g) : g \in {s} \cap Group} : Stopped(t)
      BY <3>2 DEF StoppedInside
    <3>4. t \in Svc
      BY GateType
    <3>5. fail
      BY <3>3, <3>4, EngineParts, DepsType DEF Stopped
    <3> QED BY <1>1, <1>2, <3>5
  <2>4. CASE Launches(s)
    BY <1>3, <2>1, <2>4, StatusNames DEF Launches, Write
  <2>5. CASE Finishes(s)
    <3>1. PICK st \in {DONE, WARNING, ERROR, TIMEOUT, SKIPPED} :
            status'[s] = st /\ (Failed(st) => \E a \in Action : act_status'[a] = st)
      BY <2>1, <2>5 DEF Finishes, Write
    <3>2. st \in {ERROR, TIMEOUT}
      BY <1>3, <3>1 DEF Failed, DEP_ERROR, DONE, WARNING, SKIPPED, ERROR, TIMEOUT
    <3> QED BY <1>3, <3>1, <3>2
  <2> QED BY <2>2, <2>3, <2>4, <2>5
<1>4. ASSUME retcode' = RC_ERROR, retcode # RC_ERROR
      PROVE  fail
  <2>1. retcode = None => Exit
    <3>1. retcode' # None
      BY <1>4, RetcodeAssumption
    <3> QED BY <3>1, OnlyExitReturns
  <2>2. retcode # None => UNCHANGED retcode
    BY ReturnedIsOver
  <2>3. Exit
    BY <1>4, <2>1, <2>2
  <2>4. status[MAIN] \in {DEP_ERROR, ERROR}
    BY <1>4, <2>3 DEF Exit, RC_OK, RC_WARNING, RC_ERROR
  <2> QED BY <2>4, StructureAssumption DEF Failed
<1> QED BY <1>1, <1>2, <1>3, <1>4 DEF FailuresHaveCommand

\* However far an error travels (eval_deps_status, update_status, retcode), it comes
\* from a command that failed or timed out.
THEOREM FailuresHaveCommandHolds ==
  ASSUME NoNegativeFanout, NoChecks
  PROVE  Spec => []FailuresHaveCommand
<1>1. Init => FailuresHaveCommand
  <2> SUFFICES ASSUME Init PROVE FailuresHaveCommand
    OBVIOUS
  <2>1. retcode # RC_ERROR
    BY RetcodeAssumption DEF Init
  <2>2. \A s \in Svc : ~Failed(status[s])
    BY DEF Init, Failed, LOCKED, NO_STATUS, ERROR, TIMEOUT, DEP_ERROR
  <2> QED BY <2>1, <2>2 DEF FailuresHaveCommand
<1>2. IInv /\ OInv /\ FailuresHaveCommand /\ [Next]_vars => FailuresHaveCommand'
  BY FailuresStep
<1> QED BY <1>1, <1>2, OrderInvariant, PTL DEF Spec
-------------------------------------------------------------------------------
(* Groups: what is inside one is prepared when the group can run *)

Entered(s) == \A g \in Group \ {MAIN} : s \in Region(conf, g) => Cleared(g)

Entering ==
  {f \in Frame :
     /\ f.op \in {"prepare", "prepare_deps"} => Entered(f.svc)
     /\ f.op = "prepare_deps" => f.todo \subseteq DOMAIN Deps(f.svc)}

EInv == /\ \A s \in tagged : Entered(s)
        /\ stack \in Seq(Entering)

LEMMA EnteredStays ==
  ASSUME IInv, FinalKept, UNCHANGED conf
  PROVE  /\ \A s \in Svc : Entered(s) => Entered(s)'
         /\ \A seq : seq \in Seq(Entering) => seq \in Seq(Entering)'
<1>1. ASSUME NEW s \in Svc, Entered(s) PROVE Entered(s)'
  <2> SUFFICES ASSUME NEW g \in Group \ {MAIN}, s \in Region(conf', g)
               PROVE  Cleared(g)'
    BY DEF Entered, Region, GateOf
  <2>1. g \in Svc /\ s \in Region(conf, g)
    BY StructureAssumption
  <2> QED BY <1>1, <2>1, ClearedStays DEF Entered
<1>2. Entering \subseteq Entering'
  <2> SUFFICES ASSUME NEW f \in Frame,
                      f.op \in {"prepare", "prepare_deps"} => Entered(f.svc),
                      f.op = "prepare_deps" => f.todo \subseteq DOMAIN Deps(f.svc)
               PROVE  /\ f.op \in {"prepare", "prepare_deps"} => Entered(f.svc)'
                      /\ f.op = "prepare_deps" =>
                           f.todo \subseteq DOMAIN Deps(f.svc)'
    BY DEF Entering, Frame
  <2>1. f.svc \in Svc
    BY DEF Frame
  <2> QED BY <1>1, <2>1, ClearedStays
<1>3. ASSUME NEW seq, seq \in Seq(Entering) PROVE seq \in Seq(Entering)'
  BY <1>2, <1>3
<1> QED BY <1>1, <1>3

LEMMA EnteringCall ==
  ASSUME NEW op \in {"prepare", "prepare_deps", "trigger", "action_prepare"},
         NEW s \in Svc, NEW n \in {None} \cup Name, NEW todo, todo \in SUBSET Svc,
         op \in {"prepare", "prepare_deps"} => Entered(s),
         op = "prepare_deps" => todo \subseteq DOMAIN Deps(s)
  PROVE  Call(op, s, n, todo) \in Entering
<1>1. todo \in (SUBSET Svc) \cup (SUBSET Action)
  OBVIOUS
<1>2. Call(op, s, n, todo) \in Frame
  BY <1>1 DEF Call, Frame
<1> QED BY <1>2 DEF Call, Entering

LEMMA TopIsEntering ==
  ASSUME EInv, stack # <<>>
  PROVE  Top \in Entering /\ Caller \in Seq(Entering)
BY HeadTailProperties DEF EInv, Top, Caller

LEMMA VisitIsEntering ==
  ASSUME EInv, stack # <<>>, NEW x, NEW frames \in Seq(Entering), Visit(x, frames)
  PROVE  stack' \in Seq(Entering)
<1> DEFINE left == Call(Top.op, Top.svc, Top.act, Top.todo \ {x})
<1>1. Top \in Entering /\ Caller \in Seq(Entering)
  BY TopIsEntering
<1>2. left \in Entering
  <2>1. Top.todo \ {x} \in (SUBSET Svc) \cup (SUBSET Action)
    BY <1>1 DEF Entering, Frame
  <2>2. left \in Frame
    BY <1>1, <2>1 DEF Entering, Frame, Call
  <2> QED BY <1>1, <2>2 DEF Entering, Call
<1> HIDE DEF left
<1>3. stack' = frames \o <<left>> \o Caller
  BY DEF Visit, left
<1>4. frames \o <<left>> \in Seq(Entering)
  BY <1>2, ConcatProperties
<1>5. (frames \o <<left>>) \o Caller \in Seq(Entering)
  BY <1>1, <1>4, ConcatProperties
<1> QED BY <1>3, <1>5

LEMMA UpdateIsEntering ==
  ASSUME IInv, NEW s \in Svc, NEW st, NEW caller \in Seq(Entering),
         UpdateStatus(s, st, caller)
  PROVE  stack' \in Seq(Entering)
<1>1. Call("trigger", s, None, DOMAIN Dependents(s)) \in Entering
  BY EngineParts, DepsType, EnteringCall
<1>2. <<Call("trigger", s, None, DOMAIN Dependents(s))>> \o caller \in Seq(Entering)
  BY <1>1, PushIsGood
<1> QED BY <1>2 DEF UpdateStatus

\* A service is prepared as a dependency of one that is inside, or as the gate of
\* a group that can run.
LEMMA DepIsEntered ==
  ASSUME AllNested, OInv, NEW s \in Svc, Entered(s), NEW t \in DOMAIN Deps(s)
  PROVE  Entered(t)
<1> SUFFICES ASSUME NEW g \in Group \ {MAIN}, t \in Region(conf, g)
             PROVE  Cleared(g)
  BY DEF Entered
<1>1. NestedIn(conf, g)
  BY DEF AllNested, OInv
<1>2. s \in Region(conf, g)
  BY <1>1 DEF NestedIn, DepsOf, Deps
<1> QED BY <1>2 DEF Entered

LEMMA GateIsEntered ==
  ASSUME AllNested, OInv, NEW g \in Group, Entered(g), Cleared(g)
  PROVE  Entered(Gate(g))
<1> SUFFICES ASSUME NEW h \in Group \ {MAIN}, Gate(g) \in Region(conf, h)
             PROVE  Cleared(h)
  BY DEF Entered
<1>1. NestedIn(conf, h)
  BY DEF AllNested, OInv
<1>2. GateOf(conf, g) \in Region(conf, h)
  BY DEF Gate, GateOf
<1>3. h = g \/ g \in Region(conf, h)
  BY <1>1, <1>2 DEF NestedIn
<1> QED BY <1>3 DEF Entered

\* What a step of Service.prepare pushes.
LEMMA PrepareEnters ==
  ASSUME AllNested, IInv, OInv, EInv, NEW s \in Svc,
         \/ PrepareAgain(s) \/ PrepareDeps(s) \/ PrepareWaits(s)
         \/ LaunchMissing(s) \/ LaunchSkipped(s) \/ LaunchDepError(s)
         \/ LaunchAction(s) \/ LaunchGate(s) \/ LaunchInternal(s)
  PROVE  tagged' = tagged \cup {s} /\ Entered(s) /\ stack' \in Seq(Entering)
<1>1. Preparing(s)
  BY DEF PrepareAgain, PrepareDeps, PrepareWaits, LaunchMissing, LaunchSkipped,
         LaunchDepError, LaunchAction, LaunchGate, LaunchInternal, Launching
<1>2. /\ stack # <<>> /\ Top.op = "prepare" /\ Top.svc = s
      /\ tagged' = tagged \cup {s} /\ Requested(s) \in Name
  BY <1>1, PreparingFacts DEF Preparing, Running
<1>3. Entered(s) /\ Caller \in Seq(Entering)
  BY <1>2, TopIsEntering DEF Entering
<1>4. Call("action_prepare", s, Requested(s), {}) \in Entering
  BY <1>2, EnteringCall
<1>5. <<Call("action_prepare", s, Requested(s), {})>> \o Caller \in Seq(Entering)
  BY <1>3, <1>4, PushIsGood
<1>6. ASSUME NEW st, NEW caller \in Seq(Entering), UpdateStatus(s, st, caller)
      PROVE  stack' \in Seq(Entering)
  BY <1>6, UpdateIsEntering
<1>7. CASE \/ PrepareAgain(s) \/ PrepareWaits(s) \/ LaunchMissing(s)
           \/ LaunchDepError(s) \/ LaunchInternal(s) \/ LaunchSkipped(s)
           \/ LaunchAction(s)
  BY <1>2, <1>3, <1>5, <1>6, <1>7
     DEF PrepareAgain, PrepareWaits, LaunchMissing, LaunchDepError, LaunchInternal,
         LaunchSkipped, LaunchAction, Return
<1>8. CASE PrepareDeps(s)
  <2>1. Unprocessed(s) \in SUBSET Svc /\ Unprocessed(s) \subseteq DOMAIN Deps(s)
    BY EngineParts, DepsType DEF Unprocessed, SearchDeps
  <2>2. Call("prepare_deps", s, None, Unprocessed(s)) \in Entering
    BY <1>3, <2>1, EnteringCall
  <2>3. <<Call("prepare_deps", s, None, Unprocessed(s))>> \o Caller \in Seq(Entering)
    BY <1>3, <2>2, PushIsGood
  <2> QED BY <1>2, <1>3, <1>8, <2>3 DEF PrepareDeps
<1>9. CASE LaunchGate(s)
  <2>1. s \in Group /\ Launching(s) /\ SvcDepsStatus(s) # DEP_ERROR
        /\ stack' = <<Call("prepare", Gate(s), Requested(s), {})>> \o Caller
    BY <1>9 DEF LaunchGate
  <2>2. Entered(Gate(s)) /\ Gate(s) \in Svc
    BY <1>3, <2>1, LaunchFacts, GateIsEntered, GateType
  <2>3. Call("prepare", Gate(s), Requested(s), {}) \in Entering
    BY <1>2, <2>2, EnteringCall
  <2>4. <<Call("prepare", Gate(s), Requested(s), {})>> \o Caller \in Seq(Entering)
    BY <1>3, <2>3, PushIsGood
  <2> QED BY <1>2, <1>3, <2>1, <2>4
<1> QED BY <1>7, <1>8, <1>9

\* The loops prepare what a service depends on, or what was prepared before.
LEMMA LoopEnters ==
  ASSUME AllNested, IInv, OInv, EInv, NEW s \in Svc, NEW t \in Svc,
         PrepareDep(s, t) \/ Trigger(s, t)
  PROVE  tagged' = tagged /\ stack' \in Seq(Entering)
<1>1. tagged' = tagged /\ stack # <<>> /\ Top \in Entering
  BY TopIsEntering DEF PrepareDep, Trigger, Running, svcVars
<1>2. CASE PrepareDep(s, t)
  <2> DEFINE n == IF IsCheck(Deps(s)[t]) THEN STATUS ELSE last_action[s]
  <2>1. /\ Top.op = "prepare_deps" /\ Top.svc = s /\ t \in Top.todo
        /\ Visit(t, <<Call("prepare", t, n, {})>>)
    BY <1>2 DEF PrepareDep, Running
  <2>2. Entered(t)
    BY <1>1, <2>1, DepIsEntered DEF Entering
  <2>3. n \in {None} \cup Name
    BY NameAssumption, EngineParts DEF SvcInv
  <2> HIDE DEF n
  <2>4. Call("prepare", t, n, {}) \in Entering
    BY <2>2, <2>3, EnteringCall
  <2>5. <<Call("prepare", t, n, {})>> \in Seq(Entering)
    BY <2>4
  <2> QED BY <1>1, <2>1, <2>5, VisitIsEntering
<1>3. CASE Trigger(s, t)
  <2>1. Visit(t, <<>>) \/ (t \in tagged /\ Visit(t, <<Call("prepare", t, None, {})>>))
    BY <1>3 DEF Trigger
  <2>2. ASSUME t \in tagged PROVE <<Call("prepare", t, None, {})>> \in Seq(Entering)
    <3>1. Entered(t)
      BY <2>2 DEF EInv
    <3>2. Call("prepare", t, None, {}) \in Entering
      BY <3>1, EnteringCall
    <3> QED BY <3>2
  <2>3. <<>> \in Seq(Entering)
    OBVIOUS
  <2> QED BY <1>1, <2>1, <2>2, <2>3, VisitIsEntering
<1> QED BY <1>2, <1>3

\* Actions prepare nothing.
LEMMA ActionsEnterNothing ==
  ASSUME NoChecks, IInv, OInv, EInv, NEW a \in Action, ActionStep(a) \/ EventStep(a)
  PROVE  tagged' = tagged /\ stack' \in Seq(Entering)
<1>1. /\ ActDependents(a) = {} /\ ActDepsStatus(a) = MISSING /\ ToRun(a)
      /\ a[1] \in Svc
  BY WithoutChecks DEF Action, Plain
<1>2. ASSUME NEW st, NEW failed, NEW caller \in Seq(Entering),
             CompleteAction(a, st, failed, caller)
      PROVE  stack' \in Seq(Entering)
  <2>1. UpdateStatus(a[1], st, caller)
    BY <1>1, <1>2 DEF CompleteAction
  <2> QED BY <1>1, <2>1, UpdateIsEntering
<1>3. CASE EventStep(a)
  <2>1. stack = <<>> /\ tagged' = tagged
    BY <1>3 DEF EventStep, Fire, Retry, Close, Closing, InEventLoop, svcVars
  <2>2. <<>> \in Seq(Entering)
    OBVIOUS
  <2>3. CASE Fire(a) \/ \E r \in Results(a) : Retry(a, r)
    BY <2>1, <2>2, <2>3 DEF Fire, Retry
  <2>4. ASSUME NEW r \in Results(a), Close(a, r) PROVE stack' \in Seq(Entering)
    <3>1. CompleteAction(a, Outcome(a, r), Spoiled(a, r), <<>>)
      BY <2>4 DEF Close
    <3> QED BY <1>2, <2>2, <3>1
  <2> QED BY <1>3, <2>1, <2>3, <2>4 DEF EventStep
<1>4. CASE ActionStep(a)
  <2>1. ASSUME NEW b \in Action, PrepareSubAction(a) \/ ActionTrigger(a, b)
        PROVE  FALSE
    <3>1. stack # <<>> /\ Top.op \in {"action_deps", "action_trigger"}
      BY <2>1 DEF PrepareSubAction, ActionTrigger, Running
    <3> QED BY <3>1, CallerIsService DEF Running, ServiceFrame
  <2>2. ~ActionNotNeeded(a) /\ ~PrepareSubActions(a)
    BY <1>1 DEF ActionNotNeeded, PrepareSubActions
  <2>3. ActionPrepareAgain(a) \/ SkipAction(a) \/ RunAction(a)
    BY <1>4, <2>1, <2>2 DEF ActionStep
  <2>4. stack # <<>> /\ tagged' = tagged
    BY <2>3 DEF ActionPrepareAgain, SkipAction, RunAction, PreparingAction, Running,
                svcVars
  <2>5. Caller \in Seq(Entering)
    BY <2>4, TopIsEntering
  <2> QED BY <1>2, <2>3, <2>4, <2>5
          DEF ActionPrepareAgain, SkipAction, RunAction, Return
<1> QED BY <1>3, <1>4

LEMMA EnteringInit == Init => EInv
<1> SUFFICES ASSUME Init PROVE EInv
  OBVIOUS
<1>1. conf.request \in Name /\ MAIN \in Svc
  BY ConfigAssumption, StructureAssumption DEF Init, ConfigOK
<1>2. Entered(MAIN)
  <2> SUFFICES ASSUME NEW g \in Group \ {MAIN}, MAIN \in Region(conf, g) PROVE FALSE
    BY DEF Entered
  <2>1. MAIN \notin Inner[g]
    BY StructureAssumption
  <2>2. PICK h \in {g} \cup (Inner[g] \cap Group) : MAIN = GateOf(conf, h)
    BY <2>1 DEF Region
  <2> QED BY <2>2, StructureAssumption DEF GateOf
<1>3. Call("prepare", MAIN, conf.request, {}) \in Entering
  BY <1>1, <1>2, EnteringCall
<1> QED BY <1>3 DEF Init, EInv

LEMMA EnteringNext ==
  ASSUME NoChecks, AllNested
  PROVE  IInv /\ OInv /\ EInv /\ [Next]_vars => EInv'
<1> SUFFICES ASSUME IInv, OInv, EInv, [Next]_vars PROVE EInv'
  OBVIOUS
<1>1. FinalKept /\ UNCHANGED conf /\ tagged \subseteq Svc
  BY OrderNext, MovesKeepFinal, EngineParts DEF Moves
<1>2. ASSUME NEW T, T \subseteq Svc, tagged' = T, \A s \in T : Entered(s),
             stack' \in Seq(Entering)
      PROVE  EInv'
  BY <1>1, <1>2, EnteredStays DEF EInv
<1>3. ASSUME NEW s \in Svc, ServiceStep(s)
      PROVE  EInv'
  <2>1. \/ /\ \/ PrepareAgain(s) \/ PrepareDeps(s) \/ PrepareWaits(s)
              \/ LaunchMissing(s) \/ LaunchSkipped(s) \/ LaunchDepError(s)
              \/ LaunchAction(s) \/ LaunchGate(s) \/ LaunchInternal(s)
        \/ \E t \in Svc : PrepareDep(s, t) \/ Trigger(s, t)
    BY <1>3 DEF ServiceStep
  <2>2. tagged' \in {tagged, tagged \cup {s}} /\ (tagged' = tagged \/ Entered(s))
        /\ stack' \in Seq(Entering)
    BY <2>1, PrepareEnters, LoopEnters
  <2>3. \A t \in tagged' : Entered(t)
    BY <2>2 DEF EInv
  <2> QED BY <1>1, <1>2, <2>2, <2>3
<1>4. ASSUME tagged' = tagged, stack' \in Seq(Entering) PROVE EInv'
  BY <1>1, <1>2, <1>4 DEF EInv
<1>5. CASE EndLoop
  BY <1>4, <1>5, TopIsEntering DEF EndLoop, Return, svcVars
<1>6. CASE Exit \/ UNCHANGED vars
  BY <1>4, <1>6 DEF Exit, svcVars, vars, EInv
<1> QED BY <1>3, <1>4, <1>5, <1>6, ActionsEnterNothing DEF Next, Step, Terminated

\* A service runs a command only when all that it and the groups around it depend
\* on ended, with no strong dependency that failed, and this stays true: for any
\* graph without checks whose groups are entered through their gates.
THEOREM OrderRespectedHolds ==
  ASSUME NoNegativeFanout, NoChecks, AllNested
  PROVE  Spec => []OrderRespected
<1>1. IInv /\ OInv /\ EInv => OrderRespected
  <2> SUFFICES ASSUME IInv, OInv, EInv, NEW a \in Action, Launched(a),
                      NEW s \in Held(a[1])
               PROVE  Cleared(s)
    BY DEF OrderRespected, Cleared
  <2>1. Cleared(a[1]) /\ a[1] \in tagged
    BY DEF OInv, Acting
  <2>2. Entered(a[1])
    BY <2>1 DEF EInv
  <2>3. CASE s = a[1]
    BY <2>1, <2>3
  <2>4. CASE s \in Group \ {MAIN} /\ a[1] \in Inner[s]
    BY <2>2, <2>4 DEF Entered, Region
  <2> QED BY <2>3, <2>4 DEF Held
<1>2. Init => IInv /\ OInv /\ EInv
  BY InitOK, OrderInit, EnteringInit
<1>3. IInv /\ OInv /\ EInv /\ [Next]_vars => IInv' /\ OInv' /\ EInv'
  BY NextOK, OrderNext, EnteringNext
<1> QED BY <1>1, <1>2, <1>3, PTL DEF Spec
===============================================================================
