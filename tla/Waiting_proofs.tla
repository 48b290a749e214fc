----------------------------- MODULE Waiting_proofs -----------------------------
(***************************************************************************)
(* Nothing is forgotten: when the call returns, what was prepared has its  *)
(* final status.  An entity that could run and is still idle is always on  *)
(* the call stack, or its subservices are; and what holds another back is  *)
(* itself prepared, so that in a graph without cycles none is left.        *)
(* The exit code, then, is that of a call whose last services failed.      *)
(* And no command runs on a node where what it depends on failed.          *)
(***************************************************************************)
EXTENDS Order_proofs

\* What the methods that run or wait on the call stack are about to do.
FramesOf(stk) == {stk[i] : i \in DOMAIN stk}

Frames == FramesOf(stack)

Called(s) == \E f \in Frames : f.op = "prepare" /\ f.svc = s

Listed(s, t) == \E f \in Frames : f.op = "prepare_deps" /\ f.svc = s /\ t \in f.todo

Attended(s) ==
  \E f \in Frames : \/ f.op \in {"prepare", "action_prepare"} /\ f.svc = s
                    \/ f.op = "trigger" /\ s \in f.todo

Known(s) == s \in tagged \/ Called(s)

Idle(s) == status[s] = NO_STATUS

\* An entity that could run, and the gate of a group whose subservices run.
Able(s) == s \in tagged /\ Idle(s) /\ IsReady(Deps(s), status)

GateOpen(g) == g \in Group /\ Idle(Gate(g)) /\ Known(Gate(g))

\* What holds a prepared entity back is prepared, or will be.
DepsKnown ==
  \A s \in tagged : Idle(s) =>
    \A t \in DOMAIN Deps(s) : Idle(t) => Known(t) \/ Listed(s, t)

\* What could run is on the call stack, or waits for its subservices.
AbleAttended == \A s \in tagged : Able(s) => Attended(s) \/ GateOpen(s)

\* A group is entered through its gate.
GateFirst ==
  \A g \in Group : \A x \in Region(conf, g) : Known(x) => Known(Gate(g))

\* A gate that ended leads to subservices that ended, or to one that failed.
GateOver ==
  \A g \in Group : ~Idle(Gate(g)) => Cleared(Gate(g)) \/ Stopped(Gate(g))

WInv == DepsKnown /\ AbleAttended /\ GateFirst /\ GateOver
-------------------------------------------------------------------------------
(* The call stack *)

LEMMA FramesConcat ==
  ASSUME NEW S, NEW r \in Seq(S), NEW c \in Seq(S)
  PROVE  FramesOf(r \o c) = FramesOf(r) \cup FramesOf(c)
<1> DEFINE q == r \o c
<1>1. /\ q \in Seq(S) /\ Len(q) = Len(r) + Len(c)
      /\ Len(r) \in Nat /\ Len(c) \in Nat
      /\ \A i \in 1..Len(r) : q[i] = r[i]
      /\ \A i \in 1..Len(c) : q[Len(r) + i] = c[i]
  BY ConcatProperties, LenProperties
<1>2. DOMAIN q = 1..(Len(r) + Len(c)) /\ DOMAIN r = 1..Len(r) /\ DOMAIN c = 1..Len(c)
  BY <1>1, LenProperties
<1> HIDE DEF q
<1>3. ASSUME NEW i \in DOMAIN q PROVE q[i] \in FramesOf(r) \cup FramesOf(c)
  <2>1. CASE i \in 1..Len(r)
    BY <1>1, <1>2, <2>1 DEF FramesOf
  <2>2. CASE i \notin 1..Len(r)
    <3>1. i - Len(r) \in 1..Len(c) /\ i = Len(r) + (i - Len(r))
      BY <1>1, <1>2, <2>2
    <3> QED BY <1>1, <1>2, <3>1 DEF FramesOf
  <2> QED BY <2>1, <2>2
<1>4. ASSUME NEW i \in DOMAIN r PROVE r[i] \in FramesOf(q)
  BY <1>1, <1>2 DEF FramesOf
<1>5. ASSUME NEW i \in DOMAIN c PROVE c[i] \in FramesOf(q)
  <2>1. Len(r) + i \in DOMAIN q /\ q[Len(r) + i] = c[i]
    BY <1>1, <1>2
  <2> QED BY <2>1 DEF FramesOf
<1>6. FramesOf(q) = FramesOf(r) \cup FramesOf(c)
  BY <1>3, <1>4, <1>5 DEF FramesOf
<1> QED BY <1>6 DEF q

LEMMA FramesPush ==
  ASSUME NEW S, NEW f \in S, NEW c \in Seq(S)
  PROVE  FramesOf(<<f>> \o c) = {f} \cup FramesOf(c)
<1> DEFINE r == <<f>>
<1>1. r \in Seq(S) /\ FramesOf(r) = {f}
  BY DEF FramesOf
<1> HIDE DEF r
<1>2. FramesOf(r \o c) = FramesOf(r) \cup FramesOf(c)
  BY <1>1, FramesConcat
<1> QED BY <1>1, <1>2 DEF r

LEMMA FramesTop ==
  ASSUME IInv, stack # <<>>
  PROVE  /\ Frames = {Top} \cup FramesOf(Caller)
         /\ Top \in Frame /\ Caller \in Seq(Frame)
<1>1. Good(tagged) \subseteq Frame
  BY DEF Good
<1>2. stack \in Seq(Frame) /\ Top \in Frame /\ Caller \in Seq(Frame)
  BY <1>1, EngineParts, HeadTailProperties DEF Top, Caller
<1>3. stack = <<Top>> \o Caller
  BY <1>2, HeadTailProperties DEF Top, Caller
<1> QED BY <1>2, <1>3, FramesPush DEF Frames

\* The four ways a step changes the stack: it returns, calls, goes on with a loop,
\* or ends with update_status.
LEMMA ReturnFrames ==
  ASSUME Return
  PROVE  Frames' = FramesOf(Caller)
BY DEF Return, Frames

LEMMA CallFrames ==
  ASSUME NEW f \in Frame, NEW c \in Seq(Frame), stack' = <<f>> \o c
  PROVE  Frames' = {f} \cup FramesOf(c)
BY FramesPush DEF Frames

Left(x) == Call(Top.op, Top.svc, Top.act, Top.todo \ {x})

LEMMA LeftIsFrame ==
  ASSUME Top \in Frame, NEW x
  PROVE  Left(x) \in Frame
<1>1. Top.todo \ {x} \in (SUBSET Svc) \cup (SUBSET Action)
  BY DEF Frame
<1> QED BY <1>1 DEF Frame, Call, Left

LEMMA VisitFrames ==
  ASSUME IInv, stack # <<>>, NEW x, NEW r \in Seq(Frame), Visit(x, r)
  PROVE  Frames' = FramesOf(r) \cup {Left(x)} \cup FramesOf(Caller)
<1> DEFINE c == <<Left(x)>> \o Caller
<1>1. Left(x) \in Frame /\ Caller \in Seq(Frame)
  BY FramesTop, LeftIsFrame
<1>2. c \in Seq(Frame) /\ FramesOf(c) = {Left(x)} \cup FramesOf(Caller)
  BY <1>1, FramesPush, PushIsGood
<1>3. stack' = r \o c
  <2>1. stack' = r \o <<Left(x)>> \o Caller
    BY DEF Visit, Left
  <2>2. r \in Seq(Frame) /\ <<Left(x)>> \in Seq(Frame) /\ Caller \in Seq(Frame)
    BY <1>1
  <2> HIDE DEF Left
  <2>3. (r \o <<Left(x)>>) \o Caller = r \o (<<Left(x)>> \o Caller)
    BY <2>2, ConcatAssociative
  <2> QED BY <2>1, <2>3
<1> HIDE DEF c
<1>4. FramesOf(r \o c) = FramesOf(r) \cup FramesOf(c)
  BY <1>2, FramesConcat
<1> QED BY <1>2, <1>3, <1>4 DEF Frames

Loop(s) == Call("trigger", s, None, DOMAIN Dependents(s))

LEMMA UpdateFrames ==
  ASSUME IInv, NEW s \in Svc, NEW st, NEW c \in Seq(Frame), UpdateStatus(s, st, c)
  PROVE  /\ Write(s, st)
         /\ Frames' = FramesOf(c) \cup (IF Final(st) /\ s # MAIN THEN {Loop(s)} ELSE {})
         /\ Loop(s).op = "trigger" /\ Loop(s).todo = DOMAIN Dependents(s)
<1>1. Loop(s) \in Frame /\ Loop(s).op = "trigger" /\ Loop(s).todo = DOMAIN Dependents(s)
  <2>1. DOMAIN Dependents(s) \in (SUBSET Svc) \cup (SUBSET Action)
    BY EngineParts, DepsType
  <2> QED BY <2>1 DEF Loop, Call, Frame
<1>2. CASE Final(st) /\ s # MAIN
  <2>1. stack' = <<Loop(s)>> \o c
    BY <1>2 DEF UpdateStatus, Loop
  <2> QED BY <1>1, <1>2, <2>1, CallFrames DEF UpdateStatus, Write
<1>3. CASE ~(Final(st) /\ s # MAIN)
  BY <1>1, <1>3 DEF UpdateStatus, Write, Frames
<1> QED BY <1>2, <1>3
-------------------------------------------------------------------------------
(* Dependencies that hold back, and that do not *)

LEMMA WaitingHasCause ==
  ASSUME NEW S, NEW deps, DOMAIN deps \subseteq S, NEW st \in [S -> Status],
         EvalDepsStatus(deps, st) = WAITING_STATUS
  PROVE  /\ \E t \in DOMAIN deps : st[t] = WAITING_STATUS
         /\ \A t \in DOMAIN deps : ~(IsStrong(deps[t]) /\ Failed(st[t]))
<1> DEFINE results == {DepStatus(deps[t], st[t]) : t \in DOMAIN deps}
<1>1. DOMAIN deps # {} /\ Worst(results) = WAITING_STATUS
  BY DEF EvalDepsStatus, MISSING, WAITING_STATUS
<1>2. results \in SUBSET DepResult /\ results # {}
  BY <1>1, DepStatusType
<1> HIDE DEF results
<1>3. WAITING_STATUS \in results
  BY <1>1, <1>2, WorstIsWorst
<1>4. PICK t \in DOMAIN deps : DepStatus(deps[t], st[t]) = WAITING_STATUS
  BY <1>3 DEF results
<1>5. st[t] = WAITING_STATUS
  BY <1>4 DEF DepStatus, WAITING_STATUS, DEP_ERROR, DONE
<1>6. ASSUME NEW u \in DOMAIN deps, IsStrong(deps[u]), Failed(st[u])
      PROVE  FALSE
  <2>1. DepStatus(deps[u], st[u]) = DEP_ERROR
    BY <1>6 DEF DepStatus
  <2>2. DEP_ORDER[DEP_ERROR] <= DEP_ORDER[WAITING_STATUS]
    BY <2>1, EvalDepsStatusIsWorst
  <2> QED BY <2>2, DepOrders
<1> QED BY <1>5, <1>6

\* Dependencies that are over evaluate to a final status, whatever they are; and
\* one in error puts the whole in error.
LEMMA OverIsFinal ==
  ASSUME NEW S, NEW deps, DOMAIN deps \subseteq S, NEW st \in [S -> Status],
         IsReady(deps, st)
  PROVE  Final(EvalDepsStatus(deps, st))
<1> DEFINE results == {DepStatus(deps[t], st[t]) : t \in DOMAIN deps}
<1>1. CASE DOMAIN deps = {}
  BY <1>1, StatusNames DEF EvalDepsStatus
<1>2. CASE DOMAIN deps # {}
  <2>1. results \in SUBSET DepResult /\ results # {}
    BY <1>2, DepStatusType
  <2>2. EvalDepsStatus(deps, st) = Worst(results)
    BY <1>2 DEF EvalDepsStatus
  <2>3. \A r \in results : Final(r)
    BY StatusNames DEF IsReady, DepStatus
  <2> HIDE DEF results
  <2> QED BY <2>1, <2>2, <2>3, WorstIsWorst
<1> QED BY <1>1, <1>2

LEMMA StoppedIsError ==
  ASSUME IInv, NEW s \in Svc, Stopped(s)
  PROVE  EvalDepsStatus(Deps(s), status) = DEP_ERROR
<1> DEFINE worst == EvalDepsStatus(Deps(s), status)
<1>1. DOMAIN Deps(s) \subseteq Svc /\ status \in [Svc -> Status]
  BY EngineParts, DepsType
<1>2. PICK t \in DOMAIN Deps(s) : IsStrong(Deps(s)[t]) /\ Failed(status[t])
  BY DEF Stopped
<1>3. DepStatus(Deps(s)[t], status[t]) = DEP_ERROR
  BY <1>2 DEF DepStatus
<1>4. worst \in DepResult /\ DEP_ORDER[DEP_ERROR] <= DEP_ORDER[worst]
  BY <1>1, <1>3, EvalDepsStatusIsWorst
<1> HIDE DEF worst
<1>5. DEP_ORDER[worst] >= 9
  BY <1>4, DepOrders
<1>6. worst \in {DEP_ERROR, WAITING_STATUS}
  BY <1>4, <1>5, DepOrders
<1> QED BY <1>4, <1>6, DepOrders DEF worst
-------------------------------------------------------------------------------
(* What every step does to the call stack, and why it preserves WInv *)

\* What is prepared is then tagged, what is to be prepared was found as a
\* dependency or is a gate, what could run is not dropped, and a status that is
\* final is told to the dependents.
Follows ==
  /\ tagged \subseteq tagged' /\ \A s \in tagged' \ tagged : s \in Svc /\ Called(s)
  /\ \A x \in Svc : Known(x) => Known(x)'
  /\ \A x \in Svc : Known(x)' /\ ~Known(x) =>
       \/ \E s \in tagged : x \in DOMAIN Deps(s)
       \/ \E g \in Group : Known(g) /\ x = Gate(g)
  /\ \A s \in tagged' : Idle(s)' =>
       \A t \in DOMAIN Deps(s) :
         Idle(t)' /\ (Listed(s, t) \/ s \notin tagged) => Known(t)' \/ Listed(s, t)'
  /\ \A s \in Svc : Able(s)' /\ Attended(s) => Attended(s)' \/ GateOpen(s)'
  /\ \A t \in Svc \ {MAIN} : Final(status'[t]) /\ ~Final(status[t]) =>
       \A s \in DOMAIN Dependents(t) : Attended(s)'

\* Gates have no action.
LEMMA GateRunsNothing ==
  ASSUME OInv', NEW s \in Svc \ Plain
  PROVE  status'[s] # WAITING_STATUS
<1>1. \A a \in Action : a[1] # s
  BY DEF Action
<1>2. Running("action_prepare")' => Top.svc' # s
  BY <1>1 DEF OInv, AboutToRun, TopAction, Action, Plain
<1> QED BY <1>1, <1>2 DEF OInv, Working, Action, Plain

\* No status is lost.
LEMMA MovesKeepIdle ==
  ASSUME status \in [Svc -> Status], Moves
  PROVE  /\ \A s \in Svc : Idle(s)' => Idle(s)
         /\ \A s \in Svc : status[s] = WAITING_STATUS => ~Idle(s)'
         /\ status' \in [Svc -> Status]
<1>1. ASSUME NEW s \in Svc, Settles(s) \/ Launches(s) \/ Finishes(s)
      PROVE  \E st \in Status : Write(s, st) /\ st # NO_STATUS
  <2>1. CASE Settles(s)
    BY <2>1, StatusNames DEF Settles, Justified, Status
  <2>2. CASE Launches(s)
    BY <2>2, StatusNames DEF Launches, Status
  <2>3. CASE Finishes(s)
    BY <2>3, StatusNames DEF Finishes, Status
  <2> QED BY <1>1, <2>1, <2>2, <2>3
<1> QED BY <1>1, StatusNames DEF Moves, Write, Idle

LEMMA GateOverNext ==
  ASSUME IInv, Moves, GateOver
  PROVE  GateOver'
<1>1. FinalKept /\ UNCHANGED conf /\ status \in [Svc -> Status]
  BY MovesKeepFinal, EngineParts DEF Moves
<1> SUFFICES ASSUME NEW g \in Group, status'[Gate(g)] # NO_STATUS
             PROVE  Cleared(Gate(g))' \/ Stopped(Gate(g))'
  BY <1>1 DEF GateOver, Idle, Gate
<1>2. PICK s \in Svc : s = Gate(g) /\ s \notin Group
  BY GateType, StructureAssumption DEF Gate
<1>3. (Cleared(s) => Cleared(s)') /\ (Stopped(s) => Stopped(s)')
  BY <1>1, ClearedStays
<1>4. Cleared(s) \/ Stopped(s)
  <2>1. CASE status[s] # NO_STATUS
    BY <1>2, <2>1 DEF GateOver, Idle
  <2>2. CASE status[s] = NO_STATUS
    <3>1. Settles(s) \/ Launches(s)
      <4>1. status'[s] # status[s]
        BY <1>2, <2>2
      <4>2. Settles(s) \/ Launches(s) \/ Finishes(s)
        BY <1>1, <1>2, <4>1 DEF Moves, Settles, Launches, Finishes, Write
      <4> QED BY <2>2, <4>2, StatusNames DEF Finishes
    <3> QED BY <1>2, <3>1 DEF Settles, Justified, Launches, StoppedInside
  <2> QED BY <2>1, <2>2
<1>5. Gate(g)' = s
  BY <1>1, <1>2 DEF Gate
<1> QED BY <1>1, <1>3, <1>4, <1>5 DEF Cleared, Stopped, Deps, Gate

LEMMA WaitingNext ==
  ASSUME AllWalkable, AllNested, IInv, OInv, WInv, Moves, OInv', IInv', Follows
  PROVE  WInv'
<1>1. /\ FinalKept /\ UNCHANGED conf /\ status \in [Svc -> Status]
      /\ \A s \in Svc : Idle(s)' => Idle(s)
      /\ tagged' \subseteq Svc /\ tagged \subseteq tagged'
  BY MovesKeepFinal, MovesKeepIdle, EngineParts DEF Moves, Follows, IInv, SvcInv
<1>2. \A s \in Svc : DOMAIN Deps(s) \subseteq Svc /\ Deps(s)' = Deps(s)
  BY <1>1, EngineParts, DepsType DEF Deps
<1>3. \A g \in Group : Gate(g) \in Svc /\ Gate(g)' = Gate(g)
  BY <1>1, GateType DEF Gate
<1>4. Walkable(conf) /\ \A g \in Group : NestedIn(conf, g)
  BY DEF AllWalkable, AllNested, OInv, Walkable
<1>5. DepsKnown'
  <2> SUFFICES ASSUME NEW s \in tagged', Idle(s)', NEW t \in DOMAIN Deps(s), Idle(t)'
               PROVE  Known(t)' \/ Listed(s, t)'
    BY <1>1, <1>2 DEF DepsKnown
  <2>1. s \in Svc /\ t \in Svc /\ Idle(s) /\ Idle(t)
    BY <1>1, <1>2
  <2>2. CASE s \in tagged
    <3>1. Known(t) \/ Listed(s, t)
      BY <2>1, <2>2 DEF WInv, DepsKnown
    <3> QED BY <2>1, <3>1 DEF Follows
  <2>3. CASE s \notin tagged
    BY <2>3 DEF Follows
  <2> QED BY <2>2, <2>3
<1>6. AbleAttended'
  <2> SUFFICES ASSUME NEW s \in tagged', Able(s)'
               PROVE  Attended(s)' \/ GateOpen(s)'
    BY DEF AbleAttended
  <2>1. s \in Svc /\ Idle(s) /\ \A t \in DOMAIN Deps(s) : Final(status'[t])
    BY <1>1, <1>2 DEF Able, IsReady
  <2>2. CASE Attended(s)
    BY <2>1, <2>2 DEF Follows
  <2>3. CASE ~Attended(s) /\ IsReady(Deps(s), status)
    <3>1. s \in tagged
      BY <2>1, <2>3 DEF Follows, Called, Attended
    <3>2. GateOpen(s)
      BY <2>1, <2>3, <3>1 DEF WInv, AbleAttended, Able
    <3>3. s \in Group /\ Gate(s) \in Svc /\ Idle(Gate(s)) /\ Known(Gate(s))'
      BY <1>3, <3>2 DEF GateOpen, Follows
    <3>4. CASE Idle(Gate(s))'
      BY <1>3, <3>3, <3>4 DEF GateOpen, Idle, Known, Called
    <3>5. CASE ~Idle(Gate(s))'
      <4>1. status'[Gate(s)] # WAITING_STATUS
        BY <3>3, GateRunsNothing DEF Gate, Plain
      <4>2. Final(status'[Gate(s)]) /\ ~Final(status[Gate(s)]) /\ Gate(s) # MAIN
        BY <1>3, <3>3, <3>5, <4>1, StructureAssumption, StatusNames
           DEF Idle, Final, Gate
      <4>3. s \in DOMAIN Dependents(Gate(s))
        BY <1>4, <3>3 DEF Walkable, GatesOpen, Dependents, DependentsOf, Gate, GateOf
      <4> QED BY <3>3, <4>2, <4>3 DEF Follows
    <3> QED BY <3>4, <3>5
  <2>4. CASE ~IsReady(Deps(s), status)
    <3>1. PICK t \in DOMAIN Deps(s) : ~Final(status[t])
      BY <2>4 DEF IsReady
    <3>2. t \in Svc /\ t # MAIN /\ s \in DOMAIN Dependents(t)
      BY <1>2, <1>4, <2>1 DEF Walkable, TwoWay, Dependents, DependentsOf, Deps, DepsOf
    <3> QED BY <2>1, <3>1, <3>2 DEF Follows
  <2> QED BY <2>2, <2>3, <2>4
<1>7. GateFirst'
  <2> SUFFICES ASSUME NEW g \in Group, NEW x \in Region(conf, g), Known(x)'
               PROVE  Known(Gate(g))'
    BY <1>1, <1>3 DEF GateFirst, Region, GateOf, Known, Called
  <2>1. x \in Svc
    BY StructureAssumption, GateType DEF Region, GateOf, Plain
  <2>2. ASSUME NEW y \in Region(conf, g), Known(y) PROVE Known(Gate(g))'
    BY <1>3, <2>2 DEF WInv, GateFirst, Follows
  <2>3. CASE Known(x)
    BY <2>2, <2>3
  <2>4. ASSUME NEW s \in tagged, x \in DOMAIN Deps(s) PROVE Known(Gate(g))'
    <3>1. s \in Region(conf, g)
      BY <1>1, <1>4, <2>4 DEF NestedIn, DepsOf, Deps
    <3> QED BY <2>2, <3>1 DEF Known
  <2>5. ASSUME NEW h \in Group, Known(h), x = Gate(h), ~Known(x) PROVE Known(Gate(g))'
    <3>1. CASE h = g
      BY <1>3, <2>5, <3>1 DEF Known, Called
    <3>2. CASE h # g
      <4>1. h \in Region(conf, g)
        BY <1>4, <2>5, <3>2 DEF NestedIn, Gate, GateOf
      <4> QED BY <2>2, <2>5, <4>1
    <3> QED BY <3>1, <3>2
  <2> QED BY <2>1, <2>3, <2>4, <2>5 DEF Follows
<1>8. GateOver'
  BY GateOverNext DEF WInv
<1> QED BY <1>5, <1>6, <1>7, <1>8 DEF WInv
-------------------------------------------------------------------------------
(* Steps of services *)

\* What the branches of Service.prepare have in common, when they leave the frames
\* of `new' on top of the caller.
LEMMA PrepareFollows ==
  ASSUME IInv, NEW s \in Svc, Preparing(s), UNCHANGED conf,
         NEW new, Frames' = new \cup FramesOf(Caller),
         \A f \in new : f.op = "prepare" =>
           s \in Group /\ f.svc = Gate(s),
         Idle(s)' => \A t \in DOMAIN Deps(s) : Idle(t)' => Listed(s, t)',
         Able(s)' => Attended(s)' \/ GateOpen(s)',
         \A t \in Svc \ {s} : status'[t] = status[t],
         Final(status'[s]) /\ ~Final(status[s]) /\ s # MAIN =>
           \A t \in DOMAIN Dependents(s) : Attended(t)'
  PROVE  Follows
<1>1. /\ stack # <<>> /\ Top.op = "prepare" /\ Top.svc = s
      /\ tagged' = tagged \cup {s} /\ tagged \subseteq Svc
  BY EngineParts DEF Preparing, Running
<1>2. /\ Frames = {Top} \cup FramesOf(Caller) /\ FramesOf(Caller) \subseteq Frames'
      /\ Called(s)
  BY <1>1, FramesTop DEF Called
<1>3. ASSUME NEW x \in Svc, Known(x) PROVE Known(x)'
  BY <1>1, <1>2, <1>3 DEF Known, Called
<1>4. ASSUME NEW x \in Svc, Known(x)', ~Known(x)
      PROVE  \E g \in Group : Known(g) /\ x = Gate(g)
  <2>1. x \notin tagged' /\ Called(x)'
    BY <1>1, <1>2, <1>4 DEF Known
  <2>2. PICK f \in Frames' : f.op = "prepare" /\ f.svc = x
    BY <2>1 DEF Called
  <2>3. f \in new
    BY <1>2, <1>4, <2>2 DEF Known, Called
  <2> QED BY <1>2, <2>2, <2>3 DEF Known
<1>5. ASSUME NEW x \in tagged', Idle(x)', NEW t \in DOMAIN Deps(x), Idle(t)',
             Listed(x, t) \/ x \notin tagged
      PROVE  Known(t)' \/ Listed(x, t)'
  <2>1. CASE x = s
    BY <1>5, <2>1
  <2>2. CASE x # s
    <3>1. Listed(x, t)
      BY <1>1, <1>5, <2>2
    <3> QED BY <1>1, <1>2, <3>1 DEF Listed
  <2> QED BY <2>1, <2>2
<1>6. ASSUME NEW x \in Svc, Able(x)', Attended(x)
      PROVE  Attended(x)' \/ GateOpen(x)'
  <2>1. CASE x = s
    BY <1>6, <2>1
  <2>2. CASE x # s
    BY <1>1, <1>2, <1>6, <2>2 DEF Attended
  <2> QED BY <2>1, <2>2
<1>7. ASSUME NEW t \in Svc \ {MAIN}, Final(status'[t]), ~Final(status[t]),
             NEW x \in DOMAIN Dependents(t)
      PROVE  Attended(x)'
  BY <1>7
<1> QED BY <1>1, <1>2, <1>3, <1>4, <1>5, <1>6, <1>7 DEF Follows

\* A branch that ends with update_status and a final status.
LEMMA EndedFollows ==
  ASSUME IInv, OInv, NEW s \in Svc, Preparing(s), NEW st, Final(st),
         UpdateStatus(s, st, Caller)
  PROVE  Follows
<1>1. /\ stack # <<>> /\ UNCHANGED conf /\ Caller \in Seq(Frame)
      /\ status \in [Svc -> Status]
  BY PreparingFacts, FramesTop, EngineParts DEF envVars
<1> DEFINE new == IF s # MAIN THEN {Loop(s)} ELSE {}
<1>2. /\ Write(s, st) /\ Frames' = new \cup FramesOf(Caller)
      /\ Loop(s).op = "trigger" /\ Loop(s).todo = DOMAIN Dependents(s)
  BY <1>1, UpdateFrames
<1>3. status'[s] = st /\ ~Idle(s)' /\ \A t \in Svc \ {s} : status'[t] = status[t]
  BY <1>1, <1>2, StatusNames DEF Write, Idle
<1>4. \A f \in new : f.op # "prepare"
  BY <1>2
<1>5. s # MAIN => \A t \in DOMAIN Dependents(s) : Attended(t)'
  BY <1>2 DEF Attended
<1> HIDE DEF new
<1> QED BY <1>1, <1>2, <1>3, <1>4, <1>5, PrepareFollows DEF Able

\* A branch that leaves the status alone, or calls a method.
LEMMA CallFollows ==
  ASSUME IInv, OInv, NEW s \in Svc, Preparing(s), NEW f \in Frame,
         stack' = <<f>> \o Caller,
         f.op = "prepare" => s \in Group /\ f.svc = Gate(s),
         Idle(s)' => \A t \in DOMAIN Deps(s) : Idle(t)' => Listed(s, t)',
         Able(s)' => Attended(s)' \/ GateOpen(s)',
         UNCHANGED status \/ Write(s, WAITING_STATUS)
  PROVE  Follows
<1>1. /\ stack # <<>> /\ UNCHANGED conf /\ Caller \in Seq(Frame)
      /\ status \in [Svc -> Status]
  BY PreparingFacts, FramesTop, EngineParts DEF envVars
<1> DEFINE new == {f}
<1>2. /\ Frames' = new \cup FramesOf(Caller)
      /\ \A g \in new : g.op = "prepare" => s \in Group /\ g.svc = Gate(s)
  BY <1>1, CallFrames
<1> HIDE DEF new
<1>3. /\ \A t \in Svc \ {s} : status'[t] = status[t]
      /\ ~(Final(status'[s]) /\ ~Final(status[s]))
  BY <1>1, StatusNames DEF Write
<1> QED BY <1>1, <1>2, <1>3, PrepareFollows
\* The branches of Service.prepare, one after the other.
LEMMA ServicePrepareFollows ==
  ASSUME AllWalkable, IInv, OInv, WInv, NEW s \in Svc,
         \/ PrepareAgain(s) \/ PrepareDeps(s) \/ PrepareWaits(s)
         \/ LaunchMissing(s) \/ LaunchSkipped(s) \/ LaunchDepError(s)
         \/ LaunchAction(s) \/ LaunchGate(s) \/ LaunchInternal(s)
  PROVE  Follows
<1>1. Preparing(s)
  BY DEF PrepareAgain, PrepareDeps, PrepareWaits, LaunchMissing, LaunchSkipped,
         LaunchDepError, LaunchAction, LaunchGate, LaunchInternal, Launching
<1>2. /\ stack # <<>> /\ UNCHANGED conf /\ tagged' = tagged \cup {s}
      /\ Requested(s) \in Name /\ status \in [Svc -> Status]
      /\ Caller \in Seq(Frame)
  BY <1>1, PreparingFacts, EngineParts, FramesTop DEF envVars
<1>3. DOMAIN Deps(s) \subseteq Svc
  BY EngineParts, DepsType
<1>4. CASE PrepareAgain(s)
  <2>1. ~Idle(s)' /\ UNCHANGED status /\ Frames' = {} \cup FramesOf(Caller)
    BY <1>4, ReturnFrames DEF PrepareAgain, Idle
  <2>2. ~Able(s)'
    BY <2>1 DEF Able
  <2>3. Idle(s)' => \A t \in DOMAIN Deps(s) : Idle(t)' => Listed(s, t)'
    BY <2>1
  <2> DEFINE new == {}
  <2>4. Frames' = new \cup FramesOf(Caller) /\ \A f \in new : f.op # "prepare"
    BY <2>1
  <2> HIDE DEF new
  <2> QED BY <1>1, <1>2, <2>1, <2>2, <2>3, <2>4, PrepareFollows
<1>5. CASE PrepareDeps(s)
  <2> DEFINE f == Call("prepare_deps", s, None, Unprocessed(s))
  <2>1. UNCHANGED status /\ stack' = <<f>> \o Caller /\ Unprocessed(s) # {}
    BY <1>5 DEF PrepareDeps
  <2>2. /\ f.op = "prepare_deps" /\ f.svc = s
        /\ f.todo = {t \in DOMAIN Deps(s) : Idle(t)}
    BY DEF Call, Unprocessed, SearchDeps, Idle
  <2>3. f \in Frame
    <3>1. Unprocessed(s) \in (SUBSET Svc) \cup (SUBSET Action)
      BY <1>3 DEF Unprocessed, SearchDeps
    <3> QED BY <3>1 DEF Call, Frame
  <2> HIDE DEF f
  <2>4. f \in Frames'
    BY <1>2, <2>1, <2>3, CallFrames
  <2>5. \A t \in DOMAIN Deps(s) : Idle(t)' => Listed(s, t)'
    BY <2>1, <2>2, <2>4 DEF Listed, Idle
  <2>6. ~Able(s)'
    BY <1>2, <2>1, StatusNames DEF Able, IsReady, Unprocessed, SearchDeps, Deps
  <2> QED BY <1>1, <2>1, <2>2, <2>3, <2>5, <2>6, CallFollows
<1>6. CASE PrepareWaits(s)
  <2>1. /\ UNCHANGED status /\ Frames' = {} \cup FramesOf(Caller)
        /\ Unprocessed(s) = {} /\ SvcDepsStatus(s) = WAITING_STATUS
    BY <1>6, ReturnFrames DEF PrepareWaits
  <2>2. \A t \in DOMAIN Deps(s) : ~Idle(t)'
    BY <2>1 DEF Unprocessed, SearchDeps, Idle
  <2>3. ASSUME IsReady(Deps(s), status)
        PROVE  GateOpen(s)'
    <3> DEFINE extd == EvalDepsStatus(Deps(s), status)
               intd == EvalDepsStatus(Deps(Gate(s)), status)
    <3>1. extd # WAITING_STATUS
      <4>1. Final(extd)
        BY <1>2, <1>3, <2>3, OverIsFinal
      <4> QED BY <4>1, StatusNames
    <3>2. s \in Group /\ intd = WAITING_STATUS
      BY <2>1, <3>1 DEF SvcDepsStatus
    <3>3. Gate(s) \in Svc /\ DOMAIN Deps(Gate(s)) \subseteq Svc
      BY <3>2, GateType, EngineParts, DepsType
    <3>4. /\ \E t \in DOMAIN Deps(Gate(s)) : status[t] = WAITING_STATUS
          /\ ~Stopped(Gate(s))
      BY <1>2, <3>2, <3>3, WaitingHasCause DEF Stopped
    <3>5. PICK t \in DOMAIN Deps(Gate(s)) : status[t] = WAITING_STATUS
      BY <3>4
    <3>6. ~Cleared(Gate(s))
      BY <3>5, StatusNames DEF Cleared
    <3>7. Idle(Gate(s))
      BY <3>2, <3>4, <3>6 DEF WInv, GateOver
    <3>8. Known(t) /\ t \in Region(conf, s)
      <4>1. Walkable(conf)
        BY DEF AllWalkable, OInv
      <4>2. t \in Sub[s]
        BY <3>2, <3>5, <4>1 DEF Walkable, GatesOpen, Deps, DepsOf, Gate, GateOf
      <4> QED BY <3>2, <3>3, <3>5, <4>2, StructureAssumption DEF OInv, Working, Known, Region
    <3>9. PICK k \in Svc : k = Gate(s) /\ Known(k) /\ Idle(k)
      BY <3>2, <3>3, <3>7, <3>8 DEF WInv, GateFirst
    <3>10. k \in tagged' \/ Called(k)'
      BY <1>1, <1>2, <2>1, <3>9, FramesTop DEF Known, Called, Preparing, Running
    <3>11. Gate(s)' = k
      BY <1>2, <3>9 DEF Gate
    <3> QED BY <2>1, <3>2, <3>9, <3>10, <3>11 DEF GateOpen, Idle, Known, Called
  <2>4. Able(s)' => GateOpen(s)'
    BY <1>2, <2>1, <2>3 DEF Able, IsReady, Deps
  <2> QED BY <1>1, <1>2, <2>1, <2>2, <2>4, PrepareFollows
<1>7. CASE LaunchMissing(s) \/ LaunchDepError(s) \/ (s \in Group /\ LaunchSkipped(s))
  BY <1>1, <1>7, EndedFollows, StatusNames
     DEF LaunchMissing, LaunchDepError, LaunchSkipped
<1>8. CASE LaunchAction(s) \/ (s \notin Group /\ LaunchSkipped(s))
  <2> DEFINE f == Call("action_prepare", s, Requested(s), {})
  <2>1. f \in Frame /\ f.op = "action_prepare" /\ f.svc = s
    <3>1. {} \in (SUBSET Svc) \cup (SUBSET Action)
      OBVIOUS
    <3> QED BY <1>2, <3>1 DEF Call, Frame
  <2>2. stack' = <<f>> \o Caller /\ (UNCHANGED status \/ Write(s, WAITING_STATUS))
    BY <1>8, StatusNames DEF LaunchAction, LaunchSkipped, UpdateStatus, Write
  <2>3. Unprocessed(s) = {}
    BY <1>8 DEF LaunchAction, LaunchSkipped, Launching
  <2> HIDE DEF f
  <2>4. f \in Frames'
    BY <1>2, <2>1, <2>2, CallFrames
  <2>5. Attended(s)'
    BY <2>1, <2>4 DEF Attended
  <2>6. Idle(s)' => \A t \in DOMAIN Deps(s) : ~Idle(t)'
    BY <1>2, <2>2, <2>3, StatusNames DEF Idle, Write, Unprocessed, SearchDeps
  <2> QED BY <1>1, <2>1, <2>2, <2>5, <2>6, CallFollows
<1>9. CASE LaunchGate(s)
  <2>1. /\ s \in Group /\ UNCHANGED status /\ Unprocessed(s) = {}
        /\ status[Gate(s)] = NO_STATUS
        /\ stack' = <<Call("prepare", Gate(s), Requested(s), {})>> \o Caller
    BY <1>9 DEF LaunchGate, Enterable, Launching
  <2>2. PICK k \in Svc : k = Gate(s)
    BY <2>1, GateType
  <2> DEFINE f == Call("prepare", k, Requested(s), {})
  <2>3. f \in Frame /\ f.op = "prepare" /\ f.svc = k /\ stack' = <<f>> \o Caller
    <3>1. {} \in (SUBSET Svc) \cup (SUBSET Action)
      OBVIOUS
    <3> QED BY <1>2, <2>1, <2>2, <3>1 DEF Call, Frame
  <2> HIDE DEF f
  <2>4. f \in Frames'
    BY <1>2, <2>3, CallFrames
  <2>5. Gate(s)' = k /\ Known(k)' /\ Idle(k)'
    BY <1>2, <2>1, <2>2, <2>3, <2>4 DEF Gate, Known, Called, Idle
  <2>6. GateOpen(s)'
    BY <2>1, <2>5 DEF GateOpen, Known, Called, Idle
  <2>7. \A t \in DOMAIN Deps(s) : ~Idle(t)'
    BY <2>1 DEF Unprocessed, SearchDeps, Idle
  <2> QED BY <1>1, <2>1, <2>2, <2>3, <2>6, <2>7, CallFollows
<1>10. CASE LaunchInternal(s)
  <2> DEFINE st == EvalDepsStatus(Deps(Gate(s)), status)
  <2>1. /\ s \in Group /\ UpdateStatus(s, st, Caller) /\ ~Enterable(s)
        /\ SvcDepsStatus(s) \notin {WAITING_STATUS, DEP_ERROR}
    BY <1>10 DEF LaunchInternal, Launching
  <2>2. Gate(s) \in Svc /\ DOMAIN Deps(Gate(s)) \subseteq Svc
    BY <2>1, GateType, EngineParts, DepsType
  <2>3. st \in {NO_STATUS, DONE, WARNING, MISSING, SKIPPED, LOCKED}
    BY <2>1, InternalCases
  <2>4. ~Stopped(Gate(s))
    BY <2>2, <2>3, StoppedIsError, StatusNames
  <2>5. DOMAIN Deps(Gate(s)) = {} \/ Cleared(Gate(s))
    BY <2>1, <2>4 DEF Enterable, WInv, GateOver, Idle
  <2>6. IsReady(Deps(Gate(s)), status)
    BY <2>5 DEF IsReady, Cleared
  <2>7. Final(st)
    BY <1>2, <2>2, <2>6, OverIsFinal
  <2> HIDE DEF st
  <2> QED BY <1>1, <2>1, <2>7, EndedFollows
<1> QED BY <1>4, <1>5, <1>6, <1>7, <1>8, <1>9, <1>10
-------------------------------------------------------------------------------
(* The other steps *)

\* One turn of the loop over the dependencies to prepare, or of the one over the
\* dependents, which leaves out those that cannot run.
LEMMA TurnFollows ==
  ASSUME IInv, stack # <<>>, Top.op \in {"prepare_deps", "trigger"},
         UNCHANGED <<conf, status, tagged>>,
         NEW x \in Svc, NEW r \in Seq(Frame), Visit(x, r),
         \A f \in FramesOf(r) : f.op = "prepare" /\ f.svc = x,
         FramesOf(r) # {} => Known(x) \/ \E s \in tagged : x \in DOMAIN Deps(s),
         Top.op = "prepare_deps" \/ Able(x) => FramesOf(r) # {}
  PROVE  Follows
<1>1. /\ Frames = {Top} \cup FramesOf(Caller) /\ Top \in Frame
      /\ Frames' = FramesOf(r) \cup {Left(x)} \cup FramesOf(Caller)
  BY FramesTop, VisitFrames
<1>2. Left(x).op = Top.op /\ Left(x).svc = Top.svc /\ Left(x).todo = Top.todo \ {x}
  BY DEF Left, Call
<1>3. \A s \in Svc : Able(s)' = Able(s)
  BY DEF Able, Idle, Deps
<1>4. \A y \in Svc : Known(y) => Known(y)'
  BY <1>1 DEF Known, Called
<1>5. ASSUME NEW y \in Svc, Known(y)', ~Known(y)
      PROVE  \E s \in tagged : y \in DOMAIN Deps(s)
  <2>1. PICK f \in Frames' : f.op = "prepare" /\ f.svc = y
    BY <1>5 DEF Known, Called
  <2>2. f \in FramesOf(r)
    BY <1>1, <1>2, <1>5, <2>1 DEF Known, Called
  <2> QED BY <1>5, <2>1, <2>2
<1>6. ASSUME NEW s \in tagged, NEW t \in DOMAIN Deps(s), Listed(s, t)
      PROVE  Known(t)' \/ Listed(s, t)'
  <2>1. PICK f \in Frames : f.op = "prepare_deps" /\ f.svc = s /\ t \in f.todo
    BY <1>6 DEF Listed
  <2>2. CASE f \in FramesOf(Caller)
    BY <1>1, <2>1, <2>2 DEF Listed
  <2>3. CASE f = Top /\ t # x
    BY <1>1, <1>2, <2>1, <2>3 DEF Listed
  <2>4. CASE f = Top /\ t = x
    BY <1>1, <2>1, <2>4 DEF Known, Called
  <2> QED BY <1>1, <2>2, <2>3, <2>4
<1>7. ASSUME NEW s \in Svc, Able(s)', Attended(s)
      PROVE  Attended(s)'
  <2>1. PICK f \in Frames : \/ f.op \in {"prepare", "action_prepare"} /\ f.svc = s
                            \/ f.op = "trigger" /\ s \in f.todo
    BY <1>7 DEF Attended
  <2>2. CASE f \in FramesOf(Caller)
    BY <1>1, <2>1, <2>2 DEF Attended
  <2>3. CASE f = Top /\ s # x
    BY <1>1, <1>2, <2>1, <2>3 DEF Attended
  <2>4. CASE f = Top /\ s = x
    BY <1>1, <1>3, <1>7, <2>4 DEF Attended
  <2> QED BY <1>1, <2>2, <2>3, <2>4
<1> QED BY <1>4, <1>5, <1>6, <1>7 DEF Follows

LEMMA LoopFollows ==
  ASSUME IInv, OInv, EInv, NEW s \in Svc, NEW t \in Svc,
         PrepareDep(s, t) \/ Trigger(s, t)
  PROVE  Follows
<1>1. CASE PrepareDep(s, t)
  <2> DEFINE n == IF IsCheck(Deps(s)[t]) THEN STATUS ELSE last_action[s]
             f == Call("prepare", t, n, {})
             r == <<f>>
  <2>1. /\ stack # <<>> /\ Top.op = "prepare_deps" /\ Top.svc = s /\ t \in Top.todo
        /\ Visit(t, r) /\ UNCHANGED <<conf, status, tagged>>
    BY <1>1 DEF PrepareDep, Running, svcVars, envVars
  <2>2. s \in tagged /\ t \in DOMAIN Deps(s)
    BY <2>1, EngineParts, CallerIsGood, TopIsEntering DEF Good, NeedsTag, Entering
  <2>3. f \in Frame /\ f.op = "prepare" /\ f.svc = t
    <3>1. n \in {None} \cup Name
      BY NameAssumption, EngineParts DEF SvcInv
    <3>2. {} \in (SUBSET Svc) \cup (SUBSET Action)
      OBVIOUS
    <3> HIDE DEF n
    <3> QED BY <3>1, <3>2 DEF Call, Frame
  <2> HIDE DEF f
  <2>4. r \in Seq(Frame) /\ FramesOf(r) = {f}
    BY <2>3 DEF FramesOf
  <2> HIDE DEF r
  <2> QED BY <2>1, <2>2, <2>3, <2>4, TurnFollows
<1>2. CASE Trigger(s, t)
  <2> DEFINE f == Call("prepare", t, None, {})
             r == IF Able(t) THEN <<f>> ELSE <<>>
  <2>1. /\ stack # <<>> /\ Top.op = "trigger" /\ Visit(t, r)
        /\ UNCHANGED <<conf, status, tagged>>
    BY <1>2 DEF Trigger, Running, svcVars, envVars, Able, Idle
  <2>2. f \in Frame /\ f.op = "prepare" /\ f.svc = t
    <3>1. {} \in (SUBSET Svc) \cup (SUBSET Action)
      OBVIOUS
    <3> QED BY <3>1 DEF Call, Frame
  <2> HIDE DEF f
  <2>3. r \in Seq(Frame) /\ FramesOf(r) = IF Able(t) THEN {f} ELSE {}
    BY <2>2 DEF FramesOf
  <2>4. Able(t) => Known(t)
    BY DEF Able, Known
  <2> HIDE DEF r
  <2> QED BY <2>1, <2>2, <2>3, <2>4, TurnFollows
<1> QED BY <1>1, <1>2

LEMMA EndLoopFollows ==
  ASSUME IInv, EndLoop
  PROVE  Follows
<1>1. /\ stack # <<>> /\ Top.op \notin {"prepare", "action_prepare"} /\ Top.todo = {}
      /\ UNCHANGED <<conf, status, tagged>> /\ Frames' = FramesOf(Caller)
  BY ReturnFrames DEF EndLoop, svcVars, envVars
<1>2. Frames = {Top} \cup FramesOf(Caller)
  BY <1>1, FramesTop
<1> QED BY <1>1, <1>2 DEF Follows, Known, Called, Listed, Attended

\* A step that ends or starts an action, alone in the call of Action.prepare or of
\* the event loop: what is left is `c'.
LEMMA ActionFollows ==
  ASSUME IInv, NEW s \in Svc, NEW c \in Seq(Frame), UNCHANGED <<conf, tagged>>,
         FramesOf(c) \subseteq Frames,
         \A f \in Frames \ FramesOf(c) : f.op = "action_prepare" /\ f.svc = s,
         \/ /\ Frames' = FramesOf(c) /\ UNCHANGED status
            /\ status[s] = WAITING_STATUS \/ Frames \subseteq FramesOf(c)
         \/ \E st : Final(st) /\ UpdateStatus(s, st, c)
  PROVE  Follows
<1>1. status \in [Svc -> Status]
  BY EngineParts
<1>2. /\ FramesOf(c) \subseteq Frames'
      /\ \A f \in Frames' \ FramesOf(c) : f.op = "trigger"
      /\ Idle(s)' => Frames \subseteq FramesOf(c)
      /\ \A t \in Svc \ {s} : status'[t] = status[t]
      /\ Final(status'[s]) /\ ~Final(status[s]) /\ s # MAIN =>
           \A t \in DOMAIN Dependents(s) : Attended(t)'
  <2>1. CASE /\ Frames' = FramesOf(c) /\ UNCHANGED status
             /\ status[s] = WAITING_STATUS \/ Frames \subseteq FramesOf(c)
    BY <2>1, StatusNames DEF Idle
  <2>2. ASSUME NEW st, Final(st), UpdateStatus(s, st, c) PROVE <1>2
    <3>1. /\ Write(s, st)
          /\ Frames' = FramesOf(c) \cup (IF s # MAIN THEN {Loop(s)} ELSE {})
          /\ Loop(s).op = "trigger" /\ Loop(s).todo = DOMAIN Dependents(s)
      BY <2>2, UpdateFrames
    <3>2. status'[s] = st /\ ~Idle(s)' /\ \A t \in Svc \ {s} : status'[t] = status[t]
      BY <1>1, <2>2, <3>1, StatusNames DEF Write, Idle
    <3> QED BY <3>1, <3>2 DEF Attended
  <2> QED BY <2>1, <2>2
<1>3. ASSUME NEW x \in Svc PROVE Known(x)' <=> Known(x)
  <2>1. ASSUME NEW f \in Frames, f.op = "prepare" PROVE f \in Frames'
    <3>1. f \in FramesOf(c)
      BY <2>1
    <3> QED BY <1>2, <3>1
  <2>2. ASSUME NEW f \in Frames', f.op = "prepare" PROVE f \in Frames
    <3>1. f \in FramesOf(c)
      BY <1>2, <2>2
    <3> QED BY <3>1
  <2> QED BY <2>1, <2>2 DEF Known, Called
<1>4. ASSUME NEW x, NEW t, Listed(x, t) PROVE Listed(x, t)'
  BY <1>2, <1>4 DEF Listed
<1>5. ASSUME NEW x \in Svc, Able(x)', Attended(x) PROVE Attended(x)'
  BY <1>2, <1>5 DEF Able, Attended
<1> QED BY <1>2, <1>3, <1>4, <1>5 DEF Follows

\* The stack, the statuses and what was prepared are left alone.
LEMMA StillFollows ==
  ASSUME UNCHANGED <<conf, status, tagged, stack>>
  PROVE  Follows
BY DEF Follows, Known, Called, Listed, Attended, Able, Idle, GateOpen, Frames, Deps

LEMMA ActionStepFollows ==
  ASSUME NoChecks, IInv, OInv, NEW a \in Action, ActionStep(a)
  PROVE  Follows
<1>1. ASSUME NEW b \in Action, PrepareSubAction(a) \/ ActionTrigger(a, b)
      PROVE  FALSE
  <2>1. stack # <<>> /\ Top.op \in {"action_deps", "action_trigger"}
    BY <1>1 DEF PrepareSubAction, ActionTrigger, Running
  <2> QED BY <2>1, CallerIsService DEF Running, ServiceFrame
<1>2. Running("action_prepare") /\ TopAction = a
  BY <1>1 DEF ActionStep, ActionPrepareAgain, SkipAction, RunAction,
              ActionNotNeeded, PrepareSubActions, PreparingAction
<1>3. /\ stack # <<>> /\ Top.op = "action_prepare" /\ Top.svc = a[1]
      /\ act_status[a] = NO_STATUS
      /\ target[a] = {} \/ status[a[1]] = WAITING_STATUS
  BY <1>2, PreparingActionFacts DEF Running
<1>4. /\ a[1] \in Svc /\ Caller \in Seq(Frame)
      /\ Frames = {Top} \cup FramesOf(Caller)
      /\ FramesOf(Caller) \subseteq Frames
      /\ \A f \in Frames \ FramesOf(Caller) : f.op = "action_prepare" /\ f.svc = a[1]
  BY <1>3, FramesTop DEF Action, Plain
<1>5. ActDepsStatus(a) = MISSING /\ ToRun(a) /\ ActDependents(a) = {}
  BY WithoutChecks
<1>6. CASE SkipAction(a)
  <2>1. UpdateStatus(a[1], SKIPPED, Caller) /\ UNCHANGED <<conf, tagged>>
    BY <1>5, <1>6 DEF SkipAction, CompleteAction, PreparingAction, svcVars, envVars
  <2>2. \E st : Final(st) /\ UpdateStatus(a[1], st, Caller)
    BY <2>1, StatusNames
  <2> QED BY <1>4, <2>1, <2>2, ActionFollows
<1>7. CASE RunAction(a)
  <2>1. /\ Remaining(a) # {} /\ UNCHANGED <<conf, tagged, status>>
        /\ Frames' = FramesOf(Caller)
    BY <1>7, ReturnFrames DEF RunAction, PreparingAction, svcVars, envVars
  <2>2. status[a[1]] = WAITING_STATUS
    BY <1>3, <2>1, NodeAssumption DEF Remaining
  <2> QED BY <1>4, <2>1, <2>2, ActionFollows
<1>8. ~ActionPrepareAgain(a)
  BY <1>3, <1>5 DEF ActionPrepareAgain, Preparable, MISSING, WAITING_STATUS
<1>9. ~ActionNotNeeded(a) /\ ~PrepareSubActions(a)
  BY <1>5 DEF ActionNotNeeded, PrepareSubActions
<1> QED BY <1>1, <1>6, <1>7, <1>8, <1>9 DEF ActionStep

LEMMA EventStepFollows ==
  ASSUME NoChecks, IInv, OInv, NEW a \in Action, EventStep(a)
  PROVE  Follows
<1>1. CASE Fire(a) \/ \E r \in Results(a) : Retry(a, r)
  BY <1>1, StillFollows DEF Fire, Retry, Closing, svcVars, envVars
<1>2. ASSUME NEW r \in Results(a), Close(a, r)
      PROVE  Follows
  <2> DEFINE c == <<>>
  <2>1. c \in Seq(Frame) /\ FramesOf(c) = {} /\ Frames = {} /\ a[1] \in Svc
    BY <1>2 DEF Close, Closing, InEventLoop, Frames, FramesOf, Action, Plain
  <2>2. UpdateStatus(a[1], Outcome(a, r), c) /\ UNCHANGED <<conf, tagged>>
    BY <1>2, WithoutChecks DEF Close, Closing, CompleteAction, svcVars
  <2>3. \E st : Final(st) /\ UpdateStatus(a[1], st, c)
    BY <2>2, OutcomeFinal, StatusNames
  <2> HIDE DEF c
  <2> QED BY <2>1, <2>2, <2>3, ActionFollows
<1> QED BY <1>1, <1>2 DEF EventStep

LEMMA StepFollows ==
  ASSUME NoChecks, AllWalkable, IInv, OInv, EInv, WInv, [Next]_vars
  PROVE  Follows
<1>1. ASSUME NEW s \in Svc, ServiceStep(s)
      PROVE  Follows
  BY <1>1, ServicePrepareFollows, LoopFollows DEF ServiceStep
<1>2. CASE Exit \/ UNCHANGED vars
  BY <1>2, StillFollows DEF Exit, svcVars, vars
<1> QED BY <1>1, <1>2, EndLoopFollows, ActionStepFollows, EventStepFollows
        DEF Next, Step, Terminated
-------------------------------------------------------------------------------
(* Theorem *)

\* Nothing is in flight once the call has returned.
Landed == retcode # None => \A a \in Action : workers[a] = 0 /\ timers[a] = 0

LEMMA LandedNext ==
  ASSUME IInv, OInv, Landed, [Next]_vars
  PROVE  Landed'
<1>1. CASE retcode # None
  BY <1>1, ReturnedIsOver DEF Landed, Action, Plain
<1>2. CASE retcode = None /\ ~Exit
  BY <1>2, OnlyExitReturns DEF Landed
<1>3. CASE Exit
  BY <1>3 DEF Exit, MasterTaskDone, actVars, Landed, Action, Plain
<1> QED BY <1>1, <1>2, <1>3

LEMMA WaitingInit ==
  ASSUME AllWalkable
  PROVE  Init => WInv
<1> SUFFICES ASSUME Init PROVE WInv
  OBVIOUS
<1>1. conf \in Configs /\ tagged = {} /\ MAIN \in Group
  BY StructureAssumption DEF Init
<1>2. \A x : Known(x) => x = MAIN
  <2>1. Frames = {Call("prepare", MAIN, conf.request, {})}
    BY DEF Init, Frames, FramesOf
  <2> QED BY <1>1, <2>1 DEF Known, Called, Call
<1>3. GateFirst
  <2> SUFFICES ASSUME NEW g \in Group, MAIN \in Region(conf, g) PROVE FALSE
    BY <1>2 DEF GateFirst
  <2> QED BY <1>1, StructureAssumption DEF Region, GateOf
<1>4. GateOver
  <2> SUFFICES ASSUME NEW g \in Group PROVE Idle(Gate(g))
    BY DEF GateOver
  <2>1. Gate(g) \notin conf.locked /\ Gate(g) \in Svc
    BY <1>1, GateType DEF AllWalkable, Walkable, GatesOpen, Gate, GateOf
  <2> QED BY <2>1 DEF Init, Idle
<1> QED BY <1>1, <1>3, <1>4 DEF WInv, DepsKnown, AbleAttended

\* An entity that is left has one before it that is left.
LEMMA NothingLeft ==
  ASSUME AllWalkable, IInv, OInv, WInv, Landed
  PROVE  NothingLeftWaiting
<1> SUFFICES ASSUME retcode # None
             PROVE  \A s \in Svc : Final(status[s]) \/ (Idle(s) /\ s \notin tagged)
  BY DEF NothingLeftWaiting, Idle
<1>1. stack = <<>> /\ Frames = {} /\ ~Running("action_prepare")
  BY DEF OInv, Frames, FramesOf, Running
<1>2. ASSUME NEW s \in Svc PROVE status[s] # WAITING_STATUS
  <2> SUFFICES ASSUME status[s] = WAITING_STATUS PROVE FALSE
    OBVIOUS
  <2>1. PICK a \in Action : act_status[a] = WAITING_STATUS
    BY <1>1 DEF OInv, Working
  <2>2. workers[a] + timers[a] = 1
    BY <2>1 DEF IInv, ActInv, OneFlight
  <2> QED BY <2>2 DEF Landed
<1> DEFINE left == {s \in tagged : Idle(s)}
<1>3. left = {}
  <2> SUFFICES ASSUME left # {} PROVE FALSE
    OBVIOUS
  <2>1. left \in SUBSET Svc /\ Acyclic(conf)
    BY EngineParts DEF AllWalkable, Walkable, OInv
  <2>2. PICK s \in left : Needs(conf, s) \cap left = {}
    BY <2>1 DEF Acyclic
  <2>3. DOMAIN Deps(s) \subseteq Svc /\ \A x : Known(x) => x \in tagged
    BY <1>1, <2>1, <2>2, EngineParts, DepsType DEF Known, Called
  <2>4. ASSUME NEW t \in DOMAIN Deps(s) PROVE ~Idle(t)
    <3>1. t \in Needs(conf, s)
      BY DEF Needs, Deps, DepsOf
    <3> QED BY <1>1, <2>2, <2>3, <3>1 DEF WInv, DepsKnown, Listed
  <2>5. Able(s)
    BY <1>2, <2>2, <2>3, <2>4 DEF Able, IsReady, Idle, Final
  <2>6. GateOpen(s)
    BY <1>1, <2>2, <2>5 DEF WInv, AbleAttended, Attended
  <2>7. Gate(s) \in left /\ Gate(s) \in Needs(conf, s)
    BY <2>3, <2>6 DEF GateOpen, Needs, Gate, GateOf
  <2> QED BY <2>2, <2>7
<1> QED BY <1>2, <1>3 DEF Final, Idle

\* When the call returns, what was prepared has its final status (prepare,
\* update_status): for any graph without checks or cycles whose groups are
\* entered through their gates, any results and any order of visit.
THEOREM NothingLeftWaitingHolds ==
  ASSUME NoNegativeFanout, NoChecks, AllNested, AllWalkable
  PROVE  Spec => []NothingLeftWaiting
<1> DEFINE Inv == IInv /\ OInv /\ EInv /\ WInv /\ Landed
<1>1. Init => Inv
  BY InitOK, OrderInit, EnteringInit, WaitingInit DEF Init, Landed
<1>2. Inv /\ [Next]_vars => Inv'
  <2> SUFFICES ASSUME Inv, [Next]_vars PROVE Inv'
    OBVIOUS
  <2>1. IInv' /\ OInv' /\ EInv' /\ Moves
    BY NextOK, OrderNext, EnteringNext
  <2>2. WInv'
    BY <2>1, StepFollows, WaitingNext
  <2> QED BY <2>1, <2>2, LandedNext
<1>3. Inv => NothingLeftWaiting
  BY NothingLeft
<1> QED BY <1>1, <1>2, <1>3, PTL DEF Spec
-------------------------------------------------------------------------------
(* The graphs that are loaded *)

\* What an edge of the graph is, both ways.
LEMMA EdgesMean ==
  ASSUME NEW require, NEW linked, NEW reversed \in BOOLEAN,
         NEW s \in Svc, NEW t
  PROVE  /\ t \in DOMAIN Parents(require, linked, reversed)[s] <=>
              \/ t \in DOMAIN require[s]
              \/ \E g \in Group : t = Sink[g] /\ s \in BoundToSink(require, g)
              \/ \E g \in Group : s = Source[g] /\ t \in BoundToSource(require, linked, g)
              \/ t \in Group /\ reversed /\ s = Sink[t]
         /\ t \in DOMAIN Children(require, linked, reversed)[s] <=>
              \/ t \in Svc /\ s \in DOMAIN require[t]
              \/ \E g \in Group : t = Source[g] /\ s \in BoundToSource(require, linked, g)
              \/ \E g \in Group : s = Sink[g] /\ t \in BoundToSink(require, g)
              \/ t \in Group /\ ~reversed /\ s = Source[t]
BY DEF Parents, Children

\* A graph as ServiceGroup.fromdict leaves it, when the dependencies are declared
\* between the subservices of one group, can be walked both ways, and its groups
\* are entered through their gates: of the hypotheses of the theorems, there
\* remain that no entity waits for itself and that no gate is locked.
THEOREM SiblingsAreNested ==
  ASSUME Tree, NEW require, BetweenSiblings(require), NEW linked,
         NEW c, c.reversed \in BOOLEAN,
         c.parents = Parents(require, linked, c.reversed),
         c.children = Children(require, linked, c.reversed)
  PROVE  /\ TwoWay(c)
         /\ \A g \in Group : NestedIn(c, g)
         /\ Acyclic(c) /\ (\A g \in Group : GateOf(c, g) \notin c.locked) => Walkable(c)
<1> DEFINE far(g) == IF c.reversed THEN Source[g] ELSE Sink[g]
           Edge(s, t) ==
             \/ \E g \in Group : s \in Sub[g] /\ t \in Sub[g]
             \/ \E g \in Group : s = GateOf(c, g) /\ t \in Sub[g]
             \/ \E g \in Group : s \in Sub[g] /\ t = far(g)
<1>1. /\ MAIN \in Group /\ \A g \in Group : MAIN \notin Inner[g]
      /\ \A g \in Group : /\ Sub[g] \subseteq Inner[g] /\ Inner[g] \subseteq Svc
                          /\ {GateOf(c, g), far(g)} \subseteq Svc \ Group
                          /\ \A h \in Group : /\ GateOf(c, g) \notin Inner[h]
                                              /\ far(g) \notin Inner[h]
  BY StructureAssumption DEF Plain, GateOf
<1>2. \A s \in Svc : \A t \in DOMAIN require[s] :
        \E g \in Group : s \in Sub[g] /\ t \in Sub[g]
  BY DEF BetweenSiblings
<1>3. ASSUME NEW s \in Svc, NEW t \in DOMAIN DepsOf(c, s)
      PROVE  t \in Svc /\ Edge(s, t) /\ s \in DOMAIN DependentsOf(c, t)
  <2>1. CASE c.reversed
    <3>1. DepsOf(c, s) = Children(require, linked, c.reversed)[s]
      BY <2>1 DEF DepsOf
    <3>2. \/ t \in Svc /\ s \in DOMAIN require[t]
          \/ \E g \in Group : t = Source[g] /\ s \in BoundToSource(require, linked, g)
          \/ \E g \in Group : s = Sink[g] /\ t \in BoundToSink(require, g)
      <4>1. \/ t \in Svc /\ s \in DOMAIN require[t]
            \/ \E g \in Group : t = Source[g] /\ s \in BoundToSource(require, linked, g)
            \/ \E g \in Group : s = Sink[g] /\ t \in BoundToSink(require, g)
            \/ ~c.reversed
        BY <3>1, EdgesMean
      <4> QED BY <2>1, <4>1
    <3>3. t \in Svc /\ Edge(s, t)
      BY <1>1, <1>2, <2>1, <3>2 DEF GateOf, BoundToSink, BoundToSource
    <3>4. s \in DOMAIN Parents(require, linked, c.reversed)[t]
      BY <3>2, <3>3, EdgesMean
    <3> QED BY <2>1, <3>3, <3>4 DEF DependentsOf
  <2>2. CASE ~c.reversed
    <3>1. DepsOf(c, s) = Parents(require, linked, c.reversed)[s]
      BY <2>2 DEF DepsOf
    <3>2. \/ t \in DOMAIN require[s]
          \/ \E g \in Group : t = Sink[g] /\ s \in BoundToSink(require, g)
          \/ \E g \in Group : s = Source[g] /\ t \in BoundToSource(require, linked, g)
      BY <1>3, <2>2, <3>1, EdgesMean
    <3>3. t \in Svc /\ Edge(s, t)
      BY <1>1, <1>2, <2>2, <3>2 DEF GateOf, BoundToSink, BoundToSource
    <3>4. s \in DOMAIN Children(require, linked, c.reversed)[t]
      BY <3>2, <3>3, EdgesMean
    <3> QED BY <2>2, <3>3, <3>4 DEF DependentsOf
  <2> QED BY <2>1, <2>2
<1>4. \A g, h \in Group : /\ far(g) # GateOf(c, h)
                          /\ GateOf(c, g) = GateOf(c, h) => g = h
  BY DEF Tree, GateOf
<1> HIDE DEF far
<1>5. TwoWay(c)
  <2> SUFFICES ASSUME NEW s \in Svc, NEW t \in DOMAIN DepsOf(c, s)
               PROVE  t # MAIN /\ s \in DOMAIN DependentsOf(c, t)
    BY DEF TwoWay
  <2> QED BY <1>1, <1>3
<1>6. ASSUME NEW g \in Group
      PROVE  /\ DOMAIN DepsOf(c, GateOf(c, g)) \subseteq Sub[g]
             /\ g \in DOMAIN DependentsOf(c, GateOf(c, g))
  <2>1. ASSUME NEW t \in DOMAIN DepsOf(c, GateOf(c, g)) PROVE t \in Sub[g]
    BY <1>1, <1>3, <1>4, <2>1
  <2>2. g \in DOMAIN DependentsOf(c, GateOf(c, g))
    BY <1>1, EdgesMean DEF DependentsOf, GateOf
  <2> QED BY <2>1, <2>2
<1>7. ASSUME NEW g \in Group PROVE NestedIn(c, g)
  <2>1. ASSUME NEW s \in Svc, NEW t \in DOMAIN DepsOf(c, s), t \in Region(c, g)
        PROVE  s \in Region(c, g)
    <3>1. t \in Inner[g] /\ \E h \in Group : t \in Sub[h] /\ (s \in Sub[h] \/ s = GateOf(c, h))
      BY <1>1, <1>3, <1>4, <2>1 DEF Region
    <3>2. PICK h \in Group : t \in Sub[h] /\ (s \in Sub[h] \/ s = GateOf(c, h))
      BY <3>1
    <3>3. h \in {g} \cup (Inner[g] \cap Group) /\ Sub[h] \subseteq Inner[g]
      BY <1>1, <3>1, <3>2 DEF Tree
    <3> QED BY <3>2, <3>3 DEF Region
  <2>2. ASSUME NEW h \in Group \ {g}, GateOf(c, h) \in Region(c, g)
        PROVE  h \in Region(c, g)
    BY <1>1, <1>4, <2>2 DEF Region
  <2> QED BY <2>1, <2>2 DEF NestedIn
<1> QED BY <1>1, <1>5, <1>6, <1>7 DEF Walkable, GatesOpen
-------------------------------------------------------------------------------
(* The exit code: an error of a service that ends the graph always reaches    *)
(* MAIN.  MAIN has an action to run then, and nodes left to run it on, because *)
(* the service that failed was asked for the action of the command line, had   *)
(* it, and keeps the nodes it had when it failed.                              *)

\* The entities that are asked for the action of the command line only.
Ends == CHOOSE E \in SUBSET Svc : AskedOnce(conf, E)

Asks(f) ==
  f.svc \in Ends =>
    /\ f.op = "prepare" => f.act \in {None, conf.request}
    /\ f.op = "action_prepare" =>
         f.act = conf.request /\ conf.request \in conf.actions[f.svc]

Asking == /\ \A s \in Ends : last_action[s] \in {None, conf.request}
          /\ \A f \in Frames : Asks(f)

\* They run that action, on nodes that are left.
RunsRequest(a) ==
  a[1] \in Ends /\ act_status[a] = WAITING_STATUS =>
    /\ a[2] = conf.request /\ conf.request \in conf.actions[a[1]]
    /\ target[a] # {}

\* A service that keeps the group of `s' from being skipped, for good: it has no
\* such action, or it has nodes left that will not be filtered any more.
Firm(t) ==
  \/ conf.request \notin conf.actions[t]
  \/ /\ target[<<t, conf.request>>] # {}
     /\ \/ Final(status[t])
        \/ \E g \in Group \ {MAIN} : t \in Inner[g] /\ Stopped(g)

\* What failed had something to run.
FailedFirmly(s) ==
  Failed(status[s]) =>
    HasAction(s, conf.request) /\ \E t \in Leaves(s) : Firm(t)

\* MAIN fails, unless what ends the graph is over without a failure, or there is
\* nothing to run.
MainFollows ==
  Final(status[MAIN]) =>
    \/ status[MAIN] = DEP_ERROR \/ Cleared(Gate(MAIN))
    \/ ~HasAction(MAIN, conf.request) \/ ToSkip(MAIN, conf.request)

\* What Exit makes of the statuses is not undone.
Reported ==
  retcode # None =>
    retcode = IF status[MAIN] \in {DEP_ERROR, ERROR} THEN RC_ERROR
              ELSE IF HasWarnings THEN RC_WARNING ELSE RC_OK

XInv ==
  /\ Known(MAIN)
  /\ Asking
  /\ \A a \in Action : RunsRequest(a)
  /\ \A s \in Ends \ {MAIN} : FailedFirmly(s)
  /\ MainFollows
  /\ Reported
-------------------------------------------------------------------------------
(* The entities that end the call *)

LEMMA EndsFacts ==
  ASSUME EndsAsked, OInv
  PROVE  Ends \in SUBSET Svc /\ AskedOnce(conf, Ends)
BY DEF EndsAsked, OInv, Ends

LEMMA EndsStay ==
  ASSUME UNCHANGED conf
  PROVE  Ends' = Ends
BY DEF Ends, AskedOnce, GateOf, DepsOf

\* A method that prepares one of them asks for the action of the command line.
LEMMA RequestIsAsked ==
  ASSUME EndsAsked, IInv, OInv, Asking, NEW s \in Ends, Preparing(s)
  PROVE  Requested(s) = conf.request
<1>1. s \in Svc /\ stack # <<>> /\ Top.op = "prepare" /\ Top.svc = s
  BY EndsFacts DEF Preparing, Running
<1>2. Requested(s) \in Name
  BY <1>1, PreparingFacts
<1>3. Top \in Frames
  BY <1>1, FramesTop
<1> QED BY <1>1, <1>2, <1>3, NameAssumption DEF Asking, Asks, Requested
-------------------------------------------------------------------------------
(* Steps that ask *)

\* The branches of Service.prepare.
LEMMA PrepareAsks ==
  ASSUME EndsAsked, IInv, OInv, Asking, NEW s \in Svc,
         \/ PrepareAgain(s) \/ PrepareDeps(s) \/ PrepareWaits(s)
         \/ LaunchMissing(s) \/ LaunchSkipped(s) \/ LaunchDepError(s)
         \/ LaunchAction(s) \/ LaunchGate(s) \/ LaunchInternal(s)
  PROVE  Asking'
<1>1. Preparing(s)
  BY DEF PrepareAgain, PrepareDeps, PrepareWaits, LaunchMissing, LaunchSkipped,
         LaunchDepError, LaunchAction, LaunchGate, LaunchInternal, Launching
<1>2. /\ stack # <<>> /\ UNCHANGED conf /\ Requested(s) \in Name
      /\ Caller \in Seq(Frame) /\ FramesOf(Caller) \subseteq Frames
      /\ last_action' = [last_action EXCEPT ![s] = Requested(s)]
      /\ last_action \in [Svc -> {None} \cup Name]
  BY <1>1, PreparingFacts, FramesTop, EngineParts DEF envVars, Preparing, SvcInv
<1>3. Ends' = Ends /\ Ends \subseteq Svc /\ AskedOnce(conf, Ends)
  BY <1>2, EndsFacts, EndsStay
<1>4. s \in Ends => Requested(s) = conf.request
  BY <1>1, RequestIsAsked
<1>5. \A t \in Ends : last_action'[t] \in {None, conf.request}
  BY <1>2, <1>3, <1>4 DEF Asking
<1>6. ASSUME NEW f, Asks(f) PROVE Asks(f)'
  BY <1>2, <1>3, <1>6 DEF Asks
<1>7. ASSUME \A f \in Frames' : f \in Frames \/ Asks(f)
      PROVE  Asking'
  BY <1>2, <1>3, <1>5, <1>6, <1>7 DEF Asking
<1>8. ASSUME NEW f \in Frame, Asks(f), NEW c \in Seq(Frame), stack' = <<f>> \o c,
             FramesOf(c) \subseteq Frames
      PROVE  Asking'
  BY <1>7, <1>8, CallFrames
<1>9. ASSUME NEW st, UpdateStatus(s, st, Caller)
      PROVE  Asking'
  <2>1. /\ Frames' = FramesOf(Caller) \cup (IF Final(st) /\ s # MAIN THEN {Loop(s)} ELSE {})
        /\ Loop(s).op = "trigger"
    BY <1>2, <1>9, UpdateFrames
  <2> QED BY <1>2, <1>7, <2>1 DEF Asks
<1>10. CASE PrepareAgain(s) \/ PrepareWaits(s)
  BY <1>2, <1>7, <1>10, ReturnFrames DEF PrepareAgain, PrepareWaits
<1>11. CASE PrepareDeps(s)
  <2> DEFINE f == Call("prepare_deps", s, None, Unprocessed(s))
  <2>1. f \in Frame /\ f.op = "prepare_deps" /\ stack' = <<f>> \o Caller
    <3>1. Unprocessed(s) \in (SUBSET Svc) \cup (SUBSET Action)
      BY EngineParts, DepsType DEF Unprocessed, SearchDeps
    <3> QED BY <1>11, <3>1 DEF PrepareDeps, Call, Frame
  <2> HIDE DEF f
  <2> QED BY <1>2, <1>8, <2>1 DEF Asks
<1>12. CASE \/ LaunchMissing(s) \/ LaunchDepError(s) \/ LaunchInternal(s)
            \/ (s \in Group /\ LaunchSkipped(s))
  BY <1>9, <1>12 DEF LaunchMissing, LaunchDepError, LaunchInternal, LaunchSkipped
<1>13. CASE LaunchAction(s) \/ (s \notin Group /\ LaunchSkipped(s))
  <2> DEFINE f == Call("action_prepare", s, Requested(s), {})
  <2>1. f \in Frame /\ f.op = "action_prepare" /\ f.svc = s /\ f.act = Requested(s)
    <3>1. {} \in (SUBSET Svc) \cup (SUBSET Action)
      OBVIOUS
    <3> QED BY <1>2, <3>1 DEF Call, Frame
  <2>2. stack' = <<f>> \o Caller
    BY <1>13, StatusNames DEF LaunchAction, LaunchSkipped, UpdateStatus
  <2>3. Requested(s) \in conf.actions[s]
    BY <1>13 DEF LaunchAction, LaunchSkipped, Launchable, HasAction, Leaves
  <2> HIDE DEF f
  <2>4. Asks(f)
    BY <1>4, <2>1, <2>3 DEF Asks
  <2> QED BY <1>2, <1>8, <2>1, <2>2, <2>4
<1>14. CASE LaunchGate(s)
  <2>1. s \in Group /\ stack' = <<Call("prepare", Gate(s), Requested(s), {})>> \o Caller
    BY <1>14 DEF LaunchGate
  <2> DEFINE f == Call("prepare", Gate(s), Requested(s), {})
  <2>2. f \in Frame /\ f.op = "prepare" /\ f.svc = Gate(s) /\ f.act = Requested(s)
    <3>1. {} \in (SUBSET Svc) \cup (SUBSET Action)
      OBVIOUS
    <3>2. Gate(s) \in Svc
      BY <2>1, GateType
    <3> QED BY <1>2, <3>1, <3>2 DEF Call, Frame
  <2>3. stack' = <<f>> \o Caller
    BY <2>1
  <2> HIDE DEF f
  <2>4. Gate(s) \in Ends => s \in Ends
    BY <1>3, <2>1 DEF AskedOnce, Gate, GateOf
  <2>5. Asks(f)
    BY <1>4, <2>2, <2>4 DEF Asks
  <2> QED BY <1>2, <1>8, <2>2, <2>3, <2>5
<1> QED BY <1>10, <1>11, <1>12, <1>13, <1>14

\* The loops ask what a dependent was asked, or nothing new.
LEMMA LoopAsks ==
  ASSUME EndsAsked, IInv, OInv, EInv, Asking, NEW s \in Svc, NEW t \in Svc,
         PrepareDep(s, t) \/ Trigger(s, t)
  PROVE  Asking'
<1>1. stack # <<>> /\ UNCHANGED <<conf, last_action>>
  BY DEF PrepareDep, Trigger, Running, svcVars, envVars
<1>2. Ends' = Ends /\ AskedOnce(conf, Ends) /\ Ends \subseteq Svc
  BY <1>1, EndsFacts, EndsStay
<1>3. /\ Top \in Frame /\ Frames = {Top} \cup FramesOf(Caller)
  BY <1>1, FramesTop
<1>4. ASSUME NEW f \in Frame, Asks(f), NEW r \in Seq(Frame), FramesOf(r) \subseteq {f},
             Visit(t, r), Top.op \notin {"prepare", "action_prepare"}
      PROVE  Asking'
  <2>1. Frames' = FramesOf(r) \cup {Left(t)} \cup FramesOf(Caller)
    BY <1>1, <1>4, VisitFrames
  <2>2. Left(t).op = Top.op
    BY DEF Left, Call
  <2>3. \A g \in Frames' : Asks(g)
    BY <1>3, <1>4, <2>1, <2>2 DEF Asking, Asks
  <2>4. \A g \in Frames' : Asks(g)'
    BY <1>1, <1>2, <2>3 DEF Asks
  <2> QED BY <1>1, <1>2, <2>4 DEF Asking
<1>5. CASE PrepareDep(s, t)
  <2> DEFINE n == IF IsCheck(Deps(s)[t]) THEN STATUS ELSE last_action[s]
             f == Call("prepare", t, n, {})
             r == <<f>>
  <2>1. /\ Top.op = "prepare_deps" /\ Top.svc = s /\ t \in Top.todo /\ Visit(t, r)
    BY <1>5 DEF PrepareDep, Running
  <2>2. t \in DOMAIN Deps(s)
    BY <1>1, <2>1, TopIsEntering DEF Entering
  <2>3. t \in Ends => n \in {None, conf.request}
    <3>1. t \in Ends => s \in Ends /\ ~IsCheck(Deps(s)[t])
      BY <1>2, <2>2 DEF AskedOnce, Deps, DepsOf
    <3> QED BY <3>1 DEF Asking
  <2>4. f \in Frame /\ f.op = "prepare" /\ f.svc = t /\ f.act = n
    <3>1. n \in {None} \cup Name
      BY NameAssumption, EngineParts DEF SvcInv
    <3>2. {} \in (SUBSET Svc) \cup (SUBSET Action)
      OBVIOUS
    <3> HIDE DEF n
    <3> QED BY <3>1, <3>2 DEF Call, Frame
  <2> HIDE DEF f, n
  <2>5. r \in Seq(Frame) /\ FramesOf(r) \subseteq {f}
    BY <2>4 DEF FramesOf
  <2>6. Asks(f)
    BY <2>3, <2>4 DEF Asks
  <2> HIDE DEF r
  <2> QED BY <1>4, <2>1, <2>4, <2>5, <2>6
<1>6. CASE Trigger(s, t)
  <2> DEFINE f == Call("prepare", t, None, {})
             r == IF Able(t) THEN <<f>> ELSE <<>>
  <2>1. Top.op = "trigger" /\ Visit(t, r)
    BY <1>6 DEF Trigger, Running, Able, Idle
  <2>2. f \in Frame /\ f.op = "prepare" /\ f.act = None
    <3>1. {} \in (SUBSET Svc) \cup (SUBSET Action)
      OBVIOUS
    <3> QED BY <3>1 DEF Call, Frame
  <2> HIDE DEF f
  <2>3. r \in Seq(Frame) /\ FramesOf(r) \subseteq {f}
    BY <2>2 DEF FramesOf
  <2>4. Asks(f)
    BY <2>2 DEF Asks
  <2> HIDE DEF r
  <2> QED BY <1>4, <2>1, <2>2, <2>3, <2>4
<1> QED BY <1>5, <1>6

\* The other steps call nothing but the loop over dependents.
LEMMA FewerAsk ==
  ASSUME EndsAsked, OInv, Asking, UNCHANGED <<conf, last_action>>,
         \A f \in Frames' : f \in Frames \/ f.op = "trigger"
  PROVE  Asking'
<1>1. Ends' = Ends
  BY EndsStay
<1>2. \A f \in Frames' : Asks(f)
  BY DEF Asking, Asks
<1>3. \A f \in Frames' : Asks(f)'
  BY <1>1, <1>2 DEF Asks
<1> QED BY <1>1, <1>3 DEF Asking

LEMMA CompleteAsks ==
  ASSUME EndsAsked, NoChecks, IInv, OInv, Asking, UNCHANGED <<conf, last_action>>,
         NEW a \in Action, NEW st, NEW failed, NEW c \in Seq(Frame),
         CompleteAction(a, st, failed, c), FramesOf(c) \subseteq Frames
  PROVE  Asking'
<1>1. a[1] \in Svc /\ UpdateStatus(a[1], st, c)
  BY WithoutChecks DEF CompleteAction, Action, Plain
<1>2. /\ Frames' = FramesOf(c) \cup (IF Final(st) /\ a[1] # MAIN THEN {Loop(a[1])} ELSE {})
      /\ Loop(a[1]).op = "trigger"
  BY <1>1, UpdateFrames
<1> QED BY <1>2, FewerAsk

LEMMA ActionAsks ==
  ASSUME EndsAsked, NoChecks, IInv, OInv, Asking, NEW a \in Action,
         ActionStep(a) \/ EventStep(a)
  PROVE  Asking'
<1>1. CASE EventStep(a)
  <2>1. stack = <<>> /\ UNCHANGED <<conf, last_action>>
    BY <1>1 DEF EventStep, Fire, Retry, Close, Closing, InEventLoop, svcVars, envVars
  <2>2. CASE Fire(a) \/ \E r \in Results(a) : Retry(a, r)
    <3>1. Frames' = Frames
      BY <2>2 DEF Fire, Retry, Frames
    <3> QED BY <2>1, <3>1, FewerAsk
  <2>3. ASSUME NEW r \in Results(a), Close(a, r) PROVE Asking'
    <3> DEFINE c == <<>>
    <3>1. c \in Seq(Frame) /\ FramesOf(c) = {}
      BY DEF FramesOf
    <3>2. CompleteAction(a, Outcome(a, r), Spoiled(a, r), c)
      BY <2>3 DEF Close
    <3> HIDE DEF c
    <3> QED BY <2>1, <3>1, <3>2, CompleteAsks
  <2> QED BY <1>1, <2>2, <2>3 DEF EventStep
<1>2. CASE ActionStep(a)
  <2>1. ASSUME NEW b \in Action, PrepareSubAction(a) \/ ActionTrigger(a, b)
        PROVE  FALSE
    <3>1. stack # <<>> /\ Top.op \in {"action_deps", "action_trigger"}
      BY <2>1 DEF PrepareSubAction, ActionTrigger, Running
    <3> QED BY <3>1, CallerIsService DEF Running, ServiceFrame
  <2>2. ~ActionNotNeeded(a) /\ ~PrepareSubActions(a)
    BY WithoutChecks DEF ActionNotNeeded, PrepareSubActions
  <2>3. ActionPrepareAgain(a) \/ SkipAction(a) \/ RunAction(a)
    BY <1>2, <2>1, <2>2 DEF ActionStep
  <2>4. stack # <<>> /\ UNCHANGED <<conf, last_action>>
    BY <2>3 DEF ActionPrepareAgain, SkipAction, RunAction, PreparingAction, Running,
                svcVars, envVars
  <2>5. Caller \in Seq(Frame) /\ FramesOf(Caller) \subseteq Frames
    BY <2>4, FramesTop
  <2>6. CASE ActionPrepareAgain(a) \/ RunAction(a)
    BY <2>4, <2>5, <2>6, ReturnFrames, FewerAsk DEF ActionPrepareAgain, RunAction
  <2>7. CASE SkipAction(a)
    BY <2>4, <2>5, <2>7, CompleteAsks DEF SkipAction
  <2> QED BY <2>3, <2>6, <2>7
<1> QED BY <1>1, <1>2

LEMMA AskingNext ==
  ASSUME EndsAsked, NoChecks, IInv, OInv, EInv, Asking, [Next]_vars
  PROVE  Asking'
<1>1. ASSUME NEW s \in Svc, ServiceStep(s)
      PROVE  Asking'
  BY <1>1, PrepareAsks, LoopAsks DEF ServiceStep
<1>2. CASE EndLoop
  <2>1. stack # <<>> /\ UNCHANGED <<conf, last_action>> /\ Frames' = FramesOf(Caller)
    BY <1>2, ReturnFrames DEF EndLoop, svcVars, envVars
  <2> QED BY <2>1, FramesTop, FewerAsk
<1>3. CASE Exit \/ UNCHANGED vars
  <2>1. UNCHANGED <<conf, last_action, stack>>
    BY <1>3 DEF Exit, svcVars, vars
  <2> QED BY <2>1, FewerAsk DEF Frames
<1> QED BY <1>1, <1>2, <1>3, ActionAsks DEF Next, Step, Terminated
-------------------------------------------------------------------------------
(* Who writes a status, and who filters nodes *)

LEMMA WhoMoves ==
  ASSUME NoChecks, IInv, OInv, [Next]_vars, NEW s \in Svc, status'[s] # status[s]
  PROVE  \/ LaunchMissing(s) \/ LaunchSkipped(s) \/ LaunchDepError(s)
         \/ LaunchAction(s) \/ LaunchInternal(s)
         \/ \E a \in Action :
              a[1] = s /\ (SkipAction(a) \/ \E r \in Results(a) : Close(a, r))
<1>1. status \in [Svc -> Status]
  BY EngineParts
<1>2. ASSUME NEW x, NEW st, NEW c, UpdateStatus(x, st, c)
      PROVE  x = s
  BY <1>1, <1>2 DEF UpdateStatus
<1>3. ASSUME NEW x \in Svc, ServiceStep(x)
      PROVE  /\ x = s
             /\ \/ LaunchMissing(s) \/ LaunchSkipped(s) \/ LaunchDepError(s)
                \/ LaunchAction(s) \/ LaunchInternal(s)
  <2>1. /\ ~PrepareAgain(x) /\ ~PrepareDeps(x) /\ ~PrepareWaits(x) /\ ~LaunchGate(x)
        /\ \A t \in Svc : ~PrepareDep(x, t) /\ ~Trigger(x, t)
    BY DEF PrepareAgain, PrepareDeps, PrepareWaits, LaunchGate, PrepareDep, Trigger
  <2>2. \/ LaunchMissing(x) \/ LaunchSkipped(x) \/ LaunchDepError(x)
        \/ LaunchAction(x) \/ LaunchInternal(x)
    BY <1>3, <2>1 DEF ServiceStep
  <2>3. x = s
    BY <1>2, <2>2 DEF LaunchMissing, LaunchSkipped, LaunchDepError, LaunchAction,
                      LaunchInternal
  <2> QED BY <2>2, <2>3
<1>4. ASSUME NEW a \in Action, ActionStep(a) \/ EventStep(a)
      PROVE  a[1] = s /\ (SkipAction(a) \/ \E r \in Results(a) : Close(a, r))
  <2>1. ASSUME NEW st, NEW failed, NEW c, CompleteAction(a, st, failed, c)
        PROVE  a[1] = s
    BY <1>2, <2>1 DEF CompleteAction
  <2>2. ~ActionNotNeeded(a)
    BY WithoutChecks DEF ActionNotNeeded
  <2>3. SkipAction(a) \/ \E r \in Results(a) : Close(a, r)
    BY <1>4, <2>2 DEF ActionStep, EventStep, ActionPrepareAgain, RunAction,
       PrepareSubActions, PrepareSubAction, ActionTrigger, Fire, Retry
  <2> QED BY <2>1, <2>3 DEF SkipAction, Close
<1>5. ~EndLoop /\ ~Exit /\ ~UNCHANGED vars
  BY DEF EndLoop, Exit, vars
<1> QED BY <1>3, <1>4, <1>5 DEF Next, Step, Terminated

\* Action.prepare takes nodes away, and never all of them from an action it runs.
LEMMA TargetsMove ==
  ASSUME NoChecks, IInv, OInv, [Next]_vars, NEW a \in Action
  PROVE  /\ target[a] = {} => target'[a] = {}
         /\ target[a] # {} /\ target'[a] = {} => status[a[1]] = WAITING_STATUS
         /\ act_status'[a] = WAITING_STATUS =>
              \/ act_status[a] = WAITING_STATUS /\ target'[a] = target[a]
              \/ RunAction(a) /\ target'[a] # {}
<1>1. target \in [Action -> {None} \cup SUBSET Node] /\ act_status \in [Action -> Status]
  BY EngineParts
<1>2. CASE UNCHANGED target /\ act_status'[a] \in {act_status[a]} \cup (Status \ {WAITING_STATUS})
  BY <1>2
<1>3. ASSUME NEW b \in Action, SkipAction(b) \/ RunAction(b)
      PROVE  /\ target[a] = {} => target'[a] = {}
             /\ target[a] # {} /\ target'[a] = {} => status[a[1]] = WAITING_STATUS
             /\ act_status'[a] = WAITING_STATUS =>
                  \/ act_status[a] = WAITING_STATUS /\ target'[a] = target[a]
                  \/ RunAction(a) /\ target'[a] # {}
  <2>1. /\ Running("action_prepare") /\ TopAction = b
        /\ target' = [target EXCEPT ![b] = Remaining(b)]
    BY <1>3 DEF SkipAction, RunAction, PreparingAction
  <2>2. status[b[1]] = WAITING_STATUS \/ target[b] = {}
    BY <2>1, PreparingActionFacts
  <2>3. target[b] = {} => Remaining(b) = {}
    BY NodeAssumption DEF Remaining
  <2>4. \/ SkipAction(b) /\ act_status' = [act_status EXCEPT ![b] = SKIPPED]
        \/ /\ RunAction(b) /\ act_status' = [act_status EXCEPT ![b] = WAITING_STATUS]
           /\ Remaining(b) # {}
    BY <1>3 DEF SkipAction, CompleteAction, RunAction
  <2> QED BY <1>1, <2>1, <2>2, <2>3, <2>4, StatusNames
<1>4. ASSUME NEW s \in Svc, ServiceStep(s) PROVE UNCHANGED <<target, act_status>>
  BY <1>4 DEF ServiceStep, PrepareAgain, PrepareDeps, PrepareWaits, LaunchMissing,
     LaunchSkipped, LaunchDepError, LaunchAction, LaunchGate, LaunchInternal, Launching,
     Preparing, PrepareDep, Trigger, actVars
<1>5. ASSUME NEW b \in Action, ActionStep(b), ~SkipAction(b), ~RunAction(b)
      PROVE  UNCHANGED <<target, act_status>>
  <2>1. ~ActionNotNeeded(b) /\ ~PrepareSubActions(b)
    BY WithoutChecks DEF ActionNotNeeded, PrepareSubActions
  <2> QED BY <1>5, <2>1 DEF ActionStep, ActionPrepareAgain, PrepareSubAction,
                            ActionTrigger, actVars
<1>6. ASSUME NEW b \in Action, EventStep(b)
      PROVE  /\ UNCHANGED target
             /\ act_status'[a] \in {act_status[a]} \cup (Status \ {WAITING_STATUS})
  <2>1. CASE Fire(b) \/ \E r \in Results(b) : Retry(b, r)
    BY <2>1 DEF Fire, Retry, Closing
  <2>2. ASSUME NEW r \in Results(b), Close(b, r)
        PROVE  /\ UNCHANGED target
               /\ act_status'[a] \in {act_status[a]} \cup (Status \ {WAITING_STATUS})
    <3>1. UNCHANGED target /\ act_status' = [act_status EXCEPT ![b] = Outcome(b, r)]
      BY <2>2 DEF Close, Closing, CompleteAction
    <3>2. Outcome(b, r) \in Status \ {WAITING_STATUS}
      <4>1. Outcome(b, r) \in {TIMEOUT, ERROR, WARNING, DONE}
        BY OutcomeFinal
      <4> QED BY <4>1, StatusNames DEF Status
    <3> QED BY <1>1, <3>1, <3>2
  <2> QED BY <1>6, <2>1, <2>2 DEF EventStep
<1>7. CASE EndLoop \/ Exit \/ UNCHANGED vars
  BY <1>2, <1>7 DEF EndLoop, Exit, actVars, vars
<1> QED BY <1>2, <1>3, <1>4, <1>5, <1>6, <1>7 DEF Next, Step, Terminated
-------------------------------------------------------------------------------
(* What failed stays firm *)

LEMMA FirmStays ==
  ASSUME NoChecks, IInv, OInv, EInv, [Next]_vars, FinalKept, UNCHANGED conf,
         NEW t \in Svc, Firm(t)
  PROVE  Firm(t)'
<1>1. CASE conf.request \notin conf.actions[t]
  BY <1>1 DEF Firm
<1> DEFINE a == <<t, conf.request>>
<1>2. CASE conf.request \in conf.actions[t]
  <2>1. /\ target[a] # {} /\ a' = a
        /\ \/ Final(status[t])
           \/ \E g \in Group \ {MAIN} : t \in Inner[g] /\ Stopped(g)
    BY <1>2 DEF Firm
  <2>2. a \in Action /\ a[1] = t
    BY <1>2, EngineParts, ConfigAssumption DEF OInv, ConfigOK, Action
  <2>3. ASSUME NEW g \in Group \ {MAIN}, t \in Inner[g], Stopped(g)
        PROVE  status[t] # WAITING_STATUS /\ Stopped(g)'
    <3>1. g \in Svc
      BY StructureAssumption
    <3>2. ~Entered(t)
      BY <2>3, StatusNames DEF Entered, Region, Cleared, Stopped
    <3>3. status[t] # WAITING_STATUS
      BY <3>2 DEF OInv, Working, EInv
    <3> QED BY <2>3, <3>1, <3>3, ClearedStays
  <2>4. status[t] # WAITING_STATUS
    BY <2>1, <2>3, StatusNames
  <2>5. target'[a] # {}
    BY <2>1, <2>2, <2>4, TargetsMove
  <2>6. \/ Final(status'[t])
        \/ \E g \in Group \ {MAIN} : t \in Inner[g] /\ Stopped(g)'
    BY <2>1, <2>3 DEF FinalKept
  <2> QED BY <2>1, <2>5, <2>6 DEF Firm
<1> QED BY <1>1, <1>2

\* The subservices of a group have their leaves among those of the group.
LEMMA LeavesNest ==
  ASSUME NEW g \in Group, NEW s \in Sub[g]
  PROVE  Leaves(s) \subseteq Leaves(g)
BY StructureAssumption DEF Leaves

LEMMA GateLeads ==
  ASSUME AllWalkable, OInv, NEW g \in Group
  PROVE  DOMAIN Deps(Gate(g)) \subseteq Sub[g] /\ MAIN \notin DOMAIN Deps(Gate(g))
<1>1. GatesOpen(conf) /\ TwoWay(conf) /\ Gate(g) \in Svc
  BY GateType DEF AllWalkable, Walkable, OInv
<1> QED BY <1>1 DEF GatesOpen, TwoWay, Gate, GateOf, Deps, DepsOf

\* A dependency in error stops what had something to run.
LEMMA DepErrorIsFirm ==
  ASSUME AllWalkable, EndsAsked, IInv, OInv, XInv, NEW s \in Ends \ {MAIN},
         LaunchDepError(s), UNCHANGED conf
  PROVE  HasAction(s, conf.request) /\ \E t \in Leaves(s) : Firm(t)'
<1>1. /\ Launching(s) /\ Preparing(s) /\ Launchable(s) /\ s \in Svc
      /\ SvcDepsStatus(s) = DEP_ERROR /\ UpdateStatus(s, DEP_ERROR, Caller)
      /\ AskedOnce(conf, Ends)
  BY EndsFacts DEF LaunchDepError, Launching
<1>2. Requested(s) = conf.request /\ UNCHANGED target /\ status \in [Svc -> Status]
  BY <1>1, RequestIsAsked, PreparingFacts, EngineParts DEF XInv, actVars
<1>3. HasAction(s, conf.request) /\ ~ToSkip(s, conf.request)
  BY <1>1, <1>2 DEF Launchable
<1>4. Moves /\ FinalKept
  <2>1. ServiceMove
    BY <1>1, ServicePrepareMoves
  <2> QED BY <2>1, ServiceMoveOK, MovesKeepFinal, EngineParts
<1>5. PICK t \in Leaves(s) : \/ conf.request \notin conf.actions[t]
                             \/ target[<<t, conf.request>>] # {}
  BY <1>3 DEF ToSkip, ActToSkip
<1>6. CASE s \notin Group
  <2>1. t = s /\ Final(status'[t])
    BY <1>1, <1>2, <1>5, <1>6, StatusNames DEF Leaves, UpdateStatus
  <2> QED BY <1>2, <1>3, <1>5, <2>1 DEF Firm
<1>7. CASE s \in Group /\ Stopped(s)
  <2>1. t \in Inner[s] /\ Stopped(s)' /\ s \in Group \ {MAIN}
    BY <1>1, <1>4, <1>5, <1>7, ClearedStays DEF Leaves
  <2> QED BY <1>2, <1>3, <1>5, <2>1 DEF Firm
<1>8. CASE StoppedInside(s)
  <2>1. s \in Group /\ Stopped(Gate(s))
    BY <1>8 DEF StoppedInside
  <2>2. PICK u \in DOMAIN Deps(Gate(s)) : Failed(status[u])
    BY <2>1 DEF Stopped
  <2>3. u \in Sub[s] /\ u # MAIN /\ u \in Ends
    <3>1. DOMAIN Deps(Gate(s)) \subseteq Ends
      BY <1>1, <2>1 DEF AskedOnce, Gate, GateOf, Deps, DepsOf
    <3> QED BY <2>1, <2>2, <3>1, GateLeads
  <2>4. PICK v \in Leaves(u) : Firm(v)
    BY <2>2, <2>3 DEF XInv, FailedFirmly
  <2>5. v \in Leaves(s) /\ v \in Svc
    BY <2>1, <2>3, <2>4, LeavesNest, StructureAssumption DEF Leaves, Plain
  <2>6. Firm(v)'
    <3>1. Final(status[v]) => Final(status'[v])
      BY <1>4, <2>5 DEF FinalKept
    <3>2. \A g \in Group \ {MAIN} : Stopped(g) => Stopped(g)'
      BY <1>4, ClearedStays, StructureAssumption
    <3> QED BY <1>2, <2>4, <3>1, <3>2 DEF Firm
  <2> QED BY <1>3, <2>5, <2>6
<1> QED BY <1>1, <1>6, <1>7, <1>8, LaunchFacts

\* What fails had something to run, and keeps it.
LEMMA FailsFirmly ==
  ASSUME AllWalkable, EndsAsked, NoChecks, IInv, OInv, XInv, [Next]_vars,
         UNCHANGED conf, NEW s \in Ends \ {MAIN}, Failed(status'[s]), ~Failed(status[s])
  PROVE  HasAction(s, conf.request) /\ \E t \in Leaves(s) : Firm(t)'
<1>1. s \in Svc /\ status \in [Svc -> Status] /\ status'[s] # status[s]
  BY EndsFacts, EngineParts
<1>2. ASSUME NEW st, NEW c, UpdateStatus(s, st, c)
      PROVE  status'[s] = st /\ Failed(st)
  BY <1>1, <1>2 DEF UpdateStatus
<1>3. ~Failed(MISSING) /\ ~Failed(SKIPPED) /\ ~Failed(WAITING_STATUS)
  BY StatusNames DEF Failed, MISSING, SKIPPED, WAITING_STATUS, ERROR, TIMEOUT, DEP_ERROR
<1>4. ~LaunchMissing(s) /\ ~LaunchSkipped(s) /\ ~LaunchAction(s)
  BY <1>1, <1>2, <1>3 DEF LaunchMissing, LaunchSkipped, LaunchAction
<1>5. ~LaunchInternal(s)
  <2> SUFFICES ASSUME LaunchInternal(s) PROVE FALSE
    OBVIOUS
  <2> DEFINE st == EvalDepsStatus(Deps(Gate(s)), status)
  <2>1. st \in {NO_STATUS, DONE, WARNING, MISSING, SKIPPED, LOCKED}
    BY InternalCases DEF LaunchInternal, Launching
  <2>2. Failed(st)
    BY <1>2 DEF LaunchInternal
  <2> HIDE DEF st
  <2> QED BY <2>1, <2>2 DEF Failed, NO_STATUS, DONE, WARNING, MISSING, SKIPPED, LOCKED,
                            ERROR, TIMEOUT, DEP_ERROR
<1>6. ASSUME NEW a \in Action, a[1] = s,
             SkipAction(a) \/ \E r \in Results(a) : Close(a, r)
      PROVE  HasAction(s, conf.request) /\ \E t \in Leaves(s) : Firm(t)'
  <2>1. ~SkipAction(a)
    BY <1>2, <1>3, <1>6, WithoutChecks DEF SkipAction, CompleteAction
  <2>2. PICK r \in Results(a) : Close(a, r)
    BY <1>6, <2>1
  <2>3. UNCHANGED target /\ InEventLoop /\ workers[a] + timers[a] > 0
    BY <2>2, EngineParts DEF Close, Closing
  <2>4. act_status[a] = WAITING_STATUS
    BY <2>3, FlightFacts
  <2>5. /\ a[2] = conf.request /\ conf.request \in conf.actions[s] /\ target[a] # {}
    BY <1>6, <2>4 DEF XInv, RunsRequest
  <2>6. a = <<s, conf.request>> /\ s \notin Group
    BY <1>6, <2>5 DEF Action, Plain
  <2>7. Leaves(s) = {s} /\ Firm(s)'
    BY <2>3, <2>5, <2>6, StatusNames DEF Leaves, Firm
  <2> QED BY <2>5, <2>7 DEF HasAction
<1> QED BY <1>1, <1>4, <1>5, <1>6, WhoMoves, DepErrorIsFirm

LEMMA FailedFirmlyNext ==
  ASSUME AllWalkable, EndsAsked, NoChecks, IInv, OInv, EInv, XInv, [Next]_vars,
         FinalKept, UNCHANGED conf, NEW s \in Ends \ {MAIN}
  PROVE  FailedFirmly(s)'
<1> SUFFICES ASSUME Failed(status'[s])
             PROVE  HasAction(s, conf.request)' /\ \E t \in Leaves(s) : Firm(t)'
  BY DEF FailedFirmly, Leaves
<1>1. HasAction(s, conf.request)' = HasAction(s, conf.request)
  BY DEF HasAction, Leaves
<1>2. CASE ~Failed(status[s])
  BY <1>1, <1>2, FailsFirmly
<1>3. CASE Failed(status[s])
  <2>1. HasAction(s, conf.request) /\ \E t \in Leaves(s) : Firm(t)
    BY <1>3 DEF XInv, FailedFirmly
  <2>2. Leaves(s) \subseteq Svc
    BY EndsFacts, StructureAssumption DEF Leaves, Plain
  <2> QED BY <1>1, <2>1, <2>2, FirmStays
<1> QED BY <1>2, <1>3
-------------------------------------------------------------------------------
(* MAIN *)

LEMMA MainFollowsNext ==
  ASSUME AllWalkable, EndsAsked, NoChecks, IInv, OInv, WInv, XInv, [Next]_vars,
         FinalKept, UNCHANGED conf
  PROVE  MainFollows'
<1> SUFFICES ASSUME Final(status'[MAIN]), status'[MAIN] # DEP_ERROR
             PROVE  \/ Cleared(Gate(MAIN))' \/ ~HasAction(MAIN, conf.request)'
                    \/ ToSkip(MAIN, conf.request)'
  BY DEF MainFollows
<1>1. MAIN \in Group /\ MAIN \in Svc /\ MAIN \in Ends /\ status \in [Svc -> Status]
  BY StructureAssumption, EndsFacts, EngineParts DEF AskedOnce
<1>2. PICK k \in Svc : k = Gate(MAIN) /\ k = Gate(MAIN)'
  BY <1>1, GateType DEF Gate
<1>3. Cleared(Gate(MAIN)) => Cleared(Gate(MAIN))'
  <2>1. Cleared(k) => Cleared(k)'
    BY ClearedStays
  <2> QED BY <1>2, <2>1 DEF Cleared, Deps
<1>4. HasAction(MAIN, conf.request)' = HasAction(MAIN, conf.request)
  BY DEF HasAction, Leaves
<1>5. ToSkip(MAIN, conf.request) => ToSkip(MAIN, conf.request)'
  <2> SUFFICES ASSUME ToSkip(MAIN, conf.request), NEW t \in Leaves(MAIN)
               PROVE  conf.request \in conf.actions[t] /\ target'[<<t, conf.request>>] = {}
    BY DEF ToSkip, ActToSkip, Leaves
  <2>1. conf.request \in conf.actions[t] /\ target[<<t, conf.request>>] = {}
    BY DEF ToSkip, ActToSkip
  <2>2. <<t, conf.request>> \in Action
    <3>1. t \in Plain /\ conf.request \in Name
      BY <1>1, EngineParts, StructureAssumption DEF Leaves, ConfigOK
    <3> QED BY <3>1 DEF Action
  <2> QED BY <2>1, <2>2, TargetsMove
<1>6. CASE Final(status[MAIN])
  <2>1. status[MAIN] # DEP_ERROR
    BY <1>1, <1>6 DEF FinalKept
  <2> QED BY <1>3, <1>4, <1>5, <1>6, <2>1 DEF XInv, MainFollows
<1>7. CASE ~Final(status[MAIN])
  <2>1. \/ LaunchMissing(MAIN) \/ LaunchSkipped(MAIN) \/ LaunchDepError(MAIN)
        \/ LaunchAction(MAIN) \/ LaunchInternal(MAIN)
    <3>1. \A a \in Action : a[1] # MAIN
      BY <1>1 DEF Action, Plain
    <3> QED BY <1>1, <1>7, <3>1, WhoMoves
  <2>2. Preparing(MAIN)
    BY <2>1 DEF LaunchMissing, LaunchSkipped, LaunchDepError, LaunchAction,
                LaunchInternal, Launching
  <2>3. Requested(MAIN) = conf.request
    BY <1>1, <2>2, RequestIsAsked DEF XInv
  <2>4. CASE LaunchMissing(MAIN) \/ LaunchSkipped(MAIN)
    BY <1>4, <1>5, <2>3, <2>4 DEF LaunchMissing, LaunchSkipped
  <2>5. ~LaunchDepError(MAIN) /\ ~LaunchAction(MAIN)
    BY <1>1 DEF LaunchDepError, LaunchAction, UpdateStatus
  <2>6. CASE LaunchInternal(MAIN)
    <3>1. /\ ~Enterable(MAIN) /\ SvcDepsStatus(MAIN) \notin {WAITING_STATUS, DEP_ERROR}
      BY <2>6 DEF LaunchInternal, Launching
    <3> DEFINE st == EvalDepsStatus(Deps(Gate(MAIN)), status)
    <3>2. st \in {NO_STATUS, DONE, WARNING, MISSING, SKIPPED, LOCKED}
      BY <1>1, <3>1, InternalCases
    <3>3. ~Stopped(k)
      BY <1>2, <3>2, StoppedIsError, StatusNames
    <3> HIDE DEF st
    <3>4. Cleared(Gate(MAIN))
      BY <1>1, <1>2, <3>1, <3>3 DEF Enterable, WInv, GateOver, Idle, Cleared, Stopped
    <3> QED BY <1>3, <3>4
  <2> QED BY <2>1, <2>4, <2>5, <2>6
<1> QED BY <1>6, <1>7
-------------------------------------------------------------------------------
(* Theorem *)

LEMMA RunsRequestNext ==
  ASSUME EndsAsked, NoChecks, IInv, OInv, XInv, [Next]_vars, UNCHANGED conf,
         NEW a \in Action
  PROVE  RunsRequest(a)'
<1>1. Ends' = Ends
  BY EndsStay
<1> SUFFICES ASSUME a[1] \in Ends, act_status'[a] = WAITING_STATUS
             PROVE  /\ a[2] = conf.request /\ conf.request \in conf.actions[a[1]]
                    /\ target'[a] # {}
  BY <1>1 DEF RunsRequest
<1>2. CASE act_status[a] = WAITING_STATUS /\ target'[a] = target[a]
  BY <1>2 DEF XInv, RunsRequest
<1>3. CASE RunAction(a) /\ target'[a] # {}
  <2>1. Running("action_prepare") /\ TopAction = a
    BY <1>3 DEF RunAction, PreparingAction
  <2>2. Top \in Frames /\ Top.op = "action_prepare" /\ Top.svc = a[1] /\ Top.act = a[2]
    BY <2>1, FramesTop DEF Running, TopAction
  <2> QED BY <1>3, <2>2 DEF XInv, Asking, Asks
<1> QED BY <1>2, <1>3, TargetsMove

LEMMA ReportedNext ==
  ASSUME IInv, OInv, XInv, [Next]_vars
  PROVE  Reported'
<1>1. CASE retcode # None
  <2>1. UNCHANGED <<conf, status, retcode>>
    BY <1>1, ReturnedIsOver
  <2> QED BY <1>1, <2>1 DEF XInv, Reported, HasWarnings
<1>2. CASE retcode = None /\ ~Exit
  BY <1>2, OnlyExitReturns DEF Reported
<1>3. CASE Exit
  BY <1>3 DEF Exit, Reported, HasWarnings
<1> QED BY <1>1, <1>2, <1>3

LEMMA ExitInit ==
  ASSUME EndsAsked, MainRequires
  PROVE  Init => XInv
<1> SUFFICES ASSUME Init PROVE XInv
  OBVIOUS
<1>1. /\ conf \in Configs /\ retcode = None /\ MAIN \in Svc
      /\ \A s \in Svc : last_action[s] = None
      /\ \A s \in Svc : status[s] = IF s \in conf.locked THEN LOCKED ELSE NO_STATUS
      /\ \A a \in Action : act_status[a] = NO_STATUS
  BY StructureAssumption DEF Init
<1>2. Ends \in SUBSET Svc
  BY <1>1 DEF Ends, EndsAsked
<1>3. Frames = {Call("prepare", MAIN, conf.request, {})}
  BY DEF Init, Frames, FramesOf
<1>4. Known(MAIN) /\ Asking
  BY <1>1, <1>2, <1>3 DEF Known, Called, Asking, Asks, Call
<1>5. \A s \in Ends : ~Failed(status[s])
  BY <1>1, <1>2 DEF Failed, LOCKED, NO_STATUS, ERROR, TIMEOUT, DEP_ERROR
<1>6. ~Final(status[MAIN])
  BY <1>1, StatusNames DEF MainRequires
<1> QED BY <1>1, <1>4, <1>5, <1>6, StatusNames
        DEF XInv, RunsRequest, FailedFirmly, MainFollows, Reported

\* An error of what ends the graph stops MAIN.
LEMMA MainIsInError ==
  ASSUME AllWalkable, EndsAsked, MainRequires, IInv, OInv, XInv, Final(status[MAIN]),
         NEW s \in DOMAIN Deps(Gate(MAIN)), Failed(status[s])
  PROVE  status[MAIN] = DEP_ERROR
<1>1. /\ MAIN \in Group /\ MAIN \in Ends /\ s \in Sub[MAIN] /\ s # MAIN
      /\ IsStrong(Deps(Gate(MAIN))[s])
      /\ s \in Ends
  <2>1. MAIN \in Group /\ AskedOnce(conf, Ends) /\ conf \in Configs
    BY EndsFacts, StructureAssumption DEF OInv
  <2> QED BY <2>1, GateLeads DEF AskedOnce, MainRequires, RequiresEnds, Gate, GateOf,
                                Deps, DepsOf
<1>2. ~Cleared(Gate(MAIN))
  BY <1>1 DEF Cleared
<1>3. HasAction(s, conf.request) /\ \E t \in Leaves(s) : Firm(t)
  BY <1>1 DEF XInv, FailedFirmly
<1>4. Leaves(s) \subseteq Leaves(MAIN)
  BY <1>1, LeavesNest
<1>5. HasAction(MAIN, conf.request)
  BY <1>3, <1>4 DEF HasAction
<1>6. ~ToSkip(MAIN, conf.request)
  BY <1>3, <1>4 DEF ToSkip, ActToSkip, Firm
<1> QED BY <1>2, <1>5, <1>6 DEF XInv, MainFollows

\* The exit code (CommandLine.execute, ServiceManager.call_services) is an error when
\* a service that ends the graph failed, and not a plain success when a service of
\* MAIN ended with a warning: for any graph without checks or cycles whose last
\* services are asked for the action of the command line.
THEOREM ExitCodeJustifiedHolds ==
  ASSUME NoNegativeFanout, NoChecks, AllNested, AllWalkable, EndsAsked, MainRequires
  PROVE  Spec => []ExitCodeJustified
<1> DEFINE Inv == IInv /\ OInv /\ EInv /\ WInv /\ Landed /\ XInv
<1>1. Init => Inv
  BY InitOK, OrderInit, EnteringInit, WaitingInit, ExitInit DEF Init, Landed
<1>2. Inv /\ [Next]_vars => Inv'
  <2> SUFFICES ASSUME Inv, [Next]_vars PROVE Inv'
    OBVIOUS
  <2>1. IInv' /\ OInv' /\ EInv' /\ Moves
    BY NextOK, OrderNext, EnteringNext
  <2>2. Follows /\ FinalKept /\ UNCHANGED conf
    BY <2>1, StepFollows, MovesKeepFinal, EngineParts DEF Moves
  <2>3. WInv' /\ Landed'
    BY <2>1, <2>2, WaitingNext, LandedNext
  <2>4. Known(MAIN)'
    BY <2>2, StructureAssumption DEF XInv, Follows
  <2>5. Ends' = Ends
    BY <2>2, EndsStay
  <2>6. XInv'
    BY <2>2, <2>4, <2>5, AskingNext, RunsRequestNext, FailedFirmlyNext,
       MainFollowsNext, ReportedNext DEF XInv, Action, Plain
  <2> QED BY <2>1, <2>3, <2>6
<1>3. Inv => ExitCodeJustified
  <2> SUFFICES ASSUME Inv, retcode # None
               PROVE  /\ (\E s \in DOMAIN Deps(Gate(MAIN)) : Failed(status[s])) =>
                           retcode = RC_ERROR
                      /\ retcode = RC_OK => \A s \in Sub[MAIN] : status[s] # WARNING
    BY RetcodeAssumption DEF ExitCodeJustified
  <2>1. MAIN \in tagged
    BY DEF XInv, Known, Called, OInv, Frames, FramesOf
  <2>2. Final(status[MAIN])
    BY <2>1, NothingLeft, StructureAssumption DEF NothingLeftWaiting
  <2>3. ASSUME NEW s \in DOMAIN Deps(Gate(MAIN)), Failed(status[s])
        PROVE  retcode = RC_ERROR
    BY <2>2, <2>3, MainIsInError DEF XInv, Reported
  <2>4. retcode = RC_OK => ~HasWarnings
    BY DEF XInv, Reported, RC_OK, RC_WARNING, RC_ERROR
  <2> QED BY <2>3, <2>4 DEF HasWarnings
<1> QED BY <1>1, <1>2, <1>3, PTL DEF Spec
-------------------------------------------------------------------------------
(* The graphs that are loaded *)

\* An edge has the strength of its declaration, whichever way it is followed.
LEMMA EdgesWeigh ==
  ASSUME NEW require, NEW linked, NEW c, c.reversed \in BOOLEAN,
         c.parents = Parents(require, linked, c.reversed),
         c.children = Children(require, linked, c.reversed),
         NEW s \in Svc, NEW t \in DOMAIN DepsOf(c, s)
  PROVE  DepsOf(c, s)[t] = IF c.reversed THEN DeclaredStrength(require, t, s)
                           ELSE DeclaredStrength(require, s, t)
<1>1. CASE c.reversed
  <2>1. DepsOf(c, s) = Children(require, linked, c.reversed)[s]
    BY <1>1 DEF DepsOf
  <2> QED BY <1>1, <2>1 DEF Children
<1>2. CASE ~c.reversed
  <2>1. DepsOf(c, s) = Parents(require, linked, c.reversed)[s]
    BY <1>2 DEF DepsOf
  <2> QED BY <1>2, <2>1 DEF Parents
<1> QED BY <1>1, <1>2

\* In a graph as ServiceGroup.fromdict leaves it, MAIN requires what ends it; and
\* when no dependency is a check, all is asked for the action of the command line.
THEOREM SiblingsAreAsked ==
  ASSUME NEW require, BetweenSiblings(require), NEW linked,
         NEW c, c.reversed \in BOOLEAN,
         c.parents = Parents(require, linked, c.reversed),
         c.children = Children(require, linked, c.reversed)
  PROVE  /\ RequiresEnds(c)
         /\ (\A s \in Svc : \A t \in DOMAIN require[s] : ~IsCheck(require[s][t]))
              => AskedOnce(c, Svc)
<1>1. \A s \in Svc : \A t \in DOMAIN require[s] :
        \E g \in Group : s \in Sub[g] /\ t \in Sub[g]
  BY DEF BetweenSiblings
<1>2. ASSUME NEW s \in Svc, NEW t \in DOMAIN DepsOf(c, s) PROVE t \in Svc
  <2>1. CASE c.reversed
    <3>1. t \in DOMAIN Children(require, linked, c.reversed)[s]
      BY <2>1 DEF DepsOf
    <3>2. \/ t \in Svc \/ t \in Group
          \/ \E g \in Group : t = Source[g] \/ t \in BoundToSink(require, g)
      BY <3>1, EdgesMean
    <3> QED BY <3>2, StructureAssumption DEF BoundToSink, Plain
  <2>2. CASE ~c.reversed
    <3>1. t \in DOMAIN Parents(require, linked, c.reversed)[s]
      BY <2>2 DEF DepsOf
    <3>2. \/ t \in DOMAIN require[s] \/ t \in Group
          \/ \E g \in Group : t = Sink[g] \/ t \in BoundToSource(require, linked, g)
      BY <3>1, EdgesMean
    <3> QED BY <1>1, <3>2, StructureAssumption DEF BoundToSource, Plain
  <2> QED BY <2>1, <2>2
<1>3. RequiresEnds(c)
  <2> SUFFICES ASSUME NEW s \in Svc, s = GateOf(c, MAIN), NEW t \in DOMAIN DepsOf(c, s)
               PROVE  IsStrong(DepsOf(c, s)[t])
    BY StructureAssumption DEF RequiresEnds, GateOf
  <2>1. \A g \in Group : s \notin Sub[g]
    BY StructureAssumption DEF GateOf, Plain
  <2>2. t \notin DOMAIN require[s] /\ s \notin DOMAIN require[t]
    BY <1>1, <1>2, <2>1
  <2>3. DepsOf(c, s)[t] = REQUIRE
    BY <2>2, EdgesWeigh DEF DeclaredStrength
  <2> QED BY <2>3 DEF IsStrong
<1>4. ASSUME \A s \in Svc : \A t \in DOMAIN require[s] : ~IsCheck(require[s][t])
      PROVE  AskedOnce(c, Svc)
  <2>1. ASSUME NEW s \in Svc, NEW t \in DOMAIN DepsOf(c, s)
        PROVE  ~IsCheck(DepsOf(c, s)[t])
    <3>1. \/ DepsOf(c, s)[t] = REQUIRE
          \/ s \in DOMAIN require[t] /\ DepsOf(c, s)[t] = require[t][s]
          \/ t \in DOMAIN require[s] /\ DepsOf(c, s)[t] = require[s][t]
      BY EdgesWeigh DEF DeclaredStrength
    <3> QED BY <1>2, <1>4, <3>1 DEF IsCheck, REQUIRE, CHECK
  <2>2. MAIN \in Svc /\ \A g \in Group : g \in Svc /\ GateOf(c, g) \in Svc
    BY StructureAssumption DEF GateOf
  <2> QED BY <1>2, <2>1, <2>2 DEF AskedOnce
<1> QED BY <1>3, <1>4
-------------------------------------------------------------------------------
(***************************************************************************)
(* The nodes where a service failed: update_status hands them to the       *)
(* dependents one after the other, each of which is prepared at once.      *)
(* A service that is launched meanwhile was told already, because all that *)
(* runs above the loop comes after the service whose loop it is.           *)
(***************************************************************************)

\* A loop over dependents that only leads outwards: what runs above it comes after
\* the service it is about, and is prepared only when it may run; what it called
\* it has visited.
OutLoop(f) == f.op = "trigger" /\ Outward(conf, f.svc)

Comes(f, e) ==
  /\ f.op # "prepare_deps" /\ f.svc \in After(conf, e.svc)
  /\ f.op = "prepare" => IsReady(Deps(f.svc), status)

Visited(f, e) == f.svc \in DOMAIN Dependents(e.svc) \ e.todo

\* So it is for each frame and the loops below it.
Chained(stk) ==
  \A j \in 1..Len(stk) : OutLoop(stk[j]) =>
    /\ \A i \in 1..j-1 : Comes(stk[i], stk[j])
    /\ j > 1 => Visited(stk[j-1], stk[j])

\* What may be called on top of these frames.
Suits(f, stk) ==
  /\ \A j \in 1..Len(stk) : OutLoop(stk[j]) => Comes(f, stk[j])
  /\ stk # <<>> /\ OutLoop(stk[1]) => Visited(f, stk[1])

\* The frames below the running one.
Base == IF stack = <<>> THEN <<>> ELSE Caller

\* Below the running frame are loops, and those over dependents tell a final status.
Links ==
  /\ \A f \in FramesOf(Base) : f.op \in {"prepare_deps", "trigger"}
  /\ \A f \in Frames : f.op = "trigger" =>
       Final(status[f.svc]) /\ f.todo \subseteq DOMAIN Dependents(f.svc)
  /\ Chained(stack)

\* What is below the running frame is left alone.
LinksStay == Links' /\ FramesOf(Base) \subseteq Frames'
-------------------------------------------------------------------------------
\* What comes after t is closed under dependents, and leads outwards as t does.
LEMMA AfterNext ==
  ASSUME NEW c, NEW t, NEW u \in After(c, t) \cup {t},
         NEW v \in DOMAIN DependentsOf(c, u), v \in Svc
  PROVE  v \in After(c, t)
<1> SUFFICES ASSUME NEW X \in SUBSET Svc,
                    \A w \in X \cup {t} : DOMAIN DependentsOf(c, w) \subseteq X
             PROVE  v \in X
  BY DEF After
<1>1. u \in X \cup {t}
  BY DEF After
<1> QED BY <1>1

LEMMA OutwardNext ==
  ASSUME NEW c, NEW t, Outward(c, t), NEW u \in After(c, t)
  PROVE  Outward(c, u)
<1>1. ASSUME NEW w \in After(c, u) PROVE w \in After(c, t)
  <2> SUFFICES ASSUME NEW X \in SUBSET Svc,
                      \A v \in X \cup {t} : DOMAIN DependentsOf(c, v) \subseteq X
               PROVE  w \in X
    BY <1>1 DEF After
  <2>1. u \in X
    BY DEF After
  <2>2. \A v \in X \cup {u} : DOMAIN DependentsOf(c, v) \subseteq X
    BY <2>1
  <2> QED BY <1>1, <2>2 DEF After
<1> QED BY <1>1 DEF Outward

\* Sequences, one element at a time.
LEMMA ConcatElements ==
  ASSUME NEW S, NEW r \in Seq(S), NEW c \in Seq(S)
  PROVE  /\ r \o c \in Seq(S) /\ Len(r \o c) = Len(r) + Len(c)
         /\ Len(r) \in Nat /\ Len(c) \in Nat
         /\ \A i \in 1..Len(r) : (r \o c)[i] = r[i]
         /\ \A i \in 1..Len(c) : (r \o c)[Len(r) + i] = c[i]
BY ConcatProperties, LenProperties

LEMMA PushElements ==
  ASSUME NEW S, NEW f \in S, NEW c \in Seq(S)
  PROVE  LET q == <<f>> \o c
         IN  /\ q \in Seq(S) /\ Len(q) = Len(c) + 1 /\ Len(c) \in Nat
             /\ q[1] = f /\ \A i \in 1..Len(c) : q[i + 1] = c[i]
<1> DEFINE r == <<f>>
<1>1. r \in Seq(S) /\ Len(r) = 1 /\ r[1] = f
  OBVIOUS
<1> HIDE DEF r
<1>2. PICK q : q = r \o c
  OBVIOUS
<1>3. /\ q \in Seq(S) /\ Len(q) = Len(r) + Len(c) /\ Len(c) \in Nat
      /\ \A i \in 1..Len(r) : q[i] = r[i]
      /\ \A i \in 1..Len(c) : q[Len(r) + i] = c[i]
  <2>1. r \in Seq(S)
    BY <1>1
  <2> QED BY <1>2, <2>1, ConcatElements
<1>4. \A i \in 1..Len(c) : q[i + 1] = c[i]
  <2> TAKE i \in 1..Len(c)
  <2>1. i + 1 = Len(r) + i
    BY <1>1, <1>3
  <2> QED BY <1>3, <2>1
<1>5. q \in Seq(S) /\ Len(q) = Len(c) + 1 /\ Len(c) \in Nat /\ q[1] = f
  BY <1>1, <1>3
<1> QED BY <1>2, <1>4, <1>5 DEF r

\* A call and a return keep the order of the frames, and so does a step that makes no
\* final status another.
LEMMA PushChained ==
  ASSUME NEW stk \in Seq(Frame), NEW f \in Frame, Chained(stk), Suits(f, stk)
  PROVE  Chained(<<f>> \o stk)
<1> DEFINE q == <<f>> \o stk
<1>1. /\ q \in Seq(Frame) /\ Len(q) = Len(stk) + 1 /\ Len(stk) \in Nat
      /\ q[1] = f /\ \A i \in 1..Len(stk) : q[i + 1] = stk[i]
  BY PushElements
<1> HIDE DEF q
<1>2. \A i \in 2..Len(q) : i - 1 \in 1..Len(stk) /\ q[i] = stk[i-1]
  <2> TAKE i \in 2..Len(q)
  <2>1. i - 1 \in 1..Len(stk) /\ (i - 1) + 1 = i
    BY <1>1
  <2> QED BY <1>1, <2>1
<1> SUFFICES ASSUME NEW j \in 1..Len(q), OutLoop(q[j])
             PROVE  /\ \A i \in 1..j-1 : Comes(q[i], q[j])
                    /\ j > 1 => Visited(q[j-1], q[j])
  BY DEF Chained, q
<1>3. CASE j = 1
  BY <1>3
<1>4. CASE j > 1
  <2>1. /\ j \in 2..Len(q) /\ j - 1 \in 1..Len(stk) /\ q[j] = stk[j-1]
    BY <1>1, <1>2, <1>4
  <2>2. \A i \in 1..(j-1)-1 : Comes(stk[i], stk[j-1])
    BY <2>1 DEF Chained
  <2>3. j - 1 > 1 => Visited(stk[(j-1)-1], stk[j-1])
    BY <2>1 DEF Chained
  <2>4. Comes(f, q[j])
    BY <2>1 DEF Suits
  <2>5. ASSUME NEW i \in 1..j-1 PROVE Comes(q[i], q[j])
    <3>1. CASE i = 1
      BY <1>1, <2>4, <3>1
    <3>2. CASE i # 1
      <4>1. i \in 2..Len(q) /\ i - 1 \in 1..(j-1)-1
        BY <1>1, <3>2
      <4> QED BY <1>2, <2>1, <2>2, <4>1
    <3> QED BY <3>1, <3>2
  <2>6. CASE j = 2
    <3>1. stk # <<>> /\ stk[1] = q[j]
      BY <1>1, <2>1, <2>6
    <3> QED BY <1>1, <2>5, <2>6, <3>1 DEF Suits
  <2>7. CASE j # 2
    <3>1. j - 1 \in 2..Len(q) /\ j - 1 > 1
      BY <1>1, <1>4, <2>7
    <3>2. q[j-1] = stk[(j-1)-1]
      BY <1>2, <3>1
    <3> QED BY <2>1, <2>3, <2>5, <3>1, <3>2
  <2> QED BY <2>6, <2>7
<1> QED BY <1>1, <1>3, <1>4

LEMMA TailChained ==
  ASSUME NEW stk \in Seq(Frame), stk # <<>>, Chained(stk)
  PROVE  Chained(Tail(stk)) /\ Suits(Head(stk), Tail(stk))
<1> DEFINE q == Tail(stk)
<1>1. /\ q \in Seq(Frame) /\ Len(q) = Len(stk) - 1 /\ Len(stk) \in Nat /\ Len(stk) > 0
      /\ Head(stk) = stk[1] /\ \A i \in 1..Len(q) : q[i] = stk[i + 1]
  BY HeadTailProperties, LenProperties
<1> HIDE DEF q
<1>2. ASSUME NEW j \in 1..Len(q), OutLoop(q[j])
      PROVE  /\ \A i \in 1..j : Comes(stk[i], q[j])
             /\ Visited(stk[j], q[j])
  <2>1. j + 1 \in 1..Len(stk) /\ j + 1 > 1 /\ (j + 1) - 1 = j /\ q[j] = stk[j + 1]
    BY <1>1
  <2> QED BY <1>2, <2>1 DEF Chained
<1>3. Chained(q)
  <2> SUFFICES ASSUME NEW j \in 1..Len(q), OutLoop(q[j])
               PROVE  /\ \A i \in 1..j-1 : Comes(q[i], q[j])
                      /\ j > 1 => Visited(q[j-1], q[j])
    BY DEF Chained
  <2>1. ASSUME NEW i \in 1..j-1 PROVE Comes(q[i], q[j])
    <3>1. i + 1 \in 1..j /\ i \in 1..Len(q)
      BY <1>1
    <3> QED BY <1>1, <1>2, <3>1
  <2>2. ASSUME j > 1 PROVE Visited(q[j-1], q[j])
    <3>1. j - 1 \in 1..Len(q) /\ (j - 1) + 1 = j
      BY <1>1, <2>2
    <3> QED BY <1>1, <1>2, <3>1
  <2> QED BY <2>1, <2>2
<1>4. Suits(Head(stk), q)
  <2>1. \A j \in 1..Len(q) : OutLoop(q[j]) => Comes(stk[1], q[j])
    BY <1>1, <1>2
  <2>2. ASSUME q # <<>>, OutLoop(q[1]) PROVE Visited(stk[1], q[1])
    <3>1. 1 \in 1..Len(q)
      BY <1>1, <2>2
    <3> QED BY <1>2, <2>2, <3>1
  <2> QED BY <1>1, <2>1, <2>2 DEF Suits
<1> QED BY <1>3, <1>4 DEF q

LEMMA StillChained ==
  ASSUME IInv, FinalKept, UNCHANGED conf, stack' \in Seq(Frame), Chained(stack')
  PROVE  Chained(stack)'
<1> DEFINE q == stack'
<1>1. q \in Seq(Frame)
  OBVIOUS
<1>2. \A s \in Svc : IsReady(Deps(s), status) => IsReady(Deps(s), status')
  BY EngineParts, DepsType DEF IsReady, FinalKept
<1> HIDE DEF q
<1>5. \A i \in 1..Len(q) : q[i].svc \in Svc
  <2> TAKE i \in 1..Len(q)
  <2>1. q[i] \in Frame
    BY <1>1, ElementOfSeq
  <2> QED BY <2>1 DEF Frame
<1>3. Chained(q)
  BY DEF q
<1>4. ASSUME NEW j \in 1..Len(q), OutLoop(q[j])
      PROVE  /\ \A i \in 1..j-1 : /\ q[i].op # "prepare_deps" /\ q[i].svc \in After(conf, q[j].svc)
                                  /\ q[i].op = "prepare" => IsReady(Deps(q[i].svc), status')
             /\ j > 1 => Visited(q[j-1], q[j])
  <2>1. /\ \A i \in 1..j-1 : Comes(q[i], q[j])
        /\ j > 1 => Visited(q[j-1], q[j])
    BY <1>3, <1>4 DEF Chained
  <2>2. \A i \in 1..j-1 : i \in 1..Len(q)
    OBVIOUS
  <2> QED BY <1>5, <1>2, <2>1, <2>2 DEF Comes
<1> QED BY <1>4 DEF Chained, Comes, OutLoop, Visited, Dependents, Deps, q

NoOutLoop(stk) == \A j \in 1..Len(stk) : ~OutLoop(stk[j])

LEMMA StackParts ==
  ASSUME IInv, Links
  PROVE  /\ stack \in Seq(Frame) /\ Base \in Seq(Frame) /\ Chained(Base)
         /\ stack # <<>> =>
              /\ Base = Caller /\ Suits(Top, Base) /\ Top \in Frame
              /\ stack = <<Top>> \o Base /\ Frames = {Top} \cup FramesOf(Base)
         /\ stack = <<>> => Base = <<>> /\ Frames = {}
<1>1. stack \in Seq(Frame)
  BY EngineParts DEF Good
<1>2. CASE stack = <<>>
  <2>1. Base = <<>> /\ Base \in Seq(Frame) /\ Frames = {}
    BY <1>2 DEF Base, Frames, FramesOf
  <2>2. Chained(Base)
    BY <2>1 DEF Chained
  <2> QED BY <1>1, <1>2, <2>1, <2>2
<1>3. CASE stack # <<>>
  <2>1. /\ Base = Caller /\ Frames = {Top} \cup FramesOf(Base) /\ Top \in Frame
        /\ Base \in Seq(Frame)
    BY <1>3, FramesTop DEF Base
  <2>2. Chained(Caller) /\ Suits(Top, Caller)
    BY <1>1, <1>3, TailChained DEF Links, Top, Caller
  <2>3. stack = <<Top>> \o Caller
    BY <1>1, <1>3, HeadTailProperties DEF Top, Caller
  <2> QED BY <1>1, <1>3, <2>1, <2>2, <2>3
<1> QED BY <1>2, <1>3

LEMMA TailOfPush ==
  ASSUME NEW S, NEW f \in S, NEW c \in Seq(S)
  PROVE  <<f>> \o c # <<>> /\ Tail(<<f>> \o c) = c /\ Head(<<f>> \o c) = f
<1>1. PICK q : q = <<f>> \o c
  OBVIOUS
<1>2. /\ q \in Seq(S) /\ Len(q) = Len(c) + 1 /\ Len(c) \in Nat
      /\ q[1] = f /\ \A i \in 1..Len(c) : q[i + 1] = c[i]
  BY <1>1, PushElements
<1>3. q # <<>> /\ Head(q) = f
  BY <1>2
<1>4. /\ Tail(q) \in Seq(S) /\ Len(Tail(q)) = Len(q) - 1
      /\ \A i \in 1..Len(Tail(q)) : Tail(q)[i] = q[i+1]
  BY <1>2, <1>3, HeadTailProperties
<1>5. Tail(q) = c
  <2>1. Len(Tail(q)) = Len(c) /\ \A i \in 1..Len(c) : Tail(q)[i] = c[i]
    BY <1>2, <1>4
  <2> QED BY <1>4, <2>1, SeqEqual
<1> QED BY <1>1, <1>3, <1>5

LEMMA KeptLoops ==
  ASSUME IInv, Links, FinalKept, UNCHANGED conf, NEW f \in Frames, f.op = "trigger"
  PROVE  Final(status'[f.svc]) /\ f.todo \subseteq DOMAIN Dependents(f.svc)
<1>1. f.svc \in Svc
  <2>1. \A i \in 1..Len(stack) : stack[i] \in Frame
    BY StackParts, ElementOfSeq
  <2>2. DOMAIN stack = 1..Len(stack)
    BY StackParts, LenProperties
  <2> QED BY <2>1, <2>2 DEF Frames, FramesOf, Frame
<1> QED BY <1>1 DEF Links, FinalKept

\* The call stack after a method calls another in its place, returns, or visits.
LEMMA PushLinks ==
  ASSUME IInv, Links, FinalKept, UNCHANGED conf, NEW f \in Frame,
         stack' = <<f>> \o Base, Suits(f, Base),
         f.op = "trigger" =>
           Final(status'[f.svc]) /\ f.todo \subseteq DOMAIN Dependents(f.svc)
  PROVE  LinksStay
<1>1. Base \in Seq(Frame) /\ Chained(Base) /\ FramesOf(Base) \subseteq Frames
  BY StackParts DEF FramesOf
<1>2. Chained(<<f>> \o Base) /\ stack' \in Seq(Frame)
  BY <1>1, PushChained, PushIsGood
<1>3. Chained(stack)'
  BY <1>2, StillChained
<1>4. Base' = Base
  BY <1>1, TailOfPush DEF Base, Caller
<1>5. Frames' = {f} \cup FramesOf(Base)
  BY <1>1, CallFrames
<1>6. \A h \in FramesOf(Base) : h.op \in {"prepare_deps", "trigger"}
  BY DEF Links
<1>7. \A h \in Frames' : h.op = "trigger" =>
        Final(status'[h.svc]) /\ h.todo \subseteq DOMAIN Dependents(h.svc)
  BY <1>1, <1>5, KeptLoops
<1> QED BY <1>3, <1>4, <1>5, <1>6, <1>7 DEF Links, LinksStay, Dependents

LEMMA ReturnLinks ==
  ASSUME IInv, Links, FinalKept, UNCHANGED conf, stack' = Base
  PROVE  LinksStay
<1>1. Base \in Seq(Frame) /\ Chained(Base) /\ FramesOf(Base) \subseteq Frames
  BY StackParts DEF FramesOf
<1>2. Chained(stack)'
  BY <1>1, StillChained
<1>3. FramesOf(Base') \subseteq FramesOf(Base)
  <2>1. CASE Base = <<>>
    BY <2>1 DEF Base
  <2>2. CASE Base # <<>>
    <3>1. Base' = Tail(Base)
      BY <2>2 DEF Base, Caller
    <3>2. Base = <<Head(Base)>> \o Tail(Base) /\ Head(Base) \in Frame /\ Tail(Base) \in Seq(Frame)
      BY <1>1, <2>2, HeadTailProperties
    <3>3. FramesOf(<<Head(Base)>> \o Tail(Base)) = {Head(Base)} \cup FramesOf(Tail(Base))
      BY <3>2, FramesPush
    <3> QED BY <3>1, <3>2, <3>3
  <2> QED BY <2>1, <2>2
<1>4. \A h \in FramesOf(Base) : h.op \in {"prepare_deps", "trigger"}
  BY DEF Links
<1>5. \A h \in Frames' : h.op = "trigger" =>
        Final(status'[h.svc]) /\ h.todo \subseteq DOMAIN Dependents(h.svc)
  BY <1>1, KeptLoops DEF Frames
<1>6. FramesOf(Base) \subseteq Frames'
  BY DEF Frames
<1> QED BY <1>2, <1>3, <1>4, <1>5, <1>6 DEF Links, LinksStay, Dependents

LEMMA VisitLinks ==
  ASSUME IInv, Links, FinalKept, UNCHANGED <<conf, status>>, stack # <<>>,
         Top.op \in {"prepare_deps", "trigger"}, NEW x \in Svc \cap Top.todo,
         NEW f \in Frame, f.op = "prepare", f.svc = x,
         \/ Visit(x, <<>>)
         \/ Visit(x, <<f>>) /\ (Top.op = "trigger" => IsReady(Deps(x), status))
  PROVE  LinksStay
<1>1. /\ Base \in Seq(Frame) /\ Chained(Base) /\ Base = Caller /\ Suits(Top, Base)
      /\ Top \in Frame /\ Frames = {Top} \cup FramesOf(Base)
  BY StackParts
<1> DEFINE l == Left(x)
           c == <<l>> \o Base
<1>2. /\ l \in Frame /\ l.op = Top.op /\ l.svc = Top.svc /\ l.todo = Top.todo \ {x}
  BY <1>1, LeftIsFrame DEF Left, Call
<1>3. Suits(l, Base)
  BY <1>1, <1>2 DEF Suits, Comes, Visited
<1>4. l.op = "trigger" => Final(status'[l.svc]) /\ l.todo \subseteq DOMAIN Dependents(l.svc)
  BY <1>1, <1>2, KeptLoops
<1>5. /\ c \in Seq(Frame) /\ Len(c) = Len(Base) + 1 /\ Len(Base) \in Nat
      /\ c[1] = l /\ \A i \in 1..Len(Base) : c[i + 1] = Base[i]
      /\ Chained(c) /\ FramesOf(c) = {l} \cup FramesOf(Base)
  BY <1>1, <1>2, <1>3, PushElements, PushChained, FramesPush
<1>6. CASE Visit(x, <<>>)
  <2>1. stack' = <<>> \o <<l>> \o Base
    BY <1>1, <1>6 DEF Visit, Left
  <2>2. stack' = <<l>> \o Base
    BY <2>1, <1>1, <1>2
  <2> HIDE DEF l
  <2> QED BY <1>2, <1>3, <1>4, <2>2, PushLinks
<1>7. CASE Visit(x, <<f>>) /\ (Top.op = "trigger" => IsReady(Deps(x), status))
  <2>1. stack' = <<f>> \o c
    <3>1. stack' = <<f>> \o <<l>> \o Base
      BY <1>1, <1>7 DEF Visit, Left
    <3>2. <<f>> \in Seq(Frame) /\ <<l>> \in Seq(Frame)
      BY <1>2
    <3> HIDE DEF l
    <3>3. (<<f>> \o <<l>>) \o Base = <<f>> \o (<<l>> \o Base)
      BY <1>1, <3>2, ConcatAssociative
    <3> QED BY <3>1, <3>3
  <2> HIDE DEF c
  <2>2. Suits(f, c)
    <3>1. \A j \in 1..Len(c) : j = 1 \/ (j - 1 \in 1..Len(Base) /\ c[j] = Base[j-1])
      <4> SUFFICES ASSUME NEW j \in 1..Len(c), j # 1
                   PROVE  j - 1 \in 1..Len(Base) /\ c[j] = Base[j-1]
        OBVIOUS
      <4>1. j - 1 \in 1..Len(Base) /\ (j - 1) + 1 = j
        BY <1>5
      <4> QED BY <1>5, <4>1
    <3>2. CASE Top.op = "prepare_deps"
      <4>1. \A j \in 1..Len(Base) : ~OutLoop(Base[j])
        BY <1>1, <3>2 DEF Suits, Comes
      <4>2. ~OutLoop(c[1])
        BY <1>2, <1>5, <3>2 DEF OutLoop
      <4> QED BY <3>1, <4>1, <4>2 DEF Suits
    <3>3. CASE Top.op = "trigger"
      <4>1. x \in DOMAIN DependentsOf(conf, Top.svc) /\ Dependents(Top.svc) = DependentsOf(conf, Top.svc)
        BY <1>1, <3>3 DEF Links, Dependents, DependentsOf
      <4>2. ASSUME NEW j \in 1..Len(c), OutLoop(c[j]) PROVE Comes(f, c[j])
        <5>1. Top.svc \in After(conf, c[j].svc) \cup {c[j].svc}
          BY <1>1, <1>2, <1>5, <3>1, <4>2 DEF Suits, Comes
        <5>2. x \in After(conf, c[j].svc)
          BY <4>1, <5>1, AfterNext
        <5> QED BY <1>7, <3>3, <5>2 DEF Comes
      <4>3. Visited(f, c[1])
        BY <1>2, <1>5, <4>1 DEF Visited
      <4> QED BY <4>2, <4>3 DEF Suits
    <3> QED BY <3>2, <3>3
  <2>3. Chained(<<f>> \o c) /\ stack' \in Seq(Frame)
    BY <1>5, <2>1, <2>2, PushChained, PushIsGood
  <2>4. Chained(stack)'
    BY <2>1, <2>3, StillChained
  <2>5. Base' = c
    BY <1>5, <2>1, TailOfPush DEF Base, Caller
  <2>6. Frames' = {f, l} \cup FramesOf(Base)
    BY <1>5, <2>1, CallFrames
  <2>7. \A h \in FramesOf(c) : h.op \in {"prepare_deps", "trigger"}
    BY <1>2, <1>5 DEF Links
  <2>8. \A h \in Frames' : h.op = "trigger" =>
          Final(status'[h.svc]) /\ h.todo \subseteq DOMAIN Dependents(h.svc)
    BY <1>1, <1>4, <2>6, KeptLoops
  <2> QED BY <2>4, <2>5, <2>6, <2>7, <2>8 DEF Links, LinksStay, Dependents
<1> QED BY <1>6, <1>7

\* A group whose gate did not end was not reached by such a loop.
LEMMA GroupOutside ==
  ASSUME IInv, Links, stack # <<>>, Top.op = "prepare", NEW g \in Group, Top.svc = g,
         status[Gate(g)] = NO_STATUS
  PROVE  NoOutLoop(Base)
<1> SUFFICES ASSUME NEW j \in 1..Len(Base), OutLoop(Base[j]) PROVE FALSE
  BY DEF NoOutLoop
<1>1. /\ Base \in Seq(Frame) /\ Chained(Base) /\ Suits(Top, Base)
      /\ FramesOf(Base) \subseteq Frames /\ Len(Base) \in Nat
  BY StackParts, LenProperties
<1>2. 1 \in 1..Len(Base) /\ Base # <<>> /\ Base[1] \in FramesOf(Base)
  BY <1>1 DEF FramesOf
<1>3. OutLoop(Base[1])
  <2>1. CASE j = 1
    BY <2>1
  <2>2. CASE j # 1
    <3>1. 1 \in 1..j-1
      BY <2>2
    <3>2. Comes(Base[1], Base[j])
      BY <1>1, <3>1 DEF Chained
    <3>3. Base[1].op = "trigger"
      BY <1>2, <3>2 DEF Links, Comes
    <3> QED BY <3>2, <3>3, OutwardNext DEF OutLoop, Comes
  <2> QED BY <2>1, <2>2
<1>4. g \in DOMAIN DependentsOf(conf, Base[1].svc)
  BY <1>1, <1>2, <1>3 DEF Suits, Visited, Dependents, DependentsOf
<1>5. Base[1].svc = Gate(g) /\ Base[1].op = "trigger"
  BY <1>3, <1>4 DEF OutLoop, Outward, Gate, GateOf
<1>6. Final(status[Gate(g)])
  BY <1>1, <1>2, <1>5 DEF Links
<1> QED BY <1>6, StatusNames

\* A call in the place of the running method, for the same entity.
LEMMA SameSuits ==
  ASSUME IInv, Links, NEW f, f.op \in {"trigger", "action_prepare"},
         stack # <<>> => f.svc = Top.svc
  PROVE  Suits(f, Base)
<1>1. CASE stack = <<>>
  <2>1. Base = <<>>
    BY <1>1, StackParts
  <2> QED BY <2>1 DEF Suits
<1>2. CASE stack # <<>>
  <2>1. Suits(Top, Base)
    BY <1>2, StackParts
  <2> QED BY <1>2, <2>1 DEF Suits, Comes, Visited
<1> QED BY <1>1, <1>2

LEMMA UpdateLinks ==
  ASSUME IInv, Links, FinalKept, UNCHANGED conf, NEW s \in Svc, NEW st,
         UpdateStatus(s, st, Base), stack # <<>> => Top.svc = s
  PROVE  LinksStay
<1>1. /\ Base \in Seq(Frame) /\ status \in [Svc -> Status]
  BY StackParts, EngineParts
<1>2. CASE Final(st) /\ s # MAIN
  <2>1. stack' = <<Loop(s)>> \o Base /\ status'[s] = st
    BY <1>1, <1>2 DEF UpdateStatus, Loop
  <2>2. /\ Loop(s) \in Frame /\ Loop(s).op = "trigger" /\ Loop(s).svc = s
        /\ Loop(s).todo = DOMAIN Dependents(s)
    <3>1. DOMAIN Dependents(s) \in (SUBSET Svc) \cup (SUBSET Action)
      BY EngineParts, DepsType
    <3> QED BY <3>1 DEF Loop, Call, Frame
  <2>3. Suits(Loop(s), Base)
    BY <2>2, SameSuits
  <2> QED BY <1>2, <2>1, <2>2, <2>3, PushLinks
<1>3. CASE ~(Final(st) /\ s # MAIN)
  BY <1>3, ReturnLinks DEF UpdateStatus
<1> QED BY <1>2, <1>3

LEMMA PrepareLinks ==
  ASSUME NoChecks, IInv, OInv, Links, FinalKept, NEW s \in Svc,
         \/ PrepareAgain(s) \/ PrepareDeps(s) \/ PrepareWaits(s)
         \/ LaunchMissing(s) \/ LaunchSkipped(s) \/ LaunchDepError(s)
         \/ LaunchAction(s) \/ LaunchGate(s) \/ LaunchInternal(s)
  PROVE  LinksStay
<1>1. Preparing(s)
  BY DEF PrepareAgain, PrepareDeps, PrepareWaits, LaunchMissing, LaunchSkipped,
         LaunchDepError, LaunchAction, LaunchGate, LaunchInternal, Launching
<1>2. /\ stack # <<>> /\ Top.op = "prepare" /\ Top.svc = s /\ UNCHANGED conf
      /\ Requested(s) \in Name
  BY <1>1, PreparingFacts DEF Preparing, Running, envVars
<1>3. Base = Caller /\ Suits(Top, Base) /\ Base \in Seq(Frame) /\ Len(Base) \in Nat
  BY <1>2, StackParts, LenProperties
<1>4. {} \in (SUBSET Svc) \cup (SUBSET Action)
  OBVIOUS
<1>5. CASE Return
  BY <1>2, <1>3, <1>5, ReturnLinks DEF Return
<1>6. ASSUME NoOutLoop(Base), NEW f \in Frame, f.op # "trigger", stack' = <<f>> \o Caller
      PROVE  LinksStay
  <2>1. Suits(f, Base)
    <3>1. Base # <<>> => 1 \in 1..Len(Base)
      BY <1>3
    <3> QED BY <1>6, <3>1 DEF Suits, NoOutLoop
  <2> QED BY <1>2, <1>3, <1>6, <2>1, PushLinks
<1>7. CASE PrepareDeps(s)
  <2> DEFINE f == Call("prepare_deps", s, None, Unprocessed(s))
  <2>1. Unprocessed(s) # {} /\ stack' = <<f>> \o Caller
    BY <1>7 DEF PrepareDeps
  <2>2. Unprocessed(s) \subseteq DOMAIN Deps(s) /\ DOMAIN Deps(s) \subseteq Svc
    BY EngineParts, DepsType DEF Unprocessed, SearchDeps
  <2>3. f \in Frame /\ f.op = "prepare_deps"
    <3>1. Unprocessed(s) \in (SUBSET Svc) \cup (SUBSET Action)
      BY <2>2
    <3> QED BY <3>1 DEF Call, Frame
  <2> HIDE DEF f
  <2>4. ~IsReady(Deps(s), status)
    BY <2>1, StatusNames DEF Unprocessed, SearchDeps, IsReady
  <2>5. NoOutLoop(Base)
    BY <1>2, <1>3, <2>4 DEF Suits, Comes, NoOutLoop
  <2> QED BY <1>6, <2>1, <2>3, <2>5
<1>8. CASE LaunchGate(s)
  <2> DEFINE f == Call("prepare", Gate(s), Requested(s), {})
  <2>1. s \in Group /\ status[Gate(s)] = NO_STATUS /\ stack' = <<f>> \o Caller
    BY <1>8 DEF LaunchGate, Enterable
  <2>2. f \in Frame /\ f.op = "prepare"
    BY <1>2, <1>4, <2>1, GateType DEF Call, Frame
  <2> HIDE DEF f
  <2>3. NoOutLoop(Base)
    BY <1>2, <2>1, GroupOutside
  <2> QED BY <1>6, <2>1, <2>2, <2>3
<1>9. CASE stack' = <<Call("action_prepare", s, Requested(s), {})>> \o Caller
  <2> DEFINE f == Call("action_prepare", s, Requested(s), {})
  <2>1. stack' = <<f>> \o Base
    BY <1>3, <1>9
  <2>2. f \in Frame /\ f.op = "action_prepare" /\ f.svc = s
    BY <1>2, <1>4 DEF Call, Frame
  <2> HIDE DEF f
  <2>3. Suits(f, Base)
    BY <1>2, <2>2, SameSuits
  <2> QED BY <1>2, <2>1, <2>2, <2>3, PushLinks
<1>10. CASE \E st : UpdateStatus(s, st, Caller)
  BY <1>2, <1>3, <1>10, UpdateLinks
<1>11. CASE LaunchAction(s)
  <2>1. ~Final(WAITING_STATUS)
    BY StatusNames
  <2> QED BY <1>9, <1>11, <2>1 DEF LaunchAction, UpdateStatus
<1> QED BY <1>5, <1>7, <1>8, <1>9, <1>10, <1>11
        DEF PrepareAgain, PrepareWaits, LaunchMissing, LaunchSkipped, LaunchDepError,
            LaunchInternal

LEMMA LoopLinks ==
  ASSUME IInv, Links, FinalKept, NEW s \in Svc, NEW t \in Svc,
         PrepareDep(s, t) \/ Trigger(s, t)
  PROVE  LinksStay
<1>1. CASE PrepareDep(s, t)
  <2> DEFINE n == IF IsCheck(Deps(s)[t]) THEN STATUS ELSE last_action[s]
             f == Call("prepare", t, n, {})
  <2>1. /\ stack # <<>> /\ Top.op = "prepare_deps" /\ t \in Top.todo
        /\ Visit(t, <<f>>) /\ UNCHANGED <<conf, status>>
    BY <1>1 DEF PrepareDep, Running, envVars
  <2>2. f \in Frame /\ f.op = "prepare" /\ f.svc = t
    <3>1. n \in {None} \cup Name
      BY NameAssumption, EngineParts DEF SvcInv
    <3>2. {} \in (SUBSET Svc) \cup (SUBSET Action)
      OBVIOUS
    <3> HIDE DEF n
    <3> QED BY <3>1, <3>2 DEF Call, Frame
  <2> HIDE DEF f
  <2> QED BY <2>1, <2>2, VisitLinks
<1>2. CASE Trigger(s, t)
  <2> DEFINE f == Call("prepare", t, None, {})
  <2>1. /\ stack # <<>> /\ Top.op = "trigger" /\ t \in Top.todo
        /\ Visit(t, <<>>) \/ (Visit(t, <<f>>) /\ IsReady(Deps(t), status))
        /\ UNCHANGED <<conf, status>>
    BY <1>2 DEF Trigger, Running, envVars
  <2>2. f \in Frame /\ f.op = "prepare" /\ f.svc = t
    <3>1. {} \in (SUBSET Svc) \cup (SUBSET Action)
      OBVIOUS
    <3> QED BY <3>1 DEF Call, Frame
  <2> HIDE DEF f
  <2> QED BY <2>1, <2>2, VisitLinks
<1> QED BY <1>1, <1>2

LEMMA ActionLinks ==
  ASSUME NoChecks, IInv, OInv, Links, FinalKept, NEW a \in Action,
         ActionStep(a) \/ EventStep(a)
  PROVE  LinksStay
<1>1. ASSUME NEW st, NEW failed, CompleteAction(a, st, failed, Base),
             UNCHANGED conf, stack # <<>> => Top.svc = a[1]
      PROVE  LinksStay
  <2>1. UpdateStatus(a[1], st, Base) /\ a[1] \in Svc
    BY <1>1, WithoutChecks DEF CompleteAction, Action, Plain
  <2> QED BY <1>1, <2>1, UpdateLinks
<1>2. CASE EventStep(a)
  <2>1. stack = <<>> /\ Base = <<>> /\ UNCHANGED conf
    BY <1>2 DEF EventStep, Fire, Retry, Close, Closing, InEventLoop, envVars, Base
  <2>2. CASE stack' = stack
    BY <2>1, <2>2, ReturnLinks
  <2> QED BY <1>1, <1>2, <2>1, <2>2 DEF EventStep, Fire, Retry, Close
<1>3. CASE ActionStep(a)
  <2>1. ASSUME NEW b \in Action, PrepareSubAction(a) \/ ActionTrigger(a, b)
        PROVE  FALSE
    <3>1. stack # <<>> /\ Top.op \in {"action_deps", "action_trigger"}
      BY <2>1 DEF PrepareSubAction, ActionTrigger, Running
    <3> QED BY <3>1, CallerIsService DEF Running, ServiceFrame
  <2>2. Running("action_prepare") /\ TopAction = a /\ UNCHANGED conf
    BY <1>3, <2>1 DEF ActionStep, ActionPrepareAgain, SkipAction, RunAction,
                ActionNotNeeded, PrepareSubActions, PreparingAction, envVars
  <2>3. stack # <<>> /\ Top.svc = a[1] /\ Base = Caller
    BY <2>2, StackParts, PreparingActionFacts
  <2>4. CASE Return
    BY <2>2, <2>3, <2>4, ReturnLinks DEF Return
  <2>5. ~ActionNotNeeded(a) /\ ~PrepareSubActions(a)
    BY WithoutChecks DEF ActionNotNeeded, PrepareSubActions
  <2> QED BY <1>1, <1>3, <2>1, <2>2, <2>3, <2>4, <2>5
          DEF ActionStep, ActionPrepareAgain, SkipAction, RunAction
<1> QED BY <1>2, <1>3

LEMMA LinksNext ==
  ASSUME NoChecks, IInv, OInv, Links, FinalKept, [Next]_vars
  PROVE  LinksStay
<1>1. CASE UNCHANGED <<conf, status, stack>>
  <2>1. Links'
    BY <1>1 DEF Links, Base, Caller, Frames, Dependents, Chained, Comes, OutLoop, Visited, Deps
  <2>2. FramesOf(Base) \subseteq Frames'
    BY <1>1, StackParts DEF Frames
  <2> QED BY <2>1, <2>2 DEF LinksStay
<1>2. CASE Exit \/ UNCHANGED vars
  BY <1>1, <1>2 DEF Exit, vars
<1>3. CASE EndLoop
  <2>1. stack # <<>> /\ stack' = Caller /\ UNCHANGED conf
    BY <1>3 DEF EndLoop, Return, envVars
  <2> QED BY <2>1, StackParts, ReturnLinks
<1>4. ASSUME NEW s \in Svc, ServiceStep(s)
      PROVE  LinksStay
  BY <1>4, PrepareLinks, LoopLinks DEF ServiceStep
<1> QED BY <1>2, <1>3, <1>4, ActionLinks DEF Next, Step, Terminated

LEMMA LinksInit == Init => Links
<1> SUFFICES ASSUME Init PROVE Links
  OBVIOUS
<1> DEFINE f == Call("prepare", MAIN, conf.request, {})
<1>1. stack = <<f>> /\ f.op = "prepare"
  BY DEF Init, Call
<1> HIDE DEF f
<1>2. Base = <<>> /\ FramesOf(Base) = {} /\ Frames = {f}
  BY <1>1 DEF Base, Caller, Frames, FramesOf
<1>3. Chained(stack)
  BY <1>1 DEF Chained, OutLoop
<1> QED BY <1>1, <1>2, <1>3 DEF Links
-------------------------------------------------------------------------------
\* The nodes an action failed on, which are kept from the dependents of its service.
Hurt(b) == IF conf.target[b] = None THEN {} ELSE worker[b]

\* The services whose failed nodes `s' must not run on.
Filtering(s) == {t \in Plain \cap DOMAIN Deps(s) : Filters(Deps(s)[t])}

\* s is still to be told by t; the start of s is about to be prepared.
Told(t, s) == \E f \in Frames : f.op = "trigger" /\ f.svc = t /\ s \in f.todo

Doing(s) == Running("action_prepare") /\ Top.svc = s

\* An action runs on declared nodes, and hands those it failed on to its service.
Accounted(b) ==
  /\ target[b] = None <=> conf.target[b] = None
  /\ target[b] # None => target[b] \subseteq conf.target[b]
  /\ conf.target[b] = None => worker[b] \subseteq {LOCALHOST}
  /\ Final(act_status[b]) => Hurt(b) \subseteq failed_nodes[b[1]]

\* Those of a service that ended reach an idle dependent, or will before it is launched.
Carried(s) ==
  \A t \in Filtering(s) : \A b \in Action : b[1] = t /\ Final(status[t]) =>
    /\ status[s] = NO_STATUS => Hurt(b) \subseteq failed_nodes[s] \/ Told(t, s)
    /\ Doing(s) => Hurt(b) \subseteq failed_nodes[s]

\* A command that was launched spares them.
Began(a) == act_status[a] = WAITING_STATUS \/ Launched(a)

Spares(a) ==
  Began(a) /\ target[a] # None =>
    /\ target[a] # {}
    /\ \A t \in Filtering(a[1]) : \A b \in Action : b[1] = t => target[a] \cap Hurt(b) = {}

\* The invariant that is proved inductive, with those of Order_proofs.
FInv ==
  /\ Links
  /\ \A b \in Action : Accounted(b) /\ Spares(b)
  /\ \A s \in Plain : Carried(s)
-------------------------------------------------------------------------------
LEMMA FilteredGrows ==
  ASSUME NEW failed \in [Svc -> SUBSET Node], NEW s \in Svc, NEW nodes
  PROVE  /\ \A x \in Svc : failed[x] \subseteq Filtered(failed, s, nodes)[x]
         /\ nodes \subseteq Filtered(failed, s, nodes)[s]
BY DEF Filtered

LEMMA FailedGrows ==
  ASSUME IInv, [Next]_vars, NEW x \in Svc
  PROVE  failed_nodes[x] \subseteq failed_nodes'[x]
<1>1. failed_nodes \in [Svc -> SUBSET Node]
  BY DEF IInv, SvcInv
<1>2. ASSUME NEW a \in Action, NEW st, NEW failed, NEW c, CompleteAction(a, st, failed, c)
      PROVE  failed_nodes[x] \subseteq failed_nodes'[x]
  <2>1. a[1] \in Svc
    BY DEF Action, Plain
  <2> QED BY <1>1, <1>2, <2>1, FilteredGrows DEF CompleteAction
<1>3. ASSUME NEW s \in Svc, NEW t \in Svc, Trigger(s, t)
      PROVE  failed_nodes[x] \subseteq failed_nodes'[x]
  BY <1>1, <1>3, FilteredGrows DEF Trigger
<1>4. ASSUME NEW s \in Svc, ServiceStep(s) PROVE failed_nodes[x] \subseteq failed_nodes'[x]
  BY <1>3, <1>4 DEF ServiceStep, PrepareAgain, PrepareDeps, PrepareWaits, LaunchMissing,
     LaunchSkipped, LaunchDepError, LaunchAction, LaunchGate, LaunchInternal, Launching,
     Preparing, PrepareDep
<1>5. ASSUME NEW a \in Action, ActionStep(a) PROVE failed_nodes[x] \subseteq failed_nodes'[x]
  BY <1>2, <1>5 DEF ActionStep, ActionPrepareAgain, SkipAction, RunAction, ActionNotNeeded,
     PrepareSubActions, PrepareSubAction, ActionTrigger
<1>6. ASSUME NEW a \in Action, EventStep(a) PROVE failed_nodes[x] \subseteq failed_nodes'[x]
  BY <1>2, <1>6 DEF EventStep, Fire, Retry, Close
<1>7. CASE EndLoop \/ Exit \/ UNCHANGED vars
  BY <1>7 DEF EndLoop, Exit, vars
<1> QED BY <1>4, <1>5, <1>6, <1>7 DEF Next, Step, Terminated

\* Who writes what an action failed on, its nodes, and its end.
LEMMA ActionMoves ==
  ASSUME NoChecks, IInv, OInv, Tries, [Next]_vars, NEW b \in Action
  PROVE  /\ \/ worker'[b] = worker[b]
            \/ workers[b] > 0 /\ \E r \in Results(b) : worker'[b] = r.errors \cup r.timeouts
         /\ \/ target'[b] = target[b]
            \/ target'[b] = Remaining(b) /\ act_status[b] = NO_STATUS
         /\ Final(act_status'[b]) =>
              \/ Final(act_status[b]) /\ worker'[b] = worker[b]
              \/ act_status[b] = NO_STATUS /\ worker'[b] = worker[b]
              \/ \E r \in Results(b) : Close(b, r)
<1>1. /\ act_status \in [Action -> Status] /\ target \in [Action -> {None} \cup SUBSET Node]
      /\ worker \in [Action -> SUBSET Node]
  BY EngineParts DEF SvcInv
<1> DEFINE Q == /\ \/ worker'[b] = worker[b]
                   \/ workers[b] > 0 /\ \E r \in Results(b) : worker'[b] = r.errors \cup r.timeouts
                /\ \/ target'[b] = target[b]
                   \/ target'[b] = Remaining(b) /\ act_status[b] = NO_STATUS
                /\ Final(act_status'[b]) =>
                     \/ Final(act_status[b]) /\ worker'[b] = worker[b]
                     \/ act_status[b] = NO_STATUS /\ worker'[b] = worker[b]
                     \/ \E r \in Results(b) : Close(b, r)
<1>2. CASE worker'[b] = worker[b] /\ target'[b] = target[b] /\ act_status'[b] = act_status[b]
  BY <1>2
<1>3. ASSUME NEW s \in Svc, ServiceStep(s) PROVE UNCHANGED <<target, act_status, worker>>
  BY <1>3 DEF ServiceStep, PrepareAgain, PrepareDeps, PrepareWaits, LaunchMissing,
     LaunchSkipped, LaunchDepError, LaunchAction, LaunchGate, LaunchInternal, Launching,
     Preparing, PrepareDep, Trigger, actVars, envVars
<1>4. ASSUME NEW a \in Action, ActionStep(a)
      PROVE  Q
  <2>1. CASE SkipAction(a) \/ RunAction(a)
    <3>1. /\ act_status[a] = NO_STATUS /\ UNCHANGED worker
          /\ target' = [target EXCEPT ![a] = Remaining(a)]
          /\ \E st : act_status' = [act_status EXCEPT ![a] = st]
      BY <2>1 DEF SkipAction, RunAction, PreparingAction, Preparable, CompleteAction, envVars
    <3> QED BY <1>1, <1>2, <3>1
  <2>2. ~ActionNotNeeded(a) /\ ~PrepareSubActions(a)
    BY WithoutChecks DEF ActionNotNeeded, PrepareSubActions
  <2>3. CASE ~(SkipAction(a) \/ RunAction(a))
    <3>1. UNCHANGED <<target, act_status, worker>>
      BY <1>4, <2>2, <2>3 DEF ActionStep, ActionPrepareAgain, PrepareSubAction,
                            ActionTrigger, actVars, envVars
    <3> QED BY <1>2, <3>1
  <2> QED BY <2>1, <2>3
<1>5. ASSUME NEW a \in Action, EventStep(a)
      PROVE  Q
  <2>1. CASE Fire(a)
    <3>1. UNCHANGED <<target, act_status, worker>>
      BY <2>1 DEF Fire, envVars
    <3> QED BY <1>2, <3>1
  <2>2. ASSUME NEW r \in Results(a), Retry(a, r) \/ Close(a, r)
        PROVE  Q
    <3>1. /\ workers[a] > 0 /\ UNCHANGED target
          /\ worker' = [worker EXCEPT ![a] = r.errors \cup r.timeouts]
      BY <2>2 DEF Retry, Close, Closing
    <3>2. act_status[a] = WAITING_STATUS
      BY <3>1, OneOfThem
    <3>3. \/ UNCHANGED act_status
          \/ Close(a, r) /\ \E st : act_status' = [act_status EXCEPT ![a] = st]
      BY <2>2 DEF Retry, Close, CompleteAction
    <3>4. CASE a = b
      BY <1>1, <3>1, <3>2, <3>3, <3>4, StatusNames
    <3>5. CASE a # b
      BY <1>1, <1>2, <3>1, <3>3, <3>5
    <3> QED BY <3>4, <3>5
  <2> QED BY <1>5, <2>1, <2>2 DEF EventStep
<1>6. CASE EndLoop \/ Exit \/ UNCHANGED vars
  <2>1. UNCHANGED <<target, act_status, worker>>
    BY <1>6 DEF EndLoop, Exit, actVars, envVars, vars
  <2> QED BY <1>2, <2>1
<1> QED BY <1>2, <1>3, <1>4, <1>5, <1>6 DEF Next, Step, Terminated

\* What a service that ended failed on does not change.
LEMMA HurtKept ==
  ASSUME NoChecks, IInv, OInv, Tries, [Next]_vars, UNCHANGED conf, NEW b \in Action,
         Final(status[b[1]])
  PROVE  Hurt(b)' = Hurt(b)
<1>1. workers[b] > 0 => status[b[1]] = WAITING_STATUS
  BY OneOfThem DEF OInv, Acting
<1>2. worker'[b] = worker[b]
  BY <1>1, ActionMoves, StatusNames
<1> QED BY <1>2 DEF Hurt

LEMMA AccountedNext ==
  ASSUME NoChecks, IInv, OInv, Tries, [Next]_vars, UNCHANGED conf, NEW b \in Action,
         Accounted(b)
  PROVE  Accounted(b)'
<1>1. b[1] \in Svc /\ failed_nodes \in [Svc -> SUBSET Node]
      /\ target \in [Action -> {None} \cup SUBSET Node]
  BY EngineParts DEF Action, Plain, SvcInv
<1>2. /\ target'[b] = None <=> target[b] = None
      /\ target'[b] # None => target'[b] \subseteq target[b]
  BY <1>1, ActionMoves, NodeAssumption DEF Remaining
<1>3. conf.target[b] = None => worker'[b] \subseteq {LOCALHOST}
  <2> SUFFICES ASSUME conf.target[b] = None, NEW r \in Results(b)
               PROVE  r.errors \cup r.timeouts \subseteq {LOCALHOST}
    BY ActionMoves DEF Accounted
  <2>1. target[b] = None
    BY DEF Accounted
  <2> QED BY <2>1 DEF Results
<1>4. ASSUME Final(act_status'[b]) PROVE Hurt(b)' \subseteq failed_nodes'[b[1]]
  <2>1. CASE worker'[b] = worker[b] /\ (Final(act_status[b]) \/ act_status[b] = NO_STATUS)
    <3>1. Hurt(b) \subseteq failed_nodes[b[1]]
      BY <2>1 DEF Accounted, Tries, Tried, Hurt
    <3> QED BY <1>1, <2>1, <3>1, FailedGrows DEF Hurt
  <2>2. ASSUME NEW r \in Results(b), Close(b, r) PROVE Hurt(b)' \subseteq failed_nodes'[b[1]]
    <3>1. /\ worker' = [worker EXCEPT ![b] = r.errors \cup r.timeouts]
          /\ failed_nodes' = Filtered(failed_nodes, b[1], Spoiled(b, r))
      BY <2>2, WithoutChecks DEF Close, Closing, CompleteAction
    <3>2. Spoiled(b, r) \subseteq failed_nodes'[b[1]]
      BY <1>1, <3>1, FilteredGrows
    <3>3. worker'[b] = r.errors \cup r.timeouts
      BY <3>1 DEF IInv, SvcInv
    <3> QED BY <3>2, <3>3 DEF Accounted, Hurt, Spoiled
  <2> QED BY <1>4, <2>1, <2>2, ActionMoves
<1> QED BY <1>2, <1>3, <1>4 DEF Accounted
-------------------------------------------------------------------------------
(* The dependents of a service that ended are told *)

LEMMA ToldStays ==
  ASSUME IInv, OInv, Links, LinksStay, [Next]_vars, NEW t \in Svc, NEW s \in Svc, Told(t, s),
         ~Trigger(t, s)
  PROVE  Told(t, s)'
<1>1. PICK f \in Frames : f.op = "trigger" /\ f.svc = t /\ s \in f.todo
  BY DEF Told
<1>2. CASE f \in FramesOf(Base)
  <2>1. f \in Frames'
    BY <1>2 DEF LinksStay
  <2> QED BY <1>1, <2>1 DEF Told
<1>3. CASE f \notin FramesOf(Base)
  <2>1. stack # <<>> /\ f = Top
    BY <1>3, StackParts
  <2>2. Running("trigger")
    BY <1>1, <2>1 DEF Running
  <2>3. CASE UNCHANGED vars
    <3>1. Frames' = Frames
      BY <2>3 DEF vars, Frames
    <3> QED BY <1>1, <3>1 DEF Told
  <2>4. \/ UNCHANGED vars
        \/ \E x \in Svc : Trigger(t, x)
    <3>1. ~EndLoop
      BY <1>1, <2>1 DEF EndLoop
    <3>2. \A a \in Action : ~ActionStep(a) /\ ~EventStep(a)
      BY <2>2 DEF ActionStep, ActionPrepareAgain, SkipAction, RunAction, ActionNotNeeded,
         PrepareSubActions, PreparingAction, PrepareSubAction, ActionTrigger, EventStep,
         Fire, Retry, Close, Closing, InEventLoop, Running
    <3>3. ~Exit
      BY <2>2 DEF Exit, MasterTaskDone, InEventLoop, Running
    <3>4. ASSUME NEW x \in Svc, ServiceStep(x) PROVE \E y \in Svc : Trigger(t, y)
      <4>1. \E y \in Svc : Trigger(x, y)
        BY <2>2, <3>4 DEF ServiceStep, PrepareAgain, PrepareDeps, PrepareWaits,
           LaunchMissing, LaunchSkipped, LaunchDepError, LaunchAction, LaunchGate,
           LaunchInternal, Launching, Preparing, PrepareDep, Running
      <4> QED BY <1>1, <2>1, <4>1 DEF Trigger
    <3> QED BY <3>1, <3>2, <3>3, <3>4 DEF Next, Step, Terminated
  <2>5. ASSUME NEW x \in Svc, Trigger(t, x) PROVE Told(t, s)'
    <3> DEFINE called == Call("prepare", x, None, {})
               r == IF /\ status[x] = NO_STATUS
                       /\ IsReady(Deps(x), status)
                       /\ x \in tagged
                    THEN <<called>> ELSE <<>>
    <3>1. x # s /\ Visit(x, r)
      BY <2>5 DEF Trigger
    <3>2. r \in Seq(Frame)
      <4>1. {} \in (SUBSET Svc) \cup (SUBSET Action)
        OBVIOUS
      <4>2. called \in Frame
        BY <4>1 DEF Call, Frame
      <4> HIDE DEF called
      <4> QED BY <4>2
    <3> HIDE DEF r
    <3>3. Left(x) \in Frames'
      BY <2>1, <3>1, <3>2, VisitFrames
    <3>4. Left(x).op = "trigger" /\ Left(x).svc = t /\ s \in Left(x).todo
      BY <1>1, <2>1, <3>1 DEF Left, Call
    <3> QED BY <3>3, <3>4 DEF Told
  <2> QED BY <2>3, <2>4, <2>5
<1> QED BY <1>2, <1>3

LEMMA ToldFirst ==
  ASSUME NoChecks, IInv, OInv, Links, [Next]_vars, NEW t \in Svc \ {MAIN},
         Final(status'[t]), ~Final(status[t]), NEW s \in DOMAIN Dependents(t), UNCHANGED conf
  PROVE  Told(t, s)'
<1>1. status'[t] # status[t] /\ status \in [Svc -> Status]
  BY EngineParts
<1>2. \E st : UpdateStatus(t, st, Base)
  <2>1. ASSUME LaunchMissing(t) \/ LaunchSkipped(t) \/ LaunchDepError(t)
               \/ LaunchAction(t) \/ LaunchInternal(t)
        PROVE  \E st : UpdateStatus(t, st, Base)
    <3>1. stack # <<>> /\ Base = Caller
      BY <2>1, StackParts DEF LaunchMissing, LaunchSkipped, LaunchDepError, LaunchAction,
         LaunchInternal, Launching, Preparing, Running
    <3>2. ~LaunchAction(t)
      <4> SUFFICES ASSUME LaunchAction(t) PROVE FALSE
        OBVIOUS
      <4>1. status'[t] = WAITING_STATUS
        BY <1>1 DEF LaunchAction, UpdateStatus
      <4> QED BY <4>1, StatusNames
    <3> QED BY <1>1, <2>1, <3>1, <3>2
            DEF LaunchMissing, LaunchSkipped, LaunchDepError, LaunchInternal
  <2>2. ASSUME NEW a \in Action, a[1] = t, SkipAction(a)
        PROVE  \E st : UpdateStatus(t, st, Base)
    <3>1. stack # <<>> /\ Base = Caller
      BY <2>2, StackParts DEF SkipAction, PreparingAction, Running
    <3> QED BY <2>2, <3>1, WithoutChecks DEF SkipAction, CompleteAction
  <2>3. ASSUME NEW a \in Action, a[1] = t, NEW r \in Results(a), Close(a, r)
        PROVE  \E st : UpdateStatus(t, st, Base)
    <3>1. Base = <<>>
      BY <2>3 DEF Close, Closing, InEventLoop, Base
    <3> QED BY <2>3, <3>1, WithoutChecks DEF Close, CompleteAction
  <2> QED BY <1>1, <2>1, <2>2, <2>3, WhoMoves
<1>3. PICK st : UpdateStatus(t, st, Base)
  BY <1>2
<1>4. status'[t] = st
  BY <1>1, <1>3 DEF UpdateStatus
<1>5. Loop(t) \in Frames' /\ Loop(t).op = "trigger" /\ Loop(t).todo = DOMAIN Dependents(t)
  BY <1>3, <1>4, StackParts, UpdateFrames
<1>6. Loop(t).svc = t
  BY DEF Loop, Call
<1> QED BY <1>5, <1>6 DEF Told

\* Where Action.prepare is called from.
LEMMA DoingFrom ==
  ASSUME NoChecks, IInv, OInv, [Next]_vars, NEW s \in Svc, Doing(s)'
  PROVE  \/ UNCHANGED vars
         \/ /\ Running("prepare") /\ Top.svc = s /\ status[s] = NO_STATUS
            /\ \A t \in Svc \ {s} : status'[t] = status[t]
            /\ ~Final(status'[s])
<1>1. stack' \notin Seq(ServiceFrame)
  BY ServiceStack DEF Doing
<1>2. ASSUME NEW x \in Svc, LaunchAction(x) \/ (x \notin Group /\ LaunchSkipped(x))
      PROVE  /\ Running("prepare") /\ Top.svc = s /\ status[s] = NO_STATUS
             /\ \A t \in Svc \ {s} : status'[t] = status[t]
             /\ ~Final(status'[s])
  <2>1. /\ Preparing(x) /\ Running("prepare") /\ Top.svc = x /\ status[x] = NO_STATUS
    BY <1>2 DEF LaunchAction, LaunchSkipped, Launching, Preparing
  <2>2. Requested(x) \in Name /\ Caller \in Seq(ServiceFrame)
    BY <2>1, PreparingFacts
  <2>3. /\ stack' = <<Call("action_prepare", x, Requested(x), {})>> \o Caller
        /\ UNCHANGED status \/ Write(x, WAITING_STATUS)
    BY <1>2, StatusNames DEF LaunchAction, LaunchSkipped, UpdateStatus, Write
  <2>4. Top.svc' = x
    BY <2>2, <2>3, ActionStack
  <2>5. x = s
    BY <2>4 DEF Doing
  <2> QED BY <2>1, <2>3, <2>5, EngineParts, StatusNames DEF Write
<1>3. ASSUME NEW x \in Svc, ServiceStep(x),
             ~(LaunchAction(x) \/ (x \notin Group /\ LaunchSkipped(x)))
      PROVE  FALSE
  <2>1. ServiceMove
    BY <1>3, ServicePrepareMoves, LoopMoves DEF ServiceStep
  <2> QED BY <1>1, <2>1 DEF ServiceMove
<1>4. ~EndLoop
  BY <1>1, EndLoopMoves DEF ServiceMove
<1>5. ASSUME NEW a \in Action, ActionStep(a) PROVE FALSE
  <2>1. ASSUME NEW b \in Action, PrepareSubAction(a) \/ ActionTrigger(a, b)
        PROVE  FALSE
    <3>1. stack # <<>> /\ Top.op \in {"action_deps", "action_trigger"}
      BY <2>1 DEF PrepareSubAction, ActionTrigger, Running
    <3> QED BY <3>1, CallerIsService DEF Running, ServiceFrame
  <2>2. Running("action_prepare") /\ TopAction = a
    BY <1>5, <2>1 DEF ActionStep, ActionPrepareAgain, SkipAction, RunAction,
                ActionNotNeeded, PrepareSubActions, PreparingAction
  <2>3. Caller \in Seq(ServiceFrame)
    BY <2>2, PreparingActionFacts
  <2>4. ~ActionNotNeeded(a) /\ ~PrepareSubActions(a)
    BY WithoutChecks DEF ActionNotNeeded, PrepareSubActions
  <2>5. ~SkipAction(a)
    BY <1>1, <2>3, CompleteIsService DEF SkipAction
  <2> QED BY <1>1, <1>5, <2>1, <2>3, <2>4, <2>5
          DEF ActionStep, ActionPrepareAgain, RunAction, Return
<1>6. ASSUME NEW a \in Action, EventStep(a) PROVE FALSE
  <2>1. InEventLoop
    BY <1>6 DEF EventStep, Fire, Retry, Close, Closing
  <2>2. stack = <<>>
    BY <2>1 DEF InEventLoop
  <2>3. <<>> \in Seq(ServiceFrame)
    OBVIOUS
  <2>4. ~Fire(a)
    BY <1>1, <2>2, <2>3 DEF Fire
  <2>5. PICK r \in Results(a) : Retry(a, r) \/ Close(a, r)
    BY <1>6, <2>4 DEF EventStep
  <2>6. ~Retry(a, r)
    BY <1>1, <2>2, <2>3 DEF Retry
  <2>7. CompleteAction(a, Outcome(a, r), Spoiled(a, r), <<>>)
    BY <2>5, <2>6 DEF Close
  <2> QED BY <1>1, <2>3, <2>7, CompleteIsService
<1>7. ~Exit
  <2> SUFFICES ASSUME Exit PROVE FALSE
    OBVIOUS
  <2>1. stack' = <<>>
    BY DEF Exit, MasterTaskDone, InEventLoop
  <2> QED BY <1>1, <2>1
<1> QED BY <1>2, <1>3, <1>4, <1>5, <1>6, <1>7 DEF Next, Step, Terminated

\* The service that is launched is no longer to be told.
LEMMA NotTold ==
  ASSUME IInv, Links, FiltersOnOneWay(conf), Running("prepare"), NEW s \in Plain, Top.svc = s,
         NEW t \in Filtering(s)
  PROVE  ~Told(t, s)
<1> SUFFICES ASSUME Told(t, s) PROVE FALSE
  OBVIOUS
<1>1. PICK f \in Frames : f.op = "trigger" /\ f.svc = t /\ s \in f.todo
  BY DEF Told
<1>2. s \in Svc /\ Outward(conf, t) /\ \A u \in After(conf, t) : s \notin DOMAIN DependentsOf(conf, u)
  BY DEF Filtering, FiltersOnOneWay, Deps, DepsOf, Plain
<1>3. /\ stack # <<>> /\ Top.op = "prepare" /\ Base \in Seq(Frame) /\ Chained(Base)
      /\ Suits(Top, Base) /\ Frames = {Top} \cup FramesOf(Base)
  BY StackParts DEF Running
<1>4. f \in FramesOf(Base) /\ OutLoop(f)
  BY <1>1, <1>2, <1>3 DEF OutLoop
<1>5. PICK j \in 1..Len(Base) : f = Base[j]
  <2>1. DOMAIN Base = 1..Len(Base)
    BY <1>3, LenProperties
  <2> QED BY <1>4, <2>1 DEF FramesOf
<1>6. Base # <<>> /\ 1 \in 1..Len(Base) /\ Len(Base) \in Nat /\ Base[1] \in FramesOf(Base)
  BY <1>3, <1>5, LenProperties DEF FramesOf
<1>7. CASE j = 1
  BY <1>1, <1>3, <1>4, <1>5, <1>6, <1>7 DEF Suits, Visited
<1>8. CASE j # 1
  <2>1. 1 \in 1..j-1
    BY <1>6, <1>8
  <2>2. Comes(Base[1], f)
    BY <1>3, <1>4, <1>5, <2>1 DEF Chained
  <2>3. Base[1].op = "trigger" /\ Base[1].svc \in After(conf, t)
    BY <1>1, <1>6, <2>2 DEF Links, Comes
  <2>4. OutLoop(Base[1])
    BY <1>2, <2>3, OutwardNext DEF OutLoop
  <2>5. s \in DOMAIN DependentsOf(conf, Base[1].svc)
    BY <1>3, <1>6, <2>4 DEF Suits, Visited, Dependents, DependentsOf
  <2> QED BY <1>2, <2>3, <2>5
<1> QED BY <1>7, <1>8

\* The failed nodes of t have reached s when s is launched, and stay.
LEMMA CarriedNext ==
  ASSUME NoChecks, FiltersOnOneWay(conf), IInv, OInv, Tries, Moves, FInv, LinksStay,
         [Next]_vars, NEW s \in Plain
  PROVE  Carried(s)'
<1>1. /\ UNCHANGED conf /\ s \in Svc /\ status \in [Svc -> Status]
      /\ failed_nodes \in [Svc -> SUBSET Node]
      /\ \A x \in Svc : status'[x] = NO_STATUS => status[x] = NO_STATUS
  BY EngineParts, MovesKeepIdle DEF Moves, Plain, SvcInv, Idle
<1>2. Filtering(s)' = Filtering(s)
  BY <1>1 DEF Filtering, Deps
<1> SUFFICES ASSUME NEW t \in Filtering(s), NEW b \in Action, b[1] = t, Final(status'[t])
             PROVE  /\ status'[s] = NO_STATUS =>
                         Hurt(b)' \subseteq failed_nodes'[s] \/ Told(t, s)'
                    /\ Doing(s)' => Hurt(b)' \subseteq failed_nodes'[s]
  BY <1>2 DEF Carried
<1>3. /\ t \in Svc \ {MAIN} /\ s \in DOMAIN Dependents(t) /\ Filters(Dependents(t)[s])
  BY <1>1, StructureAssumption DEF Filtering, Plain, FiltersOnOneWay, Deps, DepsOf,
                                   Dependents, DependentsOf
<1>4. Carried(s) /\ Accounted(b) /\ Links
  BY DEF FInv
<1>5. ASSUME status'[s] = NO_STATUS PROVE Hurt(b)' \subseteq failed_nodes'[s] \/ Told(t, s)'
  <2>1. CASE ~Final(status[t])
    BY <1>1, <1>3, <1>4, <2>1, ToldFirst
  <2>2. CASE Final(status[t])
    <3>1. Hurt(b)' = Hurt(b) /\ status[s] = NO_STATUS
      BY <1>1, <1>5, <2>2, HurtKept
    <3>2. CASE Hurt(b) \subseteq failed_nodes[s]
      BY <1>1, <3>1, <3>2, FailedGrows
    <3>3. CASE Told(t, s) /\ ~Trigger(t, s)
      BY <1>1, <1>3, <1>4, <3>3, ToldStays
    <3>4. CASE Trigger(t, s)
      <4>1. failed_nodes' = Filtered(failed_nodes, s, failed_nodes[t])
        BY <1>3, <3>4 DEF Trigger
      <4>2. failed_nodes[t] \subseteq failed_nodes'[s]
        BY <1>1, <4>1, FilteredGrows
      <4>3. Hurt(b) \subseteq failed_nodes[t]
        <5>1. CASE Final(act_status[b])
          BY <1>4, <5>1 DEF Accounted
        <5>2. CASE act_status[b] = NO_STATUS
          BY <5>2 DEF Tries, Tried, Hurt
        <5>3. act_status[b] # WAITING_STATUS
          BY <2>2, StatusNames DEF OInv, Acting
        <5> QED BY <5>1, <5>2, <5>3 DEF Final
      <4> QED BY <3>1, <4>2, <4>3
    <3> QED BY <1>4, <2>2, <3>1, <3>2, <3>3, <3>4 DEF Carried
  <2> QED BY <2>1, <2>2
<1>6. ASSUME Doing(s)' PROVE Hurt(b)' \subseteq failed_nodes'[s]
  <2>1. CASE UNCHANGED vars
    <3>1. Doing(s) /\ Final(status[t]) /\ Hurt(b)' = Hurt(b) /\ failed_nodes' = failed_nodes
      BY <1>6, <2>1 DEF vars, Doing, Running, Top, Hurt
    <3> QED BY <1>4, <3>1 DEF Carried
  <2>2. CASE /\ Running("prepare") /\ Top.svc = s /\ status[s] = NO_STATUS
             /\ \A x \in Svc \ {s} : status'[x] = status[x]
             /\ ~Final(status'[s])
    <3>1. Final(status[t])
      BY <1>3, <2>2
    <3>2. Hurt(b)' = Hurt(b) /\ failed_nodes[s] \subseteq failed_nodes'[s]
      BY <1>1, <3>1, HurtKept, FailedGrows
    <3>3. ~Told(t, s)
      BY <1>4, <2>2, NotTold
    <3> QED BY <1>4, <2>2, <3>1, <3>2, <3>3 DEF Carried
  <2> QED BY <1>1, <1>6, <2>1, <2>2, DoingFrom
<1> QED BY <1>5, <1>6

\* Action.prepare takes them from its targets.
LEMMA SparesNext ==
  ASSUME NoChecks, IInv, OInv, Tries, Moves, FInv, [Next]_vars, NEW a \in Action
  PROVE  Spares(a)'
<1>1. /\ UNCHANGED conf /\ a[1] \in Svc /\ a[1] \in Plain /\ target \in [Action -> {None} \cup SUBSET Node]
  BY EngineParts DEF Moves, Action, Plain
<1>2. Filtering(a[1])' = Filtering(a[1])
  BY <1>1 DEF Filtering, Deps
<1> SUFFICES ASSUME Began(a)', target'[a] # None
             PROVE  /\ target'[a] # {}
                    /\ \A t \in Filtering(a[1]) : \A b \in Action : b[1] = t =>
                         target'[a] \cap Hurt(b)' = {}
  BY <1>2 DEF Spares
<1>3. CASE Began(a)
  <2>1. act_status[a] # NO_STATUS
    BY <1>3, OneOfThem, StatusNames DEF Began, Launched, Tries, Tried
  <2>2. target'[a] = target[a]
    BY <2>1, ActionMoves
  <2>3. Cleared(a[1])
    BY <1>1, <1>3 DEF Began, OInv, Acting, Deserved
  <2>4. ASSUME NEW t \in Filtering(a[1]), NEW b \in Action, b[1] = t
        PROVE  Hurt(b)' = Hurt(b)
    <3>1. Final(status[t])
      BY <2>3 DEF Filtering, Cleared
    <3> QED BY <1>1, <2>4, <3>1, HurtKept
  <2>5. Spares(a)
    BY DEF FInv
  <2> QED BY <1>3, <2>2, <2>4, <2>5 DEF Spares
<1>4. CASE RunAction(a)
  <2>1. /\ Running("action_prepare") /\ TopAction = a /\ Remaining(a) # {}
        /\ target' = [target EXCEPT ![a] = Remaining(a)] /\ UNCHANGED worker
    BY <1>4 DEF RunAction, PreparingAction, envVars
  <2>2. Top.svc = a[1] /\ (status[a[1]] = WAITING_STATUS \/ target[a] = {})
    BY <2>1, PreparingActionFacts
  <2>3. Doing(a[1]) /\ status[a[1]] = WAITING_STATUS /\ Cleared(a[1])
    <3>1. status[a[1]] = WAITING_STATUS
      BY <2>1, <2>2, NodeAssumption DEF Remaining
    <3> QED BY <1>1, <2>1, <2>2, <3>1 DEF Doing, OInv, Deserved
  <2>4. target'[a] = target[a] \ failed_nodes[a[1]] /\ target'[a] # {}
    BY <1>1, <2>1 DEF Remaining
  <2>5. ASSUME NEW t \in Filtering(a[1]), NEW b \in Action, b[1] = t
        PROVE  target'[a] \cap Hurt(b)' = {}
    <3>1. Final(status[t])
      BY <2>3 DEF Filtering, Cleared
    <3>2. Hurt(b) \subseteq failed_nodes[a[1]]
      BY <1>1, <2>3, <2>5, <3>1 DEF FInv, Carried
    <3> QED BY <1>1, <2>1, <2>4, <3>2 DEF Hurt
  <2> QED BY <2>4, <2>5
<1>5. Began(a) \/ RunAction(a)
  <2>1. CASE act_status'[a] = WAITING_STATUS
    BY <2>1, TargetsMove DEF Began
  <2>2. CASE Launched(a)' /\ act_status'[a] # WAITING_STATUS
    <3>1. CASE UNCHANGED <<tries, timers>>
      BY <2>2, <3>1 DEF Launched, Began
    <3>2. ASSUME NEW c \in Action, RunAction(c) \/ EventStep(c) PROVE Began(a) \/ RunAction(a)
      <4>1. CASE c = a
        <5>1. EventStep(a) => workers[a] > 0 \/ timers[a] > 0
          BY DEF EventStep, Fire, Retry, Close, Closing
        <5> QED BY <3>2, <4>1, <5>1, OneOfThem DEF Began
      <4>2. CASE c # a
        <5>1. UNCHANGED <<tries, timers>> \/ (tries'[a] = tries[a] /\ timers'[a] = timers[a])
          <6>1. CASE RunAction(c)
            BY <4>2, <6>1, EngineParts, ScheduleLeavesOthers DEF RunAction
          <6>2. CASE Fire(c)
            <7> DEFINE tms == [timers EXCEPT ![c] = @ - 1]
            <7>1. Schedule(c, FALSE, manager, workers, tms)
              BY <6>2 DEF Fire
            <7>2. DOMAIN tms = Action /\ \A x \in Action \ {c} : tms[x] = timers[x]
              BY EngineParts
            <7> HIDE DEF tms
            <7> QED BY <4>2, <7>1, <7>2, ScheduleLeavesOthers
          <6>3. CASE \E r \in Results(c) : Retry(c, r)
            <7>1. Schedule(c, TRUE, RemoveTask(manager, c),
                           [workers EXCEPT ![c] = @ - 1], timers)
              BY <6>3 DEF Retry
            <7> QED BY <4>2, <7>1, EngineParts, ScheduleLeavesOthers
          <6>4. CASE \E r \in Results(c) : Close(c, r)
            BY <6>4 DEF Close
          <6> QED BY <3>2, <6>1, <6>2, <6>3, <6>4 DEF EventStep
        <5> QED BY <2>2, <5>1 DEF Launched, Began
      <4> QED BY <4>1, <4>2
    <3>3. ASSUME NEW x \in Svc, ServiceStep(x) PROVE UNCHANGED <<tries, timers>>
      BY <3>3 DEF ServiceStep, PrepareAgain, PrepareDeps, PrepareWaits, LaunchMissing,
         LaunchSkipped, LaunchDepError, LaunchAction, LaunchGate, LaunchInternal, Launching,
         Preparing, PrepareDep, Trigger, actVars
    <3>4. ASSUME NEW c \in Action, ActionStep(c), ~RunAction(c) PROVE UNCHANGED <<tries, timers>>
      BY <3>4 DEF ActionStep, ActionPrepareAgain, SkipAction, ActionNotNeeded,
         PrepareSubActions, PrepareSubAction, ActionTrigger, actVars
    <3>5. CASE EndLoop \/ Exit \/ UNCHANGED vars
      BY <3>1, <3>5 DEF EndLoop, Exit, actVars, vars
    <3> QED BY <3>1, <3>2, <3>3, <3>4, <3>5 DEF Next, Step, Terminated
  <2> QED BY <2>1, <2>2 DEF Began
<1> QED BY <1>3, <1>4, <1>5

LEMMA FilterInit == Init => FInv
<1> SUFFICES ASSUME Init PROVE FInv
  OBVIOUS
<1>1. /\ target = conf.target /\ conf \in Configs
      /\ \A b \in Action : /\ act_status[b] = NO_STATUS /\ worker[b] = {}
                           /\ tries[b] = 0 /\ timers[b] = 0
  BY DEF Init
<1>2. ~Running("action_prepare")
  BY DEF Init, Running, Top, Call
<1>3. \A b \in Action : Hurt(b) = {}
  BY <1>1 DEF Hurt
<1>4. \A b \in Action : Accounted(b) /\ Spares(b)
  BY <1>1, StatusNames DEF Accounted, Spares, Began, Launched
<1>5. \A s \in Plain : Carried(s)
  BY <1>2, <1>3 DEF Carried, Doing
<1> QED BY <1>4, <1>5, LinksInit DEF FInv

\* A command never runs on a node where the last command of a service that its own
\* service depends on, other than by a weak requirement, failed, and never with no node
\* left (filter_nodes, Action.prepare): for any graph without checks where what a service
\* filters on is a service that it comes after in one way, any results and any order.
THEOREM NoFailedNodeTargetedHolds ==
  ASSUME NoNegativeFanout, NoChecks, AllOnOneWay
  PROVE  Spec => []NoFailedNodeTargeted
<1> DEFINE Inv == IInv /\ OInv /\ Tries /\ FInv
<1>1. Init => Inv
  BY InitOK, OrderInit, TriesInit, FilterInit
<1>2. Inv /\ [Next]_vars => Inv'
  <2> SUFFICES ASSUME Inv, [Next]_vars PROVE Inv'
    OBVIOUS
  <2>1. IInv' /\ OInv' /\ Moves /\ Tries'
    BY NextOK, OrderNext, TriesNext
  <2>2. FinalKept /\ UNCHANGED conf /\ FiltersOnOneWay(conf)
    BY <2>1, MovesKeepFinal, EngineParts DEF Moves, AllOnOneWay, OInv
  <2>3. LinksStay
    BY <2>2, LinksNext DEF FInv
  <2>4. \A b \in Action : Accounted(b)'
    BY <2>2, AccountedNext DEF FInv
  <2>5. \A b \in Action : Spares(b)'
    BY <2>1, SparesNext
  <2>6. \A s \in Plain : Carried(s)'
    BY <2>1, <2>2, <2>3, CarriedNext
  <2> QED BY <2>1, <2>3, <2>4, <2>5, <2>6 DEF FInv, LinksStay, Action, Plain
<1>3. Inv => NoFailedNodeTargeted
  <2> SUFFICES ASSUME Inv, NEW a \in Action, Launched(a), target[a] # None
               PROVE  /\ target[a] # {}
                      /\ \A t \in DOMAIN Deps(a[1]) : Filters(Deps(a[1])[t]) =>
                           \A b \in Action : b[1] \in Leaves(t) =>
                             target[a] \cap worker[b] = {}
    BY DEF NoFailedNodeTargeted
  <2>1. Spares(a) /\ Accounted(a) /\ Began(a) /\ a[1] \in Plain /\ a[1] \in Svc
    BY DEF FInv, Began, Action, Plain
  <2>2. FiltersOnOneWay(conf) /\ NotByName(conf)
    BY DEF AllOnOneWay, OInv
  <2>3. ASSUME NEW t \in DOMAIN Deps(a[1]), Filters(Deps(a[1])[t]),
               NEW b \in Action, b[1] \in Leaves(t)
        PROVE  target[a] \cap worker[b] = {}
    <3>1. t \notin Group
      BY <2>1, <2>2, <2>3 DEF FiltersOnOneWay, Deps, DepsOf
    <3>2. b[1] = t /\ t \in Filtering(a[1])
      BY <2>3, <3>1 DEF Leaves, Filtering, Action
    <3>3. target[a] \cap Hurt(b) = {}
      BY <2>1, <3>2 DEF Spares
    <3>4. CASE conf.target[b] # None
      BY <3>3, <3>4 DEF Hurt
    <3>5. CASE conf.target[b] = None
      <4>1. worker[b] \subseteq {LOCALHOST}
        BY <3>5 DEF FInv, Accounted
      <4>2. LOCALHOST \notin target[a]
        BY <2>1, <2>2 DEF Accounted, NotByName
      <4> QED BY <4>1, <4>2
    <3> QED BY <3>4, <3>5
  <2> QED BY <2>1, <2>3 DEF Spares
<1> QED BY <1>1, <1>2, <1>3, PTL DEF Spec
===============================================================================
