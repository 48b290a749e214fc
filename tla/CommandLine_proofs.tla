-------------------------- MODULE CommandLine_proofs --------------------------
(***************************************************************************)
(* execute runs what was asked, with the options that were given, and      *)
(* returns an honest exit code, whatever the command line, the tasks, the  *)
(* exceptions, the interruptions and the user.  The inductive invariant    *)
(* says, for each statement of the main thread, what its variables hold.   *)
(***************************************************************************)
EXTENDS CommandLine, ActionManager_proofs

\* The statements of `try' that come before the call, and all of them.
Before == {"parse", "config", "graph", "check", "help", "confirm", "start"}
Try == Before \cup {"call", "retcode", "report"}
After == {"quit", "join", "returned", "escaped"}

NothingRan == \A t \in Task : tries[t] = 0

\* The file is read by yaml: a refusal of the user is not one of its errors.
FileInv == file.error \in {None, "ScannerError", Unexpected}

\* In `try', nothing was raised yet, and the call has an outcome at its end only.
TryInv ==
  /\ pc \in Try \cup {"except"} \cup After
  /\ pc \in Try => exception = None
  /\ pc \in Before \cup {"call"} => outcome = None /\ retcode = RC_OK
  /\ pc \in Before => NothingRan
  /\ pc \in {"retcode", "report"} => outcome # None
  /\ pc = "report" => retcode = Retcode

\* After it, the exit code is that of the exception or that of the services.
AfterInv ==
  /\ pc = "except" => exception # None
  /\ pc \in After /\ exception = None /\ pc # "escaped" =>
       /\ retcode = IF outcome = None THEN RC_OK ELSE Retcode
       /\ outcome = None => NothingRan
  /\ pc \in {"quit", "join", "returned"} /\ exception # None => retcode = Code(exception)
  /\ exception = "UserError" => answer = "no" /\ NothingRan

\* The inductive invariant.
IInv == FileInv /\ TryInv /\ AfterInv

LEMMA InitInv == Init => IInv
<1> SUFFICES ASSUME Init PROVE IInv
  OBVIOUS
<1>1. FileInv
  <2>1. PICK s \in Starts : file = s.file
    BY DEF Init
  <2>2. StartOK(s)
    BY StartAssumption
  <2> QED BY <2>1, <2>2 DEF StartOK, FileInv
<1>2. TryInv /\ AfterInv
  BY NoneAssumption DEF Exceptions, Init, TryInv, AfterInv, NothingRan, Before, Try, After
<1> QED BY <1>1, <1>2 DEF IInv

\* One step of the main thread, the interruptions included.
LEMMA MainInv ==
  ASSUME IInv, Main \/ Interrupt
  PROVE  IInv'
<1> USE NoneAssumption
    DEF Exceptions, IInv, FileInv, TryInv, AfterInv, NothingRan, Before, Try, After,
        Go, Raise, Alone, lineVars, callVars, threadVars, Retcode
<1>1. CASE Parse
  BY <1>1 DEF Parse
<1>2. CASE Configure
  BY <1>2 DEF Configure, Case, ManagerError, Unexpected
<1>3. CASE OutputGraph \/ CheckConfig
  BY <1>3 DEF OutputGraph, CheckConfig, LoadConfig, ManagerError, Unexpected
<1>4. CASE Help
  BY <1>4 DEF Help
<1>5. CASE Confirm
  BY <1>5 DEF Confirm, Unexpected
<1>6. CASE Start
  BY <1>6 DEF Start
<1>7. ASSUME NEW t \in Task, StartTask(t) \/ EndTask(t) PROVE IInv'
  BY <1>7 DEF StartTask, EndTask, InCall
<1>8. CASE EndCall
  BY <1>8 DEF EndCall, InCall
<1>9. CASE CallRaises
  BY <1>9 DEF CallRaises, InCall, ManagerError, Unexpected
<1>10. CASE SetRetcode
  BY <1>10 DEF SetRetcode
<1>11. CASE Report
  BY <1>11 DEF Report, Unexpected
<1>12. CASE Except
  BY <1>12 DEF Except
<1>13. CASE Quit
  BY <1>13 DEF Quit
<1>14. CASE Join
  BY <1>14 DEF Join
<1>15. CASE Interrupt
  BY <1>15 DEF Interrupt, Over
<1> QED
  BY <1>1, <1>2, <1>3, <1>4, <1>5, <1>6, <1>7, <1>8, <1>9, <1>10, <1>11, <1>12,
     <1>13, <1>14, <1>15 DEF Main

\* The other thread and the user leave the main thread alone.
LEMMA OthersInv ==
  ASSUME IInv, Thread \/ User \/ Stop \/ UNCHANGED vars
  PROVE  IInv'
<1>1. UNCHANGED <<lineVars, mainVars, callVars>>
  BY DEF Thread, Poll, Dispatch, EndEvents, Flush, Walk, Watching, User, Stop, vars
<1> QED
  BY <1>1 DEF IInv, FileInv, TryInv, AfterInv, NothingRan, Retcode, lineVars,
     mainVars, callVars, Code

LEMMA MainInvariant == Spec => []IInv
<1>1. IInv /\ [Next]_vars => IInv'
  BY MainInv, OthersInv DEF Next
<1> QED BY <1>1, InitInv, PTL DEF Spec

\* The exit code of execute is that of the services only if the call went to its
\* end; an exception or an interruption is never passed for a success.
THEOREM RetcodeIsHonest == Spec => []RetcodeHonest
<1>1. IInv => RetcodeHonest
  BY NoneAssumption DEF Exceptions, IInv, AfterInv, After, RetcodeHonest, NothingRan, Code, Unexpected,
     RC_OK, RC_WARNING, RC_ERROR, RC_EXCEPTION, RC_UNKNOWN_EXCEPTION, SIGINT, Retcode
<1> QED BY <1>1, MainInvariant, PTL
-------------------------------------------------------------------------------
(* The options one after the other *)

\* g is what Parsing computes, up to the n-th option.
Parses(options, n, g) ==
  g = [i \in 0..n |-> IF i = 0 THEN Unset ELSE Take(g[i - 1], options[i])]

\* The recursion of Parsing is well founded: were it not, a first number of
\* options would have no values, but they are those of one option less, and one
\* more Take.
LEMMA ParsingIs ==
  ASSUME NEW options, Len(options) \in Nat
  PROVE  Parses(options, Len(options), Parsing(options))
<1> DEFINE Bad == {n \in Nat : ~ \E g : Parses(options, n, g)}
<1>1. Bad = {}
  <2> SUFFICES ASSUME Bad # {} PROVE FALSE
    OBVIOUS
  <2>1. PICK n \in Bad : \A m \in Bad : n <= m
    BY LeastNatural
  <2>2. Parses(options, 0, [i \in 0..0 |-> Unset])
    BY DEF Parses
  <2>3. n # 0 /\ n - 1 \in Nat /\ n - 1 \notin Bad
    BY <2>1, <2>2
  <2>4. PICK g : Parses(options, n - 1, g)
    BY <2>3
  <2> DEFINE h == [i \in 0..n |-> IF i = n THEN Take(g[n - 1], options[n]) ELSE g[i]]
  <2>5. \A i \in 0..n : h[i] = IF i = 0 THEN Unset ELSE Take(h[i - 1], options[i])
    <3>1. \A i \in 0..(n - 1) : g[i] = IF i = 0 THEN Unset ELSE Take(g[i - 1], options[i])
      BY <2>3, <2>4 DEF Parses
    <3> QED BY <2>3, <3>1
  <2>6. Parses(options, n, h)
    <3> HIDE DEF h
    <3>1. h = [i \in 0..n |-> h[i]]
      BY DEF h
    <3> QED BY <2>5, <3>1 DEF Parses
  <2> QED BY <2>1, <2>6
<1>2. \E g : Parses(options, Len(options), g)
  BY <1>1
<1> QED BY <1>2 DEF Parses, Parsing

LEMMA ParsingStep ==
  ASSUME NEW options, Len(options) \in Nat
  PROVE  /\ Parsing(options)[0] = Unset
         /\ \A n \in 0..(Len(options) - 1) :
              Parsing(options)[n + 1] = Take(Parsing(options)[n], options[n + 1])
BY ParsingIs DEF Parses

\* A command line whose options are all accepted.
Legal(options) ==
  /\ Len(options) \in Nat /\ DOMAIN options = 1..Len(options)
  /\ \A i \in 1..Len(options) : OptionOK(options[i]) /\ options[i].value # Malformed

\* The options each property is about.
OptX == {"-x"}
OptN == {"-n"}
OptC == {"-c"}
OptR == {"-s", "-r"}
OptY == {"-y"}
OptG == {"-g"}

LEMMA OptFlags ==
  \A f : /\ f \in OptX <=> f = "-x"
         /\ f \in OptN <=> f = "-n"
         /\ f \in OptC <=> f = "-c"
         /\ f \in OptR <=> f = "-s" \/ f = "-r"
         /\ f \in OptY <=> f = "-y"
         /\ f \in OptG <=> f = "-g"
BY DEF OptX, OptN, OptC, OptR, OptY, OptG

\* Whether, and where last, one of these options is among the first n.
Uses(options, flags, n) == {i \in 1..n : options[i].flag \in flags}
IsLast(options, flags, n, i) ==
  i \in Uses(options, flags, n) /\ \A j \in Uses(options, flags, n) : j <= i

\* What the next option changes to that.
UsesNext(options, n) ==
  \A flags :
    /\ options[n + 1].flag \in flags =>
         /\ Uses(options, flags, n + 1) = Uses(options, flags, n) \cup {n + 1}
         /\ \A i : IsLast(options, flags, n + 1, i) <=> i = n + 1
    /\ options[n + 1].flag \notin flags =>
         /\ Uses(options, flags, n + 1) = Uses(options, flags, n)
         /\ \A i : IsLast(options, flags, n + 1, i) <=> IsLast(options, flags, n, i)

LEMMA UsesStep == ASSUME NEW options, NEW n \in Nat PROVE UsesNext(options, n)
<1> SUFFICES ASSUME NEW flags
             PROVE  UsesNext(options, n)!(flags)
  BY DEF UsesNext
<1>1. CASE options[n + 1].flag \in flags
  BY <1>1 DEF Uses, IsLast
<1>2. CASE options[n + 1].flag \notin flags
  <2>1. Uses(options, flags, n + 1) = Uses(options, flags, n)
    BY <1>2 DEF Uses
  <2> QED BY <1>2, <2>1 DEF IsLast
<1> QED BY <1>1, <1>2

\* The fields that do not concern the nodes, after n options.
FieldsAsAsked(options, n, values) ==
  /\ values.assumeyes \in BOOLEAN
  /\ values.assumeyes => Uses(options, OptY, n) # {}
  /\ Uses(options, OptG, n) # {} => values.graph = TRUE
  /\ Uses(options, OptR, n) = {} => values.report = None
  /\ \A i : IsLast(options, OptR, n, i) =>
       values.report = IF options[i].flag = "-s" THEN "default" ELSE options[i].value
  /\ Uses(options, OptC, n) = {} => values.config_dir = None
  /\ \A i : IsLast(options, OptC, n, i) => values.config_dir = options[i].value

\* What is selected and what is excluded, after n options.
SetsAsAsked(options, n, values) ==
  LET X == Uses(options, OptX, n)
      N == Uses(options, OptN, n)
  IN  /\ X = {} => values.excluded_nodes = None
      /\ \A i : IsLast(options, OptX, n, i) => values.excluded_nodes = options[i].value
      /\ N = {} => values.only_nodes = None
      /\ N # {} => values.only_nodes \in SUBSET Node
      /\ X # {} => values.excluded_nodes \in SUBSET Node
      /\ X # {} /\ N # {} => values.only_nodes \cap values.excluded_nodes = {}
      /\ \A i : IsLast(options, OptN, n, i) =>
           /\ values.only_nodes \subseteq options[i].value
           /\ (\A j, k \in X : j = k) =>
                values.only_nodes = options[i].value \ UNION {options[j].value : j \in X}

ValuesAsAsked(options, n, values) ==
  /\ DOMAIN values = DOMAIN Unset
  /\ FieldsAsAsked(options, n, values)
  /\ SetsAsAsked(options, n, values)

LEMMA UnsetAsAsked == ASSUME NEW options PROVE ValuesAsAsked(options, 0, Unset)
BY DEF ValuesAsAsked, FieldsAsAsked, SetsAsAsked, Uses, IsLast, Unset

\* What Take leaves of the fields, flag by flag.
LEMMA TakeFields ==
  ASSUME NEW values, DOMAIN values = DOMAIN Unset, NEW o, o.flag \in Flags
  PROVE  /\ DOMAIN Take(values, o) = DOMAIN Unset
         /\ Take(values, o).assumeyes = IF o.flag = "-y" THEN TRUE ELSE values.assumeyes
         /\ Take(values, o).graph = IF o.flag = "-g" THEN TRUE ELSE values.graph
         /\ Take(values, o).report = IF o.flag = "-s" THEN "default"
                                     ELSE IF o.flag = "-r" THEN o.value ELSE values.report
         /\ Take(values, o).config_dir = IF o.flag = "-c" THEN o.value ELSE values.config_dir
BY DEF Take, CheckServiceMode, Flags, Nodesets, Unset

\* And of the nodes.
NodesTaken(values, o, after) ==
  /\ o.flag \notin Nodesets =>
       /\ after.only_nodes = values.only_nodes
       /\ after.excluded_nodes = values.excluded_nodes
  /\ o.flag = "-x" =>
       /\ after.excluded_nodes = o.value
       /\ after.only_nodes = IF Given(values.only_nodes)
                             THEN values.only_nodes \ o.value ELSE values.only_nodes
  /\ o.flag = "-n" =>
       /\ after.excluded_nodes = values.excluded_nodes
       /\ after.only_nodes = IF Given(values.excluded_nodes)
                             THEN o.value \ values.excluded_nodes ELSE o.value

LEMMA TakeNodes ==
  ASSUME NEW values, DOMAIN values = DOMAIN Unset, NEW o, o.flag \in Flags
  PROVE  NodesTaken(values, o, Take(values, o))
BY DEF NodesTaken, Take, CheckServiceMode, Flags, Nodesets, Unset

LEMMA FieldsStep ==
  ASSUME NEW options, NEW n \in Nat, NEW values, DOMAIN values = DOMAIN Unset,
         options[n + 1].flag \in Flags, FieldsAsAsked(options, n, values)
  PROVE  FieldsAsAsked(options, n + 1, Take(values, options[n + 1]))
<1> DEFINE o == options[n + 1]
           after == Take(values, o)
<1>u. UsesNext(options, n)
  BY UsesStep
<1>1. /\ after.assumeyes = IF o.flag = "-y" THEN TRUE ELSE values.assumeyes
      /\ after.graph = IF o.flag = "-g" THEN TRUE ELSE values.graph
      /\ after.report = IF o.flag = "-s" THEN "default"
                        ELSE IF o.flag = "-r" THEN o.value ELSE values.report
      /\ after.config_dir = IF o.flag = "-c" THEN o.value ELSE values.config_dir
  BY TakeFields
<1> HIDE DEF after
<1>2. /\ after.assumeyes \in BOOLEAN
      /\ after.assumeyes => Uses(options, OptY, n + 1) # {}
  BY <1>1, <1>u, OptFlags DEF UsesNext, FieldsAsAsked
<1>3. Uses(options, OptG, n + 1) # {} => after.graph = TRUE
  BY <1>1, <1>u, OptFlags DEF UsesNext, FieldsAsAsked
<1>4. /\ Uses(options, OptR, n + 1) = {} => after.report = None
      /\ \A i : IsLast(options, OptR, n + 1, i) =>
           after.report = IF options[i].flag = "-s" THEN "default" ELSE options[i].value
  BY <1>1, <1>u, OptFlags DEF UsesNext, FieldsAsAsked
<1>5. /\ Uses(options, OptC, n + 1) = {} => after.config_dir = None
      /\ \A i : IsLast(options, OptC, n + 1, i) => after.config_dir = options[i].value
  BY <1>1, <1>u, OptFlags DEF UsesNext, FieldsAsAsked
<1> QED BY <1>2, <1>3, <1>4, <1>5 DEF FieldsAsAsked, after

LEMMA NoneIsNoSet == ASSUME NEW nodes \in SUBSET Node PROVE nodes # None
BY NoneAssumption

LEMMA SetsStep ==
  ASSUME NEW options, NEW n \in Nat, NEW values, DOMAIN values = DOMAIN Unset,
         OptionOK(options[n + 1]), options[n + 1].value # Malformed,
         SetsAsAsked(options, n, values)
  PROVE  SetsAsAsked(options, n + 1, Take(values, options[n + 1]))
<1> DEFINE o == options[n + 1]
           after == Take(values, o)
           X(m) == Uses(options, OptX, m)
           N(m) == Uses(options, OptN, m)
           LastX(m, i) == IsLast(options, OptX, m, i)
           LastN(m, i) == IsLast(options, OptN, m, i)
<1>u. UsesNext(options, n)
  BY UsesStep
<1>0. o.flag \in Flags /\ (o.flag \in Nodesets => o.value \in SUBSET Node)
  BY DEF OptionOK
<1>t. NodesTaken(values, o, after)
  BY <1>0, TakeNodes
<1>1. \A i : LastN(n, i) => N(n) # {}
  BY DEF IsLast
<1>a. CASE o.flag \notin Nodesets
  <2>1. /\ after.only_nodes = values.only_nodes
        /\ after.excluded_nodes = values.excluded_nodes
    BY <1>t, <1>a DEF NodesTaken
  <2>2. X(n + 1) = X(n) /\ N(n + 1) = N(n)
    BY <1>a, <1>u, OptFlags DEF UsesNext, Nodesets
  <2>3. \A i : (LastX(n + 1, i) <=> LastX(n, i)) /\ (LastN(n + 1, i) <=> LastN(n, i))
    BY <1>a, <1>u, OptFlags DEF UsesNext, Nodesets
  <2> HIDE DEF after
  <2> QED BY <2>1, <2>2, <2>3 DEF SetsAsAsked, after
<1>b. CASE o.flag = "-x"
  <2>1. /\ after.excluded_nodes = o.value
        /\ after.only_nodes = IF Given(values.only_nodes) THEN values.only_nodes \ o.value
                              ELSE values.only_nodes
    BY <1>t, <1>b DEF NodesTaken
  <2>2. X(n + 1) = X(n) \cup {n + 1} /\ N(n + 1) = N(n)
    BY <1>b, <1>u, OptFlags DEF UsesNext
  <2>3. \A i : (LastX(n + 1, i) <=> i = n + 1) /\ (LastN(n + 1, i) <=> LastN(n, i))
    BY <1>b, <1>u, OptFlags DEF UsesNext
  <2>4. o.value \in SUBSET Node
    BY <1>0, <1>b DEF Nodesets
  <2>5. N(n) # {} => after.only_nodes = values.only_nodes \ o.value
    BY <2>1, NoneIsNoSet DEF SetsAsAsked, Given
  <2>6. N(n) = {} => after.only_nodes = None
    BY <2>1 DEF SetsAsAsked, Given
  <2>7. ASSUME NEW i, LastN(n + 1, i)
        PROVE  /\ after.only_nodes \subseteq options[i].value
               /\ (\A j, k \in X(n + 1) : j = k) =>
                    after.only_nodes = options[i].value \ UNION {options[j].value : j \in X(n + 1)}
    <3>1. LastN(n, i) /\ N(n) # {}
      BY <1>1, <2>3, <2>7
    <3>2. values.only_nodes \subseteq options[i].value
      BY <3>1 DEF SetsAsAsked
    <3>3. ASSUME \A j, k \in X(n + 1) : j = k
          PROVE  after.only_nodes = options[i].value \ UNION {options[j].value : j \in X(n + 1)}
      <4>1. X(n) = {}
        BY <2>2, <3>3 DEF Uses
      <4>2. values.only_nodes = options[i].value
        <5>1. values.only_nodes = options[i].value \ UNION {options[j].value : j \in X(n)}
          BY <3>1, <4>1 DEF SetsAsAsked
        <5>2. UNION {options[j].value : j \in X(n)} = {}
          BY <4>1
        <5> QED BY <5>1, <5>2
      <4>3. UNION {options[j].value : j \in X(n + 1)} = o.value
        BY <2>2, <4>1
      <4> QED BY <2>5, <3>1, <4>2, <4>3
    <3> QED BY <2>5, <3>1, <3>2, <3>3
  <2> HIDE DEF after
  <2> QED BY <2>1, <2>2, <2>3, <2>4, <2>5, <2>6, <2>7 DEF SetsAsAsked, after
<1>c. CASE o.flag = "-n"
  <2>1. /\ after.excluded_nodes = values.excluded_nodes
        /\ after.only_nodes = IF Given(values.excluded_nodes)
                              THEN o.value \ values.excluded_nodes ELSE o.value
    BY <1>t, <1>c DEF NodesTaken
  <2>2. X(n + 1) = X(n) /\ N(n + 1) = N(n) \cup {n + 1}
    BY <1>c, <1>u, OptFlags DEF UsesNext
  <2>3. \A i : (LastN(n + 1, i) <=> i = n + 1) /\ (LastX(n + 1, i) <=> LastX(n, i))
    BY <1>c, <1>u, OptFlags DEF UsesNext
  <2>4. o.value \in SUBSET Node
    BY <1>0, <1>c DEF Nodesets
  <2>5. X(n) # {} => after.only_nodes = o.value \ values.excluded_nodes
    BY <2>1, NoneIsNoSet DEF SetsAsAsked, Given
  <2>6. X(n) = {} => after.only_nodes = o.value
    BY <2>1 DEF SetsAsAsked, Given
  <2>7. ASSUME \A j, k \in X(n) : j = k
        PROVE  after.only_nodes = o.value \ UNION {options[j].value : j \in X(n)}
    <3>1. CASE X(n) = {}
      BY <2>6, <3>1
    <3>2. ASSUME NEW j \in X(n) PROVE after.only_nodes = o.value \ UNION {options[k].value : k \in X(n)}
      <4>1. X(n) = {j}
        BY <2>7, <3>2
      <4>2. LastX(n, j)
        BY <4>1 DEF IsLast, Uses
      <4>3. values.excluded_nodes = options[j].value
        BY <4>2 DEF SetsAsAsked
      <4>4. UNION {options[k].value : k \in X(n)} = options[j].value
        BY <4>1
      <4> QED BY <2>5, <4>1, <4>3, <4>4
    <3> QED BY <3>1, <3>2
  <2> HIDE DEF after
  <2>8. after.only_nodes \subseteq o.value
    BY <2>5, <2>6
  <2> QED BY <2>1, <2>2, <2>3, <2>4, <2>5, <2>6, <2>7, <2>8 DEF SetsAsAsked, after
<1> QED BY <1>a, <1>b, <1>c DEF Nodesets

\* However many options there are, their values are those that were asked for: no
\* number of them is the first after which it is not so.
LEMMA ParsedAsAsked ==
  ASSUME NEW options, Legal(options)
  PROVE  ValuesAsAsked(options, Len(options), ParseArgs(options))
<1> DEFINE P == Parsing(options)
           Bad == {n \in Nat : n <= Len(options) /\ ~ ValuesAsAsked(options, n, P[n])}
<1>0. Len(options) \in Nat
  BY DEF Legal
<1>1. P[0] = Unset /\ \A n \in 0..(Len(options) - 1) : P[n + 1] = Take(P[n], options[n + 1])
  BY <1>0, ParsingStep
<1> HIDE DEF P
<1>2. Bad = {}
  <2> SUFFICES ASSUME Bad # {} PROVE FALSE
    OBVIOUS
  <2>1. PICK m \in Bad : \A n \in Bad : m <= n
    BY LeastNatural
  <2>2. m # 0
    BY <1>1, <2>1, UnsetAsAsked
  <2>3. PICK n \in Nat : m = n + 1
    BY <2>1, <2>2
  <2>4. n < Len(options) /\ n \notin Bad
    BY <1>0, <2>1, <2>3
  <2>5. ValuesAsAsked(options, n, P[n])
    BY <2>4
  <2>6. OptionOK(options[n + 1]) /\ options[n + 1].value # Malformed
    BY <1>0, <2>4 DEF Legal
  <2>7. DOMAIN Take(P[n], options[n + 1]) = DOMAIN Unset
    BY <2>5, <2>6, TakeFields DEF ValuesAsAsked, OptionOK
  <2>8. FieldsAsAsked(options, n + 1, Take(P[n], options[n + 1]))
    BY <2>5, <2>6, FieldsStep DEF ValuesAsAsked, OptionOK
  <2>9. SetsAsAsked(options, n + 1, Take(P[n], options[n + 1]))
    BY <2>5, <2>6, SetsStep DEF ValuesAsAsked
  <2>10. P[m] = Take(P[n], options[n + 1])
    BY <1>0, <1>1, <2>3, <2>4
  <2>11. ValuesAsAsked(options, m, P[m])
    BY <2>3, <2>7, <2>8, <2>9, <2>10 DEF ValuesAsAsked
  <2> QED BY <2>1, <2>11
<1>3. ValuesAsAsked(options, Len(options), P[Len(options)])
  BY <1>0, <1>2
<1> QED BY <1>3 DEF P, ParseArgs

\* The entries of the configuration, from the values of the options and the file.
LEMMA ConfigFields ==
  ASSUME NEW data, ~BadData(data), NEW values, DOMAIN values = DOMAIN Unset,
         NEW c, c = Config(data, values)
  PROVE  /\ \A e \in {"only_nodes", "excluded_nodes", "graph", "assumeyes"} :
              /\ e \in DOMAIN c <=> values[e] # None
              /\ values[e] # None => c[e] = values[e]
         /\ \A e \in {"report", "config_dir"} :
              c[e] = IF values[e] # None THEN values[e]
                     ELSE IF e \in DOMAIN data THEN data[e] ELSE DefaultFields[e]
         /\ \A e \in {"fanout", "reverse_actions", "confirm_actions"} :
              c[e] = IF e \in DOMAIN data THEN data[e] ELSE DefaultFields[e]
         /\ c.confirm_actions = IF "confirm_actions" \in DOMAIN data
                                THEN data.confirm_actions ELSE {}
<1> DEFINE given == GivenOnly(values)
           base == LaidOver(data, DefaultFields)
<1>1. DOMAIN Unset = {"verbosity", "graph", "report", "config_dir", "assumeyes", "only_nodes",
                      "excluded_nodes", "excluded_svc", "dryrun", "defines", "nodeps", "tags"}
  BY DEF Unset
<1>2. DOMAIN DefaultFields = {"config_dir", "fanout", "reverse_actions", "summary", "report",
                              "confirm_actions"}
  BY DEF DefaultFields
<1>3. DOMAIN data \subseteq DOMAIN DefaultFields
  BY DEF BadData
<1>4. /\ DOMAIN given = {e \in DOMAIN Unset : values[e] # None}
      /\ \A e \in DOMAIN given : given[e] = values[e]
  BY DEF GivenOnly
<1>5. /\ DOMAIN base = DOMAIN DefaultFields
      /\ \A e \in DOMAIN base : base[e] = IF e \in DOMAIN data THEN data[e] ELSE DefaultFields[e]
  BY <1>3 DEF LaidOver
<1>6. /\ DOMAIN c = DOMAIN given \cup DOMAIN base
      /\ \A e \in DOMAIN c : c[e] = IF e \in DOMAIN given THEN given[e] ELSE base[e]
  BY DEF Config, LaidOver
<1> HIDE DEF given, base
<1>7. \A e \in {"only_nodes", "excluded_nodes", "graph", "assumeyes"} :
        /\ e \in DOMAIN c <=> values[e] # None
        /\ values[e] # None => c[e] = values[e]
  BY <1>1, <1>2, <1>4, <1>5, <1>6
<1>8. \A e \in {"report", "config_dir"} :
        c[e] = IF values[e] # None THEN values[e]
               ELSE IF e \in DOMAIN data THEN data[e] ELSE DefaultFields[e]
  BY <1>1, <1>2, <1>4, <1>5, <1>6
<1>9. \A e \in {"fanout", "reverse_actions", "confirm_actions"} :
        c[e] = IF e \in DOMAIN data THEN data[e] ELSE DefaultFields[e]
  BY <1>1, <1>2, <1>4, <1>5, <1>6
<1>10. DefaultFields.confirm_actions = {}
  BY DEF DefaultFields
<1> QED BY <1>2, <1>5, <1>7, <1>8, <1>9, <1>10

LEMMA MaxIsGreatest ==
  ASSUME NEW n \in Nat, NEW S \in SUBSET (1..n), S # {}
  PROVE  Max(S) \in S /\ \A i \in S : i <= Max(S)
<1> DEFINE D == {d \in Nat : n - d \in S}
<1>1. D \in SUBSET Nat /\ D # {}
  <2>1. PICK i \in S : TRUE
    OBVIOUS
  <2>2. n - i \in D
    BY <2>1
  <2> QED BY <2>2
<1>2. PICK d \in D : \A e \in D : d <= e
  BY <1>1, LeastNatural
<1>3. ASSUME NEW i \in S PROVE n - d >= i
  <2>1. n - i \in D
    OBVIOUS
  <2> QED BY <1>2, <2>1
<1>4. n - d \in S
  OBVIOUS
<1>5. \E m \in S : \A i \in S : m >= i
  BY <1>3, <1>4
<1> QED BY <1>5 DEF Max

-------------------------------------------------------------------------------
(* The configuration, and what is done with it *)

Read ==
  /\ ~InvalidOptions(line.options) /\ ~BadData(file.data)
  /\ conf = Config(file.data, ParseArgs(line.options))

\* An action was asked for, not the graph; and confirmed, if it must be.
Asked == Read /\ "graph" \notin DOMAIN conf /\ line.args # <<>>
Agreed == Asked /\ (ToConfirm(conf) => answer = "yes")

\* The command line is one of Starts, and its configuration is read once, from
\* options that are all accepted.
ConfInv ==
  /\ \E s \in Starts : line = s.line /\ file = s.file
  /\ pc = "config" => ~InvalidOptions(line.options)
  /\ conf # None => Read

\* What comes before the call leads to it only if the action was agreed upon.
AskInv ==
  /\ pc \in Before => ~Alive
  /\ pc = "confirm" => Asked
  /\ pc \in {"start", "call"} \/ Alive \/ ~NothingRan => Agreed

RInv == IInv /\ ConfInv /\ AskInv

LEMMA InitRead == Init => ConfInv /\ AskInv
BY DEF Init, ConfInv, AskInv, Before, NothingRan, Alive

\* One step of the main thread, the interruptions included.
LEMMA MainRead ==
  ASSUME RInv, Main \/ Interrupt
  PROVE  (ConfInv /\ AskInv)'
<1> USE DEF RInv, IInv, TryInv, ConfInv, AskInv, Before, NothingRan, Alive, Agreed, Asked,
            Read, Go, Raise, Alone, lineVars, callVars, threadVars, ToConfirm, Action
<1>1. CASE Parse
  BY <1>1 DEF Parse
<1>2. CASE Configure
  BY <1>2 DEF Configure, Case
<1>3. CASE OutputGraph \/ CheckConfig
  BY <1>3 DEF OutputGraph, CheckConfig, LoadConfig
<1>4. CASE Help
  BY <1>4 DEF Help
<1>5. CASE Confirm
  BY <1>5 DEF Confirm
<1>6. CASE Start
  BY <1>6 DEF Start
<1>7. ASSUME NEW t \in Task, StartTask(t) \/ EndTask(t) PROVE (ConfInv /\ AskInv)'
  BY <1>7 DEF StartTask, EndTask, InCall
<1>8. CASE EndCall
  BY <1>8 DEF EndCall, InCall
<1>9. CASE CallRaises
  BY <1>9 DEF CallRaises, InCall
<1>10. CASE SetRetcode
  BY <1>10 DEF SetRetcode
<1>11. CASE Report
  BY <1>11 DEF Report
<1>12. CASE Except
  BY <1>12 DEF Except
<1>13. CASE Quit
  BY <1>13 DEF Quit
<1>14. CASE Join
  BY <1>14 DEF Join
<1>15. CASE Interrupt
  BY <1>15 DEF Interrupt
<1> QED
  BY <1>1, <1>2, <1>3, <1>4, <1>5, <1>6, <1>7, <1>8, <1>9, <1>10, <1>11, <1>12,
     <1>13, <1>14, <1>15 DEF Main

\* The other thread and the user: the thread may end, never begin.
LEMMA OthersRead ==
  ASSUME RInv, Thread \/ User \/ Stop \/ UNCHANGED vars
  PROVE  (ConfInv /\ AskInv)'
<1>1. UNCHANGED <<lineVars, mainVars, callVars>>
  BY DEF Thread, Poll, Dispatch, EndEvents, Flush, Walk, Watching, User, Stop, vars
<1>2. Alive' => Alive
  BY DEF Thread, Poll, Dispatch, EndEvents, Flush, Walk, User, Stop, vars, threadVars, Alive
<1> QED
  BY <1>1, <1>2 DEF RInv, ConfInv, AskInv, NothingRan, Agreed, Asked, Read, ToConfirm,
     Action, lineVars, mainVars, callVars

LEMMA ReadInvariant == Spec => []RInv
<1>1. Init => RInv
  BY InitInv, InitRead DEF RInv
<1>2. RInv /\ [Next]_vars => RInv'
  BY MainInv, OthersInv, MainRead, OthersRead DEF Next, RInv
<1> QED BY <1>1, <1>2, PTL DEF Spec

\* What was read: its options are legal, and its values are those asked for.
LEMMA ReadLine ==
  ASSUME RInv, Read
  PROVE  /\ Legal(line.options)
         /\ ValuesAsAsked(line.options, Len(line.options), ParseArgs(line.options))
<1>1. PICK s \in Starts : line = s.line
  BY DEF RInv, ConfInv
<1>2. /\ line.options \in Seq(ToSet(line.options))
      /\ \A o \in ToSet(line.options) : OptionOK(o) /\ o.value # Malformed
  BY <1>1, StartAssumption DEF StartOK, Read, InvalidOptions
<1>3. Len(line.options) \in Nat /\ DOMAIN line.options = 1..Len(line.options)
  BY <1>2
<1>4. \A i \in 1..Len(line.options) : line.options[i] \in ToSet(line.options)
  BY <1>3 DEF ToSet
<1>5. Legal(line.options)
  BY <1>2, <1>3, <1>4 DEF Legal
<1> QED BY <1>5, ParsedAsAsked

\* The last option of a kind, if there is one.
LEMMA LastIsLast ==
  ASSUME Legal(line.options), NEW flags
  PROVE  /\ At(flags) = Uses(line.options, flags, Len(line.options))
         /\ At(flags) # {} =>
              IsLast(line.options, flags, Len(line.options), Max(At(flags)))
<1>1. At(flags) = Uses(line.options, flags, Len(line.options))
  BY DEF Legal, At, Uses
<1>2. ASSUME At(flags) # {}
      PROVE  Max(At(flags)) \in At(flags) /\ \A i \in At(flags) : i <= Max(At(flags))
  <2>1. At(flags) \in SUBSET (1..Len(line.options)) /\ Len(line.options) \in Nat
    BY DEF Legal, At
  <2> QED BY <1>2, <2>1, MaxIsGreatest
<1> QED BY <1>1, <1>2 DEF IsLast

\* Tasks run, and the thread is there, only if an action was asked for, not the
\* graph, and if what must be confirmed was.
THEOREM RunsAsAskedHolds == Spec => []RunsAsAsked
<1>1. RInv => RunsAsAsked
  <2> SUFFICES ASSUME RInv, Alive \/ \E t \in Task : tries[t] > 0
               PROVE  /\ line.args # <<>>
                      /\ \A i \in DOMAIN line.options : line.options[i].flag # "-g"
                      /\ \/ answer = "yes"
                         \/ \E i \in DOMAIN line.options : line.options[i].flag = "-y"
                         \/ "confirm_actions" \notin DOMAIN file.data
                         \/ Action \notin file.data.confirm_actions
    BY DEF RunsAsAsked
  <2> DEFINE options == line.options
             values == ParseArgs(options)
             N == Len(options)
  <2>1. Agreed
    BY DEF RInv, AskInv, NothingRan
  <2>2. Legal(options) /\ ValuesAsAsked(options, N, values)
    BY <2>1, ReadLine DEF Agreed, Asked
  <2>3. ~BadData(file.data) /\ conf = Config(file.data, values)
    BY <2>1 DEF Agreed, Asked, Read
  <2> HIDE DEF values
  <2>4. /\ "graph" \in DOMAIN conf <=> values.graph # None
        /\ values.assumeyes # None => conf.assumeyes = values.assumeyes
        /\ conf.confirm_actions = IF "confirm_actions" \in DOMAIN file.data
                                  THEN file.data.confirm_actions ELSE {}
    BY <2>2, <2>3, ConfigFields DEF ValuesAsAsked
  <2>5. /\ values.assumeyes \in BOOLEAN
        /\ values.assumeyes => Uses(options, OptY, N) # {}
        /\ Uses(options, OptG, N) # {} => values.graph = TRUE
    BY <2>2 DEF ValuesAsAsked, FieldsAsAsked
  <2>6. \A i \in DOMAIN options : options[i].flag # "-g"
    <3>1. Uses(options, OptG, N) = {}
      BY <2>1, <2>4, <2>5, NoneAssumption DEF Agreed, Asked
    <3> QED BY <2>2, <3>1, OptFlags DEF Uses, Legal
  <2>7. values.assumeyes => \E i \in DOMAIN options : options[i].flag = "-y"
    BY <2>2, <2>5, OptFlags DEF Uses, Legal
  <2>8. Action \in conf.confirm_actions /\ ~values.assumeyes => answer = "yes"
    <3>1. conf.assumeyes = values.assumeyes
      BY <2>4, <2>5, NoneAssumption
    <3> QED BY <2>1, <3>1 DEF Agreed, ToConfirm
  <2> QED BY <2>1, <2>4, <2>6, <2>7, <2>8 DEF Agreed, Asked
<1> QED BY <1>1, ReadInvariant, PTL

\* The report and the directory are those of the last option that gives them, or
\* else of milkcheck.conf, or else the defaults, but the report that `summary'
\* would give; and the other entries of milkcheck.conf are what it says.
THEOREM OptionsPrevailHolds == Spec => []OptionsPrevail
<1>1. RInv => OptionsPrevail
  <2> SUFFICES ASSUME RInv, conf # None PROVE OptionsPrevail
    BY DEF OptionsPrevail
  <2> DEFINE options == line.options
             values == ParseArgs(options)
             N == Len(options)
             Else(e) == IF e \in DOMAIN file.data THEN file.data[e] ELSE DefaultFields[e]
  <2>1. Read
    BY DEF RInv, ConfInv
  <2>2. Legal(options) /\ ValuesAsAsked(options, N, values)
    BY <2>1, ReadLine
  <2>3. ~BadData(file.data) /\ conf = Config(file.data, values)
    BY <2>1 DEF Read
  <2> HIDE DEF values
  <2>4. /\ conf.report = IF values.report # None THEN values.report ELSE Else("report")
        /\ conf.config_dir = IF values.config_dir # None THEN values.config_dir
                             ELSE Else("config_dir")
        /\ \A e \in {"fanout", "reverse_actions", "confirm_actions"} : conf[e] = Else(e)
    BY <2>2, <2>3, ConfigFields DEF ValuesAsAsked
  <2>5. FieldsAsAsked(options, N, values)
    BY <2>2 DEF ValuesAsAsked
  <2>6. \A i \in DOMAIN options : options[i].flag \in {"-r", "-c"} => options[i].value # None
    BY <2>2 DEF Legal, OptionOK
  <2>7. conf.report = IF At(OptR) = {} THEN Else("report")
                      ELSE IF LastOf(OptR).flag = "-s" THEN "default" ELSE LastOf(OptR).value
    <3>1. CASE At(OptR) = {}
      BY <2>2, <2>4, <2>5, <3>1, LastIsLast DEF FieldsAsAsked
    <3>2. CASE At(OptR) # {}
      <4> DEFINE i == Max(At(OptR))
      <4>1. IsLast(options, OptR, N, i)
        BY <2>2, <3>2, LastIsLast
      <4> HIDE DEF i
      <4>2. values.report = IF options[i].flag = "-s" THEN "default" ELSE options[i].value
        BY <2>5, <4>1 DEF FieldsAsAsked
      <4>3. i \in DOMAIN options /\ (options[i].flag = "-s" \/ options[i].flag = "-r")
        BY <2>2, <4>1, OptFlags DEF IsLast, Uses, Legal
      <4>4. values.report # None
        BY <2>6, <4>2, <4>3, NoneAssumption
      <4> QED BY <2>4, <3>2, <4>2, <4>4 DEF i, LastOf
    <3> QED BY <3>1, <3>2
  <2>8. conf.config_dir = IF At(OptC) = {} THEN Else("config_dir") ELSE LastOf(OptC).value
    <3>1. CASE At(OptC) = {}
      BY <2>2, <2>4, <2>5, <3>1, LastIsLast DEF FieldsAsAsked
    <3>2. CASE At(OptC) # {}
      <4> DEFINE i == Max(At(OptC))
      <4>1. IsLast(options, OptC, N, i)
        BY <2>2, <3>2, LastIsLast
      <4> HIDE DEF i
      <4>2. values.config_dir = options[i].value
        BY <2>5, <4>1 DEF FieldsAsAsked
      <4>3. i \in DOMAIN options /\ options[i].flag = "-c"
        BY <2>2, <4>1, OptFlags DEF IsLast, Uses, Legal
      <4> QED BY <2>4, <2>6, <3>2, <4>2, <4>3 DEF i, LastOf
    <3> QED BY <3>1, <3>2
  <2> QED BY <2>4, <2>7, <2>8 DEF OptionsPrevail, OptR, OptC
<1> QED BY <1>1, ReadInvariant, PTL

\* The nodes that are left are those of the last -n without those of the last -x;
\* with one -x at most, they are all there is, in whatever order they come.
THEOREM NodesAsAskedHolds == Spec => []NodesAsAsked
<1>1. RInv => NodesAsAsked
  <2> SUFFICES ASSUME RInv, conf # None PROVE NodesAsAsked
    BY DEF NodesAsAsked
  <2> DEFINE options == line.options
             values == ParseArgs(options)
             N == Len(options)
  <2>1. Read
    BY DEF RInv, ConfInv
  <2>2. Legal(options) /\ ValuesAsAsked(options, N, values)
    BY <2>1, ReadLine
  <2>3. ~BadData(file.data) /\ conf = Config(file.data, values)
    BY <2>1 DEF Read
  <2> HIDE DEF values
  <2>4. \A e \in {"only_nodes", "excluded_nodes"} :
          /\ e \in DOMAIN conf <=> values[e] # None
          /\ values[e] # None => conf[e] = values[e]
    BY <2>2, <2>3, ConfigFields DEF ValuesAsAsked
  <2>5. SetsAsAsked(options, N, values)
    BY <2>2 DEF ValuesAsAsked
  <2>6. At(OptX) = Uses(options, OptX, N) /\ At(OptN) = Uses(options, OptN, N)
    BY <2>2, LastIsLast
  <2> DEFINE x == Max(At(OptX))
             n == Max(At(OptN))
  <2>7. At(OptX) # {} => IsLast(options, OptX, N, x)
    BY <2>2, LastIsLast
  <2>8. At(OptN) # {} => IsLast(options, OptN, N, n)
    BY <2>2, LastIsLast
  <2> HIDE DEF x, n
  <2>9. At(OptX) = {} => values.excluded_nodes = None
    BY <2>5, <2>6 DEF SetsAsAsked
  <2>10. At(OptX) # {} => /\ values.excluded_nodes = options[x].value
                          /\ values.excluded_nodes # None
    BY <2>5, <2>6, <2>7, NoneIsNoSet DEF SetsAsAsked
  <2>11. At(OptN) = {} => values.only_nodes = None
    BY <2>5, <2>6 DEF SetsAsAsked
  <2>12. At(OptN) # {} => /\ values.only_nodes # None
                          /\ values.only_nodes \subseteq options[n].value
    BY <2>5, <2>6, <2>8, NoneIsNoSet DEF SetsAsAsked
  <2>13. Kept = IF At(OptN) # {} THEN values.only_nodes
                ELSE Node \ (IF At(OptX) # {} THEN values.excluded_nodes ELSE {})
    BY <2>4, <2>9, <2>10, <2>11, <2>12 DEF Kept
  <2>14. At(OptX) # {} => Kept \cap options[x].value = {}
    BY <2>5, <2>6, <2>10, <2>13 DEF SetsAsAsked
  <2>15. At(OptN) # {} => Kept \subseteq options[n].value
    BY <2>12, <2>13
  <2>16. ASSUME \A i, j \in At(OptX) : i = j
         PROVE  Kept = (IF At(OptN) = {} THEN Node ELSE options[n].value)
                          \ UNION {options[i].value : i \in At(OptX)}
    <3>1. CASE At(OptN) # {}
      BY <2>5, <2>6, <2>8, <2>13, <2>16, <3>1 DEF SetsAsAsked
    <3>2. CASE At(OptN) = {} /\ At(OptX) = {}
      BY <2>13, <3>2
    <3>3. CASE At(OptN) = {} /\ At(OptX) # {}
      <4>1. At(OptX) = {x}
        BY <2>6, <2>7, <2>16, <3>3 DEF IsLast
      <4>2. UNION {options[i].value : i \in At(OptX)} = options[x].value
        BY <4>1
      <4> QED BY <2>10, <2>13, <3>3, <4>2
    <3> QED BY <3>1, <3>2, <3>3
  <2> QED BY <2>14, <2>15, <2>16 DEF NodesAsAsked, LastOf, OptX, OptN, x, n
<1> QED BY <1>1, ReadInvariant, PTL
===============================================================================
