------------------------------ MODULE CommandLine ------------------------------
(***************************************************************************)
(* CommandLine.execute (lib/MilkCheck/UI/Cli.py), and the thread that      *)
(* prints the actions in progress when the user presses Enter.  The main   *)
(* thread reads the options, asks for a confirmation, calls the manager,   *)
(* turns its status or an exception into an exit code, and quits the other *)
(* thread.  The call itself is Engine: here it adds tasks to the action    *)
(* manager and removes them, at any time, while the other thread may read. *)
(***************************************************************************)
EXTENDS Options, ActionManager, BaseEntity

CONSTANTS
  Starts,     \* the command lines, with the file and the terminal, see StartOK
  MaxTries    \* bound on the times a task is given to the manager

\* Of the exceptions of the first `except' of execute, one stands for all those of
\* the manager (ServiceNotFoundError, UndefinedVariableError...); those that no
\* clause names are Unexpected.
ManagerError == "ServiceNotFoundError"
Unexpected == "Exception"
Exceptions == {ManagerError, "ConfigError", "ScannerError", "UserError",
               "InvalidOptionError", "KeyboardInterrupt", Unexpected}

OptionOK(o) ==
  \/ o.value = Malformed
  \/ /\ o.flag \in Flags
     /\ o.flag \in {"-r", "-c"} => o.value # None
     /\ o.flag \in Nodesets => o.value \in SUBSET Node

StartOK(s) ==
  /\ s.line.options \in Seq(ToSet(s.line.options))
  /\ \A o \in ToSet(s.line.options) : OptionOK(o)
  /\ s.line.args \in Seq(STRING)              \* services, then the action
  /\ s.file.error \in {None, "ScannerError", Unexpected}   \* of yaml.load
  /\ s.interactive \in BOOLEAN

\* The status of MAIN, as far as retcode looks at it, and that of its services.
Outcomes == [status : {DONE, MISSING, ERROR, DEP_ERROR}, warnings : BOOLEAN]

ASSUME NoneAssumption ==
  /\ None \notin Exceptions /\ None \notin Outcomes
  /\ None \notin BOOLEAN /\ None # "default" /\ \A nodes \in SUBSET Node : None # nodes
ASSUME StartAssumption == \A s \in Starts : StartOK(s)
ASSUME MaxTriesAssumption == MaxTries \in Nat

VARIABLES
  line, file, interactive,  \* constant: the command line, the file, the terminal
  \* the main thread
  pc,         \* the next statement of execute
  conf,       \* the configuration, None until it is read
  answer,     \* of the user to the confirmation, None until it comes
  exception,  \* the exception that was caught, None if there is none
  retcode,
  \* the call
  manager,    \* ActionManager
  tries,      \* number of times each task was given to it
  outcome,    \* of the call, None until its end
  \* the interactive thread
  thread,     \* its next statement
  events,     \* what poll returned, not looked at yet
  runnable,
  walk,       \* its walk of the manager's dictionary
  \* what it polls
  stdin,      \* "quiet", a "line" to read, or "closed"
  run_ctl     \* the writing end of its pipe, "open" or "closed"

mainVars == <<pc, conf, answer, exception, retcode>>
callVars == <<manager, tries, outcome>>
threadVars == <<thread, events, runnable, walk>>
lineVars == <<line, file, interactive>>
vars == <<lineVars, mainVars, callVars, threadVars, stdin, run_ctl>>

RC_OK == 0
RC_WARNING == 3
RC_ERROR == 6
RC_EXCEPTION == 9
RC_UNKNOWN_EXCEPTION == 12
SIGINT == 2

Init ==
  /\ \E s \in Starts : line = s.line /\ file = s.file /\ interactive = s.interactive
  /\ pc = "parse" /\ conf = None /\ answer = None /\ exception = None
  /\ retcode = RC_OK
  /\ manager = NewManager /\ tries = [t \in Task |-> 0] /\ outcome = None
  /\ thread = "unborn" /\ events = <<>> /\ runnable = TRUE /\ walk = None
  /\ stdin = "quiet" /\ run_ctl = "open"
-------------------------------------------------------------------------------
(* The main thread: the body of `try' *)

\* The first statements have no effect out of these variables.
Alone == UNCHANGED <<lineVars, retcode, callVars, threadVars, stdin, run_ctl>>

Go(next) == pc' = next /\ UNCHANGED exception
Raise(exc) == pc' = "except" /\ exception' = exc

Parse ==
  /\ pc = "parse"
  /\ IF InvalidOptions(line.options) THEN Raise("InvalidOptionError") ELSE Go("config")
  /\ UNCHANGED <<conf, answer>> /\ Alone

Action == Last(line.args)

ToConfirm(c) == Action \in c.confirm_actions /\ ~c.assumeyes

\* Slip: an action given with -g is run too.
CaseActionFirst(c) ==
  IF line.args # <<>> THEN IF ToConfirm(c) THEN "confirm" ELSE "start"
  ELSE IF "graph" \in DOMAIN c THEN "graph"
  ELSE IF c.config_dir # "" THEN "check" ELSE "help"

\* Case 0 to case 3
Case(c) ==
  IF "graph" \in DOMAIN c THEN "graph"
  ELSE IF line.args # <<>> THEN IF ToConfirm(c) THEN "confirm" ELSE "start"
  ELSE IF c.config_dir # "" THEN "check" ELSE "help"

\* The fanout it gives to the action manager is the constant DefaultFanout.
Configure ==
  /\ pc = "config"
  /\ IF file.error # None THEN Raise(file.error) /\ UNCHANGED conf
     ELSE IF BadData(file.data) THEN Raise("ConfigError") /\ UNCHANGED conf
     ELSE /\ conf' = Config(file.data, ParseArgs(line.options))
          /\ Go(Case(conf'))
  /\ UNCHANGED answer /\ Alone

LoadConfig ==
  /\ \/ Go("quit")
     \/ \E exc \in {ManagerError, Unexpected} : Raise(exc)
  /\ UNCHANGED <<conf, answer>> /\ Alone

\* The files are loaded, and the graph of the services named is printed, or they
\* are only checked; or the help is printed.
OutputGraph == pc = "graph" /\ LoadConfig
CheckConfig == pc = "check" /\ LoadConfig

Help == pc = "help" /\ Go("quit") /\ UNCHANGED <<conf, answer>> /\ Alone

\* Terminal.confirm: yes, no, or the end of the file.
Confirm ==
  /\ pc = "confirm"
  /\ \/ answer' = "yes" /\ Go("start")
     \/ answer' = "no" /\ Raise("UserError")
     \/ answer' = "eof" /\ Raise(Unexpected)
  /\ UNCHANGED conf /\ Alone

Start ==
  /\ pc = "start" /\ Go("call")
  /\ thread' = IF interactive THEN "poll" ELSE thread
  /\ UNCHANGED <<lineVars, conf, answer, retcode, callVars, events, runnable, walk,
                 stdin, run_ctl>>

\* call_services: tasks come and go, until none is left or something is raised.
InCall ==
  /\ pc = "call"
  /\ UNCHANGED <<lineVars, conf, answer, retcode, threadVars, stdin, run_ctl>>

StartTask(t) ==
  /\ InCall /\ t \notin RunningTasks(manager) /\ tries[t] < MaxTries
  /\ manager' = AddTask(manager, t)
  /\ tries' = [tries EXCEPT ![t] = @ + 1]
  /\ UNCHANGED <<pc, exception, outcome>>

EndTask(t) ==
  /\ InCall /\ t \in RunningTasks(manager)
  /\ manager' = RemoveTask(manager, t)
  /\ UNCHANGED <<pc, exception, tries, outcome>>

EndCall ==
  /\ InCall /\ RunningTasks(manager) = {} /\ Go("retcode")
  /\ outcome' \in Outcomes
  /\ UNCHANGED <<manager, tries>>

CallRaises ==
  /\ InCall /\ \E exc \in {ManagerError, Unexpected} : Raise(exc)
  /\ UNCHANGED callVars

\* retcode()
Retcode ==
  IF outcome.status \in {DEP_ERROR, ERROR} THEN RC_ERROR
  ELSE IF outcome.warnings THEN RC_WARNING ELSE RC_OK

SetRetcode ==
  /\ pc = "retcode" /\ Go(IF conf.report # "no" THEN "report" ELSE "quit")
  /\ retcode' = Retcode
  /\ UNCHANGED <<lineVars, conf, answer, callVars, threadVars, stdin, run_ctl>>

\* The summary, which any error of the display may interrupt.
Report ==
  /\ pc = "report" /\ (Go("quit") \/ Raise(Unexpected))
  /\ UNCHANGED <<conf, answer>> /\ Alone
-------------------------------------------------------------------------------
(* The main thread: the `except' clauses, and after *)

\* Slip: an interrupted call keeps the exit code it had.
CodeUnlessInterrupted(exc) ==
  IF exc = "KeyboardInterrupt" THEN retcode
  ELSE IF exc = Unexpected THEN RC_UNKNOWN_EXCEPTION ELSE RC_EXCEPTION

Code(exc) ==
  IF exc = "KeyboardInterrupt" THEN 128 + SIGINT
  ELSE IF exc = Unexpected THEN RC_UNKNOWN_EXCEPTION ELSE RC_EXCEPTION

Except ==
  /\ pc = "except" /\ Go("quit")
  /\ retcode' = Code(exception)
  /\ UNCHANGED <<lineVars, conf, answer, callVars, threadVars, stdin, run_ctl>>

Quit ==
  /\ pc = "quit" /\ Go("join")
  /\ run_ctl' = "closed"
  /\ UNCHANGED <<lineVars, conf, answer, retcode, callVars, threadVars, stdin>>

Alive == thread \notin {"unborn", "dead"}

Join == pc = "join" /\ ~Alive /\ Go("returned") /\ UNCHANGED <<conf, answer>> /\ Alone

Main ==
  \/ Parse \/ Configure \/ OutputGraph \/ CheckConfig \/ Help \/ Confirm \/ Start
  \/ (\E t \in Task : StartTask(t) \/ EndTask(t)) \/ EndCall \/ CallRaises
  \/ SetRetcode \/ Report \/ Except \/ Quit \/ Join

\* Control-C: caught in `try', and let through after.
Over == {"returned", "escaped"}

Interrupt ==
  /\ pc \notin Over
  /\ IF pc \in {"except", "quit", "join"} THEN Go("escaped")
                                          ELSE Raise("KeyboardInterrupt")
  /\ UNCHANGED <<conf, answer>> /\ Alone
-------------------------------------------------------------------------------
(* The interactive thread *)

Watching == UNCHANGED <<lineVars, mainVars, callVars, run_ctl>>

OnStdin == IF stdin = "quiet" THEN <<>> ELSE <<stdin>>
OnPipe == IF run_ctl = "open" THEN <<>> ELSE <<"hangup">>

\* Slip: one event at a time, the first one that was registered.
PollFirst ==
  /\ thread = "poll" /\ OnStdin \o OnPipe # <<>>
  /\ thread' = "dispatch" /\ events' = <<Head(OnStdin \o OnPipe)>>
  /\ UNCHANGED <<runnable, walk, stdin>> /\ Watching

Poll ==
  /\ thread = "poll" /\ OnStdin \o OnPipe # <<>>
  /\ thread' = "dispatch" /\ events' = OnStdin \o OnPipe
  /\ UNCHANGED <<runnable, walk, stdin>> /\ Watching

\* One event: the pipe hangs up, Enter, or a terminal that is gone.
Dispatch ==
  /\ thread = "dispatch" /\ events # <<>>
  /\ events' = Tail(events)
  /\ IF Head(events) = "line" THEN thread' = "flush" /\ UNCHANGED runnable
                              ELSE runnable' = FALSE /\ UNCHANGED thread
  /\ UNCHANGED <<walk, stdin>> /\ Watching

EndEvents ==
  /\ thread = "dispatch" /\ events = <<>>
  /\ thread' = IF runnable THEN "poll" ELSE "dead"
  /\ UNCHANGED <<events, runnable, walk, stdin>> /\ Watching

\* readline, and the start of print_manager_status.
Flush ==
  /\ thread = "flush"
  /\ stdin' = IF stdin = "line" THEN "quiet" ELSE stdin
  /\ thread' = "walk"
  /\ LET size == Cardinality(DOMAIN manager.entities)
     IN  walk' = [size |-> size, left |-> size]
  /\ UNCHANGED <<events, runnable>> /\ Watching

\* One turn of the loop over the tasks of each fanout: the iterator raises
\* RuntimeError, which ends the thread, if the dictionary changed its size.
Walk ==
  /\ thread = "walk"
  /\ IF Cardinality(DOMAIN manager.entities) # walk.size
     THEN thread' = "dead" /\ UNCHANGED walk
     ELSE IF walk.left = 0 THEN thread' = "dispatch" /\ UNCHANGED walk
     ELSE walk' = [walk EXCEPT !.left = @ - 1] /\ UNCHANGED thread
  /\ UNCHANGED <<events, runnable, stdin>> /\ Watching

Thread == Poll \/ Dispatch \/ EndEvents \/ Flush \/ Walk

\* The user presses Enter, or the terminal goes away.
User ==
  /\ \/ stdin = "quiet" /\ stdin' = "line"
     \/ stdin # "closed" /\ stdin' = "closed"
  /\ UNCHANGED <<lineVars, mainVars, callVars, threadVars, run_ctl>>

Stop == pc \in Over /\ ~Alive /\ UNCHANGED vars

Next == Main \/ Interrupt \/ Thread \/ User \/ Stop

Spec == Init /\ [][Next]_vars

\* Both threads run, the call ends and a confirmation is answered; nobody has to
\* press Enter or Control-C.
FairSpec == Spec /\ WF_vars(Main) /\ WF_vars(Thread)
-------------------------------------------------------------------------------
(* Properties *)

\* execute ends, whatever the user types and whenever; and the thread that was
\* told to quit ends, even if Control-C interrupts the wait for it.  Nothing is
\* said of a thread that Control-C, before quit, left polling an open pipe.
Returns == <>(pc \in Over /\ (run_ctl = "closed" => ~Alive))

\* Tasks run, and the thread is there, only if the user asked for an action, not
\* for the graph, and confirmed what must be.
RunsAsAsked ==
  Alive \/ (\E t \in Task : tries[t] > 0) =>
    /\ line.args # <<>>
    /\ \A i \in DOMAIN line.options : line.options[i].flag # "-g"
    /\ \/ answer = "yes"
       \/ \E i \in DOMAIN line.options : line.options[i].flag = "-y"
       \/ "confirm_actions" \notin DOMAIN file.data
       \/ Action \notin file.data.confirm_actions

\* The exit code is the one of the services only if the call went to its end, its
\* report included; what interrupted it otherwise is never passed for a success.
RetcodeHonest ==
  pc = "returned" =>
    /\ exception = None =>
         retcode = IF outcome = None THEN RC_OK ELSE Retcode
    /\ exception # None => retcode \notin {RC_OK, RC_WARNING, RC_ERROR}
    /\ outcome = None /\ exception = None => \A t \in Task : tries[t] = 0
    /\ exception = "UserError" => answer = "no" /\ \A t \in Task : tries[t] = 0

\* Where the options are, and the last of them.
At(flags) == {i \in DOMAIN line.options : line.options[i].flag \in flags}
LastOf(flags) == line.options[Max(At(flags))]

\* The nodes left to a command that declares them all, by _apply_config.
Kept ==
  IF "only_nodes" \in DOMAIN conf THEN conf.only_nodes
  ELSE Node \ (IF "excluded_nodes" \in DOMAIN conf THEN conf.excluded_nodes ELSE {})

\* The last -x always applies, and so does the last -n; and with one -x they are
\* all there is, in whatever order they are written.
NodesAsAsked ==
  conf # None =>
    /\ At({"-x"}) # {} => Kept \cap LastOf({"-x"}).value = {}
    /\ At({"-n"}) # {} => Kept \subseteq LastOf({"-n"}).value
    /\ (\A i, j \in At({"-x"}) : i = j) =>
         Kept = (IF At({"-n"}) = {} THEN Node ELSE LastOf({"-n"}).value)
                  \ UNION {line.options[i].value : i \in At({"-x"})}

\* `summary: True' stands for `report: default' in the docs, and the code ignores it.
SummaryAsked ==
  /\ "summary" \in DOMAIN file.data /\ file.data.summary
  /\ "report" \notin DOMAIN file.data

\* The report and the directory are those of the last option that gives them, or
\* else those of milkcheck.conf, and no option changes its other entries.  What
\* the report is when neither an option nor an entry gives it, but `summary' does,
\* is left out: it is not what the docs say.
OptionsPrevail ==
  conf # None =>
    LET Else(entry) == IF entry \in DOMAIN file.data THEN file.data[entry]
                                                     ELSE DefaultFields[entry]
        report == LastOf({"-s", "-r"})
    IN  /\ IF At({"-s", "-r"}) = {} THEN conf.report = Else("report") \/ SummaryAsked
           ELSE conf.report = IF report.flag = "-s" THEN "default" ELSE report.value
        /\ conf.config_dir = IF At({"-c"}) = {} THEN Else("config_dir")
                             ELSE LastOf({"-c"}).value
        /\ \A entry \in {"fanout", "reverse_actions", "confirm_actions"} :
             conf[entry] = Else(entry)
===============================================================================
