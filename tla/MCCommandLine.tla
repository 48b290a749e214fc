----------------------------- MODULE MCCommandLine -----------------------------
(* Command lines that ask for an action, for the graph, for the help or for   *)
(* nothing, every order of a few -n and -x, and files that contradict them;   *)
(* two tasks of different fanouts, so that the dictionary changes its size.   *)
EXTENDS CommandLine

LineTasks == {"t1", "t2"}
LineFanouts == [t1 |-> 1, t2 |-> 2]

Opt(flag, value) == [flag |-> flag, value |-> value]

\* What concerns the call and the other thread
RunOptions ==
  {<<>>, <<Opt("-y", None)>>, <<Opt("-g", None)>>, <<Opt("-s", None)>>,
   <<Opt("-n", Malformed)>>}
RunArgs == {<<>>, <<"stop">>, <<"a", "start">>}

\* What concerns the options
NodeOptions == {Opt(flag, nodes) : flag \in Nodesets, nodes \in SUBSET {"n1", "n2"}}
OtherOptions ==
  {<<Opt("-r", "full"), Opt("-s", None)>>, <<Opt("-s", None), Opt("-r", "no")>>,
   <<Opt("-c", "/etc"), Opt("-v", None), Opt("-c", "/tmp")>>,
   <<Opt("-t", {"a", "b"}), Opt("-d", None), Opt("-t", {"c"}), Opt("-q", None)>>,
   <<Opt("-X", "a"), Opt("-X", "b"), Opt("-D", "v"), Opt("--nodeps", None)>>,
   <<Opt("-r", Malformed)>>, <<Opt("--dry-run", None), Opt("-z", Malformed)>>}

ConfFile(data) == [error |-> None, data |-> data]

\* conf/milkcheck.conf, and the one of the man page
Shipped ==
  [config_dir |-> "/etc/milkcheck/conf", fanout |-> 64, report |-> "no",
   reverse_actions |-> {"stop"}, confirm_actions |-> {}]
Documented ==
  [config_dir |-> "/etc/milkcheck/conf", fanout |-> 64, reverse_actions |-> {"stop"},
   summary |-> FALSE]

MilkcheckConfs ==
  {ConfFile(<<>>), ConfFile([report |-> "full", config_dir |-> ""]),
   ConfFile([confirm_actions |-> {"stop"}, config_dir |-> "/opt"]),
   ConfFile(Shipped), ConfFile(Documented), ConfFile([Documented EXCEPT !.summary = TRUE]),
   ConfFile([fanout |-> 8, reverse_actions |-> {"stop", "kill"}]),
   ConfFile([Shipped EXCEPT !.fanout = Malformed]),
   ConfFile([report |-> Malformed]), ConfFile([colour |-> "red"]),
   [error |-> "ScannerError", data |-> <<>>], [error |-> Unexpected, data |-> <<>>]}

RunConfs == {ConfFile([Shipped EXCEPT !.report = "full"]), ConfFile([confirm_actions |-> {"stop"}])}

CommandStarts ==
  {[line |-> [options |-> o, args |-> a], file |-> f, interactive |-> i] :
     o \in RunOptions, a \in RunArgs, f \in RunConfs, i \in BOOLEAN}
  \cup {[line |-> [options |-> o, args |-> <<>>], file |-> f, interactive |-> FALSE] :
          o \in OtherOptions \cup RunOptions, f \in MilkcheckConfs}
  \cup {[line |-> [options |-> o, args |-> <<>>], file |-> ConfFile(<<>>),
         interactive |-> FALSE] : o \in UNION {[1..n -> NodeOptions] : n \in 1..3}}
===============================================================================
