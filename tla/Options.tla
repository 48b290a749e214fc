-------------------------------- MODULE Options --------------------------------
(***************************************************************************)
(* From the command line to the configuration of a call: McOptionParser    *)
(* (lib/MilkCheck/UI/OptionParser.py) reads the options one after the      *)
(* other, and ConfigParser (lib/MilkCheck/config.py) lays them over the    *)
(* file milkcheck.conf, itself laid over the defaults.                     *)
(***************************************************************************)
EXTENDS Integers, SequencesExt

CONSTANTS
  None,       \* Python's None
  Node,       \* nodes
  Malformed   \* a value that the check of its option, or of its entry, refuses

\* An option as it is written: its flag, and its value if it takes one.
Nodesets == {"-n", "-x"}

\* configure_mop: what each option is when it is not given.
Unset ==
  [verbosity |-> 1, graph |-> None, report |-> None, config_dir |-> None,
   assumeyes |-> FALSE, only_nodes |-> None, excluded_nodes |-> None,
   excluded_svc |-> None, dryrun |-> FALSE, defines |-> None, nodeps |-> FALSE,
   tags |-> {}]

Given(nodes) == nodes # None /\ nodes # {}

\* Slip: the nodes excluded after -n stay selected.
CheckServiceModeOnce(values, flag, nodes) ==
  IF flag = "-x" THEN [values EXCEPT !.excluded_nodes = nodes]
  ELSE [values EXCEPT !.only_nodes =
          IF Given(values.excluded_nodes) THEN nodes \ values.excluded_nodes ELSE nodes]

\* __check_service_mode: -x takes its nodes out of -n, before it or after it.
CheckServiceMode(values, flag, nodes) ==
  IF flag = "-x"
  THEN [values EXCEPT !.excluded_nodes = nodes,
                      !.only_nodes = IF Given(@) THEN @ \ nodes ELSE @]
  ELSE [values EXCEPT !.only_nodes =
          IF Given(values.excluded_nodes) THEN nodes \ values.excluded_nodes ELSE nodes]

Flags == Nodesets \cup {"-d", "-q", "-v", "-s", "-r", "-g", "-y", "-c", "-t", "-X", "-D",
                        "--dry-run", "--nodeps"}

\* action='append'
AppendTo(list, x) == IF list = None THEN <<x>> ELSE Append(list, x)

\* One option, on the values of those before it.
Take(values, option) ==
  LET flag == option.flag
  IN  CASE flag \in Nodesets -> CheckServiceMode(values, flag, option.value)
        [] flag = "-d" -> [values EXCEPT !.verbosity = 5]
        [] flag = "-q" -> [values EXCEPT !.verbosity = 0]
        [] flag = "-v" -> [values EXCEPT !.verbosity = @ + 1]
        [] flag = "-g" -> [values EXCEPT !.graph = TRUE]
        [] flag = "-y" -> [values EXCEPT !.assumeyes = TRUE]
        [] flag = "--dry-run" -> [values EXCEPT !.dryrun = TRUE]
        [] flag = "--nodeps" -> [values EXCEPT !.nodeps = TRUE]
        [] flag = "-s" -> [values EXCEPT !.report = "default"]
        [] flag = "-r" -> [values EXCEPT !.report = option.value]
        [] flag = "-c" -> [values EXCEPT !.config_dir = option.value]
        [] flag = "-t" -> [values EXCEPT !.tags = @ \cup option.value]
        [] flag = "-X" -> [values EXCEPT !.excluded_svc = AppendTo(@, option.value)]
        [] flag = "-D" -> [values EXCEPT !.defines = AppendTo(@, option.value)]

\* InvalidOptionError: a wrong nodeset, directory or report, an unknown option.
InvalidOptions(options) == \E o \in ToSet(options) : o.value = Malformed

\* The values after each number of options.
Parsing(options) ==
  LET values[n \in 0..Len(options)] ==
        IF n = 0 THEN Unset ELSE Take(values[n - 1], options[n])
  IN  values

ParseArgs(options) == Parsing(options)[Len(options)]
-------------------------------------------------------------------------------
DefaultFields ==
  [config_dir |-> "/etc/milkcheck/conf", fanout |-> 64, reverse_actions |-> {"stop"},
   summary |-> FALSE, report |-> "no", confirm_actions |-> {}]

\* _check_data: an entry that does not exist, of another type, or not allowed.
BadData(data) ==
  \E e \in DOMAIN data : e \notin DOMAIN DefaultFields \/ data[e] = Malformed

\* f, and g where f says nothing.
LaidOver(f, g) == [e \in DOMAIN f \cup DOMAIN g |-> IF e \in DOMAIN f THEN f[e] ELSE g[e]]

\* An option that was not given overrides nothing.
GivenOnly(values) == [o \in {p \in DOMAIN values : values[p] # None} |-> values[o]]

\* Slip: milkcheck.conf is read over the options.
ConfigFileLast(data, values) == LaidOver(data, LaidOver(GivenOnly(values), DefaultFields))

\* ConfigParser(options)
Config(data, values) == LaidOver(GivenOnly(values), LaidOver(data, DefaultFields))
===============================================================================
