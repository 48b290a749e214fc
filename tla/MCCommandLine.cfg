SPECIFICATION FairSpec
CONSTANTS
  None = None
  Node = {"n1", "n2"}
  Malformed = Malformed
  Task <- LineTasks
  TaskFanout <- LineFanouts
  DefaultFanout = 64
  Starts <- CommandStarts
  MaxTries = 1
INVARIANTS
  RunsAsAsked RetcodeHonest NodesAsAsked OptionsPrevail
PROPERTIES
  Returns
