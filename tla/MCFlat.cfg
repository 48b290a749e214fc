SPECIFICATION FairSpec
CONSTANTS
  Svc <- FlatSvc
  Group = {"MAIN"}
  MAIN = "MAIN"
  Sub <- FlatSub
  Inner <- FlatSub
  Source <- FlatSource
  Sink <- FlatSink
  Name = {"start", "status"}
  STATUS = "status"
  Node = {"n1", "localhost"}
  LOCALHOST = "localhost"
  None = None
  Configs <- FlatConfigs
  Task <- FlatAction
  TaskFanout <- FlatFanout
  DefaultFanout = 2
INVARIANTS
  TypeOK OrderRespected NothingLeftWaiting DepErrorJustified ExitCodeJustified
PROPERTIES
  Implements Terminates
