SPECIFICATION Spec
CONSTANTS
  Svc <- GroupSvc
  Group <- GroupGroup
  MAIN = "MAIN"
  Sub <- GroupSub
  Inner <- GroupInner
  Source <- GroupSource
  Sink <- GroupSink
  Name = {"start", "status"}
  STATUS = "status"
  Node = {"n1", "localhost"}
  LOCALHOST = "localhost"
  None = None
  Configs <- GroupConfigs
  Task <- GroupAction
  TaskFanout <- GroupFanout
  DefaultFanout = 2
INVARIANTS
  OrderRespected NothingLeftWaiting DepErrorJustified FailuresHaveCommand
PROPERTIES
  Implements
