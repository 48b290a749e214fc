SPECIFICATION Spec
CONSTANTS
  Svc <- ActSvc
  Group = {"MAIN"}
  MAIN = "MAIN"
  Sub <- ActSub
  Inner <- ActSub
  Source <- ActSource
  Sink <- ActSink
  Name <- ActNames
  STATUS = "status"
  Node = {"n1", "n2", "localhost"}
  LOCALHOST = "localhost"
  None = None
  Configs <- ActConfigs
  Task <- ActAction
  TaskFanout <- ActFanout
  DefaultFanout = 2
INVARIANTS
  OneFlight ManagerInStep RetriesExhausted NoFailedNodeTargeted CompletedOnce NothingLeftWaiting
PROPERTIES
  Implements FinalStatusStable
