SPECIFICATION Spec
CONSTANTS
  Svc <- FindSvc
  Group = {"MAIN"}
  MAIN = "MAIN"
  Sub <- FindSub
  Inner <- FindSub
  Source <- FindSource
  Sink <- FindSink
  Name = {"start", "status"}
  STATUS = "status"
  Node = {"n1", "n2", "localhost"}
  LOCALHOST = "localhost"
  None = None
  Configs <- StuckConfigs
  Task <- FindAction
  TaskFanout <- FindFanout
  DefaultFanout = 2
INVARIANTS
  WaitingMeansBusy
