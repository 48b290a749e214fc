SPECIFICATION Spec
CONSTANTS
  Task = {"a", "b", "c", "d", "e"}
  TaskFanout <- Fanouts
  DefaultFanout = 2
  MaxDone = 6
INVARIANTS
  TypeOK CountIsExact FanoutInForce
PROPERTIES
  FanoutRisesOnRemoval
