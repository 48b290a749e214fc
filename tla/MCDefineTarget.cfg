SPECIFICATION Spec
CONSTANTS
  Svc <- CallSvc
  Group <- CallGroup
  MAIN = "MAIN"
  Sub <- CallSub
  Inner <- CallInner
  Source <- CallSource
  Sink <- CallSink
  Label <- CallLabel
  None = None
  Node = {"n1", "n2", "n3"}
  VAR = VAR
  Files <- DefineFiles
  Calls <- DefineCalls
  MaxCalls = 1
INVARIANTS
  DefineReachesTargets
