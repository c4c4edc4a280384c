SPECIFICATION Spec
CONSTANTS
  a1 = a1
  a2 = a2
  s1 = s1
  p1 = p1
  w1 = w1
  w2 = w2
  NoOp = NoOp
  NoRequest = NoRequest
  Ops = {a1, a2}
  Requests = {a1, a2}
  Workers = {w1, w2}
  Projects <- MCProjects
  Proj <- MCProj
  Priority <- MCPriority
  CancelTargets = {a1}
  PollTargets = {}
  MaxHistory = 3
SYMMETRY MCSymmetry
INVARIANTS
  ExecutorInv
  OneOperationPerProject
  RemovedNeverRuns
  RecordsAgree
  NoLostWakeup
  NoStrandedItem
PROPERTY
  NoOvertaking
