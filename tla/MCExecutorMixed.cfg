SPECIFICATION FairSpec
CONSTANTS
  a1 = a1
  a2 = a2
  s1 = s1
  p1 = p1
  w1 = w1
  w2 = w2
  NoOp = NoOp
  NoRequest = NoRequest
  Ops = {a1, s1}
  Requests = {a1}
  Workers = {w1}
  Projects <- MCProjects
  Proj <- MCProj
  Priority <- MCPriority
  CancelTargets = {a1}
  PollTargets = {a1}
  MaxHistory = 4
INVARIANTS
  PollFindsResult
PROPERTIES
  ImplementsLifecycle
  SubmittedIsRecorded
  LockIsReleased
