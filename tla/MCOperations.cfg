SPECIFICATION Spec
CONSTANTS
  p1 = p1
  p2 = p2
  web = web
  db = db
  net = net
  vol = vol
  Absent = Absent
  Unmanaged = Unmanaged
  Projects = {p1, p2}
  Services = {web, db}
  NetNames = {net}
  VolNames = {vol}
  Svcs <- MCSvcs
  Deps <- MCDeps
  NoImage <- MCNoImage
  Nets <- MCNets
  Vols <- MCVols
  ServiceNets <- MCServiceNets
  DefaultNet <- MCDefaultNet
  Mounts <- MCMounts
  Scopes <- MCScopes
  Interrupts = {p1}
  MaxOps <- MCOps
  MaxFaults = 1
  MaxCrashes = 1
INVARIANTS
  UpIsAllOrNothing
  UpKeepsOldContainers
  OperationsInv
PROPERTIES
  OthersUntouched
