SPECIFICATION Spec
CONSTANTS
  p1 = p1
  p2 = p2
  web = web
  db = db
  net = net
  vol = vol
  Absent = Absent
  Unmanaged = Unmanaged
  Projects = {p1}
  Services = {web, db}
  NetNames = {net}
  VolNames = {vol}
  Svcs <- MCSvcs
  Deps <- MCDeps
  NoImage <- MCNoImage
  Nets <- MCNets
  Vols <- MCVols
  ServiceNets <- MCServiceNets
  DefaultNet <- MCDefaultNet
  Mounts <- MCMounts
  Scopes <- MCAllServices
  Interrupts = {}
  MaxOps <- MCOneOp
  MaxFaults = 1
  MaxCrashes = 0
PROPERTIES
  ReusedVolumeSurvives
