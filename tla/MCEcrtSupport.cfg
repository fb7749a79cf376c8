SPECIFICATION Spec
CONSTANTS
  MasterIds = {0, 1}
  DomainIds = {0}
  Tids = {0, 1}
  NoTid = 9
  Positions = {0}
  Modes = {"io", "in", "out", "inout"}
  MaxPdo = 1
  MaxBlocks = 3
  MaxReq = 1
INVARIANTS
  TypeOK
  FastestTask
  HandlesValid
  UniformKeysMonitored
  NullHandleOnlySecond
  SdoRequestsBound
