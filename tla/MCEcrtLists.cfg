SPECIFICATION Spec
CONSTANTS
  MasterIds = {0}
  DomainIds = {0, 1}
  Tids = {0, 1}
  NoTid = 9
  Positions = {0}
  Modes = {"io", "out"}
  MaxPdo = 2
  MaxBlocks = 3
  MaxReq = 0
INVARIANTS
  ConvertListsBounded
  PdosConverted
  SameDirectionSameDomain
