SPECIFICATION FairSpec
CONSTANTS
  MT = TRUE
  Threads = {0, 1}
  NoThread = 99
  Program <- ProgramMT
  Master <- MasterShared
  Domain <- DomainsShared
  DomainNames = {"fast", "slow", "late"}
  Words = 2
  Values = 2
  Loss = TRUE
INVARIANTS
  MutualExclusion
PROPERTIES
  QueuedIsSent
  CyclesForever
  CallsAtomic
