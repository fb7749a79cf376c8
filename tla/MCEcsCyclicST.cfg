SPECIFICATION FairSpec
CONSTANTS
  MT = FALSE
  Threads = {0}
  NoThread = 99
  Program <- ProgramST
  Master <- Masters
  Domain <- Domains
  DomainNames = {"fast", "slow", "second"}
  Words = 2
  Values = 2
  Loss = FALSE
INVARIANTS
  RefclkCadence
  AnswersInTime
