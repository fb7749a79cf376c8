SPECIFICATION TimedSpec
CONSTANTS
  MaxLate = 3
  Dt = 3
  StepTime = 1
  Latency = 1
  TooLate = 1
  LongStep = 5
  MaxLong = 2
INVARIANTS
  ModelAlive
  CleanExit
  OneMoreCycle
  NoStepAfterError
  KeepsPace
  LateExplained
PROPERTIES
  EndsWhenAsked
  CatchesUp
