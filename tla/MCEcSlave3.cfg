SPECIFICATION Spec
CONSTANTS
  Configs <- ConfigsAll
  ClockTick = 4
  Others <- OthersAll
  MaxOthers = 1
  InputTypes = {"double", "single", "boolean", "uint32", "uint8"}
INVARIANTS
  MapFaithful
  TerminalMapped
  BuffersTyped
  ConversionFaithful
  ParametersThere
  FilterStatesOwn
  SettingsFaithful
  TablesFaithful
