SPECIFICATION Spec
CONSTANTS
  Layouts <- LayoutsAll
  Bits = 160
INVARIANTS
  Placed
  InputsReceived
  OutputsSent
  PaddingKept
