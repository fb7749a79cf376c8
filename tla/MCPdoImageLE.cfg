SPECIFICATION Spec
CONSTANTS
  Layouts <- LayoutsOdd
  Bits = 160
INVARIANTS
  LittleEndianSent
