SPECIFICATION Spec
CONSTANTS
  MaxLate = 3
INVARIANTS
  ErrorReported
