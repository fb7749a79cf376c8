SPECIFICATION Spec
CONSTANTS
  Wrap = 4
  Confirm = 2
  Elements = {0, 1, 2}
  MaxWidth = 4
  Levels = {0, 1, 2, 3, 4}
  Width = 2
INVARIANTS
  EventsShown
  ForceFollows
  FindsExtreme
PROPERTIES
  MessageConfirmed
  ResetOnRelease
