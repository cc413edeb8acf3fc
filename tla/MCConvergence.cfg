SPECIFICATION Spec
CONSTANTS
  Top = 1
  MaxReadings = 3
INVARIANTS OrderIrrelevant ReasonDecides
CHECK_DEADLOCK FALSE
