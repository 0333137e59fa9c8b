SPECIFICATION Spec
CONSTANTS
  MaxAttempts = 3
  MaxCalls = 5
INVARIANTS
  AttemptIsTimed
  HeldWhileOpen
CHECK_DEADLOCK FALSE
