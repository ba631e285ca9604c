SPECIFICATION Spec
CONSTANTS
  Flaky <- AnyStep
  Events <- NotKill
  Budget = 6
CHECK_DEADLOCK FALSE
PROPERTY RecoveryHasArray
