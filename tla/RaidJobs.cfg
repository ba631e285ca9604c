SPECIFICATION Spec
CONSTANTS
  Flaky <- AnyStep
  Events <- Event
  Budget = 8
CHECK_DEADLOCK FALSE
INVARIANTS
  TypeOK
  BootsWithHome
  FsTabIsTrue
  DoneIsComplete
PROPERTY HomeGoesQuietly
