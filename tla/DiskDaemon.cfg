SPECIFICATION FairSpec
CONSTANTS
  c1 = c1
  c2 = c2
  Client = {c1, c2}
  Nobody = Nobody
  NoJob = NoJob
  Job <- Jobs
  QuietJob <- Quiet
  Fault <- AllFaults
INVARIANTS
  TypeOK
  BusyIsWorking
  DoneIsTrue
  SuccessToldWhole
PROPERTIES
  NeverAbandonsJob
  OneAnswerEach
  ImplementsJobLock
  RequestsAnswered
  IdleDaemonExits
