SPECIFICATION TimedSpecPage
CONSTANTS
  c1 = c1
  Client = {c1}
  Nobody = Nobody
  NoJob = NoJob
  Job <- LvmJob
  QuietJob <- LvmJob
  Fault <- FailsQuietly
PROPERTIES
  ProgressCompletes
