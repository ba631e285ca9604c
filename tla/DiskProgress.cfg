SPECIFICATION FairSpecPage
CONSTANTS
  c1 = c1
  c2 = c2
  Client = {c1, c2}
  Nobody = Nobody
  NoJob = NoJob
  Job <- RaidJob
  QuietJob = {}
  Fault <- Loud
INVARIANTS
  AwaitsAnswer
  DialogHasJob
PROPERTIES
  LoadsEnd
  ProgressCompletes
