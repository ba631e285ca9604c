SPECIFICATION FairSpec
CONSTANTS
  f1 = f1
  f2 = f2
  n1 = n1
  n2 = n2
  Folder = {f1, f2}
  Home = f1
  Name = {n1, n2}
  ReadOnly = {f2}
  Closed = {f1}
  Disks <- Two
  MaxRequests = 3
  MaxOps = 2
CHECK_DEADLOCK FALSE
INVARIANTS
  TypeOK
  PathsAgree
  ButtonsMatchSelection
  CoveredAwaits
  ListIsTrue
PROPERTIES
  OnlyChosen
  Uncovered
