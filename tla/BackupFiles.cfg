SPECIFICATION FairSpecFiles
CONSTANTS
  a1 = a1
  a2 = a2
  d = d
  s1 = s1
  s2 = s2
  w1 = w1
  w2 = w2
  Account = {a1, a2}
  Device = {d}
  Schedule = {s1, s2}
  Window = {w1, w2}
  OneSession = TRUE
  NoAsk = NoAsk
  MaxOps = 4
CHECK_DEADLOCK FALSE
INVARIANTS
  TypeOKFiles
PROPERTIES
  ImplementsTable
  ShownIsSettled
  ShowsTable
