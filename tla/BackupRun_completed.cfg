SPECIFICATION Spec
CONSTANTS
  a1 = a1
  a2 = a2
  d = d
  s1 = s1
  s2 = s2
  w1 = w1
  p1 = p1
  p2 = p2
  Account = {a1, a2}
  Device = {d}
  Schedule = {s1, s2}
  Window = {w1}
  OneSession = TRUE
  NoAsk = NoAsk
  MaxOps = 1
  MaxJobs = 2
  Process = {p1, p2}
SYMMETRY Symmetry
CHECK_DEADLOCK FALSE
INVARIANTS
  CompletedMeansCopied
