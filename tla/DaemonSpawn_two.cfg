SPECIFICATION Spec
SYMMETRY DaemonSymmetry
CONSTANTS
  d1 = d1
  d2 = d2
  d3 = d3
  Daemon = {d1, d2, d3}
  c1 = c1
  c2 = c2
  Client = {c1, c2}
  None = None
INVARIANTS
  OneJobAtATime
