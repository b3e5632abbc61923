CONSTANTS
  Query = {q1, q2, q3}
  Conn = {d1, d2}
  None = None
  MaxDiscoveries = 0
  Client = {c1, c2}
  MaxRunning = 2
  MaxWaiting = 1

SPECIFICATION ServiceSpec

SYMMETRY Symmetry

INVARIANT OneClientLeavesAConnection
