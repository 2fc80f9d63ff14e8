CONSTANTS
  c1 = c1
  c2 = c2
  s1 = s1
  Callers = {c1, c2}
  Sessions = {s1}
  MaxCalls = 2
  NoSession = NoSession
  Nobody = Nobody
  Main = Main
  Happens = {"cut", "refuse", "exit"}
SPECIFICATION Spec
CHECK_DEADLOCK FALSE
SYMMETRY Symmetric
INVARIANTS RowsFollowTransports ConfirmedAgentsHaveARow AttachedMeansLease
