CONSTANTS
  c1 = c1
  c2 = c2
  s1 = s1
  Callers = {c1}
  Sessions = {s1}
  MaxCalls = 2
  NoSession = NoSession
  Nobody = Nobody
  Main = Main
  Happens = {"shutdown", "refuse", "timeout"}
SPECIFICATION FairSpec
CHECK_DEADLOCK FALSE
INVARIANTS ShutdownStopsAgents NoCompanionIsLeft NoRowAfterShutdown
PROPERTIES CallsReturn
