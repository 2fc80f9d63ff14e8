CONSTANTS
  c1 = c1
  c2 = c2
  p1 = p1
  p2 = p2
  a1 = a1
  a2 = a2
  k1 = k1
  k2 = k2
  None = None
  NoCaller = NoCaller
  Callers = {c1, c2}
  MicCallers = {c1, c2}
  Panes = {p1}
  MaxShells = 3
  Followed = {2}
  MaxOutput = 2
  QueueCapacity = 1
  MaxCaptures = 3
  Apps = {a1, a2}
  Clients = {k1, k2}
  Desk = a1
  Uses = {"pipe"}
SPECIFICATION Spec
CHECK_DEADLOCK FALSE
PROPERTIES UnlinksOwnToken
