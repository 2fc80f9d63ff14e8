CONSTANTS
  pA = pA
  pB = pB
  Unset = Unset
  Projects = {pA, pB}
  MaxRequests = 2
  Faults = {}
SPECIFICATION Spec
CHECK_DEADLOCK FALSE
INVARIANTS RendersActiveProject
