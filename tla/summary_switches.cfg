CONSTANTS
  pA = pA
  pB = pB
  Unset = Unset
  Projects = {pA, pB}
  MaxRequests = 4
  Faults = {"read", "mismatch"}
SPECIFICATION FairSpec
CHECK_DEADLOCK FALSE
INVARIANTS SnapshotOfActiveProject
PROPERTIES NewestWins RequestsAreServed SwitchIsShown
