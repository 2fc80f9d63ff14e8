CONSTANTS
    c1 = c1
    c2 = c2
    Conns = {c1}
    Plain <- AllRequests
    Aimed = {"SendKeys", "KillPane"}
    MaxPanes = 3
    MaxRequests = 4
    MaxQueue = 1
    RemainOnExit = FALSE
SPECIFICATION Spec
CHECK_DEADLOCK FALSE
INVARIANTS
    PaneInOnePlace NoOrphanShell FocusIsAPane TargetedCommandsHit
PROPERTIES OnlyTheNamedAreKilled
