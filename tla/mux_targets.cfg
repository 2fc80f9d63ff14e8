CONSTANTS
    c1 = c1
    c2 = c2
    Conns = {c1, c2}
    Plain = {"NewWindow", "DumpState"}
    Aimed = {"SendKeys"}
    MaxPanes = 2
    MaxRequests = 3
    MaxQueue = 2
    RemainOnExit = FALSE
SPECIFICATION Spec
CHECK_DEADLOCK FALSE
INVARIANT TargetedCommandsHit
