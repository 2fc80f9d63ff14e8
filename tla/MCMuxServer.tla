---------------------------- MODULE MCMuxServer ----------------------------
(* MuxServer for TLC: the requests each run sends.                         *)
EXTENDS MuxServer

CONSTANTS c1, c2

\* every request, sent as it is, and the ones that are sent with a target
AllRequests ==
    {"NewWindow", "SplitWindow", "KillPane", "KillPaneById", "KillWindow", "UnlinkWindow",
     "RespawnPane", "KillSession", "FocusWindow", "NextWindow", "LastWindow", "FocusPane",
     "FocusPaneByIndex", "SelectPaneLast", "SelectPaneNext", "SelectPaneDirection",
     "SwapPane", "MouseDown", "DisplayPaneSelect", "LastPane", "RotateWindow", "BreakPane",
     "JoinPane", "MoveWindow", "SwapWindow", "LinkWindow", "SelectLayout", "SendKeys",
     "DumpState"}

=============================================================================
