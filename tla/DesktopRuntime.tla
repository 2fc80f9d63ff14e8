----------------------------- MODULE DesktopRuntime ----------------------------
(* The desktop application around its shutdown                             *)
(* (winsmux-app/src-tauri/src/lib.rs): the panes and the microphone of one *)
(* application, Desk, the control pipe that it shares a name with other    *)
(* applications for, and request_desktop_runtime_shutdown, which ends      *)
(* them one after the other while commands may still run.                  *)
EXTENDS PtyPanes, VoiceCapture, ControlPipe

CONSTANTS
    Desk,   \* the application whose panes and microphone are modelled
    Uses    \* bound: the parts that a behaviour uses, one of them each

ASSUME RuntimeAssumption == Desk \in Apps /\ Uses \subseteq {"panes", "microphone", "pipe"}

VARIABLES
    shutdown,   \* "none", "microphone", "await", "panes", "drain" or "over"
    abandoned,  \* the generation request_voice_capture_shutdown waits for
    to_stop,    \* the shells drain_all_ptys has taken out
    use         \* what the commands of this behaviour are about

shutdownVars == <<shutdown, abandoned, to_stop>>
vars == <<paneVars, micVars, pipeVars, shutdownVars, use>>

(* With the pipe in use every application is still to be launched; panes   *)
(* and the microphone are used in one that runs, without the pipe.         *)
PipeInit ==
    LET runs(a) == use # "pipe" /\ a = Desk IN
    /\ life = [a \in Apps |-> IF runs(a) THEN "running" ELSE "off"]
    /\ server = [a \in Apps |-> IF runs(a) THEN "disabled" ELSE "off"]
    /\ pipe = None /\ token_file = None
    /\ owned = [a \in Apps |-> FALSE] /\ previous = [a \in Apps |-> None]
    /\ grace = [a \in Apps |-> FALSE] /\ bootstrapped = [a \in Apps |-> FALSE]
    /\ asked = [a \in Apps |-> None] /\ holds = [c \in Clients |-> None]
    /\ rotations = {} /\ superseded = {} /\ accepted = None /\ rivalled = FALSE

Init ==
    /\ use \in Uses
    /\ PaneInit /\ MicInit /\ PipeInit
    /\ shutdown = "none" /\ abandoned = 0 /\ to_stop = {}

-----------------------------------------------------------------------------
(* Commands, threads and other applications. *)

(* Commands and threads run until the process is gone.                     *)
UsesPanes ==
    /\ use = "panes" /\ Alive(Desk)
    /\ \/ \E c \in Callers, op \in Ops, p \in Panes : Ask(c, op, p)
       \/ \E c \in Callers : PaneCommand(c)
       \/ \E g \in Followed : PaneThreads(g)
    /\ UNCHANGED <<micVars, pipeVars, shutdownVars, use>>

UsesMicrophone ==
    /\ use = "microphone" /\ Alive(Desk)
    /\ \/ \E c \in MicCallers : AskStart(c) \/ AskStop(c) \/ Command(c)
       \/ \E v \in Captures : Worker(v)
    /\ UNCHANGED <<paneVars, pipeVars, shutdownVars, use>>

UsesPipe ==
    /\ use = "pipe"
    /\ \/ \E a \in Apps : Launch(a) \/ PipeServer(a) \/ GraceEnds(a)
       \/ \E c \in Clients : ReadToken(c)
    /\ UNCHANGED <<paneVars, micVars, shutdownVars, use>>

-----------------------------------------------------------------------------
(* request_desktop_runtime_shutdown. *)

(* It runs once, on the first ExitRequested or Exit.                       *)
RequestShutdown(a) ==
    /\ Shutdown(a)
    /\ shutdown' = IF a = Desk THEN "microphone" ELSE shutdown
    /\ UNCHANGED <<paneVars, micVars, abandoned, to_stop, use>>

(* request_voice_capture_shutdown takes the session but, unlike a command, *)
(* waits without its mutex.                                                *)
StopCapture ==
    /\ shutdown = "microphone" /\ Alive(Desk)
    /\ session_lock = NoCaller
    /\ session' = 0
    /\ abandoned' = session
    /\ IF session = 0
       THEN shutdown' = "panes" /\ UNCHANGED stop_requested
       ELSE shutdown' = "await" /\ stop_requested' = stop_requested \union {session}
    /\ UNCHANGED <<paneVars, next_capture, session_lock, snapshot, device, worker,
                   cleanup_complete, mic, pipeVars, to_stop, use>>

CaptureStopped ==
    /\ shutdown = "await" /\ Alive(Desk)
    /\ abandoned \in cleanup_complete
    /\ Report(abandoned, "stopped")
    /\ shutdown' = "panes"
    /\ UNCHANGED <<paneVars, next_capture, session, session_lock, device, worker,
                   stop_requested, cleanup_complete, mic, pipeVars, abandoned, to_stop, use>>

(* After the timeout the old session is put back, over a newer one.        *)
CaptureAbandoned ==
    /\ shutdown = "await" /\ Alive(Desk)
    /\ abandoned \notin cleanup_complete
    /\ session_lock = NoCaller
    /\ session' = abandoned
    /\ shutdown' = "panes"
    /\ UNCHANGED <<paneVars, next_capture, session_lock, snapshot, device, worker,
                   stop_requested, cleanup_complete, mic, pipeVars, abandoned, to_stop, use>>

(* drain_all_ptys: every entry at once, then one shell after the other.    *)
DrainPanes ==
    /\ shutdown = "panes" /\ Alive(Desk)
    /\ to_stop' = {panes[p] : p \in Panes} \ {0}
    /\ panes' = [p \in Panes |-> 0]
    /\ shutdown' = "drain"
    /\ UNCHANGED <<next_generation, shell, alive, call, readers, flushers, queue, micVars,
                   pipeVars, abandoned, use>>

DrainOne(g) ==
    /\ shutdown = "drain" /\ Alive(Desk)
    /\ g \in to_stop
    /\ Stopped(g)
    /\ to_stop' = to_stop \ {g}
    /\ UNCHANGED <<panes, next_generation, call, readers, flushers, queue, micVars, pipeVars,
                   shutdown, abandoned, use>>

Drained ==
    /\ shutdown = "drain" /\ Alive(Desk)
    /\ to_stop = {}
    /\ shutdown' = "over"
    /\ UNCHANGED <<paneVars, micVars, pipeVars, abandoned, to_stop, use>>

(* The sessions on other machines come before the token, see               *)
(* RemoteSessionManager.                                                   *)
RevokeToken(a) ==
    /\ a = Desk => shutdown = "over"
    /\ Revoke(a)
    /\ UNCHANGED <<paneVars, micVars, shutdownVars, use>>

(* The process exits, or is lost.  With it goes everything it had in       *)
(* memory: for panes and a microphone nothing is left to follow.           *)
ProcessEnds(a) ==
    /\ use = "pipe"
    /\ Dies(a)
    /\ UNCHANGED <<paneVars, micVars, shutdownVars, use>>

Next ==
    \/ UsesPanes \/ UsesMicrophone \/ UsesPipe
    \/ \E a \in Apps : RequestShutdown(a) \/ RevokeToken(a) \/ ProcessEnds(a)
    \/ StopCapture \/ CaptureStopped \/ CaptureAbandoned
    \/ DrainPanes \/ \E g \in Gens : DrainOne(g)
    \/ Drained

Spec == Init /\ [][Next]_vars

-----------------------------------------------------------------------------
(* Properties. *)

(* No shell is forgotten, in the shutdown neither.  One whose handles could *)
(* not be taken (create_single_pty) is assumed to end when its              *)
(* pseudoterminal closes: see MakeFails.                                    *)
NoShellIsForgotten == ShellsAreAccountedFor(to_stop)

(* Until the application shuts down there is one microphone.               *)
MicrophoneIsAccountedFor == shutdown = "none" => OneMicrophone

=============================================================================
