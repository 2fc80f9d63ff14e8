------------------------------ MODULE VoiceCapture -----------------------------
(* Native microphone capture of the desktop application                    *)
(* (winsmux-app/src-tauri/src/lib.rs).  A session in a mutex names the     *)
(* worker thread that has the device; starting and stopping tell the old   *)
(* worker to stop and wait for it, holding the mutex, for a bounded time.  *)
(* Workers report to one snapshot, each only while it is about them.       *)
EXTENDS Naturals

CONSTANTS
    MicCallers,    \* threads that run the two commands
    MaxCaptures,   \* bound: desktop_voice_capture_start calls
    NoCaller

ASSUME CapturesAssumption == MaxCaptures \in Nat /\ NoCaller \notin MicCallers

VARIABLES
    next_capture,      \* next_generation of VoiceCaptureManager
    session,           \* generation of the session, 0 for none
    session_lock,      \* the caller that waits with the session's mutex, or NoCaller
    snapshot,          \* VoiceCaptureRuntimeSnapshot: [generation, state], the state "none",
                       \* "restarting", "recording", "denied", "unavailable" or "stopped"
    device,            \* generation -> "none", "open" or "closed"
    worker,            \* generation -> where its thread is
    stop_requested,    \* generations told to stop
    cleanup_complete,  \* generations that closed their device, or never opened it
    mic                \* caller -> [op, at, mine, existing]

micVars == <<next_capture, session, session_lock, snapshot, device, worker, stop_requested,
             cleanup_complete, mic>>

Captures == 1 .. MaxCaptures

IdleMic == [op |-> "none", at |-> "idle", mine |-> 0, existing |-> 0]

MicInit ==
    /\ next_capture = 1 /\ session = 0 /\ session_lock = NoCaller
    /\ snapshot = [generation |-> 0, state |-> "none"]
    /\ device = [v \in Captures |-> "none"] /\ worker = [v \in Captures |-> "none"]
    /\ stop_requested = {} /\ cleanup_complete = {}
    /\ mic = [c \in MicCallers |-> IdleMic]

(* update_voice_capture_snapshot.                                          *)
Report(v, state) ==
    snapshot' = IF snapshot.generation = v THEN [snapshot EXCEPT !.state = state] ELSE snapshot

Running == snapshot.state \in {"restarting", "recording"}

MicTo(c, step) == mic' = [mic EXCEPT ![c].at = step]

WorkerTo(v, step) == worker' = [worker EXCEPT ![v] = step]

-----------------------------------------------------------------------------
(* Mutations: mistakes this code could make, each in place of the          *)
(* definition whose name it extends.  Nothing else refers to them.         *)

CloseDevice_Forgotten(v) ==
    /\ worker[v] = "closing"
    /\ WorkerTo(v, "closed")
    /\ UNCHANGED <<next_capture, session, session_lock, snapshot, device, stop_requested,
                   cleanup_complete, mic>>

-----------------------------------------------------------------------------
(* desktop_voice_capture_start and desktop_voice_capture_stop. *)

AskStart(c) ==
    /\ mic[c].at = "idle"
    /\ next_capture <= MaxCaptures
    /\ mic' = [mic EXCEPT ![c] = [op |-> "start", at |-> "lock", mine |-> next_capture,
                                  existing |-> 0]]
    /\ next_capture' = next_capture + 1
    /\ UNCHANGED <<session, session_lock, snapshot, device, worker, stop_requested,
                   cleanup_complete>>

AskStop(c) ==
    /\ mic[c].at = "idle"
    /\ mic' = [mic EXCEPT ![c] = [op |-> "stop", at |-> "lock", mine |-> 0, existing |-> 0]]
    /\ UNCHANGED <<next_capture, session, session_lock, snapshot, device, worker,
                   stop_requested, cleanup_complete>>

(* Nothing to replace or to stop.                                          *)
NoSession(c) ==
    /\ mic[c].at = "lock" /\ session_lock = NoCaller /\ session = 0
    /\ session' = mic[c].mine
    /\ IF mic[c].op = "start"
       THEN MicTo(c, "snapshot")
       ELSE mic' = [mic EXCEPT ![c] = IdleMic]
    /\ UNCHANGED <<next_capture, session_lock, snapshot, device, worker, stop_requested,
                   cleanup_complete>>

TakeSession(c) ==
    /\ mic[c].at = "lock" /\ session_lock = NoCaller /\ session # 0
    /\ stop_requested' = stop_requested \union {session}
    /\ session' = 0
    /\ session_lock' = c
    /\ mic' = [mic EXCEPT ![c].existing = session, ![c].at = "await"]
    /\ UNCHANGED <<next_capture, snapshot, device, worker, cleanup_complete>>

(* wait_voice_capture_cleanup, and what each call does next.               *)
CleanedUp(c) ==
    /\ mic[c].at = "await"
    /\ mic[c].existing \in cleanup_complete
    /\ session' = mic[c].mine
    /\ session_lock' = NoCaller
    /\ MicTo(c, IF mic[c].op = "start" THEN "snapshot" ELSE "report")
    /\ UNCHANGED <<next_capture, snapshot, device, worker, stop_requested, cleanup_complete>>

CleanupTimesOut(c) ==
    /\ mic[c].at = "await"
    /\ mic[c].existing \notin cleanup_complete
    /\ session' = mic[c].existing
    /\ session_lock' = NoCaller
    /\ mic' = [mic EXCEPT ![c] = IdleMic]
    /\ UNCHANGED <<next_capture, snapshot, device, worker, stop_requested, cleanup_complete>>

SetSnapshot(c) ==
    /\ mic[c].at = "snapshot"
    /\ snapshot' = [generation |-> mic[c].mine, state |-> "restarting"]
    /\ MicTo(c, "spawn")
    /\ UNCHANGED <<next_capture, session, session_lock, device, worker, stop_requested,
                   cleanup_complete>>

SpawnWorker(c) ==
    /\ mic[c].at = "spawn"
    /\ WorkerTo(mic[c].mine, "opening")
    /\ mic' = [mic EXCEPT ![c] = IdleMic]
    /\ UNCHANGED <<next_capture, session, session_lock, snapshot, device, stop_requested,
                   cleanup_complete>>

ReportStopped(c) ==
    /\ mic[c].at = "report"
    /\ Report(mic[c].existing, "stopped")
    /\ mic' = [mic EXCEPT ![c] = IdleMic]
    /\ UNCHANGED <<next_capture, session, session_lock, device, worker, stop_requested,
                   cleanup_complete>>

Command(c) ==
    \/ NoSession(c) \/ TakeSession(c) \/ CleanedUp(c) \/ CleanupTimesOut(c)
    \/ SetSnapshot(c) \/ SpawnWorker(c) \/ ReportStopped(c)

-----------------------------------------------------------------------------
(* run_windows_voice_capture_worker. *)

Opens(v) ==
    /\ worker[v] = "opening"
    /\ device' = [device EXCEPT ![v] = "open"]
    /\ WorkerTo(v, "opened")
    /\ UNCHANGED <<next_capture, session, session_lock, snapshot, stop_requested,
                   cleanup_complete, mic>>

OpenFails(v) ==
    /\ worker[v] = "opening"
    /\ Report(v, "unavailable")
    /\ WorkerTo(v, "no_device")
    /\ UNCHANGED <<next_capture, session, session_lock, device, stop_requested,
                   cleanup_complete, mic>>

(* Recording is reported before a buffer is queued.                        *)
ReportsRecording(v) ==
    /\ worker[v] = "opened"
    /\ Report(v, "recording")
    /\ WorkerTo(v, "queueing")
    /\ UNCHANGED <<next_capture, session, session_lock, device, stop_requested,
                   cleanup_complete, mic>>

(* Without a buffer the worker leaves with no final report.                *)
QueueFails(v) ==
    /\ worker[v] = "queueing"
    /\ Report(v, "denied")
    /\ WorkerTo(v, "denied")
    /\ UNCHANGED <<next_capture, session, session_lock, device, stop_requested,
                   cleanup_complete, mic>>

DeniedCloses(v) ==
    /\ worker[v] = "denied"
    /\ device' = [device EXCEPT ![v] = "closed"]
    /\ WorkerTo(v, "no_device")
    /\ UNCHANGED <<next_capture, session, session_lock, snapshot, stop_requested,
                   cleanup_complete, mic>>

LeavesWithoutReport(v) ==
    /\ worker[v] = "no_device"
    /\ cleanup_complete' = cleanup_complete \union {v}
    /\ WorkerTo(v, "done")
    /\ UNCHANGED <<next_capture, session, session_lock, snapshot, device, stop_requested, mic>>

Queues(v) ==
    /\ worker[v] = "queueing"
    /\ WorkerTo(v, "queued")
    /\ UNCHANGED <<next_capture, session, session_lock, snapshot, device, stop_requested,
                   cleanup_complete, mic>>

StartFails(v) ==
    /\ worker[v] = "queued"
    /\ Report(v, "denied")
    /\ WorkerTo(v, "closing")
    /\ UNCHANGED <<next_capture, session, session_lock, device, stop_requested,
                   cleanup_complete, mic>>

Starts(v) ==
    /\ worker[v] = "queued"
    /\ WorkerTo(v, "recording")
    /\ UNCHANGED <<next_capture, session, session_lock, snapshot, device, stop_requested,
                   cleanup_complete, mic>>

(* A buffer is full: its level is reported.  The pass over the buffers may *)
(* have begun before the stop was requested.                               *)
Meters(v) ==
    /\ worker[v] = "recording"
    /\ Report(v, "recording")
    /\ UNCHANGED <<next_capture, session, session_lock, device, worker, stop_requested,
                   cleanup_complete, mic>>

SeesStop(v) ==
    /\ worker[v] = "recording"
    /\ v \in stop_requested
    /\ WorkerTo(v, "closing")
    /\ UNCHANGED <<next_capture, session, session_lock, snapshot, device, stop_requested,
                   cleanup_complete, mic>>

CloseDevice(v) ==
    /\ worker[v] = "closing"
    /\ device' = [device EXCEPT ![v] = "closed"]
    /\ WorkerTo(v, "closed")
    /\ UNCHANGED <<next_capture, session, session_lock, snapshot, stop_requested,
                   cleanup_complete, mic>>

Completes(v) ==
    /\ worker[v] = "closed"
    /\ cleanup_complete' = cleanup_complete \union {v}
    /\ WorkerTo(v, "final")
    /\ UNCHANGED <<next_capture, session, session_lock, snapshot, device, stop_requested, mic>>

(* A capture that still counts as running has stopped.                     *)
FinalReport(v) ==
    /\ worker[v] = "final"
    /\ IF Running THEN Report(v, "stopped") ELSE UNCHANGED snapshot
    /\ WorkerTo(v, "done")
    /\ UNCHANGED <<next_capture, session, session_lock, device, stop_requested,
                   cleanup_complete, mic>>

Worker(v) ==
    \/ Opens(v) \/ OpenFails(v) \/ ReportsRecording(v) \/ QueueFails(v) \/ DeniedCloses(v)
    \/ LeavesWithoutReport(v) \/ Queues(v) \/ StartFails(v) \/ Starts(v) \/ Meters(v)
    \/ SeesStop(v) \/ CloseDevice(v) \/ Completes(v) \/ FinalReport(v)

-----------------------------------------------------------------------------
(* Properties. *)

(* One microphone: at most one worker has the device open, whoever has it  *)
(* is the session or was told to leave, and a snapshot that says "stopped" *)
(* is about a capture that has given the device back.                      *)
OneMicrophone ==
    /\ \A v, w \in Captures : device[v] = "open" /\ device[w] = "open" => v = w
    /\ \A v \in Captures : device[v] = "open" => session = v \/ v \in stop_requested
    /\ snapshot.state = "stopped" => device[snapshot.generation] # "open"

=============================================================================
