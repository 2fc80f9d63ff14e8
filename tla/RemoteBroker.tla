---------------------------- MODULE RemoteBroker ----------------------------
(***************************************************************************)
(* The remote session broker of                                            *)
(* core/crates/winsmux-remote-helper/src/session.rs: a daemon that owns    *)
(* agent process groups and leases each of them to at most one connected   *)
(* frontend.  Its threads share BrokerInner under one mutex:               *)
(*                                                                         *)
(*   - one thread per frontend connection, which handles one request at a  *)
(*     time and blocks inside pty-start, pty-stop and pty-detach;          *)
(*   - one watcher thread per agent, which waits for the agent to exit,    *)
(*     forgets its session, kills and reaps its group and tells its        *)
(*     controller;                                                         *)
(*   - one output reader thread per agent;                                 *)
(*   - one guardian process per agent group, which kills the group when    *)
(*     the broker's end of a pipe is closed without being disarmed.        *)
(*                                                                         *)
(* One action is one critical section, one blocking call or one message    *)
(* sent.  Requests that only draw a rejection leave the state unchanged    *)
(* and appear only as the guards of the others.                            *)
(***************************************************************************)
EXTENDS Naturals, FiniteSets

CONSTANTS
    Frontends,            \* connections: each is accepted once
    Sessions,             \* session ids: each names one agent process group
    LifecycleFrontends,   \* connections that negotiated session-lifecycle-v1
    NoisyAgents,          \* sessions whose agent writes to its terminal
    Faults,               \* the failures the environment may inject
    NoFrontend, NoSession

(* "spawn": fork, the guardian or execve fails; "thread": a thread cannot  *)
(* be created; "cleanup": the group cannot be proven gone after SIGKILL    *)
(* and reap; "crash": the broker process is lost.                          *)
AllFaults == {"spawn", "thread", "cleanup", "crash"}

ASSUME ConstantsAssumption == /\ IsFiniteSet(Frontends)
                              /\ LifecycleFrontends \subseteq Frontends
                              /\ NoisyAgents \subseteq Sessions
                              /\ Faults \subseteq AllFaults
                              /\ NoFrontend \notin Frontends
                              /\ NoSession \notin Sessions

VARIABLES
    (* BrokerInner; of each Session row the fields that change. A removed  *)
    (* row keeps its last values here, and nothing reads them.             *)
    frontends,            \* BrokerInner.frontends
    sessions,             \* the keys of BrokerInner.sessions
    write_phase,          \* how far the delivery of PtyStarted got
    controller,           \* Controller.frontend_id, or NoFrontend
    active,               \* Controller.active
    start_confirmed, stop_in_flight,
    (* The frontend threads.                                               *)
    pc,                   \* the next step of the handler
    arg,                  \* the session the handler works on
    after,                \* why the handler reaps a group
    controlled_session,   \* the handler's own record of its lease
    peer_open,            \* the client still reads and writes the socket
    (* Agents, guardians, watchers and output readers.                     *)
    agent_spawn,          \* the frontend that holds the spawn mutex
    group,                \* what is left of the agent's process group
    guardian,
    watcher,              \* the watcher thread's next step
    notify,               \* its ExitNotification: the frontend to tell
    completion,           \* Completion.result
    reader,               \* the output reader's next step
    snapshot,             \* the controller it chose before taking the writer
    broker_alive,
    (* History: what each client was last told of each session, and which  *)
    (* connection each session was started for.                            *)
    told, birth

rows     == <<sessions, write_phase, controller, active, start_confirmed, stop_in_flight>>
threads  == <<pc, arg, after, controlled_session>>
agents   == <<agent_spawn, group, guardian>>
watchers == <<watcher, notify, completion>>
readers  == <<reader, snapshot>>
world    == <<frontends, peer_open, broker_alive>>
history  == <<told, birth>>
vars     == <<rows, threads, agents, watchers, readers, world, history>>

WritePhases == {"Pending", "Writing", "Written", "Abandoned"}

(* The steps of pty-start, between which its frontend holds an Arc of the  *)
(* new agent's guardian; "signal" and "wait" join them when pty-start reaps *)
StartSteps == {"release", "insert", "watch", "unwatched", "unregister",
               "reader", "claim", "send", "commit", "commit_failed"}

Steps == StartSteps \union
         {"unborn", "idle", "spawn", "attach_send", "activate", "signal", "wait",
          "detach_send", "closing", "gone"}

StartReaps == {"readerless", "abandoned"}

Reaps == StartReaps \union {"detach", "stop", "disconnect", "none"}

Groups == {"none", "held", "running", "exited", "killed", "gone"}

Told == {"none", "attached", "detached", "stopped", "exited"}

TypeOK ==
    /\ frontends \in Nat
    /\ sessions \subseteq Sessions
    /\ write_phase \in [Sessions -> WritePhases]
    /\ controller \in [Sessions -> Frontends \union {NoFrontend}]
    /\ active \in [Sessions -> BOOLEAN]
    /\ start_confirmed \in [Sessions -> BOOLEAN]
    /\ stop_in_flight \in [Sessions -> BOOLEAN]
    /\ pc \in [Frontends -> Steps]
    /\ arg \in [Frontends -> Sessions \union {NoSession}]
    /\ after \in [Frontends -> Reaps]
    /\ controlled_session \in [Frontends -> Sessions \union {NoSession}]
    /\ peer_open \in [Frontends -> BOOLEAN]
    /\ agent_spawn \in Frontends \union {NoFrontend}
    /\ group \in [Sessions -> Groups]
    /\ guardian \in [Sessions -> {"none", "armed", "disarmed", "fired"}]
    /\ watcher \in [Sessions -> {"none", "waiting", "classify", "cleanup", "notify",
                                 "release", "await_guardian", "done"}]
    /\ notify \in [Sessions -> Frontends \union {NoFrontend}]
    /\ completion \in [Sessions -> {"none", "ok", "failed"}]
    /\ reader \in [Sessions -> {"none", "gated", "ready", "snapped", "writing"}]
    /\ snapshot \in [Sessions -> Frontends \union {NoFrontend}]
    /\ broker_alive \in BOOLEAN
    /\ told \in [Frontends -> [Sessions -> Told]]
    /\ birth \in [Sessions -> Frontends \union {NoFrontend}]

(* broker_main registers the connection of the process that forked it as   *)
(* frontend 1 before it polls.                                             *)
Init ==
    /\ frontends = 1
    /\ sessions = {}
    /\ write_phase = [s \in Sessions |-> "Pending"]
    /\ controller = [s \in Sessions |-> NoFrontend]
    /\ active = [s \in Sessions |-> FALSE]
    /\ start_confirmed = [s \in Sessions |-> FALSE]
    /\ stop_in_flight = [s \in Sessions |-> FALSE]
    /\ \E first \in Frontends :
          pc = [f \in Frontends |-> IF f = first THEN "idle" ELSE "unborn"]
    /\ arg = [f \in Frontends |-> NoSession]
    /\ after = [f \in Frontends |-> "none"]
    /\ controlled_session = [f \in Frontends |-> NoSession]
    /\ peer_open = [f \in Frontends |-> TRUE]
    /\ agent_spawn = NoFrontend
    /\ group = [s \in Sessions |-> "none"]
    /\ guardian = [s \in Sessions |-> "none"]
    /\ watcher = [s \in Sessions |-> "none"]
    /\ notify = [s \in Sessions |-> NoFrontend]
    /\ completion = [s \in Sessions |-> "none"]
    /\ reader = [s \in Sessions |-> "none"]
    /\ snapshot = [s \in Sessions |-> NoFrontend]
    /\ broker_alive = TRUE
    /\ told = [f \in Frontends |-> [s \in Sessions |-> "none"]]
    /\ birth = [s \in Sessions |-> NoFrontend]

-----------------------------------------------------------------------------
(* Helpers. *)

(* A thread runs only while the broker process does.                       *)
At(f, step) == broker_alive /\ pc[f] = step
WatcherAt(s, step) == broker_alive /\ watcher[s] = step
ReaderAt(s, step) == broker_alive /\ reader[s] = step

Goto(f, step) == pc' = [pc EXCEPT ![f] = step]

(* A message to f waits for f's writer mutex, which an output reader holds *)
(* from its second check of the lease to the end of the write.             *)
WriterFree(f) == \A s \in Sessions : reader[s] = "writing" => snapshot[s] # f

(* send_message fails exactly when the client is gone.  To a client an     *)
(* exit is final: the desktop closes its transport on it.                  *)
Tell(f, s, what) ==
    /\ WriterFree(f)
    /\ told' = IF peer_open[f]
               THEN [told EXCEPT ![f][s] = IF @ = "exited" THEN @ ELSE what]
               ELSE told

(* A handler whose reply cannot be sent returns the error, which ends the  *)
(* connection's thread.                                                    *)
Reply(f, s, what) == /\ Tell(f, s, what)
                     /\ Goto(f, IF peer_open[f] THEN "idle" ELSE "closing")

OpenGate(s) == reader' = [reader EXCEPT ![s] = IF @ = "gated" THEN "ready" ELSE @]

(* SIGTERM then SIGKILL to the group: ESRCH counts as success, and a group *)
(* already dead stays dead.                                                *)
Kill(s) == group' = [group EXCEPT ![s] = IF @ \in {"running", "exited"} THEN "killed" ELSE @]

(* reap_process_group and prove_process_group_gone, after the kill.        *)
ReapAndProve(s) ==
    \/ group' = [group EXCEPT ![s] = "gone"]
    \/ "cleanup" \in Faults /\ Kill(s)

Disarm(s) == guardian' = [guardian EXCEPT ![s] = IF @ = "armed" THEN "disarmed" ELSE @]

-----------------------------------------------------------------------------
(* Mutations: mistakes this code could make, each in place of the          *)
(* definition whose name it extends.  Nothing else refers to them.         *)

UnconfirmedOf_Forgotten(f) == {}

ReleasedBy_Nobody(f) == controller

FrontendsLeft_CountedTwice == IF frontends > 1 THEN frontends - 2 ELSE 0

Attachable_Contended(s) == s \in sessions

CommitFailed_WithoutReap(f) ==
    /\ At(f, "commit_failed")
    /\ write_phase' = [write_phase EXCEPT ![arg[f]] = "Abandoned"]
    /\ Goto(f, "closing")
    /\ OpenGate(arg[f])
    /\ UNCHANGED <<sessions, controller, active, start_confirmed, stop_in_flight, arg, after,
                   controlled_session, agents, watchers, snapshot, world, history>>

Settled_OnlyWritten(s) == s \in sessions => write_phase[s] = "Written"

Settled_Always(s) == TRUE

ExitNotice_OfPendingStart(s) ==
    IF s \in sessions /\ ~stop_in_flight[s] /\ controller[s] \in LifecycleFrontends
    THEN controller[s] ELSE NoFrontend

ExitNotice_DuringStop(s) ==
    IF s \in sessions /\ write_phase[s] = "Written" /\ controller[s] \in LifecycleFrontends
    THEN controller[s] ELSE NoFrontend

ReleaseGuardian_Unproven(s) ==
    /\ WatcherAt(s, "release")
    /\ Disarm(s)
    /\ completion' = [completion EXCEPT ![s] = "ok"]
    /\ watcher' = [watcher EXCEPT ![s] = "done"]
    /\ UNCHANGED <<rows, threads, agent_spawn, group, notify, readers, world, history>>

StillActive_Assumed(s) == TRUE

PipeHeld_ByInheritance(s) == s \in sessions

-----------------------------------------------------------------------------
(* The conditions the handlers share. *)

(* An unconfirmed start does not outlive the lease of the lifecycle        *)
(* controller it was delivered to.                                         *)
UnconfirmedOf(f) == {s \in sessions : /\ controller[s] = f
                                      /\ write_phase[s] = "Written"
                                      /\ f \in LifecycleFrontends
                                      /\ ~start_confirmed[s]}

(* The controllers once f has let go of every session it held.             *)
ReleasedBy(f) == [s \in Sessions |->
                    IF s \in sessions /\ controller[s] = f THEN NoFrontend ELSE controller[s]]

FrontendsLeft == IF frontends > 0 THEN frontends - 1 ELSE 0

Attachable(s) == s \in sessions /\ controller[s] = NoFrontend

(* remove_after_agent_exit waits while PtyStarted is being written.        *)
Settled(s) == s \in sessions => write_phase[s] # "Writing"

(* The controller to be told of an exit that follows PtyStarted and was    *)
(* not asked for.                                                          *)
ExitNotice(s) ==
    IF /\ s \in sessions
       /\ write_phase[s] = "Written"
       /\ ~stop_in_flight[s]
       /\ controller[s] \in LifecycleFrontends
    THEN controller[s] ELSE NoFrontend

(* The output reader's second check, with the writer in hand.              *)
StillActive(s) == s \in sessions /\ controller[s] = snapshot[s] /\ active[s]

(* Who keeps the write end of the guardian's pipe open: the session row,   *)
(* the watcher until it drops its share, and pty-start until it returns.   *)
InStart(f) == pc[f] \in StartSteps \/ (pc[f] \in {"signal", "wait"} /\ after[f] \in StartReaps)

PipeHeld(s) == /\ broker_alive
               /\ \/ s \in sessions
                  \/ watcher[s] \notin {"none", "await_guardian", "done"}
                  \/ \E f \in Frontends : InStart(f) /\ arg[f] = s

-----------------------------------------------------------------------------
(* Connections. *)

(* accept_available: register_frontend, then the connection's thread, whose *)
(* handshake keeps no state the sessions depend on.                        *)
Accept(f) ==
    /\ At(f, "unborn")
    /\ Goto(f, "idle")
    /\ frontends' = frontends + 1
    /\ UNCHANGED <<rows, arg, after, controlled_session, agents, watchers, readers,
                   peer_open, broker_alive, history>>

(* The client closes the connection or is lost, at any time.               *)
ClientLeaves(f) ==
    /\ pc[f] \notin {"unborn", "gone"}
    /\ peer_open[f]
    /\ peer_open' = [peer_open EXCEPT ![f] = FALSE]
    /\ UNCHANGED <<rows, threads, agents, watchers, readers, frontends, broker_alive, history>>

(* read_frame reports the end of the stream.                               *)
HangUp(f) ==
    /\ At(f, "idle")
    /\ ~peer_open[f]
    /\ Goto(f, "closing")
    /\ UNCHANGED <<rows, arg, after, controlled_session, agents, watchers, readers,
                   world, history>>

(* An oversized frame is rejected and ends the connection.                 *)
Oversized(f) ==
    /\ At(f, "idle")
    /\ peer_open[f]
    /\ Goto(f, "closing")
    /\ UNCHANGED <<rows, arg, after, controlled_session, agents, watchers, readers,
                   world, history>>

(* FrontendGuard: disconnect_frontend forgets the unconfirmed session of   *)
(* the connection, which the thread then reaps, and leaves the others      *)
(* without a controller.                                                   *)
Disconnect(f) ==
    /\ At(f, "closing")
    /\ frontends' = FrontendsLeft
    /\ sessions' = sessions \ UnconfirmedOf(f)
    /\ controller' = ReleasedBy(f)
    /\ IF UnconfirmedOf(f) = {}
       THEN /\ Goto(f, "gone")
            /\ UNCHANGED <<arg, after>>
       ELSE /\ Goto(f, "signal")
            /\ arg' = [arg EXCEPT ![f] = CHOOSE s \in UnconfirmedOf(f) : TRUE]
            /\ after' = [after EXCEPT ![f] = "disconnect"]
    /\ controlled_session' = [controlled_session EXCEPT ![f] = NoSession]
    /\ UNCHANGED <<write_phase, active, start_confirmed, stop_in_flight, agents, watchers,
                   readers, peer_open, broker_alive, history>>

-----------------------------------------------------------------------------
(* pty-start. *)

(* A lifecycle connection first forgets a lease whose session is gone; any *)
(* other lease makes it busy.  The request may still be rejected before an *)
(* agent is spawned (agent path, peer frame limit).                        *)
PtyStart(f, s) ==
    /\ At(f, "idle")
    /\ peer_open[f]
    /\ birth[s] = NoFrontend
    /\ \/ controlled_session[f] = NoSession
       \/ f \in LifecycleFrontends /\ controlled_session[f] \notin sessions
    /\ controlled_session' = [controlled_session EXCEPT ![f] = NoSession]
    /\ \/ /\ Goto(f, "spawn")
          /\ arg' = [arg EXCEPT ![f] = s]
          /\ birth' = [birth EXCEPT ![s] = f]
       \/ UNCHANGED <<pc, arg, birth>>
    /\ UNCHANGED <<rows, after, agents, watchers, readers, world, told>>

(* spawn_agent under the spawn mutex: the child waits on its release pipe  *)
(* until the guardian of its group has reported ready.                     *)
SpawnFork(f) ==
    /\ At(f, "spawn")
    /\ agent_spawn = NoFrontend
    /\ agent_spawn' = f
    /\ group' = [group EXCEPT ![arg[f]] = "held"]
    /\ Goto(f, "release")
    /\ UNCHANGED <<rows, arg, after, controlled_session, guardian, watchers, readers,
                   world, history>>

SpawnRelease(f) ==
    /\ At(f, "release")
    /\ agent_spawn' = NoFrontend
    /\ guardian' = [guardian EXCEPT ![arg[f]] = "armed"]
    /\ group' = [group EXCEPT ![arg[f]] = "running"]
    /\ Goto(f, "insert")
    /\ UNCHANGED <<rows, arg, after, controlled_session, watchers, readers, world, history>>

(* The guardian or execve failed: cleanup_guarded_agent stops and reaps    *)
(* the group, disarms the guardian of one proven gone and leaves another   *)
(* to it; then SpawnFailed.                                                *)
SpawnFails(f) ==
    /\ "spawn" \in Faults
    /\ At(f, "release")
    /\ agent_spawn' = NoFrontend
    /\ \/ /\ group' = [group EXCEPT ![arg[f]] = "gone"]
          /\ guardian' = [guardian EXCEPT ![arg[f]] = "disarmed"]
       \/ /\ "cleanup" \in Faults
          /\ group' = [group EXCEPT ![arg[f]] = "killed"]
          /\ guardian' = [guardian EXCEPT ![arg[f]] = "fired"]
    /\ Goto(f, "idle")
    /\ UNCHANGED <<rows, arg, after, controlled_session, watchers, readers, world, history>>

Insert(f) ==
    /\ At(f, "insert")
    /\ sessions' = sessions \union {arg[f]}
    /\ write_phase' = [write_phase EXCEPT ![arg[f]] = "Pending"]
    /\ controller' = [controller EXCEPT ![arg[f]] = f]
    /\ active' = [active EXCEPT ![arg[f]] = FALSE]
    /\ start_confirmed' = [start_confirmed EXCEPT ![arg[f]] = FALSE]
    /\ stop_in_flight' = [stop_in_flight EXCEPT ![arg[f]] = FALSE]
    /\ Goto(f, "watch")
    /\ UNCHANGED <<arg, after, controlled_session, agents, watchers, readers, world, history>>

SpawnWatcher(f) ==
    /\ At(f, "watch")
    /\ \/ /\ watcher' = [watcher EXCEPT ![arg[f]] = "waiting"]
          /\ Goto(f, "reader")
       \/ /\ "thread" \in Faults
          /\ Goto(f, "unwatched")
          /\ UNCHANGED watcher
    /\ UNCHANGED <<rows, arg, after, controlled_session, agents, notify, completion, readers,
                   world, history>>

(* Without a watcher the handler stops and reaps the group itself ...      *)
ReapUnwatched(f) ==
    /\ At(f, "unwatched")
    /\ ReapAndProve(arg[f])
    /\ Goto(f, "unregister")
    /\ UNCHANGED <<rows, arg, after, controlled_session, agent_spawn, guardian, watchers,
                   readers, world, history>>

(* ... forgets the session, and releases the guardian: disarmed when the   *)
(* group is proven gone, otherwise left to kill it at the end of its pipe. *)
Unregister(f) ==
    /\ At(f, "unregister")
    /\ sessions' = sessions \ {arg[f]}
    /\ LET proven == group[arg[f]] = "gone" IN
       /\ guardian' = [guardian EXCEPT ![arg[f]] = IF proven THEN "disarmed" ELSE "fired"]
       /\ completion' = [completion EXCEPT ![arg[f]] = IF proven THEN "ok" ELSE "failed"]
    /\ Goto(f, "idle")
    /\ UNCHANGED <<write_phase, controller, active, start_confirmed, stop_in_flight, arg, after,
                   controlled_session, agent_spawn, group, watcher, notify, readers, world,
                   history>>

SpawnReader(f) ==
    /\ At(f, "reader")
    /\ \/ /\ reader' = [reader EXCEPT ![arg[f]] = "gated"]
          /\ Goto(f, "claim")
          /\ UNCHANGED after
       \/ /\ "thread" \in Faults
          /\ Goto(f, "signal")
          /\ after' = [after EXCEPT ![f] = "readerless"]
          /\ UNCHANGED reader
    /\ UNCHANGED <<rows, arg, controlled_session, agents, watchers, snapshot, world, history>>

(* Pending becomes Writing, unless the agent exited first (the check before *)
(* the claim repeats the claim's own condition).                           *)
Claim(f) ==
    /\ At(f, "claim")
    /\ IF arg[f] \in sessions /\ write_phase[arg[f]] = "Pending"
       THEN /\ write_phase' = [write_phase EXCEPT ![arg[f]] = "Writing"]
            /\ Goto(f, "send")
            /\ UNCHANGED reader
       ELSE /\ OpenGate(arg[f])
            /\ Goto(f, "idle")
            /\ UNCHANGED write_phase
    /\ UNCHANGED <<sessions, controller, active, start_confirmed, stop_in_flight, arg, after,
                   controlled_session, agents, watchers, snapshot, world, history>>

(* PtyStarted is written outside the lock.                                 *)
SendStarted(f) ==
    /\ At(f, "send")
    /\ Tell(f, arg[f], "attached")
    /\ Goto(f, IF peer_open[f] THEN "commit" ELSE "commit_failed")
    /\ controlled_session' =
          [controlled_session EXCEPT ![f] = IF peer_open[f] THEN arg[f] ELSE @]
    /\ UNCHANGED <<rows, arg, after, agents, watchers, readers, world, birth>>

(* The outcome of the write is recorded, the watcher is woken and the      *)
(* output reader released.                                                 *)
CommitStarted(f) ==
    /\ At(f, "commit")
    /\ IF arg[f] \in sessions
       THEN /\ write_phase' = [write_phase EXCEPT ![arg[f]] = "Written"]
            /\ start_confirmed' =
                  [start_confirmed EXCEPT ![arg[f]] = f \notin LifecycleFrontends]
            /\ active' = [active EXCEPT ![arg[f]] = IF controller[arg[f]] = f THEN TRUE ELSE @]
       ELSE UNCHANGED <<write_phase, start_confirmed, active>>
    /\ OpenGate(arg[f])
    /\ Goto(f, "idle")
    /\ UNCHANGED <<sessions, controller, stop_in_flight, arg, after, controlled_session, agents,
                   watchers, snapshot, world, history>>

CommitFailed(f) ==
    /\ At(f, "commit_failed")
    /\ IF arg[f] \in sessions
       THEN /\ write_phase' = [write_phase EXCEPT ![arg[f]] = "Abandoned"]
            /\ active' = [active EXCEPT ![arg[f]] = FALSE]
            /\ after' = [after EXCEPT ![f] = "abandoned"]
            /\ Goto(f, "signal")
       ELSE /\ Goto(f, "closing")
            /\ UNCHANGED <<write_phase, active, after>>
    /\ OpenGate(arg[f])
    /\ UNCHANGED <<sessions, controller, start_confirmed, stop_in_flight, arg,
                   controlled_session, agents, watchers, snapshot, world, history>>

-----------------------------------------------------------------------------
(* pty-start-ack, pty-attach, pty-detach, pty-stop. *)

PtyStartAck(f, s) ==
    /\ At(f, "idle")
    /\ peer_open[f]
    /\ f \in LifecycleFrontends
    /\ s \in sessions
    /\ write_phase[s] = "Written"
    /\ controlled_session[f] = s
    /\ controller[s] = f
    /\ start_confirmed' = [start_confirmed EXCEPT ![s] = TRUE]
    /\ UNCHANGED <<sessions, write_phase, controller, active, stop_in_flight, threads, agents,
                   watchers, readers, world, history>>

(* The lease is taken inactive: no output before the reply.                *)
PtyAttach(f, s) ==
    /\ At(f, "idle")
    /\ peer_open[f]
    /\ controlled_session[f] = NoSession
    /\ Attachable(s)
    /\ controller' = [controller EXCEPT ![s] = f]
    /\ active' = [active EXCEPT ![s] = FALSE]
    /\ controlled_session' = [controlled_session EXCEPT ![f] = s]
    /\ arg' = [arg EXCEPT ![f] = s]
    /\ Goto(f, "attach_send")
    /\ UNCHANGED <<sessions, write_phase, start_confirmed, stop_in_flight, after, agents,
                   watchers, readers, world, history>>

SendAttached(f) ==
    /\ At(f, "attach_send")
    /\ Tell(f, arg[f], "attached")
    /\ Goto(f, IF peer_open[f] THEN "activate" ELSE "closing")
    /\ UNCHANGED <<rows, arg, after, controlled_session, agents, watchers, readers, world, birth>>

Activate(f) ==
    /\ At(f, "activate")
    /\ active' = [active EXCEPT
                    ![arg[f]] = IF arg[f] \in sessions /\ controller[arg[f]] = f THEN TRUE ELSE @]
    /\ Goto(f, "idle")
    /\ UNCHANGED <<sessions, write_phase, controller, start_confirmed, stop_in_flight, arg, after,
                   controlled_session, agents, watchers, readers, world, history>>

(* Detaching from an unconfirmed start forgets it and reaps its group      *)
(* before the reply; otherwise the lease alone is given up.                *)
PtyDetach(f) ==
    LET s == controlled_session[f] IN
    /\ At(f, "idle")
    /\ peer_open[f]
    /\ s # NoSession
    /\ controlled_session' = [controlled_session EXCEPT ![f] = NoSession]
    /\ arg' = [arg EXCEPT ![f] = s]
    /\ IF s \in UnconfirmedOf(f)
       THEN /\ sessions' = sessions \ {s}
            /\ after' = [after EXCEPT ![f] = "detach"]
            /\ Goto(f, "signal")
            /\ UNCHANGED controller
       ELSE /\ controller' = [controller EXCEPT
                                ![s] = IF s \in sessions /\ @ = f THEN NoFrontend ELSE @]
            /\ Goto(f, "detach_send")
            /\ UNCHANGED <<sessions, after>>
    /\ UNCHANGED <<write_phase, active, start_confirmed, stop_in_flight, agents, watchers, readers,
                   world, history>>

SendDetached(f) ==
    /\ At(f, "detach_send")
    /\ Reply(f, arg[f], "detached")
    /\ UNCHANGED <<rows, arg, after, controlled_session, agents, watchers, readers, world, birth>>

(* The lease goes quiet and the stop is announced to the watcher; a        *)
(* session that is already gone only costs the connection its lease.       *)
PtyStop(f) ==
    LET s == controlled_session[f] IN
    /\ At(f, "idle")
    /\ peer_open[f]
    /\ s # NoSession
    /\ IF s \in sessions /\ controller[s] = f
       THEN /\ active' = [active EXCEPT ![s] = FALSE]
            /\ stop_in_flight' = [stop_in_flight EXCEPT ![s] = TRUE]
            /\ arg' = [arg EXCEPT ![f] = s]
            /\ after' = [after EXCEPT ![f] = "stop"]
            /\ Goto(f, "signal")
            /\ UNCHANGED controlled_session
       ELSE /\ controlled_session' = [controlled_session EXCEPT ![f] = NoSession]
            /\ UNCHANGED <<active, stop_in_flight, arg, after, pc>>
    /\ UNCHANGED <<sessions, write_phase, controller, start_confirmed, agents, watchers, readers,
                   world, history>>

(* request_process_group_stop by the handler that reaps.                   *)
Signal(f) ==
    /\ At(f, "signal")
    /\ Kill(arg[f])
    /\ Goto(f, "wait")
    /\ UNCHANGED <<rows, arg, after, controlled_session, agent_spawn, guardian, watchers, readers,
                   world, history>>

(* Completion::wait, then what the handler does with the result: a failed  *)
(* cleanup turns PtyStopped into a rejection and ends a connection that    *)
(* was detaching or abandoning.                                            *)
Finish(f) ==
    LET s == arg[f] IN
    /\ At(f, "wait")
    /\ completion[s] # "none"
    /\ controlled_session' =
          [controlled_session EXCEPT ![f] = IF after[f] = "stop" THEN NoSession ELSE @]
    /\ \/ /\ after[f] = "stop"
          /\ IF completion[s] = "ok"
             THEN Reply(f, s, "stopped")
             ELSE Goto(f, "idle") /\ UNCHANGED told
       \/ /\ after[f] = "detach"
          /\ Goto(f, IF completion[s] = "ok" THEN "detach_send" ELSE "closing")
          /\ UNCHANGED told
       \/ /\ after[f] = "readerless"
          /\ Goto(f, "idle")
          /\ UNCHANGED told
       \/ /\ after[f] = "abandoned"
          /\ Goto(f, "closing")
          /\ UNCHANGED told
       \/ /\ after[f] = "disconnect"
          /\ Goto(f, "gone")
          /\ UNCHANGED told
    /\ UNCHANGED <<rows, arg, after, agents, watchers, readers, world, birth>>

-----------------------------------------------------------------------------
(* Agents, watchers, guardians and output readers. *)

AgentExits(s) ==
    /\ group[s] = "running"
    /\ group' = [group EXCEPT ![s] = "exited"]
    /\ UNCHANGED <<rows, threads, agent_spawn, guardian, watchers, readers, world, history>>

(* waitpid returns for the agent itself.                                   *)
WatcherWaits(s) ==
    /\ WatcherAt(s, "waiting")
    /\ group[s] \in {"exited", "killed"}
    /\ watcher' = [watcher EXCEPT ![s] = "classify"]
    /\ UNCHANGED <<rows, threads, agents, notify, completion, readers, world, history>>

(* remove_after_agent_exit: the row goes before the group is cleaned up.   *)
Classify(s) ==
    /\ WatcherAt(s, "classify")
    /\ Settled(s)
    /\ sessions' = sessions \ {s}
    /\ notify' = [notify EXCEPT ![s] = ExitNotice(s)]
    /\ watcher' = [watcher EXCEPT ![s] = "cleanup"]
    /\ UNCHANGED <<write_phase, controller, active, start_confirmed, stop_in_flight, threads,
                   agents, completion, readers, world, history>>

WatcherReaps(s) ==
    /\ WatcherAt(s, "cleanup")
    /\ ReapAndProve(s)
    /\ watcher' = [watcher EXCEPT ![s] = "notify"]
    /\ UNCHANGED <<rows, threads, agent_spawn, guardian, notify, completion, readers, world,
                   history>>

SendExited(s) ==
    /\ WatcherAt(s, "notify")
    /\ IF notify[s] = NoFrontend
       THEN UNCHANGED told
       ELSE Tell(notify[s], s, "exited")
    /\ watcher' = [watcher EXCEPT ![s] = "release"]
    /\ UNCHANGED <<rows, threads, agents, notify, completion, readers, world, birth>>

(* A group proven gone disarms its guardian; an unproven one leaves it     *)
(* armed, and the watcher drops its own share of the pipe and waits.       *)
ReleaseGuardian(s) ==
    /\ WatcherAt(s, "release")
    /\ IF group[s] = "gone"
       THEN /\ Disarm(s)
            /\ completion' = [completion EXCEPT ![s] = "ok"]
            /\ watcher' = [watcher EXCEPT ![s] = "done"]
       ELSE /\ watcher' = [watcher EXCEPT ![s] = "await_guardian"]
            /\ UNCHANGED <<guardian, completion>>
    /\ UNCHANGED <<rows, threads, agent_spawn, group, notify, readers, world, history>>

GuardianEnds(s) ==
    /\ WatcherAt(s, "await_guardian")
    /\ guardian[s] = "fired"
    /\ completion' = [completion EXCEPT ![s] = "failed"]
    /\ watcher' = [watcher EXCEPT ![s] = "done"]
    /\ UNCHANGED <<rows, threads, agents, notify, readers, world, history>>

(* run_process_group_guardian: the end of the pipe means SIGKILL.          *)
GuardianFires(s) ==
    /\ guardian[s] = "armed"
    /\ ~PipeHeld(s)
    /\ guardian' = [guardian EXCEPT ![s] = "fired"]
    /\ Kill(s)
    /\ UNCHANGED <<rows, threads, agent_spawn, watchers, readers, world, history>>

(* The unreleased child of a lost broker reads the end of its release pipe. *)
HeldAgentDies(s) ==
    /\ group[s] = "held"
    /\ ~broker_alive
    /\ group' = [group EXCEPT ![s] = "gone"]
    /\ UNCHANGED <<rows, threads, agent_spawn, guardian, watchers, readers, world, history>>

(* A chunk is read; without an active controller it is dropped.            *)
ReadOutput(s) ==
    /\ s \in NoisyAgents
    /\ ReaderAt(s, "ready")
    /\ group[s] \in {"running", "exited", "killed"}
    /\ s \in sessions
    /\ controller[s] # NoFrontend
    /\ active[s]
    /\ snapshot' = [snapshot EXCEPT ![s] = controller[s]]
    /\ reader' = [reader EXCEPT ![s] = "snapped"]
    /\ UNCHANGED <<rows, threads, agents, watchers, world, history>>

(* With the writer in hand the lease is checked again.                     *)
RecheckLease(s) ==
    /\ ReaderAt(s, "snapped")
    /\ WriterFree(snapshot[s])
    /\ reader' = [reader EXCEPT ![s] = IF StillActive(s) THEN "writing" ELSE "ready"]
    /\ UNCHANGED <<rows, threads, agents, watchers, snapshot, world, history>>

WriteOutput(s) ==
    /\ ReaderAt(s, "writing")
    /\ reader' = [reader EXCEPT ![s] = "ready"]
    /\ UNCHANGED <<rows, threads, agents, watchers, snapshot, world, history>>

(* The broker ends: lost at any time, or by attempt_shutdown when nobody   *)
(* is connected and no session is registered.                              *)
BrokerDies ==
    /\ "crash" \in Faults
    /\ broker_alive
    /\ broker_alive' = FALSE
    /\ UNCHANGED <<rows, threads, agents, watchers, readers, frontends, peer_open, history>>

IdleShutdown ==
    /\ broker_alive
    /\ frontends = 0
    /\ sessions = {}
    /\ broker_alive' = FALSE
    /\ UNCHANGED <<rows, threads, agents, watchers, readers, frontends, peer_open, history>>

-----------------------------------------------------------------------------
Request(f) == \/ Oversized(f)
              \/ \E s \in Sessions : \/ PtyStart(f, s)
                                     \/ PtyStartAck(f, s)
                                     \/ PtyAttach(f, s)
              \/ PtyDetach(f)
              \/ PtyStop(f)

(* What a connection's thread does once it has a request or its client is  *)
(* gone.                                                                   *)
Handle(f) == \/ HangUp(f) \/ Disconnect(f)
             \/ SpawnFork(f) \/ SpawnRelease(f) \/ SpawnFails(f) \/ Insert(f)
             \/ SpawnWatcher(f) \/ ReapUnwatched(f) \/ Unregister(f) \/ SpawnReader(f)
             \/ Claim(f) \/ SendStarted(f) \/ CommitStarted(f) \/ CommitFailed(f)
             \/ SendAttached(f) \/ Activate(f) \/ SendDetached(f)
             \/ Signal(f) \/ Finish(f)

Watch(s) == \/ WatcherWaits(s) \/ Classify(s) \/ WatcherReaps(s) \/ SendExited(s)
            \/ ReleaseGuardian(s) \/ GuardianEnds(s)

Output(s) == ReadOutput(s) \/ RecheckLease(s) \/ WriteOutput(s)

BrokerStep == \/ \E f \in Frontends : Accept(f) \/ Request(f) \/ Handle(f)
              \/ \E s \in Sessions : Watch(s) \/ Output(s)
              \/ BrokerDies \/ IdleShutdown

Outside == \/ \E f \in Frontends : ClientLeaves(f)
           \/ \E s \in Sessions : AgentExits(s) \/ GuardianFires(s) \/ HeldAgentDies(s)

Next == BrokerStep \/ Outside

(* Threads and guardians run until they block; clients, agents, accepts    *)
(* and shutdown owe nothing.                                               *)
Fairness ==
    /\ \A f \in Frontends : WF_vars(Handle(f))
    /\ \A s \in Sessions : /\ WF_vars(Watch(s))
                           /\ WF_vars(RecheckLease(s) \/ WriteOutput(s))
                           /\ WF_vars(GuardianFires(s) \/ HeldAgentDies(s))

Spec == Init /\ [][Next]_vars

FairSpec == Spec /\ Fairness

-----------------------------------------------------------------------------
(* Safety. *)

(* The lease a connection's thread remembers and the controller the shared *)
(* table records agree, across the lock-free stretches of every handler:   *)
(* a table entry for f is a lease f knows of or is still starting, and a   *)
(* remembered lease on a live session is never someone else's.             *)
LeaseAgreement ==
    \A f \in Frontends, s \in sessions :
        /\ controller[s] = f =>
             /\ pc[f] \notin {"unborn", "gone"}
             /\ \/ controlled_session[f] = s
                \/ InStart(f) /\ arg[f] = s
        /\ controlled_session[f] = s => controller[s] = f

(* Only a confirmed session is ever left without a controller, so nobody   *)
(* attaches to a start that its own client never acknowledged.             *)
AttachableIsConfirmed ==
    \A s \in sessions :
        controller[s] = NoFrontend => write_phase[s] = "Written" /\ start_confirmed[s]

(* When a connection's thread is over, no agent started for it runs on     *)
(* unless its client acknowledged the start.                               *)
UnconfirmedDiesWithFrontend ==
    \A s \in Sessions :
        birth[s] \in Frontends /\ pc[birth[s]] = "gone" /\ ~start_confirmed[s]
            => group[s] \notin {"held", "running"}

(* An agent never runs without an armed guardian, and a guardian is only   *)
(* told to stand down once its group is proven gone.                       *)
GuardedWhileAlive ==
    \A s \in Sessions : /\ group[s] \in {"running", "exited"} => guardian[s] = "armed"
                        /\ guardian[s] = "disarmed" => group[s] = "gone"

(* PtyStopped is only said of a group that is gone and a session that is   *)
(* forgotten; PtyDetached of an unacknowledged start says the agent does   *)
(* not run.                                                                *)
EndingsAreTrue ==
    \A f \in Frontends, s \in Sessions :
        /\ told[f][s] = "stopped" => group[s] = "gone" /\ s \notin sessions
        /\ told[f][s] = "detached" /\ ~start_confirmed[s] => group[s] # "running"

(* A session ends once: an accepted stop is answered PtyStopped or with a  *)
(* rejection, and no client is ever told PtyExited of it, whichever of     *)
(* pty-stop and the watcher is first to the shared table.                  *)
OneEnding ==
    \A f \in Frontends, s \in Sessions : stop_in_flight[s] => told[f][s] # "exited"

(* Output is written to a connection only between the message that gave it *)
(* the lease and the message that takes it away.                           *)
OutputInsideLease ==
    \A s \in Sessions : reader[s] = "writing" => told[snapshot[s]][s] = "attached"

(* The broker counts every connection once, from its acceptance until its  *)
(* guard is dropped, through whatever ends its handler, and no longer      *)
(* while the thread reaps what the connection left: neither is the idle    *)
(* shutdown early nor is it prevented for good (register_frontend,         *)
(* disconnect_frontend, is_idle).                                          *)
Reaping(f) == pc[f] \in {"signal", "wait"} /\ after[f] = "disconnect"
Connected(f) == pc[f] \notin {"unborn", "gone"} /\ ~Reaping(f)

FrontendsAreCounted == frontends = Cardinality({f \in Frontends : Connected(f)})

(* The exit of an agent never overtakes the PtyStarted of its own client.  *)
ExitAfterStarted ==
    [][\A f \in Frontends, s \in Sessions :
         told'[f][s] = "exited" /\ birth[s] = f => told[f][s] # "none"]_vars

-----------------------------------------------------------------------------
(* What the safety properties rest on: the inductive invariant.            *)

Starting(f) == pc[f] = "spawn" \/ InStart(f)

(* A handler in the middle of a request works on a session, and pty-start  *)
(* on the one it was asked for.                                            *)
HandlersOwnTheirStart ==
    \A f \in Frontends :
        /\ pc[f] \notin {"unborn", "idle", "closing", "gone"} => arg[f] \in Sessions
        /\ Starting(f) => birth[arg[f]] = f

(* Nobody has heard of a session before its row is inserted.               *)
Unregistered(s) ==
    /\ s \notin sessions
    /\ watcher[s] = "none"
    /\ completion[s] = "none"
    /\ notify[s] = NoFrontend
    /\ \A g \in Frontends : controlled_session[g] # s /\ told[g][s] # "exited"

Unspawned(s) == Unregistered(s) /\ group[s] = "none" /\ guardian[s] = "none"

NewSessionsAreFresh ==
    /\ \A s \in Sessions : birth[s] = NoFrontend => Unspawned(s)
    /\ \A f \in Frontends :
          /\ pc[f] = "spawn" => Unspawned(arg[f])
          /\ pc[f] \in {"release", "insert"} => Unregistered(arg[f])

(* The row of a start belongs to its handler, which records the lease only *)
(* when PtyStarted is out; the row is gone before anybody is told so.      *)
StartsKeepTheirRow ==
    \A f \in Frontends :
        /\ Starting(f) =>
             controlled_session[f] = IF pc[f] = "commit" THEN arg[f] ELSE NoSession
        /\ InStart(f) /\ arg[f] \in sessions => controller[arg[f]] = f
        /\ pc[f] \in {"watch", "reader", "claim"} /\ arg[f] \in sessions
             => write_phase[arg[f]] = "Pending"
        /\ pc[f] \in {"signal", "wait"} /\ after[f] = "stop" => controlled_session[f] = arg[f]
        /\ pc[f] \in {"signal", "wait"} /\ after[f] = "disconnect"
             => controlled_session[f] = NoSession

EndedSessionsAreForgotten ==
    \A s \in sessions : completion[s] = "none" /\ watcher[s] \in {"none", "waiting", "classify"}

(* An undelivered start is still in the hands of its handler, and an       *)
(* unconfirmed one in those of a lifecycle client.                         *)
UnfinishedStartsAreHeld ==
    \A s \in sessions :
        /\ write_phase[s] # "Written" => InStart(birth[s]) /\ arg[birth[s]] = s
        /\ write_phase[s] = "Written" /\ ~start_confirmed[s]
             => controller[s] \in LifecycleFrontends

ReapedGroupsDoNotRun ==
    \A f \in Frontends : pc[f] = "unregister" => group[arg[f]] \notin {"running", "exited"}

(* An agent runs unconfirmed only for the connection it was started for:   *)
(* in the middle of pty-start, under its lease, or about to be killed.     *)
Owned(s) ==
    LET f == birth[s] IN
    /\ f \in Frontends
    /\ \/ InStart(f) /\ arg[f] = s /\ (s \in sessions \/ pc[f] = "insert")
       \/ s \in sessions /\ write_phase[s] = "Written" /\ controller[s] = f
       \/ pc[f] = "signal" /\ arg[f] = s

AgentsHaveAnOwner ==
    \A s \in Sessions :
        /\ group[s] = "held"
             => birth[s] \in Frontends /\ pc[birth[s]] = "release" /\ arg[birth[s]] = s
        /\ watcher[s] \notin {"none", "waiting"} \/ completion[s] # "none"
             => group[s] \notin {"held", "running"}
        /\ group[s] = "running" /\ ~start_confirmed[s] => Owned(s)

StopsAreNotAnnounced ==
    \A s \in Sessions : s \in sessions \/ stop_in_flight[s] =>
        notify[s] = NoFrontend /\ \A f \in Frontends : told[f][s] # "exited"

(* How far a start got shows in its row: the watcher waits for the outcome *)
(* of the write, and nobody else ends a row that was not delivered.        *)
StartsAreInOrder ==
    /\ \A f \in Frontends :
          /\ pc[f] \in {"watch", "unwatched", "unregister"} =>
               /\ arg[f] \in sessions /\ write_phase[arg[f]] = "Pending"
               /\ watcher[arg[f]] = "none" /\ completion[arg[f]] = "none"
          /\ pc[f] \in {"reader", "claim", "send", "commit", "commit_failed"}
               => watcher[arg[f]] # "none"
          /\ pc[f] \in {"send", "commit", "commit_failed"}
               => arg[f] \in sessions /\ write_phase[arg[f]] = "Writing"
          /\ InStart(f) /\ arg[f] \in sessions => write_phase[arg[f]] # "Written"
    /\ \A s \in sessions :
          /\ watcher[s] = "none" => write_phase[s] = "Pending"
          /\ write_phase[s] # "Written" => ~start_confirmed[s]

(* Before its row is inserted a session is neither told of nor worked on   *)
(* by anybody but the handler that starts it.                              *)
Unheard(s) ==
    \A f \in Frontends :
        /\ told[f][s] = "none"
        /\ pc[f] \notin {"unborn", "idle", "closing", "gone"} /\ arg[f] = s => Starting(f)

NewSessionsAreUnheard ==
    /\ \A s \in Sessions : birth[s] = NoFrontend => Unheard(s)
    /\ \A f \in Frontends : pc[f] \in {"spawn", "release", "insert"} => Unheard(arg[f])

(* A completion is reported once, "ok" only of a group proven gone, and    *)
(* PtyStopped only after it.                                               *)
EndingsAreProven ==
    /\ \A s \in Sessions :
          /\ completion[s] = "ok" => group[s] = "gone"
          /\ watcher[s] \notin {"none", "done"} => completion[s] = "none"
    /\ \A f \in Frontends, s \in Sessions : told[f][s] = "stopped" => completion[s] = "ok"

(* Only the client an unacknowledged session was started for has had its   *)
(* lease, so that it is reaped before that client is told PtyDetached.     *)
UnconfirmedAreReaped ==
    /\ \A f \in Frontends :
          /\ controlled_session[f] # NoSession /\ ~start_confirmed[controlled_session[f]]
               => birth[controlled_session[f]] = f
          /\ pc[f] = "detach_send" /\ ~start_confirmed[arg[f]] => group[arg[f]] # "running"
    /\ \A f \in Frontends, s \in Sessions :
          told[f][s] = "detached" /\ ~start_confirmed[s] => group[s] # "running"

(* An active controller was told that it is one, and a watcher speaks only *)
(* of sessions whose client was told of the start.                         *)
LeasesAreAnnounced ==
    /\ \A f \in Frontends :
          /\ pc[f] = "commit" => told[f][arg[f]] = "attached"
          /\ pc[f] = "activate" /\ arg[f] \in sessions => told[f][arg[f]] = "attached"
          /\ pc[f] = "detach_send" => ~(arg[f] \in sessions /\ controller[arg[f]] = f)
    /\ \A s \in sessions :
          /\ active[s] /\ controller[s] # NoFrontend => told[controller[s]][s] = "attached"
          /\ write_phase[s] = "Written" => birth[s] \in Frontends /\ told[birth[s]][s] # "none"
    /\ \A s \in Sessions :
          /\ notify[s] # NoFrontend => birth[s] \in Frontends /\ told[birth[s]][s] # "none"
          /\ reader[s] \in {"snapped", "writing"} => snapshot[s] \in Frontends

Inductive ==
    /\ TypeOK
    /\ HandlersOwnTheirStart
    /\ NewSessionsAreFresh
    /\ StartsKeepTheirRow
    /\ EndedSessionsAreForgotten
    /\ UnfinishedStartsAreHeld
    /\ LeaseAgreement
    /\ AttachableIsConfirmed
    /\ ReapedGroupsDoNotRun
    /\ GuardedWhileAlive
    /\ StopsAreNotAnnounced
    /\ AgentsHaveAnOwner
    /\ StartsAreInOrder
    /\ NewSessionsAreUnheard
    /\ EndingsAreProven
    /\ UnconfirmedAreReaped
    /\ LeasesAreAnnounced
    /\ OutputInsideLease
    /\ FrontendsAreCounted

-----------------------------------------------------------------------------
(* Liveness. *)

(* A group could not be proven gone: it was left to its guardian.          *)
Unproven == \E s \in Sessions : watcher[s] = "await_guardian" \/ completion[s] = "failed"

(* No handler waits for ever: every request that is not rejected at once,  *)
(* and every disconnection, is finished unless the broker is lost or a     *)
(* group is not proven gone.                                               *)
HandlersReturn ==
    \A f \in Frontends :
        pc[f] \notin {"unborn", "idle", "gone"}
            ~> (pc[f] \in {"idle", "gone"} \/ ~broker_alive \/ Unproven)

(* A lifecycle client that holds a lease learns that its agent is gone,     *)
(* also when the agent exits while PtyStarted is being written: by         *)
(* PtyExited or by the answer to what it asked meanwhile.                  *)
EndIsAnnounced ==
    \A f \in LifecycleFrontends, s \in Sessions :
        (told[f][s] = "attached" /\ group[s] # "running")
            ~> (told[f][s] # "attached" \/ ~peer_open[f] \/ pc[f] = "gone" \/ ~broker_alive
                \/ Unproven)

(* No agent outlives the broker, lost or shut down, for long.              *)
NothingOutlivesTheBroker ==
    ~broker_alive ~> \A s \in Sessions : group[s] \in {"none", "killed", "gone"}

(* The comment on the watcher's failure path: an unproven group leaves its *)
(* guardian armed and the end of its pipe "remains the fail-closed SIGKILL *)
(* owner".                                                                 *)
UnprovenGroupIsKilledByGuardian ==
    \A s \in Sessions : watcher[s] = "await_guardian" ~> guardian[s] = "fired"

-----------------------------------------------------------------------------
(* Each session, seen through its lease.                                   *)

stageOf(s) ==
    IF s \in sessions
    THEN CASE write_phase[s] \in {"Pending", "Writing"}         -> "starting"
           [] write_phase[s] = "Abandoned"                      -> "failed"
           [] write_phase[s] = "Written" /\ start_confirmed[s]  -> "confirmed"
           [] write_phase[s] = "Written" /\ ~start_confirmed[s] -> "unconfirmed"
    ELSE IF watcher[s] = "none" /\ completion[s] = "none" THEN "unborn" ELSE "ended"

holderOf(s) == IF s \in sessions THEN controller[s] ELSE NoFrontend

Lease == INSTANCE SessionLease WITH stage  <- [s \in Sessions |-> stageOf(s)],
                                   holder <- [s \in Sessions |-> holderOf(s)]

(* The broker keeps the promise of SessionLease: a session is confirmed    *)
(* only by its holder, outlives a lease only when confirmed, and passes    *)
(* from one connection to another only through a release.                  *)
KeepsLease == Lease!Spec
=============================================================================
