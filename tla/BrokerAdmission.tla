--------------------------- MODULE BrokerAdmission ---------------------------
(***************************************************************************)
(* How frontends find, start and lose the per-user session broker          *)
(* (core/crates/winsmux-remote-helper/src/session.rs).  A frontend takes   *)
(* an advisory lock on a file, connects to the broker's socket or forks a  *)
(* broker when there is none, and gives the lock back once it is admitted. *)
(* A broker that serves nobody and owns no session shuts down, but only    *)
(* with the lock in hand.  Processes are killed at any time, which         *)
(* releases their locks and closes their sockets.                          *)
(*                                                                         *)
(* Each frontend forks at most one broker (spawn_attempted), so a broker   *)
(* is named by the frontend that forked it.                                *)
(***************************************************************************)
EXTENDS Naturals, FiniteSets

CONSTANTS
    Frontends,
    MaxAttempts,          \* HANDSHAKE_ATTEMPTS
    Faults,               \* the failures the environment may inject
    Nobody

(* "kill": a frontend is killed; "crash": a broker is lost; "slow": a      *)
(* handshake times out; "refuse": a broker fails before it acknowledges;   *)
(* "abandoned": pipe2 fails in a broker whose frontend was killed          *)
ASSUME AdmissionAssumption == /\ MaxAttempts \in Nat \ {0}
                              /\ Faults \subseteq {"kill", "crash", "slow", "refuse", "abandoned"}
                              /\ Nobody \notin Frontends

VARIABLES
    lock,                 \* the holder of the admission lock
    socket,               \* the broker whose socket file is at the path
    fe,                   \* frontend: its next step
    attempt,              \* frontend: iteration of the handshake loop
    spawn_attempted,      \* frontend
    peer,                 \* frontend: the broker it is connected to
    originator,           \* frontend: its connection came with the fork
    br,                   \* broker: its main thread's next step
    conns,                \* broker: its connections, see Connections
    sessions,             \* broker: "none", "some", or "removed" with the wake still due
    waiter,               \* broker: its lock release waiter thread
    wake                  \* broker: a byte is in the wake pipe

frontendVars == <<fe, attempt, spawn_attempted, peer, originator>>
brokerVars   == <<br, conns, sessions, waiter, wake>>
vars == <<lock, socket, frontendVars, brokerVars>>

(* A connection is one attempt of one frontend.  On the broker's side it   *)
(* waits in the backlog, is served by a thread that counts in frontends,   *)
(* or has left the count but not yet woken the main thread; "open" says    *)
(* that the client still has its end.                                      *)
Connections == [from : Frontends, nr : 1..MaxAttempts,
                state : {"backlog", "served", "leaving"}, open : BOOLEAN]

Holders == [kind : {"frontend", "broker", "waiter"}, of : Frontends]
Free == [kind |-> "free"]

FrontendSteps == {"lock", "connect", "stale", "spawn", "await_ack", "handshake", "unlock",
                  "relay", "done", "failed", "killed"}
BrokerSteps == {"unborn", "forked", "detached", "bound", "listening", "poll", "check", "attempt",
                "arm", "recheck", "unlink", "exit", "dead"}

TypeOK ==
    /\ lock \in Holders \union {Free}
    /\ socket \in Frontends \union {Nobody}
    /\ fe \in [Frontends -> FrontendSteps]
    /\ attempt \in [Frontends -> 1..MaxAttempts]
    /\ spawn_attempted \in [Frontends -> BOOLEAN]
    /\ peer \in [Frontends -> Frontends \union {Nobody}]
    /\ originator \in [Frontends -> BOOLEAN]
    /\ br \in [Frontends -> BrokerSteps]
    /\ conns \in [Frontends -> SUBSET Connections]
    /\ sessions \in [Frontends -> {"none", "some", "removed"}]
    /\ waiter \in [Frontends -> {"off", "blocked", "holding", "finishing"}]
    /\ wake \in [Frontends -> BOOLEAN]

Init ==
    /\ lock = Free
    /\ socket = Nobody
    /\ fe = [f \in Frontends |-> "lock"]
    /\ attempt = [f \in Frontends |-> 1]
    /\ spawn_attempted = [f \in Frontends |-> FALSE]
    /\ peer = [f \in Frontends |-> Nobody]
    /\ originator = [f \in Frontends |-> FALSE]
    /\ br = [b \in Frontends |-> "unborn"]
    /\ conns = [b \in Frontends |-> {}]
    /\ sessions = [b \in Frontends |-> "none"]
    /\ waiter = [b \in Frontends |-> "off"]
    /\ wake = [b \in Frontends |-> FALSE]

-----------------------------------------------------------------------------
(* Helpers. *)

Locked(kind, x) == lock = [kind |-> kind, of |-> x]
Take(kind, x) == lock = Free /\ lock' = [kind |-> kind, of |-> x]
Unlock == lock' = Free

Step(f, s) == fe' = [fe EXCEPT ![f] = s]
Main(b, s) == br' = [br EXCEPT ![b] = s]

Starting  == {"forked", "detached", "bound", "listening"}
Serving   == {"poll", "check", "attempt", "arm", "recheck", "unlink", "exit"}
Listening(b) == br[b] \in Serving \union {"listening"}

(* The connection of f's current attempt, in the given state.              *)
Conn(f, state) == [from |-> f, nr |-> attempt[f], state |-> state, open |-> TRUE]
Mine(f) == {c \in conns[peer[f]] : c.from = f /\ c.nr = attempt[f] /\ c.open}

(* f closes its end: its broker will read the end of the stream.           *)
ClosedBy(f) ==
    IF peer[f] = Nobody THEN conns
    ELSE [conns EXCEPT ![peer[f]] = {IF c.from = f THEN [c EXCEPT !.open = FALSE] ELSE c : c \in @}]

Served(b) == {c \in conns[b] : c.state = "served"}

-----------------------------------------------------------------------------
(* Mutations: mistakes this code could make, each in place of the          *)
(* definition whose name it extends.  Nothing else refers to them.         *)

Accepted_Uncounted(b) ==
    {[c EXCEPT !.state = IF @ = "backlog" THEN "leaving" ELSE @] : c \in conns[b]}

IdleAt_IgnoringSessions(b) == Served(b) = {}

WaiterNeeded_Never(b) == FALSE

BrokerBinds_Over(b) ==
    /\ br[b] = "detached"
    /\ socket' = b
    /\ Main(b, "bound")
    /\ UNCHANGED <<lock, frontendVars, conns, sessions, waiter, wake>>

-----------------------------------------------------------------------------
(* The broker's own conditions. *)

(* accept_available: register_frontend for every connection in the backlog. *)
Accepted(b) == {[c EXCEPT !.state = IF @ = "backlog" THEN "served" ELSE @] : c \in conns[b]}

(* is_idle: no connection is counted and no session registered.            *)
IdleAt(b) == Served(b) = {} /\ sessions[b] # "some"

(* arm_shutdown_lock_release_waiter starts at most one waiter, and only    *)
(* while the broker is idle.                                               *)
WaiterNeeded(b) == IdleAt(b) /\ waiter[b] = "off"

LockForShutdown(b) == Take("broker", b)

-----------------------------------------------------------------------------
(* serve_brokered_stdio. *)

TakeLock(f) ==
    /\ fe[f] = "lock"
    /\ Take("frontend", f)
    /\ Step(f, "connect")
    /\ UNCHANGED <<socket, attempt, spawn_attempted, peer, originator, brokerVars>>

(* What follows when no broker listens: fork one, once.                    *)
NoBroker(f) ==
    IF spawn_attempted[f]
    THEN /\ Unlock
         /\ Step(f, "failed")
    ELSE /\ UNCHANGED lock
         /\ Step(f, "spawn")

(* connect_under_lock: a listener takes the connection into its backlog, a *)
(* missing file means no broker, a refusal means a stale file ...          *)
Connect(f) ==
    /\ fe[f] = "connect"
    /\ \/ /\ socket # Nobody
          /\ Listening(socket)
          /\ peer' = [peer EXCEPT ![f] = socket]
          /\ originator' = [originator EXCEPT ![f] = FALSE]
          /\ conns' = [conns EXCEPT ![socket] = @ \union {Conn(f, "backlog")}]
          /\ Step(f, "handshake")
          /\ UNCHANGED lock
       \/ /\ socket = Nobody
          /\ NoBroker(f)
          /\ UNCHANGED <<peer, originator, conns>>
       \/ /\ socket # Nobody
          /\ ~Listening(socket)
          /\ Step(f, "stale")
          /\ UNCHANGED <<lock, peer, originator, conns>>
    /\ UNCHANGED <<socket, attempt, spawn_attempted, br, sessions, waiter, wake>>

(* ... which is removed, whatever is at the path by then.                  *)
RemoveStale(f) ==
    /\ fe[f] = "stale"
    /\ socket' = Nobody
    /\ NoBroker(f)
    /\ UNCHANGED <<attempt, spawn_attempted, peer, originator, brokerVars>>

(* spawn_broker: the child gets one end of a socket pair as its first      *)
(* connection, and the parent keeps the lock until it is acknowledged.     *)
Fork(f) ==
    /\ fe[f] = "spawn"
    /\ spawn_attempted' = [spawn_attempted EXCEPT ![f] = TRUE]
    /\ peer' = [peer EXCEPT ![f] = f]
    /\ originator' = [originator EXCEPT ![f] = TRUE]
    /\ conns' = [conns EXCEPT ![f] = {Conn(f, "backlog")}]
    /\ Main(f, "forked")
    /\ Step(f, "await_ack")
    /\ UNCHANGED <<lock, socket, attempt, sessions, waiter, wake>>

(* The acknowledgement, or the end of the pipe: the originator unlocks     *)
(* before its handshake.                                                   *)
AwaitAck(f) ==
    /\ fe[f] = "await_ack"
    /\ br[f] \notin Starting
    /\ Unlock
    /\ IF br[f] = "dead"
       THEN Step(f, "failed") /\ conns' = ClosedBy(f)
       ELSE Step(f, "handshake") /\ UNCHANGED conns
    /\ UNCHANGED <<socket, attempt, spawn_attempted, peer, originator, br, sessions, waiter, wake>>

(* Welcome arrives, sent by the serving thread: only a connection that     *)
(* came through the socket still holds the lock.                           *)
Welcome(f) ==
    /\ fe[f] = "handshake"
    /\ \E c \in Mine(f) : c.state = "served"
    /\ IF originator[f] THEN UNCHANGED lock ELSE Unlock
    /\ Step(f, "relay")
    /\ UNCHANGED <<socket, attempt, spawn_attempted, peer, originator, brokerVars>>

(* A timeout, or the end of the stream when the broker is lost: the stream *)
(* is dropped before the lock is given back, and the loop goes on.         *)
HandshakeFails(f) ==
    /\ fe[f] = "handshake"
    /\ "slow" \in Faults \/ ~Listening(peer[f])
    /\ conns' = ClosedBy(f)
    /\ Step(f, "unlock")
    /\ UNCHANGED <<lock, socket, attempt, spawn_attempted, peer, originator, br, sessions, waiter,
                   wake>>

AttemptsLeft(f) == attempt[f] < MaxAttempts

Retry(f) ==
    /\ fe[f] = "unlock"
    /\ IF originator[f] THEN UNCHANGED lock ELSE Unlock
    /\ IF AttemptsLeft(f)
       THEN /\ attempt' = [attempt EXCEPT ![f] = @ + 1]
            /\ Step(f, "lock")
       ELSE /\ Step(f, "failed")
            /\ UNCHANGED attempt
    /\ UNCHANGED <<socket, spawn_attempted, peer, originator, brokerVars>>

(* relay_stdio ends with its client or with the broker.                    *)
RelayEnds(f) ==
    /\ fe[f] = "relay"
    /\ conns' = ClosedBy(f)
    /\ Step(f, "done")
    /\ UNCHANGED <<lock, socket, attempt, spawn_attempted, peer, originator, br, sessions, waiter,
                   wake>>

(* The kernel closes what a killed frontend had open; its lock stays with  *)
(* a child that has not closed the inherited descriptor yet.               *)
Killed(f) ==
    /\ "kill" \in Faults
    /\ fe[f] \notin {"done", "failed", "killed"}
    /\ conns' = ClosedBy(f)
    /\ lock' = IF Locked("frontend", f) /\ br[f] # "forked" THEN Free ELSE lock
    /\ Step(f, "killed")
    /\ UNCHANGED <<socket, attempt, spawn_attempted, peer, originator, br, sessions, waiter, wake>>

-----------------------------------------------------------------------------
(* broker_main up to its acknowledgement. *)

(* The child closes the lock it inherited; its parent still holds it, if   *)
(* it lives.                                                               *)
BrokerDetaches(b) ==
    /\ br[b] = "forked"
    /\ lock' = IF Locked("frontend", b) /\ fe[b] = "killed" THEN Free ELSE lock
    /\ Main(b, "detached")
    /\ UNCHANGED <<socket, frontendVars, conns, sessions, waiter, wake>>

(* bind fails when anything is at the path ...                             *)
BrokerBinds(b) ==
    /\ br[b] = "detached"
    /\ IF socket = Nobody
       THEN socket' = b /\ Main(b, "bound")
       ELSE UNCHANGED socket /\ Main(b, "dead")
    /\ UNCHANGED <<lock, frontendVars, conns, sessions, waiter, wake>>

(* ... and until listen a connection is refused.                           *)
BrokerListens(b) ==
    /\ br[b] = "bound"
    /\ Main(b, "listening")
    /\ UNCHANGED <<lock, socket, frontendVars, conns, sessions, waiter, wake>>

(* write_ack fails when the frontend is gone, and the broker with it; its  *)
(* socket file stays.                                                      *)
BrokerAcks(b) ==
    /\ br[b] = "listening"
    /\ IF fe[b] = "await_ack"
       THEN /\ Main(b, "poll")
            /\ conns' = [conns EXCEPT ![b] =
                  {IF c.from = b THEN [c EXCEPT !.state = "served"] ELSE c : c \in @}]
       ELSE Main(b, "dead") /\ UNCHANGED conns
    /\ UNCHANGED <<lock, socket, frontendVars, sessions, waiter, wake>>

(* setsid, bind, set_permissions or pipe2 fails; after a failed pipe2 the  *)
(* file at the path is removed, whosever it is.                            *)
BrokerRefuses(b) ==
    /\ "refuse" \in Faults
    /\ br[b] \in {"detached", "listening"}
    /\ \/ UNCHANGED socket
       \/ /\ br[b] = "listening"
          /\ fe[b] = "killed" => "abandoned" \in Faults
          /\ socket' = Nobody
    /\ Main(b, "dead")
    /\ UNCHANGED <<lock, frontendVars, conns, sessions, waiter, wake>>

-----------------------------------------------------------------------------
(* The broker's main loop. *)

Backlog(b) == {c \in conns[b] : c.state = "backlog"}

(* poll returns for a connection or a wake.                                *)
Poll(b) ==
    /\ br[b] = "poll"
    /\ wake[b] \/ Backlog(b) # {}
    /\ wake' = [wake EXCEPT ![b] = FALSE]
    /\ conns' = [conns EXCEPT ![b] = Accepted(b)]
    /\ Main(b, "check")
    /\ UNCHANGED <<lock, socket, frontendVars, sessions, waiter>>

Check(b) ==
    /\ br[b] = "check"
    /\ Main(b, IF IdleAt(b) THEN "attempt" ELSE "poll")
    /\ UNCHANGED <<lock, socket, frontendVars, conns, sessions, waiter, wake>>

(* attempt_shutdown: without the lock, a waiter thread turns its release   *)
(* into a wake ...                                                         *)
Attempt(b) ==
    /\ br[b] = "attempt"
    /\ \/ LockForShutdown(b) /\ Main(b, "recheck")
       \/ lock # Free /\ Main(b, "arm") /\ UNCHANGED lock
    /\ UNCHANGED <<socket, frontendVars, conns, sessions, waiter, wake>>

Arm(b) ==
    /\ br[b] = "arm"
    /\ waiter' = IF WaiterNeeded(b) THEN [waiter EXCEPT ![b] = "blocked"] ELSE waiter
    /\ Main(b, "poll")
    /\ UNCHANGED <<lock, socket, frontendVars, conns, sessions, wake>>

(* ... and with it, those who came meanwhile are served after all.         *)
Recheck(b) ==
    /\ br[b] = "recheck"
    /\ conns' = [conns EXCEPT ![b] = Accepted(b)]
    /\ IF Backlog(b) # {} \/ ~IdleAt(b)
       THEN Unlock /\ Main(b, "poll")
       ELSE UNCHANGED lock /\ Main(b, "unlink")
    /\ UNCHANGED <<socket, frontendVars, sessions, waiter, wake>>

Unlink(b) ==
    /\ br[b] = "unlink"
    /\ socket' = Nobody
    /\ Main(b, "exit")
    /\ UNCHANGED <<lock, frontendVars, conns, sessions, waiter, wake>>

(* The kernel gives back the locks of a process that ends; what the dead   *)
(* process kept in memory is forgotten.                                    *)
Ends(b) ==
    /\ lock' = IF Locked("broker", b) \/ Locked("waiter", b) THEN Free ELSE lock
    /\ conns' = [conns EXCEPT ![b] = {c \in @ : c.open}]
    /\ sessions' = [sessions EXCEPT ![b] = "none"]
    /\ waiter' = [waiter EXCEPT ![b] = "off"]
    /\ wake' = [wake EXCEPT ![b] = FALSE]
    /\ Main(b, "dead")

Exit(b) ==
    /\ br[b] = "exit"
    /\ Ends(b)
    /\ UNCHANGED <<socket, frontendVars>>

BrokerCrashes(b) ==
    /\ "crash" \in Faults
    /\ br[b] \in Serving
    /\ Ends(b)
    /\ UNCHANGED <<socket, frontendVars>>

-----------------------------------------------------------------------------
(* The broker's other threads. *)

WaiterLocks(b) ==
    /\ waiter[b] = "blocked"
    /\ Take("waiter", b)
    /\ waiter' = [waiter EXCEPT ![b] = "holding"]
    /\ UNCHANGED <<socket, frontendVars, br, conns, sessions, wake>>

WaiterUnlocks(b) ==
    /\ waiter[b] = "holding"
    /\ Unlock
    /\ waiter' = [waiter EXCEPT ![b] = "finishing"]
    /\ UNCHANGED <<socket, frontendVars, br, conns, sessions, wake>>

WaiterFinishes(b) ==
    /\ waiter[b] = "finishing"
    /\ waiter' = [waiter EXCEPT ![b] = "off"]
    /\ wake' = [wake EXCEPT ![b] = TRUE]
    /\ UNCHANGED <<lock, socket, frontendVars, br, conns, sessions>>

(* disconnect_frontend, in two steps: a serving thread leaves the count at *)
(* the end of its stream, or when its client breaks the protocol ...       *)
Disconnects(b, c) ==
    /\ br[b] \in Serving
    /\ c.state = "served"
    /\ ~c.open \/ fe[c.from] = "relay"
    /\ conns' = [conns EXCEPT ![b] = (@ \ {c}) \union {[c EXCEPT !.state = "leaving"]}]
    /\ UNCHANGED <<lock, socket, frontendVars, br, sessions, waiter, wake>>

(* ... and then wakes the main thread.                                     *)
Wakes(b, c) ==
    /\ br[b] \in Serving
    /\ c.state = "leaving"
    /\ conns' = [conns EXCEPT ![b] = @ \ {c}]
    /\ wake' = [wake EXCEPT ![b] = TRUE]
    /\ UNCHANGED <<lock, socket, frontendVars, br, sessions, waiter>>

(* Sessions come from a served client and end with a wake: module          *)
(* RemoteBroker has the steps.                                             *)
SessionStarts(b) ==
    /\ br[b] \in Serving
    /\ Served(b) # {}
    /\ sessions' = [sessions EXCEPT ![b] = "some"]
    /\ UNCHANGED <<lock, socket, frontendVars, br, conns, waiter, wake>>

LastSessionEnds(b) ==
    /\ br[b] \in Serving
    /\ sessions[b] = "some"
    /\ sessions' = [sessions EXCEPT ![b] = "removed"]
    /\ UNCHANGED <<lock, socket, frontendVars, br, conns, waiter, wake>>

SessionWakes(b) ==
    /\ br[b] \in Serving
    /\ sessions[b] = "removed"
    /\ sessions' = [sessions EXCEPT ![b] = "none"]
    /\ wake' = [wake EXCEPT ![b] = TRUE]
    /\ UNCHANGED <<lock, socket, frontendVars, br, conns, waiter>>

-----------------------------------------------------------------------------
Admission(f) ==
    \/ TakeLock(f) \/ Connect(f) \/ RemoveStale(f) \/ Fork(f) \/ AwaitAck(f)
    \/ Welcome(f) \/ HandshakeFails(f) \/ Retry(f)

MainThread(b) ==
    \/ BrokerDetaches(b) \/ BrokerBinds(b) \/ BrokerListens(b) \/ BrokerAcks(b)
    \/ Poll(b) \/ Check(b) \/ Attempt(b) \/ Arm(b) \/ Recheck(b) \/ Unlink(b) \/ Exit(b)

Waiter(b) == WaiterLocks(b) \/ WaiterUnlocks(b) \/ WaiterFinishes(b)

HangsUp(b) == \E c \in conns[b] : ~c.open /\ Disconnects(b, c)
Leaves(b) == \E c \in conns[b] : Wakes(b, c)

Next ==
    \/ \E f \in Frontends : Admission(f) \/ RelayEnds(f) \/ Killed(f)
    \/ \E b \in Frontends :
          \/ MainThread(b) \/ BrokerRefuses(b) \/ BrokerCrashes(b)
          \/ Waiter(b) \/ Leaves(b)
          \/ \E c \in conns[b] : Disconnects(b, c)
          \/ SessionStarts(b) \/ LastSessionEnds(b) \/ SessionWakes(b)

Spec == Init /\ [][Next]_vars

(* The scheduler runs every thread that can run, and a thread that waits   *)
(* for the lock gets it when it is free again and again.  Clients, agents  *)
(* and failures owe nothing.                                               *)
Fairness ==
    /\ \A f \in Frontends : WF_vars(Admission(f)) /\ SF_vars(TakeLock(f))
    /\ \A b \in Frontends :
          /\ WF_vars(MainThread(b))
          /\ WF_vars(Waiter(b)) /\ SF_vars(WaiterLocks(b))
          /\ WF_vars(HangsUp(b)) /\ WF_vars(Leaves(b)) /\ WF_vars(SessionWakes(b))

FairSpec == Spec /\ Fairness

-----------------------------------------------------------------------------
(* Properties. *)

(* At most one broker serves a user, and whoever comes finds it: the file  *)
(* at the path is its socket until it unlinks it (spawn_broker,            *)
(* connect_under_lock).  Frontends die between fork, bind, listen and the  *)
(* acknowledgement.                                                        *)
OneBroker ==
    /\ \A b, c \in Frontends : br[b] \in Serving /\ br[c] \in Serving => b = c
    /\ \A b \in Frontends : br[b] \in Serving \ {"exit"} => socket = b

(* A broker that decided to shut down (attempt_shutdown) leaves nobody     *)
(* behind: no connection waits in its backlog or is being served, and it   *)
(* owns no session.                                                        *)
NobodyLeftBehind ==
    \A b \in Frontends : br[b] \in {"unlink", "exit"} =>
        /\ \A c \in conns[b] : c.state = "leaving"
        /\ sessions[b] # "some"

(* A frontend that asks for a broker is admitted or told that it failed    *)
(* (serve_brokered_stdio), whoever dies meanwhile.                         *)
AdmissionEnds ==
    \A f \in Frontends : fe[f] = "lock" ~> fe[f] \in {"relay", "done", "failed", "killed"}

(* No wake is lost: a broker that waits in poll with nothing to serve has  *)
(* its next wake in the pipe or in the hands of a thread that will write   *)
(* it (disconnect_frontend, arm_shutdown_lock_release_waiter).             *)
IdleBrokerIsWoken ==
    \A b \in Frontends : br[b] = "poll" /\ IdleAt(b) =>
        \/ wake[b]
        \/ \E c \in conns[b] : c.state \in {"backlog", "leaving"}
        \/ sessions[b] = "removed"
        \/ waiter[b] # "off"

(* When every frontend has finished, a broker without sessions ends by     *)
(* itself, unless it fails to take the lock over and over                  *)
(* (attempt_shutdown): its own waiter may hold it each time it tries.      *)
AllFinished == \A f \in Frontends : fe[f] \in {"done", "failed", "killed"}
IdleBrokerLeaves ==
    \A b \in Frontends :
        <>[](br[b] # "arm") =>
            (AllFinished /\ br[b] \in Starting \union Serving
               ~> br[b] = "dead" \/ sessions[b] = "some")

=============================================================================
