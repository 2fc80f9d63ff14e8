------------------------ MODULE RemoteSessionManager ------------------------
(***************************************************************************)
(* The desktop's side of remote sessions                                   *)
(* (winsmux-app/src-tauri/src/remote_session.rs): RemoteSessionManager     *)
(* starts, detaches, reattaches and, when the application ends, stops      *)
(* agents on remote hosts.  Each connection is a transport: a companion    *)
(* process, the thread that reads from it, and a binding that says what    *)
(* the connection is for.  Command threads, reader threads, the thread     *)
(* that shuts the application down and its workers meet in two maps, in    *)
(* the binding of each transport, and in a slot that holds the sender of   *)
(* the channel the next event goes to.                                     *)
(*                                                                         *)
(* The other end is the broker, which is taken for what SessionLease       *)
(* promises: each request moves the lease of a session by an action of     *)
(* that module and is answered.  Messages of a connection stay in order;   *)
(* a connection may be cut at any time, and the broker hears of it later.  *)
(*                                                                         *)
(* One action is one critical section or one message.                      *)
(***************************************************************************)
EXTENDS Naturals, Sequences, FiniteSets

CONSTANTS
    Sessions,             \* session keys: a host alias and a session id
    Callers,              \* threads that run commands
    MaxCalls,             \* bounds the connections that commands ask for
    Happens,              \* what may happen beside the commands, of AllEvents
    NoSession, Nobody, Main

(* "cut": a connection is lost; "refuse": a spawn, a handshake or a start  *)
(* is refused; "exit": an agent exits by itself; "shutdown": the           *)
(* application ends; "timeout": the shutdown stops waiting.                *)
AllEvents == {"cut", "refuse", "exit", "shutdown", "timeout"}

(* The shutdown may need one more for each session.                        *)
Transports == 1..(MaxCalls + Cardinality(Sessions))
None == 0                 \* the Option of a transport id

ASSUME ManagerAssumption == /\ IsFiniteSet(Sessions)
                            /\ MaxCalls \in Nat
                            /\ Happens \subseteq AllEvents
                            /\ NoSession \notin Sessions
                            /\ Nobody \notin Callers
                            /\ Main \notin Callers \union {Nobody}

VARIABLES
    (* ManagerInner *)
    records,              \* ManagerState.records
    shutting_down,
    transports,           \* the registered ones
    next_transport_id,
    (* Transport *)
    binding, key,         \* ReaderBinding, and the key in it
    event_sender,         \* whose channel the events go to
    link,                 \* "up"; "cut" by the network; "reaped" by the desktop
    reader,               \* the reader thread
    (* Threads *)
    pc, mine, at,         \* of a caller: next step, transport id, session key
    events,               \* what waits in each receiver's channel
    main,                 \* the shutdown's next step
    to_quiesce, fallback, to_stop,
    current, attach_first,
    worker, worker_id,    \* stop_detached_now, by session key
    cancelled,
    (* The broker and the wire *)
    stage, holder,        \* SessionLease
    inbox, outbox,
    noticed,              \* the connections whose end the broker has seen
    notify,               \* the connection PtyExited is owed to
    (* History: sessions that the shutdown had to give up, because their   *)
    (* row was unreachable, the broker refused an attach, not having seen  *)
    (* the end of the last connection, or their time ran out; and sessions *)
    (* whose connection, or its events, a command took from the shutdown.  *)
    given_up, interrupted

Lease == INSTANCE SessionLease WITH Frontends <- Transports, LifecycleFrontends <- Transports,
                                    NoFrontend <- None

maps    == <<records, shutting_down, transports, next_transport_id>>
conns   == <<binding, key, event_sender, link, reader>>
calls   == <<pc, mine, at>>
plan    == <<main, to_quiesce, fallback, to_stop, current, attach_first>>
workers == <<worker, worker_id, cancelled>>
remote  == <<stage, holder, noticed, notify>>
wire    == <<inbox, outbox>>
vars == <<maps, conns, calls, events, plan, workers, remote, wire, given_up, interrupted>>

Bindings == {"none", "AwaitingStart", "Pending", "ConfirmedPending", "AwaitingAttach",
             "Attaching", "Attached", "Detaching", "Stopping", "Closed"}
Events   == {"Started", "Attached", "Detached", "Stopped", "Removed", "Lost"}
Replies  == {"started", "attached", "detached", "stopped", "exited", "not_found", "rejected"}
Requests == {"start", "ack", "attach", "detach", "stop"}
Steps    == {"idle", "connect", "handshake", "listen", "await_start", "confirm", "publish",
             "discard", "detach", "write_detach", "await_detach", "attach", "await_attach", "lost",
             "lose", "reap"}

-----------------------------------------------------------------------------
(* SessionRecord.  A tombstoned Pending is a state of its own.             *)

Row(state, transport, transition) ==
    [state |-> state, transport |-> transport, transition |-> transition]

Absent == Row("absent", None, None)

Published(r) == r.state \in {"attached", "detached", "unreachable"}

Ids == Transports \union {None}

Rows == [state : {"absent", "pending", "tombstoned", "attached", "detached", "unreachable"},
         transport : Ids, transition : Ids]

Tombstone(r, t) ==
    IF r.state = "pending" /\ r.transport = t THEN [r EXCEPT !.state = "tombstoned"] ELSE r

Discard(r, t) ==
    IF r.state \in {"pending", "tombstoned"} /\ r.transport = t THEN Absent ELSE r

PublishUnreachable(r, t) ==
    IF r.state = "pending" /\ r.transport = t THEN Row("unreachable", None, None) ELSE r

MarkUnreachable(r, t) ==
    IF Published(r) /\ t \in {r.transport, r.transition}
    THEN Row("unreachable", None, None) ELSE r

Remove(r, t) == IF Published(r) /\ t \in {r.transport, r.transition} THEN Absent ELSE r

CanDetach(r) == r.state = "attached" /\ r.transport # None /\ r.transition = None

CanReserve(r) == /\ r.state \in {"detached", "unreachable"}
                 /\ r.transport = None
                 /\ r.transition = None

CanComplete(r, t) == Published(r) /\ r.transition = t /\ r.transport = None

FailReattach(r, t) ==
    IF Published(r) /\ r.transition = t THEN Row("unreachable", None, None) ELSE r

CanMarkDetached(r, t) == r.state = "attached" /\ r.transport = t /\ r.transition = None

-----------------------------------------------------------------------------
TypeOK ==
    /\ records \in [Sessions -> Rows]
    /\ shutting_down \in BOOLEAN
    /\ transports \subseteq Transports
    /\ next_transport_id \in Nat
    /\ binding \in [Transports -> Bindings]
    /\ key \in [Transports -> Sessions \union {NoSession}]
    /\ event_sender \in [Transports -> Callers \union {Nobody, Main}]
    /\ link \in [Transports -> {"none", "up", "cut", "reaped"}]
    /\ reader \in [Transports -> {"none", "running", "ending", "done"}]
    /\ pc \in [Callers -> Steps]
    /\ mine \in [Callers -> Ids]
    /\ at \in [Callers -> Sessions \union {NoSession}]
    /\ events \in [Callers \union {Main} -> Seq(Events)]
    /\ main \in {"idle", "quiesce", "stop", "wait", "finish", "watch", "done"}
    /\ to_quiesce \subseteq Transports
    /\ fallback \in [Transports -> Sessions \union {NoSession}]
    /\ to_stop \subseteq Sessions
    /\ current \in Ids
    /\ attach_first \in BOOLEAN
    /\ worker \in [Sessions -> {"none", "begin", "connect", "check", "read_attach", "stop",
                                "read_stop", "finish", "done"}]
    /\ worker_id \in [Sessions -> Ids]
    /\ cancelled \subseteq Sessions
    /\ Lease!TypeOK
    /\ inbox \in [Transports -> Seq(Replies \X (Sessions \union {NoSession}))]
    /\ outbox \in [Transports -> Seq(Requests \X (Sessions \union {NoSession}))]
    /\ noticed \subseteq Transports
    /\ notify \in [Sessions -> Ids]
    /\ given_up \subseteq Sessions
    /\ interrupted \subseteq Sessions

Init ==
    /\ records = [s \in Sessions |-> Absent]
    /\ shutting_down = FALSE
    /\ transports = {}
    /\ next_transport_id = 1
    /\ binding = [t \in Transports |-> "none"]
    /\ key = [t \in Transports |-> NoSession]
    /\ event_sender = [t \in Transports |-> Nobody]
    /\ link = [t \in Transports |-> "none"]
    /\ reader = [t \in Transports |-> "none"]
    /\ pc = [c \in Callers |-> "idle"]
    /\ mine = [c \in Callers |-> None]
    /\ at = [c \in Callers |-> NoSession]
    /\ events = [c \in Callers \union {Main} |-> <<>>]
    /\ main = "idle"
    /\ to_quiesce = {}
    /\ fallback = [t \in Transports |-> NoSession]
    /\ to_stop = {}
    /\ current = None
    /\ attach_first = FALSE
    /\ worker = [s \in Sessions |-> "none"]
    /\ worker_id = [s \in Sessions |-> None]
    /\ cancelled = {}
    /\ Lease!Init
    /\ inbox = [t \in Transports |-> <<>>]
    /\ outbox = [t \in Transports |-> <<>>]
    /\ noticed = {}
    /\ notify = [s \in Sessions |-> None]
    /\ given_up = {}
    /\ interrupted = {}

-----------------------------------------------------------------------------
(* Transport *)

(* The companion is killed: what it had not passed on is lost.             *)
Truncated(t) == {[inbox EXCEPT ![t] = SubSeq(@, 1, n)] : n \in 0..Len(inbox[t])}

Reap(t) ==
    \/ /\ link[t] \in {"none", "reaped"}
       /\ UNCHANGED <<link, inbox>>
    \/ /\ link[t] \in {"up", "cut"}
       /\ link' = [link EXCEPT ![t] = "reaped"]
       /\ inbox' \in Truncated(t)

finish_transport(t) == /\ transports' = transports \ {t}
                       /\ Reap(t)

(* write_message.  To a connection that was cut it may or may not succeed. *)
Written(t, messages) ==
    \/ /\ link[t] = "up"
       /\ outbox' = [outbox EXCEPT ![t] = @ \o messages]
    \/ /\ link[t] = "cut"
       /\ UNCHANGED outbox

WriteFails(t) == link[t] \in {"cut", "reaped"} /\ UNCHANGED outbox

Emitted(t, event) ==
    IF event_sender[t] = Nobody THEN events
    ELSE [events EXCEPT ![event_sender[t]] = Append(@, event)]

(* Mutations: mistakes this code could make, each in place of the          *)
(* definition whose name it extends.  Nothing else refers to them.         *)

RowAfterLoss_DetachForgotten(t) ==
    LET r == records[key[t]] IN
    CASE binding[t] = "Pending"                        -> Tombstone(r, t)
      [] binding[t] = "ConfirmedPending"               -> PublishUnreachable(r, t)
      [] binding[t] \in {"AwaitingAttach", "Attaching"} -> FailReattach(r, t)
      [] binding[t] = "Attached"                       -> MarkUnreachable(r, t)
      [] OTHER                                         -> r

RowAfterLoss_AllPendingAlike(t) ==
    LET r == records[key[t]] IN
    CASE binding[t] \in {"Pending", "ConfirmedPending"} -> Tombstone(r, t)
      [] binding[t] \in {"AwaitingAttach", "Attaching"} -> FailReattach(r, t)
      [] binding[t] \in {"Attached", "Detaching"}      -> MarkUnreachable(r, t)
      [] OTHER                                         -> r

HearsOtherThan_UntilAnEvent(c, event) == events[c] # <<>> /\ Head(events[c]) # event

StopRequests_NeverAttach == <<<<"stop", key[current]>>>>

MayInsert_AnyTime(s) == records[s] = Absent

MayRegister_Always == TRUE

StartAck_Forgotten(c) == <<>>

(* register_transport, and insert_pending, under the lock of the state.    *)
MayRegister == ~shutting_down

MayInsert(s) == ~shutting_down /\ records[s] = Absent

StartAck(c) == <<<<"ack", at[c]>>>>

(* recv returns an event, or an error once another sender took the slot.   *)
Hears(c, event) == events[c] # <<>> /\ Head(events[c]) = event

HearsOtherThan(c, event) == IF events[c] = <<>> THEN event_sender[mine[c]] # c
                            ELSE Head(events[c]) # event

(* handle_transport_loss: what becomes of the row, by the binding.         *)
RowAfterLoss(t) ==
    LET r == records[key[t]] IN
    CASE binding[t] = "Pending"                        -> Tombstone(r, t)
      [] binding[t] = "ConfirmedPending"               -> PublishUnreachable(r, t)
      [] binding[t] \in {"AwaitingAttach", "Attaching"} -> FailReattach(r, t)
      [] binding[t] \in {"Attached", "Detaching"}      -> MarkUnreachable(r, t)
      [] OTHER                                         -> r

RecordsAfterLoss(t) ==
    IF key[t] = NoSession THEN records ELSE [records EXCEPT ![key[t]] = RowAfterLoss(t)]

handle_transport_loss(t) ==
    /\ records' = RecordsAfterLoss(t)
    /\ binding' = [binding EXCEPT ![t] = "Closed"]

-----------------------------------------------------------------------------
(* Commands *)

Goto(c, step) == pc' = [pc EXCEPT ![c] = step]

(* The caller drops its receiver: from now on nobody hears the sender.     *)
Return(c, left) ==
    /\ Goto(c, "idle")
    /\ mine' = [mine EXCEPT ![c] = None]
    /\ at' = [at EXCEPT ![c] = NoSession]
    /\ events' = [left EXCEPT ![c] = <<>>]
    /\ event_sender' = [t \in Transports |->
                          IF event_sender[t] = c THEN Nobody ELSE event_sender[t]]

UnchangedByCommands == UNCHANGED <<plan, workers, remote, given_up>>

UnchangedElsewhere == UnchangedByCommands /\ UNCHANGED interrupted

(* A step that may take the connection, or its events, from the shutdown.  *)
MayInterrupt(c) ==
    /\ interrupted' = interrupted \union
                         {s \in Sessions : /\ shutting_down
                                           /\ mine[c] \in transports
                                           /\ key[mine[c]] = s}
    /\ UnchangedByCommands

Begin(c, s) ==
    /\ pc[c] = "idle"
    /\ ~shutting_down
    /\ next_transport_id <= MaxCalls
    /\ next_transport_id' = next_transport_id + 1
    /\ mine' = [mine EXCEPT ![c] = next_transport_id]
    /\ at' = [at EXCEPT ![c] = s]
    /\ Goto(c, "connect")
    /\ UNCHANGED <<shutting_down, transports, conns, events, wire>>
    /\ UnchangedElsewhere

start(c) == Begin(c, NoSession) /\ UNCHANGED records

(* reattach reserves the row for its transport before it connects.         *)
reattach(c, s) ==
    /\ CanReserve(records[s])
    /\ Begin(c, s)
    /\ records' = [records EXCEPT ![s].transition = next_transport_id]

Starting(c) == at[c] = NoSession

(* A transport that failed is closed, but once a thread has seen the       *)
(* shutdown it leaves the transport to it.  The flag is read first.        *)
CloseUnlessShuttingDown(c, step) ==
    \/ /\ ~shutting_down
       /\ Goto(c, step)
       /\ UNCHANGED <<mine, at, events, event_sender>>
    \/ /\ shutting_down
       /\ Return(c, events)

RecordsAfterFailure(c) ==
    IF Starting(c) THEN records
    ELSE [records EXCEPT ![at[c]] = FailReattach(@, mine[c])]

(* connect: spawn and register_transport in one step.  Between the two     *)
(* only this thread knows the companion and no shared state changes, so    *)
(* that the spawn can be moved next to the registration; a companion that  *)
(* is refused is reaped when its Transport is dropped (CannotConnect) ...  *)
Connect(c) ==
    /\ pc[c] = "connect"
    /\ MayRegister
    /\ transports' = transports \union {mine[c]}
    /\ link' = [link EXCEPT ![mine[c]] = "up"]
    /\ binding' = [binding EXCEPT ![mine[c]] =
                      IF Starting(c) THEN "AwaitingStart" ELSE "AwaitingAttach"]
    /\ key' = [key EXCEPT ![mine[c]] = at[c]]
    /\ Goto(c, "handshake")
    /\ UNCHANGED <<records, shutting_down, next_transport_id, event_sender, reader, mine, at,
                   events, wire>>
    /\ UnchangedElsewhere

CannotConnect(c) ==
    /\ pc[c] = "connect"
    /\ ~MayRegister \/ "refuse" \in Happens
    /\ records' = RecordsAfterFailure(c)
    /\ Return(c, events)
    /\ UNCHANGED <<shutting_down, transports, next_transport_id, binding, key, link, reader, wire>>
    /\ UnchangedElsewhere

(* ... then hello and welcome.                                             *)
Handshake(c) ==
    /\ pc[c] = "handshake"
    /\ link[mine[c]] = "up"
    /\ ~Starting(c) => records[at[c]].transition = mine[c]   \* record_reattach_handshake
    /\ Goto(c, "listen")
    /\ UNCHANGED <<maps, conns, mine, at, events, wire>>
    /\ UnchangedElsewhere

HandshakeFails(c) ==
    /\ pc[c] = "handshake"
    /\ link[mine[c]] # "up" \/ "refuse" \in Happens
    /\ finish_transport(mine[c])
    /\ records' = RecordsAfterFailure(c)
    /\ Return(c, events)
    /\ UNCHANGED <<shutting_down, next_transport_id, binding, key, reader, outbox>>
    /\ UnchangedElsewhere

(* The reservation is gone: the shutdown took the row.                     *)
HandshakeTooLate(c) ==
    /\ pc[c] = "handshake"
    /\ link[mine[c]] = "up"
    /\ ~Starting(c) /\ records[at[c]].transition # mine[c]
    /\ CloseUnlessShuttingDown(c, "reap")
    /\ UNCHANGED <<maps, binding, key, link, reader, wire>>
    /\ UnchangedElsewhere

(* set_event_sender and start_reader; start also writes PtyStart.          *)
Listen(c) ==
    /\ pc[c] = "listen"
    /\ event_sender' = [event_sender EXCEPT ![mine[c]] = c]
    /\ reader' = [reader EXCEPT ![mine[c]] = "running"]
    /\ IF Starting(c) THEN Written(mine[c], <<<<"start", NoSession>>>>) ELSE UNCHANGED outbox
    /\ Goto(c, IF Starting(c) THEN "await_start" ELSE "attach")
    /\ UNCHANGED <<maps, binding, key, link, mine, at, events, inbox>>
    /\ UnchangedElsewhere

StartNotWritten(c) ==
    /\ pc[c] = "listen"
    /\ Starting(c)
    /\ WriteFails(mine[c])
    /\ reader' = [reader EXCEPT ![mine[c]] = "running"]
    /\ finish_transport(mine[c])
    /\ Return(c, events)
    /\ UNCHANGED <<records, shutting_down, next_transport_id, binding, key>>
    /\ UnchangedElsewhere

HearStarted(c) ==
    /\ pc[c] = "await_start"
    /\ Hears(c, "Started")
    /\ events' = [events EXCEPT ![c] = Tail(@)]
    /\ at' = [at EXCEPT ![c] = key[mine[c]]]
    /\ Goto(c, "confirm")
    /\ UNCHANGED <<maps, conns, mine, wire>>
    /\ UnchangedElsewhere

HearStartFailed(c) ==
    /\ pc[c] = "await_start"
    /\ HearsOtherThan(c, "Started")
    /\ finish_transport(mine[c])
    /\ Return(c, events)
    /\ UNCHANGED <<records, shutting_down, next_transport_id, binding, key, reader, outbox>>
    /\ MayInterrupt(c)

(* confirm_pending writes PtyStartAck under the binding's lock.            *)
confirm_pending(c) ==
    /\ pc[c] = "confirm"
    /\ binding[mine[c]] = "Pending"
    /\ Written(mine[c], StartAck(c))
    /\ binding' = [binding EXCEPT ![mine[c]] = "ConfirmedPending"]
    /\ Goto(c, "publish")
    /\ UNCHANGED <<maps, key, event_sender, link, reader, mine, at, events, inbox>>
    /\ UnchangedElsewhere

ConfirmFails(c) ==
    /\ pc[c] = "confirm"
    /\ \/ binding[mine[c]] # "Pending" /\ UNCHANGED outbox
       \/ binding[mine[c]] = "Pending" /\ WriteFails(mine[c])
    /\ Goto(c, "discard")
    /\ UNCHANGED <<maps, conns, mine, at, events, inbox>>
    /\ UnchangedElsewhere

OwnsPending(r, t) == r.state = "pending" /\ r.transport = t

PublishRejected(c) == \/ binding[mine[c]] # "ConfirmedPending"
                      \/ ~shutting_down /\ ~OwnsPending(records[at[c]], mine[c])

publish_pending(c) ==
    /\ pc[c] = "publish"
    /\ binding[mine[c]] = "ConfirmedPending"
    /\ ~shutting_down
    /\ OwnsPending(records[at[c]], mine[c])
    /\ records' = [records EXCEPT ![at[c]] = Row("attached", mine[c], None)]
    /\ binding' = [binding EXCEPT ![mine[c]] = "Attached"]
    /\ Return(c, events)
    /\ UNCHANGED <<shutting_down, transports, next_transport_id, key, link, reader, wire>>
    /\ UnchangedElsewhere

(* The shutdown will stop the session, or a lost one is already published. *)
StartLeftToOthers(c) ==
    /\ pc[c] = "publish"
    /\ \/ binding[mine[c]] = "ConfirmedPending" /\ shutting_down
       \/ PublishRejected(c) /\ records[at[c]].state = "unreachable"
    /\ Return(c, events)
    /\ UNCHANGED <<maps, binding, key, link, reader, wire>>
    /\ UnchangedElsewhere

StartNotPublished(c) ==
    /\ pc[c] = "publish"
    /\ PublishRejected(c)
    /\ records[at[c]].state # "unreachable"
    /\ Goto(c, "discard")
    /\ UNCHANGED <<maps, conns, mine, at, events, wire>>
    /\ UnchangedElsewhere

discard_pending(c) ==
    /\ pc[c] = "discard"
    /\ binding' = [binding EXCEPT ![mine[c]] =
                      IF @ \in {"Pending", "ConfirmedPending"} THEN "Closed" ELSE @]
    /\ records' = [records EXCEPT ![at[c]] = Discard(@, mine[c])]
    /\ finish_transport(mine[c])
    /\ Return(c, events)
    /\ UNCHANGED <<shutting_down, next_transport_id, key, reader, outbox>>
    /\ MayInterrupt(c)

(* detach finds the transport of the row, takes its event slot ...         *)
detach(c, s) ==
    /\ pc[c] = "idle"
    /\ CanDetach(records[s])
    /\ records[s].transport \in transports
    /\ mine' = [mine EXCEPT ![c] = records[s].transport]
    /\ at' = [at EXCEPT ![c] = s]
    /\ Goto(c, "detach")
    /\ UNCHANGED <<maps, conns, events, wire>>
    /\ UnchangedElsewhere

TakeEventSlot(c) ==
    /\ pc[c] = "detach"
    /\ event_sender' = [event_sender EXCEPT ![mine[c]] = c]
    /\ Goto(c, "write_detach")
    /\ UNCHANGED <<maps, binding, key, link, reader, mine, at, events, wire>>
    /\ MayInterrupt(c)

(* ... and only then looks whether the transport is still attached.        *)
DetachTooLate(c) ==
    /\ pc[c] = "write_detach"
    /\ binding[mine[c]] # "Attached" \/ shutting_down
    /\ Return(c, events)
    /\ UNCHANGED <<maps, binding, key, link, reader, wire>>
    /\ UnchangedElsewhere

WriteDetach(c) ==
    /\ pc[c] = "write_detach"
    /\ binding[mine[c]] = "Attached"
    /\ ~shutting_down
    /\ Written(mine[c], <<<<"detach", NoSession>>>>)
    /\ binding' = [binding EXCEPT ![mine[c]] = "Detaching"]
    /\ Goto(c, "await_detach")
    /\ UNCHANGED <<maps, key, event_sender, link, reader, mine, at, events, inbox>>
    /\ UnchangedElsewhere

DetachNotWritten(c) ==
    /\ pc[c] = "write_detach"
    /\ binding[mine[c]] = "Attached"
    /\ ~shutting_down
    /\ WriteFails(mine[c])
    /\ Goto(c, "lost")
    /\ UNCHANGED <<maps, conns, mine, at, events, inbox>>
    /\ UnchangedElsewhere

(* The row itself was changed by the reader before it sent the event.      *)
HearDetached(c) ==
    /\ pc[c] = "await_detach"
    /\ Hears(c, "Detached") \/ HearsOtherThan(c, "Detached")
    /\ CloseUnlessShuttingDown(c, "reap")
    /\ UNCHANGED <<maps, binding, key, link, reader, wire>>
    /\ UnchangedElsewhere

WriteAttach(c) ==
    /\ pc[c] = "attach"
    /\ binding[mine[c]] = "AwaitingAttach"
    /\ ~shutting_down
    /\ Written(mine[c], <<<<"attach", at[c]>>>>)
    /\ binding' = [binding EXCEPT ![mine[c]] = "Attaching"]
    /\ Goto(c, "await_attach")
    /\ UNCHANGED <<maps, key, event_sender, link, reader, mine, at, events, inbox>>
    /\ UnchangedElsewhere

AttachNotWritten(c) ==
    /\ pc[c] = "attach"
    /\ \/ /\ binding[mine[c]] # "AwaitingAttach" \/ shutting_down
          /\ UNCHANGED outbox
       \/ /\ binding[mine[c]] = "AwaitingAttach"
          /\ WriteFails(mine[c])
    /\ Goto(c, "lost")
    /\ UNCHANGED <<maps, conns, mine, at, events, inbox>>
    /\ UnchangedElsewhere

(* What both do about a write that failed ...                              *)
WriteFailed(c) ==
    /\ pc[c] = "lost"
    /\ CloseUnlessShuttingDown(c, "lose")
    /\ UNCHANGED <<maps, binding, key, link, reader, wire>>
    /\ UnchangedElsewhere

LoseTransport(c) ==
    /\ pc[c] = "lose"
    /\ handle_transport_loss(mine[c])
    /\ events' = Emitted(mine[c], "Lost")
    /\ Goto(c, "reap")
    /\ UNCHANGED <<shutting_down, transports, next_transport_id, key, event_sender, link, reader,
                   mine, at, wire>>
    /\ UnchangedElsewhere

(* ... and the end of every failure.                                       *)
CloseMine(c) ==
    /\ pc[c] = "reap"
    /\ finish_transport(mine[c])
    /\ Return(c, events)
    /\ UNCHANGED <<records, shutting_down, next_transport_id, binding, key, reader, outbox>>
    /\ MayInterrupt(c)

HearAttached(c) ==
    /\ pc[c] = "await_attach"
    /\ Hears(c, "Attached")
    /\ Return(c, events)
    /\ UNCHANGED <<maps, binding, key, link, reader, wire>>
    /\ UnchangedElsewhere

HearAttachFailed(c) ==
    /\ pc[c] = "await_attach"
    /\ HearsOtherThan(c, "Attached")
    /\ CloseUnlessShuttingDown(c, "reap")
    /\ UNCHANGED <<maps, binding, key, link, reader, wire>>
    /\ UnchangedElsewhere

CallerStep(c) ==
    \/ Connect(c) \/ CannotConnect(c)
    \/ Handshake(c) \/ HandshakeFails(c) \/ HandshakeTooLate(c)
    \/ Listen(c) \/ StartNotWritten(c) \/ HearStarted(c) \/ HearStartFailed(c)
    \/ confirm_pending(c) \/ ConfirmFails(c)
    \/ publish_pending(c) \/ StartLeftToOthers(c) \/ StartNotPublished(c) \/ discard_pending(c)
    \/ TakeEventSlot(c) \/ DetachTooLate(c) \/ WriteDetach(c) \/ DetachNotWritten(c)
    \/ HearDetached(c)
    \/ WriteAttach(c) \/ AttachNotWritten(c) \/ WriteFailed(c)
    \/ LoseTransport(c) \/ CloseMine(c) \/ HearAttached(c) \/ HearAttachFailed(c)

-----------------------------------------------------------------------------
(* The reader thread: handle_reader_message under the binding's lock.      *)

SessionOver == {"exited", "not_found"}

Expected == ({"AwaitingStart"} \X {"started"})
            \union ({"Pending", "ConfirmedPending", "Attaching", "Attached", "Detaching",
                     "Stopping"} \X SessionOver)
            \union ({"Attaching", "Stopping"} \X {"attached"})
            \union ({"Detaching", "Stopping"} \X {"detached"})
            \union ({"Stopping"} \X {"stopped"})

(* Takes the next message if the binding is one of bs and it one of ms.    *)
Reads(t, bs, ms) ==
    /\ reader[t] = "running"
    /\ inbox[t] # <<>>
    /\ binding[t] \in bs
    /\ Head(inbox[t])[1] \in ms
    /\ inbox' = [inbox EXCEPT ![t] = Tail(@)]
    /\ UNCHANGED <<shutting_down, transports, next_transport_id, link, event_sender, calls,
                   outbox>>
    /\ UnchangedElsewhere

(* The last message it handles: the transport is closed.                   *)
ReadsLast(t, event) ==
    /\ binding' = [binding EXCEPT ![t] = "Closed"]
    /\ events' = Emitted(t, event)
    /\ reader' = [reader EXCEPT ![t] = "ending"]
    /\ UNCHANGED key

Changes(t, row) == records' = [records EXCEPT ![key[t]] = row]

ReadStarted(t) ==
    /\ Reads(t, {"AwaitingStart"}, {"started"})
    /\ LET s == Head(inbox[t])[2] IN
       \/ /\ MayInsert(s)
          /\ records' = [records EXCEPT ![s] = Row("pending", t, None)]
          /\ binding' = [binding EXCEPT ![t] = "Pending"]
          /\ key' = [key EXCEPT ![t] = s]
          /\ events' = Emitted(t, "Started")
          /\ UNCHANGED reader
       \/ /\ ~MayInsert(s)
          /\ ReadsLast(t, "Lost")
          /\ UNCHANGED records

ReadPendingOver(t) ==
    /\ Reads(t, {"Pending", "ConfirmedPending"}, SessionOver)
    /\ Changes(t, Tombstone(records[key[t]], t))
    /\ ReadsLast(t, "Removed")

ReadOver(t) ==
    /\ Reads(t, {"Attaching", "Attached", "Detaching", "Stopping"}, SessionOver)
    /\ Changes(t, Remove(records[key[t]], t))
    /\ ReadsLast(t, "Removed")

ReadAttached(t) ==
    /\ Reads(t, {"Attaching"}, {"attached"})
    /\ \/ /\ CanComplete(records[key[t]], t)             \* complete_reattach
          /\ Changes(t, Row("attached", t, None))
          /\ binding' = [binding EXCEPT ![t] = "Attached"]
          /\ events' = Emitted(t, "Attached")
          /\ UNCHANGED <<key, reader>>
       \/ /\ ~CanComplete(records[key[t]], t)
          /\ ReadsLast(t, "Lost")
          /\ UNCHANGED records

ReadDetached(t) ==
    /\ Reads(t, {"Detaching"}, {"detached"})
    /\ \/ /\ CanMarkDetached(records[key[t]], t)         \* mark_detached
          /\ Changes(t, Row("detached", None, None))
          /\ ReadsLast(t, "Detached")
       \/ /\ ~CanMarkDetached(records[key[t]], t)
          /\ ReadsLast(t, "Lost")
          /\ UNCHANGED records

ReadWhileStopping(t) ==
    /\ Reads(t, {"Stopping"}, {"attached", "detached"})
    /\ UNCHANGED <<records, binding, key, reader, events>>

ReadStopped(t) ==
    /\ Reads(t, {"Stopping"}, {"stopped"})
    /\ ReadsLast(t, "Stopped")
    /\ UNCHANGED records

(* Anything else, and the end of the stream, is the loss of the transport. *)
ReadUnexpected(t) ==
    /\ Reads(t, Bindings, Replies)
    /\ <<binding[t], Head(inbox[t])[1]>> \notin Expected
    /\ records' = RecordsAfterLoss(t)
    /\ ReadsLast(t, "Lost")

ReadEnd(t) ==
    /\ reader[t] = "running"
    /\ inbox[t] = <<>>
    /\ link[t] # "up"
    /\ records' = RecordsAfterLoss(t)
    /\ ReadsLast(t, "Lost")
    /\ UNCHANGED <<shutting_down, transports, next_transport_id, link, event_sender, calls, wire>>
    /\ UnchangedElsewhere

FinishReader(t) ==
    /\ reader[t] = "ending"
    /\ transports' = transports \ {t}
    /\ link' = [link EXCEPT ![t] = "reaped"]
    /\ inbox' = [inbox EXCEPT ![t] = <<>>]
    /\ reader' = [reader EXCEPT ![t] = "done"]
    /\ UNCHANGED <<records, shutting_down, next_transport_id, binding, key, event_sender, calls,
                   events, outbox>>
    /\ UnchangedElsewhere

ReaderStep(t) ==
    \/ ReadStarted(t) \/ ReadPendingOver(t) \/ ReadOver(t) \/ ReadAttached(t)
    \/ ReadDetached(t) \/ ReadWhileStopping(t) \/ ReadStopped(t) \/ ReadUnexpected(t)
    \/ ReadEnd(t) \/ FinishReader(t)

-----------------------------------------------------------------------------
(* The shutdown *)

UnchangedByMain == UNCHANGED <<calls, remote, reader, key, shutting_down, interrupted>>

Owned(t) == {s \in Sessions : Published(records[s])
                              /\ t \in {records[s].transport, records[s].transition}}

(* A published row whose transport is not registered, and a detached one,  *)
(* need a connection of their own.  An unreachable one is given up.        *)
NeedsConnection(s) ==
    LET r == records[s]
        ids == {r.transport, r.transition} \ {None}
    IN  Published(r) /\ (~(ids \subseteq transports) \/ (r.state = "detached" /\ ids = {}))

Refused(s) == \E t \in Transports : \E i \in 1..Len(inbox[t]) : inbox[t][i] = <<"rejected", s>>

BeginShutdown ==
    /\ "shutdown" \in Happens
    /\ main = "idle"
    /\ main' = "quiesce"
    /\ shutting_down' = TRUE
    /\ records' = [s \in Sessions |-> Absent]
    /\ to_quiesce' = transports
    /\ fallback' = [t \in Transports |->
                      IF Owned(t) = {} THEN NoSession ELSE CHOOSE s \in Owned(t) : TRUE]
    /\ to_stop' = {s \in Sessions : NeedsConnection(s)}
    /\ given_up' = {s \in Sessions : records[s] = Row("unreachable", None, None) \/ Refused(s)}
    /\ UNCHANGED <<transports, next_transport_id, conns, calls, events, current, attach_first,
                   workers, remote, wire, interrupted>>

(* quiesce_transport, up to the release of the binding's lock.             *)
Quiesces(t) == /\ main = "quiesce"
               /\ t \in to_quiesce
               /\ \A u \in to_quiesce : t <= u
               /\ to_quiesce' = to_quiesce \ {t}

(* Nothing was confirmed there: closing the connection ends the start.     *)
CloseTransport(t) ==
    /\ Quiesces(t)
    /\ \/ binding[t] \in {"AwaitingStart", "Pending"} /\ UNCHANGED to_stop
       \/ binding[t] = "AwaitingAttach" /\ to_stop' = to_stop \union {key[t]}
       \/ binding[t] = "Closed" /\ to_stop' = to_stop \union ({fallback[t]} \ {NoSession})
    /\ binding' = [binding EXCEPT ![t] = "Closed"]
    /\ finish_transport(t)
    /\ UNCHANGED <<records, next_transport_id, event_sender, events, main, fallback, current,
                   attach_first, workers, outbox, given_up>>
    /\ UnchangedByMain

TakeOverTransport(t) ==
    /\ Quiesces(t)
    /\ binding[t] \in {"ConfirmedPending", "Attaching", "Attached", "Detaching", "Stopping"}
    /\ binding' = [binding EXCEPT ![t] = "Stopping"]
    /\ event_sender' = [event_sender EXCEPT ![t] = Main]
    /\ current' = t
    /\ attach_first' = (binding[t] = "Detaching")
    /\ main' = "stop"
    /\ UNCHANGED <<records, transports, next_transport_id, link, events, fallback, to_stop, workers,
                   wire, given_up>>
    /\ UnchangedByMain

StopRequests == (IF attach_first THEN <<<<"attach", key[current]>>>> ELSE <<>>)
                \o <<<<"stop", key[current]>>>>

WriteStop ==
    /\ main = "stop"
    /\ Written(current, StopRequests)
    /\ main' = "wait"
    /\ UNCHANGED <<records, transports, next_transport_id, binding, event_sender, link, events,
                   to_quiesce, fallback, to_stop, current, attach_first, workers, inbox, given_up>>
    /\ UnchangedByMain

GivesUp(s) == given_up' = given_up \union {s}

StopNotWritten ==
    /\ main = "stop"
    /\ WriteFails(current)
    /\ main' = "finish"
    /\ UNCHANGED <<records, transports, next_transport_id, binding, event_sender, link, events,
                   to_quiesce, fallback, to_stop, current, attach_first, workers, inbox, given_up>>
    /\ UnchangedByMain

(* wait_for_stop: the answer, the loss of the connection ...               *)
HearStopped ==
    /\ main = "wait"
    /\ events[Main] # <<>>
    /\ main' = "finish"
    /\ UNCHANGED <<records, transports, next_transport_id, binding, event_sender, link, events,
                   to_quiesce, fallback, to_stop, current, attach_first, workers, wire, given_up>>
    /\ UnchangedByMain

(* ... a detach that took the event slot, or the deadline.                 *)
StopWaiting ==
    /\ main = "wait"
    /\ events[Main] = <<>>
    /\ \/ event_sender[current] # Main
       \/ "timeout" \in Happens
    /\ main' = "finish"
    /\ IF event_sender[current] # Main THEN UNCHANGED given_up ELSE GivesUp(key[current])
    /\ UNCHANGED <<records, transports, next_transport_id, binding, event_sender, link, events,
                   to_quiesce, fallback, to_stop, current, attach_first, workers, wire>>
    /\ UnchangedByMain

(* The receiver is dropped with it.                                        *)
FinishTransport ==
    /\ main = "finish"
    /\ finish_transport(current)
    /\ event_sender' = [event_sender EXCEPT ![current] = IF @ = Main THEN Nobody ELSE @]
    /\ events' = [events EXCEPT ![Main] = <<>>]
    /\ main' = "quiesce"
    /\ UNCHANGED <<records, next_transport_id, binding, to_quiesce, fallback, to_stop, current,
                   attach_first, workers, outbox, given_up>>
    /\ UnchangedByMain

(* stop_detached_bounded, one session after the other.                     *)
SpawnWorker(s) ==
    /\ main = "quiesce" /\ to_quiesce = {}
    /\ s \in to_stop /\ worker[s] = "none"
    /\ next_transport_id \in Transports
    /\ worker' = [worker EXCEPT ![s] = "begin"]
    /\ worker_id' = [worker_id EXCEPT ![s] = next_transport_id]
    /\ next_transport_id' = next_transport_id + 1
    /\ current' = next_transport_id
    /\ main' = "watch"
    /\ UNCHANGED <<records, transports, binding, event_sender, link, events, to_quiesce, fallback,
                   to_stop, attach_first, cancelled, wire, given_up>>
    /\ UnchangedByMain

JoinWorker(s) ==
    /\ main = "watch" /\ worker_id[s] = current
    /\ worker[s] = "done"
    /\ main' = "quiesce"
    /\ to_stop' = to_stop \ {s}
    /\ UNCHANGED <<records, transports, next_transport_id, binding, event_sender, link, events,
                   to_quiesce, fallback, current, attach_first, workers, wire, given_up>>
    /\ UnchangedByMain

AbandonWorker(s) ==
    /\ main = "watch" /\ worker_id[s] = current
    /\ "timeout" \in Happens
    /\ main' = "quiesce"
    /\ to_stop' = to_stop \ {s}
    /\ cancelled' = cancelled \union {s}
    /\ GivesUp(s)
    /\ IF current \in transports THEN finish_transport(current)
       ELSE UNCHANGED <<transports, link, inbox>>
    /\ UNCHANGED <<records, next_transport_id, binding, event_sender, events, to_quiesce, fallback,
                   current, attach_first, worker, worker_id, outbox>>
    /\ UnchangedByMain

EndShutdown ==
    /\ main = "quiesce" /\ to_quiesce = {} /\ to_stop = {}
    /\ main' = "done"
    /\ UNCHANGED <<records, transports, next_transport_id, binding, event_sender, link, events,
                   to_quiesce, fallback, to_stop, current, attach_first, workers, wire, given_up>>
    /\ UnchangedByMain

MainStep ==
    \/ \E t \in Transports : CloseTransport(t) \/ TakeOverTransport(t)
    \/ WriteStop \/ StopNotWritten \/ HearStopped \/ StopWaiting \/ FinishTransport
    \/ \E s \in Sessions : SpawnWorker(s) \/ JoinWorker(s) \/ AbandonWorker(s)
    \/ EndShutdown

-----------------------------------------------------------------------------
(* stop_detached_now: a worker is its own reader.                          *)

WorkerGoes(s, step) == worker' = [worker EXCEPT ![s] = step]

UnchangedByWorker == UNCHANGED <<records, shutting_down, next_transport_id, key, event_sender,
                                 reader, calls, events, plan, worker_id, cancelled, remote,
                                 interrupted>>

WorkerBegins(s) ==
    /\ worker[s] = "begin"
    /\ WorkerGoes(s, IF s \in cancelled THEN "done" ELSE "connect")
    /\ UNCHANGED <<transports, binding, link, wire, given_up>>
    /\ UnchangedByWorker

WorkerConnects(s) ==
    /\ worker[s] = "connect"
    /\ transports' = transports \union {worker_id[s]}
    /\ link' = [link EXCEPT ![worker_id[s]] = "up"]
    /\ binding' = [binding EXCEPT ![worker_id[s]] = "Closed"]
    /\ WorkerGoes(s, "check")
    /\ UNCHANGED <<wire, given_up>>
    /\ UnchangedByWorker

WorkerCannotConnect(s) ==
    /\ worker[s] = "connect"
    /\ "refuse" \in Happens
    /\ WorkerGoes(s, "done")
    /\ GivesUp(s)
    /\ UNCHANGED <<transports, binding, link, wire>>
    /\ UnchangedByWorker

WorkerStops(s) ==
    /\ worker[s] = "check"
    /\ s \in cancelled
    /\ WorkerGoes(s, "finish")
    /\ UNCHANGED <<transports, binding, link, wire, given_up>>
    /\ UnchangedByWorker

(* Its messages: the handshake and PtyAttach, then PtyStop.                *)
WorkerWrites(s, from, message, to) ==
    /\ worker[s] = from
    /\ \/ /\ Written(worker_id[s], <<<<message, s>>>>)
          /\ WorkerGoes(s, to)
       \/ /\ WriteFails(worker_id[s])
          /\ WorkerGoes(s, "finish")
    /\ UNCHANGED <<transports, binding, link, inbox, given_up>>
    /\ UnchangedByWorker

WorkerAttaches(s) == s \notin cancelled /\ WorkerWrites(s, "check", "attach", "read_attach")

WorkerRequestsStop(s) == WorkerWrites(s, "stop", "stop", "read_stop")

(* An answer in good leads to next, the end of the session to the end, and *)
(* everything else is a failure.                                           *)
WorkerReads(s, from, good, next) ==
    LET t == worker_id[s] IN
    /\ worker[s] = from
    /\ \/ /\ inbox[t] # <<>>
          /\ inbox' = [inbox EXCEPT ![t] = Tail(@)]
          /\ WorkerGoes(s, IF Head(inbox[t])[1] = good THEN next ELSE "finish")
       \/ /\ inbox[t] = <<>> /\ link[t] # "up"
          /\ WorkerGoes(s, "finish")
          /\ UNCHANGED inbox
    /\ UNCHANGED <<transports, binding, link, outbox, given_up>>
    /\ UnchangedByWorker

WorkerFinishes(s) ==
    /\ worker[s] = "finish"
    /\ finish_transport(worker_id[s])
    /\ WorkerGoes(s, "done")
    /\ UNCHANGED <<binding, outbox, given_up>>
    /\ UnchangedByWorker

WorkerStep(s) ==
    \/ WorkerBegins(s) \/ WorkerConnects(s) \/ WorkerCannotConnect(s) \/ WorkerStops(s)
    \/ WorkerAttaches(s) \/ WorkerReads(s, "read_attach", "attached", "stop")
    \/ WorkerRequestsStop(s) \/ WorkerReads(s, "read_stop", "stopped", "finish")
    \/ WorkerFinishes(s)

-----------------------------------------------------------------------------
(* The broker and the network *)

UnchangedByRequests == UNCHANGED <<maps, conns, calls, events, plan, workers, interrupted>>

UnchangedByBroker == UnchangedByRequests /\ UNCHANGED given_up

Requested(t, request) == /\ t \notin noticed
                         /\ outbox[t] # <<>>
                         /\ Head(outbox[t])[1] = request
                         /\ outbox' = [outbox EXCEPT ![t] = Tail(@)]
                         /\ UNCHANGED <<noticed, notify>>
                         /\ UnchangedByRequests

(* An answer is lost with its connection.                                  *)
Replied(t, reply, s) ==
    inbox' = IF link[t] = "up" THEN [inbox EXCEPT ![t] = Append(@, <<reply, s>>)] ELSE inbox

BrokerStarts(t) ==
    /\ Requested(t, "start")
    /\ \/ (\E s \in Sessions : Lease!Register(s, t)) /\ UNCHANGED inbox
       \/ /\ "refuse" \in Happens \/ \A s \in Sessions : stage[s] # "unborn"
          /\ Replied(t, "rejected", NoSession)
          /\ UNCHANGED <<stage, holder>>
    /\ UNCHANGED given_up

BrokerDelivers(t) ==
    /\ t \notin noticed
    /\ \E s \in Sessions : Lease!Deliver(s, t) /\ Replied(t, "started", s)
    /\ UNCHANGED <<noticed, notify, outbox>>
    /\ UnchangedByBroker

BrokerConfirms(t) ==
    /\ Requested(t, "ack")
    /\ LET s == Head(outbox[t])[2] IN
       \/ /\ Lease!Confirm(s, t)
          /\ UNCHANGED inbox
       \/ /\ stage[s] = "ended"
          /\ Replied(t, "not_found", s)
          /\ UNCHANGED <<stage, holder>>
    /\ UNCHANGED given_up

BrokerAttaches(t) ==
    /\ Requested(t, "attach")
    /\ LET s == Head(outbox[t])[2] IN
       \/ /\ Lease!Take(s, t)
          /\ Replied(t, "attached", s)
          /\ UNCHANGED given_up
       \/ /\ stage[s] = "ended"
          /\ Replied(t, "not_found", s)
          /\ UNCHANGED <<stage, holder, given_up>>
       \/ /\ stage[s] # "ended"
          /\ stage[s] # "confirmed" \/ holder[s] # None
          /\ Replied(t, "rejected", s)
          /\ given_up' = given_up \union {u \in {s} : shutting_down}
          /\ UNCHANGED <<stage, holder>>

BrokerDetaches(t) ==
    /\ Requested(t, "detach")
    /\ Replied(t, "detached", NoSession)
    /\ \/ \E s \in Sessions : Lease!Release(s, t)
       \/ /\ \A s \in Sessions : holder[s] # t
          /\ UNCHANGED <<stage, holder>>
    /\ UNCHANGED given_up

BrokerStops(t) ==
    /\ Requested(t, "stop")
    /\ LET s == Head(outbox[t])[2] IN
       \/ holder[s] = t /\ Lease!End(s) /\ Replied(t, "stopped", s)
       \/ /\ holder[s] # t
          /\ \/ stage[s] = "ended" /\ Replied(t, "not_found", s)
             \/ Replied(t, "rejected", s)
          /\ UNCHANGED <<stage, holder>>
    /\ UNCHANGED given_up

(* The agent exits; its holder is told later.                              *)
AgentExits(s) ==
    /\ "exit" \in Happens
    /\ stage[s] \in {"unconfirmed", "confirmed"}
    /\ Lease!End(s)
    /\ notify' = [notify EXCEPT ![s] = holder[s]]
    /\ UNCHANGED <<noticed, wire>>
    /\ UnchangedByBroker

BrokerAnnounces(s) ==
    /\ notify[s] # None
    /\ Replied(notify[s], "exited", s)
    /\ notify' = [notify EXCEPT ![s] = None]
    /\ UNCHANGED <<stage, holder, noticed, outbox>>
    /\ UnchangedByBroker

(* The connection of a frontend is closed: an unconfirmed start ends, a    *)
(* confirmed session waits for the next frontend.                          *)
BrokerNotices(t) ==
    /\ link[t] \in {"cut", "reaped"}
    /\ t \notin noticed
    /\ noticed' = noticed \union {t}
    /\ outbox' = [outbox EXCEPT ![t] = <<>>]
    /\ \/ \E s \in Sessions : \/ Lease!Release(s, t)
                              \/ holder[s] = t /\ stage[s] # "confirmed" /\ Lease!End(s)
       \/ /\ \A s \in Sessions : holder[s] # t
          /\ UNCHANGED <<stage, holder>>
    /\ UNCHANGED <<notify, inbox>>
    /\ UnchangedByBroker

BrokerStep(t) == \/ BrokerStarts(t) \/ BrokerDelivers(t) \/ BrokerConfirms(t)
                 \/ BrokerAttaches(t) \/ BrokerDetaches(t) \/ BrokerStops(t)
                 \/ BrokerNotices(t)

ConnectionCut(t) ==
    /\ "cut" \in Happens
    /\ link[t] = "up"
    /\ link' = [link EXCEPT ![t] = "cut"]
    /\ inbox' \in Truncated(t)
    /\ UNCHANGED <<maps, binding, key, event_sender, reader, calls, events, plan, workers, remote,
                   outbox, given_up, interrupted>>

-----------------------------------------------------------------------------
Next ==
    \/ \E c \in Callers : \/ start(c)
                          \/ \E s \in Sessions : reattach(c, s) \/ detach(c, s)
                          \/ CallerStep(c)
    \/ \E t \in Transports : ReaderStep(t) \/ BrokerStep(t) \/ ConnectionCut(t)
    \/ BeginShutdown \/ MainStep
    \/ \E s \in Sessions : WorkerStep(s) \/ AgentExits(s) \/ BrokerAnnounces(s)

Spec == Init /\ [][Next]_vars

(* Every thread is scheduled, and a broker that is connected answers.      *)
FairSpec == /\ Spec
            /\ \A c \in Callers : WF_vars(CallerStep(c))
            /\ \A t \in Transports : WF_vars(ReaderStep(t)) /\ WF_vars(BrokerStep(t))
            /\ WF_vars(MainStep)
            /\ \A s \in Sessions : WF_vars(WorkerStep(s)) /\ WF_vars(BrokerAnnounces(s))

-----------------------------------------------------------------------------
(* Properties. *)

(* The row and the binding of a connection are changed under two locks: a  *)
(* row is attached exactly while a connection is bound to it, and a        *)
(* reservation belongs to a reattach that is still under way (publish_     *)
(* pending, complete_reattach, handle_transport_loss).                     *)
RowsFollowTransports ==
    ~shutting_down => \A s \in Sessions :
        /\ records[s].state = "attached" <=>
              \E t \in Transports : /\ binding[t] \in {"Attached", "Detaching"}
                                    /\ key[t] = s
                                    /\ records[s].transport = t
        /\ records[s].transition # None =>
              \E c \in Callers : mine[c] = records[s].transition /\ at[c] = s

(* An agent whose start was acknowledged lives on without its frontend:    *)
(* the desktop never loses sight of one, whatever connection is lost when  *)
(* (publish_confirmed_pending_unreachable, discard_pending).               *)
ConfirmedAgentsHaveARow ==
    ~shutting_down => \A s \in Sessions :
        stage[s] = "confirmed" =>
            \/ Published(records[s])
            \/ /\ records[s].state = "pending"
               /\ binding[records[s].transport] = "ConfirmedPending"

(* Once nothing is on its way, what the desktop shows as attached is what  *)
(* the broker holds for that connection (confirm_pending, ReadAttached).   *)
AttachedMeansLease ==
    ~shutting_down => \A s \in Sessions : \A t \in Transports :
        /\ records[s].state = "attached" /\ records[s].transport = t
        /\ binding[t] = "Attached" /\ link[t] = "up"
        /\ inbox[t] = <<>> /\ outbox[t] = <<>> /\ notify[s] = None
        => stage[s] = "confirmed" /\ holder[s] = t

(* Over connections that hold, the shutdown ends every agent it can reach, *)
(* in whatever state it meets a start, a detach or a reattach: what it     *)
(* leaves behind was given up or taken from it (quiesce_transport,         *)
(* stop_detached_now).                                                     *)
ShutdownStopsAgents ==
    main = "done" => \A s \in Sessions :
        stage[s] = "confirmed" => s \in given_up \union interrupted

(* No command connects behind the shutdown's back: in the end every        *)
(* companion that was registered is reaped (register_transport,            *)
(* finish_transport).                                                      *)
NoCompanionIsLeft ==
    main = "done" /\ (\A s \in Sessions : worker[s] \in {"none", "done"})
        => transports = {} /\ \A t \in Transports : link[t] # "up"

(* The rows the shutdown took are the last ones: a start or a reattach     *)
(* that is answered late publishes nothing (insert_pending,                *)
(* publish_pending, complete_reattach).                                    *)
NoRowAfterShutdown == shutting_down => \A s \in Sessions : records[s] = Absent

(* A command waits without a deadline, and returns all the same: it is     *)
(* answered, its connection is lost, or another one took its events.       *)
CallsReturn == \A c \in Callers : pc[c] # "idle" ~> pc[c] = "idle"

=============================================================================
