----------------------- MODULE RemoteSessionManagerProofs ---------------------
(***************************************************************************)
(* The desktop's rows follow its connections, what they show is what the   *)
(* brokers hold, and the shutdown leaves neither a row nor a companion     *)
(* behind, for any number of sessions, commands and connections.           *)
(***************************************************************************)
EXTENDS RemoteSessionManager, FiniteSetTheorems, SequenceTheorems, TLAPS

-----------------------------------------------------------------------------
(* Types.  A request to attach and the news of a start name a session, and *)
(* so does the binding of every connection that is used for one.           *)

Answers == ({"started"} \X Sessions)
           \union ((Replies \ {"started"}) \X (Sessions \union {NoSession}))

Orders == ({"attach"} \X Sessions)
          \union ((Requests \ {"attach"}) \X (Sessions \union {NoSession}))

Unkeyed == {"none", "AwaitingStart", "Closed"}

Typed ==
    /\ TypeOK
    /\ inbox \in [Transports -> Seq(Answers)]
    /\ outbox \in [Transports -> Seq(Orders)]
    /\ next_transport_id # None
    /\ main = "idle" <=> ~shutting_down
    /\ main \in {"stop", "wait", "finish"} => current \in Transports /\ key[current] \in Sessions
    /\ \A c \in Callers : /\ mine[c] = None <=> pc[c] = "idle"
                          /\ pc[c] = "attach" => at[c] \in Sessions
    /\ \A t \in Transports : key[t] = NoSession => binding[t] \in Unkeyed
    /\ \A s \in Sessions : worker[s] # "none" => worker_id[s] \in Transports

(* Transport ids are positive, and those that commands may take are ids.   *)
LEMMA TransportIds ==
    ASSUME ManagerAssumption
    PROVE  /\ None \notin Transports /\ Transports \subseteq Nat
           /\ \A n \in Nat : n # None /\ n <= MaxCalls => n \in Transports
<1>1. Cardinality(Sessions) \in Nat
  BY FS_CardinalityType DEF ManagerAssumption
<1>. QED
  BY <1>1 DEF ManagerAssumption, Transports, None

(* The steps that change a row.                                            *)
LEMMA RowMovers ==
    ASSUME Next, records' # records
    PROVE  \/ \E c \in Callers :
                \/ CannotConnect(c) \/ HandshakeFails(c) \/ publish_pending(c)
                \/ discard_pending(c) \/ LoseTransport(c)
           \/ \E c \in Callers, s \in Sessions : reattach(c, s)
           \/ \E t \in Transports :
                \/ ReadStarted(t) \/ ReadPendingOver(t) \/ ReadOver(t)
                \/ ReadAttached(t) \/ ReadDetached(t) \/ ReadUnexpected(t)
                \/ ReadEnd(t)
           \/ BeginShutdown
<1>1. ASSUME NEW c \in Callers,
             \/ start(c) \/ Connect(c) \/ Handshake(c) \/ HandshakeTooLate(c)
             \/ Listen(c) \/ StartNotWritten(c) \/ HearStarted(c)
             \/ HearStartFailed(c) \/ confirm_pending(c) \/ ConfirmFails(c)
             \/ StartLeftToOthers(c) \/ StartNotPublished(c) \/ TakeEventSlot(c)
             \/ DetachTooLate(c) \/ WriteDetach(c) \/ DetachNotWritten(c)
             \/ HearDetached(c) \/ WriteAttach(c) \/ AttachNotWritten(c)
             \/ WriteFailed(c) \/ CloseMine(c) \/ HearAttached(c)
             \/ HearAttachFailed(c)
      PROVE  UNCHANGED records
  BY <1>1 DEF start, Connect, Handshake, maps, HandshakeTooLate, Listen, StartNotWritten,
       HearStarted, HearStartFailed, confirm_pending, ConfirmFails, StartLeftToOthers,
       StartNotPublished, TakeEventSlot, DetachTooLate, WriteDetach, DetachNotWritten,
       HearDetached, WriteAttach, AttachNotWritten, WriteFailed, CloseMine, HearAttached,
       HearAttachFailed
<1>2. ASSUME NEW c \in Callers, NEW s \in Sessions, detach(c, s)
      PROVE  UNCHANGED records
  BY <1>2 DEF detach, maps
<1>3. ASSUME NEW t \in Transports,
             \/ ReadWhileStopping(t) \/ ReadStopped(t) \/ FinishReader(t)
             \/ BrokerStarts(t) \/ BrokerDelivers(t) \/ BrokerConfirms(t)
             \/ BrokerAttaches(t) \/ BrokerDetaches(t) \/ BrokerStops(t)
             \/ BrokerNotices(t) \/ ConnectionCut(t) \/ CloseTransport(t)
             \/ TakeOverTransport(t)
      PROVE  UNCHANGED records
  BY <1>3 DEF ReadWhileStopping, ReadStopped, FinishReader, BrokerStarts, Requested,
       UnchangedByRequests, maps, BrokerDelivers, UnchangedByBroker, BrokerConfirms,
       BrokerAttaches, BrokerDetaches, BrokerStops, BrokerNotices, ConnectionCut, CloseTransport,
       TakeOverTransport
<1>4. ASSUME \/ WriteStop \/ StopNotWritten \/ HearStopped \/ StopWaiting
             \/ FinishTransport \/ EndShutdown
      PROVE  UNCHANGED records
  BY <1>4 DEF WriteStop, StopNotWritten, HearStopped, StopWaiting, FinishTransport, EndShutdown
<1>5. ASSUME NEW s \in Sessions,
             \/ SpawnWorker(s) \/ JoinWorker(s) \/ AbandonWorker(s)
             \/ WorkerBegins(s) \/ WorkerConnects(s) \/ WorkerCannotConnect(s)
             \/ WorkerStops(s) \/ WorkerAttaches(s)
             \/ WorkerReads(s, "read_attach", "attached", "stop")
             \/ WorkerReads(s, "read_stop", "stopped", "finish")
             \/ WorkerRequestsStop(s) \/ WorkerFinishes(s) \/ AgentExits(s)
             \/ BrokerAnnounces(s)
      PROVE  UNCHANGED records
  BY <1>5 DEF SpawnWorker, JoinWorker, AbandonWorker, WorkerBegins, UnchangedByWorker,
       WorkerConnects, WorkerCannotConnect, WorkerStops, WorkerAttaches, WorkerWrites,
       WorkerReads, WorkerRequestsStop, WorkerFinishes, AgentExits, UnchangedByBroker,
       UnchangedByRequests, maps, BrokerAnnounces
<1>. QED
  BY <1>1, <1>2, <1>3, <1>4, <1>5 DEF Next, CallerStep, ReaderStep, BrokerStep, MainStep, WorkerStep

(* The steps that change what a connection is for.                         *)
LEMMA BindingMovers ==
    ASSUME Next, binding' # binding
    PROVE  \/ \E c \in Callers :
                \/ Connect(c) \/ confirm_pending(c) \/ publish_pending(c)
                \/ discard_pending(c) \/ WriteDetach(c) \/ WriteAttach(c)
                \/ LoseTransport(c)
           \/ \E t \in Transports :
                \/ ReadStarted(t) \/ ReadPendingOver(t) \/ ReadOver(t)
                \/ ReadAttached(t) \/ ReadDetached(t) \/ ReadStopped(t)
                \/ ReadUnexpected(t) \/ ReadEnd(t) \/ CloseTransport(t)
                \/ TakeOverTransport(t)
           \/ \E s \in Sessions : WorkerConnects(s)
<1>1. ASSUME NEW c \in Callers,
             \/ start(c) \/ CannotConnect(c) \/ Handshake(c) \/ HandshakeFails(c)
             \/ HandshakeTooLate(c) \/ Listen(c) \/ StartNotWritten(c)
             \/ HearStarted(c) \/ HearStartFailed(c) \/ ConfirmFails(c)
             \/ StartLeftToOthers(c) \/ StartNotPublished(c) \/ TakeEventSlot(c)
             \/ DetachTooLate(c) \/ DetachNotWritten(c) \/ HearDetached(c)
             \/ AttachNotWritten(c) \/ WriteFailed(c) \/ CloseMine(c)
             \/ HearAttached(c) \/ HearAttachFailed(c)
      PROVE  UNCHANGED binding
  BY <1>1 DEF start, Begin, conns, CannotConnect, Handshake, HandshakeFails, HandshakeTooLate,
       Listen, StartNotWritten, HearStarted, HearStartFailed, ConfirmFails, StartLeftToOthers,
       StartNotPublished, TakeEventSlot, DetachTooLate, DetachNotWritten, HearDetached,
       AttachNotWritten, WriteFailed, CloseMine, HearAttached, HearAttachFailed
<1>2. ASSUME NEW c \in Callers, NEW s \in Sessions, reattach(c, s) \/ detach(c, s)
      PROVE  UNCHANGED binding
  BY <1>2 DEF reattach, Begin, conns, detach
<1>3. ASSUME NEW t \in Transports,
             \/ ReadWhileStopping(t) \/ FinishReader(t) \/ BrokerStarts(t)
             \/ BrokerDelivers(t) \/ BrokerConfirms(t) \/ BrokerAttaches(t)
             \/ BrokerDetaches(t) \/ BrokerStops(t) \/ BrokerNotices(t)
             \/ ConnectionCut(t)
      PROVE  UNCHANGED binding
  BY <1>3 DEF ReadWhileStopping, FinishReader, BrokerStarts, Requested, UnchangedByRequests,
       conns, BrokerDelivers, UnchangedByBroker, BrokerConfirms, BrokerAttaches, BrokerDetaches,
       BrokerStops, BrokerNotices, ConnectionCut
<1>4. ASSUME \/ BeginShutdown \/ WriteStop \/ StopNotWritten \/ HearStopped
             \/ StopWaiting \/ FinishTransport \/ EndShutdown
      PROVE  UNCHANGED binding
  BY <1>4 DEF BeginShutdown, conns, WriteStop, StopNotWritten, HearStopped, StopWaiting,
       FinishTransport, EndShutdown
<1>5. ASSUME NEW s \in Sessions,
             \/ SpawnWorker(s) \/ JoinWorker(s) \/ AbandonWorker(s)
             \/ WorkerBegins(s) \/ WorkerCannotConnect(s) \/ WorkerStops(s)
             \/ WorkerAttaches(s)
             \/ WorkerReads(s, "read_attach", "attached", "stop")
             \/ WorkerReads(s, "read_stop", "stopped", "finish")
             \/ WorkerRequestsStop(s) \/ WorkerFinishes(s) \/ AgentExits(s)
             \/ BrokerAnnounces(s)
      PROVE  UNCHANGED binding
  BY <1>5 DEF SpawnWorker, JoinWorker, AbandonWorker, WorkerBegins, WorkerCannotConnect,
       WorkerStops, WorkerAttaches, WorkerWrites, WorkerReads, WorkerRequestsStop, WorkerFinishes,
       AgentExits, UnchangedByBroker, UnchangedByRequests, conns, BrokerAnnounces
<1>. QED
  BY <1>1, <1>2, <1>3, <1>4, <1>5 DEF Next, CallerStep, ReaderStep, BrokerStep, MainStep, WorkerStep

(* A connection gets its session from a command, or from its PtyStarted.   *)
LEMMA KeyMovers ==
    ASSUME Next, key' # key
    PROVE  \/ \E c \in Callers : Connect(c)
           \/ \E t \in Transports : ReadStarted(t)
<1>1. ASSUME NEW c \in Callers,
             \/ start(c) \/ CannotConnect(c) \/ Handshake(c) \/ HandshakeFails(c)
             \/ HandshakeTooLate(c) \/ Listen(c) \/ StartNotWritten(c)
             \/ HearStarted(c) \/ HearStartFailed(c) \/ confirm_pending(c)
             \/ ConfirmFails(c) \/ publish_pending(c) \/ StartLeftToOthers(c)
             \/ StartNotPublished(c) \/ discard_pending(c) \/ TakeEventSlot(c)
             \/ DetachTooLate(c) \/ WriteDetach(c) \/ DetachNotWritten(c)
             \/ HearDetached(c) \/ WriteAttach(c) \/ AttachNotWritten(c)
             \/ WriteFailed(c) \/ LoseTransport(c) \/ CloseMine(c)
             \/ HearAttached(c) \/ HearAttachFailed(c)
      PROVE  UNCHANGED key
  BY <1>1 DEF start, Begin, conns, CannotConnect, Handshake, HandshakeFails, HandshakeTooLate,
       Listen, StartNotWritten, HearStarted, HearStartFailed, confirm_pending, ConfirmFails,
       publish_pending, StartLeftToOthers, StartNotPublished, discard_pending, TakeEventSlot,
       DetachTooLate, WriteDetach, DetachNotWritten, HearDetached, WriteAttach, AttachNotWritten,
       WriteFailed, LoseTransport, CloseMine, HearAttached, HearAttachFailed
<1>2. ASSUME NEW c \in Callers, NEW s \in Sessions, reattach(c, s) \/ detach(c, s)
      PROVE  UNCHANGED key
  BY <1>2 DEF reattach, Begin, conns, detach
<1>3. ASSUME NEW t \in Transports,
             \/ ReadPendingOver(t) \/ ReadOver(t) \/ ReadAttached(t)
             \/ ReadDetached(t) \/ ReadWhileStopping(t) \/ ReadStopped(t)
             \/ ReadUnexpected(t) \/ ReadEnd(t) \/ FinishReader(t)
             \/ BrokerStarts(t) \/ BrokerDelivers(t) \/ BrokerConfirms(t)
             \/ BrokerAttaches(t) \/ BrokerDetaches(t) \/ BrokerStops(t)
             \/ BrokerNotices(t) \/ ConnectionCut(t) \/ CloseTransport(t)
             \/ TakeOverTransport(t)
      PROVE  UNCHANGED key
  BY <1>3 DEF ReadPendingOver, ReadsLast, ReadOver, ReadAttached, ReadDetached, ReadWhileStopping,
       ReadStopped, ReadUnexpected, ReadEnd, FinishReader, BrokerStarts, Requested,
       UnchangedByRequests, conns, BrokerDelivers, UnchangedByBroker, BrokerConfirms,
       BrokerAttaches, BrokerDetaches, BrokerStops, BrokerNotices, ConnectionCut, CloseTransport,
       UnchangedByMain, TakeOverTransport
<1>4. ASSUME \/ BeginShutdown \/ WriteStop \/ StopNotWritten \/ HearStopped
             \/ StopWaiting \/ FinishTransport \/ EndShutdown
      PROVE  UNCHANGED key
  BY <1>4 DEF BeginShutdown, conns, WriteStop, UnchangedByMain, StopNotWritten, HearStopped,
       StopWaiting, FinishTransport, EndShutdown
<1>5. ASSUME NEW s \in Sessions,
             \/ SpawnWorker(s) \/ JoinWorker(s) \/ AbandonWorker(s)
             \/ WorkerBegins(s) \/ WorkerConnects(s) \/ WorkerCannotConnect(s)
             \/ WorkerStops(s) \/ WorkerAttaches(s)
             \/ WorkerReads(s, "read_attach", "attached", "stop")
             \/ WorkerReads(s, "read_stop", "stopped", "finish")
             \/ WorkerRequestsStop(s) \/ WorkerFinishes(s) \/ AgentExits(s)
             \/ BrokerAnnounces(s)
      PROVE  UNCHANGED key
  BY <1>5 DEF SpawnWorker, UnchangedByMain, JoinWorker, AbandonWorker, WorkerBegins,
       UnchangedByWorker, WorkerConnects, WorkerCannotConnect, WorkerStops, WorkerAttaches,
       WorkerWrites, WorkerReads, WorkerRequestsStop, WorkerFinishes, AgentExits,
       UnchangedByBroker, UnchangedByRequests, conns, BrokerAnnounces
<1>. QED
  BY <1>1, <1>2, <1>3, <1>4, <1>5 DEF Next, CallerStep, ReaderStep, BrokerStep, MainStep, WorkerStep

(* The steps that change where events go.                                  *)
LEMMA SenderMovers ==
    ASSUME Next, event_sender' # event_sender
    PROVE  \/ \E c \in Callers :
                \/ CannotConnect(c) \/ HandshakeFails(c) \/ HandshakeTooLate(c)
                \/ Listen(c) \/ StartNotWritten(c) \/ HearStartFailed(c)
                \/ publish_pending(c) \/ StartLeftToOthers(c) \/ discard_pending(c)
                \/ TakeEventSlot(c) \/ DetachTooLate(c) \/ HearDetached(c)
                \/ WriteFailed(c) \/ CloseMine(c) \/ HearAttached(c)
                \/ HearAttachFailed(c)
           \/ \E t \in Transports : TakeOverTransport(t)
           \/ FinishTransport
<1>1. ASSUME NEW c \in Callers,
             \/ start(c) \/ Connect(c) \/ Handshake(c) \/ HearStarted(c)
             \/ confirm_pending(c) \/ ConfirmFails(c) \/ StartNotPublished(c)
             \/ WriteDetach(c) \/ DetachNotWritten(c) \/ WriteAttach(c)
             \/ AttachNotWritten(c) \/ LoseTransport(c)
      PROVE  UNCHANGED event_sender
  BY <1>1 DEF start, Begin, conns, Connect, Handshake, HearStarted, confirm_pending, ConfirmFails,
       StartNotPublished, WriteDetach, DetachNotWritten, WriteAttach, AttachNotWritten,
       LoseTransport
<1>2. ASSUME NEW c \in Callers, NEW s \in Sessions, reattach(c, s) \/ detach(c, s)
      PROVE  UNCHANGED event_sender
  BY <1>2 DEF reattach, Begin, conns, detach
<1>3. ASSUME NEW t \in Transports,
             \/ ReadStarted(t) \/ ReadPendingOver(t) \/ ReadOver(t)
             \/ ReadAttached(t) \/ ReadDetached(t) \/ ReadWhileStopping(t)
             \/ ReadStopped(t) \/ ReadUnexpected(t) \/ ReadEnd(t) \/ FinishReader(t)
             \/ BrokerStarts(t) \/ BrokerDelivers(t) \/ BrokerConfirms(t)
             \/ BrokerAttaches(t) \/ BrokerDetaches(t) \/ BrokerStops(t)
             \/ BrokerNotices(t) \/ ConnectionCut(t) \/ CloseTransport(t)
      PROVE  UNCHANGED event_sender
  BY <1>3 DEF ReadStarted, Reads, ReadPendingOver, ReadOver, ReadAttached, ReadDetached,
       ReadWhileStopping, ReadStopped, ReadUnexpected, ReadEnd, FinishReader, BrokerStarts,
       Requested, UnchangedByRequests, conns, BrokerDelivers, UnchangedByBroker, BrokerConfirms,
       BrokerAttaches, BrokerDetaches, BrokerStops, BrokerNotices, ConnectionCut, CloseTransport
<1>4. ASSUME \/ BeginShutdown \/ WriteStop \/ StopNotWritten \/ HearStopped
             \/ StopWaiting \/ EndShutdown
      PROVE  UNCHANGED event_sender
  BY <1>4 DEF BeginShutdown, conns, WriteStop, StopNotWritten, HearStopped, StopWaiting,
       EndShutdown
<1>5. ASSUME NEW s \in Sessions,
             \/ SpawnWorker(s) \/ JoinWorker(s) \/ AbandonWorker(s)
             \/ WorkerBegins(s) \/ WorkerConnects(s) \/ WorkerCannotConnect(s)
             \/ WorkerStops(s) \/ WorkerAttaches(s)
             \/ WorkerReads(s, "read_attach", "attached", "stop")
             \/ WorkerReads(s, "read_stop", "stopped", "finish")
             \/ WorkerRequestsStop(s) \/ WorkerFinishes(s) \/ AgentExits(s)
             \/ BrokerAnnounces(s)
      PROVE  UNCHANGED event_sender
  BY <1>5 DEF SpawnWorker, JoinWorker, AbandonWorker, WorkerBegins, UnchangedByWorker,
       WorkerConnects, WorkerCannotConnect, WorkerStops, WorkerAttaches, WorkerWrites,
       WorkerReads, WorkerRequestsStop, WorkerFinishes, AgentExits, UnchangedByBroker,
       UnchangedByRequests, conns, BrokerAnnounces
<1>. QED
  BY <1>1, <1>2, <1>3, <1>4, <1>5 DEF Next, CallerStep, ReaderStep, BrokerStep, MainStep, WorkerStep

(* The steps that register, connect and close a connection.                *)
LEMMA LinkMovers ==
    ASSUME Next, <<transports, link>>' # <<transports, link>>
    PROVE  \/ \E c \in Callers :
                \/ Connect(c) \/ HandshakeFails(c) \/ StartNotWritten(c)
                \/ HearStartFailed(c) \/ discard_pending(c) \/ CloseMine(c)
           \/ \E t \in Transports : FinishReader(t) \/ ConnectionCut(t) \/ CloseTransport(t)
           \/ FinishTransport
           \/ \E s \in Sessions : AbandonWorker(s) \/ WorkerConnects(s) \/ WorkerFinishes(s)
<1>1. ASSUME NEW c \in Callers,
             \/ start(c) \/ CannotConnect(c) \/ Handshake(c) \/ HandshakeTooLate(c)
             \/ Listen(c) \/ HearStarted(c) \/ confirm_pending(c) \/ ConfirmFails(c)
             \/ publish_pending(c) \/ StartLeftToOthers(c) \/ StartNotPublished(c)
             \/ TakeEventSlot(c) \/ DetachTooLate(c) \/ WriteDetach(c)
             \/ DetachNotWritten(c) \/ HearDetached(c) \/ WriteAttach(c)
             \/ AttachNotWritten(c) \/ WriteFailed(c) \/ LoseTransport(c)
             \/ HearAttached(c) \/ HearAttachFailed(c)
      PROVE  UNCHANGED <<transports, link>>
  BY <1>1 DEF start, Begin, conns, CannotConnect, Handshake, maps, HandshakeTooLate, Listen,
       HearStarted, confirm_pending, ConfirmFails, publish_pending, StartLeftToOthers,
       StartNotPublished, TakeEventSlot, DetachTooLate, WriteDetach, DetachNotWritten,
       HearDetached, WriteAttach, AttachNotWritten, WriteFailed, LoseTransport, HearAttached,
       HearAttachFailed
<1>2. ASSUME NEW c \in Callers, NEW s \in Sessions, reattach(c, s) \/ detach(c, s)
      PROVE  UNCHANGED <<transports, link>>
  BY <1>2 DEF reattach, Begin, conns, detach, maps
<1>3. ASSUME NEW t \in Transports,
             \/ ReadStarted(t) \/ ReadPendingOver(t) \/ ReadOver(t)
             \/ ReadAttached(t) \/ ReadDetached(t) \/ ReadWhileStopping(t)
             \/ ReadStopped(t) \/ ReadUnexpected(t) \/ ReadEnd(t) \/ BrokerStarts(t)
             \/ BrokerDelivers(t) \/ BrokerConfirms(t) \/ BrokerAttaches(t)
             \/ BrokerDetaches(t) \/ BrokerStops(t) \/ BrokerNotices(t)
             \/ TakeOverTransport(t)
      PROVE  UNCHANGED <<transports, link>>
  BY <1>3 DEF ReadStarted, Reads, ReadPendingOver, ReadOver, ReadAttached, ReadDetached,
       ReadWhileStopping, ReadStopped, ReadUnexpected, ReadEnd, BrokerStarts, Requested,
       UnchangedByRequests, maps, conns, BrokerDelivers, UnchangedByBroker, BrokerConfirms,
       BrokerAttaches, BrokerDetaches, BrokerStops, BrokerNotices, TakeOverTransport
<1>4. ASSUME \/ BeginShutdown \/ WriteStop \/ StopNotWritten \/ HearStopped
             \/ StopWaiting \/ EndShutdown
      PROVE  UNCHANGED <<transports, link>>
  BY <1>4 DEF BeginShutdown, conns, WriteStop, StopNotWritten, HearStopped, StopWaiting,
       EndShutdown
<1>5. ASSUME NEW s \in Sessions,
             \/ SpawnWorker(s) \/ JoinWorker(s) \/ WorkerBegins(s)
             \/ WorkerCannotConnect(s) \/ WorkerStops(s) \/ WorkerAttaches(s)
             \/ WorkerReads(s, "read_attach", "attached", "stop")
             \/ WorkerReads(s, "read_stop", "stopped", "finish")
             \/ WorkerRequestsStop(s) \/ AgentExits(s) \/ BrokerAnnounces(s)
      PROVE  UNCHANGED <<transports, link>>
  BY <1>5 DEF SpawnWorker, JoinWorker, WorkerBegins, WorkerCannotConnect, WorkerStops,
       WorkerAttaches, WorkerWrites, WorkerReads, WorkerRequestsStop, AgentExits,
       UnchangedByBroker, UnchangedByRequests, maps, conns, BrokerAnnounces
<1>. QED
  BY <1>1, <1>2, <1>3, <1>4, <1>5 DEF Next, CallerStep, ReaderStep, BrokerStep, MainStep, WorkerStep

(* Only commands move themselves.                                          *)
LEMMA CallMovers ==
    ASSUME Next, calls' # calls
    PROVE  \/ \E c \in Callers :
                \/ start(c) \/ Connect(c) \/ CannotConnect(c) \/ Handshake(c)
                \/ HandshakeFails(c) \/ HandshakeTooLate(c) \/ Listen(c)
                \/ StartNotWritten(c) \/ HearStarted(c) \/ HearStartFailed(c)
                \/ confirm_pending(c) \/ ConfirmFails(c) \/ publish_pending(c)
                \/ StartLeftToOthers(c) \/ StartNotPublished(c) \/ discard_pending(c)
                \/ TakeEventSlot(c) \/ DetachTooLate(c) \/ WriteDetach(c)
                \/ DetachNotWritten(c) \/ HearDetached(c) \/ WriteAttach(c)
                \/ AttachNotWritten(c) \/ WriteFailed(c) \/ LoseTransport(c)
                \/ CloseMine(c) \/ HearAttached(c) \/ HearAttachFailed(c)
           \/ \E c \in Callers, s \in Sessions : reattach(c, s) \/ detach(c, s)
<1>1. ASSUME NEW t \in Transports,
             \/ ReadStarted(t) \/ ReadPendingOver(t) \/ ReadOver(t)
             \/ ReadAttached(t) \/ ReadDetached(t) \/ ReadWhileStopping(t)
             \/ ReadStopped(t) \/ ReadUnexpected(t) \/ ReadEnd(t) \/ FinishReader(t)
             \/ BrokerStarts(t) \/ BrokerDelivers(t) \/ BrokerConfirms(t)
             \/ BrokerAttaches(t) \/ BrokerDetaches(t) \/ BrokerStops(t)
             \/ BrokerNotices(t) \/ ConnectionCut(t) \/ CloseTransport(t)
             \/ TakeOverTransport(t)
      PROVE  UNCHANGED calls
  BY <1>1 DEF calls, ReadStarted, Reads, ReadPendingOver, ReadOver, ReadAttached, ReadDetached,
       ReadWhileStopping, ReadStopped, ReadUnexpected, ReadEnd, FinishReader, BrokerStarts,
       Requested, UnchangedByRequests, BrokerDelivers, UnchangedByBroker, BrokerConfirms,
       BrokerAttaches, BrokerDetaches, BrokerStops, BrokerNotices, ConnectionCut, CloseTransport,
       UnchangedByMain, TakeOverTransport
<1>2. ASSUME \/ BeginShutdown \/ WriteStop \/ StopNotWritten \/ HearStopped
             \/ StopWaiting \/ FinishTransport \/ EndShutdown
      PROVE  UNCHANGED calls
  BY <1>2 DEF calls, BeginShutdown, WriteStop, UnchangedByMain, StopNotWritten, HearStopped,
       StopWaiting, FinishTransport, EndShutdown
<1>3. ASSUME NEW s \in Sessions,
             \/ SpawnWorker(s) \/ JoinWorker(s) \/ AbandonWorker(s)
             \/ WorkerBegins(s) \/ WorkerConnects(s) \/ WorkerCannotConnect(s)
             \/ WorkerStops(s) \/ WorkerAttaches(s)
             \/ WorkerReads(s, "read_attach", "attached", "stop")
             \/ WorkerReads(s, "read_stop", "stopped", "finish")
             \/ WorkerRequestsStop(s) \/ WorkerFinishes(s) \/ AgentExits(s)
             \/ BrokerAnnounces(s)
      PROVE  UNCHANGED calls
  BY <1>3 DEF calls, SpawnWorker, UnchangedByMain, JoinWorker, AbandonWorker, WorkerBegins,
       UnchangedByWorker, WorkerConnects, WorkerCannotConnect, WorkerStops, WorkerAttaches,
       WorkerWrites, WorkerReads, WorkerRequestsStop, WorkerFinishes, AgentExits,
       UnchangedByBroker, UnchangedByRequests, BrokerAnnounces
<1>. QED
  BY <1>1, <1>2, <1>3 DEF Next, CallerStep, ReaderStep, BrokerStep, MainStep, WorkerStep

(* The steps that send or receive an event.                                *)
LEMMA EventMovers ==
    ASSUME Next, events' # events
    PROVE  \/ \E c \in Callers :
                \/ CannotConnect(c) \/ HandshakeFails(c) \/ HandshakeTooLate(c)
                \/ StartNotWritten(c) \/ HearStarted(c) \/ HearStartFailed(c)
                \/ publish_pending(c) \/ StartLeftToOthers(c) \/ discard_pending(c)
                \/ DetachTooLate(c) \/ HearDetached(c) \/ WriteFailed(c)
                \/ LoseTransport(c) \/ CloseMine(c) \/ HearAttached(c)
                \/ HearAttachFailed(c)
           \/ \E t \in Transports :
                \/ ReadStarted(t) \/ ReadPendingOver(t) \/ ReadOver(t)
                \/ ReadAttached(t) \/ ReadDetached(t) \/ ReadStopped(t)
                \/ ReadUnexpected(t) \/ ReadEnd(t)
           \/ FinishTransport
<1>1. ASSUME NEW c \in Callers,
             \/ start(c) \/ Connect(c) \/ Handshake(c) \/ Listen(c)
             \/ confirm_pending(c) \/ ConfirmFails(c) \/ StartNotPublished(c)
             \/ TakeEventSlot(c) \/ WriteDetach(c) \/ DetachNotWritten(c)
             \/ WriteAttach(c) \/ AttachNotWritten(c)
      PROVE  UNCHANGED events
  BY <1>1 DEF start, Begin, Connect, Handshake, Listen, confirm_pending, ConfirmFails,
       StartNotPublished, TakeEventSlot, WriteDetach, DetachNotWritten, WriteAttach,
       AttachNotWritten
<1>2. ASSUME NEW c \in Callers, NEW s \in Sessions, reattach(c, s) \/ detach(c, s)
      PROVE  UNCHANGED events
  BY <1>2 DEF reattach, Begin, detach
<1>3. ASSUME NEW t \in Transports,
             \/ ReadWhileStopping(t) \/ FinishReader(t) \/ BrokerStarts(t)
             \/ BrokerDelivers(t) \/ BrokerConfirms(t) \/ BrokerAttaches(t)
             \/ BrokerDetaches(t) \/ BrokerStops(t) \/ BrokerNotices(t)
             \/ ConnectionCut(t) \/ CloseTransport(t) \/ TakeOverTransport(t)
      PROVE  UNCHANGED events
  BY <1>3 DEF ReadWhileStopping, FinishReader, BrokerStarts, Requested, UnchangedByRequests,
       BrokerDelivers, UnchangedByBroker, BrokerConfirms, BrokerAttaches, BrokerDetaches,
       BrokerStops, BrokerNotices, ConnectionCut, CloseTransport, TakeOverTransport
<1>4. ASSUME \/ BeginShutdown \/ WriteStop \/ StopNotWritten \/ HearStopped
             \/ StopWaiting \/ EndShutdown
      PROVE  UNCHANGED events
  BY <1>4 DEF BeginShutdown, WriteStop, StopNotWritten, HearStopped, StopWaiting, EndShutdown
<1>5. ASSUME NEW s \in Sessions,
             \/ SpawnWorker(s) \/ JoinWorker(s) \/ AbandonWorker(s)
             \/ WorkerBegins(s) \/ WorkerConnects(s) \/ WorkerCannotConnect(s)
             \/ WorkerStops(s) \/ WorkerAttaches(s)
             \/ WorkerReads(s, "read_attach", "attached", "stop")
             \/ WorkerReads(s, "read_stop", "stopped", "finish")
             \/ WorkerRequestsStop(s) \/ WorkerFinishes(s) \/ AgentExits(s)
             \/ BrokerAnnounces(s)
      PROVE  UNCHANGED events
  BY <1>5 DEF SpawnWorker, JoinWorker, AbandonWorker, WorkerBegins, UnchangedByWorker,
       WorkerConnects, WorkerCannotConnect, WorkerStops, WorkerAttaches, WorkerWrites,
       WorkerReads, WorkerRequestsStop, WorkerFinishes, AgentExits, UnchangedByBroker,
       UnchangedByRequests, BrokerAnnounces
<1>. QED
  BY <1>1, <1>2, <1>3, <1>4, <1>5 DEF Next, CallerStep, ReaderStep, BrokerStep, MainStep, WorkerStep

(* Only the shutdown makes plans.                                          *)
LEMMA PlanMovers ==
    ASSUME Next, plan' # plan
    PROVE  \/ \E t \in Transports : CloseTransport(t) \/ TakeOverTransport(t)
           \/ BeginShutdown \/ WriteStop \/ StopNotWritten \/ HearStopped
           \/ StopWaiting \/ FinishTransport \/ EndShutdown
           \/ \E s \in Sessions : SpawnWorker(s) \/ JoinWorker(s) \/ AbandonWorker(s)
<1>1. ASSUME NEW c \in Callers,
             \/ start(c) \/ Connect(c) \/ CannotConnect(c) \/ Handshake(c)
             \/ HandshakeFails(c) \/ HandshakeTooLate(c) \/ Listen(c)
             \/ StartNotWritten(c) \/ HearStarted(c) \/ HearStartFailed(c)
             \/ confirm_pending(c) \/ ConfirmFails(c) \/ publish_pending(c)
             \/ StartLeftToOthers(c) \/ StartNotPublished(c) \/ discard_pending(c)
             \/ TakeEventSlot(c) \/ DetachTooLate(c) \/ WriteDetach(c)
             \/ DetachNotWritten(c) \/ HearDetached(c) \/ WriteAttach(c)
             \/ AttachNotWritten(c) \/ WriteFailed(c) \/ LoseTransport(c)
             \/ CloseMine(c) \/ HearAttached(c) \/ HearAttachFailed(c)
      PROVE  UNCHANGED plan
  BY <1>1 DEF plan, start, Begin, UnchangedElsewhere, UnchangedByCommands, Connect, CannotConnect,
       Handshake, HandshakeFails, HandshakeTooLate, Listen, StartNotWritten, HearStarted,
       HearStartFailed, MayInterrupt, confirm_pending, ConfirmFails, publish_pending,
       StartLeftToOthers, StartNotPublished, discard_pending, TakeEventSlot, DetachTooLate,
       WriteDetach, DetachNotWritten, HearDetached, WriteAttach, AttachNotWritten, WriteFailed,
       LoseTransport, CloseMine, HearAttached, HearAttachFailed
<1>2. ASSUME NEW c \in Callers, NEW s \in Sessions, reattach(c, s) \/ detach(c, s)
      PROVE  UNCHANGED plan
  BY <1>2 DEF plan, reattach, Begin, UnchangedElsewhere, UnchangedByCommands, detach
<1>3. ASSUME NEW t \in Transports,
             \/ ReadStarted(t) \/ ReadPendingOver(t) \/ ReadOver(t)
             \/ ReadAttached(t) \/ ReadDetached(t) \/ ReadWhileStopping(t)
             \/ ReadStopped(t) \/ ReadUnexpected(t) \/ ReadEnd(t) \/ FinishReader(t)
             \/ BrokerStarts(t) \/ BrokerDelivers(t) \/ BrokerConfirms(t)
             \/ BrokerAttaches(t) \/ BrokerDetaches(t) \/ BrokerStops(t)
             \/ BrokerNotices(t) \/ ConnectionCut(t)
      PROVE  UNCHANGED plan
  BY <1>3 DEF plan, ReadStarted, Reads, UnchangedElsewhere, UnchangedByCommands, ReadPendingOver,
       ReadOver, ReadAttached, ReadDetached, ReadWhileStopping, ReadStopped, ReadUnexpected,
       ReadEnd, FinishReader, BrokerStarts, Requested, UnchangedByRequests, BrokerDelivers,
       UnchangedByBroker, BrokerConfirms, BrokerAttaches, BrokerDetaches, BrokerStops,
       BrokerNotices, ConnectionCut
<1>4. ASSUME NEW s \in Sessions,
             \/ WorkerBegins(s) \/ WorkerConnects(s) \/ WorkerCannotConnect(s)
             \/ WorkerStops(s) \/ WorkerAttaches(s)
             \/ WorkerReads(s, "read_attach", "attached", "stop")
             \/ WorkerReads(s, "read_stop", "stopped", "finish")
             \/ WorkerRequestsStop(s) \/ WorkerFinishes(s) \/ AgentExits(s)
             \/ BrokerAnnounces(s)
      PROVE  UNCHANGED plan
  BY <1>4 DEF plan, WorkerBegins, UnchangedByWorker, WorkerConnects, WorkerCannotConnect,
       WorkerStops, WorkerAttaches, WorkerWrites, WorkerReads, WorkerRequestsStop, WorkerFinishes,
       AgentExits, UnchangedByBroker, UnchangedByRequests, BrokerAnnounces
<1>. QED
  BY <1>1, <1>2, <1>3, <1>4 DEF Next, CallerStep, ReaderStep, BrokerStep, MainStep, WorkerStep

(* The steps of the workers, and those by which the shutdown starts one or *)
(* gives one up.                                                           *)
LEMMA WorkerMovers ==
    ASSUME Next, workers' # workers
    PROVE  \E s \in Sessions :
                \/ SpawnWorker(s) \/ AbandonWorker(s) \/ WorkerBegins(s)
                \/ WorkerConnects(s) \/ WorkerCannotConnect(s) \/ WorkerStops(s)
                \/ WorkerAttaches(s)
                \/ WorkerReads(s, "read_attach", "attached", "stop")
                \/ WorkerReads(s, "read_stop", "stopped", "finish")
                \/ WorkerRequestsStop(s) \/ WorkerFinishes(s)
<1>1. ASSUME NEW c \in Callers,
             \/ start(c) \/ Connect(c) \/ CannotConnect(c) \/ Handshake(c)
             \/ HandshakeFails(c) \/ HandshakeTooLate(c) \/ Listen(c)
             \/ StartNotWritten(c) \/ HearStarted(c) \/ HearStartFailed(c)
             \/ confirm_pending(c) \/ ConfirmFails(c) \/ publish_pending(c)
             \/ StartLeftToOthers(c) \/ StartNotPublished(c) \/ discard_pending(c)
             \/ TakeEventSlot(c) \/ DetachTooLate(c) \/ WriteDetach(c)
             \/ DetachNotWritten(c) \/ HearDetached(c) \/ WriteAttach(c)
             \/ AttachNotWritten(c) \/ WriteFailed(c) \/ LoseTransport(c)
             \/ CloseMine(c) \/ HearAttached(c) \/ HearAttachFailed(c)
      PROVE  UNCHANGED workers
  BY <1>1 DEF workers, start, Begin, UnchangedElsewhere, UnchangedByCommands, Connect,
       CannotConnect, Handshake, HandshakeFails, HandshakeTooLate, Listen, StartNotWritten,
       HearStarted, HearStartFailed, MayInterrupt, confirm_pending, ConfirmFails, publish_pending,
       StartLeftToOthers, StartNotPublished, discard_pending, TakeEventSlot, DetachTooLate,
       WriteDetach, DetachNotWritten, HearDetached, WriteAttach, AttachNotWritten, WriteFailed,
       LoseTransport, CloseMine, HearAttached, HearAttachFailed
<1>2. ASSUME NEW c \in Callers, NEW s \in Sessions, reattach(c, s) \/ detach(c, s)
      PROVE  UNCHANGED workers
  BY <1>2 DEF workers, reattach, Begin, UnchangedElsewhere, UnchangedByCommands, detach
<1>3. ASSUME NEW t \in Transports,
             \/ ReadStarted(t) \/ ReadPendingOver(t) \/ ReadOver(t)
             \/ ReadAttached(t) \/ ReadDetached(t) \/ ReadWhileStopping(t)
             \/ ReadStopped(t) \/ ReadUnexpected(t) \/ ReadEnd(t) \/ FinishReader(t)
             \/ BrokerStarts(t) \/ BrokerDelivers(t) \/ BrokerConfirms(t)
             \/ BrokerAttaches(t) \/ BrokerDetaches(t) \/ BrokerStops(t)
             \/ BrokerNotices(t) \/ ConnectionCut(t) \/ CloseTransport(t)
             \/ TakeOverTransport(t)
      PROVE  UNCHANGED workers
  BY <1>3 DEF workers, ReadStarted, Reads, UnchangedElsewhere, UnchangedByCommands,
       ReadPendingOver, ReadOver, ReadAttached, ReadDetached, ReadWhileStopping, ReadStopped,
       ReadUnexpected, ReadEnd, FinishReader, BrokerStarts, Requested, UnchangedByRequests,
       BrokerDelivers, UnchangedByBroker, BrokerConfirms, BrokerAttaches, BrokerDetaches,
       BrokerStops, BrokerNotices, ConnectionCut, CloseTransport, TakeOverTransport
<1>4. ASSUME \/ BeginShutdown \/ WriteStop \/ StopNotWritten \/ HearStopped
             \/ StopWaiting \/ FinishTransport \/ EndShutdown
      PROVE  UNCHANGED workers
  BY <1>4 DEF workers, BeginShutdown, WriteStop, StopNotWritten, HearStopped, StopWaiting,
       FinishTransport, EndShutdown
<1>5. ASSUME NEW s \in Sessions, JoinWorker(s) \/ AgentExits(s) \/ BrokerAnnounces(s)
      PROVE  UNCHANGED workers
  BY <1>5 DEF workers, JoinWorker, AgentExits, UnchangedByBroker, UnchangedByRequests,
       BrokerAnnounces
<1>. QED
  BY <1>1, <1>2, <1>3, <1>4, <1>5 DEF Next, CallerStep, ReaderStep, BrokerStep, MainStep, WorkerStep

(* The steps that take a new id.                                           *)
LEMMA IdMovers ==
    ASSUME Next, next_transport_id' # next_transport_id
    PROVE  \/ \E c \in Callers : start(c)
           \/ \E c \in Callers, s \in Sessions : reattach(c, s)
           \/ \E s \in Sessions : SpawnWorker(s)
<1>1. ASSUME NEW c \in Callers,
             \/ Connect(c) \/ CannotConnect(c) \/ Handshake(c) \/ HandshakeFails(c)
             \/ HandshakeTooLate(c) \/ Listen(c) \/ StartNotWritten(c)
             \/ HearStarted(c) \/ HearStartFailed(c) \/ confirm_pending(c)
             \/ ConfirmFails(c) \/ publish_pending(c) \/ StartLeftToOthers(c)
             \/ StartNotPublished(c) \/ discard_pending(c) \/ TakeEventSlot(c)
             \/ DetachTooLate(c) \/ WriteDetach(c) \/ DetachNotWritten(c)
             \/ HearDetached(c) \/ WriteAttach(c) \/ AttachNotWritten(c)
             \/ WriteFailed(c) \/ LoseTransport(c) \/ CloseMine(c)
             \/ HearAttached(c) \/ HearAttachFailed(c)
      PROVE  UNCHANGED next_transport_id
  BY <1>1 DEF Connect, CannotConnect, Handshake, maps, HandshakeFails, HandshakeTooLate, Listen,
       StartNotWritten, HearStarted, HearStartFailed, confirm_pending, ConfirmFails,
       publish_pending, StartLeftToOthers, StartNotPublished, discard_pending, TakeEventSlot,
       DetachTooLate, WriteDetach, DetachNotWritten, HearDetached, WriteAttach, AttachNotWritten,
       WriteFailed, LoseTransport, CloseMine, HearAttached, HearAttachFailed
<1>2. ASSUME NEW c \in Callers, NEW s \in Sessions, detach(c, s)
      PROVE  UNCHANGED next_transport_id
  BY <1>2 DEF detach, maps
<1>3. ASSUME NEW t \in Transports,
             \/ ReadStarted(t) \/ ReadPendingOver(t) \/ ReadOver(t)
             \/ ReadAttached(t) \/ ReadDetached(t) \/ ReadWhileStopping(t)
             \/ ReadStopped(t) \/ ReadUnexpected(t) \/ ReadEnd(t) \/ FinishReader(t)
             \/ BrokerStarts(t) \/ BrokerDelivers(t) \/ BrokerConfirms(t)
             \/ BrokerAttaches(t) \/ BrokerDetaches(t) \/ BrokerStops(t)
             \/ BrokerNotices(t) \/ ConnectionCut(t) \/ CloseTransport(t)
             \/ TakeOverTransport(t)
      PROVE  UNCHANGED next_transport_id
  BY <1>3 DEF ReadStarted, Reads, ReadPendingOver, ReadOver, ReadAttached, ReadDetached,
       ReadWhileStopping, ReadStopped, ReadUnexpected, ReadEnd, FinishReader, BrokerStarts,
       Requested, UnchangedByRequests, maps, BrokerDelivers, UnchangedByBroker, BrokerConfirms,
       BrokerAttaches, BrokerDetaches, BrokerStops, BrokerNotices, ConnectionCut, CloseTransport,
       TakeOverTransport
<1>4. ASSUME \/ BeginShutdown \/ WriteStop \/ StopNotWritten \/ HearStopped
             \/ StopWaiting \/ FinishTransport \/ EndShutdown
      PROVE  UNCHANGED next_transport_id
  BY <1>4 DEF BeginShutdown, WriteStop, StopNotWritten, HearStopped, StopWaiting, FinishTransport,
       EndShutdown
<1>5. ASSUME NEW s \in Sessions,
             \/ JoinWorker(s) \/ AbandonWorker(s) \/ WorkerBegins(s)
             \/ WorkerConnects(s) \/ WorkerCannotConnect(s) \/ WorkerStops(s)
             \/ WorkerAttaches(s)
             \/ WorkerReads(s, "read_attach", "attached", "stop")
             \/ WorkerReads(s, "read_stop", "stopped", "finish")
             \/ WorkerRequestsStop(s) \/ WorkerFinishes(s) \/ AgentExits(s)
             \/ BrokerAnnounces(s)
      PROVE  UNCHANGED next_transport_id
  BY <1>5 DEF JoinWorker, AbandonWorker, WorkerBegins, UnchangedByWorker, WorkerConnects,
       WorkerCannotConnect, WorkerStops, WorkerAttaches, WorkerWrites, WorkerReads,
       WorkerRequestsStop, WorkerFinishes, AgentExits, UnchangedByBroker, UnchangedByRequests,
       maps, BrokerAnnounces
<1>. QED
  BY <1>1, <1>2, <1>3, <1>4, <1>5 DEF Next, CallerStep, ReaderStep, BrokerStep, MainStep, WorkerStep

(* The application begins to end once.                                     *)
LEMMA FlagMovers ==
    ASSUME Next, shutting_down' # shutting_down
    PROVE  BeginShutdown
<1>1. ASSUME NEW c \in Callers,
             \/ start(c) \/ Connect(c) \/ CannotConnect(c) \/ Handshake(c)
             \/ HandshakeFails(c) \/ HandshakeTooLate(c) \/ Listen(c)
             \/ StartNotWritten(c) \/ HearStarted(c) \/ HearStartFailed(c)
             \/ confirm_pending(c) \/ ConfirmFails(c) \/ publish_pending(c)
             \/ StartLeftToOthers(c) \/ StartNotPublished(c) \/ discard_pending(c)
             \/ TakeEventSlot(c) \/ DetachTooLate(c) \/ WriteDetach(c)
             \/ DetachNotWritten(c) \/ HearDetached(c) \/ WriteAttach(c)
             \/ AttachNotWritten(c) \/ WriteFailed(c) \/ LoseTransport(c)
             \/ CloseMine(c) \/ HearAttached(c) \/ HearAttachFailed(c)
      PROVE  UNCHANGED shutting_down
  BY <1>1 DEF start, Begin, Connect, CannotConnect, Handshake, maps, HandshakeFails,
       HandshakeTooLate, Listen, StartNotWritten, HearStarted, HearStartFailed, confirm_pending,
       ConfirmFails, publish_pending, StartLeftToOthers, StartNotPublished, discard_pending,
       TakeEventSlot, DetachTooLate, WriteDetach, DetachNotWritten, HearDetached, WriteAttach,
       AttachNotWritten, WriteFailed, LoseTransport, CloseMine, HearAttached, HearAttachFailed
<1>2. ASSUME NEW c \in Callers, NEW s \in Sessions, reattach(c, s) \/ detach(c, s)
      PROVE  UNCHANGED shutting_down
  BY <1>2 DEF reattach, Begin, detach, maps
<1>3. ASSUME NEW t \in Transports,
             \/ ReadStarted(t) \/ ReadPendingOver(t) \/ ReadOver(t)
             \/ ReadAttached(t) \/ ReadDetached(t) \/ ReadWhileStopping(t)
             \/ ReadStopped(t) \/ ReadUnexpected(t) \/ ReadEnd(t) \/ FinishReader(t)
             \/ BrokerStarts(t) \/ BrokerDelivers(t) \/ BrokerConfirms(t)
             \/ BrokerAttaches(t) \/ BrokerDetaches(t) \/ BrokerStops(t)
             \/ BrokerNotices(t) \/ ConnectionCut(t) \/ CloseTransport(t)
             \/ TakeOverTransport(t)
      PROVE  UNCHANGED shutting_down
  BY <1>3 DEF ReadStarted, Reads, ReadPendingOver, ReadOver, ReadAttached, ReadDetached,
       ReadWhileStopping, ReadStopped, ReadUnexpected, ReadEnd, FinishReader, BrokerStarts,
       Requested, UnchangedByRequests, maps, BrokerDelivers, UnchangedByBroker, BrokerConfirms,
       BrokerAttaches, BrokerDetaches, BrokerStops, BrokerNotices, ConnectionCut, CloseTransport,
       UnchangedByMain, TakeOverTransport
<1>4. ASSUME \/ WriteStop \/ StopNotWritten \/ HearStopped \/ StopWaiting
             \/ FinishTransport \/ EndShutdown
      PROVE  UNCHANGED shutting_down
  BY <1>4 DEF WriteStop, UnchangedByMain, StopNotWritten, HearStopped, StopWaiting,
       FinishTransport, EndShutdown
<1>5. ASSUME NEW s \in Sessions,
             \/ SpawnWorker(s) \/ JoinWorker(s) \/ AbandonWorker(s)
             \/ WorkerBegins(s) \/ WorkerConnects(s) \/ WorkerCannotConnect(s)
             \/ WorkerStops(s) \/ WorkerAttaches(s)
             \/ WorkerReads(s, "read_attach", "attached", "stop")
             \/ WorkerReads(s, "read_stop", "stopped", "finish")
             \/ WorkerRequestsStop(s) \/ WorkerFinishes(s) \/ AgentExits(s)
             \/ BrokerAnnounces(s)
      PROVE  UNCHANGED shutting_down
  BY <1>5 DEF SpawnWorker, UnchangedByMain, JoinWorker, AbandonWorker, WorkerBegins,
       UnchangedByWorker, WorkerConnects, WorkerCannotConnect, WorkerStops, WorkerAttaches,
       WorkerWrites, WorkerReads, WorkerRequestsStop, WorkerFinishes, AgentExits,
       UnchangedByBroker, UnchangedByRequests, maps, BrokerAnnounces
<1>. QED
  BY <1>1, <1>2, <1>3, <1>4, <1>5 DEF Next, CallerStep, ReaderStep, BrokerStep, MainStep, WorkerStep

(* The steps by which an answer arrives, is read or is lost.               *)
LEMMA InboxMovers ==
    ASSUME Next, inbox' # inbox
    PROVE  \/ \E c \in Callers :
                \/ HandshakeFails(c) \/ StartNotWritten(c) \/ HearStartFailed(c)
                \/ discard_pending(c) \/ CloseMine(c)
           \/ \E t \in Transports :
                \/ ReadStarted(t) \/ ReadPendingOver(t) \/ ReadOver(t)
                \/ ReadAttached(t) \/ ReadDetached(t) \/ ReadWhileStopping(t)
                \/ ReadStopped(t) \/ ReadUnexpected(t) \/ FinishReader(t)
                \/ BrokerStarts(t) \/ BrokerDelivers(t) \/ BrokerConfirms(t)
                \/ BrokerAttaches(t) \/ BrokerDetaches(t) \/ BrokerStops(t)
                \/ ConnectionCut(t) \/ CloseTransport(t)
           \/ FinishTransport
           \/ \E s \in Sessions :
                \/ AbandonWorker(s)
                \/ WorkerReads(s, "read_attach", "attached", "stop")
                \/ WorkerReads(s, "read_stop", "stopped", "finish")
                \/ WorkerFinishes(s) \/ BrokerAnnounces(s)
<1>1. ASSUME NEW c \in Callers,
             \/ start(c) \/ Connect(c) \/ CannotConnect(c) \/ Handshake(c)
             \/ HandshakeTooLate(c) \/ Listen(c) \/ HearStarted(c)
             \/ confirm_pending(c) \/ ConfirmFails(c) \/ publish_pending(c)
             \/ StartLeftToOthers(c) \/ StartNotPublished(c) \/ TakeEventSlot(c)
             \/ DetachTooLate(c) \/ WriteDetach(c) \/ DetachNotWritten(c)
             \/ HearDetached(c) \/ WriteAttach(c) \/ AttachNotWritten(c)
             \/ WriteFailed(c) \/ LoseTransport(c) \/ HearAttached(c)
             \/ HearAttachFailed(c)
      PROVE  UNCHANGED inbox
  BY <1>1 DEF start, Begin, wire, Connect, CannotConnect, Handshake, HandshakeTooLate, Listen,
       HearStarted, confirm_pending, ConfirmFails, publish_pending, StartLeftToOthers,
       StartNotPublished, TakeEventSlot, DetachTooLate, WriteDetach, DetachNotWritten,
       HearDetached, WriteAttach, AttachNotWritten, WriteFailed, LoseTransport, HearAttached,
       HearAttachFailed
<1>2. ASSUME NEW c \in Callers, NEW s \in Sessions, reattach(c, s) \/ detach(c, s)
      PROVE  UNCHANGED inbox
  BY <1>2 DEF reattach, Begin, wire, detach
<1>3. ASSUME NEW t \in Transports, ReadEnd(t) \/ BrokerNotices(t) \/ TakeOverTransport(t)
      PROVE  UNCHANGED inbox
  BY <1>3 DEF ReadEnd, wire, BrokerNotices, TakeOverTransport
<1>4. ASSUME \/ BeginShutdown \/ WriteStop \/ StopNotWritten \/ HearStopped
             \/ StopWaiting \/ EndShutdown
      PROVE  UNCHANGED inbox
  BY <1>4 DEF BeginShutdown, wire, WriteStop, StopNotWritten, HearStopped, StopWaiting,
       EndShutdown
<1>5. ASSUME NEW s \in Sessions,
             \/ SpawnWorker(s) \/ JoinWorker(s) \/ WorkerBegins(s)
             \/ WorkerConnects(s) \/ WorkerCannotConnect(s) \/ WorkerStops(s)
             \/ WorkerAttaches(s) \/ WorkerRequestsStop(s) \/ AgentExits(s)
      PROVE  UNCHANGED inbox
  BY <1>5 DEF SpawnWorker, wire, JoinWorker, WorkerBegins, WorkerConnects, WorkerCannotConnect,
       WorkerStops, WorkerAttaches, WorkerWrites, WorkerRequestsStop, AgentExits
<1>. QED
  BY <1>1, <1>2, <1>3, <1>4, <1>5 DEF Next, CallerStep, ReaderStep, BrokerStep, MainStep, WorkerStep

(* The steps by which a request is written, is read or is lost.            *)
LEMMA OutboxMovers ==
    ASSUME Next, outbox' # outbox
    PROVE  \/ \E c \in Callers :
                \/ Listen(c) \/ confirm_pending(c) \/ WriteDetach(c)
                \/ WriteAttach(c)
           \/ \E t \in Transports :
                \/ BrokerStarts(t) \/ BrokerConfirms(t) \/ BrokerAttaches(t)
                \/ BrokerDetaches(t) \/ BrokerStops(t) \/ BrokerNotices(t)
           \/ WriteStop
           \/ \E s \in Sessions : WorkerAttaches(s) \/ WorkerRequestsStop(s)
<1>1. ASSUME NEW c \in Callers,
             \/ start(c) \/ Connect(c) \/ CannotConnect(c) \/ Handshake(c)
             \/ HandshakeFails(c) \/ HandshakeTooLate(c) \/ StartNotWritten(c)
             \/ HearStarted(c) \/ HearStartFailed(c) \/ ConfirmFails(c)
             \/ publish_pending(c) \/ StartLeftToOthers(c) \/ StartNotPublished(c)
             \/ discard_pending(c) \/ TakeEventSlot(c) \/ DetachTooLate(c)
             \/ DetachNotWritten(c) \/ HearDetached(c) \/ AttachNotWritten(c)
             \/ WriteFailed(c) \/ LoseTransport(c) \/ CloseMine(c)
             \/ HearAttached(c) \/ HearAttachFailed(c)
      PROVE  UNCHANGED outbox
  BY <1>1 DEF start, Begin, wire, Connect, CannotConnect, Handshake, HandshakeFails,
       HandshakeTooLate, StartNotWritten, WriteFails, HearStarted, HearStartFailed, ConfirmFails,
       publish_pending, StartLeftToOthers, StartNotPublished, discard_pending, TakeEventSlot,
       DetachTooLate, DetachNotWritten, HearDetached, AttachNotWritten, WriteFailed,
       LoseTransport, CloseMine, HearAttached, HearAttachFailed
<1>2. ASSUME NEW c \in Callers, NEW s \in Sessions, reattach(c, s) \/ detach(c, s)
      PROVE  UNCHANGED outbox
  BY <1>2 DEF reattach, Begin, wire, detach
<1>3. ASSUME NEW t \in Transports,
             \/ ReadStarted(t) \/ ReadPendingOver(t) \/ ReadOver(t)
             \/ ReadAttached(t) \/ ReadDetached(t) \/ ReadWhileStopping(t)
             \/ ReadStopped(t) \/ ReadUnexpected(t) \/ ReadEnd(t) \/ FinishReader(t)
             \/ BrokerDelivers(t) \/ ConnectionCut(t) \/ CloseTransport(t)
             \/ TakeOverTransport(t)
      PROVE  UNCHANGED outbox
  BY <1>3 DEF ReadStarted, Reads, ReadPendingOver, ReadOver, ReadAttached, ReadDetached,
       ReadWhileStopping, ReadStopped, ReadUnexpected, ReadEnd, wire, FinishReader,
       BrokerDelivers, ConnectionCut, CloseTransport, TakeOverTransport
<1>4. ASSUME \/ BeginShutdown \/ StopNotWritten \/ HearStopped \/ StopWaiting
             \/ FinishTransport \/ EndShutdown
      PROVE  UNCHANGED outbox
  BY <1>4 DEF BeginShutdown, wire, StopNotWritten, WriteFails, HearStopped, StopWaiting,
       FinishTransport, EndShutdown
<1>5. ASSUME NEW s \in Sessions,
             \/ SpawnWorker(s) \/ JoinWorker(s) \/ AbandonWorker(s)
             \/ WorkerBegins(s) \/ WorkerConnects(s) \/ WorkerCannotConnect(s)
             \/ WorkerStops(s) \/ WorkerReads(s, "read_attach", "attached", "stop")
             \/ WorkerReads(s, "read_stop", "stopped", "finish")
             \/ WorkerFinishes(s) \/ AgentExits(s) \/ BrokerAnnounces(s)
      PROVE  UNCHANGED outbox
  BY <1>5 DEF SpawnWorker, wire, JoinWorker, AbandonWorker, WorkerBegins, WorkerConnects,
       WorkerCannotConnect, WorkerStops, WorkerReads, WorkerFinishes, AgentExits, BrokerAnnounces
<1>. QED
  BY <1>1, <1>2, <1>3, <1>4, <1>5 DEF Next, CallerStep, ReaderStep, BrokerStep, MainStep, WorkerStep

(* The steps that start a reader, and the last ones of a reader.           *)
LEMMA ReaderMovers ==
    ASSUME Next, reader' # reader
    PROVE  \/ \E c \in Callers : Listen(c) \/ StartNotWritten(c)
           \/ \E t \in Transports :
                \/ ReadStarted(t) \/ ReadPendingOver(t) \/ ReadOver(t)
                \/ ReadAttached(t) \/ ReadDetached(t) \/ ReadStopped(t)
                \/ ReadUnexpected(t) \/ ReadEnd(t) \/ FinishReader(t)
<1>1. ASSUME NEW c \in Callers,
             \/ start(c) \/ Connect(c) \/ CannotConnect(c) \/ Handshake(c)
             \/ HandshakeFails(c) \/ HandshakeTooLate(c) \/ HearStarted(c)
             \/ HearStartFailed(c) \/ confirm_pending(c) \/ ConfirmFails(c)
             \/ publish_pending(c) \/ StartLeftToOthers(c) \/ StartNotPublished(c)
             \/ discard_pending(c) \/ TakeEventSlot(c) \/ DetachTooLate(c)
             \/ WriteDetach(c) \/ DetachNotWritten(c) \/ HearDetached(c)
             \/ WriteAttach(c) \/ AttachNotWritten(c) \/ WriteFailed(c)
             \/ LoseTransport(c) \/ CloseMine(c) \/ HearAttached(c)
             \/ HearAttachFailed(c)
      PROVE  UNCHANGED reader
  BY <1>1 DEF start, Begin, conns, Connect, CannotConnect, Handshake, HandshakeFails,
       HandshakeTooLate, HearStarted, HearStartFailed, confirm_pending, ConfirmFails,
       publish_pending, StartLeftToOthers, StartNotPublished, discard_pending, TakeEventSlot,
       DetachTooLate, WriteDetach, DetachNotWritten, HearDetached, WriteAttach, AttachNotWritten,
       WriteFailed, LoseTransport, CloseMine, HearAttached, HearAttachFailed
<1>2. ASSUME NEW c \in Callers, NEW s \in Sessions, reattach(c, s) \/ detach(c, s)
      PROVE  UNCHANGED reader
  BY <1>2 DEF reattach, Begin, conns, detach
<1>3. ASSUME NEW t \in Transports,
             \/ ReadWhileStopping(t) \/ BrokerStarts(t) \/ BrokerDelivers(t)
             \/ BrokerConfirms(t) \/ BrokerAttaches(t) \/ BrokerDetaches(t)
             \/ BrokerStops(t) \/ BrokerNotices(t) \/ ConnectionCut(t)
             \/ CloseTransport(t) \/ TakeOverTransport(t)
      PROVE  UNCHANGED reader
  BY <1>3 DEF ReadWhileStopping, BrokerStarts, Requested, UnchangedByRequests, conns,
       BrokerDelivers, UnchangedByBroker, BrokerConfirms, BrokerAttaches, BrokerDetaches,
       BrokerStops, BrokerNotices, ConnectionCut, CloseTransport, UnchangedByMain,
       TakeOverTransport
<1>4. ASSUME \/ BeginShutdown \/ WriteStop \/ StopNotWritten \/ HearStopped
             \/ StopWaiting \/ FinishTransport \/ EndShutdown
      PROVE  UNCHANGED reader
  BY <1>4 DEF BeginShutdown, conns, WriteStop, UnchangedByMain, StopNotWritten, HearStopped,
       StopWaiting, FinishTransport, EndShutdown
<1>5. ASSUME NEW s \in Sessions,
             \/ SpawnWorker(s) \/ JoinWorker(s) \/ AbandonWorker(s)
             \/ WorkerBegins(s) \/ WorkerConnects(s) \/ WorkerCannotConnect(s)
             \/ WorkerStops(s) \/ WorkerAttaches(s)
             \/ WorkerReads(s, "read_attach", "attached", "stop")
             \/ WorkerReads(s, "read_stop", "stopped", "finish")
             \/ WorkerRequestsStop(s) \/ WorkerFinishes(s) \/ AgentExits(s)
             \/ BrokerAnnounces(s)
      PROVE  UNCHANGED reader
  BY <1>5 DEF SpawnWorker, UnchangedByMain, JoinWorker, AbandonWorker, WorkerBegins,
       UnchangedByWorker, WorkerConnects, WorkerCannotConnect, WorkerStops, WorkerAttaches,
       WorkerWrites, WorkerReads, WorkerRequestsStop, WorkerFinishes, AgentExits,
       UnchangedByBroker, UnchangedByRequests, conns, BrokerAnnounces
<1>. QED
  BY <1>1, <1>2, <1>3, <1>4, <1>5 DEF Next, CallerStep, ReaderStep, BrokerStep, MainStep, WorkerStep

(* What becomes of a row is a row, and of no row nothing comes.            *)
LEMMA RowFunctions ==
    ASSUME NEW r \in Rows, NEW t \in Ids
    PROVE  /\ Tombstone(r, t) \in Rows /\ Discard(r, t) \in Rows
           /\ PublishUnreachable(r, t) \in Rows /\ MarkUnreachable(r, t) \in Rows
           /\ Remove(r, t) \in Rows /\ FailReattach(r, t) \in Rows
BY DEF Rows, Ids, Tombstone, Discard, PublishUnreachable, MarkUnreachable, Remove, FailReattach,
       Row, Absent

(* Where there is no row none appears, and none can be reserved, published *)
(* or detached.                                                            *)
LEMMA NoRowStaysNone ==
    ASSUME NEW t
    PROVE  /\ Tombstone(Absent, t) = Absent /\ Discard(Absent, t) = Absent
           /\ PublishUnreachable(Absent, t) = Absent /\ MarkUnreachable(Absent, t) = Absent
           /\ Remove(Absent, t) = Absent /\ FailReattach(Absent, t) = Absent
           /\ ~CanReserve(Absent) /\ ~CanComplete(Absent, t) /\ ~CanMarkDetached(Absent, t)
           /\ ~OwnsPending(Absent, t) /\ ~CanDetach(Absent)
BY DEF Tombstone, Discard, PublishUnreachable, MarkUnreachable, Remove, FailReattach, Row, Absent,
       Published, CanReserve, CanComplete, CanMarkDetached, OwnsPending, CanDetach

(* handle_transport_loss moves the row of the connection to one of these.  *)
LEMMA LossOfRow ==
    ASSUME NEW t
    PROVE  RowAfterLoss(t) \in {Tombstone(records[key[t]], t), PublishUnreachable(records[key[t]],
    t),
                                FailReattach(records[key[t]], t), MarkUnreachable(records[key[t]],
                                t),
                                records[key[t]]}
BY DEF RowAfterLoss

(* The rows stay rows when a connection is lost.                           *)
LEMMA LossTyped ==
    ASSUME NEW t \in Ids, records \in [Sessions -> Rows]
    PROVE  RecordsAfterLoss(t) \in [Sessions -> Rows]
<1>1. key[t] \in Sessions => RowAfterLoss(t) \in Rows
  BY LossOfRow, RowFunctions
<1>. QED
  BY <1>1 DEF RecordsAfterLoss

(* A row stays a row.                                                      *)
LEMMA RowsTyped ==
    ASSUME ManagerAssumption, Typed, Next
    PROVE  records' \in [Sessions -> Rows]
<1>0. /\ records \in [Sessions -> Rows]
      /\ mine \in [Callers -> Ids]
      /\ next_transport_id \in Nat /\ next_transport_id # None
  BY DEF Typed, TypeOK
<1>1. CASE UNCHANGED <<records>>
  BY <1>0, <1>1
<1>2. ASSUME NEW c \in Callers, NEW s \in Sessions, reattach(c, s)
      PROVE  records' \in [Sessions -> Rows]
  BY <1>0, <1>2, TransportIds DEF reattach, Begin, CanReserve, Rows, Ids
<1>3. ASSUME NEW c \in Callers, CannotConnect(c) PROVE records' \in [Sessions -> Rows]
  BY <1>0, <1>3, RowFunctions DEF CannotConnect, RecordsAfterFailure
<1>4. ASSUME NEW c \in Callers, HandshakeFails(c) PROVE records' \in [Sessions -> Rows]
  BY <1>0, <1>4, RowFunctions DEF HandshakeFails, RecordsAfterFailure
<1>5. ASSUME NEW c \in Callers, publish_pending(c) PROVE records' \in [Sessions -> Rows]
  BY <1>0, <1>5, TransportIds DEF publish_pending, Row, Rows, Ids
<1>6. ASSUME NEW c \in Callers, discard_pending(c) PROVE records' \in [Sessions -> Rows]
  BY <1>0, <1>6, RowFunctions DEF discard_pending
<1>7. ASSUME NEW c \in Callers, LoseTransport(c) PROVE records' \in [Sessions -> Rows]
  BY <1>0, <1>7, LossTyped DEF LoseTransport, handle_transport_loss
<1>8. ASSUME NEW t \in Transports, ReadStarted(t) PROVE records' \in [Sessions -> Rows]
  <2>1. PICK s : records' \in {records, [records EXCEPT ![s] = Row("pending", t, None)]}
    BY <1>8 DEF ReadStarted
  <2>. QED
    BY <1>0, <2>1 DEF Row, Rows, Ids
<1>9. ASSUME NEW t \in Transports, ReadPendingOver(t) PROVE records' \in [Sessions -> Rows]
  BY <1>0, <1>9, RowFunctions DEF ReadPendingOver, Changes, Ids
<1>10. ASSUME NEW t \in Transports, ReadOver(t) PROVE records' \in [Sessions -> Rows]
  BY <1>0, <1>10, RowFunctions DEF ReadOver, Changes, Ids
<1>11. ASSUME NEW t \in Transports, ReadAttached(t) PROVE records' \in [Sessions -> Rows]
  BY <1>0, <1>11, TransportIds DEF ReadAttached, Changes, Row, Rows, Ids
<1>12. ASSUME NEW t \in Transports, ReadDetached(t) PROVE records' \in [Sessions -> Rows]
  BY <1>0, <1>12, TransportIds DEF ReadDetached, Changes, Row, Rows, Ids
<1>13. ASSUME NEW t \in Transports, ReadUnexpected(t) PROVE records' \in [Sessions -> Rows]
  BY <1>0, <1>13, LossTyped DEF ReadUnexpected, Ids
<1>14. ASSUME NEW t \in Transports, ReadEnd(t) PROVE records' \in [Sessions -> Rows]
  BY <1>0, <1>14, LossTyped DEF ReadEnd, Ids
<1>15. ASSUME BeginShutdown PROVE records' \in [Sessions -> Rows]
  BY <1>0, <1>15, TransportIds DEF BeginShutdown, Absent, Row, Rows, Ids
<1>. QED
  BY <1>1, <1>2, <1>3, <1>4, <1>5, <1>6, <1>7, <1>8, <1>9, <1>10, <1>11, <1>12, <1>13, <1>14,
       <1>15, RowMovers

(* Variable by variable: what a connection is for, and the key in it, ...  *)
LEMMA BindingTyped ==
    ASSUME ManagerAssumption, Typed, Next
    PROVE  binding' \in [Transports -> Bindings]
<1>0. binding \in [Transports -> Bindings]
  BY DEF Typed, TypeOK
<1>1. CASE UNCHANGED <<binding>>
  BY <1>0, <1>1
<1>2. ASSUME NEW c \in Callers, Connect(c) PROVE binding' \in [Transports -> Bindings]
  BY <1>0, <1>2, TransportIds DEF Connect, Bindings
<1>3. ASSUME NEW c \in Callers, confirm_pending(c) PROVE binding' \in [Transports -> Bindings]
  BY <1>0, <1>3, TransportIds DEF confirm_pending, Bindings
<1>4. ASSUME NEW c \in Callers, publish_pending(c) PROVE binding' \in [Transports -> Bindings]
  BY <1>0, <1>4, TransportIds DEF publish_pending, Bindings
<1>5. ASSUME NEW c \in Callers, discard_pending(c) PROVE binding' \in [Transports -> Bindings]
  BY <1>0, <1>5, TransportIds DEF discard_pending, Bindings
<1>6. ASSUME NEW c \in Callers, WriteDetach(c) PROVE binding' \in [Transports -> Bindings]
  BY <1>0, <1>6, TransportIds DEF WriteDetach, Bindings
<1>7. ASSUME NEW c \in Callers, WriteAttach(c) PROVE binding' \in [Transports -> Bindings]
  BY <1>0, <1>7, TransportIds DEF WriteAttach, Bindings
<1>8. ASSUME NEW c \in Callers, LoseTransport(c) PROVE binding' \in [Transports -> Bindings]
  BY <1>0, <1>8, TransportIds DEF LoseTransport, handle_transport_loss, Bindings
<1>9. ASSUME NEW t \in Transports, ReadStarted(t) PROVE binding' \in [Transports -> Bindings]
  BY <1>0, <1>9, TransportIds DEF ReadStarted, ReadsLast, Bindings
<1>10. ASSUME NEW t \in Transports, ReadPendingOver(t) PROVE binding' \in [Transports -> Bindings]
  BY <1>0, <1>10, TransportIds DEF ReadPendingOver, ReadsLast, Bindings
<1>11. ASSUME NEW t \in Transports, ReadOver(t) PROVE binding' \in [Transports -> Bindings]
  BY <1>0, <1>11, TransportIds DEF ReadOver, ReadsLast, Bindings
<1>12. ASSUME NEW t \in Transports, ReadAttached(t) PROVE binding' \in [Transports -> Bindings]
  BY <1>0, <1>12, TransportIds DEF ReadAttached, ReadsLast, Bindings
<1>13. ASSUME NEW t \in Transports, ReadDetached(t) PROVE binding' \in [Transports -> Bindings]
  BY <1>0, <1>13, TransportIds DEF ReadDetached, ReadsLast, Bindings
<1>14. ASSUME NEW t \in Transports, ReadStopped(t) PROVE binding' \in [Transports -> Bindings]
  BY <1>0, <1>14, TransportIds DEF ReadStopped, ReadsLast, Bindings
<1>15. ASSUME NEW t \in Transports, ReadUnexpected(t) PROVE binding' \in [Transports -> Bindings]
  BY <1>0, <1>15, TransportIds DEF ReadUnexpected, ReadsLast, Bindings
<1>16. ASSUME NEW t \in Transports, ReadEnd(t) PROVE binding' \in [Transports -> Bindings]
  BY <1>0, <1>16, TransportIds DEF ReadEnd, ReadsLast, Bindings
<1>17. ASSUME NEW t \in Transports, CloseTransport(t) PROVE binding' \in [Transports -> Bindings]
  BY <1>0, <1>17, TransportIds DEF CloseTransport, Bindings
<1>18. ASSUME NEW t \in Transports, TakeOverTransport(t)
       PROVE  binding' \in [Transports -> Bindings]
  BY <1>0, <1>18, TransportIds DEF TakeOverTransport, Bindings
<1>19. ASSUME NEW s \in Sessions, WorkerConnects(s) PROVE binding' \in [Transports -> Bindings]
  BY <1>0, <1>19, TransportIds DEF WorkerConnects, Bindings
<1>. QED
  BY <1>1, <1>2, <1>3, <1>4, <1>5, <1>6, <1>7, <1>8, <1>9, <1>10, <1>11, <1>12, <1>13, <1>14,
       <1>15, <1>16, <1>17, <1>18, <1>19, BindingMovers

(* ... whose session comes from a command or from PtyStarted, ...          *)
LEMMA KeyTyped ==
    ASSUME ManagerAssumption, Typed, Next
    PROVE  key' \in [Transports -> Sessions \union {NoSession}]
<1>0. /\ key \in [Transports -> Sessions \union {NoSession}]
      /\ at \in [Callers -> Sessions \union {NoSession}]
      /\ inbox \in [Transports -> Seq(Answers)]
  BY DEF Typed, TypeOK
<1>1. CASE UNCHANGED <<key>>
  BY <1>0, <1>1
<1>2. ASSUME NEW c \in Callers, Connect(c)
      PROVE  key' \in [Transports -> Sessions \union {NoSession}]
  BY <1>0, <1>2, TransportIds DEF Connect
<1>3. ASSUME NEW t \in Transports, ReadStarted(t)
      PROVE  key' \in [Transports -> Sessions \union {NoSession}]
  <2>1. Head(inbox[t]) \in Answers /\ Head(inbox[t])[1] = "started"
    BY <1>0, <1>3 DEF ReadStarted, Reads
  <2>2. Head(inbox[t])[2] \in Sessions
    BY <2>1 DEF Answers
  <2>. QED
    BY <1>0, <1>3, <2>2 DEF ReadStarted, ReadsLast
<1>. QED
  BY <1>1, <1>2, <1>3, KeyMovers

(* ... whom its events go to, ...                                          *)
LEMMA SenderTyped ==
    ASSUME ManagerAssumption, Typed, Next
    PROVE  event_sender' \in [Transports -> Callers \union {Nobody, Main}]
<1>0. event_sender \in [Transports -> Callers \union {Nobody, Main}]
  BY DEF Typed, TypeOK
<1>1. CASE UNCHANGED <<event_sender>>
  BY <1>0, <1>1
<1>2. ASSUME NEW c \in Callers, CannotConnect(c)
      PROVE  event_sender' \in [Transports -> Callers \union {Nobody, Main}]
  BY <1>0, <1>2, TransportIds DEF CannotConnect, Return
<1>3. ASSUME NEW c \in Callers, HandshakeFails(c)
      PROVE  event_sender' \in [Transports -> Callers \union {Nobody, Main}]
  BY <1>0, <1>3, TransportIds DEF HandshakeFails, Return
<1>4. ASSUME NEW c \in Callers, HandshakeTooLate(c)
      PROVE  event_sender' \in [Transports -> Callers \union {Nobody, Main}]
  BY <1>0, <1>4, TransportIds DEF HandshakeTooLate, CloseUnlessShuttingDown, Return
<1>5. ASSUME NEW c \in Callers, Listen(c)
      PROVE  event_sender' \in [Transports -> Callers \union {Nobody, Main}]
  BY <1>0, <1>5, TransportIds DEF Listen
<1>6. ASSUME NEW c \in Callers, StartNotWritten(c)
      PROVE  event_sender' \in [Transports -> Callers \union {Nobody, Main}]
  BY <1>0, <1>6, TransportIds DEF StartNotWritten, Return
<1>7. ASSUME NEW c \in Callers, HearStartFailed(c)
      PROVE  event_sender' \in [Transports -> Callers \union {Nobody, Main}]
  BY <1>0, <1>7, TransportIds DEF HearStartFailed, Return
<1>8. ASSUME NEW c \in Callers, publish_pending(c)
      PROVE  event_sender' \in [Transports -> Callers \union {Nobody, Main}]
  BY <1>0, <1>8, TransportIds DEF publish_pending, Return
<1>9. ASSUME NEW c \in Callers, StartLeftToOthers(c)
      PROVE  event_sender' \in [Transports -> Callers \union {Nobody, Main}]
  BY <1>0, <1>9, TransportIds DEF StartLeftToOthers, Return
<1>10. ASSUME NEW c \in Callers, discard_pending(c)
       PROVE  event_sender' \in [Transports -> Callers \union {Nobody, Main}]
  BY <1>0, <1>10, TransportIds DEF discard_pending, Return
<1>11. ASSUME NEW c \in Callers, TakeEventSlot(c)
       PROVE  event_sender' \in [Transports -> Callers \union {Nobody, Main}]
  BY <1>0, <1>11, TransportIds DEF TakeEventSlot
<1>12. ASSUME NEW c \in Callers, DetachTooLate(c)
       PROVE  event_sender' \in [Transports -> Callers \union {Nobody, Main}]
  BY <1>0, <1>12, TransportIds DEF DetachTooLate, Return
<1>13. ASSUME NEW c \in Callers, HearDetached(c)
       PROVE  event_sender' \in [Transports -> Callers \union {Nobody, Main}]
  BY <1>0, <1>13, TransportIds DEF HearDetached, CloseUnlessShuttingDown, Return
<1>14. ASSUME NEW c \in Callers, WriteFailed(c)
       PROVE  event_sender' \in [Transports -> Callers \union {Nobody, Main}]
  BY <1>0, <1>14, TransportIds DEF WriteFailed, CloseUnlessShuttingDown, Return
<1>15. ASSUME NEW c \in Callers, CloseMine(c)
       PROVE  event_sender' \in [Transports -> Callers \union {Nobody, Main}]
  BY <1>0, <1>15, TransportIds DEF CloseMine, Return
<1>16. ASSUME NEW c \in Callers, HearAttached(c)
       PROVE  event_sender' \in [Transports -> Callers \union {Nobody, Main}]
  BY <1>0, <1>16, TransportIds DEF HearAttached, Return
<1>17. ASSUME NEW c \in Callers, HearAttachFailed(c)
       PROVE  event_sender' \in [Transports -> Callers \union {Nobody, Main}]
  BY <1>0, <1>17, TransportIds DEF HearAttachFailed, CloseUnlessShuttingDown, Return
<1>18. ASSUME NEW t \in Transports, TakeOverTransport(t)
       PROVE  event_sender' \in [Transports -> Callers \union {Nobody, Main}]
  BY <1>0, <1>18, TransportIds DEF TakeOverTransport
<1>19. ASSUME FinishTransport
       PROVE  event_sender' \in [Transports -> Callers \union {Nobody, Main}]
  BY <1>0, <1>19, TransportIds DEF FinishTransport
<1>. QED
  BY <1>1, <1>2, <1>3, <1>4, <1>5, <1>6, <1>7, <1>8, <1>9, <1>10, <1>11, <1>12, <1>13, <1>14,
       <1>15, <1>16, <1>17, <1>18, <1>19, SenderMovers

LinksTyped ==
    /\ transports \subseteq Transports
    /\ link \in [Transports -> {"none", "up", "cut", "reaped"}]

(* ... the connections themselves, ...                                     *)
LEMMA LinksStep ==
    ASSUME ManagerAssumption, Typed, Next
    PROVE  LinksTyped'
<1>0. /\ transports \subseteq Transports
      /\ link \in [Transports -> {"none", "up", "cut", "reaped"}]
      /\ \A c \in Callers : mine[c] \in Ids /\ (mine[c] = None <=> pc[c] = "idle")
      /\ \A s \in Sessions : worker[s] # "none" => worker_id[s] \in Transports
  BY DEF Typed, TypeOK
<1>1. CASE UNCHANGED <<transports, link>>
  BY <1>0, <1>1 DEF LinksTyped
<1>2. ASSUME NEW c \in Callers, Connect(c) PROVE LinksTyped'
  BY <1>0, <1>2, TransportIds DEF LinksTyped, Connect, Ids
<1>3. ASSUME NEW c \in Callers, HandshakeFails(c) PROVE LinksTyped'
  BY <1>0, <1>3, TransportIds DEF LinksTyped, HandshakeFails, finish_transport, Reap, Ids
<1>4. ASSUME NEW c \in Callers, StartNotWritten(c) PROVE LinksTyped'
  BY <1>0, <1>4, TransportIds DEF LinksTyped, StartNotWritten, finish_transport, Reap, Ids
<1>5. ASSUME NEW c \in Callers, HearStartFailed(c) PROVE LinksTyped'
  BY <1>0, <1>5, TransportIds DEF LinksTyped, HearStartFailed, finish_transport, Reap, Ids
<1>6. ASSUME NEW c \in Callers, discard_pending(c) PROVE LinksTyped'
  BY <1>0, <1>6, TransportIds DEF LinksTyped, discard_pending, finish_transport, Reap, Ids
<1>7. ASSUME NEW c \in Callers, CloseMine(c) PROVE LinksTyped'
  BY <1>0, <1>7, TransportIds DEF LinksTyped, CloseMine, finish_transport, Reap, Ids
<1>8. ASSUME NEW t \in Transports, FinishReader(t) PROVE LinksTyped'
  BY <1>0, <1>8, TransportIds DEF LinksTyped, FinishReader, Ids
<1>9. ASSUME NEW t \in Transports, ConnectionCut(t) PROVE LinksTyped'
  BY <1>0, <1>9, TransportIds DEF LinksTyped, ConnectionCut, maps, Ids
<1>10. ASSUME NEW t \in Transports, CloseTransport(t) PROVE LinksTyped'
  BY <1>0, <1>10, TransportIds DEF LinksTyped, CloseTransport, finish_transport, Reap, Ids
<1>11. ASSUME FinishTransport PROVE LinksTyped'
  BY <1>0, <1>11, TransportIds DEF LinksTyped, FinishTransport, finish_transport, Reap, Ids
<1>12. ASSUME NEW s \in Sessions, AbandonWorker(s) PROVE LinksTyped'
  BY <1>0, <1>12, TransportIds DEF LinksTyped, AbandonWorker, finish_transport, Reap, Ids
<1>13. ASSUME NEW s \in Sessions, WorkerConnects(s) PROVE LinksTyped'
  BY <1>0, <1>13, TransportIds DEF LinksTyped, WorkerConnects, Ids
<1>14. ASSUME NEW s \in Sessions, WorkerFinishes(s) PROVE LinksTyped'
  BY <1>0, <1>14, TransportIds DEF LinksTyped, WorkerFinishes, finish_transport, Reap, Ids
<1>. QED
  BY <1>1, <1>2, <1>3, <1>4, <1>5, <1>6, <1>7, <1>8, <1>9, <1>10, <1>11, <1>12, <1>13, <1>14,
       LinkMovers

(* ... and their readers.                                                  *)
LEMMA ReaderTyped ==
    ASSUME ManagerAssumption, Typed, Next
    PROVE  reader' \in [Transports -> {"none", "running", "ending", "done"}]
<1>0. reader \in [Transports -> {"none", "running", "ending", "done"}]
  BY DEF Typed, TypeOK
<1>1. CASE UNCHANGED <<reader>>
  BY <1>0, <1>1
<1>2. ASSUME NEW c \in Callers, Listen(c)
      PROVE  reader' \in [Transports -> {"none", "running", "ending", "done"}]
  BY <1>0, <1>2, TransportIds DEF Listen
<1>3. ASSUME NEW c \in Callers, StartNotWritten(c)
      PROVE  reader' \in [Transports -> {"none", "running", "ending", "done"}]
  BY <1>0, <1>3, TransportIds DEF StartNotWritten
<1>4. ASSUME NEW t \in Transports, ReadStarted(t)
      PROVE  reader' \in [Transports -> {"none", "running", "ending", "done"}]
  BY <1>0, <1>4, TransportIds DEF ReadStarted, ReadsLast
<1>5. ASSUME NEW t \in Transports, ReadPendingOver(t)
      PROVE  reader' \in [Transports -> {"none", "running", "ending", "done"}]
  BY <1>0, <1>5, TransportIds DEF ReadPendingOver, ReadsLast
<1>6. ASSUME NEW t \in Transports, ReadOver(t)
      PROVE  reader' \in [Transports -> {"none", "running", "ending", "done"}]
  BY <1>0, <1>6, TransportIds DEF ReadOver, ReadsLast
<1>7. ASSUME NEW t \in Transports, ReadAttached(t)
      PROVE  reader' \in [Transports -> {"none", "running", "ending", "done"}]
  BY <1>0, <1>7, TransportIds DEF ReadAttached, ReadsLast
<1>8. ASSUME NEW t \in Transports, ReadDetached(t)
      PROVE  reader' \in [Transports -> {"none", "running", "ending", "done"}]
  BY <1>0, <1>8, TransportIds DEF ReadDetached, ReadsLast
<1>9. ASSUME NEW t \in Transports, ReadStopped(t)
      PROVE  reader' \in [Transports -> {"none", "running", "ending", "done"}]
  BY <1>0, <1>9, TransportIds DEF ReadStopped, ReadsLast
<1>10. ASSUME NEW t \in Transports, ReadUnexpected(t)
       PROVE  reader' \in [Transports -> {"none", "running", "ending", "done"}]
  BY <1>0, <1>10, TransportIds DEF ReadUnexpected, ReadsLast
<1>11. ASSUME NEW t \in Transports, ReadEnd(t)
       PROVE  reader' \in [Transports -> {"none", "running", "ending", "done"}]
  BY <1>0, <1>11, TransportIds DEF ReadEnd, ReadsLast
<1>12. ASSUME NEW t \in Transports, FinishReader(t)
       PROVE  reader' \in [Transports -> {"none", "running", "ending", "done"}]
  BY <1>0, <1>12, TransportIds DEF FinishReader
<1>. QED
  BY <1>1, <1>2, <1>3, <1>4, <1>5, <1>6, <1>7, <1>8, <1>9, <1>10, <1>11, <1>12, ReaderMovers

(* Messages keep their shape on the way: what a connection loses is the    *)
(* end of what it holds, and what it gains is well formed.                 *)
LEMMA EmittedTyped ==
    ASSUME NEW t \in Transports, NEW event \in Events,
           events \in [Callers \union {Main} -> Seq(Events)],
           event_sender \in [Transports -> Callers \union {Nobody, Main}]
    PROVE  Emitted(t, event) \in [Callers \union {Main} -> Seq(Events)]
<1>1. CASE event_sender[t] = Nobody
  BY <1>1 DEF Emitted
<1>2. CASE event_sender[t] # Nobody
  <2>1. event_sender[t] \in Callers \union {Main}
    BY <1>2
  <2>2. Append(events[event_sender[t]], event) \in Seq(Events)
    BY <2>1
  <2>. QED
    BY <1>2, <2>1, <2>2 DEF Emitted
<1>. QED
  BY <1>1, <1>2

(* What is left of the answers when a companion is killed ...              *)
LEMMA CutTyped ==
    ASSUME NEW t \in Transports, inbox \in [Transports -> Seq(Answers)], inbox' \in Truncated(t)
    PROVE  inbox' \in [Transports -> Seq(Answers)]
<1>1. PICK n \in 0 .. Len(inbox[t]) : inbox' = [inbox EXCEPT ![t] = SubSeq(@, 1, n)]
  BY DEF Truncated
<1>2. inbox[t] \in Seq(Answers)
  OBVIOUS
<1>3. SubSeq(inbox[t], 1, n) \in Seq(Answers)
  BY <1>2
<1>. QED
  BY <1>1, <1>3

(* ... also when that ends the connection (finish_transport).              *)
LEMMA FinishTyped ==
    ASSUME NEW t \in Transports, inbox \in [Transports -> Seq(Answers)], Reap(t)
    PROVE  inbox' \in [Transports -> Seq(Answers)]
BY CutTyped DEF Reap

(* An answer of the broker keeps the shape of what was received ...        *)
LEMMA RepliedTyped ==
    ASSUME NEW t \in Ids, NEW reply, NEW s, <<reply, s>> \in Answers,
           inbox \in [Transports -> Seq(Answers)], Replied(t, reply, s)
    PROVE  inbox' \in [Transports -> Seq(Answers)]
<1>1. t \in Transports => Append(inbox[t], <<reply, s>>) \in Seq(Answers)
  OBVIOUS
<1>. QED
  BY <1>1 DEF Replied

(* ... and a request that of what was sent.                                *)
LEMMA WrittenTyped ==
    ASSUME NEW t \in Transports, NEW messages \in Seq(Orders),
           outbox \in [Transports -> Seq(Orders)], Written(t, messages)
    PROVE  outbox' \in [Transports -> Seq(Orders)]
<1>1. outbox[t] \o messages \in Seq(Orders)
  OBVIOUS
<1>. QED
  BY <1>1 DEF Written

(* Every command in progress has a connection, and a session to attach.    *)
CallsTyped ==
    /\ pc \in [Callers -> Steps]
    /\ mine \in [Callers -> Ids]
    /\ at \in [Callers -> Sessions \union {NoSession}]
    /\ \A c \in Callers : /\ mine[c] = None <=> pc[c] = "idle"
                          /\ pc[c] = "attach" => at[c] \in Sessions

(* No command loses its connection before it returns.                      *)
LEMMA CallsStep ==
    ASSUME ManagerAssumption, Typed, Next
    PROVE  CallsTyped'
<1>0. CallsTyped
  BY DEF Typed, TypeOK, CallsTyped
<1>1. CASE UNCHANGED calls
  BY <1>0, <1>1 DEF CallsTyped, calls
<1>2. ASSUME NEW c \in Callers, start(c) PROVE CallsTyped'
  <2>1. next_transport_id \in Nat /\ next_transport_id # None
    BY DEF Typed, TypeOK
  <2>. QED
    BY <2>1, <1>0, <1>2, TransportIds DEF start, Begin, Goto, CallsTyped, Steps, Ids
<1>3. ASSUME NEW c \in Callers, NEW s \in Sessions, reattach(c, s) PROVE CallsTyped'
  <2>1. next_transport_id \in Nat /\ next_transport_id # None
    BY DEF Typed, TypeOK
  <2>. QED
    BY <2>1, <1>0, <1>3, TransportIds DEF reattach, Begin, Goto, CallsTyped, Steps, Ids
<1>4. ASSUME NEW c \in Callers, NEW s \in Sessions, detach(c, s) PROVE CallsTyped'
  <2>1. transports \subseteq Transports
    BY DEF Typed, TypeOK
  <2>. QED
    BY <2>1, <1>0, <1>4, TransportIds DEF detach, Goto, CallsTyped, Steps, Ids
<1>5. ASSUME NEW c \in Callers, Connect(c) PROVE CallsTyped'
  BY <1>0, <1>5, TransportIds DEF Connect, Goto, CallsTyped, Steps, Ids
<1>6. ASSUME NEW c \in Callers, CannotConnect(c) PROVE CallsTyped'
  BY <1>0, <1>6, TransportIds DEF CannotConnect, Return, Goto, CallsTyped, Steps, Ids
<1>7. ASSUME NEW c \in Callers, Handshake(c) PROVE CallsTyped'
  BY <1>0, <1>7, TransportIds DEF Handshake, Goto, CallsTyped, Steps, Ids
<1>8. ASSUME NEW c \in Callers, HandshakeFails(c) PROVE CallsTyped'
  BY <1>0, <1>8, TransportIds DEF HandshakeFails, Return, Goto, CallsTyped, Steps, Ids
<1>9. ASSUME NEW c \in Callers, HandshakeTooLate(c) PROVE CallsTyped'
  BY <1>0, <1>9, TransportIds DEF HandshakeTooLate, CloseUnlessShuttingDown, Goto, Return,
       CallsTyped, Steps, Ids
<1>10. ASSUME NEW c \in Callers, Listen(c) PROVE CallsTyped'
  BY <1>0, <1>10, TransportIds DEF Listen, Goto, CallsTyped, Steps, Ids, Starting
<1>11. ASSUME NEW c \in Callers, StartNotWritten(c) PROVE CallsTyped'
  BY <1>0, <1>11, TransportIds DEF StartNotWritten, Return, Goto, CallsTyped, Steps, Ids
<1>12. ASSUME NEW c \in Callers, HearStarted(c) PROVE CallsTyped'
  <2>1. key[mine[c]] \in Sessions \union {NoSession}
    BY <1>0, <1>12 DEF HearStarted, CallsTyped, Typed, TypeOK, Ids
  <2>. QED
    BY <2>1, <1>0, <1>12, TransportIds DEF HearStarted, Goto, CallsTyped, Steps, Ids
<1>13. ASSUME NEW c \in Callers, HearStartFailed(c) PROVE CallsTyped'
  BY <1>0, <1>13, TransportIds DEF HearStartFailed, Return, Goto, CallsTyped, Steps, Ids
<1>14. ASSUME NEW c \in Callers, confirm_pending(c) PROVE CallsTyped'
  BY <1>0, <1>14, TransportIds DEF confirm_pending, Goto, CallsTyped, Steps, Ids
<1>15. ASSUME NEW c \in Callers, ConfirmFails(c) PROVE CallsTyped'
  BY <1>0, <1>15, TransportIds DEF ConfirmFails, Goto, CallsTyped, Steps, Ids
<1>16. ASSUME NEW c \in Callers, publish_pending(c) PROVE CallsTyped'
  BY <1>0, <1>16, TransportIds DEF publish_pending, Return, Goto, CallsTyped, Steps, Ids
<1>17. ASSUME NEW c \in Callers, StartLeftToOthers(c) PROVE CallsTyped'
  BY <1>0, <1>17, TransportIds DEF StartLeftToOthers, Return, Goto, CallsTyped, Steps, Ids
<1>18. ASSUME NEW c \in Callers, StartNotPublished(c) PROVE CallsTyped'
  BY <1>0, <1>18, TransportIds DEF StartNotPublished, Goto, CallsTyped, Steps, Ids
<1>19. ASSUME NEW c \in Callers, discard_pending(c) PROVE CallsTyped'
  BY <1>0, <1>19, TransportIds DEF discard_pending, Return, Goto, CallsTyped, Steps, Ids
<1>20. ASSUME NEW c \in Callers, TakeEventSlot(c) PROVE CallsTyped'
  BY <1>0, <1>20, TransportIds DEF TakeEventSlot, Goto, CallsTyped, Steps, Ids
<1>21. ASSUME NEW c \in Callers, DetachTooLate(c) PROVE CallsTyped'
  BY <1>0, <1>21, TransportIds DEF DetachTooLate, Return, Goto, CallsTyped, Steps, Ids
<1>22. ASSUME NEW c \in Callers, WriteDetach(c) PROVE CallsTyped'
  BY <1>0, <1>22, TransportIds DEF WriteDetach, Goto, CallsTyped, Steps, Ids
<1>23. ASSUME NEW c \in Callers, DetachNotWritten(c) PROVE CallsTyped'
  BY <1>0, <1>23, TransportIds DEF DetachNotWritten, Goto, CallsTyped, Steps, Ids
<1>24. ASSUME NEW c \in Callers, HearDetached(c) PROVE CallsTyped'
  BY <1>0, <1>24, TransportIds DEF HearDetached, CloseUnlessShuttingDown, Goto, Return,
       CallsTyped, Steps, Ids
<1>25. ASSUME NEW c \in Callers, WriteAttach(c) PROVE CallsTyped'
  BY <1>0, <1>25, TransportIds DEF WriteAttach, Goto, CallsTyped, Steps, Ids
<1>26. ASSUME NEW c \in Callers, AttachNotWritten(c) PROVE CallsTyped'
  BY <1>0, <1>26, TransportIds DEF AttachNotWritten, Goto, CallsTyped, Steps, Ids
<1>27. ASSUME NEW c \in Callers, WriteFailed(c) PROVE CallsTyped'
  BY <1>0, <1>27, TransportIds DEF WriteFailed, CloseUnlessShuttingDown, Goto, Return, CallsTyped,
       Steps, Ids
<1>28. ASSUME NEW c \in Callers, LoseTransport(c) PROVE CallsTyped'
  BY <1>0, <1>28, TransportIds DEF LoseTransport, Goto, CallsTyped, Steps, Ids
<1>29. ASSUME NEW c \in Callers, CloseMine(c) PROVE CallsTyped'
  BY <1>0, <1>29, TransportIds DEF CloseMine, Return, Goto, CallsTyped, Steps, Ids
<1>30. ASSUME NEW c \in Callers, HearAttached(c) PROVE CallsTyped'
  BY <1>0, <1>30, TransportIds DEF HearAttached, Return, Goto, CallsTyped, Steps, Ids
<1>31. ASSUME NEW c \in Callers, HearAttachFailed(c) PROVE CallsTyped'
  BY <1>0, <1>31, TransportIds DEF HearAttachFailed, CloseUnlessShuttingDown, Goto, Return,
       CallsTyped, Steps, Ids
<1>. QED
  BY <1>1, <1>2, <1>3, <1>4, <1>5, <1>6, <1>7, <1>8, <1>9, <1>10, <1>11, <1>12, <1>13, <1>14,
       <1>15, <1>16, <1>17, <1>18, <1>19, <1>20, <1>21, <1>22, <1>23, <1>24, <1>25, <1>26, <1>27,
       <1>28, <1>29, <1>30, <1>31, CallMovers

(* What waits for a command or for the shutdown is an event.               *)
LEMMA EventsTyped ==
    ASSUME ManagerAssumption, Typed, Next
    PROVE  events' \in [Callers \union {Main} -> Seq(Events)]
<1>0. /\ events \in [Callers \union {Main} -> Seq(Events)]
      /\ event_sender \in [Transports -> Callers \union {Nobody, Main}]
      /\ \A c \in Callers : mine[c] \in Ids /\ (mine[c] = None <=> pc[c] = "idle")
  BY DEF Typed, TypeOK
<1>1. CASE UNCHANGED <<events>>
  BY <1>0, <1>1
<1>2. ASSUME NEW c \in Callers, CannotConnect(c)
      PROVE  events' \in [Callers \union {Main} -> Seq(Events)]
  BY <1>0, <1>2, TransportIds DEF CannotConnect, Return, Events
<1>3. ASSUME NEW c \in Callers, HandshakeFails(c)
      PROVE  events' \in [Callers \union {Main} -> Seq(Events)]
  BY <1>0, <1>3, TransportIds DEF HandshakeFails, Return, Events
<1>4. ASSUME NEW c \in Callers, HandshakeTooLate(c)
      PROVE  events' \in [Callers \union {Main} -> Seq(Events)]
  <2>1. CASE UNCHANGED events
    BY <1>0, <2>1
  <2>2. CASE Return(c, events)
    BY <1>0, <2>2 DEF Return
  <2>. QED
    BY <1>4, <2>1, <2>2 DEF HandshakeTooLate, CloseUnlessShuttingDown
<1>5. ASSUME NEW c \in Callers, StartNotWritten(c)
      PROVE  events' \in [Callers \union {Main} -> Seq(Events)]
  BY <1>0, <1>5, TransportIds DEF StartNotWritten, Return, Events
<1>6. ASSUME NEW c \in Callers, HearStarted(c)
      PROVE  events' \in [Callers \union {Main} -> Seq(Events)]
  <2>1. events[c] \in Seq(Events) /\ events[c] # <<>>
    BY <1>0, <1>6 DEF HearStarted, Hears
  <2>. QED
    BY <1>0, <1>6, <2>1 DEF HearStarted
<1>7. ASSUME NEW c \in Callers, HearStartFailed(c)
      PROVE  events' \in [Callers \union {Main} -> Seq(Events)]
  BY <1>0, <1>7, TransportIds DEF HearStartFailed, Return, Events
<1>8. ASSUME NEW c \in Callers, publish_pending(c)
      PROVE  events' \in [Callers \union {Main} -> Seq(Events)]
  BY <1>0, <1>8, TransportIds DEF publish_pending, Return, Events
<1>9. ASSUME NEW c \in Callers, StartLeftToOthers(c)
      PROVE  events' \in [Callers \union {Main} -> Seq(Events)]
  BY <1>0, <1>9, TransportIds DEF StartLeftToOthers, Return, Events
<1>10. ASSUME NEW c \in Callers, discard_pending(c)
       PROVE  events' \in [Callers \union {Main} -> Seq(Events)]
  BY <1>0, <1>10, TransportIds DEF discard_pending, Return, Events
<1>11. ASSUME NEW c \in Callers, DetachTooLate(c)
       PROVE  events' \in [Callers \union {Main} -> Seq(Events)]
  BY <1>0, <1>11, TransportIds DEF DetachTooLate, Return, Events
<1>12. ASSUME NEW c \in Callers, HearDetached(c)
       PROVE  events' \in [Callers \union {Main} -> Seq(Events)]
  <2>1. CASE UNCHANGED events
    BY <1>0, <2>1
  <2>2. CASE Return(c, events)
    BY <1>0, <2>2 DEF Return
  <2>. QED
    BY <1>12, <2>1, <2>2 DEF HearDetached, CloseUnlessShuttingDown
<1>13. ASSUME NEW c \in Callers, WriteFailed(c)
       PROVE  events' \in [Callers \union {Main} -> Seq(Events)]
  <2>1. CASE UNCHANGED events
    BY <1>0, <2>1
  <2>2. CASE Return(c, events)
    BY <1>0, <2>2 DEF Return
  <2>. QED
    BY <1>13, <2>1, <2>2 DEF WriteFailed, CloseUnlessShuttingDown
<1>14. ASSUME NEW c \in Callers, LoseTransport(c)
       PROVE  events' \in [Callers \union {Main} -> Seq(Events)]
  <2>1. mine[c] \in Transports
    BY <1>0, <1>14 DEF LoseTransport, Ids
  <2>. QED
    BY <1>0, <1>14, <2>1, EmittedTyped DEF LoseTransport, Events
<1>15. ASSUME NEW c \in Callers, CloseMine(c)
       PROVE  events' \in [Callers \union {Main} -> Seq(Events)]
  BY <1>0, <1>15, TransportIds DEF CloseMine, Return, Events
<1>16. ASSUME NEW c \in Callers, HearAttached(c)
       PROVE  events' \in [Callers \union {Main} -> Seq(Events)]
  BY <1>0, <1>16, TransportIds DEF HearAttached, Return, Events
<1>17. ASSUME NEW c \in Callers, HearAttachFailed(c)
       PROVE  events' \in [Callers \union {Main} -> Seq(Events)]
  <2>1. CASE UNCHANGED events
    BY <1>0, <2>1
  <2>2. CASE Return(c, events)
    BY <1>0, <2>2 DEF Return
  <2>. QED
    BY <1>17, <2>1, <2>2 DEF HearAttachFailed, CloseUnlessShuttingDown
<1>18. ASSUME NEW t \in Transports, ReadStarted(t)
       PROVE  events' \in [Callers \union {Main} -> Seq(Events)]
  BY <1>0, <1>18, EmittedTyped DEF ReadStarted, ReadsLast, Events
<1>19. ASSUME NEW t \in Transports, ReadPendingOver(t)
       PROVE  events' \in [Callers \union {Main} -> Seq(Events)]
  BY <1>0, <1>19, EmittedTyped DEF ReadPendingOver, ReadsLast, Events
<1>20. ASSUME NEW t \in Transports, ReadOver(t)
       PROVE  events' \in [Callers \union {Main} -> Seq(Events)]
  BY <1>0, <1>20, EmittedTyped DEF ReadOver, ReadsLast, Events
<1>21. ASSUME NEW t \in Transports, ReadAttached(t)
       PROVE  events' \in [Callers \union {Main} -> Seq(Events)]
  BY <1>0, <1>21, EmittedTyped DEF ReadAttached, ReadsLast, Events
<1>22. ASSUME NEW t \in Transports, ReadDetached(t)
       PROVE  events' \in [Callers \union {Main} -> Seq(Events)]
  BY <1>0, <1>22, EmittedTyped DEF ReadDetached, ReadsLast, Events
<1>23. ASSUME NEW t \in Transports, ReadStopped(t)
       PROVE  events' \in [Callers \union {Main} -> Seq(Events)]
  BY <1>0, <1>23, EmittedTyped DEF ReadStopped, ReadsLast, Events
<1>24. ASSUME NEW t \in Transports, ReadUnexpected(t)
       PROVE  events' \in [Callers \union {Main} -> Seq(Events)]
  BY <1>0, <1>24, EmittedTyped DEF ReadUnexpected, ReadsLast, Events
<1>25. ASSUME NEW t \in Transports, ReadEnd(t)
       PROVE  events' \in [Callers \union {Main} -> Seq(Events)]
  BY <1>0, <1>25, EmittedTyped DEF ReadEnd, ReadsLast, Events
<1>26. ASSUME FinishTransport PROVE events' \in [Callers \union {Main} -> Seq(Events)]
  BY <1>0, <1>26, TransportIds DEF FinishTransport, Events
<1>. QED
  BY <1>1, <1>2, <1>3, <1>4, <1>5, <1>6, <1>7, <1>8, <1>9, <1>10, <1>11, <1>12, <1>13, <1>14,
       <1>15, <1>16, <1>17, <1>18, <1>19, <1>20, <1>21, <1>22, <1>23, <1>24, <1>25, <1>26,
       EventMovers

(* What a connection received is an answer: PtyStarted names a session.    *)
LEMMA InboxTyped ==
    ASSUME ManagerAssumption, Typed, Next
    PROVE  inbox' \in [Transports -> Seq(Answers)]
<1>0. /\ inbox \in [Transports -> Seq(Answers)]
      /\ outbox \in [Transports -> Seq(Orders)]
      /\ notify \in [Sessions -> Ids]
      /\ \A c \in Callers : mine[c] \in Ids /\ (mine[c] = None <=> pc[c] = "idle")
      /\ \A s \in Sessions : worker[s] # "none" => worker_id[s] \in Transports
      /\ transports \subseteq Transports
      /\ main \in {"stop", "wait", "finish"} => current \in Transports /\ key[current] \in Sessions
  BY DEF Typed, TypeOK
<1>1. CASE UNCHANGED <<inbox>>
  BY <1>0, <1>1
<1>2. ASSUME NEW c \in Callers, HandshakeFails(c) PROVE inbox' \in [Transports -> Seq(Answers)]
  <2>1. mine[c] \in Transports
    BY <1>0, <1>2 DEF HandshakeFails, Ids
  <2>. QED
    BY <1>0, <1>2, <2>1, FinishTyped DEF HandshakeFails, finish_transport
<1>3. ASSUME NEW c \in Callers, StartNotWritten(c) PROVE inbox' \in [Transports -> Seq(Answers)]
  <2>1. mine[c] \in Transports
    BY <1>0, <1>3 DEF StartNotWritten, Ids
  <2>. QED
    BY <1>0, <1>3, <2>1, FinishTyped DEF StartNotWritten, finish_transport
<1>4. ASSUME NEW c \in Callers, HearStartFailed(c) PROVE inbox' \in [Transports -> Seq(Answers)]
  <2>1. mine[c] \in Transports
    BY <1>0, <1>4 DEF HearStartFailed, Ids
  <2>. QED
    BY <1>0, <1>4, <2>1, FinishTyped DEF HearStartFailed, finish_transport
<1>5. ASSUME NEW c \in Callers, discard_pending(c) PROVE inbox' \in [Transports -> Seq(Answers)]
  <2>1. mine[c] \in Transports
    BY <1>0, <1>5 DEF discard_pending, Ids
  <2>. QED
    BY <1>0, <1>5, <2>1, FinishTyped DEF discard_pending, finish_transport
<1>6. ASSUME NEW c \in Callers, CloseMine(c) PROVE inbox' \in [Transports -> Seq(Answers)]
  <2>1. mine[c] \in Transports
    BY <1>0, <1>6 DEF CloseMine, Ids
  <2>. QED
    BY <1>0, <1>6, <2>1, FinishTyped DEF CloseMine, finish_transport
<1>7. ASSUME NEW t \in Transports, ReadStarted(t) PROVE inbox' \in [Transports -> Seq(Answers)]
  BY <1>0, <1>7, TransportIds DEF ReadStarted, Reads
<1>8. ASSUME NEW t \in Transports, ReadPendingOver(t)
      PROVE  inbox' \in [Transports -> Seq(Answers)]
  BY <1>0, <1>8, TransportIds DEF ReadPendingOver, Reads
<1>9. ASSUME NEW t \in Transports, ReadOver(t) PROVE inbox' \in [Transports -> Seq(Answers)]
  BY <1>0, <1>9, TransportIds DEF ReadOver, Reads
<1>10. ASSUME NEW t \in Transports, ReadAttached(t) PROVE inbox' \in [Transports -> Seq(Answers)]
  BY <1>0, <1>10, TransportIds DEF ReadAttached, Reads
<1>11. ASSUME NEW t \in Transports, ReadDetached(t) PROVE inbox' \in [Transports -> Seq(Answers)]
  BY <1>0, <1>11, TransportIds DEF ReadDetached, Reads
<1>12. ASSUME NEW t \in Transports, ReadWhileStopping(t)
       PROVE  inbox' \in [Transports -> Seq(Answers)]
  BY <1>0, <1>12, TransportIds DEF ReadWhileStopping, Reads
<1>13. ASSUME NEW t \in Transports, ReadStopped(t) PROVE inbox' \in [Transports -> Seq(Answers)]
  BY <1>0, <1>13, TransportIds DEF ReadStopped, Reads
<1>14. ASSUME NEW t \in Transports, ReadUnexpected(t)
       PROVE  inbox' \in [Transports -> Seq(Answers)]
  BY <1>0, <1>14, TransportIds DEF ReadUnexpected, Reads
<1>15. ASSUME NEW t \in Transports, FinishReader(t) PROVE inbox' \in [Transports -> Seq(Answers)]
  BY <1>0, <1>15, TransportIds DEF FinishReader
<1>16. ASSUME NEW t \in Transports, BrokerStarts(t) PROVE inbox' \in [Transports -> Seq(Answers)]
  <2>1. UNCHANGED inbox \/ Replied(t, "rejected", NoSession)
    BY <1>16 DEF BrokerStarts
  <2>. QED
    BY <1>0, <2>1, RepliedTyped DEF Answers, Replies, Ids
<1>17. ASSUME NEW t \in Transports, BrokerDelivers(t)
       PROVE  inbox' \in [Transports -> Seq(Answers)]
  <2>1. PICK s \in Sessions : Replied(t, "started", s)
    BY <1>17 DEF BrokerDelivers
  <2>. QED
    BY <1>0, <2>1, RepliedTyped DEF Answers, Ids
<1>18. ASSUME NEW t \in Transports, BrokerConfirms(t)
       PROVE  inbox' \in [Transports -> Seq(Answers)]
  <2>1. Head(outbox[t]) \in Orders
    BY <1>0, <1>18 DEF BrokerConfirms, Requested
  <2>2. PICK s \in Sessions \union {NoSession} : s = Head(outbox[t])[2]
    BY <2>1 DEF Orders
  <2>3. UNCHANGED inbox
        \/ \E reply \in {"attached", "stopped", "not_found", "rejected"} : Replied(t, reply, s)
    BY <1>18, <2>2 DEF BrokerConfirms
  <2>4. \A reply \in {"attached", "stopped", "not_found", "rejected"} : <<reply, s>> \in Answers
    BY DEF Answers, Replies
  <2>. QED
    BY <1>0, <2>3, <2>4, RepliedTyped DEF Ids
<1>19. ASSUME NEW t \in Transports, BrokerAttaches(t)
       PROVE  inbox' \in [Transports -> Seq(Answers)]
  <2>1. Head(outbox[t]) \in Orders
    BY <1>0, <1>19 DEF BrokerAttaches, Requested
  <2>2. PICK s \in Sessions \union {NoSession} : s = Head(outbox[t])[2]
    BY <2>1 DEF Orders
  <2>3. UNCHANGED inbox
        \/ \E reply \in {"attached", "stopped", "not_found", "rejected"} : Replied(t, reply, s)
    BY <1>19, <2>2 DEF BrokerAttaches
  <2>4. \A reply \in {"attached", "stopped", "not_found", "rejected"} : <<reply, s>> \in Answers
    BY DEF Answers, Replies
  <2>. QED
    BY <1>0, <2>3, <2>4, RepliedTyped DEF Ids
<1>20. ASSUME NEW t \in Transports, BrokerDetaches(t)
       PROVE  inbox' \in [Transports -> Seq(Answers)]
  BY <1>0, <1>20, RepliedTyped DEF BrokerDetaches, Answers, Replies, Ids
<1>21. ASSUME NEW t \in Transports, BrokerStops(t) PROVE inbox' \in [Transports -> Seq(Answers)]
  <2>1. Head(outbox[t]) \in Orders
    BY <1>0, <1>21 DEF BrokerStops, Requested
  <2>2. PICK s \in Sessions \union {NoSession} : s = Head(outbox[t])[2]
    BY <2>1 DEF Orders
  <2>3. UNCHANGED inbox
        \/ \E reply \in {"attached", "stopped", "not_found", "rejected"} : Replied(t, reply, s)
    BY <1>21, <2>2 DEF BrokerStops
  <2>4. \A reply \in {"attached", "stopped", "not_found", "rejected"} : <<reply, s>> \in Answers
    BY DEF Answers, Replies
  <2>. QED
    BY <1>0, <2>3, <2>4, RepliedTyped DEF Ids
<1>22. ASSUME NEW t \in Transports, ConnectionCut(t) PROVE inbox' \in [Transports -> Seq(Answers)]
  BY <1>0, <1>22, CutTyped DEF ConnectionCut
<1>23. ASSUME NEW t \in Transports, CloseTransport(t)
       PROVE  inbox' \in [Transports -> Seq(Answers)]
  BY <1>0, <1>23, FinishTyped DEF CloseTransport, finish_transport
<1>24. ASSUME FinishTransport PROVE inbox' \in [Transports -> Seq(Answers)]
  BY <1>0, <1>24, FinishTyped DEF FinishTransport, finish_transport
<1>25. ASSUME NEW s \in Sessions, AbandonWorker(s) PROVE inbox' \in [Transports -> Seq(Answers)]
  <2>1. CASE current \in transports
    BY <1>0, <1>25, <2>1, FinishTyped DEF AbandonWorker, finish_transport
  <2>2. CASE current \notin transports
    BY <1>0, <1>25, <2>2 DEF AbandonWorker
  <2>. QED
    BY <2>1, <2>2
<1>26. ASSUME NEW s \in Sessions, NEW from \in {"read_attach", "read_stop"},
              NEW good, NEW next \in {"stop", "finish"}, WorkerReads(s, from, good, next)
       PROVE  inbox' \in [Transports -> Seq(Answers)]
  <2>1. worker_id[s] \in Transports
    BY <1>0, <1>26 DEF WorkerReads
  <2>2. \/ UNCHANGED inbox
        \/ /\ inbox[worker_id[s]] # <<>>
           /\ inbox' = [inbox EXCEPT ![worker_id[s]] = Tail(inbox[worker_id[s]])]
    BY <1>26 DEF WorkerReads
  <2>3. inbox[worker_id[s]] \in Seq(Answers)
    BY <1>0, <2>1
  <2>4. inbox[worker_id[s]] # <<>> => Tail(inbox[worker_id[s]]) \in Seq(Answers)
    BY <2>3
  <2>. QED
    BY <1>0, <2>1, <2>2, <2>4
<1>27. ASSUME NEW s \in Sessions, WorkerFinishes(s) PROVE inbox' \in [Transports -> Seq(Answers)]
  BY <1>0, <1>27, FinishTyped DEF WorkerFinishes, finish_transport
<1>28. ASSUME NEW s \in Sessions, BrokerAnnounces(s) PROVE inbox' \in [Transports -> Seq(Answers)]
  BY <1>0, <1>28, RepliedTyped DEF BrokerAnnounces, Answers, Replies
<1>. QED
  BY <1>1, <1>2, <1>3, <1>4, <1>5, <1>6, <1>7, <1>8, <1>9, <1>10, <1>11, <1>12, <1>13, <1>14,
       <1>15, <1>16, <1>17, <1>18, <1>19, <1>20, <1>21, <1>22, <1>23, <1>24, <1>25, <1>26, <1>27,
       <1>28, InboxMovers

(* What a connection sent is a request: PtyAttach names a session.         *)
LEMMA OutboxTyped ==
    ASSUME ManagerAssumption, Typed, Next
    PROVE  outbox' \in [Transports -> Seq(Orders)]
<1>0. /\ outbox \in [Transports -> Seq(Orders)]
      /\ at \in [Callers -> Sessions \union {NoSession}]
      /\ key \in [Transports -> Sessions \union {NoSession}]
      /\ \A c \in Callers : mine[c] \in Ids /\ (mine[c] = None <=> pc[c] = "idle")
      /\ \A s \in Sessions : worker[s] # "none" => worker_id[s] \in Transports
      /\ \A c \in Callers : pc[c] = "attach" => at[c] \in Sessions
      /\ main \in {"stop", "wait", "finish"} => current \in Transports /\ key[current] \in Sessions
  BY DEF Typed, TypeOK
<1>1. CASE UNCHANGED <<outbox>>
  BY <1>0, <1>1
<1>2. ASSUME NEW c \in Callers, Listen(c) PROVE outbox' \in [Transports -> Seq(Orders)]
  <2>1. mine[c] \in Transports
    BY <1>0, <1>2 DEF Listen, Ids
  <2>2. <<<<"start", NoSession>>>> \in Seq(Orders)
    BY <1>0, <1>2 DEF Listen, Orders, Requests
  <2>. QED
    BY <1>0, <1>2, <2>1, <2>2, WrittenTyped DEF Listen
<1>3. ASSUME NEW c \in Callers, confirm_pending(c) PROVE outbox' \in [Transports -> Seq(Orders)]
  <2>1. mine[c] \in Transports
    BY <1>0, <1>3 DEF confirm_pending, Ids
  <2>2. StartAck(c) \in Seq(Orders)
    BY <1>0, <1>3 DEF confirm_pending, Orders, Requests, StartAck
  <2>. QED
    BY <1>0, <1>3, <2>1, <2>2, WrittenTyped DEF confirm_pending
<1>4. ASSUME NEW c \in Callers, WriteDetach(c) PROVE outbox' \in [Transports -> Seq(Orders)]
  <2>1. mine[c] \in Transports
    BY <1>0, <1>4 DEF WriteDetach, Ids
  <2>2. <<<<"detach", NoSession>>>> \in Seq(Orders)
    BY <1>0, <1>4 DEF WriteDetach, Orders, Requests
  <2>. QED
    BY <1>0, <1>4, <2>1, <2>2, WrittenTyped DEF WriteDetach
<1>5. ASSUME NEW c \in Callers, WriteAttach(c) PROVE outbox' \in [Transports -> Seq(Orders)]
  <2>1. mine[c] \in Transports
    BY <1>0, <1>5 DEF WriteAttach, Ids
  <2>2. <<<<"attach", at[c]>>>> \in Seq(Orders)
    BY <1>0, <1>5 DEF WriteAttach, Orders, Requests
  <2>. QED
    BY <1>0, <1>5, <2>1, <2>2, WrittenTyped DEF WriteAttach
<1>6. ASSUME NEW t \in Transports, BrokerStarts(t) PROVE outbox' \in [Transports -> Seq(Orders)]
  BY <1>0, <1>6, TransportIds DEF BrokerStarts, Requested
<1>7. ASSUME NEW t \in Transports, BrokerConfirms(t) PROVE outbox' \in [Transports -> Seq(Orders)]
  BY <1>0, <1>7, TransportIds DEF BrokerConfirms, Requested
<1>8. ASSUME NEW t \in Transports, BrokerAttaches(t) PROVE outbox' \in [Transports -> Seq(Orders)]
  BY <1>0, <1>8, TransportIds DEF BrokerAttaches, Requested
<1>9. ASSUME NEW t \in Transports, BrokerDetaches(t) PROVE outbox' \in [Transports -> Seq(Orders)]
  BY <1>0, <1>9, TransportIds DEF BrokerDetaches, Requested
<1>10. ASSUME NEW t \in Transports, BrokerStops(t) PROVE outbox' \in [Transports -> Seq(Orders)]
  BY <1>0, <1>10, TransportIds DEF BrokerStops, Requested
<1>11. ASSUME NEW t \in Transports, BrokerNotices(t) PROVE outbox' \in [Transports -> Seq(Orders)]
  BY <1>0, <1>11, TransportIds DEF BrokerNotices
<1>12. ASSUME WriteStop PROVE outbox' \in [Transports -> Seq(Orders)]
  <2>1. StopRequests \in Seq(Orders)
    <3>1. key[current] \in Sessions
      BY <1>0, <1>12 DEF WriteStop
    <3>2. <<"attach", key[current]>> \in Orders /\ <<"stop", key[current]>> \in Orders
      BY <3>1 DEF Orders, Requests
    <3>. QED
      BY <3>2 DEF StopRequests
  <2>. QED
    BY <1>0, <1>12, <2>1, WrittenTyped DEF WriteStop
<1>13. ASSUME NEW s \in Sessions, WorkerAttaches(s) PROVE outbox' \in [Transports -> Seq(Orders)]
  <2>1. worker_id[s] \in Transports /\ <<<<"attach", s>>>> \in Seq(Orders)
    BY <1>0, <1>13 DEF WorkerAttaches, WorkerWrites, Orders, Requests
  <2>. QED
    BY <1>0, <1>13, <2>1, WrittenTyped DEF WorkerAttaches, WorkerWrites, WriteFails
<1>14. ASSUME NEW s \in Sessions, WorkerRequestsStop(s)
       PROVE  outbox' \in [Transports -> Seq(Orders)]
  <2>1. worker_id[s] \in Transports /\ <<<<"stop", s>>>> \in Seq(Orders)
    BY <1>0, <1>14 DEF WorkerRequestsStop, WorkerWrites, Orders, Requests
  <2>. QED
    BY <1>0, <1>14, <2>1, WrittenTyped DEF WorkerRequestsStop, WorkerWrites, WriteFails
<1>. QED
  BY <1>1, <1>2, <1>3, <1>4, <1>5, <1>6, <1>7, <1>8, <1>9, <1>10, <1>11, <1>12, <1>13, <1>14,
       OutboxMovers

(* The shutdown's thread: it has a connection in hand when it writes a     *)
(* stop, waits for the answer and closes it.                               *)
PlanTyped ==
    /\ main \in {"idle", "quiesce", "stop", "wait", "finish", "watch", "done"}
    /\ to_quiesce \subseteq Transports
    /\ fallback \in [Transports -> Sessions \union {NoSession}]
    /\ to_stop \subseteq Sessions
    /\ current \in Ids
    /\ attach_first \in BOOLEAN
    /\ main = "idle" <=> ~shutting_down
    /\ main \in {"stop", "wait", "finish"} => current \in Transports /\ key[current] \in Sessions

(* The shutdown waits for connections that have a session.                 *)
LEMMA PlanStep ==
    ASSUME ManagerAssumption, Typed, Next
    PROVE  PlanTyped'
<1>0. /\ PlanTyped /\ shutting_down \in BOOLEAN /\ transports \subseteq Transports
      /\ binding \in [Transports -> Bindings]
      /\ key \in [Transports -> Sessions \union {NoSession}]
      /\ next_transport_id \in Nat /\ next_transport_id # None
      /\ \A t \in Transports : key[t] = NoSession => binding[t] \in Unkeyed
  BY DEF Typed, TypeOK, PlanTyped
<1>1. CASE UNCHANGED <<main, to_quiesce, fallback, to_stop, current, attach_first, shutting_down,
                       key>>
  BY <1>0, <1>1 DEF PlanTyped
<1>2. ASSUME NEW c \in Callers, Connect(c) PROVE PlanTyped'
  BY <1>0, <1>2, TransportIds DEF PlanTyped, Connect, UnchangedElsewhere, UnchangedByCommands,
       plan, Ids, Unkeyed, MayRegister
<1>3. ASSUME NEW t \in Transports, ReadStarted(t) PROVE PlanTyped'
  BY <1>0, <1>3, TransportIds DEF PlanTyped, ReadStarted, Reads, UnchangedElsewhere,
       UnchangedByCommands, plan, ReadsLast, Ids, Unkeyed, MayInsert
<1>4. ASSUME BeginShutdown PROVE PlanTyped'
  <2>1. \A t \in Transports : Owned(t) # {} => (CHOOSE s \in Owned(t) : TRUE) \in Sessions
    BY DEF Owned
  <2>2. fallback' \in [Transports -> Sessions \union {NoSession}]
    BY <2>1, <1>4 DEF BeginShutdown
  <2>. QED
    BY <1>0, <2>2, <1>4 DEF BeginShutdown, PlanTyped, conns
<1>5. ASSUME NEW t \in Transports, CloseTransport(t) PROVE PlanTyped'
  BY <1>0, <1>5, TransportIds DEF PlanTyped, CloseTransport, Quiesces, UnchangedByMain, Ids,
       Unkeyed
<1>6. ASSUME NEW t \in Transports, TakeOverTransport(t) PROVE PlanTyped'
  BY <1>0, <1>6, TransportIds DEF PlanTyped, TakeOverTransport, Quiesces, UnchangedByMain, Ids,
       Unkeyed
<1>7. ASSUME WriteStop PROVE PlanTyped'
  BY <1>0, <1>7, TransportIds DEF PlanTyped, WriteStop, UnchangedByMain, Ids, Unkeyed
<1>8. ASSUME StopNotWritten PROVE PlanTyped'
  BY <1>0, <1>8, TransportIds DEF PlanTyped, StopNotWritten, UnchangedByMain, Ids, Unkeyed
<1>9. ASSUME HearStopped PROVE PlanTyped'
  BY <1>0, <1>9, TransportIds DEF PlanTyped, HearStopped, UnchangedByMain, Ids, Unkeyed
<1>10. ASSUME StopWaiting PROVE PlanTyped'
  BY <1>0, <1>10, TransportIds DEF PlanTyped, StopWaiting, UnchangedByMain, Ids, Unkeyed
<1>11. ASSUME FinishTransport PROVE PlanTyped'
  BY <1>0, <1>11, TransportIds DEF PlanTyped, FinishTransport, UnchangedByMain, Ids, Unkeyed
<1>12. ASSUME NEW s \in Sessions, SpawnWorker(s) PROVE PlanTyped'
  BY <1>0, <1>12, TransportIds DEF PlanTyped, SpawnWorker, UnchangedByMain, Ids, Unkeyed
<1>13. ASSUME NEW s \in Sessions, JoinWorker(s) PROVE PlanTyped'
  BY <1>0, <1>13, TransportIds DEF PlanTyped, JoinWorker, UnchangedByMain, Ids, Unkeyed
<1>14. ASSUME NEW s \in Sessions, AbandonWorker(s) PROVE PlanTyped'
  BY <1>0, <1>14, TransportIds DEF PlanTyped, AbandonWorker, UnchangedByMain, Ids, Unkeyed
<1>15. ASSUME EndShutdown PROVE PlanTyped'
  BY <1>0, <1>15, TransportIds DEF PlanTyped, EndShutdown, UnchangedByMain, Ids, Unkeyed
<1>. QED
  BY <1>1, <1>2, <1>3, <1>4, <1>5, <1>6, <1>7, <1>8, <1>9, <1>10, <1>11, <1>12, <1>13, <1>14,
       <1>15, PlanMovers, FlagMovers, KeyMovers DEF plan, workers

(* A connection without a session is not used for one.                     *)
Keyed ==
    \A t \in Transports : key[t] = NoSession => binding[t] \in Unkeyed

(* Only a connection that is not yet, or no longer, used has no session.   *)
LEMMA KeyedStep ==
    ASSUME ManagerAssumption, Typed, Next
    PROVE  Keyed'
<1>0. /\ Keyed
      /\ binding \in [Transports -> Bindings]
      /\ key \in [Transports -> Sessions \union {NoSession}]
      /\ inbox \in [Transports -> Seq(Answers)]
  BY DEF Typed, TypeOK, Keyed
<1>a. /\ binding' \in [Transports -> Bindings]
      /\ key' \in [Transports -> Sessions \union {NoSession}]
  BY BindingTyped, KeyTyped
<1>1. CASE UNCHANGED <<binding, key>>
  BY <1>0, <1>1 DEF Keyed
<1>2. ASSUME NEW c \in Callers, Connect(c) PROVE Keyed'
  BY <1>0, <1>a, <1>2 DEF Keyed, Connect, Starting, Unkeyed
<1>3. ASSUME NEW c \in Callers, confirm_pending(c) PROVE Keyed'
  BY <1>0, <1>3, TransportIds DEF Keyed, confirm_pending, Unkeyed, ReadsLast, Reads,
       handle_transport_loss
<1>4. ASSUME NEW c \in Callers, publish_pending(c) PROVE Keyed'
  BY <1>0, <1>4, TransportIds DEF Keyed, publish_pending, Unkeyed, ReadsLast, Reads,
       handle_transport_loss
<1>5. ASSUME NEW c \in Callers, discard_pending(c) PROVE Keyed'
  BY <1>0, <1>5, TransportIds DEF Keyed, discard_pending, Unkeyed, ReadsLast, Reads,
       handle_transport_loss
<1>6. ASSUME NEW c \in Callers, WriteDetach(c) PROVE Keyed'
  BY <1>0, <1>6, TransportIds DEF Keyed, WriteDetach, Unkeyed, ReadsLast, Reads,
       handle_transport_loss
<1>7. ASSUME NEW c \in Callers, WriteAttach(c) PROVE Keyed'
  BY <1>0, <1>7, TransportIds DEF Keyed, WriteAttach, Unkeyed, ReadsLast, Reads,
       handle_transport_loss
<1>8. ASSUME NEW c \in Callers, LoseTransport(c) PROVE Keyed'
  BY <1>0, <1>8, TransportIds DEF Keyed, LoseTransport, handle_transport_loss, Unkeyed, ReadsLast,
       Reads
<1>9. ASSUME NEW t \in Transports, ReadStarted(t) PROVE Keyed'
  <2>1. Head(inbox[t]) \in Answers /\ Head(inbox[t])[1] = "started"
    BY <1>0, <1>9 DEF ReadStarted, Reads
  <2>2. PICK s \in Sessions : s = Head(inbox[t])[2]
    BY <2>1 DEF Answers
  <2>3. NoSession \notin Sessions
    BY DEF ManagerAssumption
  <2>. QED
    BY <1>0, <1>9, <2>2, <2>3 DEF Keyed, ReadStarted, ReadsLast, Unkeyed
<1>10. ASSUME NEW t \in Transports, ReadPendingOver(t) PROVE Keyed'
  BY <1>0, <1>10, TransportIds DEF Keyed, ReadPendingOver, ReadsLast, Unkeyed, Reads,
       handle_transport_loss
<1>11. ASSUME NEW t \in Transports, ReadOver(t) PROVE Keyed'
  BY <1>0, <1>11, TransportIds DEF Keyed, ReadOver, ReadsLast, Unkeyed, Reads,
       handle_transport_loss
<1>12. ASSUME NEW t \in Transports, ReadAttached(t) PROVE Keyed'
  BY <1>0, <1>12, TransportIds DEF Keyed, ReadAttached, ReadsLast, Unkeyed, Reads,
       handle_transport_loss
<1>13. ASSUME NEW t \in Transports, ReadDetached(t) PROVE Keyed'
  BY <1>0, <1>13, TransportIds DEF Keyed, ReadDetached, ReadsLast, Unkeyed, Reads,
       handle_transport_loss
<1>14. ASSUME NEW t \in Transports, ReadStopped(t) PROVE Keyed'
  BY <1>0, <1>14, TransportIds DEF Keyed, ReadStopped, ReadsLast, Unkeyed, Reads,
       handle_transport_loss
<1>15. ASSUME NEW t \in Transports, ReadUnexpected(t) PROVE Keyed'
  BY <1>0, <1>15, TransportIds DEF Keyed, ReadUnexpected, ReadsLast, Unkeyed, Reads,
       handle_transport_loss
<1>16. ASSUME NEW t \in Transports, ReadEnd(t) PROVE Keyed'
  BY <1>0, <1>16, TransportIds DEF Keyed, ReadEnd, ReadsLast, Unkeyed, Reads,
       handle_transport_loss
<1>17. ASSUME NEW t \in Transports, CloseTransport(t) PROVE Keyed'
  BY <1>0, <1>17, TransportIds DEF Keyed, CloseTransport, UnchangedByMain, Unkeyed, ReadsLast,
       Reads, handle_transport_loss
<1>18. ASSUME NEW t \in Transports, TakeOverTransport(t) PROVE Keyed'
  BY <1>0, <1>18, TransportIds DEF Keyed, TakeOverTransport, UnchangedByMain, Unkeyed, ReadsLast,
       Reads, handle_transport_loss
<1>19. ASSUME NEW s \in Sessions, WorkerConnects(s) PROVE Keyed'
  BY <1>0, <1>19, TransportIds DEF Keyed, WorkerConnects, UnchangedByWorker, Unkeyed, ReadsLast,
       Reads, handle_transport_loss
<1>. QED
  BY <1>1, <1>2, <1>3, <1>4, <1>5, <1>6, <1>7, <1>8, <1>9, <1>10, <1>11, <1>12, <1>13, <1>14,
       <1>15, <1>16, <1>17, <1>18, <1>19, BindingMovers, KeyMovers DEF plan, workers

(* A worker that was started has an id of its own.                         *)
WorkersTyped ==
    /\ worker \in [Sessions -> {"none", "begin", "connect", "check", "read_attach", "stop",
                                "read_stop", "finish", "done"}]
    /\ worker_id \in [Sessions -> Ids]
    /\ cancelled \subseteq Sessions
    /\ \A s \in Sessions : worker[s] # "none" => worker_id[s] \in Transports

(* A worker has a connection id of its own (stop_detached_bounded).        *)
LEMMA WorkersStep ==
    ASSUME ManagerAssumption, Typed, Next
    PROVE  WorkersTyped'
<1>0. WorkersTyped
  BY DEF Typed, TypeOK, WorkersTyped
<1>1. CASE UNCHANGED <<worker, worker_id, cancelled>>
  BY <1>0, <1>1 DEF WorkersTyped
<1>2. ASSUME NEW s \in Sessions, SpawnWorker(s) PROVE WorkersTyped'
  BY <1>0, <1>2, TransportIds DEF WorkersTyped, SpawnWorker, Ids
<1>3. ASSUME NEW s \in Sessions, AbandonWorker(s) PROVE WorkersTyped'
  BY <1>0, <1>3, TransportIds DEF WorkersTyped, AbandonWorker, Ids
<1>4. ASSUME NEW s \in Sessions, WorkerBegins(s) PROVE WorkersTyped'
  BY <1>0, <1>4, TransportIds DEF WorkersTyped, WorkerBegins, WorkerGoes, UnchangedByWorker, Ids
<1>5. ASSUME NEW s \in Sessions, WorkerConnects(s) PROVE WorkersTyped'
  BY <1>0, <1>5, TransportIds DEF WorkersTyped, WorkerConnects, WorkerGoes, UnchangedByWorker, Ids
<1>6. ASSUME NEW s \in Sessions, WorkerCannotConnect(s) PROVE WorkersTyped'
  BY <1>0, <1>6, TransportIds DEF WorkersTyped, WorkerCannotConnect, WorkerGoes,
       UnchangedByWorker, Ids
<1>7. ASSUME NEW s \in Sessions, WorkerStops(s) PROVE WorkersTyped'
  BY <1>0, <1>7, TransportIds DEF WorkersTyped, WorkerStops, WorkerGoes, UnchangedByWorker, Ids
<1>8. ASSUME NEW s \in Sessions, WorkerAttaches(s) PROVE WorkersTyped'
  BY <1>0, <1>8, TransportIds DEF WorkersTyped, WorkerAttaches, WorkerWrites, WorkerGoes,
       UnchangedByWorker, Ids
<1>9. ASSUME NEW s \in Sessions, NEW from \in {"read_attach", "read_stop"},
              NEW good, NEW next \in {"stop", "finish"}, WorkerReads(s, from, good, next)
      PROVE  WorkersTyped'
  BY <1>0, <1>9, TransportIds DEF WorkersTyped, WorkerReads, WorkerGoes, UnchangedByWorker, Ids
<1>10. ASSUME NEW s \in Sessions, WorkerRequestsStop(s) PROVE WorkersTyped'
  BY <1>0, <1>10, TransportIds DEF WorkersTyped, WorkerRequestsStop, WorkerWrites, WorkerGoes,
       UnchangedByWorker, Ids
<1>11. ASSUME NEW s \in Sessions, WorkerFinishes(s) PROVE WorkersTyped'
  BY <1>0, <1>11, TransportIds DEF WorkersTyped, WorkerFinishes, WorkerGoes, UnchangedByWorker,
       Ids
<1>. QED
  BY <1>1, <1>2, <1>3, <1>4, <1>5, <1>6, <1>7, <1>8, <1>9, <1>10, <1>11, WorkerMovers DEF plan,
     workers

(* The steps of the broker, and those that tell it that a connection       *)
(* ended.                                                                  *)
LEMMA RemoteMovers ==
    ASSUME Next, remote' # remote
    PROVE  \/ \E t \in Transports :
                \/ BrokerStarts(t) \/ BrokerDelivers(t) \/ BrokerConfirms(t)
                \/ BrokerAttaches(t) \/ BrokerDetaches(t) \/ BrokerStops(t)
                \/ BrokerNotices(t)
           \/ \E s \in Sessions : AgentExits(s) \/ BrokerAnnounces(s)
<1>1. ASSUME NEW c \in Callers,
             \/ start(c) \/ Connect(c) \/ CannotConnect(c) \/ Handshake(c)
             \/ HandshakeFails(c) \/ HandshakeTooLate(c) \/ Listen(c)
             \/ StartNotWritten(c) \/ HearStarted(c) \/ HearStartFailed(c)
             \/ confirm_pending(c) \/ ConfirmFails(c) \/ publish_pending(c)
             \/ StartLeftToOthers(c) \/ StartNotPublished(c) \/ discard_pending(c)
             \/ TakeEventSlot(c) \/ DetachTooLate(c) \/ WriteDetach(c)
             \/ DetachNotWritten(c) \/ HearDetached(c) \/ WriteAttach(c)
             \/ AttachNotWritten(c) \/ WriteFailed(c) \/ LoseTransport(c)
             \/ CloseMine(c) \/ HearAttached(c) \/ HearAttachFailed(c)
      PROVE  UNCHANGED remote
  BY <1>1 DEF remote, start, Begin, UnchangedElsewhere, UnchangedByCommands, Connect,
       CannotConnect, Handshake, HandshakeFails, HandshakeTooLate, Listen, StartNotWritten,
       HearStarted, HearStartFailed, MayInterrupt, confirm_pending, ConfirmFails, publish_pending,
       StartLeftToOthers, StartNotPublished, discard_pending, TakeEventSlot, DetachTooLate,
       WriteDetach, DetachNotWritten, HearDetached, WriteAttach, AttachNotWritten, WriteFailed,
       LoseTransport, CloseMine, HearAttached, HearAttachFailed
<1>2. ASSUME NEW c \in Callers, NEW s \in Sessions, reattach(c, s) \/ detach(c, s)
      PROVE  UNCHANGED remote
  BY <1>2 DEF remote, reattach, Begin, UnchangedElsewhere, UnchangedByCommands, detach
<1>3. ASSUME NEW t \in Transports,
             \/ ReadStarted(t) \/ ReadPendingOver(t) \/ ReadOver(t)
             \/ ReadAttached(t) \/ ReadDetached(t) \/ ReadWhileStopping(t)
             \/ ReadStopped(t) \/ ReadUnexpected(t) \/ ReadEnd(t) \/ FinishReader(t)
             \/ ConnectionCut(t) \/ CloseTransport(t) \/ TakeOverTransport(t)
      PROVE  UNCHANGED remote
  BY <1>3 DEF remote, ReadStarted, Reads, UnchangedElsewhere, UnchangedByCommands,
       ReadPendingOver, ReadOver, ReadAttached, ReadDetached, ReadWhileStopping, ReadStopped,
       ReadUnexpected, ReadEnd, FinishReader, ConnectionCut, CloseTransport, UnchangedByMain,
       TakeOverTransport
<1>4. ASSUME \/ BeginShutdown \/ WriteStop \/ StopNotWritten \/ HearStopped
             \/ StopWaiting \/ FinishTransport \/ EndShutdown
      PROVE  UNCHANGED remote
  BY <1>4 DEF remote, BeginShutdown, WriteStop, UnchangedByMain, StopNotWritten, HearStopped,
       StopWaiting, FinishTransport, EndShutdown
<1>5. ASSUME NEW s \in Sessions,
             \/ SpawnWorker(s) \/ JoinWorker(s) \/ AbandonWorker(s)
             \/ WorkerBegins(s) \/ WorkerConnects(s) \/ WorkerCannotConnect(s)
             \/ WorkerStops(s) \/ WorkerAttaches(s)
             \/ WorkerReads(s, "read_attach", "attached", "stop")
             \/ WorkerReads(s, "read_stop", "stopped", "finish")
             \/ WorkerRequestsStop(s) \/ WorkerFinishes(s)
      PROVE  UNCHANGED remote
  BY <1>5 DEF remote, SpawnWorker, UnchangedByMain, JoinWorker, AbandonWorker, WorkerBegins,
       UnchangedByWorker, WorkerConnects, WorkerCannotConnect, WorkerStops, WorkerAttaches,
       WorkerWrites, WorkerReads, WorkerRequestsStop, WorkerFinishes
<1>. QED
  BY <1>1, <1>2, <1>3, <1>4, <1>5 DEF Next, CallerStep, ReaderStep, BrokerStep, MainStep, WorkerStep

(* The steps that give a session up, or take one from the shutdown.        *)
LEMMA HistoryMovers ==
    ASSUME Next, <<given_up, interrupted>>' # <<given_up, interrupted>>
    PROVE  \/ \E c \in Callers :
                \/ HearStartFailed(c) \/ discard_pending(c) \/ TakeEventSlot(c)
                \/ CloseMine(c)
           \/ \E t \in Transports : BrokerAttaches(t)
           \/ BeginShutdown \/ StopWaiting
           \/ \E s \in Sessions : AbandonWorker(s) \/ WorkerCannotConnect(s)
<1>1. ASSUME NEW c \in Callers,
             \/ start(c) \/ Connect(c) \/ CannotConnect(c) \/ Handshake(c)
             \/ HandshakeFails(c) \/ HandshakeTooLate(c) \/ Listen(c)
             \/ StartNotWritten(c) \/ HearStarted(c) \/ confirm_pending(c)
             \/ ConfirmFails(c) \/ publish_pending(c) \/ StartLeftToOthers(c)
             \/ StartNotPublished(c) \/ DetachTooLate(c) \/ WriteDetach(c)
             \/ DetachNotWritten(c) \/ HearDetached(c) \/ WriteAttach(c)
             \/ AttachNotWritten(c) \/ WriteFailed(c) \/ LoseTransport(c)
             \/ HearAttached(c) \/ HearAttachFailed(c)
      PROVE  UNCHANGED <<given_up, interrupted>>
  BY <1>1 DEF start, Begin, UnchangedElsewhere, UnchangedByCommands, Connect, CannotConnect,
       Handshake, HandshakeFails, HandshakeTooLate, Listen, StartNotWritten, HearStarted,
       confirm_pending, ConfirmFails, publish_pending, StartLeftToOthers, StartNotPublished,
       DetachTooLate, WriteDetach, DetachNotWritten, HearDetached, WriteAttach, AttachNotWritten,
       WriteFailed, LoseTransport, HearAttached, HearAttachFailed
<1>2. ASSUME NEW c \in Callers, NEW s \in Sessions, reattach(c, s) \/ detach(c, s)
      PROVE  UNCHANGED <<given_up, interrupted>>
  BY <1>2 DEF reattach, Begin, UnchangedElsewhere, UnchangedByCommands, detach
<1>3. ASSUME NEW t \in Transports,
             \/ ReadStarted(t) \/ ReadPendingOver(t) \/ ReadOver(t)
             \/ ReadAttached(t) \/ ReadDetached(t) \/ ReadWhileStopping(t)
             \/ ReadStopped(t) \/ ReadUnexpected(t) \/ ReadEnd(t) \/ FinishReader(t)
             \/ BrokerStarts(t) \/ BrokerDelivers(t) \/ BrokerConfirms(t)
             \/ BrokerDetaches(t) \/ BrokerStops(t) \/ BrokerNotices(t)
             \/ ConnectionCut(t) \/ CloseTransport(t) \/ TakeOverTransport(t)
      PROVE  UNCHANGED <<given_up, interrupted>>
  BY <1>3 DEF ReadStarted, Reads, UnchangedElsewhere, UnchangedByCommands, ReadPendingOver,
       ReadOver, ReadAttached, ReadDetached, ReadWhileStopping, ReadStopped, ReadUnexpected,
       ReadEnd, FinishReader, BrokerStarts, Requested, UnchangedByRequests, BrokerDelivers,
       UnchangedByBroker, BrokerConfirms, BrokerDetaches, BrokerStops, BrokerNotices,
       ConnectionCut, CloseTransport, UnchangedByMain, TakeOverTransport
<1>4. ASSUME \/ WriteStop \/ StopNotWritten \/ HearStopped \/ FinishTransport
             \/ EndShutdown
      PROVE  UNCHANGED <<given_up, interrupted>>
  BY <1>4 DEF WriteStop, UnchangedByMain, StopNotWritten, HearStopped, FinishTransport,
       EndShutdown
<1>5. ASSUME NEW s \in Sessions,
             \/ SpawnWorker(s) \/ JoinWorker(s) \/ WorkerBegins(s)
             \/ WorkerConnects(s) \/ WorkerStops(s) \/ WorkerAttaches(s)
             \/ WorkerReads(s, "read_attach", "attached", "stop")
             \/ WorkerReads(s, "read_stop", "stopped", "finish")
             \/ WorkerRequestsStop(s) \/ WorkerFinishes(s) \/ AgentExits(s)
             \/ BrokerAnnounces(s)
      PROVE  UNCHANGED <<given_up, interrupted>>
  BY <1>5 DEF SpawnWorker, UnchangedByMain, JoinWorker, WorkerBegins, UnchangedByWorker,
       WorkerConnects, WorkerStops, WorkerAttaches, WorkerWrites, WorkerReads, WorkerRequestsStop,
       WorkerFinishes, AgentExits, UnchangedByBroker, UnchangedByRequests, BrokerAnnounces
<1>. QED
  BY <1>1, <1>2, <1>3, <1>4, <1>5 DEF Next, CallerStep, ReaderStep, BrokerStep, MainStep, WorkerStep

(* The broker's side. *)
RemoteTyped ==
    /\ Lease!TypeOK
    /\ noticed \subseteq Transports
    /\ notify \in [Sessions -> Ids]

(* The broker keeps the types of its leases.                               *)
LEMMA RemoteStep ==
    ASSUME ManagerAssumption, Typed, Next
    PROVE  RemoteTyped'
<1>0. RemoteTyped
  BY DEF Typed, TypeOK, RemoteTyped
<1>1. CASE UNCHANGED <<stage, holder, noticed, notify>>
  BY <1>0, <1>1 DEF RemoteTyped, Lease!TypeOK
<1>2. ASSUME NEW t \in Transports, BrokerStarts(t) PROVE RemoteTyped'
  BY <1>0, <1>2, TransportIds DEF RemoteTyped, BrokerStarts, Requested, Ids, Lease!TypeOK,
       Lease!Stages, Lease!Move, Lease!Register, Lease!Deliver, Lease!Confirm, Lease!Release,
       Lease!Take, Lease!End
<1>3. ASSUME NEW t \in Transports, BrokerDelivers(t) PROVE RemoteTyped'
  BY <1>0, <1>3, TransportIds DEF RemoteTyped, BrokerDelivers, Ids, Lease!TypeOK, Lease!Stages,
       Lease!Move, Lease!Register, Lease!Deliver, Lease!Confirm, Lease!Release, Lease!Take,
       Lease!End
<1>4. ASSUME NEW t \in Transports, BrokerConfirms(t) PROVE RemoteTyped'
  BY <1>0, <1>4, TransportIds DEF RemoteTyped, BrokerConfirms, Requested, Ids, Lease!TypeOK,
       Lease!Stages, Lease!Move, Lease!Register, Lease!Deliver, Lease!Confirm, Lease!Release,
       Lease!Take, Lease!End
<1>5. ASSUME NEW t \in Transports, BrokerAttaches(t) PROVE RemoteTyped'
  BY <1>0, <1>5, TransportIds DEF RemoteTyped, BrokerAttaches, Requested, Ids, Lease!TypeOK,
       Lease!Stages, Lease!Move, Lease!Register, Lease!Deliver, Lease!Confirm, Lease!Release,
       Lease!Take, Lease!End
<1>6. ASSUME NEW t \in Transports, BrokerDetaches(t) PROVE RemoteTyped'
  BY <1>0, <1>6, TransportIds DEF RemoteTyped, BrokerDetaches, Requested, Ids, Lease!TypeOK,
       Lease!Stages, Lease!Move, Lease!Register, Lease!Deliver, Lease!Confirm, Lease!Release,
       Lease!Take, Lease!End
<1>7. ASSUME NEW t \in Transports, BrokerStops(t) PROVE RemoteTyped'
  BY <1>0, <1>7, TransportIds DEF RemoteTyped, BrokerStops, Requested, Ids, Lease!TypeOK,
       Lease!Stages, Lease!Move, Lease!Register, Lease!Deliver, Lease!Confirm, Lease!Release,
       Lease!Take, Lease!End
<1>8. ASSUME NEW t \in Transports, BrokerNotices(t) PROVE RemoteTyped'
  BY <1>0, <1>8, TransportIds DEF RemoteTyped, BrokerNotices, Ids, Lease!TypeOK, Lease!Stages,
       Lease!Move, Lease!Register, Lease!Deliver, Lease!Confirm, Lease!Release, Lease!Take,
       Lease!End
<1>9. ASSUME NEW s \in Sessions, AgentExits(s) PROVE RemoteTyped'
  BY <1>0, <1>9, TransportIds DEF RemoteTyped, AgentExits, Ids, Lease!TypeOK, Lease!Stages,
       Lease!Move, Lease!Register, Lease!Deliver, Lease!Confirm, Lease!Release, Lease!Take,
       Lease!End
<1>10. ASSUME NEW s \in Sessions, BrokerAnnounces(s) PROVE RemoteTyped'
  BY <1>0, <1>10, TransportIds DEF RemoteTyped, BrokerAnnounces, Ids, Lease!TypeOK, Lease!Stages,
       Lease!Move, Lease!Register, Lease!Deliver, Lease!Confirm, Lease!Release, Lease!Take,
       Lease!End
<1>. QED
  BY <1>1, <1>2, <1>3, <1>4, <1>5, <1>6, <1>7, <1>8, <1>9, <1>10, RemoteMovers DEF remote

(* History. *)
HistoryTyped == given_up \subseteq Sessions /\ interrupted \subseteq Sessions

(* The histories hold sessions.                                            *)
LEMMA HistoryStep ==
    ASSUME ManagerAssumption, Typed, Next
    PROVE  HistoryTyped'
<1>0. /\ HistoryTyped
      /\ outbox \in [Transports -> Seq(Orders)]
      /\ main = "wait" => key[current] \in Sessions
  BY DEF Typed, TypeOK, HistoryTyped
<1>1. CASE UNCHANGED <<given_up, interrupted>>
  BY <1>0, <1>1 DEF HistoryTyped
<1>2. ASSUME NEW c \in Callers, HearStartFailed(c) PROVE HistoryTyped'
  BY <1>0, <1>2, TransportIds DEF HistoryTyped, HearStartFailed, MayInterrupt, UnchangedByCommands
<1>3. ASSUME NEW c \in Callers, discard_pending(c) PROVE HistoryTyped'
  BY <1>0, <1>3, TransportIds DEF HistoryTyped, discard_pending, MayInterrupt, UnchangedByCommands
<1>4. ASSUME NEW c \in Callers, TakeEventSlot(c) PROVE HistoryTyped'
  BY <1>0, <1>4, TransportIds DEF HistoryTyped, TakeEventSlot, MayInterrupt, UnchangedByCommands
<1>5. ASSUME NEW c \in Callers, CloseMine(c) PROVE HistoryTyped'
  BY <1>0, <1>5, TransportIds DEF HistoryTyped, CloseMine, MayInterrupt, UnchangedByCommands
<1>6. ASSUME NEW t \in Transports, BrokerAttaches(t) PROVE HistoryTyped'
  <2>1. Head(outbox[t]) \in Orders /\ Head(outbox[t])[1] = "attach"
    BY <1>0, <1>6 DEF BrokerAttaches, Requested
  <2>2. Head(outbox[t])[2] \in Sessions
    BY <2>1 DEF Orders
  <2>. QED
    BY <1>0, <1>6, <2>2 DEF HistoryTyped, BrokerAttaches, Requested, UnchangedByRequests
<1>7. ASSUME BeginShutdown PROVE HistoryTyped'
  BY <1>0, <1>7, TransportIds DEF HistoryTyped, BeginShutdown
<1>8. ASSUME StopWaiting PROVE HistoryTyped'
  BY <1>0, <1>8, TransportIds DEF HistoryTyped, StopWaiting, GivesUp, UnchangedByMain
<1>9. ASSUME NEW s \in Sessions, AbandonWorker(s) PROVE HistoryTyped'
  BY <1>0, <1>9, TransportIds DEF HistoryTyped, AbandonWorker, GivesUp, UnchangedByMain
<1>10. ASSUME NEW s \in Sessions, WorkerCannotConnect(s) PROVE HistoryTyped'
  BY <1>0, <1>10, TransportIds DEF HistoryTyped, WorkerCannotConnect, GivesUp, UnchangedByWorker
<1>. QED
  BY <1>1, <1>2, <1>3, <1>4, <1>5, <1>6, <1>7, <1>8, <1>9, <1>10, HistoryMovers DEF plan, workers

(* The shapes are those of TypeOK.                                         *)
LEMMA MessagesTyped ==
    ASSUME NEW i \in [Transports -> Seq(Answers)], NEW o \in [Transports -> Seq(Orders)]
    PROVE  /\ i \in [Transports -> Seq(Replies \X (Sessions \union {NoSession}))]
           /\ o \in [Transports -> Seq(Requests \X (Sessions \union {NoSession}))]
<1>1. /\ Answers \subseteq Replies \X (Sessions \union {NoSession})
      /\ Orders \subseteq Requests \X (Sessions \union {NoSession})
  BY DEF Answers, Orders, Replies, Requests
<1>2. /\ Seq(Answers) \subseteq Seq(Replies \X (Sessions \union {NoSession}))
      /\ Seq(Orders) \subseteq Seq(Requests \X (Sessions \union {NoSession}))
  BY <1>1
<1>. QED
  BY <1>2

(* Every step keeps the types.                                             *)
LEMMA TypedStep ==
    ASSUME ManagerAssumption, Typed, [Next]_vars
    PROVE  Typed'
<1>1. CASE Next
  <2>1. shutting_down' \in BOOLEAN /\ next_transport_id' \in Nat /\ next_transport_id' # None
    <3>1. CASE UNCHANGED <<shutting_down, next_transport_id>>
      BY <3>1 DEF Typed, TypeOK
    <3>2. CASE shutting_down' # shutting_down
      BY <1>1, <3>2, FlagMovers DEF BeginShutdown, Typed, TypeOK
    <3>3. CASE next_transport_id' # next_transport_id
      <4>1. next_transport_id \in Nat /\ next_transport_id # None /\ shutting_down \in BOOLEAN
        BY DEF Typed, TypeOK
      <4>. QED
        BY <1>1, <3>3, <4>1, IdMovers
           DEF start, reattach, Begin, SpawnWorker, UnchangedByMain, None
    <3>. QED
      BY <3>1, <3>2, <3>3
  <2>2. /\ records' \in [Sessions -> Rows] /\ binding' \in [Transports -> Bindings]
        /\ key' \in [Transports -> Sessions \union {NoSession}]
        /\ event_sender' \in [Transports -> Callers \union {Nobody, Main}]
        /\ reader' \in [Transports -> {"none", "running", "ending", "done"}]
        /\ events' \in [Callers \union {Main} -> Seq(Events)]
        /\ inbox' \in [Transports -> Seq(Answers)] /\ outbox' \in [Transports -> Seq(Orders)]
    BY <1>1, RowsTyped, BindingTyped, KeyTyped, SenderTyped, ReaderTyped, EventsTyped, InboxTyped,
       OutboxTyped
  <2>3. LinksTyped' /\ CallsTyped' /\ PlanTyped' /\ Keyed' /\ WorkersTyped' /\ RemoteTyped'
        /\ HistoryTyped'
    BY <1>1, LinksStep, CallsStep, PlanStep, KeyedStep, WorkersStep, RemoteStep, HistoryStep
  <2>4. /\ inbox' \in [Transports -> Seq(Replies \X (Sessions \union {NoSession}))]
        /\ outbox' \in [Transports -> Seq(Requests \X (Sessions \union {NoSession}))]
    BY <2>2, MessagesTyped
  <2>. QED
    BY <2>1, <2>2, <2>3, <2>4 DEF Typed, TypeOK, LinksTyped, CallsTyped, PlanTyped, Keyed,
       WorkersTyped, RemoteTyped, HistoryTyped
<1>2. CASE UNCHANGED vars
  BY <1>2 DEF vars, maps, conns, calls, plan, workers, remote, wire, Typed, TypeOK, Lease!TypeOK
<1>. QED
  BY <1>1, <1>2

(* The manager starts well typed.                                          *)
LEMMA InitTyped ==
    ASSUME ManagerAssumption, Init
    PROVE  Typed
<1>1. TypeOK
  <2>1. Absent \in Rows
    BY DEF Absent, Row, Rows, Ids
  <2>2. /\ events \in [Callers \union {Main} -> Seq(Events)]
        /\ inbox \in [Transports -> Seq(Replies \X (Sessions \union {NoSession}))]
        /\ outbox \in [Transports -> Seq(Requests \X (Sessions \union {NoSession}))]
    BY DEF Init
  <2>3. Lease!TypeOK
    BY DEF Init, Lease!Init, Lease!TypeOK, Lease!Stages
  <2>. QED
    BY <2>1, <2>2, <2>3 DEF Init, TypeOK, Bindings, Steps, Ids
<1>2. /\ inbox \in [Transports -> Seq(Answers)] /\ outbox \in [Transports -> Seq(Orders)]
  BY DEF Init
<1>. QED
  BY <1>1, <1>2, TransportIds DEF Typed, Init, None, Unkeyed

(* Every variable keeps its type: in particular no step reads the row of   *)
(* no session or writes to no connection (handle_transport_loss,           *)
(* write_message).                                                         *)
THEOREM ManagerTypeCorrect == Spec => []TypeOK
<1>1. Init => Typed
  BY InitTyped, ManagerAssumption
<1>2. Typed /\ [Next]_vars => Typed'
  BY TypedStep, ManagerAssumption
<1>3. Typed => TypeOK
  BY DEF Typed
<1>. QED
  BY <1>1, <1>2, <1>3, PTL DEF Spec

-----------------------------------------------------------------------------
(* The shutdown leaves nothing behind.                                     *)

(* NoRowAfterShutdown is inductive: every step that changes a row while    *)
(* the application ends needs a row for it.                                *)
(* No row comes back (insert_pending, publish_pending, complete_reattach). *)
LEMMA NoRowStep ==
    ASSUME ManagerAssumption, Typed, NoRowAfterShutdown, Next
    PROVE  NoRowAfterShutdown'
<1>0. /\ records \in [Sessions -> Rows] /\ NoRowAfterShutdown
      /\ \A c \in Callers : mine[c] \in Ids
  BY DEF Typed, TypeOK
<1>1. CASE UNCHANGED <<records, shutting_down>>
  BY <1>0, <1>1 DEF NoRowAfterShutdown
<1>2. ASSUME NEW c \in Callers, NEW s \in Sessions, reattach(c, s) PROVE NoRowAfterShutdown'
  BY <1>0, <1>2, NoRowStaysNone DEF NoRowAfterShutdown, reattach, Begin
<1>3. ASSUME NEW c \in Callers, CannotConnect(c) PROVE NoRowAfterShutdown'
  BY <1>0, <1>3, NoRowStaysNone DEF NoRowAfterShutdown, CannotConnect, RecordsAfterFailure
<1>4. ASSUME NEW c \in Callers, HandshakeFails(c) PROVE NoRowAfterShutdown'
  BY <1>0, <1>4, NoRowStaysNone DEF NoRowAfterShutdown, HandshakeFails, RecordsAfterFailure
<1>5. ASSUME NEW c \in Callers, publish_pending(c) PROVE NoRowAfterShutdown'
  BY <1>0, <1>5, NoRowStaysNone DEF NoRowAfterShutdown, publish_pending
<1>6. ASSUME NEW c \in Callers, discard_pending(c) PROVE NoRowAfterShutdown'
  BY <1>0, <1>6, NoRowStaysNone DEF NoRowAfterShutdown, discard_pending
<1>7. ASSUME NEW c \in Callers, LoseTransport(c) PROVE NoRowAfterShutdown'
  <2>1. shutting_down /\ key[mine[c]] \in Sessions => RowAfterLoss(mine[c]) = Absent
    BY <1>0, LossOfRow, NoRowStaysNone DEF NoRowAfterShutdown
  <2>. QED
    BY <1>0, <1>7, <2>1 DEF NoRowAfterShutdown, LoseTransport, RecordsAfterLoss,
       handle_transport_loss,
         UnchangedElsewhere, UnchangedByCommands
<1>8. ASSUME NEW t \in Transports, ReadStarted(t) PROVE NoRowAfterShutdown'
  BY <1>0, <1>8, NoRowStaysNone DEF NoRowAfterShutdown, ReadStarted, Reads, MayInsert
<1>9. ASSUME NEW t \in Transports, ReadPendingOver(t) PROVE NoRowAfterShutdown'
  BY <1>0, <1>9, NoRowStaysNone DEF NoRowAfterShutdown, ReadPendingOver, Changes, Reads
<1>10. ASSUME NEW t \in Transports, ReadOver(t) PROVE NoRowAfterShutdown'
  BY <1>0, <1>10, NoRowStaysNone DEF NoRowAfterShutdown, ReadOver, Changes, Reads
<1>11. ASSUME NEW t \in Transports, ReadAttached(t) PROVE NoRowAfterShutdown'
  BY <1>0, <1>11, NoRowStaysNone DEF NoRowAfterShutdown, ReadAttached, Changes, Reads
<1>12. ASSUME NEW t \in Transports, ReadDetached(t) PROVE NoRowAfterShutdown'
  BY <1>0, <1>12, NoRowStaysNone DEF NoRowAfterShutdown, ReadDetached, Changes, Reads
<1>13. ASSUME NEW t \in Transports, ReadUnexpected(t) PROVE NoRowAfterShutdown'
  <2>1. shutting_down /\ key[t] \in Sessions => RowAfterLoss(t) = Absent
    BY <1>0, LossOfRow, NoRowStaysNone DEF NoRowAfterShutdown
  <2>. QED
    BY <1>0, <1>13, <2>1 DEF NoRowAfterShutdown, ReadUnexpected, RecordsAfterLoss, Reads
<1>14. ASSUME NEW t \in Transports, ReadEnd(t) PROVE NoRowAfterShutdown'
  <2>1. shutting_down /\ key[t] \in Sessions => RowAfterLoss(t) = Absent
    BY <1>0, LossOfRow, NoRowStaysNone DEF NoRowAfterShutdown
  <2>. QED
    BY <1>0, <1>14, <2>1 DEF NoRowAfterShutdown, ReadEnd, RecordsAfterLoss
<1>15. ASSUME BeginShutdown PROVE NoRowAfterShutdown'
  BY <1>0, <1>15, NoRowStaysNone DEF NoRowAfterShutdown, BeginShutdown
<1>. QED
  <2>1. CASE records' # records
    BY <2>1, <1>2, <1>3, <1>4, <1>5, <1>6, <1>7, <1>8, <1>9, <1>10, <1>11, <1>12, <1>13, <1>14,
         <1>15, RowMovers
  <2>2. CASE shutting_down' # shutting_down
    BY <2>2, <1>15, FlagMovers
  <2>3. CASE UNCHANGED <<records, shutting_down>>
    BY <1>1, <2>3
  <2>. QED
    BY <2>1, <2>2, <2>3

(* A companion that runs is registered: it is registered before anything   *)
(* else is done with it, and killed in the step that removes it.           *)
LinksAreRegistered == \A t \in Transports : link[t] \in {"up", "cut"} => t \in transports

(* Nothing runs unregistered (register_transport, finish_transport).       *)
LEMMA LinksAreRegisteredStep ==
    ASSUME ManagerAssumption, Typed, LinksAreRegistered, Next
    PROVE  LinksAreRegistered'
<1>0. /\ LinksAreRegistered /\ transports \subseteq Transports
      /\ link \in [Transports -> {"none", "up", "cut", "reaped"}]
      /\ \A s \in Sessions : worker[s] # "none" => worker_id[s] \in Transports
  BY DEF Typed, TypeOK
<1>1. CASE UNCHANGED <<transports, link>>
  BY <1>0, <1>1 DEF LinksAreRegistered
<1>2. ASSUME NEW c \in Callers, Connect(c) PROVE LinksAreRegistered'
  BY <1>0, <1>2 DEF LinksAreRegistered, Connect
<1>3. ASSUME NEW c \in Callers, HandshakeFails(c) PROVE LinksAreRegistered'
  BY <1>0, <1>3 DEF LinksAreRegistered, HandshakeFails, finish_transport, Reap
<1>4. ASSUME NEW c \in Callers, StartNotWritten(c) PROVE LinksAreRegistered'
  BY <1>0, <1>4 DEF LinksAreRegistered, StartNotWritten, finish_transport, Reap
<1>5. ASSUME NEW c \in Callers, HearStartFailed(c) PROVE LinksAreRegistered'
  BY <1>0, <1>5 DEF LinksAreRegistered, HearStartFailed, finish_transport, Reap
<1>6. ASSUME NEW c \in Callers, discard_pending(c) PROVE LinksAreRegistered'
  BY <1>0, <1>6 DEF LinksAreRegistered, discard_pending, finish_transport, Reap
<1>7. ASSUME NEW c \in Callers, CloseMine(c) PROVE LinksAreRegistered'
  BY <1>0, <1>7 DEF LinksAreRegistered, CloseMine, finish_transport, Reap
<1>8. ASSUME NEW t \in Transports, FinishReader(t) PROVE LinksAreRegistered'
  BY <1>0, <1>8 DEF LinksAreRegistered, FinishReader
<1>9. ASSUME NEW t \in Transports, ConnectionCut(t) PROVE LinksAreRegistered'
  BY <1>0, <1>9 DEF LinksAreRegistered, ConnectionCut, maps
<1>10. ASSUME NEW t \in Transports, CloseTransport(t) PROVE LinksAreRegistered'
  BY <1>0, <1>10 DEF LinksAreRegistered, CloseTransport, finish_transport, Reap
<1>11. ASSUME FinishTransport PROVE LinksAreRegistered'
  BY <1>0, <1>11 DEF LinksAreRegistered, FinishTransport, finish_transport, Reap
<1>12. ASSUME NEW s \in Sessions, AbandonWorker(s) PROVE LinksAreRegistered'
  BY <1>0, <1>12 DEF LinksAreRegistered, AbandonWorker, finish_transport, Reap
<1>13. ASSUME NEW s \in Sessions, WorkerConnects(s) PROVE LinksAreRegistered'
  BY <1>0, <1>13 DEF LinksAreRegistered, WorkerConnects
<1>14. ASSUME NEW s \in Sessions, WorkerFinishes(s) PROVE LinksAreRegistered'
  BY <1>0, <1>14 DEF LinksAreRegistered, WorkerFinishes, finish_transport, Reap
<1>. QED
  BY <1>1, <1>2, <1>3, <1>4, <1>5, <1>6, <1>7, <1>8, <1>9, <1>10, <1>11, <1>12, <1>13, <1>14,
       LinkMovers

(* What is registered during the shutdown is the shutdown's: on its list,  *)
(* in its hands, or a worker's that has not finished.                      *)
AtWork == {"check", "read_attach", "stop", "read_stop", "finish"}

Quiesced ==
    /\ shutting_down => \A t \in transports :
          \/ t \in to_quiesce
          \/ main \in {"stop", "wait", "finish"} /\ t = current
          \/ \E s \in Sessions : worker_id[s] = t /\ worker[s] \in AtWork
    /\ main = "done" => to_quiesce = {}

(* What is registered during the shutdown stays on its list, in its hands  *)
(* or in those of a worker (register_transport, quiesce_transport,         *)
(* stop_detached_now).                                                     *)
LEMMA QuiescedStep ==
    ASSUME ManagerAssumption, Typed, Quiesced, Next
    PROVE  Quiesced'
<1>0. /\ Quiesced /\ transports \subseteq Transports /\ shutting_down \in BOOLEAN
      /\ main = "idle" <=> ~shutting_down
      /\ worker \in [Sessions -> {"none", "begin", "connect", "check", "read_attach", "stop",
                                  "read_stop", "finish", "done"}]
      /\ worker_id \in [Sessions -> Ids]
  BY DEF Typed, TypeOK
<1>1. CASE UNCHANGED <<transports, link, shutting_down, main, to_quiesce, current, worker,
                       worker_id>>
  BY <1>0, <1>1 DEF Quiesced
<1>2. ASSUME NEW c \in Callers, Connect(c) PROVE Quiesced'
  BY <1>0, <1>2 DEF Quiesced, Connect, UnchangedElsewhere, UnchangedByCommands, plan, workers,
       AtWork, MayRegister
<1>3. ASSUME NEW c \in Callers, HandshakeFails(c) PROVE Quiesced'
  BY <1>0, <1>3 DEF Quiesced, HandshakeFails, finish_transport, Reap, UnchangedElsewhere,
       UnchangedByCommands, plan, workers, AtWork
<1>4. ASSUME NEW c \in Callers, StartNotWritten(c) PROVE Quiesced'
  BY <1>0, <1>4 DEF Quiesced, StartNotWritten, finish_transport, Reap, UnchangedElsewhere,
       UnchangedByCommands, plan, workers, AtWork
<1>5. ASSUME NEW c \in Callers, HearStartFailed(c) PROVE Quiesced'
  BY <1>0, <1>5 DEF Quiesced, HearStartFailed, finish_transport, Reap, MayInterrupt,
       UnchangedByCommands, plan, workers, AtWork
<1>6. ASSUME NEW c \in Callers, discard_pending(c) PROVE Quiesced'
  BY <1>0, <1>6 DEF Quiesced, discard_pending, finish_transport, Reap, MayInterrupt,
       UnchangedByCommands, plan, workers, AtWork
<1>7. ASSUME NEW c \in Callers, CloseMine(c) PROVE Quiesced'
  BY <1>0, <1>7 DEF Quiesced, CloseMine, finish_transport, Reap, MayInterrupt,
       UnchangedByCommands, plan, workers, AtWork
<1>8. ASSUME NEW t \in Transports, FinishReader(t) PROVE Quiesced'
  BY <1>0, <1>8 DEF Quiesced, FinishReader, UnchangedElsewhere, UnchangedByCommands, plan,
       workers, AtWork
<1>9. ASSUME NEW t \in Transports, ConnectionCut(t) PROVE Quiesced'
  BY <1>0, <1>9 DEF Quiesced, ConnectionCut, maps, plan, workers, AtWork
<1>10. ASSUME BeginShutdown PROVE Quiesced'
  BY <1>0, <1>10 DEF Quiesced, BeginShutdown, conns, workers, AtWork
<1>11. ASSUME NEW t \in Transports, CloseTransport(t) PROVE Quiesced'
  BY <1>0, <1>11 DEF Quiesced, CloseTransport, finish_transport, Reap, UnchangedByMain, Quiesces,
       workers, AtWork
<1>12. ASSUME NEW t \in Transports, TakeOverTransport(t) PROVE Quiesced'
  BY <1>0, <1>12 DEF Quiesced, TakeOverTransport, UnchangedByMain, Quiesces, workers, AtWork
<1>13. ASSUME WriteStop PROVE Quiesced'
  BY <1>0, <1>13 DEF Quiesced, WriteStop, UnchangedByMain, workers, AtWork
<1>14. ASSUME StopNotWritten PROVE Quiesced'
  BY <1>0, <1>14 DEF Quiesced, StopNotWritten, UnchangedByMain, workers, AtWork
<1>15. ASSUME HearStopped PROVE Quiesced'
  BY <1>0, <1>15 DEF Quiesced, HearStopped, UnchangedByMain, workers, AtWork
<1>16. ASSUME StopWaiting PROVE Quiesced'
  BY <1>0, <1>16 DEF Quiesced, StopWaiting, UnchangedByMain, workers, AtWork
<1>17. ASSUME FinishTransport PROVE Quiesced'
  BY <1>0, <1>17 DEF Quiesced, FinishTransport, finish_transport, Reap, UnchangedByMain, workers,
       AtWork
<1>18. ASSUME NEW s \in Sessions, SpawnWorker(s) PROVE Quiesced'
  BY <1>0, <1>18 DEF Quiesced, SpawnWorker, UnchangedByMain, AtWork
<1>19. ASSUME NEW s \in Sessions, JoinWorker(s) PROVE Quiesced'
  BY <1>0, <1>19 DEF Quiesced, JoinWorker, UnchangedByMain, workers, AtWork
<1>20. ASSUME NEW s \in Sessions, AbandonWorker(s) PROVE Quiesced'
  BY <1>0, <1>20 DEF Quiesced, AbandonWorker, finish_transport, Reap, UnchangedByMain, AtWork
<1>21. ASSUME EndShutdown PROVE Quiesced'
  BY <1>0, <1>21 DEF Quiesced, EndShutdown, UnchangedByMain, workers, AtWork
<1>22. ASSUME NEW s \in Sessions, WorkerBegins(s) PROVE Quiesced'
  BY <1>0, <1>22 DEF Quiesced, WorkerBegins, UnchangedByWorker, plan, WorkerGoes, AtWork
<1>23. ASSUME NEW s \in Sessions, WorkerConnects(s) PROVE Quiesced'
  BY <1>0, <1>23 DEF Quiesced, WorkerConnects, UnchangedByWorker, plan, WorkerGoes, AtWork
<1>24. ASSUME NEW s \in Sessions, WorkerCannotConnect(s) PROVE Quiesced'
  BY <1>0, <1>24 DEF Quiesced, WorkerCannotConnect, UnchangedByWorker, plan, WorkerGoes, AtWork
<1>25. ASSUME NEW s \in Sessions, WorkerStops(s) PROVE Quiesced'
  BY <1>0, <1>25 DEF Quiesced, WorkerStops, UnchangedByWorker, plan, WorkerGoes, AtWork
<1>26. ASSUME NEW s \in Sessions, WorkerAttaches(s) PROVE Quiesced'
  BY <1>0, <1>26 DEF Quiesced, WorkerAttaches, WorkerWrites, UnchangedByWorker, plan, WorkerGoes,
       AtWork
<1>27. ASSUME NEW s \in Sessions, NEW from \in {"read_attach", "read_stop"},
              NEW good, NEW next \in {"stop", "finish"}, WorkerReads(s, from, good, next)
       PROVE  Quiesced'
  BY <1>0, <1>27 DEF Quiesced, WorkerReads, UnchangedByWorker, plan, WorkerGoes, AtWork
<1>28. ASSUME NEW s \in Sessions, WorkerRequestsStop(s) PROVE Quiesced'
  BY <1>0, <1>28 DEF Quiesced, WorkerRequestsStop, WorkerWrites, UnchangedByWorker, plan,
       WorkerGoes, AtWork
<1>29. ASSUME NEW s \in Sessions, WorkerFinishes(s) PROVE Quiesced'
  BY <1>0, <1>29 DEF Quiesced, WorkerFinishes, finish_transport, Reap, UnchangedByWorker, plan,
       WorkerGoes, AtWork
<1>. QED
  <2>1. CASE <<transports, link>>' # <<transports, link>>
    BY <2>1, <1>2, <1>3, <1>4, <1>5, <1>6, <1>7, <1>8, <1>9, <1>11, <1>17, <1>20, <1>23, <1>29,
         LinkMovers
  <2>2. CASE shutting_down' # shutting_down
    BY <2>2, <1>10, FlagMovers
  <2>3. CASE plan' # plan
    BY <2>3, <1>10, <1>11, <1>12, <1>13, <1>14, <1>15, <1>16, <1>17, <1>18, <1>19, <1>20, <1>21,
         PlanMovers
  <2>4. CASE workers' # workers
    BY <2>4, <1>18, <1>20, <1>22, <1>23, <1>24, <1>25, <1>26, <1>27, <1>28, <1>29, WorkerMovers
  <2>5. CASE UNCHANGED <<transports, link, shutting_down, plan, workers>>
    BY <1>1, <2>5 DEF plan, workers
  <2>. QED
    BY <2>1, <2>2, <2>3, <2>4, <2>5

-----------------------------------------------------------------------------
(* Before the shutdown a row and its connection change together, although  *)
(* under two locks.                                                        *)

(* A connection that nothing was done with.                                *)
Unused(t) == /\ binding[t] = "none" /\ key[t] = NoSession /\ event_sender[t] = Nobody
             /\ reader[t] = "none" /\ link[t] = "none" /\ t \notin transports

(* Ids are given out in order: those to come, and those of commands that   *)
(* have not connected yet, are unused.                                     *)
IdsAreFresh ==
    /\ \A t \in Transports : t >= next_transport_id => Unused(t)
    /\ \A c \in Callers : /\ mine[c] < next_transport_id
                          /\ pc[c] = "connect" => Unused(mine[c])

(* Commands share a connection only to detach it, and then only one that   *)
(* is or was attached.                                                     *)
Over == {"Attached", "Detaching", "Closed"}

CommandsKeepApart ==
    /\ \A c, d \in Callers : c # d /\ mine[c] = mine[d] /\ mine[c] # None
                               => binding[mine[c]] \in Over
    /\ \A c \in Callers : pc[c] \in {"detach", "write_detach", "await_detach"}
                               => binding[mine[c]] \in Over

(* Events come from the connection a command listens to.  What it hears    *)
(* first of a start means that the connection has a session.               *)
Unheard == {"idle", "connect", "handshake", "listen"}

Startless == {"none", "AwaitingStart"}

EventsGoToTheirCaller ==
    /\ \A t \in Transports, c \in Callers :
          event_sender[t] = c => mine[c] = t /\ pc[c] \notin Unheard
    /\ \A c \in Callers :
          /\ pc[c] \in Unheard => events[c] = <<>>
          /\ Hears(c, "Started") => binding[mine[c]] \notin Startless
          /\ pc[c] \in {"confirm", "publish", "discard"} =>
               at[c] = key[mine[c]] /\ binding[mine[c]] \notin Startless

(* A row names a connection exactly while that one is bound to it.         *)
Shown(t) ==
    /\ binding[t] \in {"Pending", "ConfirmedPending"} =>
          key[t] \in Sessions /\ records[key[t]] = Row("pending", t, None)
    /\ binding[t] \in {"Attached", "Detaching"} =>
          key[t] \in Sessions /\ records[key[t]] = Row("attached", t, None)

Backed(s) ==
    /\ records[s].state = "pending" =>
          /\ records[s].transport \in Transports
          /\ key[records[s].transport] = s
          /\ binding[records[s].transport] \in {"Pending", "ConfirmedPending"}
    /\ records[s].state = "attached" =>
          /\ records[s].transport \in Transports
          /\ key[records[s].transport] = s
          /\ binding[records[s].transport] \in {"Attached", "Detaching"}
    /\ records[s].transition # None => /\ records[s].state \in {"detached", "unreachable"}
                                       /\ records[s].transport = None

RowsAreBound == (\A t \in Transports : Shown(t)) /\ (\A s \in Sessions : Backed(s))

(* A reservation is a reattach under way, whose answer is still to come.   *)
Reserving(c, s) ==
    /\ at[c] = s
    /\ \/ pc[c] = "connect"
       \/ /\ key[mine[c]] = s
          /\ \/ /\ pc[c] \in {"handshake", "listen", "attach", "lost", "lose"}
                /\ binding[mine[c]] = "AwaitingAttach"
             \/ pc[c] = "await_attach" /\ binding[mine[c]] = "Attaching"
          /\ pc[c] \in {"attach", "await_attach"} => events[c] = <<>> /\ event_sender[mine[c]] = c

ReservationsAreHeld ==
    \A s \in Sessions : records[s].transition # None =>
        \E c \in Callers : mine[c] = records[s].transition /\ Reserving(c, s)

WorkersAreIdle == \A s \in Sessions : worker[s] = "none"

Settled ==
    /\ IdsAreFresh
    /\ CommandsKeepApart
    /\ EventsGoToTheirCaller
    /\ RowsAreBound
    /\ ReservationsAreHeld
    /\ WorkersAreIdle

SettledBeforeShutdown == ~shutting_down => Settled

(* Until then there are only commands, readers and the network.            *)
LEMMA NotYet ==
    ASSUME Typed, SettledBeforeShutdown, Next, ~shutting_down'
    PROVE  /\ ~shutting_down /\ Settled /\ ~MainStep
           /\ \A s \in Sessions : ~WorkerStep(s)
<1>1. ~shutting_down
  BY FlagMovers DEF BeginShutdown
<1>2. main = "idle"
  BY <1>1 DEF Typed
<1>3. Settled
  BY <1>1 DEF SettledBeforeShutdown
<1>4. ~MainStep
  BY <1>2 DEF MainStep, CloseTransport, TakeOverTransport, Quiesces, WriteStop, StopNotWritten,
     HearStopped, StopWaiting, FinishTransport, SpawnWorker, JoinWorker, AbandonWorker, EndShutdown
<1>5. \A s \in Sessions : ~WorkerStep(s)
  BY <1>3 DEF Settled, WorkersAreIdle, WorkerStep, WorkerBegins, WorkerConnects,
     WorkerCannotConnect, WorkerStops, WorkerAttaches, WorkerWrites, WorkerReads,
     WorkerRequestsStop, WorkerFinishes
<1>. QED
  BY <1>1, <1>3, <1>4, <1>5

(* A command uses its own connection only, and readers only used ones.     *)
LEMMA UsedByItsCommand ==
    ASSUME ManagerAssumption, Typed, SettledBeforeShutdown, Next, ~shutting_down',
           NEW t \in Transports, Unused(t), ~Unused(t)'
    PROVE  \E c \in Callers : mine[c] = t /\ pc[c] # "idle" /\ pc'[c] # "connect"
<1>. DEFINE ItsCommand == \E c \in Callers : mine[c] = t /\ pc[c] # "idle" /\ pc'[c] # "connect"
<1>0. /\ binding \in [Transports -> Bindings]
      /\ key \in [Transports -> Sessions \union {NoSession}]
      /\ event_sender \in [Transports -> Callers \union {Nobody, Main}]
      /\ reader \in [Transports -> {"none", "running", "ending", "done"}]
      /\ link \in [Transports -> {"none", "up", "cut", "reaped"}]
      /\ pc \in [Callers -> Steps]
      /\ transports \subseteq Transports
      /\ \A c \in Callers : mine[c] \in Ids /\ (mine[c] = None <=> pc[c] = "idle")
  BY DEF Typed, TypeOK
<1>1. ~UNCHANGED <<binding, key, event_sender, reader, transports, link>>
  BY DEF Unused
<1>2. ASSUME NEW c \in Callers, Connect(c) PROVE ItsCommand
  BY <1>0, <1>2, TransportIds DEF Unused, Connect, Goto
<1>3. ASSUME NEW c \in Callers, CannotConnect(c) PROVE ItsCommand
  BY <1>0, <1>3, TransportIds DEF Unused, CannotConnect, Return, Goto
<1>4. ASSUME NEW c \in Callers, HandshakeFails(c) PROVE ItsCommand
  BY <1>0, <1>4, TransportIds DEF Unused, HandshakeFails, Return, finish_transport, Reap, Goto
<1>5. ASSUME NEW c \in Callers, HandshakeTooLate(c) PROVE ItsCommand
  BY <1>0, <1>5, TransportIds DEF Unused, HandshakeTooLate, CloseUnlessShuttingDown, Return, maps,
       Goto
<1>6. ASSUME NEW c \in Callers, Listen(c) PROVE ItsCommand
  BY <1>0, <1>6, TransportIds DEF Unused, Listen, maps, Goto
<1>7. ASSUME NEW c \in Callers, StartNotWritten(c) PROVE ItsCommand
  BY <1>0, <1>7, TransportIds DEF Unused, StartNotWritten, Return, finish_transport, Reap, Goto
<1>8. ASSUME NEW c \in Callers, HearStartFailed(c) PROVE ItsCommand
  BY <1>0, <1>8, TransportIds DEF Unused, HearStartFailed, Return, finish_transport, Reap, Goto
<1>9. ASSUME NEW c \in Callers, confirm_pending(c) PROVE ItsCommand
  BY <1>0, <1>9, TransportIds DEF Unused, confirm_pending, maps, Goto
<1>10. ASSUME NEW c \in Callers, publish_pending(c) PROVE ItsCommand
  BY <1>0, <1>10, TransportIds DEF Unused, publish_pending, Return, Goto
<1>11. ASSUME NEW c \in Callers, StartLeftToOthers(c) PROVE ItsCommand
  BY <1>0, <1>11, TransportIds DEF Unused, StartLeftToOthers, Return, maps, Goto
<1>12. ASSUME NEW c \in Callers, discard_pending(c) PROVE ItsCommand
  BY <1>0, <1>12, TransportIds DEF Unused, discard_pending, Return, finish_transport, Reap, Goto
<1>13. ASSUME NEW c \in Callers, TakeEventSlot(c) PROVE ItsCommand
  BY <1>0, <1>13, TransportIds DEF Unused, TakeEventSlot, maps, Goto
<1>14. ASSUME NEW c \in Callers, DetachTooLate(c) PROVE ItsCommand
  BY <1>0, <1>14, TransportIds DEF Unused, DetachTooLate, Return, maps, Goto
<1>15. ASSUME NEW c \in Callers, WriteDetach(c) PROVE ItsCommand
  BY <1>0, <1>15, TransportIds DEF Unused, WriteDetach, maps, Goto
<1>16. ASSUME NEW c \in Callers, HearDetached(c) PROVE ItsCommand
  BY <1>0, <1>16, TransportIds DEF Unused, HearDetached, CloseUnlessShuttingDown, Return, maps,
       Goto
<1>17. ASSUME NEW c \in Callers, WriteAttach(c) PROVE ItsCommand
  BY <1>0, <1>17, TransportIds DEF Unused, WriteAttach, maps, Goto
<1>18. ASSUME NEW c \in Callers, WriteFailed(c) PROVE ItsCommand
  BY <1>0, <1>18, TransportIds DEF Unused, WriteFailed, CloseUnlessShuttingDown, Return, maps,
       Goto
<1>19. ASSUME NEW c \in Callers, LoseTransport(c) PROVE ItsCommand
  BY <1>0, <1>19, TransportIds DEF Unused, LoseTransport, handle_transport_loss, Goto
<1>20. ASSUME NEW c \in Callers, CloseMine(c) PROVE ItsCommand
  BY <1>0, <1>20, TransportIds DEF Unused, CloseMine, Return, finish_transport, Reap, Goto
<1>21. ASSUME NEW c \in Callers, HearAttached(c) PROVE ItsCommand
  BY <1>0, <1>21, TransportIds DEF Unused, HearAttached, Return, maps, Goto
<1>22. ASSUME NEW c \in Callers, HearAttachFailed(c) PROVE ItsCommand
  BY <1>0, <1>22, TransportIds DEF Unused, HearAttachFailed, CloseUnlessShuttingDown, Return,
       maps, Goto
<1>23. ASSUME NEW u \in Transports, ReadStarted(u) PROVE ItsCommand
  BY <1>0, <1>23, TransportIds DEF Unused, ReadStarted, ReadsLast, Reads, calls
<1>24. ASSUME NEW u \in Transports, ReadPendingOver(u) PROVE ItsCommand
  BY <1>0, <1>24, TransportIds DEF Unused, ReadPendingOver, ReadsLast, Reads, calls
<1>25. ASSUME NEW u \in Transports, ReadOver(u) PROVE ItsCommand
  BY <1>0, <1>25, TransportIds DEF Unused, ReadOver, ReadsLast, Reads, calls
<1>26. ASSUME NEW u \in Transports, ReadAttached(u) PROVE ItsCommand
  BY <1>0, <1>26, TransportIds DEF Unused, ReadAttached, ReadsLast, Reads, calls
<1>27. ASSUME NEW u \in Transports, ReadDetached(u) PROVE ItsCommand
  BY <1>0, <1>27, TransportIds DEF Unused, ReadDetached, ReadsLast, Reads, calls
<1>28. ASSUME NEW u \in Transports, ReadStopped(u) PROVE ItsCommand
  BY <1>0, <1>28, TransportIds DEF Unused, ReadStopped, ReadsLast, Reads, calls
<1>29. ASSUME NEW u \in Transports, ReadUnexpected(u) PROVE ItsCommand
  BY <1>0, <1>29, TransportIds DEF Unused, ReadUnexpected, ReadsLast, Reads, calls
<1>30. ASSUME NEW u \in Transports, ReadEnd(u) PROVE ItsCommand
  BY <1>0, <1>30, TransportIds DEF Unused, ReadEnd, ReadsLast, calls
<1>31. ASSUME NEW u \in Transports, FinishReader(u) PROVE ItsCommand
  BY <1>0, <1>31, TransportIds DEF Unused, FinishReader, calls
<1>32. ASSUME NEW u \in Transports, ConnectionCut(u) PROVE ItsCommand
  BY <1>0, <1>32, TransportIds DEF Unused, ConnectionCut, maps, calls
<1>. QED
  <2>1. CASE binding' # binding
    BY <2>1, <1>2, <1>9, <1>10, <1>12, <1>15, <1>17, <1>19, <1>23, <1>24, <1>25, <1>26, <1>27,
         <1>28, <1>29, <1>30, BindingMovers, NotYet DEF MainStep, WorkerStep
  <2>2. CASE key' # key
    BY <2>2, <1>2, <1>23, KeyMovers, NotYet DEF MainStep, WorkerStep
  <2>3. CASE event_sender' # event_sender
    BY <2>3, <1>3, <1>4, <1>5, <1>6, <1>7, <1>8, <1>10, <1>11, <1>12, <1>13, <1>14, <1>16, <1>18,
         <1>20, <1>21, <1>22, SenderMovers, NotYet DEF MainStep, WorkerStep
  <2>4. CASE reader' # reader
    BY <2>4, <1>6, <1>7, <1>23, <1>24, <1>25, <1>26, <1>27, <1>28, <1>29, <1>30, <1>31,
         ReaderMovers, NotYet DEF MainStep, WorkerStep
  <2>5. CASE <<transports, link>>' # <<transports, link>>
    BY <2>5, <1>2, <1>4, <1>7, <1>8, <1>12, <1>20, <1>31, <1>32, LinkMovers, NotYet DEF MainStep,
       WorkerStep
  <2>6. CASE UNCHANGED <<binding, key, event_sender, reader, transports, link>>
    BY <1>1, <2>6
  <2>. QED
    BY <2>1, <2>2, <2>3, <2>4, <2>5, <2>6

(* A command takes a new id or an attached connection, keeps what it has   *)
(* while it goes on, and gives it back when it returns.                    *)
LEMMA CallChanges ==
    ASSUME ManagerAssumption, Typed, Next, NEW d \in Callers
    PROVE  \/ pc'[d] = pc[d] /\ mine'[d] = mine[d] /\ at'[d] = at[d]
           \/ /\ pc[d] # "idle" /\ pc'[d] \notin {"idle", "connect", "detach"}
              /\ mine'[d] = mine[d]
              /\ at'[d] = at[d] \/ (pc[d] = "await_start" /\ pc'[d] = "confirm")
              /\ pc'[d] \in {"write_detach", "await_detach"} => pc[d] \in {"detach", "write_detach"}
           \/ pc[d] # "idle" /\ pc'[d] = "idle" /\ mine'[d] = None /\ at'[d] = NoSession
           \/ /\ pc[d] = "idle" /\ pc'[d] = "connect"
              /\ mine'[d] = next_transport_id /\ next_transport_id' = next_transport_id + 1
              /\ at'[d] = NoSession \/ (at'[d] \in Sessions /\ CanReserve(records[at'[d]]))
           \/ /\ pc[d] = "idle" /\ pc'[d] = "detach"
              /\ at'[d] \in Sessions /\ CanDetach(records[at'[d]])
              /\ mine'[d] = records[at'[d]].transport /\ mine'[d] \in transports
<1>. DEFINE Moved ==
          \/ pc'[d] = pc[d] /\ mine'[d] = mine[d] /\ at'[d] = at[d]
          \/ /\ pc[d] # "idle" /\ pc'[d] \notin {"idle", "connect", "detach"}
             /\ mine'[d] = mine[d]
             /\ at'[d] = at[d] \/ (pc[d] = "await_start" /\ pc'[d] = "confirm")
             /\ pc'[d] \in {"write_detach", "await_detach"} => pc[d] \in {"detach", "write_detach"}
          \/ pc[d] # "idle" /\ pc'[d] = "idle" /\ mine'[d] = None /\ at'[d] = NoSession
          \/ /\ pc[d] = "idle" /\ pc'[d] = "connect"
             /\ mine'[d] = next_transport_id /\ next_transport_id' = next_transport_id + 1
             /\ at'[d] = NoSession \/ (at'[d] \in Sessions /\ CanReserve(records[at'[d]]))
          \/ /\ pc[d] = "idle" /\ pc'[d] = "detach"
             /\ at'[d] \in Sessions /\ CanDetach(records[at'[d]])
             /\ mine'[d] = records[at'[d]].transport /\ mine'[d] \in transports
<1>0. /\ pc \in [Callers -> Steps]
      /\ mine \in [Callers -> Ids]
      /\ at \in [Callers -> Sessions \union {NoSession}]
  BY DEF Typed, TypeOK
<1>1. CASE UNCHANGED calls
  BY <1>1 DEF calls
<1>2. ASSUME NEW c \in Callers, start(c) PROVE Moved
  BY <1>0, <1>2 DEF start, Begin, Goto
<1>3. ASSUME NEW c \in Callers, NEW s \in Sessions, reattach(c, s) PROVE Moved
  BY <1>0, <1>3 DEF reattach, Begin, Goto
<1>4. ASSUME NEW c \in Callers, NEW s \in Sessions, detach(c, s) PROVE Moved
  BY <1>0, <1>4 DEF detach, Goto
<1>5. ASSUME NEW c \in Callers, Connect(c) PROVE Moved
  BY <1>0, <1>5 DEF Connect, Goto
<1>6. ASSUME NEW c \in Callers, CannotConnect(c) PROVE Moved
  BY <1>0, <1>6 DEF CannotConnect, Return, Goto
<1>7. ASSUME NEW c \in Callers, Handshake(c) PROVE Moved
  BY <1>0, <1>7 DEF Handshake, Goto
<1>8. ASSUME NEW c \in Callers, HandshakeFails(c) PROVE Moved
  BY <1>0, <1>8 DEF HandshakeFails, Return, Goto
<1>9. ASSUME NEW c \in Callers, HandshakeTooLate(c) PROVE Moved
  BY <1>0, <1>9 DEF HandshakeTooLate, CloseUnlessShuttingDown, Goto, Return
<1>10. ASSUME NEW c \in Callers, Listen(c) PROVE Moved
  BY <1>0, <1>10 DEF Listen, Goto
<1>11. ASSUME NEW c \in Callers, StartNotWritten(c) PROVE Moved
  BY <1>0, <1>11 DEF StartNotWritten, Return, Goto
<1>12. ASSUME NEW c \in Callers, HearStarted(c) PROVE Moved
  BY <1>0, <1>12 DEF HearStarted, Goto
<1>13. ASSUME NEW c \in Callers, HearStartFailed(c) PROVE Moved
  BY <1>0, <1>13 DEF HearStartFailed, Return, Goto
<1>14. ASSUME NEW c \in Callers, confirm_pending(c) PROVE Moved
  BY <1>0, <1>14 DEF confirm_pending, Goto
<1>15. ASSUME NEW c \in Callers, ConfirmFails(c) PROVE Moved
  BY <1>0, <1>15 DEF ConfirmFails, Goto
<1>16. ASSUME NEW c \in Callers, publish_pending(c) PROVE Moved
  BY <1>0, <1>16 DEF publish_pending, Return, Goto
<1>17. ASSUME NEW c \in Callers, StartLeftToOthers(c) PROVE Moved
  BY <1>0, <1>17 DEF StartLeftToOthers, Return, Goto
<1>18. ASSUME NEW c \in Callers, StartNotPublished(c) PROVE Moved
  BY <1>0, <1>18 DEF StartNotPublished, Goto
<1>19. ASSUME NEW c \in Callers, discard_pending(c) PROVE Moved
  BY <1>0, <1>19 DEF discard_pending, Return, Goto
<1>20. ASSUME NEW c \in Callers, TakeEventSlot(c) PROVE Moved
  BY <1>0, <1>20 DEF TakeEventSlot, Goto
<1>21. ASSUME NEW c \in Callers, DetachTooLate(c) PROVE Moved
  BY <1>0, <1>21 DEF DetachTooLate, Return, Goto
<1>22. ASSUME NEW c \in Callers, WriteDetach(c) PROVE Moved
  BY <1>0, <1>22 DEF WriteDetach, Goto
<1>23. ASSUME NEW c \in Callers, DetachNotWritten(c) PROVE Moved
  BY <1>0, <1>23 DEF DetachNotWritten, Goto
<1>24. ASSUME NEW c \in Callers, HearDetached(c) PROVE Moved
  BY <1>0, <1>24 DEF HearDetached, CloseUnlessShuttingDown, Goto, Return
<1>25. ASSUME NEW c \in Callers, WriteAttach(c) PROVE Moved
  BY <1>0, <1>25 DEF WriteAttach, Goto
<1>26. ASSUME NEW c \in Callers, AttachNotWritten(c) PROVE Moved
  BY <1>0, <1>26 DEF AttachNotWritten, Goto
<1>27. ASSUME NEW c \in Callers, WriteFailed(c) PROVE Moved
  BY <1>0, <1>27 DEF WriteFailed, CloseUnlessShuttingDown, Goto, Return
<1>28. ASSUME NEW c \in Callers, LoseTransport(c) PROVE Moved
  BY <1>0, <1>28 DEF LoseTransport, Goto
<1>29. ASSUME NEW c \in Callers, CloseMine(c) PROVE Moved
  BY <1>0, <1>29 DEF CloseMine, Return, Goto
<1>30. ASSUME NEW c \in Callers, HearAttached(c) PROVE Moved
  BY <1>0, <1>30 DEF HearAttached, Return, Goto
<1>31. ASSUME NEW c \in Callers, HearAttachFailed(c) PROVE Moved
  BY <1>0, <1>31 DEF HearAttachFailed, CloseUnlessShuttingDown, Goto, Return
<1>. QED
  BY <1>1, <1>2, <1>3, <1>4, <1>5, <1>6, <1>7, <1>8, <1>9, <1>10, <1>11, <1>12, <1>13, <1>14,
       <1>15, <1>16, <1>17, <1>18, <1>19, <1>20, <1>21, <1>22, <1>23, <1>24, <1>25, <1>26, <1>27,
       <1>28, <1>29, <1>30, <1>31, CallMovers

(* A new command gets an id that nothing was done with, and what is done   *)
(* with an id is done by its command or after it connected.                *)
LEMMA FreshStep ==
    ASSUME ManagerAssumption, Typed, SettledBeforeShutdown, Next, ~shutting_down'
    PROVE  IdsAreFresh'
<1>0. /\ IdsAreFresh /\ CommandsKeepApart /\ RowsAreBound /\ Typed'
      /\ next_transport_id \in Nat /\ next_transport_id # None
      /\ \A c \in Callers : mine[c] \in Ids /\ (mine[c] = None <=> pc[c] = "idle")
      /\ \A c \in Callers : mine'[c] \in Ids /\ (mine'[c] = None <=> pc'[c] = "idle")
      /\ None \notin Transports /\ Transports \subseteq Nat /\ None = 0
  BY NotYet, TypedStep, TransportIds DEF Settled, Typed, TypeOK, None
<1>1. next_transport_id' \in {next_transport_id, next_transport_id + 1}
  BY IdMovers, NotYet DEF start, reattach, Begin, MainStep
<1>2. ASSUME NEW t \in Transports, Unused(t), ~Unused(t)'
      PROVE  \E c \in Callers : mine[c] = t /\ pc[c] # "idle" /\ pc'[c] # "connect"
  BY <1>2, UsedByItsCommand
<1>3. \A t \in Transports : t >= next_transport_id' => Unused(t)'
  <2>. SUFFICES ASSUME NEW t \in Transports, t >= next_transport_id', ~Unused(t)'
                PROVE  FALSE
    OBVIOUS
  <2>1. Unused(t) /\ \A c \in Callers : mine[c] # t
    BY <1>0, <1>1 DEF IdsAreFresh, Ids
  <2>. QED
    BY <1>2, <2>1
<1>4. ASSUME NEW c \in Callers PROVE mine'[c] < next_transport_id'
  <2>1. mine[c] < next_transport_id
    BY <1>0 DEF IdsAreFresh
  <2>2. ASSUME NEW s \in Sessions, CanDetach(records[s])
        PROVE  records[s].transport \in Transports /\ records[s].transport < next_transport_id
    <3>. DEFINE t == records[s].transport
    <3>1. t \in Transports /\ binding[t] \in {"Attached", "Detaching"}
      BY <1>0, <2>2 DEF RowsAreBound, Backed, CanDetach
    <3>2. ~Unused(t) /\ t \in Nat
      BY <1>0, <3>1 DEF Unused
    <3>3. ~(t >= next_transport_id)
      BY <1>0, <3>1, <3>2 DEF IdsAreFresh
    <3>. QED
      BY <1>0, <3>1, <3>2, <3>3
  <2>3. \/ mine'[c] \in {mine[c], None}
        \/ mine'[c] = next_transport_id /\ next_transport_id' = next_transport_id + 1
        \/ \E s \in Sessions : CanDetach(records[s]) /\ mine'[c] = records[s].transport
    BY CallChanges
  <2>4. mine[c] \in Nat /\ mine'[c] \in Nat
    <3>1. \A x \in Ids : x \in Nat
      BY <1>0 DEF Ids
    <3>. QED
      BY <1>0, <3>1
  <2>5. mine'[c] < next_transport_id \/ next_transport_id' = next_transport_id + 1
    BY <1>0, <2>1, <2>2, <2>3
  <2>. QED
    BY <1>0, <1>1, <2>1, <2>2, <2>3, <2>4, <2>5
<1>5. ASSUME NEW c \in Callers, pc'[c] = "connect" PROVE Unused(mine[c])'
  <2>1. PICK t \in Transports : t = mine'[c]
    BY <1>0, <1>5 DEF Ids
  <2>2. Unused(t) /\ \A d \in Callers : mine[d] = t => d = c /\ pc[c] = "connect"
    <3>1. CASE pc[c] = "connect" /\ mine[c] = t
      <4>1. Unused(t)
        BY <1>0, <3>1 DEF IdsAreFresh
      <4>2. binding[t] \notin Over
        BY <4>1 DEF Unused, Over
      <4>. QED
        BY <1>0, <3>1, <4>1, <4>2 DEF CommandsKeepApart
    <3>2. CASE t = next_transport_id
      BY <1>0, <3>2 DEF IdsAreFresh, Ids
    <3>. QED
      BY <1>5, <2>1, <3>1, <3>2, CallChanges
  <2>3. Unused(t)'
    BY <1>2, <1>5, <2>2
  <2>. QED
    BY <2>1, <2>3 DEF Unused
<1>. QED
  BY <1>3, <1>4, <1>5 DEF IdsAreFresh

(* A connection that was attached is never used for anything else.         *)
LEMMA OverStaysOver ==
    ASSUME ManagerAssumption, Typed, SettledBeforeShutdown, Next, ~shutting_down',
           NEW t \in Transports, binding[t] \in Over
    PROVE  binding'[t] \in Over
<1>0. /\ binding \in [Transports -> Bindings] /\ binding[t] \in Over
      /\ \A c \in Callers : pc[c] = "connect" => mine[c] # t
  BY NotYet DEF Settled, IdsAreFresh, Unused, Over, Typed, TypeOK
<1>1. CASE UNCHANGED <<binding>>
  BY <1>0, <1>1
<1>2. ASSUME NEW c \in Callers, Connect(c) PROVE binding'[t] \in Over
  BY <1>0, <1>2 DEF Over, Connect
<1>3. ASSUME NEW c \in Callers, confirm_pending(c) PROVE binding'[t] \in Over
  BY <1>0, <1>3 DEF Over, confirm_pending
<1>4. ASSUME NEW c \in Callers, publish_pending(c) PROVE binding'[t] \in Over
  BY <1>0, <1>4 DEF Over, publish_pending
<1>5. ASSUME NEW c \in Callers, discard_pending(c) PROVE binding'[t] \in Over
  BY <1>0, <1>5 DEF Over, discard_pending
<1>6. ASSUME NEW c \in Callers, WriteDetach(c) PROVE binding'[t] \in Over
  BY <1>0, <1>6 DEF Over, WriteDetach
<1>7. ASSUME NEW c \in Callers, WriteAttach(c) PROVE binding'[t] \in Over
  BY <1>0, <1>7 DEF Over, WriteAttach
<1>8. ASSUME NEW c \in Callers, LoseTransport(c) PROVE binding'[t] \in Over
  BY <1>0, <1>8 DEF Over, LoseTransport, handle_transport_loss
<1>9. ASSUME NEW u \in Transports, ReadStarted(u) PROVE binding'[t] \in Over
  BY <1>0, <1>9 DEF Over, ReadStarted, ReadsLast, Reads
<1>10. ASSUME NEW u \in Transports, ReadPendingOver(u) PROVE binding'[t] \in Over
  BY <1>0, <1>10 DEF Over, ReadPendingOver, ReadsLast
<1>11. ASSUME NEW u \in Transports, ReadOver(u) PROVE binding'[t] \in Over
  BY <1>0, <1>11 DEF Over, ReadOver, ReadsLast
<1>12. ASSUME NEW u \in Transports, ReadAttached(u) PROVE binding'[t] \in Over
  BY <1>0, <1>12 DEF Over, ReadAttached, ReadsLast
<1>13. ASSUME NEW u \in Transports, ReadDetached(u) PROVE binding'[t] \in Over
  BY <1>0, <1>13 DEF Over, ReadDetached, ReadsLast
<1>14. ASSUME NEW u \in Transports, ReadStopped(u) PROVE binding'[t] \in Over
  BY <1>0, <1>14 DEF Over, ReadStopped, ReadsLast
<1>15. ASSUME NEW u \in Transports, ReadUnexpected(u) PROVE binding'[t] \in Over
  BY <1>0, <1>15 DEF Over, ReadUnexpected, ReadsLast
<1>16. ASSUME NEW u \in Transports, ReadEnd(u) PROVE binding'[t] \in Over
  BY <1>0, <1>16 DEF Over, ReadEnd, ReadsLast
<1>. QED
  BY <1>1, <1>2, <1>3, <1>4, <1>5, <1>6, <1>7, <1>8, <1>9, <1>10, <1>11, <1>12, <1>13, <1>14,
       <1>15, <1>16, BindingMovers, NotYet DEF MainStep, WorkerStep

(* Commands that share a connection, and those that detach one.            *)
LEMMA ApartStep ==
    ASSUME ManagerAssumption, Typed, SettledBeforeShutdown, Next, ~shutting_down'
    PROVE  CommandsKeepApart'
<1>0. /\ CommandsKeepApart /\ IdsAreFresh /\ RowsAreBound
      /\ \A c \in Callers : mine[c] \in Ids /\ (mine[c] = None <=> pc[c] = "idle")
      /\ mine \in [Callers -> Ids] /\ next_transport_id \in Nat /\ None \notin Transports
      /\ Transports \subseteq Nat /\ None = 0
  BY NotYet, TransportIds DEF Settled, Typed, TypeOK, None
<1>1. ASSUME NEW s \in Sessions, CanDetach(records[s])
      PROVE  binding[records[s].transport] \in Over /\ records[s].transport \in Transports
  BY <1>0, <1>1 DEF RowsAreBound, Backed, CanDetach, Over
<1>2. ASSUME NEW c \in Callers, pc'[c] \in {"detach", "write_detach", "await_detach"}
      PROVE  binding'[mine'[c]] \in Over
  <2>1. mine'[c] \in Transports /\ binding[mine'[c]] \in Over
    <3>1. CASE pc'[c] = pc[c] /\ mine'[c] = mine[c]
      BY <1>0, <1>2, <3>1 DEF CommandsKeepApart, Ids
    <3>. QED
      BY <1>0, <1>1, <1>2, CallChanges DEF CommandsKeepApart, Ids
  <2>. QED
    BY <2>1, OverStaysOver
<1>3. ASSUME NEW c \in Callers, NEW d \in Callers, c # d, mine'[c] = mine'[d], mine'[c] # None
      PROVE  binding'[mine'[c]] \in Over
  <2>1. mine'[c] \in Transports /\ binding[mine'[c]] \in Over
    <3>1. \A e \in Callers : mine'[e] # None =>
             \/ mine'[e] = mine[e]
             \/ mine'[e] = next_transport_id /\ pc[e] = "idle" /\ pc'[e] = "connect"
             \/ mine'[e] \in Transports /\ binding[mine'[e]] \in Over
      BY <1>1, CallChanges
    <3>2. \A e \in Callers : mine[e] # next_transport_id
      BY <1>0 DEF IdsAreFresh, Ids
    <3>3. mine[c] = mine[d] /\ mine[c] # None => mine[c] \in Transports /\ binding[mine[c]] \in Over
      BY <1>0, <1>3 DEF CommandsKeepApart, Ids
    <3>4. ~(mine'[c] = next_transport_id /\ pc[c] = "idle" /\ pc'[c] = "connect"
             /\ mine'[d] = next_transport_id /\ pc[d] = "idle" /\ pc'[d] = "connect")
      <4>1. next_transport_id' # next_transport_id
               => \E e \in Callers : \A x \in Callers : x # e => mine'[x] = mine[x]
        BY <1>0, IdMovers, NotYet DEF start, reattach, Begin, MainStep
      <4>2. mine'[c] = next_transport_id /\ pc[c] = "idle" /\ pc'[c] = "connect"
               => next_transport_id' = next_transport_id + 1
        BY CallChanges
      <4>. QED
        BY <1>0, <1>3, <3>2, <4>1, <4>2
    <3>. QED
      BY <1>0, <1>3, <3>1, <3>2, <3>3, <3>4
  <2>. QED
    BY <2>1, OverStaysOver
<1>. QED
  BY <1>2, <1>3 DEF CommandsKeepApart

(* What a connection reports reaches at most the command it belongs to.    *)
LEMMA EmittedAt ==
    ASSUME NEW t \in Transports, NEW event, NEW d \in Callers,
           events \in [Callers \union {Main} -> Seq(Events)], event \in Events
    PROVE  \/ Emitted(t, event)[d] = events[d]
           \/ /\ event_sender[t] = d /\ Emitted(t, event)[d] # <<>>
              /\ Head(Emitted(t, event)[d]) = IF events[d] = <<>> THEN event ELSE Head(events[d])
<1>1. CASE event_sender[t] = d
  <2>1. \A w \in Seq(Events) :
           /\ Append(w, event) # <<>>
           /\ Head(Append(w, event)) = IF w = <<>> THEN event ELSE Head(w)
    BY AppendProperties, HeadTailAppend
  <2>. QED
    BY <1>1, <2>1 DEF Emitted
<1>2. CASE event_sender[t] # d
  BY <1>2 DEF Emitted
<1>. QED
  BY <1>1, <1>2

(* A connection reports to the command that listens to it.                 *)
LEMMA SendersStep ==
    ASSUME ManagerAssumption, Typed, SettledBeforeShutdown, Next, ~shutting_down',
           NEW t \in Transports, NEW d \in Callers, event_sender'[t] = d
    PROVE  mine'[d] = t /\ pc'[d] \notin Unheard
<1>0. /\ event_sender \in [Transports -> Callers \union {Nobody, Main}]
      /\ event_sender'[t] = d /\ d \in Callers /\ t \in Transports
      /\ event_sender[t] = d => mine[d] = t /\ pc[d] \notin Unheard
      /\ pc \in [Callers -> Steps] /\ mine \in [Callers -> Ids]
      /\ \A c \in Callers : mine[c] = None <=> pc[c] = "idle"
      /\ None \notin Transports /\ Nobody \notin Callers
  BY NotYet, TransportIds DEF Settled, EventsGoToTheirCaller, Typed, TypeOK, ManagerAssumption
<1>1. CASE UNCHANGED <<event_sender, pc, mine, at>>
  BY <1>0, <1>1
<1>2. ASSUME NEW c \in Callers, start(c) PROVE mine'[d] = t /\ pc'[d] \notin Unheard
  BY <1>0, <1>2 DEF Unheard, start, Begin, conns, Goto
<1>3. ASSUME NEW c \in Callers, NEW r \in Sessions, reattach(c, r)
      PROVE  mine'[d] = t /\ pc'[d] \notin Unheard
  BY <1>0, <1>3 DEF Unheard, reattach, Begin, conns, Goto
<1>4. ASSUME NEW c \in Callers, NEW r \in Sessions, detach(c, r)
      PROVE  mine'[d] = t /\ pc'[d] \notin Unheard
  BY <1>0, <1>4 DEF Unheard, detach, conns, Goto
<1>5. ASSUME NEW c \in Callers, Connect(c) PROVE mine'[d] = t /\ pc'[d] \notin Unheard
  BY <1>0, <1>5 DEF Unheard, Connect, Goto
<1>6. ASSUME NEW c \in Callers, CannotConnect(c) PROVE mine'[d] = t /\ pc'[d] \notin Unheard
  BY <1>0, <1>6 DEF Unheard, CannotConnect, Return, Goto
<1>7. ASSUME NEW c \in Callers, Handshake(c) PROVE mine'[d] = t /\ pc'[d] \notin Unheard
  BY <1>0, <1>7 DEF Unheard, Handshake, conns, Goto
<1>8. ASSUME NEW c \in Callers, HandshakeFails(c) PROVE mine'[d] = t /\ pc'[d] \notin Unheard
  BY <1>0, <1>8 DEF Unheard, HandshakeFails, Return, Goto
<1>9. ASSUME NEW c \in Callers, HandshakeTooLate(c)
      PROVE  mine'[d] = t /\ pc'[d] \notin Unheard
  BY <1>0, <1>9 DEF Unheard, HandshakeTooLate, CloseUnlessShuttingDown, Return, Goto
<1>10. ASSUME NEW c \in Callers, Listen(c) PROVE mine'[d] = t /\ pc'[d] \notin Unheard
  BY <1>0, <1>10 DEF Unheard, Listen, Goto
<1>11. ASSUME NEW c \in Callers, StartNotWritten(c)
       PROVE  mine'[d] = t /\ pc'[d] \notin Unheard
  BY <1>0, <1>11 DEF Unheard, StartNotWritten, Return, Goto
<1>12. ASSUME NEW c \in Callers, HearStarted(c) PROVE mine'[d] = t /\ pc'[d] \notin Unheard
  BY <1>0, <1>12 DEF Unheard, HearStarted, conns, Goto
<1>13. ASSUME NEW c \in Callers, HearStartFailed(c)
       PROVE  mine'[d] = t /\ pc'[d] \notin Unheard
  BY <1>0, <1>13 DEF Unheard, HearStartFailed, Return, Goto
<1>14. ASSUME NEW c \in Callers, confirm_pending(c)
       PROVE  mine'[d] = t /\ pc'[d] \notin Unheard
  BY <1>0, <1>14 DEF Unheard, confirm_pending, Goto
<1>15. ASSUME NEW c \in Callers, ConfirmFails(c) PROVE mine'[d] = t /\ pc'[d] \notin Unheard
  BY <1>0, <1>15 DEF Unheard, ConfirmFails, conns, Goto
<1>16. ASSUME NEW c \in Callers, publish_pending(c)
       PROVE  mine'[d] = t /\ pc'[d] \notin Unheard
  BY <1>0, <1>16 DEF Unheard, publish_pending, Return, Goto
<1>17. ASSUME NEW c \in Callers, StartLeftToOthers(c)
       PROVE  mine'[d] = t /\ pc'[d] \notin Unheard
  BY <1>0, <1>17 DEF Unheard, StartLeftToOthers, Return, Goto
<1>18. ASSUME NEW c \in Callers, StartNotPublished(c)
       PROVE  mine'[d] = t /\ pc'[d] \notin Unheard
  BY <1>0, <1>18 DEF Unheard, StartNotPublished, conns, Goto
<1>19. ASSUME NEW c \in Callers, discard_pending(c)
       PROVE  mine'[d] = t /\ pc'[d] \notin Unheard
  BY <1>0, <1>19 DEF Unheard, discard_pending, Return, Goto
<1>20. ASSUME NEW c \in Callers, TakeEventSlot(c) PROVE mine'[d] = t /\ pc'[d] \notin Unheard
  BY <1>0, <1>20 DEF Unheard, TakeEventSlot, Goto
<1>21. ASSUME NEW c \in Callers, DetachTooLate(c) PROVE mine'[d] = t /\ pc'[d] \notin Unheard
  BY <1>0, <1>21 DEF Unheard, DetachTooLate, Return, Goto
<1>22. ASSUME NEW c \in Callers, WriteDetach(c) PROVE mine'[d] = t /\ pc'[d] \notin Unheard
  BY <1>0, <1>22 DEF Unheard, WriteDetach, Goto
<1>23. ASSUME NEW c \in Callers, DetachNotWritten(c)
       PROVE  mine'[d] = t /\ pc'[d] \notin Unheard
  BY <1>0, <1>23 DEF Unheard, DetachNotWritten, conns, Goto
<1>24. ASSUME NEW c \in Callers, HearDetached(c) PROVE mine'[d] = t /\ pc'[d] \notin Unheard
  BY <1>0, <1>24 DEF Unheard, HearDetached, CloseUnlessShuttingDown, Return, Goto
<1>25. ASSUME NEW c \in Callers, WriteAttach(c) PROVE mine'[d] = t /\ pc'[d] \notin Unheard
  BY <1>0, <1>25 DEF Unheard, WriteAttach, Goto
<1>26. ASSUME NEW c \in Callers, AttachNotWritten(c)
       PROVE  mine'[d] = t /\ pc'[d] \notin Unheard
  BY <1>0, <1>26 DEF Unheard, AttachNotWritten, conns, Goto
<1>27. ASSUME NEW c \in Callers, WriteFailed(c) PROVE mine'[d] = t /\ pc'[d] \notin Unheard
  BY <1>0, <1>27 DEF Unheard, WriteFailed, CloseUnlessShuttingDown, Return, Goto
<1>28. ASSUME NEW c \in Callers, LoseTransport(c) PROVE mine'[d] = t /\ pc'[d] \notin Unheard
  BY <1>0, <1>28 DEF Unheard, LoseTransport, Goto
<1>29. ASSUME NEW c \in Callers, CloseMine(c) PROVE mine'[d] = t /\ pc'[d] \notin Unheard
  BY <1>0, <1>29 DEF Unheard, CloseMine, Return, Goto
<1>30. ASSUME NEW c \in Callers, HearAttached(c) PROVE mine'[d] = t /\ pc'[d] \notin Unheard
  BY <1>0, <1>30 DEF Unheard, HearAttached, Return, Goto
<1>31. ASSUME NEW c \in Callers, HearAttachFailed(c)
       PROVE  mine'[d] = t /\ pc'[d] \notin Unheard
  BY <1>0, <1>31 DEF Unheard, HearAttachFailed, CloseUnlessShuttingDown, Return, Goto
<1>. QED
  <2>1. CASE event_sender' # event_sender
    BY <2>1, <1>6, <1>8, <1>9, <1>10, <1>11, <1>13, <1>16, <1>17, <1>19, <1>20, <1>21, <1>24,
         <1>27, <1>29, <1>30, <1>31, SenderMovers, NotYet DEF MainStep, WorkerStep
  <2>2. CASE calls' # calls
    BY <2>2, <1>2, <1>3, <1>4, <1>5, <1>6, <1>7, <1>8, <1>9, <1>10, <1>11, <1>12, <1>13, <1>14,
         <1>15, <1>16, <1>17, <1>18, <1>19, <1>20, <1>21, <1>22, <1>23, <1>24, <1>25, <1>26,
         <1>27, <1>28, <1>29, <1>30, <1>31, CallMovers, NotYet DEF MainStep, WorkerStep
  <2>3. CASE UNCHANGED <<event_sender, calls>>
    BY <1>1, <2>3 DEF calls
  <2>. QED
    BY <2>1, <2>2, <2>3

(* Before it listens a command has nothing to hear.                        *)
LEMMA SilenceStep ==
    ASSUME ManagerAssumption, Typed, SettledBeforeShutdown, Next, ~shutting_down',
           NEW d \in Callers, pc'[d] \in Unheard
    PROVE  events'[d] = <<>>
<1>0. /\ pc'[d] \in Unheard /\ d \in Callers
      /\ events \in [Callers \union {Main} -> Seq(Events)]
      /\ pc[d] \in Unheard => events[d] = <<>>
      /\ pc \in [Callers -> Steps] /\ mine \in [Callers -> Ids]
      /\ \A c \in Callers : mine[c] = None <=> pc[c] = "idle"
      /\ \A t \in Transports : event_sender[t] = d => pc[d] \notin Unheard
  BY NotYet DEF Settled, EventsGoToTheirCaller, Typed, TypeOK
<1>. USE DEF Unheard, Events
<1>1. CASE UNCHANGED <<events, pc, mine, at>>
  BY <1>0, <1>1
<1>2. ASSUME NEW c \in Callers, start(c) PROVE events'[d] = <<>>
  BY <1>0, <1>2 DEF start, Begin, Goto
<1>3. ASSUME NEW c \in Callers, NEW r \in Sessions, reattach(c, r) PROVE events'[d] = <<>>
  BY <1>0, <1>3 DEF reattach, Begin, Goto
<1>4. ASSUME NEW c \in Callers, NEW r \in Sessions, detach(c, r) PROVE events'[d] = <<>>
  BY <1>0, <1>4 DEF detach, Goto
<1>5. ASSUME NEW c \in Callers, Connect(c) PROVE events'[d] = <<>>
  BY <1>0, <1>5 DEF Connect, Goto
<1>6. ASSUME NEW c \in Callers, CannotConnect(c) PROVE events'[d] = <<>>
  BY <1>0, <1>6 DEF CannotConnect, Return, Goto
<1>7. ASSUME NEW c \in Callers, Handshake(c) PROVE events'[d] = <<>>
  BY <1>0, <1>7 DEF Handshake, Goto
<1>8. ASSUME NEW c \in Callers, HandshakeFails(c) PROVE events'[d] = <<>>
  BY <1>0, <1>8 DEF HandshakeFails, Return, Goto
<1>9. ASSUME NEW c \in Callers, HandshakeTooLate(c) PROVE events'[d] = <<>>
  BY <1>0, <1>9 DEF HandshakeTooLate, CloseUnlessShuttingDown, Return, Goto
<1>10. ASSUME NEW c \in Callers, Listen(c) PROVE events'[d] = <<>>
  BY <1>0, <1>10 DEF Listen, Goto
<1>11. ASSUME NEW c \in Callers, StartNotWritten(c) PROVE events'[d] = <<>>
  BY <1>0, <1>11 DEF StartNotWritten, Return, Goto
<1>12. ASSUME NEW c \in Callers, HearStarted(c) PROVE events'[d] = <<>>
  BY <1>0, <1>12 DEF HearStarted, Goto
<1>13. ASSUME NEW c \in Callers, HearStartFailed(c) PROVE events'[d] = <<>>
  BY <1>0, <1>13 DEF HearStartFailed, Return, Goto
<1>14. ASSUME NEW c \in Callers, confirm_pending(c) PROVE events'[d] = <<>>
  BY <1>0, <1>14 DEF confirm_pending, Goto
<1>15. ASSUME NEW c \in Callers, ConfirmFails(c) PROVE events'[d] = <<>>
  BY <1>0, <1>15 DEF ConfirmFails, Goto
<1>16. ASSUME NEW c \in Callers, publish_pending(c) PROVE events'[d] = <<>>
  BY <1>0, <1>16 DEF publish_pending, Return, Goto
<1>17. ASSUME NEW c \in Callers, StartLeftToOthers(c) PROVE events'[d] = <<>>
  BY <1>0, <1>17 DEF StartLeftToOthers, Return, Goto
<1>18. ASSUME NEW c \in Callers, StartNotPublished(c) PROVE events'[d] = <<>>
  BY <1>0, <1>18 DEF StartNotPublished, Goto
<1>19. ASSUME NEW c \in Callers, discard_pending(c) PROVE events'[d] = <<>>
  BY <1>0, <1>19 DEF discard_pending, Return, Goto
<1>20. ASSUME NEW c \in Callers, TakeEventSlot(c) PROVE events'[d] = <<>>
  BY <1>0, <1>20 DEF TakeEventSlot, Goto
<1>21. ASSUME NEW c \in Callers, DetachTooLate(c) PROVE events'[d] = <<>>
  BY <1>0, <1>21 DEF DetachTooLate, Return, Goto
<1>22. ASSUME NEW c \in Callers, WriteDetach(c) PROVE events'[d] = <<>>
  BY <1>0, <1>22 DEF WriteDetach, Goto
<1>23. ASSUME NEW c \in Callers, DetachNotWritten(c) PROVE events'[d] = <<>>
  BY <1>0, <1>23 DEF DetachNotWritten, Goto
<1>24. ASSUME NEW c \in Callers, HearDetached(c) PROVE events'[d] = <<>>
  BY <1>0, <1>24 DEF HearDetached, CloseUnlessShuttingDown, Return, Goto
<1>25. ASSUME NEW c \in Callers, WriteAttach(c) PROVE events'[d] = <<>>
  BY <1>0, <1>25 DEF WriteAttach, Goto
<1>26. ASSUME NEW c \in Callers, AttachNotWritten(c) PROVE events'[d] = <<>>
  BY <1>0, <1>26 DEF AttachNotWritten, Goto
<1>27. ASSUME NEW c \in Callers, WriteFailed(c) PROVE events'[d] = <<>>
  BY <1>0, <1>27 DEF WriteFailed, CloseUnlessShuttingDown, Return, Goto
<1>28. ASSUME NEW c \in Callers, LoseTransport(c) PROVE events'[d] = <<>>
  <2>1. mine[c] \in Transports
    BY <1>0, <1>28 DEF LoseTransport, Ids
  <2>. QED
    BY <1>0, <1>28, <2>1, EmittedAt DEF LoseTransport, Goto
<1>29. ASSUME NEW c \in Callers, CloseMine(c) PROVE events'[d] = <<>>
  BY <1>0, <1>29 DEF CloseMine, Return, Goto
<1>30. ASSUME NEW c \in Callers, HearAttached(c) PROVE events'[d] = <<>>
  BY <1>0, <1>30 DEF HearAttached, Return, Goto
<1>31. ASSUME NEW c \in Callers, HearAttachFailed(c) PROVE events'[d] = <<>>
  BY <1>0, <1>31 DEF HearAttachFailed, CloseUnlessShuttingDown, Return, Goto
<1>32. ASSUME NEW u \in Transports, ReadStarted(u) PROVE events'[d] = <<>>
  BY <1>0, <1>32, EmittedAt DEF ReadStarted, ReadsLast, Reads, calls
<1>33. ASSUME NEW u \in Transports, ReadPendingOver(u) PROVE events'[d] = <<>>
  BY <1>0, <1>33, EmittedAt DEF ReadPendingOver, ReadsLast, Reads, calls
<1>34. ASSUME NEW u \in Transports, ReadOver(u) PROVE events'[d] = <<>>
  BY <1>0, <1>34, EmittedAt DEF ReadOver, ReadsLast, Reads, calls
<1>35. ASSUME NEW u \in Transports, ReadAttached(u) PROVE events'[d] = <<>>
  BY <1>0, <1>35, EmittedAt DEF ReadAttached, ReadsLast, Reads, calls
<1>36. ASSUME NEW u \in Transports, ReadDetached(u) PROVE events'[d] = <<>>
  BY <1>0, <1>36, EmittedAt DEF ReadDetached, ReadsLast, Reads, calls
<1>37. ASSUME NEW u \in Transports, ReadStopped(u) PROVE events'[d] = <<>>
  BY <1>0, <1>37, EmittedAt DEF ReadStopped, ReadsLast, Reads, calls
<1>38. ASSUME NEW u \in Transports, ReadUnexpected(u) PROVE events'[d] = <<>>
  BY <1>0, <1>38, EmittedAt DEF ReadUnexpected, ReadsLast, Reads, calls
<1>39. ASSUME NEW u \in Transports, ReadEnd(u) PROVE events'[d] = <<>>
  BY <1>0, <1>39, EmittedAt DEF ReadEnd, ReadsLast, calls
<1>. QED
  <2>1. CASE events' # events
    BY <2>1, <1>6, <1>8, <1>9, <1>11, <1>12, <1>13, <1>16, <1>17, <1>19, <1>21, <1>24, <1>27,
         <1>28, <1>29, <1>30, <1>31, <1>32, <1>33, <1>34, <1>35, <1>36, <1>37, <1>38, <1>39,
         EventMovers, NotYet DEF MainStep, WorkerStep
  <2>2. CASE calls' # calls
    BY <2>2, <1>2, <1>3, <1>4, <1>5, <1>6, <1>7, <1>8, <1>9, <1>10, <1>11, <1>12, <1>13, <1>14,
         <1>15, <1>16, <1>17, <1>18, <1>19, <1>20, <1>21, <1>22, <1>23, <1>24, <1>25, <1>26,
         <1>27, <1>28, <1>29, <1>30, <1>31, CallMovers, NotYet DEF MainStep, WorkerStep
  <2>3. CASE UNCHANGED <<events, calls>>
    BY <1>1, <2>3 DEF calls
  <2>. QED
    BY <2>1, <2>2, <2>3

(* A command that hears of a start has a session on its connection.        *)
LEMMA NewsStep ==
    ASSUME ManagerAssumption, Typed, SettledBeforeShutdown, Next, ~shutting_down',
           NEW d \in Callers, Hears(d, "Started")'
    PROVE  binding'[mine'[d]] \notin Startless
<1>0. /\ events'[d] # <<>> /\ Head(events'[d]) = "Started" /\ d \in Callers
      /\ events \in [Callers \union {Main} -> Seq(Events)]
      /\ events[d] # <<>> /\ Head(events[d]) = "Started" => binding[mine[d]] \notin Startless
      /\ pc[d] \in Unheard => events[d] = <<>>
      /\ pc \in [Callers -> Steps] /\ mine \in [Callers -> Ids]
      /\ binding \in [Transports -> Bindings]
      /\ \A c \in Callers : /\ mine[c] = None <=> pc[c] = "idle"
                            /\ mine[c] = None \/ mine[c] \in Transports
      /\ \A c \in Callers : pc[c] = "connect" => binding[mine[c]] = "none"
      /\ \A t \in Transports : event_sender[t] = d => mine[d] = t /\ pc[d] \notin Unheard
  BY NotYet DEF Settled, EventsGoToTheirCaller, IdsAreFresh, Unused, Hears, Typed, TypeOK, Ids
<1>. USE DEF Unheard, Events, Startless
<1>1. CASE UNCHANGED <<events, binding, pc, mine, at>>
  BY <1>0, <1>1
<1>2. ASSUME NEW c \in Callers, start(c) PROVE binding'[mine'[d]] \notin Startless
  BY <1>0, <1>2 DEF start, Begin, conns, Goto
<1>3. ASSUME NEW c \in Callers, NEW r \in Sessions, reattach(c, r)
      PROVE  binding'[mine'[d]] \notin Startless
  BY <1>0, <1>3 DEF reattach, Begin, conns, Goto
<1>4. ASSUME NEW c \in Callers, NEW r \in Sessions, detach(c, r)
      PROVE  binding'[mine'[d]] \notin Startless
  BY <1>0, <1>4 DEF detach, conns, Goto
<1>5. ASSUME NEW c \in Callers, Connect(c) PROVE binding'[mine'[d]] \notin Startless
  BY <1>0, <1>5 DEF Connect, Goto
<1>6. ASSUME NEW c \in Callers, CannotConnect(c) PROVE binding'[mine'[d]] \notin Startless
  BY <1>0, <1>6 DEF CannotConnect, Return, Goto
<1>7. ASSUME NEW c \in Callers, Handshake(c) PROVE binding'[mine'[d]] \notin Startless
  BY <1>0, <1>7 DEF Handshake, conns, Goto
<1>8. ASSUME NEW c \in Callers, HandshakeFails(c) PROVE binding'[mine'[d]] \notin Startless
  BY <1>0, <1>8 DEF HandshakeFails, Return, Goto
<1>9. ASSUME NEW c \in Callers, HandshakeTooLate(c) PROVE binding'[mine'[d]] \notin Startless
  BY <1>0, <1>9 DEF HandshakeTooLate, CloseUnlessShuttingDown, Return, Goto
<1>10. ASSUME NEW c \in Callers, Listen(c) PROVE binding'[mine'[d]] \notin Startless
  BY <1>0, <1>10 DEF Listen, Goto
<1>11. ASSUME NEW c \in Callers, StartNotWritten(c) PROVE binding'[mine'[d]] \notin Startless
  BY <1>0, <1>11 DEF StartNotWritten, Return, Goto
<1>12. ASSUME NEW c \in Callers, HearStarted(c) PROVE binding'[mine'[d]] \notin Startless
  BY <1>0, <1>12 DEF HearStarted, conns, Goto, Hears
<1>13. ASSUME NEW c \in Callers, HearStartFailed(c) PROVE binding'[mine'[d]] \notin Startless
  BY <1>0, <1>13 DEF HearStartFailed, Return, Goto
<1>14. ASSUME NEW c \in Callers, confirm_pending(c) PROVE binding'[mine'[d]] \notin Startless
  BY <1>0, <1>14 DEF confirm_pending, Goto
<1>15. ASSUME NEW c \in Callers, ConfirmFails(c) PROVE binding'[mine'[d]] \notin Startless
  BY <1>0, <1>15 DEF ConfirmFails, conns, Goto
<1>16. ASSUME NEW c \in Callers, publish_pending(c) PROVE binding'[mine'[d]] \notin Startless
  BY <1>0, <1>16 DEF publish_pending, Return, Goto
<1>17. ASSUME NEW c \in Callers, StartLeftToOthers(c)
       PROVE  binding'[mine'[d]] \notin Startless
  BY <1>0, <1>17 DEF StartLeftToOthers, Return, Goto
<1>18. ASSUME NEW c \in Callers, StartNotPublished(c)
       PROVE  binding'[mine'[d]] \notin Startless
  BY <1>0, <1>18 DEF StartNotPublished, conns, Goto
<1>19. ASSUME NEW c \in Callers, discard_pending(c) PROVE binding'[mine'[d]] \notin Startless
  BY <1>0, <1>19 DEF discard_pending, Return, Goto
<1>20. ASSUME NEW c \in Callers, TakeEventSlot(c) PROVE binding'[mine'[d]] \notin Startless
  BY <1>0, <1>20 DEF TakeEventSlot, Goto
<1>21. ASSUME NEW c \in Callers, DetachTooLate(c) PROVE binding'[mine'[d]] \notin Startless
  BY <1>0, <1>21 DEF DetachTooLate, Return, Goto
<1>22. ASSUME NEW c \in Callers, WriteDetach(c) PROVE binding'[mine'[d]] \notin Startless
  BY <1>0, <1>22 DEF WriteDetach, Goto
<1>23. ASSUME NEW c \in Callers, DetachNotWritten(c) PROVE binding'[mine'[d]] \notin Startless
  BY <1>0, <1>23 DEF DetachNotWritten, conns, Goto
<1>24. ASSUME NEW c \in Callers, HearDetached(c) PROVE binding'[mine'[d]] \notin Startless
  BY <1>0, <1>24 DEF HearDetached, CloseUnlessShuttingDown, Return, Goto
<1>25. ASSUME NEW c \in Callers, WriteAttach(c) PROVE binding'[mine'[d]] \notin Startless
  BY <1>0, <1>25 DEF WriteAttach, Goto
<1>26. ASSUME NEW c \in Callers, AttachNotWritten(c) PROVE binding'[mine'[d]] \notin Startless
  BY <1>0, <1>26 DEF AttachNotWritten, conns, Goto
<1>27. ASSUME NEW c \in Callers, WriteFailed(c) PROVE binding'[mine'[d]] \notin Startless
  BY <1>0, <1>27 DEF WriteFailed, CloseUnlessShuttingDown, Return, Goto
<1>28. ASSUME NEW c \in Callers, LoseTransport(c) PROVE binding'[mine'[d]] \notin Startless
  <2>1. mine[c] \in Transports
    BY <1>0, <1>28 DEF LoseTransport, Ids
  <2>. QED
    BY <1>0, <1>28, <2>1, EmittedAt DEF LoseTransport, handle_transport_loss, Goto
<1>29. ASSUME NEW c \in Callers, CloseMine(c) PROVE binding'[mine'[d]] \notin Startless
  BY <1>0, <1>29 DEF CloseMine, Return, Goto
<1>30. ASSUME NEW c \in Callers, HearAttached(c) PROVE binding'[mine'[d]] \notin Startless
  BY <1>0, <1>30 DEF HearAttached, Return, Goto
<1>31. ASSUME NEW c \in Callers, HearAttachFailed(c) PROVE binding'[mine'[d]] \notin Startless
  BY <1>0, <1>31 DEF HearAttachFailed, CloseUnlessShuttingDown, Return, Goto
<1>32. ASSUME NEW u \in Transports, ReadStarted(u) PROVE binding'[mine'[d]] \notin Startless
  <2>1. /\ UNCHANGED calls
        /\ binding'[u] \in {"Pending", "Attached", "Closed"}
        /\ \A t \in Transports : t # u => binding'[t] = binding[t]
    BY <1>0, <1>32 DEF ReadStarted, ReadsLast, Reads
  <2>2. events'[d] = events[d] \/ event_sender[u] = d
    BY <1>0, <1>32, EmittedAt DEF ReadStarted, ReadsLast
  <2>. QED
    BY <1>0, <2>1, <2>2 DEF calls
<1>33. ASSUME NEW u \in Transports, ReadPendingOver(u)
       PROVE  binding'[mine'[d]] \notin Startless
  <2>1. /\ UNCHANGED calls
        /\ binding'[u] \in {"Pending", "Attached", "Closed"}
        /\ \A t \in Transports : t # u => binding'[t] = binding[t]
    BY <1>0, <1>33 DEF ReadPendingOver, ReadsLast, Reads
  <2>2. events'[d] = events[d] \/ event_sender[u] = d
    BY <1>0, <1>33, EmittedAt DEF ReadPendingOver, ReadsLast
  <2>. QED
    BY <1>0, <2>1, <2>2 DEF calls
<1>34. ASSUME NEW u \in Transports, ReadOver(u) PROVE binding'[mine'[d]] \notin Startless
  <2>1. /\ UNCHANGED calls
        /\ binding'[u] \in {"Pending", "Attached", "Closed"}
        /\ \A t \in Transports : t # u => binding'[t] = binding[t]
    BY <1>0, <1>34 DEF ReadOver, ReadsLast, Reads
  <2>2. events'[d] = events[d] \/ event_sender[u] = d
    BY <1>0, <1>34, EmittedAt DEF ReadOver, ReadsLast
  <2>. QED
    BY <1>0, <2>1, <2>2 DEF calls
<1>35. ASSUME NEW u \in Transports, ReadAttached(u) PROVE binding'[mine'[d]] \notin Startless
  <2>1. /\ UNCHANGED calls
        /\ binding'[u] \in {"Pending", "Attached", "Closed"}
        /\ \A t \in Transports : t # u => binding'[t] = binding[t]
    BY <1>0, <1>35 DEF ReadAttached, ReadsLast, Reads
  <2>2. events'[d] = events[d] \/ event_sender[u] = d
    BY <1>0, <1>35, EmittedAt DEF ReadAttached, ReadsLast
  <2>. QED
    BY <1>0, <2>1, <2>2 DEF calls
<1>36. ASSUME NEW u \in Transports, ReadDetached(u) PROVE binding'[mine'[d]] \notin Startless
  <2>1. /\ UNCHANGED calls
        /\ binding'[u] \in {"Pending", "Attached", "Closed"}
        /\ \A t \in Transports : t # u => binding'[t] = binding[t]
    BY <1>0, <1>36 DEF ReadDetached, ReadsLast, Reads
  <2>2. events'[d] = events[d] \/ event_sender[u] = d
    BY <1>0, <1>36, EmittedAt DEF ReadDetached, ReadsLast
  <2>. QED
    BY <1>0, <2>1, <2>2 DEF calls
<1>37. ASSUME NEW u \in Transports, ReadStopped(u) PROVE binding'[mine'[d]] \notin Startless
  <2>1. /\ UNCHANGED calls
        /\ binding'[u] \in {"Pending", "Attached", "Closed"}
        /\ \A t \in Transports : t # u => binding'[t] = binding[t]
    BY <1>0, <1>37 DEF ReadStopped, ReadsLast, Reads
  <2>2. events'[d] = events[d] \/ event_sender[u] = d
    BY <1>0, <1>37, EmittedAt DEF ReadStopped, ReadsLast
  <2>. QED
    BY <1>0, <2>1, <2>2 DEF calls
<1>38. ASSUME NEW u \in Transports, ReadUnexpected(u)
       PROVE  binding'[mine'[d]] \notin Startless
  <2>1. /\ UNCHANGED calls
        /\ binding'[u] \in {"Pending", "Attached", "Closed"}
        /\ \A t \in Transports : t # u => binding'[t] = binding[t]
    BY <1>0, <1>38 DEF ReadUnexpected, ReadsLast, Reads
  <2>2. events'[d] = events[d] \/ event_sender[u] = d
    BY <1>0, <1>38, EmittedAt DEF ReadUnexpected, ReadsLast
  <2>. QED
    BY <1>0, <2>1, <2>2 DEF calls
<1>39. ASSUME NEW u \in Transports, ReadEnd(u) PROVE binding'[mine'[d]] \notin Startless
  <2>1. /\ UNCHANGED calls
        /\ binding'[u] \in {"Pending", "Attached", "Closed"}
        /\ \A t \in Transports : t # u => binding'[t] = binding[t]
    BY <1>0, <1>39 DEF ReadEnd, ReadsLast, Reads
  <2>2. events'[d] = events[d] \/ event_sender[u] = d
    BY <1>0, <1>39, EmittedAt DEF ReadEnd, ReadsLast
  <2>. QED
    BY <1>0, <2>1, <2>2 DEF calls
<1>. QED
  <2>1. CASE events' # events
    BY <2>1, <1>6, <1>8, <1>9, <1>11, <1>12, <1>13, <1>16, <1>17, <1>19, <1>21, <1>24, <1>27,
         <1>28, <1>29, <1>30, <1>31, <1>32, <1>33, <1>34, <1>35, <1>36, <1>37, <1>38, <1>39,
         EventMovers, NotYet DEF MainStep, WorkerStep
  <2>2. CASE binding' # binding
    BY <2>2, <1>5, <1>14, <1>16, <1>19, <1>22, <1>25, <1>28, <1>32, <1>33, <1>34, <1>35, <1>36,
         <1>37, <1>38, <1>39, BindingMovers, NotYet DEF MainStep, WorkerStep
  <2>3. CASE calls' # calls
    BY <2>3, <1>2, <1>3, <1>4, <1>5, <1>6, <1>7, <1>8, <1>9, <1>10, <1>11, <1>12, <1>13, <1>14,
         <1>15, <1>16, <1>17, <1>18, <1>19, <1>20, <1>21, <1>22, <1>23, <1>24, <1>25, <1>26,
         <1>27, <1>28, <1>29, <1>30, <1>31, CallMovers, NotYet DEF MainStep, WorkerStep
  <2>4. CASE UNCHANGED <<events, binding, calls>>
    BY <1>1, <2>4 DEF calls
  <2>. QED
    BY <2>1, <2>2, <2>3, <2>4

(* What a start confirms is the session of its connection.                 *)
LEMMA ConfirmStep ==
    ASSUME ManagerAssumption, Typed, SettledBeforeShutdown, Next, ~shutting_down',
           NEW d \in Callers, pc'[d] \in {"confirm", "publish", "discard"}
    PROVE  at'[d] = key'[mine'[d]] /\ binding'[mine'[d]] \notin Startless
<1>. DEFINE AsStarted ==
          at'[d] = key'[mine'[d]] /\ binding'[mine'[d]] \notin Startless
<1>0. /\ pc'[d] \in {"confirm", "publish", "discard"} /\ d \in Callers
      /\ pc[d] \in {"confirm", "publish", "discard"}
            => at[d] = key[mine[d]] /\ binding[mine[d]] \notin Startless
      /\ Hears(d, "Started") => binding[mine[d]] \notin Startless
      /\ pc \in [Callers -> Steps] /\ mine \in [Callers -> Ids]
      /\ at \in [Callers -> Sessions \union {NoSession}]
      /\ binding \in [Transports -> Bindings] /\ key \in [Transports -> Sessions \union {NoSession}]
      /\ \A c \in Callers : /\ mine[c] = None <=> pc[c] = "idle"
                            /\ mine[c] = None \/ mine[c] \in Transports
      /\ \A c \in Callers : pc[c] = "connect" => binding[mine[c]] = "none"
  BY NotYet DEF Settled, EventsGoToTheirCaller, IdsAreFresh, Unused, Typed, TypeOK, Ids
<1>. USE DEF Startless
<1>1. CASE UNCHANGED <<binding, key, pc, mine, at>>
  BY <1>0, <1>1
<1>2. ASSUME NEW c \in Callers, start(c) PROVE AsStarted
  BY <1>0, <1>2 DEF start, Begin, conns, Goto
<1>3. ASSUME NEW c \in Callers, NEW r \in Sessions, reattach(c, r) PROVE AsStarted
  BY <1>0, <1>3 DEF reattach, Begin, conns, Goto
<1>4. ASSUME NEW c \in Callers, NEW r \in Sessions, detach(c, r) PROVE AsStarted
  BY <1>0, <1>4 DEF detach, conns, Goto
<1>5. ASSUME NEW c \in Callers, Connect(c) PROVE AsStarted
  BY <1>0, <1>5 DEF Connect, Goto
<1>6. ASSUME NEW c \in Callers, CannotConnect(c) PROVE AsStarted
  BY <1>0, <1>6 DEF CannotConnect, Return, Goto
<1>7. ASSUME NEW c \in Callers, Handshake(c) PROVE AsStarted
  BY <1>0, <1>7 DEF Handshake, conns, Goto
<1>8. ASSUME NEW c \in Callers, HandshakeFails(c) PROVE AsStarted
  BY <1>0, <1>8 DEF HandshakeFails, Return, Goto
<1>9. ASSUME NEW c \in Callers, HandshakeTooLate(c) PROVE AsStarted
  BY <1>0, <1>9 DEF HandshakeTooLate, CloseUnlessShuttingDown, Goto, Return
<1>10. ASSUME NEW c \in Callers, Listen(c) PROVE AsStarted
  BY <1>0, <1>10 DEF Listen, Goto
<1>11. ASSUME NEW c \in Callers, StartNotWritten(c) PROVE AsStarted
  BY <1>0, <1>11 DEF StartNotWritten, Return, Goto
<1>12. ASSUME NEW c \in Callers, HearStarted(c) PROVE AsStarted
  BY <1>0, <1>12 DEF HearStarted, conns, Goto
<1>13. ASSUME NEW c \in Callers, HearStartFailed(c) PROVE AsStarted
  BY <1>0, <1>13 DEF HearStartFailed, Return, Goto
<1>14. ASSUME NEW c \in Callers, confirm_pending(c) PROVE AsStarted
  BY <1>0, <1>14 DEF confirm_pending, Goto
<1>15. ASSUME NEW c \in Callers, ConfirmFails(c) PROVE AsStarted
  BY <1>0, <1>15 DEF ConfirmFails, conns, Goto
<1>16. ASSUME NEW c \in Callers, publish_pending(c) PROVE AsStarted
  BY <1>0, <1>16 DEF publish_pending, Return, Goto
<1>17. ASSUME NEW c \in Callers, StartLeftToOthers(c) PROVE AsStarted
  BY <1>0, <1>17 DEF StartLeftToOthers, Return, Goto
<1>18. ASSUME NEW c \in Callers, StartNotPublished(c) PROVE AsStarted
  BY <1>0, <1>18 DEF StartNotPublished, conns, Goto
<1>19. ASSUME NEW c \in Callers, discard_pending(c) PROVE AsStarted
  BY <1>0, <1>19 DEF discard_pending, Return, Goto
<1>20. ASSUME NEW c \in Callers, TakeEventSlot(c) PROVE AsStarted
  BY <1>0, <1>20 DEF TakeEventSlot, Goto
<1>21. ASSUME NEW c \in Callers, DetachTooLate(c) PROVE AsStarted
  BY <1>0, <1>21 DEF DetachTooLate, Return, Goto
<1>22. ASSUME NEW c \in Callers, WriteDetach(c) PROVE AsStarted
  BY <1>0, <1>22 DEF WriteDetach, Goto
<1>23. ASSUME NEW c \in Callers, DetachNotWritten(c) PROVE AsStarted
  BY <1>0, <1>23 DEF DetachNotWritten, conns, Goto
<1>24. ASSUME NEW c \in Callers, HearDetached(c) PROVE AsStarted
  BY <1>0, <1>24 DEF HearDetached, CloseUnlessShuttingDown, Goto, Return
<1>25. ASSUME NEW c \in Callers, WriteAttach(c) PROVE AsStarted
  BY <1>0, <1>25 DEF WriteAttach, Goto
<1>26. ASSUME NEW c \in Callers, AttachNotWritten(c) PROVE AsStarted
  BY <1>0, <1>26 DEF AttachNotWritten, conns, Goto
<1>27. ASSUME NEW c \in Callers, WriteFailed(c) PROVE AsStarted
  BY <1>0, <1>27 DEF WriteFailed, CloseUnlessShuttingDown, Goto, Return
<1>28. ASSUME NEW c \in Callers, LoseTransport(c) PROVE AsStarted
  <2>1. mine[c] \in Transports
    BY <1>0, <1>28 DEF LoseTransport, Ids
  <2>. QED
    BY <1>0, <1>28, <2>1 DEF LoseTransport, handle_transport_loss, Goto
<1>29. ASSUME NEW c \in Callers, CloseMine(c) PROVE AsStarted
  BY <1>0, <1>29 DEF CloseMine, Return, Goto
<1>30. ASSUME NEW c \in Callers, HearAttached(c) PROVE AsStarted
  BY <1>0, <1>30 DEF HearAttached, Return, Goto
<1>31. ASSUME NEW c \in Callers, HearAttachFailed(c) PROVE AsStarted
  BY <1>0, <1>31 DEF HearAttachFailed, CloseUnlessShuttingDown, Goto, Return
<1>32. ASSUME NEW u \in Transports, ReadStarted(u) PROVE AsStarted
  <2>1. /\ UNCHANGED calls
        /\ binding'[u] \in {"Pending", "Attached", "Closed"}
        /\ \A t \in Transports : t # u => binding'[t] = binding[t]
    BY <1>0, <1>32 DEF ReadStarted, ReadsLast, Reads
  <2>2. \A t \in Transports : key'[t] = key[t] \/ (t = u /\ binding[u] = "AwaitingStart")
    BY <1>0, <1>32 DEF ReadStarted, ReadsLast, Reads
  <2>. QED
    BY <1>0, <2>1, <2>2 DEF calls
<1>33. ASSUME NEW u \in Transports, ReadPendingOver(u) PROVE AsStarted
  <2>1. /\ UNCHANGED calls
        /\ binding'[u] \in {"Pending", "Attached", "Closed"}
        /\ \A t \in Transports : t # u => binding'[t] = binding[t]
    BY <1>0, <1>33 DEF ReadPendingOver, ReadsLast, Reads
  <2>2. \A t \in Transports : key'[t] = key[t] \/ (t = u /\ binding[u] = "AwaitingStart")
    BY <1>0, <1>33 DEF ReadPendingOver, ReadsLast, Reads
  <2>. QED
    BY <1>0, <2>1, <2>2 DEF calls
<1>34. ASSUME NEW u \in Transports, ReadOver(u) PROVE AsStarted
  <2>1. /\ UNCHANGED calls
        /\ binding'[u] \in {"Pending", "Attached", "Closed"}
        /\ \A t \in Transports : t # u => binding'[t] = binding[t]
    BY <1>0, <1>34 DEF ReadOver, ReadsLast, Reads
  <2>2. \A t \in Transports : key'[t] = key[t] \/ (t = u /\ binding[u] = "AwaitingStart")
    BY <1>0, <1>34 DEF ReadOver, ReadsLast, Reads
  <2>. QED
    BY <1>0, <2>1, <2>2 DEF calls
<1>35. ASSUME NEW u \in Transports, ReadAttached(u) PROVE AsStarted
  <2>1. /\ UNCHANGED calls
        /\ binding'[u] \in {"Pending", "Attached", "Closed"}
        /\ \A t \in Transports : t # u => binding'[t] = binding[t]
    BY <1>0, <1>35 DEF ReadAttached, ReadsLast, Reads
  <2>2. \A t \in Transports : key'[t] = key[t] \/ (t = u /\ binding[u] = "AwaitingStart")
    BY <1>0, <1>35 DEF ReadAttached, ReadsLast, Reads
  <2>. QED
    BY <1>0, <2>1, <2>2 DEF calls
<1>36. ASSUME NEW u \in Transports, ReadDetached(u) PROVE AsStarted
  <2>1. /\ UNCHANGED calls
        /\ binding'[u] \in {"Pending", "Attached", "Closed"}
        /\ \A t \in Transports : t # u => binding'[t] = binding[t]
    BY <1>0, <1>36 DEF ReadDetached, ReadsLast, Reads
  <2>2. \A t \in Transports : key'[t] = key[t] \/ (t = u /\ binding[u] = "AwaitingStart")
    BY <1>0, <1>36 DEF ReadDetached, ReadsLast, Reads
  <2>. QED
    BY <1>0, <2>1, <2>2 DEF calls
<1>37. ASSUME NEW u \in Transports, ReadStopped(u) PROVE AsStarted
  <2>1. /\ UNCHANGED calls
        /\ binding'[u] \in {"Pending", "Attached", "Closed"}
        /\ \A t \in Transports : t # u => binding'[t] = binding[t]
    BY <1>0, <1>37 DEF ReadStopped, ReadsLast, Reads
  <2>2. \A t \in Transports : key'[t] = key[t] \/ (t = u /\ binding[u] = "AwaitingStart")
    BY <1>0, <1>37 DEF ReadStopped, ReadsLast, Reads
  <2>. QED
    BY <1>0, <2>1, <2>2 DEF calls
<1>38. ASSUME NEW u \in Transports, ReadUnexpected(u) PROVE AsStarted
  <2>1. /\ UNCHANGED calls
        /\ binding'[u] \in {"Pending", "Attached", "Closed"}
        /\ \A t \in Transports : t # u => binding'[t] = binding[t]
    BY <1>0, <1>38 DEF ReadUnexpected, ReadsLast, Reads
  <2>2. \A t \in Transports : key'[t] = key[t] \/ (t = u /\ binding[u] = "AwaitingStart")
    BY <1>0, <1>38 DEF ReadUnexpected, ReadsLast, Reads
  <2>. QED
    BY <1>0, <2>1, <2>2 DEF calls
<1>39. ASSUME NEW u \in Transports, ReadEnd(u) PROVE AsStarted
  <2>1. /\ UNCHANGED calls
        /\ binding'[u] \in {"Pending", "Attached", "Closed"}
        /\ \A t \in Transports : t # u => binding'[t] = binding[t]
    BY <1>0, <1>39 DEF ReadEnd, ReadsLast, Reads
  <2>2. \A t \in Transports : key'[t] = key[t] \/ (t = u /\ binding[u] = "AwaitingStart")
    BY <1>0, <1>39 DEF ReadEnd, ReadsLast, Reads
  <2>. QED
    BY <1>0, <2>1, <2>2 DEF calls
<1>. QED
  <2>1. CASE binding' # binding
    BY <2>1, <1>5, <1>14, <1>16, <1>19, <1>22, <1>25, <1>28, <1>32, <1>33, <1>34, <1>35, <1>36,
         <1>37, <1>38, <1>39, BindingMovers, NotYet DEF MainStep, WorkerStep
  <2>2. CASE key' # key
    BY <2>2, <1>5, <1>32, KeyMovers, NotYet DEF MainStep, WorkerStep
  <2>3. CASE calls' # calls
    BY <2>3, <1>2, <1>3, <1>4, <1>5, <1>6, <1>7, <1>8, <1>9, <1>10, <1>11, <1>12, <1>13, <1>14,
         <1>15, <1>16, <1>17, <1>18, <1>19, <1>20, <1>21, <1>22, <1>23, <1>24, <1>25, <1>26,
         <1>27, <1>28, <1>29, <1>30, <1>31, CallMovers, NotYet DEF MainStep, WorkerStep
  <2>4. CASE UNCHANGED <<binding, key, calls>>
    BY <1>1, <2>4 DEF calls
  <2>. QED
    BY <2>1, <2>2, <2>3, <2>4

(* Together: events go to the command they are for.                        *)
LEMMA EventsStep ==
    ASSUME ManagerAssumption, Typed, SettledBeforeShutdown, Next, ~shutting_down'
    PROVE  EventsGoToTheirCaller'
BY SendersStep, SilenceStep, NewsStep, ConfirmStep DEF EventsGoToTheirCaller

(* The loss of a connection takes it from its row (handle_transport_loss). *)
LEMMA LossBacked ==
    ASSUME NEW t \in Transports, NEW s \in Sessions,
           NoSession \notin Sessions, records \in [Sessions -> Rows],
           binding \in [Transports -> Bindings],
           key \in [Transports -> Sessions \union {NoSession}], UNCHANGED key,
           \A u \in Transports : Shown(u), \A r \in Sessions : Backed(r),
           records' = RecordsAfterLoss(t), binding' = [binding EXCEPT ![t] = "Closed"]
    PROVE  Backed(s)'
<1>1. CASE key[t] # s
  <2>1. records'[s] = records[s]
    BY <1>1 DEF RecordsAfterLoss
  <2>. QED
    BY <1>1, <2>1 DEF Backed
<1>2. CASE key[t] = s
  <2>1. records'[s] = RowAfterLoss(t) /\ Backed(s) /\ records[s] \in Rows
        /\ (binding[t] \in {"Attached", "Detaching"} => records[s] = Row("attached", t, None))
        /\ (binding[t] \in {"Pending", "ConfirmedPending"} => records[s] = Row("pending", t, None))
    BY <1>2 DEF RecordsAfterLoss, Shown
  <2>2. CASE binding[t] = "Pending"
    BY <2>1, <2>2 DEF RowAfterLoss, Backed, Tombstone, Row
  <2>3. CASE binding[t] = "ConfirmedPending"
    BY <2>1, <2>3 DEF RowAfterLoss, Backed, PublishUnreachable, Row
  <2>4. CASE binding[t] \in {"AwaitingAttach", "Attaching"}
    BY <1>2, <2>1, <2>4 DEF RowAfterLoss, Backed, FailReattach, Row
  <2>5. CASE binding[t] \in {"Attached", "Detaching"}
    BY <2>1, <2>5 DEF RowAfterLoss, Backed, MarkUnreachable, Published, Row
  <2>6. CASE binding[t] \in {"none", "AwaitingStart", "Stopping", "Closed"}
    BY <1>2, <2>1, <2>6 DEF RowAfterLoss, Backed
  <2>. QED
    BY <2>2, <2>3, <2>4, <2>5, <2>6 DEF Bindings
<1>. QED
  BY <1>1, <1>2

(* What a connection is bound to is what the row shows.                    *)
LEMMA ShownStep ==
    ASSUME ManagerAssumption, Typed, SettledBeforeShutdown, Next, ~shutting_down',
           NEW t \in Transports
    PROVE  Shown(t)'
<1>0. /\ \A u \in Transports : Shown(u)
      /\ \A s \in Sessions : Backed(s)
      /\ records \in [Sessions -> Rows] /\ mine \in [Callers -> Ids]
      /\ at \in [Callers -> Sessions \union {NoSession}]
      /\ binding \in [Transports -> Bindings] /\ key \in [Transports -> Sessions \union {NoSession}]
      /\ \A c \in Callers : /\ mine[c] = None <=> pc[c] = "idle"
                            /\ mine[c] = None \/ mine[c] \in Transports
      /\ \A c \in Callers : pc[c] = "connect" => binding[mine[c]] = "none"
      /\ \A c \in Callers : pc[c] \in {"confirm", "publish", "discard"} => at[c] = key[mine[c]]
      /\ \A u \in Transports : key[u] = NoSession => binding[u] \in Unkeyed
      /\ NoSession \notin Sessions /\ None \notin Transports
  BY NotYet, TransportIds DEF Settled, EventsGoToTheirCaller, IdsAreFresh, Unused, Typed, TypeOK,
     Ids,
     RowsAreBound, ManagerAssumption
<1>1. CASE UNCHANGED <<records, binding, key>>
  BY <1>0, <1>1 DEF Shown
<1>2. ASSUME NEW c \in Callers, NEW r \in Sessions, reattach(c, r) PROVE Shown(t)'
  BY <1>0, <1>2 DEF Shown, Backed, reattach, Begin, conns, Row, Rows, Unkeyed, CanReserve
<1>3. ASSUME NEW c \in Callers, Connect(c) PROVE Shown(t)'
  BY <1>0, <1>3 DEF Shown, Backed, Connect, Row, Rows, Unkeyed
<1>4. ASSUME NEW c \in Callers, CannotConnect(c) PROVE Shown(t)'
  BY <1>0, <1>4 DEF Shown, Backed, CannotConnect, FailReattach, Row, Published, Rows, Unkeyed,
       RecordsAfterFailure, Starting
<1>5. ASSUME NEW c \in Callers, HandshakeFails(c) PROVE Shown(t)'
  BY <1>0, <1>5 DEF Shown, Backed, HandshakeFails, FailReattach, Row, Published, Rows, Unkeyed,
       RecordsAfterFailure, Starting
<1>6. ASSUME NEW c \in Callers, confirm_pending(c) PROVE Shown(t)'
  BY <1>0, <1>6 DEF Shown, Backed, confirm_pending, maps, Row, Rows, Unkeyed
<1>7. ASSUME NEW c \in Callers, publish_pending(c) PROVE Shown(t)'
  BY <1>0, <1>7 DEF Shown, Backed, publish_pending, Row, Rows, Unkeyed, OwnsPending
<1>8. ASSUME NEW c \in Callers, discard_pending(c) PROVE Shown(t)'
  BY <1>0, <1>8 DEF Shown, Backed, discard_pending, Discard, Row, Absent, Rows, Unkeyed
<1>9. ASSUME NEW c \in Callers, WriteDetach(c) PROVE Shown(t)'
  BY <1>0, <1>9 DEF Shown, Backed, WriteDetach, maps, Row, Rows, Unkeyed
<1>10. ASSUME NEW c \in Callers, WriteAttach(c) PROVE Shown(t)'
  BY <1>0, <1>10 DEF Shown, Backed, WriteAttach, maps, Row, Rows, Unkeyed
<1>11. ASSUME NEW c \in Callers, LoseTransport(c) PROVE Shown(t)'
  BY <1>0, <1>11 DEF Shown, Backed, LoseTransport, handle_transport_loss, Tombstone,
       PublishUnreachable, MarkUnreachable, FailReattach, Row, Published, Rows, Unkeyed,
       RowAfterLoss, Reads, RecordsAfterLoss
<1>12. ASSUME NEW u \in Transports, ReadStarted(u) PROVE Shown(t)'
  <2>1. inbox[u] \in Seq(Answers) /\ inbox[u] # <<>> /\ Head(inbox[u])[1] = "started"
    BY <1>12 DEF Typed, ReadStarted, Reads
  <2>2. Head(inbox[u])[2] \in Sessions
    BY <2>1, HeadTailProperties DEF Answers
  <2>. QED
    BY <1>0, <1>12, <2>2 DEF Shown, ReadStarted, ReadsLast, Row, Absent, MayInsert, Reads
<1>13. ASSUME NEW u \in Transports, ReadPendingOver(u) PROVE Shown(t)'
  BY <1>0, <1>13 DEF Shown, Backed, ReadPendingOver, Changes, ReadsLast, Tombstone, Row, Rows,
       Unkeyed, Reads, SessionOver
<1>14. ASSUME NEW u \in Transports, ReadOver(u) PROVE Shown(t)'
  BY <1>0, <1>14 DEF Shown, Backed, ReadOver, Changes, ReadsLast, Remove, Row, Absent, Published,
       Rows, Unkeyed, Reads, SessionOver
<1>15. ASSUME NEW u \in Transports, ReadAttached(u) PROVE Shown(t)'
  BY <1>0, <1>15 DEF Shown, Backed, ReadAttached, Changes, ReadsLast, Row, Published, Rows,
       Unkeyed, CanComplete, Reads, SessionOver
<1>16. ASSUME NEW u \in Transports, ReadDetached(u) PROVE Shown(t)'
  BY <1>0, <1>16 DEF Shown, Backed, ReadDetached, Changes, ReadsLast, Row, Rows, Unkeyed,
       CanMarkDetached, Reads, SessionOver
<1>17. ASSUME NEW u \in Transports, ReadStopped(u) PROVE Shown(t)'
  BY <1>0, <1>17 DEF Shown, Backed, ReadStopped, ReadsLast, Row, Rows, Unkeyed, Reads
<1>18. ASSUME NEW u \in Transports, ReadUnexpected(u) PROVE Shown(t)'
  BY <1>0, <1>18 DEF Shown, Backed, ReadUnexpected, ReadsLast, Tombstone, PublishUnreachable,
       MarkUnreachable, FailReattach, Row, Published, Rows, Unkeyed, RowAfterLoss, Reads,
       RecordsAfterLoss
<1>19. ASSUME NEW u \in Transports, ReadEnd(u) PROVE Shown(t)'
  BY <1>0, <1>19 DEF Shown, Backed, ReadEnd, ReadsLast, Tombstone, PublishUnreachable,
       MarkUnreachable, FailReattach, Row, Published, Rows, Unkeyed, RowAfterLoss, Reads,
       RecordsAfterLoss
<1>. QED
  <2>1. CASE records' # records
    BY <2>1, <1>2, <1>4, <1>5, <1>7, <1>8, <1>11, <1>12, <1>13, <1>14, <1>15, <1>16, <1>18, <1>19,
         RowMovers, NotYet DEF MainStep, WorkerStep, BeginShutdown
  <2>2. CASE binding' # binding
    BY <2>2, <1>3, <1>6, <1>7, <1>8, <1>9, <1>10, <1>11, <1>12, <1>13, <1>14, <1>15, <1>16, <1>17,
         <1>18, <1>19, BindingMovers, NotYet DEF MainStep, WorkerStep, BeginShutdown
  <2>3. CASE key' # key
    BY <2>3, <1>3, <1>12, KeyMovers, NotYet DEF MainStep, WorkerStep, BeginShutdown
  <2>4. CASE UNCHANGED <<records, binding, key>>
    BY <1>1, <2>4
  <2>. QED
    BY <2>1, <2>2, <2>3, <2>4

(* What a row shows is what a connection is bound to.                      *)
LEMMA BackedStep ==
    ASSUME ManagerAssumption, Typed, SettledBeforeShutdown, Next, ~shutting_down',
           NEW s \in Sessions
    PROVE  Backed(s)'
<1>0. /\ \A u \in Transports : Shown(u)
      /\ \A r \in Sessions : Backed(r)
      /\ records \in [Sessions -> Rows] /\ mine \in [Callers -> Ids]
      /\ at \in [Callers -> Sessions \union {NoSession}]
      /\ binding \in [Transports -> Bindings] /\ key \in [Transports -> Sessions \union {NoSession}]
      /\ \A c \in Callers : /\ mine[c] = None <=> pc[c] = "idle"
                            /\ mine[c] = None \/ mine[c] \in Transports
      /\ \A c \in Callers : pc[c] = "connect" => binding[mine[c]] = "none"
      /\ \A c \in Callers : pc[c] \in {"confirm", "publish", "discard"} => at[c] = key[mine[c]]
      /\ \A u \in Transports : key[u] = NoSession => binding[u] \in Unkeyed
      /\ NoSession \notin Sessions /\ None \notin Transports
  BY NotYet, TransportIds DEF Settled, EventsGoToTheirCaller, IdsAreFresh, Unused, Typed, TypeOK,
     Ids,
     RowsAreBound, ManagerAssumption
<1>1. CASE UNCHANGED <<records, binding, key>>
  BY <1>0, <1>1 DEF Backed
<1>2. ASSUME NEW c \in Callers, NEW r \in Sessions, reattach(c, r) PROVE Backed(s)'
  BY <1>0, <1>2 DEF Shown, Backed, reattach, Begin, conns, Row, Rows, Unkeyed, CanReserve
<1>3. ASSUME NEW c \in Callers, Connect(c) PROVE Backed(s)'
  BY <1>0, <1>3 DEF Shown, Backed, Connect, Row, Rows, Unkeyed
<1>4. ASSUME NEW c \in Callers, CannotConnect(c) PROVE Backed(s)'
  BY <1>0, <1>4 DEF Shown, Backed, CannotConnect, FailReattach, Row, Published, Rows, Unkeyed,
       RecordsAfterFailure, Starting
<1>5. ASSUME NEW c \in Callers, HandshakeFails(c) PROVE Backed(s)'
  BY <1>0, <1>5 DEF Shown, Backed, HandshakeFails, FailReattach, Row, Published, Rows, Unkeyed,
       RecordsAfterFailure, Starting
<1>6. ASSUME NEW c \in Callers, confirm_pending(c) PROVE Backed(s)'
  BY <1>0, <1>6 DEF Shown, Backed, confirm_pending, maps, Row, Rows, Unkeyed
<1>7. ASSUME NEW c \in Callers, publish_pending(c) PROVE Backed(s)'
  BY <1>0, <1>7 DEF Shown, Backed, publish_pending, Row, Rows, Unkeyed, OwnsPending
<1>8. ASSUME NEW c \in Callers, discard_pending(c) PROVE Backed(s)'
  BY <1>0, <1>8 DEF Shown, Backed, discard_pending, Discard, Row, Absent, Rows, Unkeyed
<1>9. ASSUME NEW c \in Callers, WriteDetach(c) PROVE Backed(s)'
  BY <1>0, <1>9 DEF Shown, Backed, WriteDetach, maps, Row, Rows, Unkeyed
<1>10. ASSUME NEW c \in Callers, WriteAttach(c) PROVE Backed(s)'
  BY <1>0, <1>10 DEF Shown, Backed, WriteAttach, maps, Row, Rows, Unkeyed
<1>11. ASSUME NEW c \in Callers, LoseTransport(c) PROVE Backed(s)'
  <2>1. mine[c] \in Transports
    BY <1>0, <1>11 DEF LoseTransport, Ids
  <2>. QED
    BY <1>0, <1>11, <2>1, LossBacked DEF LoseTransport, handle_transport_loss
<1>12. ASSUME NEW u \in Transports, ReadStarted(u) PROVE Backed(s)'
  BY <1>0, <1>12 DEF Shown, Backed, ReadStarted, ReadsLast, Row, Absent, Rows, Unkeyed, MayInsert,
       Reads
<1>13. ASSUME NEW u \in Transports, ReadPendingOver(u) PROVE Backed(s)'
  BY <1>0, <1>13 DEF Shown, Backed, ReadPendingOver, Changes, ReadsLast, Tombstone, Row, Rows,
       Unkeyed, Reads, SessionOver
<1>14. ASSUME NEW u \in Transports, ReadOver(u) PROVE Backed(s)'
  BY <1>0, <1>14 DEF Shown, Backed, ReadOver, Changes, ReadsLast, Remove, Row, Absent, Published,
       Rows, Unkeyed, Reads, SessionOver
<1>15. ASSUME NEW u \in Transports, ReadAttached(u) PROVE Backed(s)'
  BY <1>0, <1>15 DEF Shown, Backed, ReadAttached, Changes, ReadsLast, Row, Published, Rows,
       Unkeyed, CanComplete, Reads, SessionOver
<1>16. ASSUME NEW u \in Transports, ReadDetached(u) PROVE Backed(s)'
  BY <1>0, <1>16 DEF Shown, Backed, ReadDetached, Changes, ReadsLast, Row, Rows, Unkeyed,
       CanMarkDetached, Reads, SessionOver
<1>17. ASSUME NEW u \in Transports, ReadStopped(u) PROVE Backed(s)'
  BY <1>0, <1>17 DEF Shown, Backed, ReadStopped, ReadsLast, Row, Rows, Unkeyed, Reads
<1>18. ASSUME NEW u \in Transports, ReadUnexpected(u) PROVE Backed(s)'
  BY <1>0, <1>18, LossBacked DEF ReadUnexpected, ReadsLast
<1>19. ASSUME NEW u \in Transports, ReadEnd(u) PROVE Backed(s)'
  BY <1>0, <1>19, LossBacked DEF ReadEnd, ReadsLast
<1>. QED
  <2>1. CASE records' # records
    BY <2>1, <1>2, <1>4, <1>5, <1>7, <1>8, <1>11, <1>12, <1>13, <1>14, <1>15, <1>16, <1>18, <1>19,
         RowMovers, NotYet DEF MainStep, WorkerStep, BeginShutdown
  <2>2. CASE binding' # binding
    BY <2>2, <1>3, <1>6, <1>7, <1>8, <1>9, <1>10, <1>11, <1>12, <1>13, <1>14, <1>15, <1>16, <1>17,
         <1>18, <1>19, BindingMovers, NotYet DEF MainStep, WorkerStep, BeginShutdown
  <2>3. CASE key' # key
    BY <2>3, <1>3, <1>12, KeyMovers, NotYet DEF MainStep, WorkerStep, BeginShutdown
  <2>4. CASE UNCHANGED <<records, binding, key>>
    BY <1>1, <2>4
  <2>. QED
    BY <2>1, <2>2, <2>3, <2>4

(* Together: rows and bindings change together.                            *)
LEMMA RowsBoundStep ==
    ASSUME ManagerAssumption, Typed, SettledBeforeShutdown, Next, ~shutting_down'
    PROVE  RowsAreBound'
BY ShownStep, BackedStep DEF RowsAreBound

(* A reservation stays that of its command until the row loses it.         *)
LEMMA ReservationKept ==
    ASSUME ManagerAssumption, Typed, SettledBeforeShutdown, Next, ~shutting_down',
           NEW s \in Sessions, NEW d \in Callers, Reserving(d, s),
           records[s].transition = mine[d], mine[d] # None, records'[s].transition # None
    PROVE  /\ records'[s].transition = mine[d] /\ mine'[d] = mine[d]
              /\ Reserving(d, s)'
<1>. DEFINE Kept ==
          /\ records'[s].transition = mine[d] /\ mine'[d] = mine[d]
             /\ Reserving(d, s)'
<1>0. /\ s \in Sessions /\ d \in Callers /\ mine[d] \in Transports /\ pc[d] # "idle"
      /\ records[s].transition = mine[d] /\ records'[s].transition # None /\ Reserving(d, s)
      /\ Published(records[s]) /\ records[s].transport = None
      /\ \A c \in Callers : c # d => mine[c] # mine[d]
      /\ \A t \in Transports, c \in Callers : event_sender[t] = c => mine[c] = t
      /\ \A c \in Callers : pc[c] = "connect" => Unused(mine[c])
      /\ pc[d] \in Unheard => events[d] = <<>>
      /\ records \in [Sessions -> Rows]
      /\ pc \in [Callers -> Steps] /\ mine \in [Callers -> Ids]
      /\ at \in [Callers -> Sessions \union {NoSession}]
      /\ binding \in [Transports -> Bindings] /\ key \in [Transports -> Sessions \union {NoSession}]
      /\ event_sender \in [Transports -> Callers \union {Nobody, Main}]
      /\ events \in [Callers \union {Main} -> Seq(Events)]
      /\ NoSession \notin Sessions /\ None \notin Transports
      /\ \A c \in Callers : /\ mine[c] = None <=> pc[c] = "idle"
                            /\ mine[c] = None \/ mine[c] \in Transports
  <2>1. Settled /\ mine[d] # None
    BY NotYet
  <2>2. pc[d] = "connect" => binding[mine[d]] = "none"
    BY <2>1 DEF Settled, IdsAreFresh, Unused
  <2>3. binding[mine[d]] \notin Over
    BY <2>2 DEF Reserving, Over
  <2>4. Published(records[s]) /\ records[s].transport = None
    BY <2>1 DEF Settled, RowsAreBound, Backed, Published
  <2>5. \A c \in Callers : c # d => mine[c] # mine[d]
    BY <2>1, <2>3 DEF Settled, CommandsKeepApart
  <2>. QED
    BY <2>1, <2>4, <2>5, TransportIds DEF Settled, EventsGoToTheirCaller, IdsAreFresh, Unused,
       Typed,
       TypeOK, Ids, ManagerAssumption
<1>1. CASE UNCHANGED <<records, binding, key, event_sender, events, pc, mine, at>>
  BY <1>0, <1>1 DEF Reserving
<1>2. ASSUME NEW c \in Callers, start(c) PROVE Kept
  BY <1>0, <1>2 DEF Reserving, start, Begin, conns, Goto, Row
<1>3. ASSUME NEW c \in Callers, NEW r \in Sessions, reattach(c, r) PROVE Kept
  BY <1>0, <1>3 DEF Reserving, reattach, Begin, conns, Goto, Row, CanReserve
<1>4. ASSUME NEW c \in Callers, NEW r \in Sessions, detach(c, r) PROVE Kept
  BY <1>0, <1>4 DEF Reserving, detach, maps, conns, Goto, Row
<1>5. ASSUME NEW c \in Callers, Connect(c) PROVE Kept
  BY <1>0, <1>5 DEF Reserving, Connect, Goto, Row, Starting
<1>6. ASSUME NEW c \in Callers, CannotConnect(c) PROVE Kept
  BY <1>0, <1>6 DEF Reserving, CannotConnect, Return, Goto, FailReattach, Row, Published,
       RecordsAfterFailure, Starting
<1>7. ASSUME NEW c \in Callers, Handshake(c) PROVE Kept
  BY <1>0, <1>7 DEF Reserving, Handshake, maps, conns, Goto, Row
<1>8. ASSUME NEW c \in Callers, HandshakeFails(c) PROVE Kept
  BY <1>0, <1>8 DEF Reserving, HandshakeFails, Return, Goto, FailReattach, Row, Published,
       RecordsAfterFailure, Starting
<1>9. ASSUME NEW c \in Callers, HandshakeTooLate(c) PROVE Kept
  BY <1>0, <1>9 DEF Reserving, HandshakeTooLate, maps, CloseUnlessShuttingDown, Return, Goto, Row,
       Starting
<1>10. ASSUME NEW c \in Callers, Listen(c) PROVE Kept
  BY <1>0, <1>10 DEF Reserving, Listen, maps, Goto, Row, Starting, Unheard
<1>11. ASSUME NEW c \in Callers, StartNotWritten(c) PROVE Kept
  BY <1>0, <1>11 DEF Reserving, StartNotWritten, Return, Goto, Row, Starting
<1>12. ASSUME NEW c \in Callers, HearStarted(c) PROVE Kept
  BY <1>0, <1>12 DEF Reserving, HearStarted, maps, conns, Goto, Row, Hears, HearsOtherThan
<1>13. ASSUME NEW c \in Callers, HearStartFailed(c) PROVE Kept
  BY <1>0, <1>13 DEF Reserving, HearStartFailed, Return, Goto, Row, Hears, HearsOtherThan
<1>14. ASSUME NEW c \in Callers, confirm_pending(c) PROVE Kept
  BY <1>0, <1>14 DEF Reserving, confirm_pending, maps, Goto, Row
<1>15. ASSUME NEW c \in Callers, ConfirmFails(c) PROVE Kept
  BY <1>0, <1>15 DEF Reserving, ConfirmFails, maps, conns, Goto, Row
<1>16. ASSUME NEW c \in Callers, publish_pending(c) PROVE Kept
  BY <1>0, <1>16 DEF Reserving, publish_pending, Return, Goto, Row, OwnsPending
<1>17. ASSUME NEW c \in Callers, StartLeftToOthers(c) PROVE Kept
  BY <1>0, <1>17 DEF Reserving, StartLeftToOthers, maps, Return, Goto, Row
<1>18. ASSUME NEW c \in Callers, StartNotPublished(c) PROVE Kept
  BY <1>0, <1>18 DEF Reserving, StartNotPublished, maps, conns, Goto, Row
<1>19. ASSUME NEW c \in Callers, discard_pending(c) PROVE Kept
  BY <1>0, <1>19 DEF Reserving, discard_pending, Return, Goto, Discard, Row, Absent
<1>20. ASSUME NEW c \in Callers, TakeEventSlot(c) PROVE Kept
  BY <1>0, <1>20 DEF Reserving, TakeEventSlot, maps, Goto, Row
<1>21. ASSUME NEW c \in Callers, DetachTooLate(c) PROVE Kept
  BY <1>0, <1>21 DEF Reserving, DetachTooLate, maps, Return, Goto, Row
<1>22. ASSUME NEW c \in Callers, WriteDetach(c) PROVE Kept
  BY <1>0, <1>22 DEF Reserving, WriteDetach, maps, Goto, Row
<1>23. ASSUME NEW c \in Callers, DetachNotWritten(c) PROVE Kept
  BY <1>0, <1>23 DEF Reserving, DetachNotWritten, maps, conns, Goto, Row
<1>24. ASSUME NEW c \in Callers, HearDetached(c) PROVE Kept
  BY <1>0, <1>24 DEF Reserving, HearDetached, maps, CloseUnlessShuttingDown, Return, Goto, Row,
       Hears, HearsOtherThan
<1>25. ASSUME NEW c \in Callers, WriteAttach(c) PROVE Kept
  BY <1>0, <1>25 DEF Reserving, WriteAttach, maps, Goto, Row
<1>26. ASSUME NEW c \in Callers, AttachNotWritten(c) PROVE Kept
  BY <1>0, <1>26 DEF Reserving, AttachNotWritten, maps, conns, Goto, Row
<1>27. ASSUME NEW c \in Callers, WriteFailed(c) PROVE Kept
  BY <1>0, <1>27 DEF Reserving, WriteFailed, maps, CloseUnlessShuttingDown, Return, Goto, Row
<1>28. ASSUME NEW c \in Callers, LoseTransport(c) PROVE Kept
  <2>1. mine[c] \in Transports /\ UNCHANGED <<mine, at, key, event_sender>>
    BY <1>0, <1>28 DEF LoseTransport
  <2>2. CASE c = d
    BY <1>0, <1>28, <2>1, <2>2 DEF Reserving, LoseTransport, handle_transport_loss,
       RecordsAfterLoss, RowAfterLoss, Tombstone, PublishUnreachable,
         FailReattach, MarkUnreachable, Published, Row
  <2>3. CASE c # d
    <3>1. records'[s].transition = records[s].transition
      BY <1>0, <1>28, <2>1, <2>3 DEF LoseTransport, handle_transport_loss, RecordsAfterLoss,
         RowAfterLoss, Tombstone, PublishUnreachable,
         FailReattach, MarkUnreachable, Published, Row
    <3>2. events'[d] = events[d] \/ event_sender[mine[c]] = d
      BY <1>0, <1>28, <2>1, EmittedAt DEF LoseTransport, Events
    <3>3. pc'[d] = pc[d] /\ binding'[mine[d]] = binding[mine[d]]
      BY <1>0, <1>28, <2>3 DEF LoseTransport, handle_transport_loss, Goto
    <3>. QED
      BY <1>0, <2>1, <2>3, <3>1, <3>2, <3>3 DEF Reserving
  <2>. QED
    BY <2>2, <2>3
<1>29. ASSUME NEW c \in Callers, CloseMine(c) PROVE Kept
  BY <1>0, <1>29 DEF Reserving, CloseMine, Return, Goto, Row
<1>30. ASSUME NEW c \in Callers, HearAttached(c) PROVE Kept
  BY <1>0, <1>30 DEF Reserving, HearAttached, maps, Return, Goto, Row, Hears, HearsOtherThan
<1>31. ASSUME NEW c \in Callers, HearAttachFailed(c) PROVE Kept
  BY <1>0, <1>31 DEF Reserving, HearAttachFailed, maps, CloseUnlessShuttingDown, Return, Goto,
       Row, Hears, HearsOtherThan
<1>32. ASSUME NEW u \in Transports, ReadStarted(u) PROVE Kept
  <2>1. /\ UNCHANGED <<calls, event_sender>> /\ reader[u] = "running"
        /\ \A t \in Transports : t # u => key'[t] = key[t] /\ binding'[t] = binding[t]
        /\ events'[d] = events[d] \/ event_sender[u] = d
    BY <1>0, <1>32, EmittedAt DEF ReadStarted, ReadsLast, Reads, Events
  <2>2. CASE mine[d] = u
    <3>1. pc[d] # "connect"
      BY <1>0, <2>1, <2>2 DEF Unused
    <3>. QED
      BY <1>0, <1>32, <2>2, <3>1 DEF Reserving, ReadStarted, Reads
  <2>3. CASE mine[d] # u
    <3>1. records'[s].transition = records[s].transition
      <4>1. records[s] # Absent
        BY <1>0 DEF Published, Absent, Row
      <4>. QED
        BY <1>0, <1>32, <4>1 DEF ReadStarted, MayInsert
    <3>. QED
      BY <1>0, <2>1, <2>3, <3>1 DEF Reserving, calls
  <2>. QED
    BY <2>2, <2>3
<1>33. ASSUME NEW u \in Transports, ReadPendingOver(u) PROVE Kept
  <2>1. /\ UNCHANGED <<calls, event_sender>> /\ reader[u] = "running"
        /\ \A t \in Transports : t # u => key'[t] = key[t] /\ binding'[t] = binding[t]
        /\ events'[d] = events[d] \/ event_sender[u] = d
    BY <1>0, <1>33, EmittedAt DEF ReadPendingOver, ReadsLast, Reads, Events
  <2>2. CASE mine[d] = u
    <3>1. pc[d] # "connect"
      BY <1>0, <2>1, <2>2 DEF Unused
    <3>. QED
      BY <1>0, <1>33, <2>2, <3>1 DEF Reserving, ReadPendingOver, Reads
  <2>3. CASE mine[d] # u
    <3>1. records'[s].transition = records[s].transition
      BY <1>0, <1>33, <2>3 DEF ReadPendingOver, Changes, Tombstone, Published
    <3>. QED
      BY <1>0, <2>1, <2>3, <3>1 DEF Reserving, calls
  <2>. QED
    BY <2>2, <2>3
<1>34. ASSUME NEW u \in Transports, ReadOver(u) PROVE Kept
  <2>1. /\ UNCHANGED <<calls, event_sender>> /\ reader[u] = "running"
        /\ \A t \in Transports : t # u => key'[t] = key[t] /\ binding'[t] = binding[t]
        /\ events'[d] = events[d] \/ event_sender[u] = d
    BY <1>0, <1>34, EmittedAt DEF ReadOver, ReadsLast, Reads, Events
  <2>2. CASE mine[d] = u
    <3>1. pc[d] # "connect"
      BY <1>0, <2>1, <2>2 DEF Unused
    <3>. QED
      BY <1>0, <1>34, <2>2, <3>1 DEF Reserving, ReadOver, Reads, Changes, Remove, Published,
         Absent, Row
  <2>3. CASE mine[d] # u
    <3>1. records'[s].transition = records[s].transition
      BY <1>0, <1>34, <2>3 DEF ReadOver, Changes, Remove, Published
    <3>. QED
      BY <1>0, <2>1, <2>3, <3>1 DEF Reserving, calls
  <2>. QED
    BY <2>2, <2>3
<1>35. ASSUME NEW u \in Transports, ReadAttached(u) PROVE Kept
  <2>1. /\ UNCHANGED <<calls, event_sender>> /\ reader[u] = "running"
        /\ \A t \in Transports : t # u => key'[t] = key[t] /\ binding'[t] = binding[t]
        /\ events'[d] = events[d] \/ event_sender[u] = d
    BY <1>0, <1>35, EmittedAt DEF ReadAttached, ReadsLast, Reads, Events
  <2>2. CASE mine[d] = u
    <3>1. pc[d] # "connect"
      BY <1>0, <2>1, <2>2 DEF Unused
    <3>. QED
      BY <1>0, <1>35, <2>2, <3>1 DEF Reserving, ReadAttached, Reads, Changes, CanComplete,
         Published, Row
  <2>3. CASE mine[d] # u
    <3>1. records'[s].transition = records[s].transition
      BY <1>0, <1>35, <2>3 DEF ReadAttached, Changes, CanComplete, Published
    <3>. QED
      BY <1>0, <2>1, <2>3, <3>1 DEF Reserving, calls
  <2>. QED
    BY <2>2, <2>3
<1>36. ASSUME NEW u \in Transports, ReadDetached(u) PROVE Kept
  <2>1. /\ UNCHANGED <<calls, event_sender>> /\ reader[u] = "running"
        /\ \A t \in Transports : t # u => key'[t] = key[t] /\ binding'[t] = binding[t]
        /\ events'[d] = events[d] \/ event_sender[u] = d
    BY <1>0, <1>36, EmittedAt DEF ReadDetached, ReadsLast, Reads, Events
  <2>2. CASE mine[d] = u
    <3>1. pc[d] # "connect"
      BY <1>0, <2>1, <2>2 DEF Unused
    <3>. QED
      BY <1>0, <1>36, <2>2, <3>1 DEF Reserving, ReadDetached, Reads
  <2>3. CASE mine[d] # u
    <3>1. records'[s].transition = records[s].transition
      BY <1>0, <1>36, <2>3 DEF ReadDetached, Changes, CanMarkDetached
    <3>. QED
      BY <1>0, <2>1, <2>3, <3>1 DEF Reserving, calls
  <2>. QED
    BY <2>2, <2>3
<1>37. ASSUME NEW u \in Transports, ReadStopped(u) PROVE Kept
  <2>1. /\ UNCHANGED <<calls, event_sender>> /\ reader[u] = "running"
        /\ \A t \in Transports : t # u => key'[t] = key[t] /\ binding'[t] = binding[t]
        /\ events'[d] = events[d] \/ event_sender[u] = d
    BY <1>0, <1>37, EmittedAt DEF ReadStopped, ReadsLast, Reads, Events
  <2>2. CASE mine[d] = u
    <3>1. pc[d] # "connect"
      BY <1>0, <2>1, <2>2 DEF Unused
    <3>. QED
      BY <1>0, <1>37, <2>2, <3>1 DEF Reserving, ReadStopped, Reads
  <2>3. CASE mine[d] # u
    <3>1. records'[s].transition = records[s].transition
      BY <1>0, <1>37, <2>3 DEF ReadStopped, Reads
    <3>. QED
      BY <1>0, <2>1, <2>3, <3>1 DEF Reserving, calls
  <2>. QED
    BY <2>2, <2>3
<1>38. ASSUME NEW u \in Transports, ReadUnexpected(u) PROVE Kept
  <2>1. /\ UNCHANGED <<calls, event_sender>> /\ reader[u] = "running"
        /\ \A t \in Transports : t # u => key'[t] = key[t] /\ binding'[t] = binding[t]
        /\ events'[d] = events[d] \/ event_sender[u] = d
    BY <1>0, <1>38, EmittedAt DEF ReadUnexpected, ReadsLast, Reads, Events
  <2>2. CASE mine[d] = u
    <3>1. pc[d] # "connect"
      BY <1>0, <2>1, <2>2 DEF Unused
    <3>. QED
      BY <1>0, <1>38, <2>2, <3>1 DEF Reserving, ReadUnexpected, RecordsAfterLoss, RowAfterLoss,
         Tombstone, PublishUnreachable,
         FailReattach, MarkUnreachable, Published, Row
  <2>3. CASE mine[d] # u
    <3>1. records'[s].transition = records[s].transition
      BY <1>0, <1>38, <2>3 DEF ReadUnexpected, RecordsAfterLoss, RowAfterLoss, Tombstone,
         PublishUnreachable,
         FailReattach, MarkUnreachable, Published, Row
    <3>. QED
      BY <1>0, <2>1, <2>3, <3>1 DEF Reserving, calls
  <2>. QED
    BY <2>2, <2>3
<1>39. ASSUME NEW u \in Transports, ReadEnd(u) PROVE Kept
  <2>1. /\ UNCHANGED <<calls, event_sender>> /\ reader[u] = "running"
        /\ \A t \in Transports : t # u => key'[t] = key[t] /\ binding'[t] = binding[t]
        /\ events'[d] = events[d] \/ event_sender[u] = d
    BY <1>0, <1>39, EmittedAt DEF ReadEnd, ReadsLast, Reads, Events
  <2>2. CASE mine[d] = u
    <3>1. pc[d] # "connect"
      BY <1>0, <2>1, <2>2 DEF Unused
    <3>. QED
      BY <1>0, <1>39, <2>2, <3>1 DEF Reserving, ReadEnd, RecordsAfterLoss, RowAfterLoss,
         Tombstone, PublishUnreachable,
         FailReattach, MarkUnreachable, Published, Row
  <2>3. CASE mine[d] # u
    <3>1. records'[s].transition = records[s].transition
      BY <1>0, <1>39, <2>3 DEF ReadEnd, RecordsAfterLoss, RowAfterLoss, Tombstone,
         PublishUnreachable,
         FailReattach, MarkUnreachable, Published, Row
    <3>. QED
      BY <1>0, <2>1, <2>3, <3>1 DEF Reserving, calls
  <2>. QED
    BY <2>2, <2>3
<1>. QED
  <2>1. CASE records' # records
    BY <2>1, <1>3, <1>6, <1>8, <1>16, <1>19, <1>28, <1>32, <1>33, <1>34, <1>35, <1>36, <1>38,
         <1>39, RowMovers, NotYet DEF MainStep, WorkerStep, BeginShutdown
  <2>2. CASE binding' # binding
    BY <2>2, <1>5, <1>14, <1>16, <1>19, <1>22, <1>25, <1>28, <1>32, <1>33, <1>34, <1>35, <1>36,
         <1>37, <1>38, <1>39, BindingMovers, NotYet DEF MainStep, WorkerStep, BeginShutdown
  <2>3. CASE key' # key
    BY <2>3, <1>5, <1>32, KeyMovers, NotYet DEF MainStep, WorkerStep, BeginShutdown
  <2>4. CASE event_sender' # event_sender
    BY <2>4, <1>6, <1>8, <1>9, <1>10, <1>11, <1>13, <1>16, <1>17, <1>19, <1>20, <1>21, <1>24,
         <1>27, <1>29, <1>30, <1>31, SenderMovers, NotYet DEF MainStep, WorkerStep, BeginShutdown
  <2>5. CASE events' # events
    BY <2>5, <1>6, <1>8, <1>9, <1>11, <1>12, <1>13, <1>16, <1>17, <1>19, <1>21, <1>24, <1>27,
         <1>28, <1>29, <1>30, <1>31, <1>32, <1>33, <1>34, <1>35, <1>36, <1>37, <1>38, <1>39,
         EventMovers, NotYet DEF MainStep, WorkerStep, BeginShutdown
  <2>6. CASE calls' # calls
    BY <2>6, <1>2, <1>3, <1>4, <1>5, <1>6, <1>7, <1>8, <1>9, <1>10, <1>11, <1>12, <1>13, <1>14,
         <1>15, <1>16, <1>17, <1>18, <1>19, <1>20, <1>21, <1>22, <1>23, <1>24, <1>25, <1>26,
         <1>27, <1>28, <1>29, <1>30, <1>31, CallMovers, NotYet DEF MainStep, WorkerStep,
         BeginShutdown
  <2>7. CASE UNCHANGED <<records, binding, key, event_sender, events, calls>>
    BY <1>1, <2>7 DEF calls
  <2>. QED
    BY <2>1, <2>2, <2>3, <2>4, <2>5, <2>6, <2>7

(* Only a reattach reserves a row.                                         *)
LEMMA ReservationMade ==
    ASSUME ManagerAssumption, Typed, SettledBeforeShutdown, Next, ~shutting_down',
           NEW s \in Sessions, records[s].transition = None, records'[s].transition # None
    PROVE  \E d \in Callers : reattach(d, s)
<1>0. /\ s \in Sessions /\ records \in [Sessions -> Rows]
      /\ records[s].transition = None /\ records'[s].transition # None
  BY DEF Typed, TypeOK
<1>1. CASE UNCHANGED <<records>>
  BY <1>0, <1>1
<1>2. ASSUME NEW c \in Callers, NEW r \in Sessions, reattach(c, r)
      PROVE  \E d \in Callers : reattach(d, s)
  BY <1>0, <1>2 DEF reattach, Row, CanReserve
<1>3. ASSUME NEW c \in Callers, CannotConnect(c) PROVE \E d \in Callers : reattach(d, s)
  BY <1>0, <1>3 DEF CannotConnect, FailReattach, Row, Published, RecordsAfterFailure, Starting
<1>4. ASSUME NEW c \in Callers, HandshakeFails(c) PROVE \E d \in Callers : reattach(d, s)
  BY <1>0, <1>4 DEF HandshakeFails, FailReattach, Row, Published, RecordsAfterFailure, Starting
<1>5. ASSUME NEW c \in Callers, publish_pending(c) PROVE \E d \in Callers : reattach(d, s)
  BY <1>0, <1>5 DEF publish_pending, Row, OwnsPending
<1>6. ASSUME NEW c \in Callers, discard_pending(c) PROVE \E d \in Callers : reattach(d, s)
  BY <1>0, <1>6 DEF discard_pending, Discard, Row, Absent
<1>7. ASSUME NEW c \in Callers, LoseTransport(c) PROVE \E d \in Callers : reattach(d, s)
  BY <1>0, <1>7 DEF LoseTransport, handle_transport_loss, RecordsAfterLoss, RowAfterLoss,
     Tombstone, PublishUnreachable,
         FailReattach, MarkUnreachable, Published, Row
<1>8. ASSUME NEW u \in Transports, ReadStarted(u) PROVE \E d \in Callers : reattach(d, s)
  BY <1>0, <1>8 DEF ReadStarted, Row, Absent, MayInsert, Reads
<1>9. ASSUME NEW u \in Transports, ReadPendingOver(u) PROVE \E d \in Callers : reattach(d, s)
  BY <1>0, <1>9 DEF ReadPendingOver, Changes, Tombstone, Row, Reads, SessionOver
<1>10. ASSUME NEW u \in Transports, ReadOver(u) PROVE \E d \in Callers : reattach(d, s)
  BY <1>0, <1>10 DEF ReadOver, Changes, Remove, Row, Absent, Published, Reads, SessionOver
<1>11. ASSUME NEW u \in Transports, ReadAttached(u) PROVE \E d \in Callers : reattach(d, s)
  BY <1>0, <1>11 DEF ReadAttached, Changes, Row, Published, CanComplete, Reads, SessionOver
<1>12. ASSUME NEW u \in Transports, ReadDetached(u) PROVE \E d \in Callers : reattach(d, s)
  BY <1>0, <1>12 DEF ReadDetached, Changes, Row, CanMarkDetached, Reads, SessionOver
<1>13. ASSUME NEW u \in Transports, ReadUnexpected(u) PROVE \E d \in Callers : reattach(d, s)
  BY <1>0, <1>13 DEF ReadUnexpected, RecordsAfterLoss, RowAfterLoss, Tombstone, PublishUnreachable,
         FailReattach, MarkUnreachable, Published, Row
<1>14. ASSUME NEW u \in Transports, ReadEnd(u) PROVE \E d \in Callers : reattach(d, s)
  BY <1>0, <1>14 DEF ReadEnd, RecordsAfterLoss, RowAfterLoss, Tombstone, PublishUnreachable,
         FailReattach, MarkUnreachable, Published, Row
<1>. QED
  BY <1>1, <1>2, <1>3, <1>4, <1>5, <1>6, <1>7, <1>8, <1>9, <1>10, <1>11, <1>12, <1>13, <1>14,
       RowMovers, NotYet DEF MainStep, WorkerStep, BeginShutdown

(* Every reservation is that of a reattach that is under way.              *)
LEMMA ReservationsStep ==
    ASSUME ManagerAssumption, Typed, SettledBeforeShutdown, Next, ~shutting_down'
    PROVE  ReservationsAreHeld'
<1>1. SUFFICES ASSUME NEW s \in Sessions, records'[s].transition # None
               PROVE  \E c \in Callers : mine'[c] = records'[s].transition /\ Reserving(c, s)'
  BY DEF ReservationsAreHeld
<1>2. CASE records[s].transition = None
  <2>1. PICK c \in Callers : reattach(c, s)
    BY <1>1, <1>2, ReservationMade
  <2>2. /\ records \in [Sessions -> Rows] /\ pc \in [Callers -> Steps]
        /\ mine \in [Callers -> Ids] /\ at \in [Callers -> Sessions \union {NoSession}]
    BY DEF Typed, TypeOK
  <2>. QED
    BY <2>1, <2>2 DEF reattach, Begin, Goto, Reserving
<1>3. CASE records[s].transition # None
  <2>1. PICK d \in Callers : mine[d] = records[s].transition /\ Reserving(d, s)
    BY <1>3, NotYet DEF Settled, ReservationsAreHeld
  <2>. QED
    BY <1>1, <1>3, <2>1, ReservationKept
<1>. QED
  BY <1>2, <1>3

(* No worker runs before the shutdown (stop_detached_bounded).             *)
LEMMA IdleStep ==
    ASSUME Typed, SettledBeforeShutdown, Next, ~shutting_down'
    PROVE  WorkersAreIdle'
<1>1. WorkersAreIdle
  BY NotYet DEF Settled
<1>2. UNCHANGED workers
  BY NotYet, WorkerMovers DEF MainStep, WorkerStep
<1>. QED
  BY <1>1, <1>2 DEF WorkersAreIdle, workers

(* Together: until the shutdown the desktop keeps its parts in step.       *)
LEMMA SettledStep ==
    ASSUME ManagerAssumption, Typed, SettledBeforeShutdown, Next
    PROVE  SettledBeforeShutdown'
BY FreshStep, ApartStep, EventsStep, RowsBoundStep, ReservationsStep, IdleStep
   DEF SettledBeforeShutdown, Settled

(* Nothing is out of step at first.                                        *)
LEMMA InitSettled ==
    ASSUME ManagerAssumption, Init
    PROVE  SettledBeforeShutdown
<1>1. IdsAreFresh
  BY TransportIds DEF Init, IdsAreFresh, Unused, None
<1>2. CommandsKeepApart
  BY DEF Init, CommandsKeepApart
<1>3. EventsGoToTheirCaller
  BY DEF Init, EventsGoToTheirCaller, Unheard, Hears, ManagerAssumption
<1>4. RowsAreBound
  BY DEF Init, RowsAreBound, Shown, Backed, Absent, Row
<1>5. ReservationsAreHeld
  BY DEF Init, ReservationsAreHeld, Absent, Row
<1>6. WorkersAreIdle
  BY DEF Init, WorkersAreIdle
<1>. QED
  BY <1>1, <1>2, <1>3, <1>4, <1>5, <1>6 DEF SettledBeforeShutdown, Settled

(* A step that changes nothing keeps all of this.                          *)
LEMMA Stuttering ==
    ASSUME UNCHANGED vars
    PROVE  /\ NoRowAfterShutdown => NoRowAfterShutdown'
           /\ LinksAreRegistered => LinksAreRegistered'
           /\ Quiesced => Quiesced'
           /\ SettledBeforeShutdown => SettledBeforeShutdown'
<1>1. UNCHANGED <<records, shutting_down, transports, next_transport_id, binding, key,
                  event_sender, link, reader, pc, mine, at, events, main, to_quiesce, current,
                  worker, worker_id>>
  BY DEF vars, maps, conns, calls, plan, workers
<1>2. NoRowAfterShutdown => NoRowAfterShutdown'
  BY <1>1 DEF NoRowAfterShutdown
<1>3. LinksAreRegistered => LinksAreRegistered'
  BY <1>1 DEF LinksAreRegistered
<1>4. Quiesced => Quiesced'
  BY <1>1 DEF Quiesced
<1>5. \A t : Unused(t)' <=> Unused(t)
  BY <1>1 DEF Unused
<1>6. IdsAreFresh => IdsAreFresh'
  BY <1>1, <1>5 DEF IdsAreFresh
<1>7. CommandsKeepApart => CommandsKeepApart'
  BY <1>1 DEF CommandsKeepApart
<1>8. EventsGoToTheirCaller => EventsGoToTheirCaller'
  BY <1>1 DEF EventsGoToTheirCaller, Hears
<1>9. RowsAreBound => RowsAreBound'
  BY <1>1 DEF RowsAreBound, Shown, Backed
<1>10. ReservationsAreHeld => ReservationsAreHeld'
  BY <1>1 DEF ReservationsAreHeld, Reserving
<1>11. WorkersAreIdle => WorkersAreIdle'
  BY <1>1 DEF WorkersAreIdle
<1>. QED
  BY <1>1, <1>2, <1>3, <1>4, <1>6, <1>7, <1>8, <1>9, <1>10, <1>11
     DEF SettledBeforeShutdown, Settled

-----------------------------------------------------------------------------
(* What is on the wire, and whom the broker takes a connection for.        *)

(* What a sequence holds, in whatever order.                               *)
Entries(w) == {w[i] : i \in 1 .. Len(w)}

News(t) == Entries(inbox[t])

Asked(t) == Entries(outbox[t])

PleaseStart == <<"start", NoSession>>

PleaseDetach == <<"detach", NoSession>>

(* Neither the wire nor the broker knows anything of a connection.         *)
Quiet(t) == /\ News(t) = {} /\ outbox[t] = <<>>
            /\ \A s \in Sessions : holder[s] # t /\ notify[s] # t

(* The broker has, or had, a session for it.                               *)
Concerns(t, s) == \/ holder[s] = t
                  \/ notify[s] = t
                  \/ \E reply \in Replies : <<reply, s>> \in News(t)

(* A connection is silent until its command listens to it, and from then   *)
(* on it is for the session it was opened for.                             *)
Opening(c) ==
    pc[c] \in {"handshake", "listen"} =>
        /\ binding[mine[c]] \in {"AwaitingStart", "AwaitingAttach"}
        /\ reader[mine[c]] = "none"
        /\ key[mine[c]] = at[c]
        /\ Quiet(mine[c])

BeginningsAreQuiet ==
    /\ \A t \in Transports : link[t] = "none" => Quiet(t)
    /\ \A c \in Callers : Opening(c)
    /\ \A c \in Callers : pc[c] = "attach" => key[mine[c]] = at[c]
    /\ \A t \in Transports : binding[t] \in Startless => key[t] = NoSession

(* What is asked on a connection is about its session, a start is all that *)
(* is asked before there is one, and a detach is the last request.         *)
FitsIn(t, order) ==
    \/ order \in {PleaseStart, PleaseDetach}
    \/ key[t] \in Sessions /\ order \in {<<"ack", key[t]>>, <<"attach", key[t]>>}

OrdersFit ==
    \A t \in Transports :
       /\ \A order \in Asked(t) : FitsIn(t, order)
       /\ PleaseDetach \in Asked(t) => binding[t] \in {"Detaching", "Closed"}
       /\ PleaseStart \in Asked(t) => /\ outbox[t] = <<PleaseStart>>
                                      /\ key[t] = NoSession
                                      /\ \A s \in Sessions : ~Concerns(t, s)

(* A connection is for one session.                                        *)
OneSession ==
    \A t \in Transports : \A s, r \in Sessions :
       Concerns(t, s) /\ (Concerns(t, r) \/ key[t] = r) => s = r

(* What is said, or about to be said, to be over is over.                  *)
EndsAreTrue ==
    /\ \A s \in Sessions : notify[s] # None => stage[s] = "ended"
    /\ \A t \in Transports : \A news \in News(t) :
          news[1] \in SessionOver => news[2] \in Sessions /\ stage[news[2]] = "ended"

(* The start of a command is acknowledged by its last step but one.        *)
Unacknowledged ==
    \A c \in Callers :
       pc[c] \in {"handshake", "listen", "await_start", "confirm", "discard"}
          => binding[mine[c]] # "ConfirmedPending"

Sighted(s) == \/ Published(records[s])
              \/ /\ records[s].state = "pending"
                 /\ binding[records[s].transport] = "ConfirmedPending"

Acknowledged(s) == \E t \in Transports : <<"ack", s>> \in Asked(t)

AcknowledgedAreSighted ==
    \A s \in Sessions :
       stage[s] = "confirmed" \/ Acknowledged(s) => Sighted(s) \/ stage[s] = "ended"

(* The broker holds a lease for the connection, will do so when it takes   *)
(* the acknowledgement, or says that the session is over.                  *)
Leased(t, s) ==
    \/ stage[s] = "confirmed" /\ holder[s] = t
    \/ /\ stage[s] = "unconfirmed" /\ holder[s] = t
       /\ binding[t] \in {"AwaitingStart", "Pending"} \/ <<"ack", s>> \in Asked(t)
    \/ notify[s] = t
    \/ \E reply \in SessionOver : <<reply, s>> \in News(t)

(* The desktop takes the connection to be one for the session, or will do  *)
(* so when it reads what has arrived.                                      *)
Believed(t, s) ==
    \/ binding[t] = "AwaitingStart" /\ <<"started", s>> \in News(t)
    \/ /\ binding[t] \in {"AwaitingAttach", "Attaching"} /\ key[t] = s
       /\ \E r \in Sessions \union {NoSession} : <<"attached", r>> \in News(t)
    \/ binding[t] \in {"Pending", "ConfirmedPending", "Attached"} /\ key[t] = s

BeliefsAreLeases ==
    \A t \in Transports : \A s \in Sessions :
       link[t] = "up" /\ Believed(t, s) => Leased(t, s)

InStep == /\ BeginningsAreQuiet /\ OrdersFit /\ OneSession /\ EndsAreTrue
          /\ Unacknowledged /\ AcknowledgedAreSighted /\ BeliefsAreLeases

InStepBeforeShutdown == ~shutting_down => InStep

(* Entries of the sequences the wire uses.                                 *)
LEMMA EntriesTyped ==
    ASSUME NEW S, NEW w \in Seq(S)
    PROVE  /\ Entries(w) \subseteq S
           /\ w = <<>> <=> Entries(w) = {}
<1>1. w # <<>> => 1 \in 1 .. Len(w)
  BY EmptySeq, LenProperties
<1>2. \A i \in 1 .. Len(w) : w[i] \in S
  BY LenProperties
<1>3. w = <<>> => Entries(w) = {}
  BY DEF Entries
<1>. QED
  BY <1>1, <1>2, <1>3 DEF Entries

LEMMA EntriesOfTail ==
    ASSUME NEW S, NEW w \in Seq(S), w # <<>>
    PROVE  Entries(w) = {Head(w)} \union Entries(Tail(w))
<1>1. Len(w) \in Nat \ {0} /\ Tail(w) \in Seq(S) /\ Len(Tail(w)) = Len(w) - 1 /\ Head(w) = w[1]
  BY EmptySeq, LenProperties, HeadTailProperties
<1>2. \A i \in 1 .. Len(w) - 1 : Tail(w)[i] = w[i + 1]
  BY <1>1
<1>3. ASSUME NEW x \in Entries(w) PROVE x \in {Head(w)} \union Entries(Tail(w))
  <2>1. PICK i \in 1 .. Len(w) : x = w[i]
    BY <1>3 DEF Entries
  <2>2. CASE i = 1
    BY <1>1, <2>1, <2>2
  <2>3. CASE i # 1
    <3>1. i - 1 \in 1 .. Len(w) - 1 /\ w[i] = Tail(w)[i - 1]
      BY <1>1, <1>2, <2>1, <2>3
    <3>. QED
      BY <1>1, <2>1, <3>1 DEF Entries
  <2>. QED
    BY <2>2, <2>3
<1>4. ASSUME NEW x \in Entries(Tail(w)) PROVE x \in Entries(w)
  <2>1. PICK i \in 1 .. Len(w) - 1 : x = Tail(w)[i]
    BY <1>1, <1>4 DEF Entries
  <2>2. i + 1 \in 1 .. Len(w) /\ x = w[i + 1]
    BY <1>1, <1>2, <2>1
  <2>. QED
    BY <2>2 DEF Entries
<1>5. Head(w) \in Entries(w)
  BY <1>1 DEF Entries
<1>. QED
  BY <1>3, <1>4, <1>5

LEMMA EntriesOfAppend ==
    ASSUME NEW S, NEW w \in Seq(S), NEW x \in S
    PROVE  Entries(Append(w, x)) = Entries(w) \union {x}
<1>1. /\ Len(w) \in Nat /\ Len(Append(w, x)) = Len(w) + 1
      /\ \A i \in 1 .. Len(w) : Append(w, x)[i] = w[i]
      /\ Append(w, x)[Len(w) + 1] = x
  BY LenProperties, AppendProperties
<1>. QED
  BY <1>1 DEF Entries

LEMMA EntriesOfPart ==
    ASSUME NEW S, NEW w \in Seq(S), NEW n \in 0 .. Len(w)
    PROVE  Entries(SubSeq(w, 1, n)) \subseteq Entries(w)
<1>1. /\ Len(w) \in Nat /\ Len(SubSeq(w, 1, n)) = n
      /\ \A i \in 1 .. n : SubSeq(w, 1, n)[i] = w[i]
  BY LenProperties
<1>. QED
  BY <1>1 DEF Entries

(* What an answer of the broker, the loss of a companion and a message     *)
(* that is read do to what a connection has received ...                   *)
LEMMA NewsOfAnswer ==
    ASSUME NEW u \in Ids, NEW reply, NEW s, <<reply, s>> \in Answers, NEW t \in Transports,
           inbox \in [Transports -> Seq(Answers)], Replied(u, reply, s)
    PROVE  IF u = t /\ link[t] = "up" THEN News(t)' = News(t) \union {<<reply, s>>}
                                      ELSE News(t)' = News(t)
<1>1. Entries(Append(inbox[t], <<reply, s>>)) = Entries(inbox[t]) \union {<<reply, s>>}
  BY EntriesOfAppend
<1>2. inbox'[t] = IF u = t /\ link[t] = "up" THEN Append(inbox[t], <<reply, s>>) ELSE inbox[t]
  BY DEF Replied
<1>. QED
  BY <1>1, <1>2 DEF News

LEMMA NewsOfCut ==
    ASSUME NEW u \in Transports, NEW t \in Transports,
           inbox \in [Transports -> Seq(Answers)], inbox' \in Truncated(u)
    PROVE  News(t)' \subseteq News(t) /\ (t # u => News(t)' = News(t))
<1>1. PICK n \in 0 .. Len(inbox[u]) : inbox' = [inbox EXCEPT ![u] = SubSeq(@, 1, n)]
  BY DEF Truncated
<1>2. Entries(SubSeq(inbox[u], 1, n)) \subseteq Entries(inbox[u])
  BY EntriesOfPart
<1>3. inbox'[t] = IF t = u THEN SubSeq(inbox[u], 1, n) ELSE inbox[t]
  BY <1>1
<1>. QED
  BY <1>2, <1>3 DEF News

LEMMA NewsOfReap ==
    ASSUME NEW u \in Transports, NEW t \in Transports,
           link \in [Transports -> {"none", "up", "cut", "reaped"}],
           inbox \in [Transports -> Seq(Answers)], Reap(u)
    PROVE  News(t)' = News(t) \/ (link'[t] # "up" /\ News(t)' \subseteq News(t))
<1>1. CASE UNCHANGED inbox
  BY <1>1 DEF News
<1>2. CASE inbox' \in Truncated(u) /\ link' = [link EXCEPT ![u] = "reaped"]
  BY <1>2, NewsOfCut
<1>. QED
  BY <1>1, <1>2 DEF Reap

LEMMA NewsOfReading ==
    ASSUME NEW u \in Transports, NEW t \in Transports,
           inbox \in [Transports -> Seq(Answers)], inbox[u] # <<>>,
           inbox' = [inbox EXCEPT ![u] = Tail(inbox[u])]
    PROVE  /\ t = u => /\ Head(inbox[t]) \in Answers
                       /\ News(t) = {Head(inbox[t])} \union News(t)'
           /\ t # u => News(t)' = News(t)
<1>1. Entries(inbox[u]) = {Head(inbox[u])} \union Entries(Tail(inbox[u]))
  BY EntriesOfTail
<1>2. inbox'[t] = IF t = u THEN Tail(inbox[u]) ELSE inbox[t]
  OBVIOUS
<1>3. Head(inbox[u]) \in Answers
  BY HeadTailProperties
<1>. QED
  BY <1>1, <1>2, <1>3 DEF News

(* ... and what a request does to what it has asked, when it is written    *)
(* and when the broker takes it.                                           *)
LEMMA AskedWhenWritten ==
    ASSUME NEW u \in Transports, NEW t \in Transports, NEW order \in Orders,
           outbox \in [Transports -> Seq(Orders)], Written(u, <<order>>)
    PROVE  IF u = t /\ link[t] = "up"
           THEN /\ outbox'[t] = Append(outbox[t], order)
                /\ Asked(t)' = Asked(t) \union {order}
           ELSE outbox'[t] = outbox[t]
<1>1. outbox[u] \o <<order>> = Append(outbox[u], order)
  OBVIOUS
<1>2. Entries(Append(outbox[t], order)) = Entries(outbox[t]) \union {order}
  BY EntriesOfAppend
<1>3. outbox'[t] = IF u = t /\ link[t] = "up" THEN Append(outbox[t], order) ELSE outbox[t]
  BY <1>1 DEF Written
<1>. QED
  BY <1>2, <1>3 DEF Asked

LEMMA AskedWhenTaken ==
    ASSUME NEW u \in Transports, NEW t \in Transports, NEW request,
           outbox \in [Transports -> Seq(Orders)], Requested(u, request)
    PROVE  /\ t = u => /\ Head(outbox[t]) \in Orders /\ Head(outbox[t])[1] = request
                       /\ outbox'[t] = Tail(outbox[t])
                       /\ Asked(t) = {Head(outbox[t])} \union Asked(t)'
           /\ t # u => outbox'[t] = outbox[t]
<1>1. outbox[u] # <<>> /\ Head(outbox[u])[1] = request
  BY DEF Requested
<1>2. Entries(outbox[u]) = {Head(outbox[u])} \union Entries(Tail(outbox[u]))
  BY <1>1, EntriesOfTail
<1>3. outbox'[t] = IF t = u THEN Tail(outbox[u]) ELSE outbox[t]
  BY DEF Requested
<1>4. Head(outbox[u]) \in Orders
  BY <1>1, HeadTailProperties
<1>. QED
  BY <1>1, <1>2, <1>3, <1>4 DEF Asked

(* What a step may do to what a connection has received: nothing; a loss   *)
(* of the connection; it is read, and closes the binding if it says that   *)
(* the session is over; or the broker answers.                             *)
Heard(t, news) == /\ news = Head(inbox[t])
                  /\ News(t) = {news} \union News(t)'
                  /\ news[1] \in SessionOver => binding'[t] = "Closed"

Answerable(t, reply, s) ==
    \/ /\ reply = "started" /\ s \in Sessions
       /\ holder[s] = t /\ holder'[s] = t /\ stage'[s] = "unconfirmed"
    \/ reply = "exited" /\ s \in Sessions /\ notify[s] = t
    \/ /\ Asked(t) # {} /\ reply \notin {"started", "exited"}
       /\ s \in {NoSession, key[t]}
       /\ reply = "not_found" => s \in Sessions /\ stage[s] = "ended"
       /\ reply = "attached" => s \in Sessions /\ stage'[s] = "confirmed" /\ holder'[s] = t

Answered(t, reply, s) == News(t)' = News(t) \union {<<reply, s>>} /\ Answerable(t, reply, s)

NewsChange(t) ==
    \/ News(t)' = News(t)
    \/ link'[t] # "up" /\ News(t)' \subseteq News(t)
    \/ \E news \in News(t) : Heard(t, news)
    \/ \E reply \in Replies, s \in Sessions \union {NoSession} : Answered(t, reply, s)

LEMMA NewsOfAnswerable ==
    ASSUME NEW u \in Ids, NEW reply, NEW s, <<reply, s>> \in Answers, NEW t \in Transports,
           inbox \in [Transports -> Seq(Answers)], Replied(u, reply, s),
           u = t => Answerable(t, reply, s)
    PROVE  NewsChange(t)
<1>1. reply \in Replies /\ s \in Sessions \union {NoSession}
  BY DEF Answers, Replies
<1>2. News(t)' = News(t) \/ (u = t /\ News(t)' = News(t) \union {<<reply, s>>})
  BY NewsOfAnswer
<1>3. CASE u = t /\ News(t)' = News(t) \union {<<reply, s>>}
  BY <1>1, <1>3 DEF NewsChange, Answered
<1>. QED
  BY <1>2, <1>3 DEF NewsChange

(* Before the shutdown nothing else happens to what a connection receives. *)
LEMMA NewsChanges ==
    ASSUME ManagerAssumption, Typed, SettledBeforeShutdown, InStepBeforeShutdown, Next,
           ~shutting_down', NEW t \in Transports
    PROVE  NewsChange(t)
<1>0. /\ inbox \in [Transports -> Seq(Answers)] /\ outbox \in [Transports -> Seq(Orders)]
      /\ binding \in [Transports -> Bindings]
      /\ link \in [Transports -> {"none", "up", "cut", "reaped"}]
      /\ stage \in [Sessions -> Lease!Stages] /\ holder \in [Sessions -> Ids]
      /\ notify \in [Sessions -> Ids]
      /\ \A c \in Callers : mine[c] \in Ids /\ (mine[c] = None <=> pc[c] = "idle")
      /\ \A order \in Asked(t) : FitsIn(t, order)
      /\ \A u \in Transports : u # None
  BY NotYet, TransportIds DEF InStepBeforeShutdown, InStep, OrdersFit, Typed, TypeOK, Lease!TypeOK, Ids
<1>1. CASE UNCHANGED <<inbox>>
  BY <1>0, <1>1 DEF NewsChange, News
<1>2. ASSUME NEW d \in Callers, HandshakeFails(d) PROVE NewsChange(t)
  <2>1. mine[d] \in Transports /\ Reap(mine[d])
    BY <1>0, <1>2 DEF HandshakeFails, finish_transport, Ids
  <2>. QED
    BY <1>0, <2>1, NewsOfReap DEF NewsChange
<1>3. ASSUME NEW d \in Callers, StartNotWritten(d) PROVE NewsChange(t)
  <2>1. mine[d] \in Transports /\ Reap(mine[d])
    BY <1>0, <1>3 DEF StartNotWritten, finish_transport, Ids
  <2>. QED
    BY <1>0, <2>1, NewsOfReap DEF NewsChange
<1>4. ASSUME NEW d \in Callers, HearStartFailed(d) PROVE NewsChange(t)
  <2>1. mine[d] \in Transports /\ Reap(mine[d])
    BY <1>0, <1>4 DEF HearStartFailed, finish_transport, Ids
  <2>. QED
    BY <1>0, <2>1, NewsOfReap DEF NewsChange
<1>5. ASSUME NEW d \in Callers, discard_pending(d) PROVE NewsChange(t)
  <2>1. mine[d] \in Transports /\ Reap(mine[d])
    BY <1>0, <1>5 DEF discard_pending, finish_transport, Ids
  <2>. QED
    BY <1>0, <2>1, NewsOfReap DEF NewsChange
<1>6. ASSUME NEW d \in Callers, CloseMine(d) PROVE NewsChange(t)
  <2>1. mine[d] \in Transports /\ Reap(mine[d])
    BY <1>0, <1>6 DEF CloseMine, finish_transport, Ids
  <2>. QED
    BY <1>0, <2>1, NewsOfReap DEF NewsChange
<1>7. ASSUME NEW u \in Transports, ReadStarted(u) PROVE NewsChange(t)
  <2>1. inbox[u] # <<>> /\ inbox' = [inbox EXCEPT ![u] = Tail(inbox[u])]
    BY <1>7 DEF ReadStarted, Reads
  <2>2. t = u /\ Head(inbox[t])[1] \in SessionOver => binding'[t] = "Closed"
    BY <1>0, <1>7 DEF ReadStarted, Reads, ReadsLast, SessionOver
  <2>. QED
    BY <1>0, <2>1, <2>2, NewsOfReading DEF NewsChange, Heard
<1>8. ASSUME NEW u \in Transports, ReadPendingOver(u) PROVE NewsChange(t)
  <2>1. inbox[u] # <<>> /\ inbox' = [inbox EXCEPT ![u] = Tail(inbox[u])]
    BY <1>8 DEF ReadPendingOver, Reads
  <2>2. t = u /\ Head(inbox[t])[1] \in SessionOver => binding'[t] = "Closed"
    BY <1>0, <1>8 DEF ReadPendingOver, Reads, ReadsLast, SessionOver
  <2>. QED
    BY <1>0, <2>1, <2>2, NewsOfReading DEF NewsChange, Heard
<1>9. ASSUME NEW u \in Transports, ReadOver(u) PROVE NewsChange(t)
  <2>1. inbox[u] # <<>> /\ inbox' = [inbox EXCEPT ![u] = Tail(inbox[u])]
    BY <1>9 DEF ReadOver, Reads
  <2>2. t = u /\ Head(inbox[t])[1] \in SessionOver => binding'[t] = "Closed"
    BY <1>0, <1>9 DEF ReadOver, Reads, ReadsLast, SessionOver
  <2>. QED
    BY <1>0, <2>1, <2>2, NewsOfReading DEF NewsChange, Heard
<1>10. ASSUME NEW u \in Transports, ReadAttached(u) PROVE NewsChange(t)
  <2>1. inbox[u] # <<>> /\ inbox' = [inbox EXCEPT ![u] = Tail(inbox[u])]
    BY <1>10 DEF ReadAttached, Reads
  <2>2. t = u /\ Head(inbox[t])[1] \in SessionOver => binding'[t] = "Closed"
    BY <1>0, <1>10 DEF ReadAttached, Reads, ReadsLast, SessionOver
  <2>. QED
    BY <1>0, <2>1, <2>2, NewsOfReading DEF NewsChange, Heard
<1>11. ASSUME NEW u \in Transports, ReadDetached(u) PROVE NewsChange(t)
  <2>1. inbox[u] # <<>> /\ inbox' = [inbox EXCEPT ![u] = Tail(inbox[u])]
    BY <1>11 DEF ReadDetached, Reads
  <2>2. t = u /\ Head(inbox[t])[1] \in SessionOver => binding'[t] = "Closed"
    BY <1>0, <1>11 DEF ReadDetached, Reads, ReadsLast, SessionOver
  <2>. QED
    BY <1>0, <2>1, <2>2, NewsOfReading DEF NewsChange, Heard
<1>12. ASSUME NEW u \in Transports, ReadWhileStopping(u) PROVE NewsChange(t)
  <2>1. inbox[u] # <<>> /\ inbox' = [inbox EXCEPT ![u] = Tail(inbox[u])]
    BY <1>12 DEF ReadWhileStopping, Reads
  <2>2. t = u /\ Head(inbox[t])[1] \in SessionOver => binding'[t] = "Closed"
    BY <1>0, <1>12 DEF ReadWhileStopping, Reads, ReadsLast, SessionOver
  <2>. QED
    BY <1>0, <2>1, <2>2, NewsOfReading DEF NewsChange, Heard
<1>13. ASSUME NEW u \in Transports, ReadStopped(u) PROVE NewsChange(t)
  <2>1. inbox[u] # <<>> /\ inbox' = [inbox EXCEPT ![u] = Tail(inbox[u])]
    BY <1>13 DEF ReadStopped, Reads
  <2>2. t = u /\ Head(inbox[t])[1] \in SessionOver => binding'[t] = "Closed"
    BY <1>0, <1>13 DEF ReadStopped, Reads, ReadsLast, SessionOver
  <2>. QED
    BY <1>0, <2>1, <2>2, NewsOfReading DEF NewsChange, Heard
<1>14. ASSUME NEW u \in Transports, ReadUnexpected(u) PROVE NewsChange(t)
  <2>1. inbox[u] # <<>> /\ inbox' = [inbox EXCEPT ![u] = Tail(inbox[u])]
    BY <1>14 DEF ReadUnexpected, Reads
  <2>2. t = u /\ Head(inbox[t])[1] \in SessionOver => binding'[t] = "Closed"
    BY <1>0, <1>14 DEF ReadUnexpected, Reads, ReadsLast, SessionOver
  <2>. QED
    BY <1>0, <2>1, <2>2, NewsOfReading DEF NewsChange, Heard
<1>15. ASSUME NEW u \in Transports, FinishReader(u) PROVE NewsChange(t)
  <2>1. t = u => inbox'[t] = <<>> /\ link'[t] = "reaped"
    BY <1>0, <1>15 DEF FinishReader
  <2>2. t # u => inbox'[t] = inbox[t]
    BY <1>0, <1>15 DEF FinishReader
  <2>3. Entries(<<>>) = {}
    BY DEF Entries
  <2>. QED
    BY <2>1, <2>2, <2>3 DEF NewsChange, News
<1>16. ASSUME NEW u \in Transports, BrokerStarts(u) PROVE NewsChange(t)
  <2>1. Requested(u, "start")
    BY <1>16 DEF BrokerStarts
  <2>. DEFINE order == Head(outbox[t])
  <2>2. t = u => order \in Asked(t) /\ order \in Orders /\ order[1] = "start" /\ FitsIn(t, order)
    BY <1>0, <2>1, AskedWhenTaken
  <2>3. UNCHANGED inbox \/ Replied(u, "rejected", NoSession)
    BY <1>16 DEF BrokerStarts
  <2>4. <<"rejected", NoSession>> \in Answers /\ u \in Ids
    BY DEF Answers, Replies, Ids
  <2>5. CASE Replied(u, "rejected", NoSession)
    BY <1>0, <2>2, <2>4, <2>5, NewsOfAnswerable DEF Answerable
  <2>6. CASE UNCHANGED inbox
    BY <2>6 DEF NewsChange, News
  <2>. QED
    BY <2>3, <2>5, <2>6
<1>17. ASSUME NEW u \in Transports, BrokerDelivers(u) PROVE NewsChange(t)
  <2>1. PICK s \in Sessions : Lease!Deliver(s, u) /\ Replied(u, "started", s)
    BY <1>17 DEF BrokerDelivers
  <2>2. holder[s] = u /\ holder'[s] = u /\ stage'[s] = "unconfirmed"
    BY <1>0, <2>1 DEF Lease!Deliver, Lease!Move
  <2>3. <<"started", s>> \in Answers /\ u \in Ids
    BY DEF Answers, Ids
  <2>. QED
    BY <1>0, <2>1, <2>2, <2>3, NewsOfAnswerable DEF Answerable
<1>18. ASSUME NEW u \in Transports, BrokerConfirms(u) PROVE NewsChange(t)
  <2>1. Requested(u, "ack")
    BY <1>18 DEF BrokerConfirms
  <2>. DEFINE order == Head(outbox[t])
  <2>2. t = u => order \in Asked(t) /\ order \in Orders /\ order[1] = "ack" /\ FitsIn(t, order)
    BY <1>0, <2>1, AskedWhenTaken
  <2>3. CASE UNCHANGED inbox
    BY <2>3 DEF NewsChange, News
  <2>4. CASE stage[Head(outbox[u])[2]] = "ended" /\ Replied(u, "not_found", Head(outbox[u])[2])
    <3>1. CASE t # u
      <4>1. News(t)' = News(t)
        BY <1>0, <2>4, <3>1 DEF Replied, News
      <4>. QED
        BY <4>1 DEF NewsChange
    <3>2. CASE t = u
      <4>1. order[2] = key[t] /\ key[t] \in Sessions
        BY <2>2, <3>2 DEF FitsIn, PleaseStart, PleaseDetach
      <4>2. <<"not_found", key[t]>> \in Answers /\ u \in Ids
        BY <4>1 DEF Answers, Replies, Ids
      <4>. QED
        BY <1>0, <2>2, <2>4, <3>2, <4>1, <4>2, NewsOfAnswerable DEF Answerable
    <3>. QED
      BY <3>1, <3>2
  <2>. QED
    BY <1>18, <2>3, <2>4 DEF BrokerConfirms
<1>19. ASSUME NEW u \in Transports, BrokerAttaches(u) PROVE NewsChange(t)
  <2>1. Requested(u, "attach")
    BY <1>19 DEF BrokerAttaches
  <2>. DEFINE order == Head(outbox[t])
  <2>2. t = u => order \in Asked(t) /\ order \in Orders /\ order[1] = "attach" /\ FitsIn(t, order)
    BY <1>0, <2>1, AskedWhenTaken
  <2>3. CASE t # u
    <3>1. inbox'[t] = inbox[t]
      BY <1>0, <1>19, <2>3 DEF BrokerAttaches, Replied
    <3>. QED
      BY <3>1 DEF NewsChange, News
  <2>4. CASE t = u
    <3>1. order[2] = key[t] /\ key[t] \in Sessions
      BY <2>2, <2>4 DEF FitsIn, PleaseStart, PleaseDetach
    <3>2. \A reply \in {"attached", "not_found", "rejected"} : <<reply, key[t]>> \in Answers
      BY <3>1 DEF Answers, Replies
    <3>3. PICK reply \in {"attached", "not_found", "rejected"} :
             /\ Replied(t, reply, key[t])
             /\ reply = "not_found" => stage[key[t]] = "ended"
             /\ reply = "attached" => stage'[key[t]] = "confirmed" /\ holder'[key[t]] = t
      BY <1>0, <1>19, <2>4, <3>1 DEF BrokerAttaches, Lease!Take
    <3>. QED
      BY <1>0, <2>2, <2>4, <3>1, <3>2, <3>3, NewsOfAnswerable DEF Answerable, Ids
  <2>. QED
    BY <2>3, <2>4
<1>20. ASSUME NEW u \in Transports, BrokerDetaches(u) PROVE NewsChange(t)
  <2>1. Requested(u, "detach")
    BY <1>20 DEF BrokerDetaches
  <2>. DEFINE order == Head(outbox[t])
  <2>2. t = u => order \in Asked(t) /\ order \in Orders /\ order[1] = "detach" /\ FitsIn(t, order)
    BY <1>0, <2>1, AskedWhenTaken
  <2>3. Replied(u, "detached", NoSession)
    BY <1>20 DEF BrokerDetaches
  <2>4. <<"detached", NoSession>> \in Answers /\ u \in Ids
    BY DEF Answers, Replies, Ids
  <2>. QED
    BY <1>0, <2>2, <2>3, <2>4, NewsOfAnswerable DEF Answerable
<1>21. ASSUME NEW u \in Transports, BrokerStops(u) PROVE NewsChange(t)
  <2>1. Requested(u, "stop")
    BY <1>21 DEF BrokerStops
  <2>. DEFINE order == Head(outbox[t])
  <2>2. t = u => order \in Asked(t) /\ order \in Orders /\ order[1] = "stop" /\ FitsIn(t, order)
    BY <1>0, <2>1, AskedWhenTaken
  <2>3. t # u
    BY <2>2 DEF FitsIn, PleaseStart, PleaseDetach
  <2>4. inbox'[t] = inbox[t]
    BY <1>0, <1>21, <2>3 DEF BrokerStops, Replied
  <2>. QED
    BY <2>4 DEF NewsChange, News
<1>22. ASSUME NEW u \in Transports, ConnectionCut(u) PROVE NewsChange(t)
  <2>1. inbox' \in Truncated(u) /\ (t = u => link'[t] = "cut")
    BY <1>0, <1>22 DEF ConnectionCut
  <2>. QED
    BY <1>0, <2>1, NewsOfCut DEF NewsChange
<1>23. ASSUME NEW r \in Sessions, BrokerAnnounces(r) PROVE NewsChange(t)
  <2>1. Replied(notify[r], "exited", r) /\ notify[r] \in Ids
    BY <1>0, <1>23 DEF BrokerAnnounces
  <2>2. <<"exited", r>> \in Answers
    BY DEF Answers, Replies
  <2>. QED
    BY <1>0, <2>1, <2>2, NewsOfAnswerable DEF Answerable
<1>. QED
  BY <1>1, <1>2, <1>3, <1>4, <1>5, <1>6, <1>7, <1>8, <1>9, <1>10, <1>11, <1>12, <1>13, <1>14,
       <1>15, <1>16, <1>17, <1>18, <1>19, <1>20, <1>21, <1>22, <1>23, InboxMovers, NotYet DEF MainStep, WorkerStep

(* What a command asks for on its connection, and what it does with the    *)
(* binding at the same time.                                               *)
Ordered(t, c, order) ==
    /\ mine[c] = t
    /\ \/ /\ pc[c] = "listen" /\ pc'[c] = "await_start" /\ at[c] = NoSession
          /\ order = PleaseStart
       \/ /\ pc[c] = "confirm" /\ binding[t] = "Pending" /\ binding'[t] = "ConfirmedPending"
          /\ order = <<"ack", at[c]>>
       \/ /\ pc[c] = "write_detach" /\ binding[t] = "Attached" /\ binding'[t] = "Detaching"
          /\ order = PleaseDetach
       \/ /\ pc[c] = "attach" /\ binding[t] = "AwaitingAttach" /\ binding'[t] = "Attaching"
          /\ order = <<"attach", at[c]>>

(* The broker takes the first request.                                     *)
Granted(t, order) ==
    /\ outbox'[t] = Tail(outbox[t])
    /\ Asked(t) = {order} \union Asked(t)'
    /\ order[1] = "ack" => \/ stage[order[2]] = "ended"
                           \/ stage'[order[2]] = "confirmed" /\ holder'[order[2]] = t

AskedChange(t) ==
    \/ outbox'[t] = outbox[t]
    \/ \E order \in Asked(t) : Granted(t, order)
    \/ \E c \in Callers, order \in Orders : /\ link[t] = "up" /\ Ordered(t, c, order)
                                            /\ outbox'[t] = Append(outbox[t], order)
                                            /\ Asked(t)' = Asked(t) \union {order}
    \/ link[t] # "up" /\ outbox'[t] = <<>>

(* Before the shutdown nothing else happens to what is asked on a          *)
(* connection.                                                             *)
LEMMA AskedChanges ==
    ASSUME ManagerAssumption, Typed, SettledBeforeShutdown, InStepBeforeShutdown, Next,
           ~shutting_down', NEW t \in Transports
    PROVE  AskedChange(t)
<1>0. /\ outbox \in [Transports -> Seq(Orders)]
      /\ binding \in [Transports -> Bindings]
      /\ pc \in [Callers -> Steps]
      /\ at \in [Callers -> Sessions \union {NoSession}]
      /\ link \in [Transports -> {"none", "up", "cut", "reaped"}]
      /\ stage \in [Sessions -> Lease!Stages] /\ holder \in [Sessions -> Ids]
      /\ \A c \in Callers : /\ mine[c] \in Ids /\ (mine[c] = None <=> pc[c] = "idle")
                            /\ pc[c] = "attach" => at[c] \in Sessions
      /\ \A order \in Asked(t) : FitsIn(t, order)
  BY NotYet, TransportIds DEF InStepBeforeShutdown, InStep, OrdersFit, Typed, TypeOK, Lease!TypeOK, Ids
<1>1. CASE UNCHANGED <<outbox>>
  BY <1>0, <1>1 DEF AskedChange
<1>2. ASSUME NEW d \in Callers, Listen(d) PROVE AskedChange(t)
  <2>1. CASE ~Starting(d)
    BY <1>0, <1>2, <2>1 DEF Listen, AskedChange
  <2>2. CASE Starting(d)
    <3>1. mine[d] \in Transports /\ PleaseStart \in Orders /\ Written(mine[d], <<PleaseStart>>)
      BY <1>0, <1>2, <2>2 DEF Listen, Ids, Orders, Requests, PleaseStart
    <3>2. t = mine[d] => Ordered(t, d, PleaseStart)
      BY <1>0, <1>2, <2>2 DEF Listen, Ordered, Goto, Starting
    <3>. QED
      BY <1>0, <3>1, <3>2, AskedWhenWritten DEF AskedChange
  <2>. QED
    BY <2>1, <2>2
<1>3. ASSUME NEW d \in Callers, confirm_pending(d) PROVE AskedChange(t)
  <2>1. mine[d] \in Transports /\ <<"ack", at[d]>> \in Orders /\ Written(mine[d], <<<<"ack", at[d]>>>>)
    BY <1>0, <1>3 DEF confirm_pending, Ids, Orders, Requests, PleaseDetach, StartAck
  <2>2. t = mine[d] => Ordered(t, d, <<"ack", at[d]>>)
    BY <1>0, <1>3 DEF confirm_pending, Ordered
  <2>. QED
    BY <1>0, <2>1, <2>2, AskedWhenWritten DEF AskedChange
<1>4. ASSUME NEW d \in Callers, WriteDetach(d) PROVE AskedChange(t)
  <2>1. mine[d] \in Transports /\ PleaseDetach \in Orders /\ Written(mine[d], <<PleaseDetach>>)
    BY <1>0, <1>4 DEF WriteDetach, Ids, Orders, Requests, PleaseDetach
  <2>2. t = mine[d] => Ordered(t, d, PleaseDetach)
    BY <1>0, <1>4 DEF WriteDetach, Ordered
  <2>. QED
    BY <1>0, <2>1, <2>2, AskedWhenWritten DEF AskedChange
<1>5. ASSUME NEW d \in Callers, WriteAttach(d) PROVE AskedChange(t)
  <2>1. mine[d] \in Transports /\ <<"attach", at[d]>> \in Orders /\ Written(mine[d], <<<<"attach", at[d]>>>>)
    BY <1>0, <1>5 DEF WriteAttach, Ids, Orders, Requests, PleaseDetach
  <2>2. t = mine[d] => Ordered(t, d, <<"attach", at[d]>>)
    BY <1>0, <1>5 DEF WriteAttach, Ordered
  <2>. QED
    BY <1>0, <2>1, <2>2, AskedWhenWritten DEF AskedChange
<1>6. ASSUME NEW u \in Transports, BrokerStarts(u) PROVE AskedChange(t)
  <2>1. Requested(u, "start")
    BY <1>6 DEF BrokerStarts
  <2>2. t # u => outbox'[t] = outbox[t]
    BY <1>0, <2>1, AskedWhenTaken
  <2>3. ASSUME t = u PROVE \E order \in Asked(t) : Granted(t, order)
    <3>. DEFINE order == Head(outbox[t])
    <3>1. /\ outbox'[t] = Tail(outbox[t]) /\ Asked(t) = {order} \union Asked(t)'
          /\ order[1] = "start" /\ order \in Asked(t)
      BY <1>0, <2>1, <2>3, AskedWhenTaken
    <3>. QED
      BY <3>1 DEF Granted
  <2>. QED
    BY <2>2, <2>3 DEF AskedChange
<1>7. ASSUME NEW u \in Transports, BrokerConfirms(u) PROVE AskedChange(t)
  <2>1. Requested(u, "ack")
    BY <1>7 DEF BrokerConfirms
  <2>2. t # u => outbox'[t] = outbox[t]
    BY <1>0, <2>1, AskedWhenTaken
  <2>3. ASSUME t = u PROVE \E order \in Asked(t) : Granted(t, order)
    <3>. DEFINE order == Head(outbox[t])
    <3>1. /\ outbox'[t] = Tail(outbox[t]) /\ Asked(t) = {order} \union Asked(t)'
          /\ order[1] = "ack" /\ order \in Asked(t)
      BY <1>0, <2>1, <2>3, AskedWhenTaken
    <3>2. FitsIn(t, order)
      BY <1>0, <3>1
    <3>3. order[2] = key[t] /\ key[t] \in Sessions
      BY <3>1, <3>2 DEF FitsIn, PleaseStart, PleaseDetach
    <3>4. stage[key[t]] = "ended" \/ (stage'[key[t]] = "confirmed" /\ holder'[key[t]] = t)
      BY <1>0, <1>7, <2>3, <3>3 DEF BrokerConfirms, Lease!Confirm, Lease!Move
    <3>. QED
      BY <3>1, <3>3, <3>4 DEF Granted
  <2>. QED
    BY <2>2, <2>3 DEF AskedChange
<1>8. ASSUME NEW u \in Transports, BrokerAttaches(u) PROVE AskedChange(t)
  <2>1. Requested(u, "attach")
    BY <1>8 DEF BrokerAttaches
  <2>2. t # u => outbox'[t] = outbox[t]
    BY <1>0, <2>1, AskedWhenTaken
  <2>3. ASSUME t = u PROVE \E order \in Asked(t) : Granted(t, order)
    <3>. DEFINE order == Head(outbox[t])
    <3>1. /\ outbox'[t] = Tail(outbox[t]) /\ Asked(t) = {order} \union Asked(t)'
          /\ order[1] = "attach" /\ order \in Asked(t)
      BY <1>0, <2>1, <2>3, AskedWhenTaken
    <3>. QED
      BY <3>1 DEF Granted
  <2>. QED
    BY <2>2, <2>3 DEF AskedChange
<1>9. ASSUME NEW u \in Transports, BrokerDetaches(u) PROVE AskedChange(t)
  <2>1. Requested(u, "detach")
    BY <1>9 DEF BrokerDetaches
  <2>2. t # u => outbox'[t] = outbox[t]
    BY <1>0, <2>1, AskedWhenTaken
  <2>3. ASSUME t = u PROVE \E order \in Asked(t) : Granted(t, order)
    <3>. DEFINE order == Head(outbox[t])
    <3>1. /\ outbox'[t] = Tail(outbox[t]) /\ Asked(t) = {order} \union Asked(t)'
          /\ order[1] = "detach" /\ order \in Asked(t)
      BY <1>0, <2>1, <2>3, AskedWhenTaken
    <3>. QED
      BY <3>1 DEF Granted
  <2>. QED
    BY <2>2, <2>3 DEF AskedChange
<1>10. ASSUME NEW u \in Transports, BrokerStops(u) PROVE AskedChange(t)
  <2>1. Requested(u, "stop")
    BY <1>10 DEF BrokerStops
  <2>2. t # u => outbox'[t] = outbox[t]
    BY <1>0, <2>1, AskedWhenTaken
  <2>3. ASSUME t = u PROVE \E order \in Asked(t) : Granted(t, order)
    <3>. DEFINE order == Head(outbox[t])
    <3>1. /\ outbox'[t] = Tail(outbox[t]) /\ Asked(t) = {order} \union Asked(t)'
          /\ order[1] = "stop" /\ order \in Asked(t)
      BY <1>0, <2>1, <2>3, AskedWhenTaken
    <3>. QED
      BY <3>1 DEF Granted
  <2>. QED
    BY <2>2, <2>3 DEF AskedChange
<1>11. ASSUME NEW u \in Transports, BrokerNotices(u) PROVE AskedChange(t)
  BY <1>0, <1>11 DEF AskedChange, BrokerNotices
<1>. QED
  BY <1>1, <1>2, <1>3, <1>4, <1>5, <1>6, <1>7, <1>8, <1>9, <1>10, <1>11, OutboxMovers, NotYet DEF MainStep, WorkerStep

(* What may happen to a session: it is registered for a connection that    *)
(* asked for it, its start is delivered and then acknowledged, it is taken *)
(* and released, it ends, and its end is announced.                        *)
Registered(s, t) ==
    /\ stage[s] = "unborn" /\ stage'[s] = "starting" /\ holder'[s] = t
    /\ PleaseStart \in Asked(t) /\ outbox'[t] = Tail(outbox[t]) /\ UNCHANGED <<inbox, notify>>
    /\ \A r \in Sessions \ {s} : holder'[r] = holder[r]

LeaseMoves(s) ==
    \/ stage'[s] = stage[s] /\ holder'[s] = holder[s]
    \/ \E t \in Transports : Registered(s, t)
    \/ stage[s] = "starting" /\ stage'[s] = "unconfirmed" /\ holder'[s] = holder[s]
    \/ /\ stage[s] = "unconfirmed" /\ stage'[s] = "confirmed" /\ holder'[s] = holder[s]
       /\ \E t \in Transports : <<"ack", s>> \in Asked(t)
    \/ /\ stage[s] = "confirmed" /\ stage'[s] = stage[s] /\ holder[s] = None
       /\ \E t \in Transports : holder'[s] = t /\ <<"attach", s>> \in Asked(t)
    \/ /\ stage[s] = "confirmed" /\ stage'[s] = stage[s] /\ holder'[s] = None
       /\ \E t \in Transports : holder[s] = t /\ (PleaseDetach \in Asked(t) \/ link[t] # "up")

Ends(s) ==
    /\ stage[s] \notin {"unborn", "ended"} /\ stage'[s] = "ended" /\ holder'[s] = None
    /\ \/ notify'[s] = holder[s]
       \/ notify'[s] = notify[s] /\ \A t \in Transports : holder[s] = t => link[t] # "up"

Announced(s) ==
    /\ stage'[s] = stage[s] /\ holder'[s] = holder[s] /\ notify'[s] = None
    /\ \A t \in Transports : notify[s] = t /\ link[t] = "up" => <<"exited", s>> \in News(t)'

SessionChange(s) == (LeaseMoves(s) /\ notify'[s] = notify[s]) \/ Ends(s) \/ Announced(s)

(* Before the shutdown nothing else happens to a session at its broker.    *)
LEMMA SessionChanges ==
    ASSUME ManagerAssumption, Typed, SettledBeforeShutdown, InStepBeforeShutdown, Next,
           ~shutting_down', NEW s \in Sessions
    PROVE  SessionChange(s)
<1>0. /\ outbox \in [Transports -> Seq(Orders)] /\ inbox \in [Transports -> Seq(Answers)]
      /\ link \in [Transports -> {"none", "up", "cut", "reaped"}]
      /\ stage \in [Sessions -> Lease!Stages] /\ holder \in [Sessions -> Ids]
      /\ notify \in [Sessions -> Ids] /\ None \notin Transports
      /\ \A u \in Transports : \A order \in Asked(u) : FitsIn(u, order)
  BY NotYet, TransportIds DEF InStepBeforeShutdown, InStep, OrdersFit, Typed, TypeOK, Lease!TypeOK, Ids
<1>1. CASE UNCHANGED <<stage, holder, notify>>
  BY <1>0, <1>1 DEF SessionChange, LeaseMoves
<1>2. ASSUME NEW u \in Transports, BrokerStarts(u) PROVE SessionChange(s)
  <2>1. Requested(u, "start")
    BY <1>2 DEF BrokerStarts
  <2>. DEFINE order == Head(outbox[u])
  <2>2. order \in Asked(u) /\ order[1] = "start" /\ outbox'[u] = Tail(outbox[u])
    BY <1>0, <2>1, AskedWhenTaken
  <2>3. FitsIn(u, order) /\ UNCHANGED notify
    BY <1>0, <2>1, <2>2 DEF Requested
  <2>4. order = PleaseStart
    BY <2>2, <2>3 DEF FitsIn, PleaseStart, PleaseDetach
  <2>8. CASE UNCHANGED <<stage, holder>>
    BY <2>3, <2>8 DEF SessionChange, LeaseMoves
  <2>9. ASSUME NEW q \in Sessions, Lease!Register(q, u), UNCHANGED inbox PROVE SessionChange(s)
    <3>1. CASE q = s
      <4>1. Registered(s, u)
        BY <1>0, <2>2, <2>3, <2>4, <2>9, <3>1 DEF Registered, Lease!Register
      <4>. QED
        BY <2>3, <4>1 DEF SessionChange, LeaseMoves
    <3>2. CASE q # s
      BY <1>0, <2>3, <2>9, <3>2 DEF SessionChange, LeaseMoves, Lease!Register
    <3>. QED
      BY <3>1, <3>2
  <2>. QED
    BY <1>2, <2>8, <2>9 DEF BrokerStarts
<1>3. ASSUME NEW u \in Transports, BrokerDelivers(u) PROVE SessionChange(s)
  <2>1. PICK q \in Sessions : Lease!Deliver(q, u)
    BY <1>3 DEF BrokerDelivers
  <2>2. UNCHANGED notify
    BY <1>3 DEF BrokerDelivers
  <2>. QED
    BY <1>0, <2>1, <2>2 DEF SessionChange, LeaseMoves, Lease!Deliver, Lease!Move
<1>4. ASSUME NEW u \in Transports, BrokerConfirms(u) PROVE SessionChange(s)
  <2>1. Requested(u, "ack")
    BY <1>4 DEF BrokerConfirms
  <2>. DEFINE order == Head(outbox[u])
  <2>2. order \in Asked(u) /\ order[1] = "ack" /\ outbox'[u] = Tail(outbox[u])
    BY <1>0, <2>1, AskedWhenTaken
  <2>3. FitsIn(u, order) /\ UNCHANGED notify
    BY <1>0, <2>1, <2>2 DEF Requested
  <2>4. order = <<"ack", key[u]>> /\ order[2] = key[u] /\ key[u] \in Sessions
    BY <2>2, <2>3 DEF FitsIn, PleaseStart, PleaseDetach
  <2>8. CASE UNCHANGED <<stage, holder>>
    BY <2>3, <2>8 DEF SessionChange, LeaseMoves
  <2>9. CASE Lease!Confirm(key[u], u)
    <3>1. CASE key[u] # s
      BY <1>0, <2>3, <2>9, <3>1 DEF SessionChange, LeaseMoves, Lease!Confirm, Lease!Move
    <3>2. CASE key[u] = s
      <4>1. <<"ack", s>> \in Asked(u)
        BY <2>2, <2>4, <3>2
      <4>. QED
        BY <1>0, <2>3, <2>9, <3>2, <4>1 DEF SessionChange, LeaseMoves, Lease!Confirm, Lease!Move
    <3>. QED
      BY <3>1, <3>2
  <2>. QED
    BY <1>4, <2>4, <2>8, <2>9 DEF BrokerConfirms
<1>5. ASSUME NEW u \in Transports, BrokerAttaches(u) PROVE SessionChange(s)
  <2>1. Requested(u, "attach")
    BY <1>5 DEF BrokerAttaches
  <2>. DEFINE order == Head(outbox[u])
  <2>2. order \in Asked(u) /\ order[1] = "attach" /\ outbox'[u] = Tail(outbox[u])
    BY <1>0, <2>1, AskedWhenTaken
  <2>3. FitsIn(u, order) /\ UNCHANGED notify
    BY <1>0, <2>1, <2>2 DEF Requested
  <2>4. order = <<"attach", key[u]>> /\ order[2] = key[u] /\ key[u] \in Sessions
    BY <2>2, <2>3 DEF FitsIn, PleaseStart, PleaseDetach
  <2>8. CASE UNCHANGED <<stage, holder>>
    BY <2>3, <2>8 DEF SessionChange, LeaseMoves
  <2>9. CASE Lease!Take(key[u], u)
    <3>1. CASE key[u] # s
      BY <1>0, <2>3, <2>9, <3>1 DEF SessionChange, LeaseMoves, Lease!Take
    <3>2. CASE key[u] = s
      <4>1. <<"attach", s>> \in Asked(u)
        BY <2>2, <2>4, <3>2
      <4>. QED
        BY <1>0, <2>3, <2>9, <3>2, <4>1 DEF SessionChange, LeaseMoves, Lease!Take
    <3>. QED
      BY <3>1, <3>2
  <2>. QED
    BY <1>5, <2>4, <2>8, <2>9 DEF BrokerAttaches
<1>6. ASSUME NEW u \in Transports, BrokerDetaches(u) PROVE SessionChange(s)
  <2>1. Requested(u, "detach")
    BY <1>6 DEF BrokerDetaches
  <2>. DEFINE order == Head(outbox[u])
  <2>2. order \in Asked(u) /\ order[1] = "detach" /\ outbox'[u] = Tail(outbox[u])
    BY <1>0, <2>1, AskedWhenTaken
  <2>3. FitsIn(u, order) /\ UNCHANGED notify
    BY <1>0, <2>1, <2>2 DEF Requested
  <2>4. order = PleaseDetach
    BY <2>2, <2>3 DEF FitsIn, PleaseStart, PleaseDetach
  <2>8. CASE UNCHANGED <<stage, holder>>
    BY <2>3, <2>8 DEF SessionChange, LeaseMoves
  <2>9. ASSUME NEW q \in Sessions, Lease!Release(q, u) PROVE SessionChange(s)
    BY <1>0, <2>2, <2>3, <2>4, <2>9 DEF SessionChange, LeaseMoves, Lease!Release
  <2>. QED
    BY <1>6, <2>8, <2>9 DEF BrokerDetaches
<1>7. ASSUME NEW u \in Transports, BrokerStops(u) PROVE SessionChange(s)
  <2>1. Requested(u, "stop")
    BY <1>7 DEF BrokerStops
  <2>. DEFINE order == Head(outbox[u])
  <2>2. order \in Asked(u) /\ order[1] = "stop" /\ outbox'[u] = Tail(outbox[u])
    BY <1>0, <2>1, AskedWhenTaken
  <2>3. FitsIn(u, order) /\ UNCHANGED notify
    BY <1>0, <2>1, <2>2 DEF Requested
  <2>. QED
    BY <2>2, <2>3 DEF FitsIn, PleaseStart, PleaseDetach
<1>8. ASSUME NEW u \in Transports, BrokerNotices(u) PROVE SessionChange(s)
  <2>3. link[u] # "up" /\ UNCHANGED notify
    BY <1>8 DEF BrokerNotices
  <2>8. CASE UNCHANGED <<stage, holder>>
    BY <2>3, <2>8 DEF SessionChange, LeaseMoves
  <2>9. ASSUME NEW q \in Sessions, Lease!Release(q, u) PROVE SessionChange(s)
    BY <1>0, <2>3, <2>9 DEF SessionChange, LeaseMoves, Lease!Release
  <2>10. ASSUME NEW q \in Sessions, holder[q] = u, Lease!End(q) PROVE SessionChange(s)
    BY <1>0, <2>3, <2>10 DEF SessionChange, LeaseMoves, Ends, Lease!End
  <2>. QED
    BY <1>8, <2>8, <2>9, <2>10 DEF BrokerNotices
<1>9. ASSUME NEW r \in Sessions, AgentExits(r) PROVE SessionChange(s)
  <2>. QED
    BY <1>0, <1>9 DEF AgentExits, SessionChange, LeaseMoves, Ends, Lease!End
<1>10. ASSUME NEW r \in Sessions, BrokerAnnounces(r) PROVE SessionChange(s)
  <2>1. CASE r # s
    BY <1>0, <1>10, <2>1 DEF BrokerAnnounces, SessionChange, LeaseMoves
  <2>2. CASE r = s
    <3>1. notify[s] \in Ids /\ <<"exited", s>> \in Answers /\ Replied(notify[s], "exited", s)
      BY <1>0, <1>10, <2>2 DEF BrokerAnnounces, Answers, Replies
    <3>2. \A t \in Transports : notify[s] = t /\ link[t] = "up" => <<"exited", s>> \in News(t)'
      BY <1>0, <3>1, NewsOfAnswer
    <3>. QED
      BY <1>0, <1>10, <2>2, <3>2 DEF BrokerAnnounces, SessionChange, Announced
  <2>. QED
    BY <2>1, <2>2
<1>. QED
  BY <1>1, <1>2, <1>3, <1>4, <1>5, <1>6, <1>7, <1>8, <1>9, <1>10, RemoteMovers, NotYet DEF MainStep, WorkerStep, remote

(* What may happen to the binding of a connection.                         *)
Connected(t) == Unused(t) /\ \E c \in Callers : Connect(c) /\ mine[c] = t

Confirmed(t) == \E c \in Callers : confirm_pending(c) /\ mine[c] = t

BindingMoves(t) ==
    \/ binding'[t] = binding[t] \/ binding'[t] = "Closed"
    \/ /\ binding[t] = "Pending" /\ binding'[t] = "ConfirmedPending" /\ Confirmed(t)
    \/ binding[t] = "ConfirmedPending" /\ binding'[t] = "Attached"
    \/ binding[t] = "Attached" /\ binding'[t] = "Detaching"
    \/ binding[t] = "AwaitingAttach" /\ binding'[t] = "Attaching"
    \/ /\ binding[t] = "Attaching" /\ binding'[t] = "Attached"
       /\ \E s \in Sessions \union {NoSession} : <<"attached", s>> \in News(t)

BindingChange(t) ==
    \/ BindingMoves(t) /\ key'[t] = key[t]
    \/ Connected(t) /\ \/ binding'[t] = "AwaitingStart" /\ key'[t] = NoSession
                       \/ binding'[t] = "AwaitingAttach" /\ key'[t] \in Sessions
    \/ /\ binding[t] = "AwaitingStart" /\ binding'[t] = "Pending"
       /\ key'[t] \in Sessions /\ <<"started", key'[t]>> \in News(t)

(* Before the shutdown nothing else happens to a binding.                  *)
LEMMA BindingChanges ==
    ASSUME ManagerAssumption, Typed, SettledBeforeShutdown, InStepBeforeShutdown, Next,
           ~shutting_down', NEW t \in Transports
    PROVE  BindingChange(t)
<1>0. /\ binding \in [Transports -> Bindings] /\ inbox \in [Transports -> Seq(Answers)]
      /\ key \in [Transports -> Sessions \union {NoSession}]
      /\ at \in [Callers -> Sessions \union {NoSession}]
      /\ \A c \in Callers : mine[c] \in Ids /\ (mine[c] = None <=> pc[c] = "idle")
      /\ \A c \in Callers : pc[c] = "connect" => Unused(mine[c])
  BY NotYet, TransportIds DEF Settled, IdsAreFresh, Typed, TypeOK
<1>1. CASE UNCHANGED <<binding, key>>
  BY <1>0, <1>1 DEF BindingChange, BindingMoves
<1>2. ASSUME NEW d \in Callers, Connect(d) PROVE BindingChange(t)
  <2>1. CASE mine[d] # t
    BY <1>0, <1>2, <2>1 DEF Connect, BindingChange, BindingMoves
  <2>2. CASE mine[d] = t
    <3>1. Connected(t)
      BY <1>0, <1>2, <2>2 DEF Connected, Connect
    <3>2. \/ binding'[t] = "AwaitingStart" /\ key'[t] = NoSession
          \/ binding'[t] = "AwaitingAttach" /\ key'[t] \in Sessions
      BY <1>0, <1>2, <2>2 DEF Connect, Starting
    <3>. QED
      BY <3>1, <3>2 DEF BindingChange
  <2>. QED
    BY <2>1, <2>2
<1>3. ASSUME NEW d \in Callers, confirm_pending(d) PROVE BindingChange(t)
  <2>1. CASE mine[d] # t
    BY <1>0, <1>3, <2>1 DEF confirm_pending, BindingChange, BindingMoves
  <2>2. CASE mine[d] = t
    <3>1. Confirmed(t)
      BY <1>3, <2>2 DEF Confirmed
    <3>2. binding[t] = "Pending" /\ binding'[t] = "ConfirmedPending" /\ key'[t] = key[t]
      BY <1>0, <1>3, <2>2 DEF confirm_pending
    <3>. QED
      BY <3>1, <3>2 DEF BindingChange, BindingMoves
  <2>. QED
    BY <2>1, <2>2
<1>4. ASSUME NEW d \in Callers, publish_pending(d) PROVE BindingChange(t)
  BY <1>0, <1>4 DEF BindingChange, BindingMoves, publish_pending
<1>5. ASSUME NEW d \in Callers, discard_pending(d) PROVE BindingChange(t)
  BY <1>0, <1>5 DEF BindingChange, BindingMoves, discard_pending
<1>6. ASSUME NEW d \in Callers, WriteDetach(d) PROVE BindingChange(t)
  BY <1>0, <1>6 DEF BindingChange, BindingMoves, WriteDetach
<1>7. ASSUME NEW d \in Callers, WriteAttach(d) PROVE BindingChange(t)
  BY <1>0, <1>7 DEF BindingChange, BindingMoves, WriteAttach
<1>8. ASSUME NEW d \in Callers, LoseTransport(d) PROVE BindingChange(t)
  BY <1>0, <1>8 DEF BindingChange, BindingMoves, LoseTransport, handle_transport_loss
<1>9. ASSUME NEW u \in Transports, ReadStarted(u) PROVE BindingChange(t)
  <2>1. CASE u # t
    BY <1>0, <1>9, <2>1 DEF ReadStarted, ReadsLast, BindingChange, BindingMoves
  <2>2. CASE u = t
    <3>1. inbox[t] # <<>> /\ inbox[t] \in Seq(Answers) /\ Head(inbox[t])[1] = "started"
      BY <1>0, <1>9, <2>2 DEF ReadStarted, Reads
    <3>2. Head(inbox[t]) \in Answers /\ Head(inbox[t]) \in News(t)
      BY <3>1, HeadTailProperties, EntriesOfTail DEF News
    <3>3. PICK q \in Sessions : Head(inbox[t]) = <<"started", q>> /\ Head(inbox[t])[2] = q
      BY <3>1, <3>2 DEF Answers
    <3>4. <<"started", q>> \in News(t)
      BY <3>2, <3>3
    <3>. QED
      BY <1>0, <1>9, <2>2, <3>3, <3>4 DEF ReadStarted, Reads, ReadsLast, BindingChange, BindingMoves
  <2>. QED
    BY <2>1, <2>2
<1>10. ASSUME NEW u \in Transports, ReadPendingOver(u) PROVE BindingChange(t)
  BY <1>0, <1>10 DEF BindingChange, BindingMoves, ReadPendingOver, ReadsLast
<1>11. ASSUME NEW u \in Transports, ReadOver(u) PROVE BindingChange(t)
  BY <1>0, <1>11 DEF BindingChange, BindingMoves, ReadOver, ReadsLast
<1>12. ASSUME NEW u \in Transports, ReadAttached(u) PROVE BindingChange(t)
  <2>1. CASE u # t
    BY <1>0, <1>12, <2>1 DEF ReadAttached, ReadsLast, BindingChange, BindingMoves
  <2>2. CASE u = t
    <3>1. inbox[t] # <<>> /\ inbox[t] \in Seq(Answers) /\ Head(inbox[t])[1] = "attached"
      BY <1>0, <1>12, <2>2 DEF ReadAttached, Reads
    <3>2. Head(inbox[t]) \in Answers /\ Head(inbox[t]) \in News(t)
      BY <3>1, HeadTailProperties, EntriesOfTail DEF News
    <3>3. PICK q \in Sessions \union {NoSession} : Head(inbox[t]) = <<"attached", q>> /\ Head(inbox[t])[2] = q
      BY <3>1, <3>2 DEF Answers
    <3>4. <<"attached", q>> \in News(t)
      BY <3>2, <3>3
    <3>. QED
      BY <1>0, <1>12, <2>2, <3>3, <3>4 DEF ReadAttached, Reads, ReadsLast, BindingChange, BindingMoves
  <2>. QED
    BY <2>1, <2>2
<1>13. ASSUME NEW u \in Transports, ReadDetached(u) PROVE BindingChange(t)
  BY <1>0, <1>13 DEF BindingChange, BindingMoves, ReadDetached, ReadsLast
<1>14. ASSUME NEW u \in Transports, ReadStopped(u) PROVE BindingChange(t)
  BY <1>0, <1>14 DEF BindingChange, BindingMoves, ReadStopped, ReadsLast
<1>15. ASSUME NEW u \in Transports, ReadUnexpected(u) PROVE BindingChange(t)
  BY <1>0, <1>15 DEF BindingChange, BindingMoves, ReadUnexpected, ReadsLast
<1>16. ASSUME NEW u \in Transports, ReadEnd(u) PROVE BindingChange(t)
  BY <1>0, <1>16 DEF BindingChange, BindingMoves, ReadEnd, ReadsLast
<1>. QED
  <2>1. CASE binding' # binding
    BY <2>1, <1>2, <1>3, <1>4, <1>5, <1>6, <1>7, <1>8, <1>9, <1>10, <1>11, <1>12, <1>13, <1>14,
         <1>15, <1>16, BindingMovers, NotYet DEF MainStep, WorkerStep
  <2>2. CASE key' # key
    BY <2>2, <1>2, <1>9, KeyMovers, NotYet DEF MainStep, WorkerStep
  <2>3. CASE UNCHANGED <<binding, key>>
    BY <1>1, <2>3
  <2>. QED
    BY <2>1, <2>2, <2>3

(* A connection is up from when its command connects to when it is lost.   *)
LinkChange(t) == /\ link'[t] = "up" => link[t] = "up" \/ Connected(t)
                 /\ link'[t] = "none" => link[t] = "none"

(* Before the shutdown only commands connect.                              *)
LEMMA LinkChanges ==
    ASSUME ManagerAssumption, Typed, SettledBeforeShutdown, InStepBeforeShutdown, Next,
           ~shutting_down', NEW t \in Transports
    PROVE  LinkChange(t)
<1>0. /\ link \in [Transports -> {"none", "up", "cut", "reaped"}]
      /\ \A c \in Callers : mine[c] \in Ids /\ (mine[c] = None <=> pc[c] = "idle")
      /\ \A c \in Callers : pc[c] = "connect" => Unused(mine[c])
  BY NotYet, TransportIds DEF Settled, IdsAreFresh, Typed, TypeOK
<1>1. CASE UNCHANGED <<link>>
  BY <1>0, <1>1 DEF LinkChange
<1>2. ASSUME NEW d \in Callers, Connect(d) PROVE LinkChange(t)
  <2>1. CASE mine[d] # t
    BY <1>0, <1>2, <2>1 DEF Connect, LinkChange
  <2>2. CASE mine[d] = t
    <3>1. Connected(t)
      BY <1>0, <1>2, <2>2 DEF Connected, Connect
    <3>. QED
      BY <1>0, <1>2, <2>2, <3>1 DEF Connect, LinkChange
  <2>. QED
    BY <2>1, <2>2
<1>3. ASSUME NEW d \in Callers, HandshakeFails(d) PROVE LinkChange(t)
  BY <1>0, <1>3 DEF LinkChange, HandshakeFails, finish_transport, Reap
<1>4. ASSUME NEW d \in Callers, StartNotWritten(d) PROVE LinkChange(t)
  BY <1>0, <1>4 DEF LinkChange, StartNotWritten, finish_transport, Reap
<1>5. ASSUME NEW d \in Callers, HearStartFailed(d) PROVE LinkChange(t)
  BY <1>0, <1>5 DEF LinkChange, HearStartFailed, finish_transport, Reap
<1>6. ASSUME NEW d \in Callers, discard_pending(d) PROVE LinkChange(t)
  BY <1>0, <1>6 DEF LinkChange, discard_pending, finish_transport, Reap
<1>7. ASSUME NEW d \in Callers, CloseMine(d) PROVE LinkChange(t)
  BY <1>0, <1>7 DEF LinkChange, CloseMine, finish_transport, Reap
<1>8. ASSUME NEW u \in Transports, FinishReader(u) PROVE LinkChange(t)
  BY <1>0, <1>8 DEF LinkChange, FinishReader
<1>9. ASSUME NEW u \in Transports, ConnectionCut(u) PROVE LinkChange(t)
  BY <1>0, <1>9 DEF LinkChange, ConnectionCut
<1>. QED
  BY <1>1, <1>2, <1>3, <1>4, <1>5, <1>6, <1>7, <1>8, <1>9, LinkMovers, NotYet DEF MainStep, WorkerStep

(* How a command gets to its first steps, and to where it gives up.        *)
EarlySteps(c) ==
    pc'[c] # pc[c] => /\ pc'[c] = "handshake" => Connect(c)
                      /\ pc'[c] = "listen" => Handshake(c)
                      /\ pc'[c] \in {"attach", "await_start"} => Listen(c)
                      /\ pc'[c] = "confirm" => HearStarted(c)
                      /\ pc'[c] = "discard" => ConfirmFails(c) \/ StartNotPublished(c)

(* Commands take these steps only.                                         *)
LEMMA EarlyChanges ==
    ASSUME ManagerAssumption, Typed, SettledBeforeShutdown, InStepBeforeShutdown, Next,
           ~shutting_down', NEW c \in Callers
    PROVE  EarlySteps(c)
<1>0. pc \in [Callers -> Steps]
  BY DEF Typed, TypeOK
<1>1. CASE UNCHANGED <<pc>>
  BY <1>0, <1>1 DEF EarlySteps
<1>2. ASSUME NEW d \in Callers, start(d) PROVE EarlySteps(c)
  BY <1>0, <1>2 DEF EarlySteps, start, Begin, Goto
<1>3. ASSUME NEW d \in Callers, NEW r \in Sessions, reattach(d, r) PROVE EarlySteps(c)
  BY <1>0, <1>3 DEF EarlySteps, reattach, Begin, Goto
<1>4. ASSUME NEW d \in Callers, NEW r \in Sessions, detach(d, r) PROVE EarlySteps(c)
  BY <1>0, <1>4 DEF EarlySteps, detach, Goto
<1>5. ASSUME NEW d \in Callers, Connect(d) PROVE EarlySteps(c)
  BY <1>0, <1>5 DEF EarlySteps, Connect, Goto
<1>6. ASSUME NEW d \in Callers, CannotConnect(d) PROVE EarlySteps(c)
  BY <1>0, <1>6 DEF EarlySteps, CannotConnect, Return, Goto
<1>7. ASSUME NEW d \in Callers, Handshake(d) PROVE EarlySteps(c)
  BY <1>0, <1>7 DEF EarlySteps, Handshake, Goto
<1>8. ASSUME NEW d \in Callers, HandshakeFails(d) PROVE EarlySteps(c)
  BY <1>0, <1>8 DEF EarlySteps, HandshakeFails, Return, Goto
<1>9. ASSUME NEW d \in Callers, HandshakeTooLate(d) PROVE EarlySteps(c)
  BY <1>0, <1>9 DEF EarlySteps, HandshakeTooLate, CloseUnlessShuttingDown, Goto, Return
<1>10. ASSUME NEW d \in Callers, Listen(d) PROVE EarlySteps(c)
  BY <1>0, <1>10 DEF EarlySteps, Listen, Goto
<1>11. ASSUME NEW d \in Callers, StartNotWritten(d) PROVE EarlySteps(c)
  BY <1>0, <1>11 DEF EarlySteps, StartNotWritten, Return, Goto
<1>12. ASSUME NEW d \in Callers, HearStarted(d) PROVE EarlySteps(c)
  BY <1>0, <1>12 DEF EarlySteps, HearStarted, Goto
<1>13. ASSUME NEW d \in Callers, HearStartFailed(d) PROVE EarlySteps(c)
  BY <1>0, <1>13 DEF EarlySteps, HearStartFailed, Return, Goto
<1>14. ASSUME NEW d \in Callers, confirm_pending(d) PROVE EarlySteps(c)
  BY <1>0, <1>14 DEF EarlySteps, confirm_pending, Goto
<1>15. ASSUME NEW d \in Callers, ConfirmFails(d) PROVE EarlySteps(c)
  BY <1>0, <1>15 DEF EarlySteps, ConfirmFails, Goto
<1>16. ASSUME NEW d \in Callers, publish_pending(d) PROVE EarlySteps(c)
  BY <1>0, <1>16 DEF EarlySteps, publish_pending, Return, Goto
<1>17. ASSUME NEW d \in Callers, StartLeftToOthers(d) PROVE EarlySteps(c)
  BY <1>0, <1>17 DEF EarlySteps, StartLeftToOthers, Return, Goto
<1>18. ASSUME NEW d \in Callers, StartNotPublished(d) PROVE EarlySteps(c)
  BY <1>0, <1>18 DEF EarlySteps, StartNotPublished, Goto
<1>19. ASSUME NEW d \in Callers, discard_pending(d) PROVE EarlySteps(c)
  BY <1>0, <1>19 DEF EarlySteps, discard_pending, Return, Goto
<1>20. ASSUME NEW d \in Callers, TakeEventSlot(d) PROVE EarlySteps(c)
  BY <1>0, <1>20 DEF EarlySteps, TakeEventSlot, Goto
<1>21. ASSUME NEW d \in Callers, DetachTooLate(d) PROVE EarlySteps(c)
  BY <1>0, <1>21 DEF EarlySteps, DetachTooLate, Return, Goto
<1>22. ASSUME NEW d \in Callers, WriteDetach(d) PROVE EarlySteps(c)
  BY <1>0, <1>22 DEF EarlySteps, WriteDetach, Goto
<1>23. ASSUME NEW d \in Callers, DetachNotWritten(d) PROVE EarlySteps(c)
  BY <1>0, <1>23 DEF EarlySteps, DetachNotWritten, Goto
<1>24. ASSUME NEW d \in Callers, HearDetached(d) PROVE EarlySteps(c)
  BY <1>0, <1>24 DEF EarlySteps, HearDetached, CloseUnlessShuttingDown, Goto, Return
<1>25. ASSUME NEW d \in Callers, WriteAttach(d) PROVE EarlySteps(c)
  BY <1>0, <1>25 DEF EarlySteps, WriteAttach, Goto
<1>26. ASSUME NEW d \in Callers, AttachNotWritten(d) PROVE EarlySteps(c)
  BY <1>0, <1>26 DEF EarlySteps, AttachNotWritten, Goto
<1>27. ASSUME NEW d \in Callers, WriteFailed(d) PROVE EarlySteps(c)
  BY <1>0, <1>27 DEF EarlySteps, WriteFailed, CloseUnlessShuttingDown, Goto, Return
<1>28. ASSUME NEW d \in Callers, LoseTransport(d) PROVE EarlySteps(c)
  BY <1>0, <1>28 DEF EarlySteps, LoseTransport, Goto
<1>29. ASSUME NEW d \in Callers, CloseMine(d) PROVE EarlySteps(c)
  BY <1>0, <1>29 DEF EarlySteps, CloseMine, Return, Goto
<1>30. ASSUME NEW d \in Callers, HearAttached(d) PROVE EarlySteps(c)
  BY <1>0, <1>30 DEF EarlySteps, HearAttached, Return, Goto
<1>31. ASSUME NEW d \in Callers, HearAttachFailed(d) PROVE EarlySteps(c)
  BY <1>0, <1>31 DEF EarlySteps, HearAttachFailed, CloseUnlessShuttingDown, Goto, Return
<1>. QED
  BY <1>1, <1>2, <1>3, <1>4, <1>5, <1>6, <1>7, <1>8, <1>9, <1>10, <1>11, <1>12, <1>13, <1>14,
       <1>15, <1>16, <1>17, <1>18, <1>19, <1>20, <1>21, <1>22, <1>23, <1>24, <1>25, <1>26, <1>27,
       <1>28, <1>29, <1>30, <1>31, CallMovers, NotYet DEF MainStep, WorkerStep, calls

(* Only a command of its own breaks the silence of a connection.           *)
LEMMA SilenceBroken ==
    ASSUME ManagerAssumption, Typed, SettledBeforeShutdown, InStepBeforeShutdown, Next,
           ~shutting_down', NEW t \in Transports, Quiet(t)
    PROVE  Quiet(t)' \/ \E c \in Callers, order \in Orders : link[t] = "up" /\ Ordered(t, c, order)
<1>0. /\ News(t) = {} /\ outbox[t] = <<>> /\ \A s \in Sessions : holder[s] # t /\ notify[s] # t
      /\ t # None
  BY TransportIds DEF Quiet
<1>1. Asked(t) = {}
  BY <1>0 DEF Asked, Entries
<1>2. News(t)' = {}
  BY <1>0, <1>1, NewsChanges DEF NewsChange, Heard, Answered, Answerable
<1>3. ASSUME NEW s \in Sessions PROVE holder'[s] # t /\ notify'[s] # t
  <2>1. \A u \in Transports : Registered(s, u) => holder'[s] = u /\ u # t
    BY <1>1 DEF Registered
  <2>2. SessionChange(s)
    BY SessionChanges
  <2>3. holder'[s] # t
    BY <1>0, <1>1, <2>1, <2>2 DEF SessionChange, LeaseMoves, Ends, Announced
  <2>4. notify'[s] # t
    BY <1>0, <2>2 DEF SessionChange, Ends, Announced
  <2>. QED
    BY <2>3, <2>4
<1>4. \/ outbox'[t] = <<>>
      \/ \E c \in Callers, order \in Orders : link[t] = "up" /\ Ordered(t, c, order)
  BY <1>0, <1>1, AskedChanges DEF AskedChange
<1>. QED
  BY <1>2, <1>3, <1>4 DEF Quiet

(* A connection comes to concern a session when it registers it; else it   *)
(* was for it before.                                                      *)
LEMMA ConcernChanges ==
    ASSUME ManagerAssumption, Typed, SettledBeforeShutdown, InStepBeforeShutdown, Next,
           ~shutting_down', NEW t \in Transports, NEW s \in Sessions, Concerns(t, s)'
    PROVE  Concerns(t, s) \/ key[t] = s \/ Registered(s, t)
<1>0. /\ t # None /\ NoSession \notin Sessions
      /\ \A order \in Asked(t) : FitsIn(t, order)
  BY NotYet, TransportIds DEF InStepBeforeShutdown, InStep, OrdersFit, ManagerAssumption
<1>1. CASE holder'[s] = t
  <2>1. <<"attach", s>> \in Asked(t) => key[t] = s
    <3>1. FitsIn(t, <<"attach", s>>) => key[t] = s
      BY DEF FitsIn, PleaseStart, PleaseDetach
    <3>. QED
      BY <1>0, <3>1
  <2>2. \A u \in Transports : Registered(s, u) => u = t
    BY <1>1 DEF Registered
  <2>3. holder[s] = t \/ Registered(s, t) \/ <<"attach", s>> \in Asked(t)
    BY <1>0, <1>1, <2>2, SessionChanges DEF SessionChange, LeaseMoves, Ends, Announced
  <2>. QED
    BY <2>1, <2>3 DEF Concerns
<1>2. CASE notify'[s] = t
  BY <1>0, <1>2, SessionChanges DEF SessionChange, LeaseMoves, Ends, Announced, Concerns
<1>3. ASSUME NEW reply \in Replies, <<reply, s>> \in News(t)' PROVE Concerns(t, s) \/ key[t] = s
  <2>1. CASE <<reply, s>> \in News(t)
    BY <2>1 DEF Concerns
  <2>2. CASE <<reply, s>> \notin News(t)
    <3>1. PICK r \in Sessions \union {NoSession}, said \in Replies : Answered(t, said, r)
      BY <1>3, <2>2, NewsChanges DEF NewsChange, Heard
    <3>2. <<reply, s>> = <<said, r>>
      BY <1>3, <2>2, <3>1 DEF Answered
    <3>3. r = s
      BY <3>2
    <3>. QED
      BY <1>0, <3>1, <3>3 DEF Answered, Answerable, Concerns
  <2>. QED
    BY <2>1, <2>2
<1>. QED
  BY <1>1, <1>2, <1>3 DEF Concerns

(* A session that is over stays over.                                      *)
LEMMA EndedStaysEnded ==
    ASSUME ManagerAssumption, Typed, SettledBeforeShutdown, InStepBeforeShutdown, Next,
           ~shutting_down', NEW s \in Sessions, stage[s] = "ended"
    PROVE  stage'[s] = "ended"
BY SessionChanges DEF SessionChange, LeaseMoves, Registered, Ends, Announced

(* What is said to be over is over.                                        *)
LEMMA EndsStep ==
    ASSUME ManagerAssumption, Typed, SettledBeforeShutdown, InStepBeforeShutdown, Next,
           ~shutting_down'
    PROVE  EndsAreTrue'
<1>0. EndsAreTrue
  BY NotYet DEF InStepBeforeShutdown, InStep
<1>1. ASSUME NEW s \in Sessions, notify'[s] # None PROVE stage'[s] = "ended"
  <2>1. CASE notify[s] # None
    BY <1>0, <2>1, EndedStaysEnded DEF EndsAreTrue
  <2>2. CASE notify[s] = None
    BY <1>1, <2>2, SessionChanges DEF SessionChange, Ends, Announced
  <2>. QED
    BY <2>1, <2>2
<1>2. ASSUME NEW t \in Transports, NEW news \in News(t)', news[1] \in SessionOver
      PROVE  news[2] \in Sessions /\ stage'[news[2]] = "ended"
  <2>1. CASE news \in News(t)
    BY <1>0, <1>2, <2>1, EndedStaysEnded DEF EndsAreTrue
  <2>2. CASE news \notin News(t)
    <3>1. PICK r \in Sessions \union {NoSession}, said \in Replies : Answered(t, said, r)
      BY <1>2, <2>2, NewsChanges DEF NewsChange, Heard
    <3>2. news = <<said, r>>
      BY <1>2, <2>2, <3>1 DEF Answered
    <3>3. said \in SessionOver /\ news[2] = r
      BY <1>2, <3>2
    <3>4. r \in Sessions /\ stage[r] = "ended"
      BY <1>0, <3>1, <3>3, TransportIds DEF Answered, Answerable, SessionOver, EndsAreTrue
    <3>. QED
      BY <3>3, <3>4, EndedStaysEnded
  <2>. QED
    BY <2>1, <2>2
<1>. QED
  BY <1>1, <1>2 DEF EndsAreTrue

(* What nobody touches.                                                    *)
Untouched(t) == binding'[t] = binding[t] /\ key'[t] = key[t] /\ reader'[t] = reader[t]

(* Nobody touches a connection that its command is opening.                *)
LEMMA OpeningKept ==
    ASSUME ManagerAssumption, Typed, SettledBeforeShutdown, InStepBeforeShutdown, Next,
           ~shutting_down', NEW e \in Callers, NEW t \in Transports,
           mine[e] = t, pc[e] \in {"handshake", "listen"}, pc'[e] \in {"handshake", "listen"}
    PROVE  Untouched(t)
<1>0. /\ binding \in [Transports -> Bindings] /\ pc \in [Callers -> Steps]
      /\ key \in [Transports -> Sessions \union {NoSession}]
      /\ reader \in [Transports -> {"none", "running", "ending", "done"}]
      /\ \A c \in Callers : mine[c] \in Ids
      /\ \A c \in Callers : pc[c] = "connect" => binding[mine[c]] = "none"
      /\ binding[t] \in {"AwaitingStart", "AwaitingAttach"} /\ reader[t] = "none"
      /\ \A c \in Callers : mine[c] = t => c = e
  <2>1. binding[t] \in {"AwaitingStart", "AwaitingAttach"} /\ reader[t] = "none"
    BY NotYet DEF InStepBeforeShutdown, InStep, BeginningsAreQuiet, Opening
  <2>2. \A c \in Callers : mine[c] = t => c = e
    BY <2>1, NotYet, TransportIds DEF Settled, CommandsKeepApart, Over
  <2>. QED
    BY <2>1, <2>2, NotYet, TransportIds DEF Settled, IdsAreFresh, Unused, Typed, TypeOK
<1>1. CASE UNCHANGED <<binding, key, reader>>
  BY <1>0, <1>1 DEF Untouched
<1>2. ASSUME NEW d \in Callers, Connect(d) PROVE Untouched(t)
  BY <1>0, <1>2 DEF Untouched, Connect, Goto
<1>3. ASSUME NEW d \in Callers, Listen(d) PROVE Untouched(t)
  BY <1>0, <1>3 DEF Untouched, Listen, Goto
<1>4. ASSUME NEW d \in Callers, StartNotWritten(d) PROVE Untouched(t)
  BY <1>0, <1>4 DEF Untouched, StartNotWritten, Return, Goto
<1>5. ASSUME NEW d \in Callers, confirm_pending(d) PROVE Untouched(t)
  BY <1>0, <1>5 DEF Untouched, confirm_pending, Goto
<1>6. ASSUME NEW d \in Callers, publish_pending(d) PROVE Untouched(t)
  BY <1>0, <1>6 DEF Untouched, publish_pending, Return, Goto
<1>7. ASSUME NEW d \in Callers, discard_pending(d) PROVE Untouched(t)
  BY <1>0, <1>7 DEF Untouched, discard_pending, Return, Goto
<1>8. ASSUME NEW d \in Callers, WriteDetach(d) PROVE Untouched(t)
  BY <1>0, <1>8 DEF Untouched, WriteDetach, Goto
<1>9. ASSUME NEW d \in Callers, WriteAttach(d) PROVE Untouched(t)
  BY <1>0, <1>9 DEF Untouched, WriteAttach, Goto
<1>10. ASSUME NEW d \in Callers, LoseTransport(d) PROVE Untouched(t)
  BY <1>0, <1>10 DEF Untouched, LoseTransport, handle_transport_loss, Goto
<1>11. ASSUME NEW u \in Transports, ReadStarted(u) PROVE Untouched(t)
  BY <1>0, <1>11 DEF Untouched, ReadStarted, ReadsLast, Reads
<1>12. ASSUME NEW u \in Transports, ReadPendingOver(u) PROVE Untouched(t)
  BY <1>0, <1>12 DEF Untouched, ReadPendingOver, ReadsLast, Reads
<1>13. ASSUME NEW u \in Transports, ReadOver(u) PROVE Untouched(t)
  BY <1>0, <1>13 DEF Untouched, ReadOver, ReadsLast, Reads
<1>14. ASSUME NEW u \in Transports, ReadAttached(u) PROVE Untouched(t)
  BY <1>0, <1>14 DEF Untouched, ReadAttached, ReadsLast, Reads
<1>15. ASSUME NEW u \in Transports, ReadDetached(u) PROVE Untouched(t)
  BY <1>0, <1>15 DEF Untouched, ReadDetached, ReadsLast, Reads
<1>16. ASSUME NEW u \in Transports, ReadStopped(u) PROVE Untouched(t)
  BY <1>0, <1>16 DEF Untouched, ReadStopped, ReadsLast, Reads
<1>17. ASSUME NEW u \in Transports, ReadUnexpected(u) PROVE Untouched(t)
  BY <1>0, <1>17 DEF Untouched, ReadUnexpected, ReadsLast, Reads
<1>18. ASSUME NEW u \in Transports, ReadEnd(u) PROVE Untouched(t)
  BY <1>0, <1>18 DEF Untouched, ReadEnd, ReadsLast
<1>19. ASSUME NEW u \in Transports, FinishReader(u) PROVE Untouched(t)
  BY <1>0, <1>19 DEF Untouched, FinishReader
<1>. QED
  <2>1. CASE binding' # binding
    BY <2>1, <1>2, <1>5, <1>6, <1>7, <1>8, <1>9, <1>10, <1>11, <1>12, <1>13, <1>14, <1>15, <1>16,
         <1>17, <1>18, BindingMovers, NotYet DEF MainStep, WorkerStep
  <2>2. CASE key' # key
    BY <2>2, <1>2, <1>11, KeyMovers, NotYet DEF MainStep, WorkerStep
  <2>3. CASE reader' # reader
    BY <2>3, <1>3, <1>4, <1>11, <1>12, <1>13, <1>14, <1>15, <1>16, <1>17, <1>18, <1>19,
         ReaderMovers, NotYet DEF MainStep, WorkerStep
  <2>4. CASE UNCHANGED <<binding, key, reader>>
    BY <1>1, <2>4
  <2>. QED
    BY <2>1, <2>2, <2>3, <2>4

(* A command that opens a connection has it for itself.                    *)
LEMMA OpeningAlone ==
    ASSUME ManagerAssumption, Typed, SettledBeforeShutdown, InStepBeforeShutdown, ~shutting_down,
           NEW c \in Callers, pc[c] \in {"handshake", "listen"}
    PROVE  /\ mine[c] \in Transports /\ Opening(c)
           /\ \A d \in Callers : mine[d] = mine[c] => d = c
<1>1. Opening(c) /\ mine[c] \in Transports
  BY DEF InStepBeforeShutdown, InStep, BeginningsAreQuiet, Typed, TypeOK, Ids
<1>2. \A d \in Callers : mine[d] = mine[c] => d = c
  <2>1. binding[mine[c]] \notin Over /\ mine[c] # None
    BY <1>1, TransportIds DEF Opening, Over
  <2>. QED
    BY <2>1 DEF SettledBeforeShutdown, Settled, CommandsKeepApart
<1>. QED
  BY <1>1, <1>2

LEMMA OpeningStep ==
    ASSUME ManagerAssumption, Typed, SettledBeforeShutdown, InStepBeforeShutdown, Next,
           ~shutting_down', NEW c \in Callers
    PROVE  Opening(c)'
<1>0. /\ pc \in [Callers -> Steps] /\ mine \in [Callers -> Ids]
      /\ binding \in [Transports -> Bindings]
      /\ at \in [Callers -> Sessions \union {NoSession}]
      /\ \A d \in Callers : mine[d] = None <=> pc[d] = "idle"
  BY DEF Typed, TypeOK
<1>. SUFFICES ASSUME pc'[c] \in {"handshake", "listen"}
              PROVE  /\ binding'[mine'[c]] \in {"AwaitingStart", "AwaitingAttach"}
                     /\ reader'[mine'[c]] = "none"
                     /\ key'[mine'[c]] = at'[c]
                     /\ Quiet(mine[c])'
  BY DEF Opening
<1>1. CASE Connect(c)
  <2>. DEFINE t == mine[c]
  <2>1. t \in Transports /\ Unused(t) /\ mine' = mine /\ at' = at
    BY <1>0, <1>1, NotYet DEF Settled, IdsAreFresh, Connect, Ids
  <2>2. Quiet(t)
    BY <2>1, NotYet DEF Unused, InStepBeforeShutdown, InStep, BeginningsAreQuiet
  <2>3. Quiet(t)'
    BY <2>1, <2>2, SilenceBroken DEF Unused
  <2>4. Quiet(mine[c])'
    BY <2>1, <2>3 DEF Quiet, News
  <2>5. reader'[t] = "none" /\ key'[t] = at[c] /\ binding'[t] \in {"AwaitingStart", "AwaitingAttach"}
    BY <1>1, <2>1 DEF Connect, Unused, Typed, TypeOK
  <2>. QED
    BY <2>1, <2>4, <2>5
<1>2. CASE ~Connect(c)
  <2>1. pc[c] \in {"handshake", "listen"} /\ mine'[c] = mine[c] /\ at'[c] = at[c]
    <3>1. pc[c] \in {"handshake", "listen"}
      BY <1>2, EarlyChanges DEF EarlySteps, Handshake
    <3>. QED
      BY <3>1, CallChanges
  <2>. DEFINE t == mine[c]
  <2>2. /\ t \in Transports /\ Opening(c)
        /\ \A d \in Callers : mine[d] = t => d = c
    BY <2>1, OpeningAlone, NotYet
  <2>3. Untouched(t)
    BY <2>1, <2>2, OpeningKept
  <2>4. Quiet(t)'
    <3>1. SUFFICES ASSUME NEW order \in Orders, Ordered(t, c, order) PROVE FALSE
      BY <2>1, <2>2, SilenceBroken DEF Opening, Ordered
    <3>. QED
      BY <2>1, <3>1 DEF Ordered
  <2>5. Quiet(mine[c])'
    BY <2>1, <2>4 DEF Quiet, News
  <2>. QED
    BY <2>1, <2>2, <2>3, <2>5 DEF Opening, Untouched
<1>. QED
  BY <1>1, <1>2

(* A connection is silent until it is listened to, and is for the session  *)
(* that its command asks for.                                              *)
LEMMA BeginningsStep ==
    ASSUME ManagerAssumption, Typed, SettledBeforeShutdown, InStepBeforeShutdown, Next,
           ~shutting_down'
    PROVE  BeginningsAreQuiet'
<1>0. /\ BeginningsAreQuiet /\ Settled /\ Typed'
      /\ mine \in [Callers -> Ids] /\ at \in [Callers -> Sessions \union {NoSession}]
      /\ \A d \in Callers : mine[d] = None <=> pc[d] = "idle"
  BY NotYet, TypedStep DEF InStepBeforeShutdown, InStep, Typed, TypeOK
<1>1. ASSUME NEW t \in Transports, link'[t] = "none" PROVE Quiet(t)'
  <2>1. link[t] = "none" /\ Quiet(t)
    BY <1>0, <1>1, LinkChanges DEF LinkChange, BeginningsAreQuiet
  <2>. QED
    BY <2>1, SilenceBroken
<1>2. ASSUME NEW c \in Callers, pc'[c] = "attach" PROVE key'[mine'[c]] = at'[c]
  <2>1. pc[c] \in {"listen", "attach"} /\ mine'[c] = mine[c] /\ at'[c] = at[c]
    <3>1. pc[c] \in {"listen", "attach"}
      BY <1>2, EarlyChanges DEF EarlySteps, Listen
    <3>. QED
      BY <1>2, <3>1, CallChanges
  <2>. DEFINE t == mine[c]
  <2>2. t \in Transports /\ key[t] = at[c] /\ at[c] \in Sessions /\ NoSession \notin Sessions
    BY <1>0, <1>2, <2>1 DEF BeginningsAreQuiet, Opening, Ids, Typed, ManagerAssumption
  <2>3. key[t] # NoSession
    BY <2>2
  <2>4. binding[t] # "AwaitingStart" /\ ~Unused(t)
    BY <1>0, <2>2, <2>3 DEF BeginningsAreQuiet, Startless, Unused
  <2>5. key'[t] = key[t]
    BY <2>2, <2>4, BindingChanges DEF BindingChange, Connected
  <2>. QED
    BY <2>1, <2>2, <2>5
<1>3. ASSUME NEW t \in Transports, binding'[t] \in Startless PROVE key'[t] = NoSession
  <2>1. BindingChange(t)
    BY BindingChanges
  <2>2. \/ Connected(t) /\ key'[t] = NoSession
        \/ binding'[t] = binding[t] /\ key'[t] = key[t]
    BY <1>3, <2>1 DEF BindingChange, BindingMoves, Startless
  <2>. QED
    BY <1>0, <1>3, <2>2 DEF BeginningsAreQuiet
<1>. QED
  BY <1>1, <1>2, <1>3, OpeningStep DEF BeginningsAreQuiet

(* The acknowledgement is written by the last step but one of a start.     *)
LEMMA UnacknowledgedStep ==
    ASSUME ManagerAssumption, Typed, SettledBeforeShutdown, InStepBeforeShutdown, Next,
           ~shutting_down'
    PROVE  Unacknowledged'
<1>. DEFINE Early == {"handshake", "listen", "await_start", "confirm", "discard"}
<1>0. /\ Unacknowledged /\ Settled
      /\ mine \in [Callers -> Ids] /\ pc \in [Callers -> Steps]
      /\ \A d \in Callers : mine[d] = None <=> pc[d] = "idle"
  BY NotYet DEF InStepBeforeShutdown, InStep, Typed, TypeOK
<1>. SUFFICES ASSUME NEW c \in Callers, pc'[c] \in Early, binding'[mine'[c]] = "ConfirmedPending"
              PROVE  FALSE
  BY DEF Unacknowledged
<1>1. pc[c] # "idle" /\ mine'[c] = mine[c] /\ mine[c] \in Transports
  BY <1>0, CallChanges DEF Ids
<1>. DEFINE t == mine[c]
<1>2. CASE Connect(c)
  BY <1>0, <1>1, <1>2 DEF Connect, Typed, TypeOK
<1>3. CASE StartNotPublished(c)
  <2>1. binding' = binding /\ at[c] = key[t]
    BY <1>0, <1>3 DEF StartNotPublished, conns, Settled, EventsGoToTheirCaller
  <2>2. key[t] \in Sessions /\ records[key[t]] = Row("pending", t, None)
    BY <1>0, <1>1, <2>1 DEF Settled, RowsAreBound, Shown
  <2>. QED
    BY <1>1, <1>3, <2>1, <2>2 DEF StartNotPublished, PublishRejected, OwnsPending, Row
<1>4. CASE ~Connect(c) /\ ~StartNotPublished(c)
  <2>1. pc[c] \in Early
    BY <1>4, EarlyChanges DEF EarlySteps, Handshake, Listen, HearStarted, ConfirmFails
  <2>2. binding[t] = "Pending" /\ Confirmed(t)
    <3>1. binding[t] # "ConfirmedPending" /\ binding'[t] = "ConfirmedPending"
      BY <1>0, <1>1, <2>1 DEF Unacknowledged
    <3>. QED
      BY <1>1, <3>1, BindingChanges DEF BindingChange, BindingMoves
  <2>3. PICK d \in Callers : confirm_pending(d) /\ mine[d] = t
    BY <2>2 DEF Confirmed
  <2>4. d = c
    BY <1>0, <1>1, <2>2, <2>3, TransportIds DEF Settled, CommandsKeepApart, Over
  <2>. QED
    BY <1>0, <2>3, <2>4 DEF confirm_pending, Goto
<1>. QED
  BY <1>2, <1>3, <1>4

(* A command asks for what fits in with its connection, and for a start    *)
(* only while nothing else was said.                                       *)
LEMMA OrderedFits ==
    ASSUME ManagerAssumption, Typed, SettledBeforeShutdown, InStepBeforeShutdown, Next,
           ~shutting_down', NEW t \in Transports, NEW c \in Callers, NEW order, Ordered(t, c, order)
    PROVE  /\ FitsIn(t, order) /\ key'[t] = key[t]
           /\ order = PleaseDetach => binding'[t] = "Detaching"
           /\ \/ order = PleaseStart /\ key[t] = NoSession /\ Quiet(t)
              \/ order # PleaseStart /\ key[t] # NoSession
<1>0. /\ BeginningsAreQuiet /\ Settled /\ mine[c] = t /\ NoSession \notin Sessions
      /\ \A u \in Transports : key[u] = NoSession => binding[u] \in Unkeyed
      /\ key[t] \in Sessions \union {NoSession}
      /\ pc[c] = "attach" => at[c] \in Sessions
  BY NotYet DEF InStepBeforeShutdown, InStep, Ordered, Typed, TypeOK, ManagerAssumption
<1>1. BindingChange(t)
  BY BindingChanges
<1>2. CASE pc[c] = "listen" /\ at[c] = NoSession /\ order = PleaseStart
  <2>1. Opening(c)
    BY <1>0 DEF BeginningsAreQuiet
  <2>2. /\ binding[t] \in {"AwaitingStart", "AwaitingAttach"} /\ key[t] = NoSession /\ Quiet(t)
    BY <1>0, <1>2, <2>1 DEF Opening
  <2>3. key'[t] = key[t]
    BY <1>1, <2>2 DEF BindingChange, Connected, Unused, Quiet
  <2>. QED
    BY <1>2, <2>2, <2>3 DEF FitsIn, PleaseStart, PleaseDetach
<1>3. CASE pc[c] = "confirm" /\ binding[t] = "Pending" /\ order = <<"ack", at[c]>>
  <2>1. at[c] = key[t] /\ key[t] \in Sessions
    BY <1>0, <1>3 DEF Settled, EventsGoToTheirCaller, RowsAreBound, Shown
  <2>2. key'[t] = key[t]
    BY <1>1, <1>3 DEF BindingChange, Connected, Unused
  <2>. QED
    BY <1>0, <1>3, <2>1, <2>2 DEF FitsIn, PleaseStart, PleaseDetach
<1>4. CASE /\ binding[t] = "Attached" /\ binding'[t] = "Detaching" /\ order = PleaseDetach
  <2>1. key[t] \in Sessions
    BY <1>0, <1>4 DEF Settled, RowsAreBound, Shown
  <2>2. key'[t] = key[t]
    BY <1>1, <1>4 DEF BindingChange, Connected, Unused
  <2>. QED
    BY <1>0, <1>4, <2>1, <2>2 DEF FitsIn, PleaseStart, PleaseDetach
<1>5. CASE pc[c] = "attach" /\ binding[t] = "AwaitingAttach" /\ order = <<"attach", at[c]>>
  <2>1. at[c] = key[t] /\ key[t] \in Sessions
    BY <1>0, <1>5 DEF BeginningsAreQuiet
  <2>2. key'[t] = key[t]
    BY <1>1, <1>5 DEF BindingChange, Connected, Unused
  <2>. QED
    BY <1>0, <1>5, <2>1, <2>2 DEF FitsIn, PleaseStart, PleaseDetach
<1>. QED
  BY <1>2, <1>3, <1>4, <1>5 DEF Ordered

(* The session of a connection does not change once it has one, and it has *)
(* none while a start is asked for.                                        *)
LEMMA KeyStays ==
    ASSUME ManagerAssumption, Typed, SettledBeforeShutdown, InStepBeforeShutdown, Next,
           ~shutting_down', NEW t \in Transports, Asked(t) # {}
    PROVE  \/ key'[t] = key[t]
           \/ /\ Asked(t) \subseteq {PleaseStart, PleaseDetach} /\ PleaseStart \notin Asked(t)
              /\ key'[t] \in Sessions
<1>0. /\ BeginningsAreQuiet /\ OrdersFit
      /\ NoSession \notin Sessions
  BY NotYet DEF InStepBeforeShutdown, InStep, ManagerAssumption
<1>1. ~Unused(t)
  <2>1. outbox[t] # <<>>
    BY DEF Asked, Entries
  <2>. QED
    BY <1>0, <2>1 DEF Unused, BeginningsAreQuiet, Quiet
<1>2. BindingChange(t)
  BY BindingChanges
<1>3. CASE /\ binding[t] = "AwaitingStart" /\ key'[t] \in Sessions
           /\ <<"started", key'[t]>> \in News(t)
  <2>1. Concerns(t, key'[t]) /\ key[t] = NoSession
    BY <1>0, <1>3 DEF Concerns, Replies, BeginningsAreQuiet, Startless
  <2>. QED
    BY <1>0, <1>3, <2>1 DEF OrdersFit, FitsIn
<1>. QED
  BY <1>1, <1>2, <1>3 DEF BindingChange, Connected

LEMMA OrdersStep ==
    ASSUME ManagerAssumption, Typed, SettledBeforeShutdown, InStepBeforeShutdown, Next,
           ~shutting_down'
    PROVE  OrdersFit'
<1>. SUFFICES ASSUME NEW t \in Transports
              PROVE  /\ \A order \in Asked(t)' : FitsIn(t, order)'
                     /\ PleaseDetach \in Asked(t)' => binding'[t] \in {"Detaching", "Closed"}
                     /\ PleaseStart \in Asked(t)' => /\ outbox'[t] = <<PleaseStart>>
                                                     /\ key'[t] = NoSession
                                                     /\ \A s \in Sessions : ~Concerns(t, s)'
  BY DEF OrdersFit, Asked, FitsIn, Concerns, News
<1>0. /\ OrdersFit /\ BeginningsAreQuiet /\ Settled /\ NoSession \notin Sessions
      /\ outbox \in [Transports -> Seq(Orders)]
  BY NotYet DEF InStepBeforeShutdown, InStep, ManagerAssumption, Typed
<1>1. BindingChange(t) /\ AskedChange(t)
  BY BindingChanges, AskedChanges
<1>2. CASE outbox'[t] = <<>>
  <2>1. Asked(t)' = {}
    BY <1>2 DEF Asked, Entries
  <2>. QED
    BY <2>1
<1>3. CASE Asked(t)' # {} /\ Asked(t)' \subseteq Asked(t) /\ (PleaseStart \in Asked(t)' => outbox'[t] = outbox[t])
  <2>1. Asked(t) # {}
    BY <1>3
  <2>2. key'[t] = key[t] \/ (Asked(t) \subseteq {PleaseStart, PleaseDetach} /\ PleaseStart \notin Asked(t))
    BY <2>1, KeyStays
  <2>3. ASSUME NEW order \in Asked(t)' PROVE FitsIn(t, order)'
    <3>1. order \in Asked(t) /\ FitsIn(t, order)
      BY <1>0, <1>3 DEF OrdersFit
    <3>. QED
      BY <2>2, <3>1 DEF FitsIn
  <2>4. ASSUME PleaseDetach \in Asked(t)' PROVE binding'[t] \in {"Detaching", "Closed"}
    <3>1. binding[t] \in {"Detaching", "Closed"}
      BY <1>0, <1>3, <2>4 DEF OrdersFit
    <3>. QED
      BY <1>1, <3>1 DEF BindingChange, BindingMoves, Connected, Unused
  <2>5. ASSUME PleaseStart \in Asked(t)'
        PROVE  /\ outbox'[t] = <<PleaseStart>> /\ key'[t] = NoSession
               /\ \A s \in Sessions : ~Concerns(t, s)'
    <3>1. /\ PleaseStart \in Asked(t) /\ outbox[t] = <<PleaseStart>> /\ key[t] = NoSession
          /\ \A s \in Sessions : ~Concerns(t, s)
      BY <1>0, <1>3, <2>5 DEF OrdersFit
    <3>2. key'[t] = NoSession /\ outbox'[t] = <<PleaseStart>>
      BY <1>3, <2>2, <2>5, <3>1
    <3>3. \A s \in Sessions : ~Registered(s, t)
      BY <3>1, <3>2 DEF Registered
    <3>. QED
      BY <1>0, <3>1, <3>2, <3>3, ConcernChanges
  <2>. QED
    BY <2>3, <2>4, <2>5
<1>4. CASE outbox'[t] = outbox[t]
  <2>1. Asked(t)' = Asked(t)
    BY <1>4 DEF Asked
  <2>. QED
    BY <1>3, <1>4, <2>1
<1>5. ASSUME NEW order \in Asked(t), Granted(t, order)
      PROVE  /\ Asked(t)' \subseteq Asked(t)
             /\ PleaseStart \in Asked(t)' => outbox'[t] = outbox[t]
  <2>1. Asked(t)' \subseteq Asked(t) /\ outbox'[t] = Tail(outbox[t])
    BY <1>5 DEF Granted
  <2>2. ASSUME PleaseStart \in Asked(t)' PROVE FALSE
    <3>1. outbox[t] = <<PleaseStart>>
      BY <1>0, <2>1, <2>2 DEF OrdersFit
    <3>2. outbox'[t] = <<>>
      BY <2>1, <3>1
    <3>. QED
      BY <2>2, <3>2 DEF Asked, Entries
  <2>. QED
    BY <2>1, <2>2
<1>6. ASSUME NEW c \in Callers, NEW order \in Orders, Ordered(t, c, order),
             outbox'[t] = Append(outbox[t], order), Asked(t)' = Asked(t) \union {order}
      PROVE  /\ \A o \in Asked(t)' : FitsIn(t, o)'
             /\ PleaseDetach \in Asked(t)' => binding'[t] \in {"Detaching", "Closed"}
             /\ PleaseStart \in Asked(t)' => /\ outbox'[t] = <<PleaseStart>>
                                             /\ key'[t] = NoSession
                                             /\ \A s \in Sessions : ~Concerns(t, s)'
  <2>1. /\ FitsIn(t, order) /\ key'[t] = key[t]
        /\ order = PleaseDetach => binding'[t] = "Detaching"
        /\ \/ order = PleaseStart /\ key[t] = NoSession /\ Quiet(t)
           \/ order # PleaseStart /\ key[t] # NoSession
    BY <1>6, OrderedFits
  <2>2. \A o \in Asked(t)' : FitsIn(t, o)'
    <3>1. \A o \in Asked(t)' : FitsIn(t, o)
      BY <1>0, <1>6, <2>1 DEF OrdersFit
    <3>. QED
      BY <2>1, <3>1 DEF FitsIn
  <2>3. PleaseDetach \in Asked(t)' => binding'[t] \in {"Detaching", "Closed"}
    <3>1. PleaseDetach \in Asked(t) => binding[t] \in {"Detaching", "Closed"}
      BY <1>0 DEF OrdersFit
    <3>2. binding[t] \in {"Detaching", "Closed"} => binding'[t] \in {"Detaching", "Closed"}
      BY <1>1 DEF BindingChange, BindingMoves, Connected, Unused
    <3>. QED
      BY <1>6, <2>1, <3>1, <3>2
  <2>4. ASSUME PleaseStart \in Asked(t)'
        PROVE  /\ outbox'[t] = <<PleaseStart>> /\ key'[t] = NoSession
               /\ \A s \in Sessions : ~Concerns(t, s)'
    <3>1. PleaseStart \notin Asked(t) /\ order = PleaseStart
      <4>1. PleaseStart \in Asked(t) => key[t] = NoSession /\ outbox[t] = <<PleaseStart>>
        BY <1>0 DEF OrdersFit
      <4>2. Quiet(t) => outbox[t] # <<PleaseStart>>
        BY DEF Quiet
      <4>. QED
        BY <1>6, <2>1, <2>4, <4>1, <4>2
    <3>2. Quiet(t) /\ key[t] = NoSession
      BY <2>1, <3>1
    <3>3. outbox'[t] = <<PleaseStart>>
      BY <1>6, <3>1, <3>2 DEF Quiet
    <3>4. \A s \in Sessions : ~Registered(s, t)
      BY <3>1 DEF Registered
    <3>5. \A s \in Sessions : ~Concerns(t, s)
      BY <3>2 DEF Concerns, Quiet
    <3>. QED
      BY <1>0, <2>1, <3>2, <3>3, <3>4, <3>5, ConcernChanges
  <2>. QED
    BY <2>2, <2>3, <2>4
<1>7. CASE Asked(t)' = {}
  BY <1>7
<1>. QED
  BY <1>1, <1>2, <1>3, <1>4, <1>5, <1>6, <1>7 DEF AskedChange

(* A connection is for one session: its own, or the one that the broker    *)
(* registered for it.                                                      *)
LEMMA OneSessionStep ==
    ASSUME ManagerAssumption, Typed, SettledBeforeShutdown, InStepBeforeShutdown, Next,
           ~shutting_down'
    PROVE  OneSession'
<1>. SUFFICES ASSUME NEW t \in Transports, NEW s \in Sessions, NEW r \in Sessions,
                     Concerns(t, s)', Concerns(t, r)' \/ key'[t] = r
              PROVE  s = r
  BY DEF OneSession, Concerns, News
<1>0. /\ OneSession /\ OrdersFit /\ BeginningsAreQuiet /\ NoSession \notin Sessions
      /\ t # None
  BY NotYet, TransportIds DEF InStepBeforeShutdown, InStep, ManagerAssumption
<1>. DEFINE For(q) == Concerns(t, q) \/ key[t] = q \/ Registered(q, t)
<1>1. ASSUME NEW q \in Sessions, Concerns(t, q)' PROVE For(q)
  BY <1>1, ConcernChanges
<1>2. ASSUME NEW q \in Sessions, Registered(q, t)
      PROVE  key[t] = NoSession /\ \A p \in Sessions : ~Concerns(t, p)
  BY <1>0, <1>2 DEF Registered, OrdersFit
<1>3. ASSUME NEW p \in Sessions, NEW q \in Sessions, For(p), For(q) PROVE p = q
  <2>1. CASE Registered(p, t)
    <3>1. Registered(q, t) /\ ~Concerns(t, q)
      BY <1>0, <1>2, <1>3, <2>1
    <3>2. holder[q] # t /\ holder'[q] = t
      BY <3>1 DEF Concerns, Registered
    <3>. QED
      BY <2>1, <3>2 DEF Registered
  <2>2. CASE Registered(q, t)
    <3>1. ~Concerns(t, p) /\ key[t] # p
      BY <1>0, <1>2, <2>2
    <3>2. Registered(p, t)
      BY <1>3, <3>1
    <3>. QED
      BY <2>1, <3>2
  <2>3. CASE ~Registered(p, t) /\ ~Registered(q, t)
    BY <1>0, <1>3, <2>3 DEF OneSession
  <2>. QED
    BY <2>1, <2>2, <2>3
<1>4. CASE key'[t] = key[t]
  BY <1>1, <1>3, <1>4
<1>5. CASE Connected(t)
  <2>1. link[t] = "none" /\ Quiet(t)
    BY <1>0, <1>5 DEF Connected, Unused, BeginningsAreQuiet
  <2>2. Quiet(t)'
    BY <2>1, SilenceBroken
  <2>. QED
    BY <2>2 DEF Quiet, Concerns
<1>6. CASE /\ binding[t] = "AwaitingStart" /\ key'[t] \in Sessions
           /\ <<"started", key'[t]>> \in News(t)
  <2>1. For(key'[t])
    BY <1>6 DEF Concerns, Replies
  <2>2. For(s) /\ For(r)
    BY <1>1, <2>1
  <2>. QED
    BY <1>3, <2>2
<1>. QED
  BY <1>4, <1>5, <1>6, BindingChanges DEF BindingChange

(* What a connection says to be over is its session.                       *)
LEMMA OverHeard ==
    ASSUME ManagerAssumption, Typed, SettledBeforeShutdown, InStepBeforeShutdown,
           ~shutting_down, NEW u \in Transports, inbox[u] # <<>>,
           Head(inbox[u])[1] \in SessionOver, binding[u] \notin Unkeyed
    PROVE  key[u] \in Sessions /\ stage[key[u]] = "ended"
<1>0. /\ EndsAreTrue /\ OneSession /\ key[u] \in Sessions /\ inbox[u] \in Seq(Answers)
  BY DEF InStepBeforeShutdown, InStep, Typed, TypeOK
<1>. DEFINE news == Head(inbox[u])
<1>1. news \in Answers /\ news \in News(u)
  BY <1>0, HeadTailProperties, EntriesOfTail DEF News
<1>2. news[2] \in Sessions /\ stage[news[2]] = "ended"
  BY <1>0, <1>1 DEF EndsAreTrue
<1>3. Concerns(u, news[2])
  BY <1>1, <1>2 DEF Concerns, Answers, Replies
<1>. QED
  BY <1>0, <1>2, <1>3 DEF OneSession

(* A session whose start was acknowledged is seen after the loss of a      *)
(* connection, too (publish_confirmed_pending_unreachable).                *)
LEMMA LossSighted ==
    ASSUME NEW t \in Transports, NEW s \in Sessions, NoSession \notin Sessions,
           records \in [Sessions -> Rows], binding \in [Transports -> Bindings],
           key \in [Transports -> Sessions \union {NoSession}],
           \A u \in Transports : Shown(u), Backed(s), Sighted(s),
           records' = RecordsAfterLoss(t), binding' = [binding EXCEPT ![t] = "Closed"]
    PROVE  Sighted(s)'
<1>1. CASE key[t] # s
  BY <1>1 DEF RecordsAfterLoss, Sighted, Published, Backed
<1>2. CASE key[t] = s
  <2>1. /\ records'[s] = RowAfterLoss(t) /\ records[s] \in Rows
        /\ binding[t] \in {"Pending", "ConfirmedPending"} => records[s] = Row("pending", t, None)
    BY <1>2 DEF RecordsAfterLoss, Shown
  <2>2. CASE binding[t] = "Pending"
    BY <2>1, <2>2 DEF Sighted, Published, Row
  <2>3. CASE binding[t] = "ConfirmedPending"
    BY <1>2, <2>1, <2>3 DEF RowAfterLoss, Sighted, Published, PublishUnreachable, Row
  <2>4. CASE binding[t] \notin {"Pending", "ConfirmedPending"}
    <3>1. RowAfterLoss(t) \in {records[s], MarkUnreachable(records[s], t), FailReattach(records[s], t)}
      BY <1>2, <2>4 DEF RowAfterLoss
    <3>2. CASE Published(records[s])
      BY <2>1, <3>1, <3>2 DEF Sighted, Published, MarkUnreachable, FailReattach, Row
    <3>3. CASE ~Published(records[s])
      <4>1. records'[s] = records[s]
        BY <2>1, <3>1, <3>3 DEF MarkUnreachable, FailReattach
      <4>2. binding[records[s].transport] = "ConfirmedPending" /\ records[s].transport # t
        BY <2>4, <3>3 DEF Sighted
      <4>. QED
        BY <3>3, <4>1, <4>2 DEF Sighted, Published, Backed
    <3>. QED
      BY <3>2, <3>3
  <2>. QED
    BY <2>2, <2>3, <2>4
<1>. QED
  BY <1>1, <1>2

(* A row that shows an acknowledged session is only lost when the session  *)
(* is over.                                                                *)
LEMMA SightedKept ==
    ASSUME ManagerAssumption, Typed, SettledBeforeShutdown, InStepBeforeShutdown, Next,
           ~shutting_down', NEW s \in Sessions, Sighted(s), stage'[s] # "ended"
    PROVE  Sighted(s)'
<1>0. /\ records \in [Sessions -> Rows] /\ binding \in [Transports -> Bindings]
      /\ key \in [Transports -> Sessions \union {NoSession}]
      /\ mine \in [Callers -> Ids] /\ at \in [Callers -> Sessions \union {NoSession}]
      /\ \A c \in Callers : mine[c] \in Ids /\ (mine[c] = None <=> pc[c] = "idle")
      /\ \A c \in Callers : pc[c] = "connect" => binding[mine[c]] = "none"
      /\ \A c \in Callers : pc[c] \in {"confirm", "publish", "discard"} => at[c] = key[mine[c]]
      /\ \A c \in Callers : pc[c] = "discard" => binding[mine[c]] # "ConfirmedPending"
      /\ \A u \in Transports : Shown(u)
      /\ Backed(s) /\ Sighted(s) /\ stage'[s] # "ended" /\ NoSession \notin Sessions
      /\ \A u \in Transports : key[u] = NoSession => binding[u] \in Unkeyed
  BY NotYet, TransportIds DEF Settled, IdsAreFresh, Unused, Typed, TypeOK, RowsAreBound,
     EventsGoToTheirCaller, InStepBeforeShutdown, InStep, Unacknowledged, ManagerAssumption
<1>1. CASE UNCHANGED <<records, binding>>
  BY <1>0, <1>1 DEF Sighted, Published
<1>2. ASSUME NEW d \in Callers, NEW r \in Sessions, reattach(d, r) PROVE Sighted(s)'
  BY <1>0, <1>2 DEF Sighted, reattach, Begin, conns, Published, Row, Backed
<1>3. ASSUME NEW d \in Callers, Connect(d) PROVE Sighted(s)'
  BY <1>0, <1>3 DEF Sighted, Connect
<1>4. ASSUME NEW d \in Callers, CannotConnect(d) PROVE Sighted(s)'
  BY <1>0, <1>4 DEF Sighted, CannotConnect, Published, Row, Backed, RecordsAfterFailure, Starting,
       FailReattach
<1>5. ASSUME NEW d \in Callers, HandshakeFails(d) PROVE Sighted(s)'
  BY <1>0, <1>5 DEF Sighted, HandshakeFails, Published, Row, Backed, RecordsAfterFailure,
       Starting, FailReattach
<1>6. ASSUME NEW d \in Callers, confirm_pending(d) PROVE Sighted(s)'
  BY <1>0, <1>6 DEF Sighted, confirm_pending, maps
<1>7. ASSUME NEW d \in Callers, publish_pending(d) PROVE Sighted(s)'
  BY <1>0, <1>7 DEF Sighted, publish_pending, Published, Row, Backed, OwnsPending
<1>8. ASSUME NEW d \in Callers, discard_pending(d) PROVE Sighted(s)'
  BY <1>0, <1>8 DEF Sighted, discard_pending, Published, Row, Backed, Discard, Absent
<1>9. ASSUME NEW d \in Callers, WriteDetach(d) PROVE Sighted(s)'
  BY <1>0, <1>9 DEF Sighted, WriteDetach, maps
<1>10. ASSUME NEW d \in Callers, WriteAttach(d) PROVE Sighted(s)'
  BY <1>0, <1>10 DEF Sighted, WriteAttach, maps
<1>11. ASSUME NEW d \in Callers, LoseTransport(d) PROVE Sighted(s)'
  <2>1. /\ mine[d] \in Transports /\ records' = RecordsAfterLoss(mine[d])
        /\ binding' = [binding EXCEPT ![mine[d]] = "Closed"]
    BY <1>0, <1>11 DEF LoseTransport, handle_transport_loss, Ids
  <2>. QED
    BY <1>0, <2>1, LossSighted
<1>12. ASSUME NEW u \in Transports, ReadStarted(u) PROVE Sighted(s)'
  <2>1. binding[u] = "AwaitingStart" /\ Head(inbox[u])[2] \in Sessions
    <3>1. inbox[u] \in Seq(Answers) /\ inbox[u] # <<>> /\ Head(inbox[u])[1] = "started"
      BY <1>12 DEF Typed, ReadStarted, Reads
    <3>2. Head(inbox[u])[2] \in Sessions
      BY <3>1, HeadTailProperties DEF Answers
    <3>. QED
      BY <1>12, <3>2 DEF ReadStarted, Reads
  <2>. QED
    BY <1>0, <1>12, <2>1 DEF Sighted, ReadStarted, ReadsLast, Published, MayInsert, Absent, Row, Backed
<1>13. ASSUME NEW u \in Transports, ReadPendingOver(u) PROVE Sighted(s)'
  <2>1. key[u] \in Sessions /\ stage[key[u]] = "ended"
    BY <1>0, <1>13, OverHeard DEF ReadPendingOver, Reads, Unkeyed
  <2>2. key[u] # s
    BY <1>0, <2>1, EndedStaysEnded
  <2>3. records'[s] = records[s] /\ (records[s].state = "pending" => records[s].transport # u)
    BY <1>0, <1>13, <2>1, <2>2 DEF ReadPendingOver, Changes, Backed
  <2>. QED
    BY <1>0, <1>13, <2>3 DEF ReadPendingOver, ReadsLast, Sighted, Published, Backed
<1>14. ASSUME NEW u \in Transports, ReadOver(u) PROVE Sighted(s)'
  <2>1. key[u] \in Sessions /\ stage[key[u]] = "ended"
    BY <1>0, <1>14, OverHeard DEF ReadOver, Reads, Unkeyed
  <2>2. key[u] # s
    BY <1>0, <2>1, EndedStaysEnded
  <2>3. records'[s] = records[s] /\ (records[s].state = "pending" => records[s].transport # u)
    BY <1>0, <1>14, <2>1, <2>2 DEF ReadOver, Changes, Backed
  <2>. QED
    BY <1>0, <1>14, <2>3 DEF ReadOver, ReadsLast, Sighted, Published, Backed
<1>15. ASSUME NEW u \in Transports, ReadAttached(u) PROVE Sighted(s)'
  BY <1>0, <1>15 DEF Sighted, ReadAttached, Changes, ReadsLast, Reads, Published, Row,
       CanComplete, Backed, Unkeyed
<1>16. ASSUME NEW u \in Transports, ReadDetached(u) PROVE Sighted(s)'
  BY <1>0, <1>16 DEF Sighted, ReadDetached, Changes, ReadsLast, Reads, Published, Row,
       CanMarkDetached, Backed, Unkeyed
<1>17. ASSUME NEW u \in Transports, ReadStopped(u) PROVE Sighted(s)'
  BY <1>0, <1>17 DEF Sighted, ReadStopped, ReadsLast, Reads, Published, Row
<1>18. ASSUME NEW u \in Transports, ReadUnexpected(u) PROVE Sighted(s)'
  <2>1. /\ u \in Transports /\ records' = RecordsAfterLoss(u)
        /\ binding' = [binding EXCEPT ![u] = "Closed"]
    BY <1>0, <1>18 DEF ReadUnexpected, ReadsLast
  <2>. QED
    BY <1>0, <2>1, LossSighted
<1>19. ASSUME NEW u \in Transports, ReadEnd(u) PROVE Sighted(s)'
  <2>1. /\ u \in Transports /\ records' = RecordsAfterLoss(u)
        /\ binding' = [binding EXCEPT ![u] = "Closed"]
    BY <1>0, <1>19 DEF ReadEnd, ReadsLast
  <2>. QED
    BY <1>0, <2>1, LossSighted
<1>. QED
  <2>1. CASE records' # records
    BY <2>1, <1>2, <1>4, <1>5, <1>7, <1>8, <1>11, <1>12, <1>13, <1>14, <1>15, <1>16, <1>18, <1>19,
         RowMovers, NotYet DEF MainStep, WorkerStep, BeginShutdown
  <2>2. CASE binding' # binding
    BY <2>2, <1>3, <1>6, <1>7, <1>8, <1>9, <1>10, <1>11, <1>12, <1>13, <1>14, <1>15, <1>16, <1>17,
         <1>18, <1>19, BindingMovers, NotYet DEF MainStep, WorkerStep
  <2>3. CASE UNCHANGED <<records, binding>>
    BY <1>1, <2>3
  <2>. QED
    BY <2>1, <2>2, <2>3

(* What makes a start confirmed is that it is acknowledged.                *)
LEMMA AckAsked ==
    ASSUME ManagerAssumption, Typed, SettledBeforeShutdown, InStepBeforeShutdown, Next,
           ~shutting_down', NEW t \in Transports, Confirmed(t), link[t] = "up"
    PROVE  <<"ack", key[t]>> \in Asked(t)'
<1>1. PICK c \in Callers : confirm_pending(c) /\ mine[c] = t
  BY DEF Confirmed
<1>2. at[c] = key[t] /\ key[t] \in Sessions \union {NoSession}
  BY <1>1, NotYet DEF Settled, EventsGoToTheirCaller, confirm_pending, Typed, TypeOK
<1>3. <<"ack", key[t]>> \in Orders /\ Written(t, <<<<"ack", key[t]>>>>)
  BY <1>1, <1>2 DEF confirm_pending, StartAck, Orders, Requests
<1>4. Asked(t)' = Asked(t) \union {<<"ack", key[t]>>}
  BY <1>3, AskedWhenWritten DEF Typed
<1>. QED
  BY <1>4

(* Every acknowledged session has a row.                                   *)
LEMMA AcknowledgedStep ==
    ASSUME ManagerAssumption, Typed, SettledBeforeShutdown, InStepBeforeShutdown, Next,
           ~shutting_down'
    PROVE  AcknowledgedAreSighted'
<1>0. /\ AcknowledgedAreSighted /\ Settled
      /\ mine \in [Callers -> Ids] /\ binding \in [Transports -> Bindings]
      /\ \A d \in Callers : mine[d] = None <=> pc[d] = "idle"
  BY NotYet DEF InStepBeforeShutdown, InStep, Typed, TypeOK
<1>. SUFFICES ASSUME NEW s \in Sessions, stage'[s] # "ended",
                     stage'[s] = "confirmed" \/ Acknowledged(s)'
              PROVE  Sighted(s)'
  BY DEF AcknowledgedAreSighted
<1>1. ASSUME stage[s] = "confirmed" \/ Acknowledged(s) PROVE Sighted(s)'
  <2>1. stage[s] # "ended"
    BY EndedStaysEnded
  <2>2. Sighted(s)
    BY <1>0, <1>1, <2>1 DEF AcknowledgedAreSighted
  <2>. QED
    BY <2>2, SightedKept
<1>2. ASSUME stage'[s] = "confirmed", stage[s] # "confirmed" PROVE Acknowledged(s)
  BY <1>2, SessionChanges DEF SessionChange, LeaseMoves, Registered, Ends, Announced, Acknowledged
<1>3. ASSUME NEW t \in Transports, <<"ack", s>> \in Asked(t)', <<"ack", s>> \notin Asked(t)
      PROVE  Sighted(s)'
  <2>1. PICK c \in Callers, order \in Orders : Ordered(t, c, order) /\ order = <<"ack", s>>
    <3>1. AskedChange(t)
      BY AskedChanges
    <3>2. outbox'[t] # outbox[t] /\ outbox'[t] # <<>>
      BY <1>3 DEF Asked, Entries
    <3>3. ~\E order \in Asked(t) : Granted(t, order)
      BY <1>3 DEF Granted
    <3>. QED
      BY <1>3, <3>1, <3>2, <3>3 DEF AskedChange
  <2>2. /\ mine[c] = t /\ pc[c] = "confirm" /\ binding[t] = "Pending"
        /\ binding'[t] = "ConfirmedPending" /\ at[c] = s
    BY <2>1 DEF Ordered, PleaseStart, PleaseDetach
  <2>3. key[t] = s
    BY <1>0, <2>2 DEF Settled, EventsGoToTheirCaller
  <2>4. records[s] = Row("pending", t, None)
    BY <1>0, <2>2, <2>3 DEF Settled, RowsAreBound, Shown
  <2>5. PICK d \in Callers : confirm_pending(d)
    BY <2>2, BindingChanges DEF BindingChange, BindingMoves, Connected, Confirmed
  <2>6. UNCHANGED records
    BY <2>5 DEF confirm_pending, maps
  <2>. QED
    BY <2>2, <2>4, <2>6 DEF Sighted, Row
<1>. QED
  BY <1>1, <1>2, <1>3 DEF Acknowledged, Asked

(* The broker stands by what the desktop believes, while the connection    *)
(* holds.                                                                  *)
LEMMA LeaseKept ==
    ASSUME ManagerAssumption, Typed, SettledBeforeShutdown, InStepBeforeShutdown, Next,
           ~shutting_down', NEW t \in Transports, NEW s \in Sessions, Leased(t, s),
           link[t] = "up", link'[t] = "up", Believed(t, s)'
    PROVE  Leased(t, s)'
<1>0. /\ OrdersFit /\ EndsAreTrue /\ t # None
      /\ binding'[t] \notin {"none", "Detaching", "Closed"} /\ ~Connected(t)
  BY NotYet, TransportIds DEF InStepBeforeShutdown, InStep, Believed, Connected, Unused
<1>1. /\ BindingChange(t) /\ AskedChange(t) /\ NewsChange(t) /\ SessionChange(s)
  BY BindingChanges, AskedChanges, NewsChanges, SessionChanges
<1>2. binding[t] \notin {"Detaching", "Closed"} /\ PleaseDetach \notin Asked(t)
  <2>1. binding[t] \notin {"Detaching", "Closed"}
    BY <1>0, <1>1 DEF BindingChange, BindingMoves
  <2>. QED
    BY <1>0, <2>1 DEF OrdersFit
<1>3. CASE stage'[s] = "confirmed" /\ holder'[s] = t
  BY <1>3 DEF Leased
<1>4. CASE notify'[s] = t
  BY <1>4 DEF Leased
<1>5. CASE stage[s] = "confirmed" /\ holder[s] = t
  <2>1. \/ stage'[s] = "confirmed" /\ holder'[s] = t
        \/ notify'[s] = t
    BY <1>0, <1>1, <1>2, <1>5 DEF SessionChange, LeaseMoves, Registered, Ends, Announced
  <2>. QED
    BY <1>3, <1>4, <2>1
<1>6. CASE /\ stage[s] = "unconfirmed" /\ holder[s] = t
           /\ binding[t] \in {"AwaitingStart", "Pending"} \/ <<"ack", s>> \in Asked(t)
  <2>1. \/ stage'[s] = "confirmed" /\ holder'[s] = t
        \/ notify'[s] = t
        \/ stage'[s] = "unconfirmed" /\ holder'[s] = t
    BY <1>0, <1>1, <1>2, <1>6 DEF SessionChange, LeaseMoves, Registered, Ends, Announced
  <2>2. CASE stage'[s] = "unconfirmed" /\ holder'[s] = t
    <3>1. CASE <<"ack", s>> \in Asked(t)
      <4>1. ASSUME NEW order \in Asked(t), Granted(t, order) PROVE <<"ack", s>> \in Asked(t)'
        <5>1. order # <<"ack", s>>
          BY <1>6, <2>2, <4>1 DEF Granted
        <5>. QED
          BY <3>1, <4>1, <5>1 DEF Granted
      <4>2. <<"ack", s>> \in Asked(t)'
        BY <1>1, <3>1, <4>1 DEF AskedChange, Asked
      <4>. QED
        BY <2>2, <4>2 DEF Leased
    <3>2. CASE binding'[t] \in {"AwaitingStart", "Pending"}
      BY <2>2, <3>2 DEF Leased
    <3>3. CASE binding[t] = "Pending" /\ binding'[t] = "ConfirmedPending"
      <4>1. <<"ack", key[t]>> \in Asked(t)' /\ key'[t] = key[t]
        BY <1>1, <3>3, AckAsked DEF BindingChange, BindingMoves, Connected, Unused
      <4>2. key'[t] = s
        BY <3>3 DEF Believed
      <4>. QED
        BY <2>2, <4>1, <4>2 DEF Leased
    <3>4. binding[t] \in {"AwaitingStart", "Pending"} =>
             \/ binding'[t] \in {"AwaitingStart", "Pending"}
             \/ binding[t] = "Pending" /\ binding'[t] = "ConfirmedPending"
      BY <1>0, <1>1 DEF BindingChange, BindingMoves
    <3>. QED
      BY <1>6, <3>1, <3>2, <3>3, <3>4
  <2>. QED
    BY <1>3, <1>4, <2>1, <2>2
<1>7. CASE notify[s] = t
  <2>1. notify'[s] = t \/ <<"exited", s>> \in News(t)'
    BY <1>0, <1>1, <1>7 DEF SessionChange, Ends, Announced, EndsAreTrue
  <2>2. CASE <<"exited", s>> \in News(t)'
    BY <2>2 DEF Leased, SessionOver
  <2>. QED
    BY <1>4, <2>1, <2>2
<1>8. ASSUME NEW reply \in SessionOver, <<reply, s>> \in News(t) PROVE Leased(t, s)'
  <2>1. <<reply, s>> \in News(t)'
    <3>1. ASSUME NEW news, Heard(t, news) PROVE news # <<reply, s>>
      BY <1>0, <3>1 DEF Heard
    <3>. QED
      BY <1>1, <1>8, <3>1 DEF NewsChange, Heard, Answered
  <2>. QED
    BY <2>1 DEF Leased
<1>. QED
  BY <1>5, <1>6, <1>7, <1>8 DEF Leased

(* The desktop believes nothing new that the broker did not grant.         *)
LEMMA BeliefComes ==
    ASSUME ManagerAssumption, Typed, SettledBeforeShutdown, InStepBeforeShutdown, Next,
           ~shutting_down', NEW t \in Transports, NEW s \in Sessions,
           ~Connected(t), Believed(t, s)'
    PROVE  Believed(t, s) \/ Leased(t, s)'
<1>0. BindingChange(t) /\ NewsChange(t)
  BY BindingChanges, NewsChanges
<1>1. CASE binding'[t] = "AwaitingStart" /\ <<"started", s>> \in News(t)'
  <2>1. binding[t] = "AwaitingStart"
    BY <1>0, <1>1 DEF BindingChange, BindingMoves
  <2>2. CASE <<"started", s>> \in News(t)
    BY <2>1, <2>2 DEF Believed
  <2>3. CASE <<"started", s>> \notin News(t)
    <3>1. PICK r \in Sessions \union {NoSession}, said \in Replies : Answered(t, said, r)
      BY <1>0, <1>1, <2>3 DEF NewsChange, Heard
    <3>2. <<"started", s>> = <<said, r>>
      BY <1>1, <2>3, <3>1 DEF Answered
    <3>3. said = "started" /\ r = s
      BY <3>2
    <3>4. holder'[s] = t /\ stage'[s] = "unconfirmed"
      BY <3>1, <3>3 DEF Answered, Answerable
    <3>. QED
      BY <1>1, <3>4 DEF Leased
  <2>. QED
    BY <2>2, <2>3
<1>2. ASSUME NEW q \in Sessions \union {NoSession}, binding'[t] \in {"AwaitingAttach", "Attaching"},
             key'[t] = s, <<"attached", q>> \in News(t)'
      PROVE  Believed(t, s) \/ Leased(t, s)'
  <2>1. binding[t] \in {"AwaitingAttach", "Attaching"} /\ key[t] = s
    BY <1>0, <1>2 DEF BindingChange, BindingMoves
  <2>2. CASE <<"attached", q>> \in News(t)
    BY <2>1, <2>2 DEF Believed
  <2>3. CASE <<"attached", q>> \notin News(t)
    <3>1. PICK r \in Sessions \union {NoSession}, said \in Replies : Answered(t, said, r)
      BY <1>0, <1>2, <2>3 DEF NewsChange, Heard
    <3>2. <<"attached", q>> = <<said, r>>
      BY <1>2, <2>3, <3>1 DEF Answered
    <3>3. said = "attached"
      BY <3>2
    <3>4. stage'[s] = "confirmed" /\ holder'[s] = t
      BY <2>1, <3>1, <3>3 DEF Answered, Answerable, ManagerAssumption
    <3>. QED
      BY <3>4 DEF Leased
  <2>. QED
    BY <2>2, <2>3
<1>3. CASE binding'[t] \in {"Pending", "ConfirmedPending", "Attached"} /\ key'[t] = s
  <2>1. CASE binding[t] \in {"Pending", "ConfirmedPending", "Attached"} /\ key[t] = s
    BY <2>1 DEF Believed
  <2>2. CASE binding[t] = "AwaitingStart" /\ <<"started", s>> \in News(t)
    BY <2>2 DEF Believed
  <2>3. ASSUME NEW q \in Sessions \union {NoSession}, binding[t] = "Attaching", key[t] = s,
               <<"attached", q>> \in News(t)
        PROVE  Believed(t, s)
    BY <2>3 DEF Believed
  <2>. QED
    BY <1>0, <1>3, <2>1, <2>2, <2>3 DEF BindingChange, BindingMoves
<1>. QED
  BY <1>1, <1>2, <1>3 DEF Believed

LEMMA BeliefsStep ==
    ASSUME ManagerAssumption, Typed, SettledBeforeShutdown, InStepBeforeShutdown, Next,
           ~shutting_down'
    PROVE  BeliefsAreLeases'
<1>. SUFFICES ASSUME NEW t \in Transports, NEW s \in Sessions, link'[t] = "up", Believed(t, s)'
              PROVE  Leased(t, s)'
  BY DEF BeliefsAreLeases, Believed, Leased, News, Asked
<1>0. BeliefsAreLeases /\ BeginningsAreQuiet
  BY NotYet DEF InStepBeforeShutdown, InStep
<1>1. CASE Connected(t)
  <2>1. link[t] = "none" /\ Quiet(t)
    BY <1>0, <1>1 DEF Connected, Unused, BeginningsAreQuiet
  <2>2. Quiet(t)'
    BY <2>1, SilenceBroken
  <2>3. binding'[t] \in {"AwaitingStart", "AwaitingAttach"}
    BY <1>1, BindingChanges DEF Connected, Unused, Connect, Typed, TypeOK
  <2>. QED
    BY <2>2, <2>3 DEF Quiet, Believed
<1>2. CASE ~Connected(t)
  <2>1. link[t] = "up"
    BY <1>2, LinkChanges DEF LinkChange
  <2>2. Believed(t, s) => Leased(t, s)
    BY <1>0, <2>1 DEF BeliefsAreLeases
  <2>. QED
    BY <1>2, <2>1, <2>2, BeliefComes, LeaseKept
<1>. QED
  BY <1>1, <1>2

(* Together: until the shutdown the desktop and the brokers are in step.   *)
LEMMA InStepStep ==
    ASSUME ManagerAssumption, Typed, SettledBeforeShutdown, InStepBeforeShutdown, Next
    PROVE  InStepBeforeShutdown'
BY BeginningsStep, OrdersStep, OneSessionStep, EndsStep, UnacknowledgedStep, AcknowledgedStep,
   BeliefsStep DEF InStepBeforeShutdown, InStep

(* Nothing was said at first.                                              *)
LEMMA InitInStep ==
    ASSUME ManagerAssumption, Init
    PROVE  InStepBeforeShutdown
<1>0. /\ \A t \in Transports : News(t) = {} /\ Asked(t) = {} /\ outbox[t] = <<>>
      /\ \A s \in Sessions : /\ stage[s] = "unborn" /\ holder[s] = None /\ notify[s] = None
                             /\ \A t \in Transports : holder[s] # t /\ notify[s] # t
      /\ \A t \in Transports : binding[t] = "none" /\ key[t] = NoSession
      /\ \A c \in Callers : pc[c] = "idle"
  BY TransportIds DEF Init, Lease!Init, News, Asked, Entries
<1>1. \A t \in Transports : Quiet(t)
  BY <1>0 DEF Quiet
<1>2. BeginningsAreQuiet
  BY <1>0, <1>1 DEF BeginningsAreQuiet, Opening
<1>3. OrdersFit /\ OneSession
  BY <1>0 DEF OrdersFit, OneSession, Concerns
<1>4. EndsAreTrue /\ Unacknowledged
  BY <1>0 DEF EndsAreTrue, Unacknowledged
<1>5. AcknowledgedAreSighted
  BY <1>0 DEF AcknowledgedAreSighted, Acknowledged
<1>6. BeliefsAreLeases
  BY <1>0 DEF BeliefsAreLeases, Believed
<1>. QED
  BY <1>2, <1>3, <1>4, <1>5, <1>6 DEF InStepBeforeShutdown, InStep

(* A step that changes nothing keeps it.                                   *)
LEMMA StutteringInStep ==
    ASSUME InStepBeforeShutdown, UNCHANGED vars
    PROVE  InStepBeforeShutdown'
<1>1. UNCHANGED <<records, shutting_down, binding, key, link, reader, pc, mine, at, stage, holder,
                  inbox, outbox, notify>>
  BY DEF vars, maps, conns, calls, remote, wire
<1>. SUFFICES ASSUME ~shutting_down, InStep PROVE InStep'
  BY <1>1 DEF InStepBeforeShutdown
<1>2. \A t : News(t)' = News(t) /\ Asked(t)' = Asked(t) /\ (Quiet(t)' <=> Quiet(t))
  BY <1>1 DEF News, Asked, Quiet
<1>3. BeginningsAreQuiet' /\ OrdersFit'
  BY <1>1, <1>2 DEF InStep, BeginningsAreQuiet, Opening, OrdersFit, FitsIn, Concerns
<1>4. OneSession' /\ EndsAreTrue' /\ Unacknowledged'
  BY <1>1, <1>2 DEF InStep, OneSession, Concerns, EndsAreTrue, Unacknowledged
<1>5. AcknowledgedAreSighted'
  BY <1>1, <1>2 DEF InStep, AcknowledgedAreSighted, Acknowledged, Sighted, Published
<1>6. BeliefsAreLeases'
  BY <1>1, <1>2 DEF InStep, BeliefsAreLeases, Believed, Leased
<1>. QED
  BY <1>3, <1>4, <1>5, <1>6 DEF InStep

-----------------------------------------------------------------------------
(* The theorems. *)

(* The invariant: types, the two facts about the shutdown, what the        *)
(* desktop keeps in step until then, and what it has in common with the    *)
(* brokers.                                                                *)
ManagerInv == /\ Typed /\ NoRowAfterShutdown /\ LinksAreRegistered /\ Quiesced
              /\ SettledBeforeShutdown /\ InStepBeforeShutdown

(* Every reachable state satisfies the invariant.                          *)
THEOREM ManagerInvariant == Spec => []ManagerInv
<1>1. Init => ManagerInv
  <2>. SUFFICES ASSUME Init PROVE ManagerInv
    OBVIOUS
  <2>1. NoRowAfterShutdown /\ LinksAreRegistered /\ Quiesced
    BY DEF Init, NoRowAfterShutdown, LinksAreRegistered, Quiesced
  <2>. QED
    BY <2>1, InitTyped, InitSettled, InitInStep, ManagerAssumption DEF ManagerInv
<1>2. ManagerInv /\ [Next]_vars => ManagerInv'
  <2>1. ASSUME ManagerInv, Next PROVE ManagerInv'
    BY <2>1, TypedStep, NoRowStep, LinksAreRegisteredStep, QuiescedStep, SettledStep,
       InStepStep, ManagerAssumption DEF ManagerInv
  <2>2. ASSUME ManagerInv, UNCHANGED vars PROVE ManagerInv'
    BY <2>2, TypedStep, Stuttering, StutteringInStep, ManagerAssumption DEF ManagerInv
  <2>. QED
    BY <2>1, <2>2
<1>. QED
  BY <1>1, <1>2, PTL DEF Spec

(* The rows that the shutdown took are the last ones (insert_pending,      *)
(* publish_pending, complete_reattach).                                    *)
THEOREM NoRowComesBack == Spec => []NoRowAfterShutdown
<1>1. ManagerInv => NoRowAfterShutdown
  BY DEF ManagerInv
<1>. QED
  BY <1>1, ManagerInvariant, PTL

(* When the shutdown and its workers are through, no companion runs and    *)
(* none is registered (register_transport, finish_transport).              *)
THEOREM CompanionsAreGone == Spec => []NoCompanionIsLeft
<1>1. ManagerInv => NoCompanionIsLeft
  BY DEF ManagerInv, Typed, TypeOK, LinksAreRegistered, Quiesced, AtWork, NoCompanionIsLeft
<1>. QED
  BY <1>1, ManagerInvariant, PTL

(* Until the shutdown a row is attached exactly while a connection is      *)
(* bound to it, and reserved only by a reattach that is under way          *)
(* (publish_pending, complete_reattach, handle_transport_loss).            *)
THEOREM RowsFollow == Spec => []RowsFollowTransports
<1>1. ASSUME ManagerInv PROVE RowsFollowTransports
  <2>. SUFFICES ASSUME ~shutting_down, NEW s \in Sessions
                PROVE  /\ records[s].state = "attached" <=>
                            \E t \in Transports : /\ binding[t] \in {"Attached", "Detaching"}
                                                  /\ key[t] = s
                                                  /\ records[s].transport = t
                       /\ records[s].transition # None =>
                            \E c \in Callers : mine[c] = records[s].transition /\ at[c] = s
    BY DEF RowsFollowTransports
  <2>1. RowsAreBound /\ ReservationsAreHeld
    BY <1>1 DEF ManagerInv, SettledBeforeShutdown, Settled
  <2>2. records[s].state = "attached" =>
           \E t \in Transports : /\ binding[t] \in {"Attached", "Detaching"}
                                 /\ key[t] = s
                                 /\ records[s].transport = t
    BY <2>1 DEF RowsAreBound, Backed
  <2>3. ASSUME NEW t \in Transports, binding[t] \in {"Attached", "Detaching"}, key[t] = s
        PROVE  records[s].state = "attached"
    <3>1. records[s] = Row("attached", t, None)
      BY <2>1, <2>3 DEF RowsAreBound, Shown
    <3>. QED
      BY <3>1 DEF Row
  <2>4. records[s].transition # None =>
           \E c \in Callers : mine[c] = records[s].transition /\ at[c] = s
    BY <2>1 DEF ReservationsAreHeld, Reserving
  <2>. QED
    BY <2>2, <2>3, <2>4
<1>. QED
  BY <1>1, ManagerInvariant, PTL

(* A session whose start was acknowledged keeps its row: no loss of a      *)
(* connection hides a confirmed agent (publish_confirmed_pending_          *)
(* unreachable, discard_pending).                                          *)
THEOREM ConfirmedKeepTheirRow == Spec => []ConfirmedAgentsHaveARow
<1>1. ManagerInv => ConfirmedAgentsHaveARow
  BY DEF ManagerInv, InStepBeforeShutdown, InStep, AcknowledgedAreSighted, Sighted,
     ConfirmedAgentsHaveARow
<1>. QED
  BY <1>1, ManagerInvariant, PTL

(* Once nothing is on its way, what is shown as attached is leased to that *)
(* connection (confirm_pending, ReadAttached).                             *)
THEOREM AttachedIsLeased == Spec => []AttachedMeansLease
<1>1. ASSUME ManagerInv PROVE AttachedMeansLease
  <2>. SUFFICES ASSUME ~shutting_down, NEW s \in Sessions, NEW t \in Transports,
                       records[s].state = "attached", records[s].transport = t,
                       binding[t] = "Attached", link[t] = "up",
                       inbox[t] = <<>>, outbox[t] = <<>>, notify[s] = None
                PROVE  stage[s] = "confirmed" /\ holder[s] = t
    BY DEF AttachedMeansLease
  <2>1. key[t] = s
    BY <1>1 DEF ManagerInv, SettledBeforeShutdown, Settled, RowsAreBound, Backed
  <2>2. Leased(t, s)
    BY <1>1, <2>1 DEF ManagerInv, InStepBeforeShutdown, InStep, BeliefsAreLeases, Believed
  <2>3. News(t) = {} /\ Asked(t) = {} /\ t # None
    BY TransportIds, ManagerAssumption DEF News, Asked, Entries
  <2>. QED
    BY <2>2, <2>3 DEF Leased
<1>. QED
  BY <1>1, ManagerInvariant, PTL

=============================================================================
