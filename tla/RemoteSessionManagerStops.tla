---------------------- MODULE RemoteSessionManagerStops ---------------------
(***************************************************************************)
(* Over connections that hold, the shutdown ends every agent it can reach, *)
(* for any number of sessions, commands and connections.                   *)
(***************************************************************************)
EXTENDS RemoteSessionManagerProofs

-----------------------------------------------------------------------------
(* The invariant. *)

(* A companion that runs is registered, and the other way round.           *)
LinksHold ==
    /\ \A t \in Transports : link[t] # "cut"
    /\ \A t \in transports : link[t] = "up"

(* A reader that has read its last message has closed the binding.         *)
EndingIsClosed == \A t \in Transports : reader[t] = "ending" => binding[t] = "Closed"

(* The shutdown listens to the connection in its hands only, and starts    *)
(* with nothing heard.                                                     *)
MainListens ==
    /\ \A t \in Transports : event_sender[t] = Main =>
          t = current /\ main \in {"stop", "wait", "finish"}
    /\ main \notin {"stop", "wait", "finish"} => events[Main] = <<>>

(* A row without a connection has none.                                    *)
IdleRows == \A s \in Sessions :
    records[s].state \in {"detached", "unreachable"} => records[s].transport = None

(* A connection that never was up is unheard of.                           *)
FreshIsQuiet == \A t \in Transports : link[t] = "none" => Quiet(t)

(* Workers begin when nothing is left to quiesce, each on a connection of  *)
(* its own.                                                                *)
WorkersApart ==
    /\ \A c \in Callers : mine[c] < next_transport_id
    /\ \A t \in Transports : t >= next_transport_id => link[t] = "none" /\ reader[t] = "none"
    /\ \A s \in Sessions : worker[s] # "none" =>
          /\ worker_id[s] < next_transport_id
          /\ \A c \in Callers : mine[c] # worker_id[s]
          /\ reader[worker_id[s]] = "none"
          /\ worker[s] \in {"begin", "connect"} => link[worker_id[s]] = "none"
          /\ main \in {"quiesce", "watch", "done"} /\ to_quiesce = {}
          /\ \A r \in Sessions : worker[r] # "none" /\ worker_id[r] = worker_id[s] => r = s

(* A worker is cancelled when the time of its session ran out.             *)
CancelledAreGivenUp == /\ cancelled \subseteq given_up
                       /\ ~shutting_down => cancelled = {}

(* What the shutdown has in its hands is off its list, and a worker that   *)
(* was not started has no connection.                                      *)
PlanHolds ==
    /\ main \in {"stop", "wait", "finish"} =>
          current \notin to_quiesce /\ binding[current] \in {"Stopping", "Closed"}
    /\ main = "done" => to_stop = {}
    /\ \A s \in Sessions : worker[s] = "none" => worker_id[s] = None

(* What is acknowledged was delivered.                                     *)
AcksAreDue ==
    \A s \in Sessions : Acknowledged(s) => stage[s] \notin {"unborn", "starting"}

-----------------------------------------------------------------------------
(* What follows the first message.                                         *)
Rest(w) == {w[i] : i \in 2 .. Len(w)}

(* What was said on a connection after the message that is read next.      *)
Later(t) == Rest(inbox[t])

(* Before the shutdown: what is on the wire of each connection.            *)
StartTidy(t) ==
    binding[t] = "AwaitingStart" =>
       /\ Asked(t) \subseteq {PleaseStart}
       /\ Asked(t) # {} => News(t) = {}
       /\ \A s \in Sessions : holder[s] = t /\ stage[s] = "starting" => News(t) = {}
       /\ \A news \in Later(t) : news[1] \in SessionOver

(* Of a session that was started only the acknowledgement is asked, and    *)
(* nothing is said but that it is over.                                    *)
PendingTidy(t) ==
    binding[t] \in {"Pending", "ConfirmedPending", "Attached"} =>
       /\ Asked(t) \subseteq {<<"ack", key[t]>>}
       /\ \A news \in News(t) : news[1] \in SessionOver

(* Nothing passes before the request to attach, ...                        *)
ReservedTidy(t) == binding[t] = "AwaitingAttach" => Quiet(t)

(* ... which is on its way, or answered with the first message.            *)
AttachTidy(t) ==
    binding[t] = "Attaching" =>
       \/ /\ outbox[t] = <<<<"attach", key[t]>>>>
          /\ News(t) = {}
          /\ \A s \in Sessions : holder[s] # t /\ notify[s] # t
       \/ /\ outbox[t] = <<>>
          /\ News(t) # {}
          /\ \A news \in Later(t) : news[1] \in SessionOver
          /\ \A news \in News(t) : \/ news[1] \in SessionOver
                                   \/ news \in {"attached", "rejected"} \X {key[t]}

(* A detach follows the acknowledgement at most, and what is said is its   *)
(* answer, or that the session is over.                                    *)
DetachTidy(t) ==
    binding[t] = "Detaching" =>
       /\ Asked(t) \subseteq {<<"ack", key[t]>>, PleaseDetach}
       /\ \A news \in News(t) : news[1] \in SessionOver \union {"detached"}

(* What the desktop knows of was delivered.                                *)
BegunTidy(t) ==
    binding[t] \notin {"none", "AwaitingStart", "Closed"} =>
       \A s \in Sessions : holder[s] = t => stage[s] # "starting"

(* All of this, of a connection and of those that are up.                  *)
Tidy(t) == /\ StartTidy(t) /\ PendingTidy(t) /\ ReservedTidy(t) /\ AttachTidy(t)
           /\ DetachTidy(t) /\ BegunTidy(t)

WireIsTidy == \A t \in Transports : link[t] = "up" => Tidy(t)

(* A start that is acknowledged is the next thing to be published.         *)
OnlyPublishing ==
    /\ \A c \in Callers :
          mine[c] # None /\ binding[mine[c]] = "ConfirmedPending" => pc[c] = "publish"
    /\ \A t \in Transports : binding[t] = "ConfirmedPending" => link[t] = "up"

TidyBeforeShutdown == ~shutting_down => WireIsTidy /\ OnlyPublishing

-----------------------------------------------------------------------------
(* During the shutdown. *)

(* A command loses a connection that it could not write to.                *)
LosersAreCut == \A c \in Callers :
    /\ pc[c] = "attach" /\ ~shutting_down => binding[mine[c]] \in {"AwaitingAttach", "Closed"}
    /\ pc[c] = "lose" \/ (pc[c] = "lost" /\ ~shutting_down)
         => binding[mine[c]] \in {"AwaitingAttach", "Closed"} \/ link[mine[c]] = "reaped"

(* A command that begins has no session yet, and cannot listen.            *)
BeginnersAreUnbound == \A c \in Callers :
    pc[c] \in {"handshake", "listen"}
       => binding[mine[c]] \in {"AwaitingStart", "AwaitingAttach", "Closed"}

(* A command acknowledges the session of its connection.                   *)
ConfirmersKnow == \A c \in Callers : pc[c] = "confirm" => at[c] = key[mine[c]]

(* Nobody but s is served over the connection.                             *)
ServesOnly(t, s) == \A r \in Sessions : notify[r] # t /\ (holder[r] = t => r = s)

(* A start that the shutdown met is still to be quiesced, and the broker   *)
(* holds its session for that connection and no other.                     *)
Startable(t) ==
    binding[t] \in {"Pending", "ConfirmedPending"} /\ link[t] = "up" =>
       /\ t \in to_quiesce
       /\ \/ stage[key[t]] = "ended"
          \/ /\ holder[key[t]] = t
             /\ stage[key[t]] \in {"unconfirmed", "confirmed"}
             /\ inbox[t] = <<>>
             /\ Asked(t) \subseteq {<<"ack", key[t]>>}
             /\ ServesOnly(t, key[t])

(* An agent that outlives the connection that started it, or will.         *)
Live(s) == stage[s] = "confirmed" \/ (stage[s] = "unconfirmed" /\ Acknowledged(s))

(* What may be asked on a connection that serves s.                        *)
AsksOnly(t, s) ==
    Asked(t) \subseteq {<<"ack", s>>, <<"attach", s>>, <<"stop", s>>, PleaseDetach}

(* None of these requests is one of that kind.                             *)
Without(w, request) == \A order \in Entries(w) : order[1] # request

(* The session is attached, and not detached afterwards.                   *)
EndsAttached(w) ==
    \E i \in 1 .. Len(w) : /\ w[i][1] = "attach"
                          /\ \A j \in i + 1 .. Len(w) : w[j][1] # "detach"

(* Its stop is the last request, and the only one.                         *)
EndsInStop(w) == /\ w # <<>> /\ w[Len(w)][1] = "stop"
                 /\ \A i \in 1 .. Len(w) - 1 : w[i][1] # "stop"

(* When the broker has done all that was asked, t holds s, or was refused. *)
WillHold(t, s) == \/ holder[s] = t /\ Without(outbox[t], "detach")
                  \/ EndsAttached(outbox[t])

(* The connection is up, it is for s only, and nothing it has received     *)
(* ends it.                                                                *)
Serves(t, s) ==
    /\ key[t] = s /\ link[t] = "up"
    /\ ServesOnly(t, s)
    /\ AsksOnly(t, s)
    /\ \A news \in News(t) : news[1] \in {"attached", "detached"}

(* The shutdown will come to the connection of s: quiescing it stops s     *)
(* over it, or leaves s to a worker (quiesce_transport).                   *)
Listed(t, s) ==
    /\ t \in to_quiesce
    /\ \/ binding[t] = "Closed" /\ fallback[t] = s
       \/ binding[t] = "AwaitingAttach" /\ fallback[t] = s /\ key[t] = s
       \/ binding[t] = "ConfirmedPending" /\ key[t] = s /\ link[t] = "up"
       \/ /\ binding[t] \in {"Attaching", "Attached", "Detaching"} /\ fallback[t] = s
          /\ Serves(t, s)
          /\ Without(outbox[t], "stop")
          /\ binding[t] # "Detaching" => WillHold(t, s)

(* The shutdown has the connection of s in its hands, and its stop is to   *)
(* be written or on its way (wait_for_stop).                               *)
InHand(t, s) ==
    /\ t = current
    /\ binding[t] = "Stopping" /\ event_sender[t] = Main /\ events[Main] = <<>>
    /\ Serves(t, s)
    /\ \/ main = "stop" /\ Without(outbox[t], "stop") /\ (attach_first \/ WillHold(t, s))
       \/ main = "wait" /\ EndsInStop(outbox[t]) /\ WillHold(t, s)

(* A worker is on the way to stop s: each of its requests is on the wire,  *)
(* or the answer to it (stop_detached_now).                                *)
Progress(w, s) ==
    \/ worker[s] \in {"begin", "connect"}
    \/ /\ link[w] = "up" /\ ServesOnly(w, s)
       /\ \/ worker[s] = "check" /\ outbox[w] = <<>> /\ inbox[w] = <<>>
          \/ worker[s] = "read_attach" /\ outbox[w] = <<<<"attach", s>>>> /\ inbox[w] = <<>>
          \/ /\ worker[s] = "read_attach" /\ outbox[w] = <<>> /\ inbox[w] = <<<<"attached", s>>>>
             /\ holder[s] = w
          \/ worker[s] = "stop" /\ outbox[w] = <<>> /\ inbox[w] = <<>> /\ holder[s] = w
          \/ /\ worker[s] = "read_stop" /\ outbox[w] = <<<<"stop", s>>>> /\ inbox[w] = <<>>
             /\ holder[s] = w

(* The session is on the list of those to be stopped by workers.           *)
Awaited(s) == s \in to_stop /\ (worker[s] = "none" \/ Progress(worker_id[s], s))

(* So the shutdown reaches the agent, in one of these ways.                *)
Reached(s) == \/ \E t \in Transports : Listed(t, s) \/ InHand(t, s)
              \/ Awaited(s)

AgentsAreReached ==
    \A s \in Sessions : Live(s) /\ s \notin given_up \union interrupted => Reached(s)

(* What holds from the beginning of the shutdown on.                       *)
ReachedInShutdown ==
    shutting_down => /\ BeginnersAreUnbound
                     /\ ConfirmersKnow
                     /\ \A t \in Transports : Startable(t)
                     /\ AgentsAreReached

(* The invariant.                                                          *)
StopsInv == /\ LinksHold /\ EndingIsClosed /\ MainListens /\ IdleRows /\ FreshIsQuiet
            /\ WorkersApart /\ CancelledAreGivenUp /\ PlanHolds /\ AcksAreDue
            /\ TidyBeforeShutdown /\ LosersAreCut /\ ReachedInShutdown

-----------------------------------------------------------------------------
(* Whose step it is. *)

(* A companion that is killed says no more, and no other one is cut short. *)
LEMMA ReapedAlone ==
    ASSUME NEW u \in Ids, NEW t \in Transports, Reap(u),
           link \in [Transports -> {"none", "up", "cut", "reaped"}],
           inbox \in [Transports -> Seq(Answers)]
    PROVE  /\ inbox'[t] = inbox[t] \/ (t = u /\ link'[t] = "reaped")
           /\ link'[t] = link[t] \/ (t = u /\ link'[t] = "reaped")
BY DEF Reap, Truncated

(* A connection comes up, and goes, with a step of those that use it.      *)
LEMMA LinkSteps ==
    ASSUME ManagerAssumption, Typed, Next, NEW t \in Transports, link'[t] # link[t]
    PROVE  \/ \E c \in Callers :
                /\ mine[c] = t
                /\ \/ Connect(c) \/ HandshakeFails(c) \/ StartNotWritten(c)
                   \/ HearStartFailed(c) \/ discard_pending(c) \/ CloseMine(c)
           \/ FinishReader(t) \/ ConnectionCut(t) \/ CloseTransport(t)
           \/ FinishTransport /\ current = t
           \/ \E s \in Sessions : /\ worker_id[s] = t
                                  /\ AbandonWorker(s) \/ WorkerConnects(s) \/ WorkerFinishes(s)
<1>0. /\ link \in [Transports -> {"none", "up", "cut", "reaped"}]
      /\ inbox \in [Transports -> Seq(Answers)]
      /\ current \in Ids
      /\ \A c \in Callers : mine[c] \in Ids
      /\ \A s \in Sessions : worker_id[s] \in Ids
  BY DEF Typed, TypeOK
<1>1. ASSUME NEW c \in Callers, HandshakeFails(c) PROVE mine[c] = t
  BY <1>0, <1>1, ReapedAlone DEF HandshakeFails, finish_transport
<1>2. ASSUME NEW c \in Callers, StartNotWritten(c) PROVE mine[c] = t
  BY <1>0, <1>2, ReapedAlone DEF StartNotWritten, finish_transport
<1>3. ASSUME NEW c \in Callers, HearStartFailed(c) PROVE mine[c] = t
  BY <1>0, <1>3, ReapedAlone DEF HearStartFailed, finish_transport
<1>4. ASSUME NEW c \in Callers, discard_pending(c) PROVE mine[c] = t
  BY <1>0, <1>4, ReapedAlone DEF discard_pending, finish_transport
<1>5. ASSUME NEW c \in Callers, CloseMine(c) PROVE mine[c] = t
  BY <1>0, <1>5, ReapedAlone DEF CloseMine, finish_transport
<1>6. ASSUME NEW c \in Callers, Connect(c) PROVE mine[c] = t
  BY <1>0, <1>6 DEF Connect
<1>7. ASSUME NEW u \in Transports, FinishReader(u) PROVE u = t
  BY <1>0, <1>7 DEF FinishReader
<1>8. ASSUME NEW u \in Transports, ConnectionCut(u) PROVE u = t
  BY <1>0, <1>8 DEF ConnectionCut
<1>9. ASSUME NEW u \in Transports, CloseTransport(u) PROVE u = t
  BY <1>0, <1>9, ReapedAlone DEF CloseTransport, finish_transport, Ids
<1>10. ASSUME FinishTransport PROVE current = t
  BY <1>0, <1>10, ReapedAlone DEF FinishTransport, finish_transport
<1>11. ASSUME NEW s \in Sessions, AbandonWorker(s) PROVE worker_id[s] = t
  BY <1>0, <1>11, ReapedAlone DEF AbandonWorker, finish_transport
<1>12. ASSUME NEW s \in Sessions, WorkerConnects(s) PROVE worker_id[s] = t
  BY <1>0, <1>12 DEF WorkerConnects
<1>13. ASSUME NEW s \in Sessions, WorkerFinishes(s) PROVE worker_id[s] = t
  BY <1>0, <1>13, ReapedAlone DEF WorkerFinishes, finish_transport
<1>. QED
  BY <1>1, <1>2, <1>3, <1>4, <1>5, <1>6, <1>7, <1>8, <1>9, <1>10, <1>11, <1>12, <1>13, LinkMovers

(* What is asked on a connection changes with a step of those that use it, *)
(* while it is up.                                                         *)
LEMMA OutboxSteps ==
    ASSUME ManagerAssumption, Typed, Next, NEW t \in Transports, link[t] = "up",
           outbox'[t] # outbox[t]
    PROVE  \/ \E c \in Callers :
                /\ mine[c] = t
                /\ Listen(c) \/ confirm_pending(c) \/ WriteDetach(c) \/ WriteAttach(c)
           \/ BrokerStarts(t) \/ BrokerConfirms(t) \/ BrokerAttaches(t)
           \/ BrokerDetaches(t) \/ BrokerStops(t)
           \/ WriteStop /\ current = t
           \/ \E s \in Sessions : /\ worker_id[s] = t
                                  /\ WorkerAttaches(s) \/ WorkerRequestsStop(s)
<1>0. /\ outbox \in [Transports -> Seq(Orders)]
      /\ current \in Ids
      /\ \A c \in Callers : mine[c] \in Ids
      /\ \A s \in Sessions : worker_id[s] \in Ids
  BY DEF Typed, TypeOK
<1>1. ASSUME NEW c \in Callers, Listen(c) PROVE mine[c] = t
  BY <1>0, <1>1 DEF Listen, Written
<1>2. ASSUME NEW c \in Callers, confirm_pending(c) PROVE mine[c] = t
  BY <1>0, <1>2 DEF confirm_pending, Written
<1>3. ASSUME NEW c \in Callers, WriteDetach(c) PROVE mine[c] = t
  BY <1>0, <1>3 DEF WriteDetach, Written
<1>4. ASSUME NEW c \in Callers, WriteAttach(c) PROVE mine[c] = t
  BY <1>0, <1>4 DEF WriteAttach, Written
<1>5. ASSUME NEW u \in Transports, BrokerStarts(u) PROVE u = t
  BY <1>0, <1>5 DEF BrokerStarts, Requested
<1>6. ASSUME NEW u \in Transports, BrokerConfirms(u) PROVE u = t
  BY <1>0, <1>6 DEF BrokerConfirms, Requested
<1>7. ASSUME NEW u \in Transports, BrokerAttaches(u) PROVE u = t
  BY <1>0, <1>7 DEF BrokerAttaches, Requested
<1>8. ASSUME NEW u \in Transports, BrokerDetaches(u) PROVE u = t
  BY <1>0, <1>8 DEF BrokerDetaches, Requested
<1>9. ASSUME NEW u \in Transports, BrokerStops(u) PROVE u = t
  BY <1>0, <1>9 DEF BrokerStops, Requested
<1>10. ASSUME NEW u \in Transports, BrokerNotices(u) PROVE FALSE
  BY <1>0, <1>10 DEF BrokerNotices
<1>11. ASSUME WriteStop PROVE current = t
  BY <1>0, <1>11 DEF WriteStop, Written
<1>12. ASSUME NEW s \in Sessions, WorkerAttaches(s) \/ WorkerRequestsStop(s)
      PROVE  worker_id[s] = t
  BY <1>0, <1>12 DEF WorkerAttaches, WorkerRequestsStop, WorkerWrites, Written, WriteFails
<1>. QED
  BY <1>1, <1>2, <1>3, <1>4, <1>5, <1>6, <1>7, <1>8, <1>9, <1>10, <1>11, <1>12, OutboxMovers

(* ... and so does what it has received.                                   *)
LEMMA InboxSteps ==
    ASSUME ManagerAssumption, Typed, Next, NEW t \in Transports, link'[t] = "up",
           inbox'[t] # inbox[t]
    PROVE  \/ ReadStarted(t) \/ ReadPendingOver(t) \/ ReadOver(t)
           \/ ReadAttached(t) \/ ReadDetached(t) \/ ReadWhileStopping(t)
           \/ ReadStopped(t) \/ ReadUnexpected(t)
           \/ BrokerStarts(t) \/ BrokerDelivers(t) \/ BrokerConfirms(t)
           \/ BrokerAttaches(t) \/ BrokerDetaches(t) \/ BrokerStops(t)
           \/ \E s \in Sessions :
                \/ notify[s] = t /\ BrokerAnnounces(s)
                \/ /\ worker_id[s] = t
                   /\ \/ WorkerReads(s, "read_attach", "attached", "stop")
                      \/ WorkerReads(s, "read_stop", "stopped", "finish")
<1>0. /\ link \in [Transports -> {"none", "up", "cut", "reaped"}]
      /\ inbox \in [Transports -> Seq(Answers)]
      /\ current \in Ids
      /\ \A c \in Callers : mine[c] \in Ids
      /\ \A s \in Sessions : worker_id[s] \in Ids
  BY DEF Typed, TypeOK
<1>1. ASSUME NEW c \in Callers,
             \/ HandshakeFails(c) \/ StartNotWritten(c) \/ HearStartFailed(c)
             \/ discard_pending(c) \/ CloseMine(c)
      PROVE  FALSE
  BY <1>0, <1>1, ReapedAlone DEF HandshakeFails, StartNotWritten, HearStartFailed, discard_pending,
     CloseMine, finish_transport
<1>2. ASSUME NEW u \in Transports,
             FinishReader(u) \/ ConnectionCut(u) \/ CloseTransport(u)
      PROVE  FALSE
  BY <1>0, <1>2, ReapedAlone DEF FinishReader, ConnectionCut, Truncated, CloseTransport,
     finish_transport, Ids
<1>3. ASSUME FinishTransport PROVE FALSE
  BY <1>0, <1>3, ReapedAlone DEF FinishTransport, finish_transport
<1>4. ASSUME NEW s \in Sessions, AbandonWorker(s) \/ WorkerFinishes(s)
      PROVE  FALSE
  BY <1>0, <1>4, ReapedAlone DEF AbandonWorker, WorkerFinishes, finish_transport
<1>5. ASSUME NEW s \in Sessions,
             \/ WorkerReads(s, "read_attach", "attached", "stop")
             \/ WorkerReads(s, "read_stop", "stopped", "finish")
      PROVE  worker_id[s] = t
  BY <1>0, <1>5 DEF WorkerReads
<1>6. ASSUME NEW s \in Sessions, BrokerAnnounces(s) PROVE notify[s] = t
  BY <1>0, <1>6 DEF BrokerAnnounces, Replied
<1>7. ASSUME NEW u \in Transports,
             \/ ReadStarted(u) \/ ReadPendingOver(u) \/ ReadOver(u)
             \/ ReadAttached(u) \/ ReadDetached(u) \/ ReadWhileStopping(u)
             \/ ReadStopped(u) \/ ReadUnexpected(u)
      PROVE  u = t
  BY <1>0, <1>7 DEF ReadStarted, ReadPendingOver, ReadOver, ReadAttached, ReadDetached,
     ReadWhileStopping, ReadStopped, ReadUnexpected, Reads
<1>8. ASSUME NEW u \in Transports,
             \/ BrokerStarts(u) \/ BrokerDelivers(u) \/ BrokerConfirms(u)
             \/ BrokerAttaches(u) \/ BrokerDetaches(u) \/ BrokerStops(u)
      PROVE  u = t
  BY <1>0, <1>8 DEF BrokerStarts, BrokerDelivers, BrokerConfirms, BrokerAttaches, BrokerDetaches,
     BrokerStops, Replied
<1>. QED
  BY <1>1, <1>2, <1>3, <1>4, <1>5, <1>6, <1>7, <1>8, InboxMovers

(* What a connection is for changes with a step of those that use it.      *)
LEMMA BindingSteps ==
    ASSUME ManagerAssumption, Typed, Next, NEW t \in Transports, binding'[t] # binding[t]
    PROVE  \/ \E c \in Callers :
                /\ mine[c] = t
                /\ \/ Connect(c) \/ confirm_pending(c) \/ publish_pending(c)
                   \/ discard_pending(c) \/ WriteDetach(c) \/ WriteAttach(c)
                   \/ LoseTransport(c)
           \/ ReadStarted(t) \/ ReadPendingOver(t) \/ ReadOver(t)
           \/ ReadAttached(t) \/ ReadDetached(t) \/ ReadStopped(t)
           \/ ReadUnexpected(t) \/ ReadEnd(t) \/ CloseTransport(t)
           \/ TakeOverTransport(t)
           \/ \E s \in Sessions : worker_id[s] = t /\ WorkerConnects(s)
<1>0. binding \in [Transports -> Bindings]
  BY DEF Typed, TypeOK
<1>1. ASSUME NEW c \in Callers,
             \/ Connect(c) \/ confirm_pending(c) \/ publish_pending(c)
             \/ discard_pending(c) \/ WriteDetach(c) \/ WriteAttach(c)
             \/ LoseTransport(c)
      PROVE  mine[c] = t
  BY <1>0, <1>1 DEF Connect, confirm_pending, publish_pending, discard_pending, WriteDetach,
     WriteAttach, LoseTransport, handle_transport_loss
<1>2. ASSUME NEW u \in Transports,
             \/ ReadStarted(u) \/ ReadPendingOver(u) \/ ReadOver(u)
             \/ ReadAttached(u) \/ ReadDetached(u) \/ ReadStopped(u)
             \/ ReadUnexpected(u) \/ ReadEnd(u) \/ CloseTransport(u)
             \/ TakeOverTransport(u)
      PROVE  u = t
  BY <1>0, <1>2 DEF ReadStarted, ReadPendingOver, ReadOver, ReadAttached, ReadDetached, ReadStopped,
     ReadUnexpected, ReadEnd, ReadsLast, CloseTransport, TakeOverTransport
<1>3. ASSUME NEW s \in Sessions, WorkerConnects(s) PROVE worker_id[s] = t
  BY <1>0, <1>3 DEF WorkerConnects
<1>. QED
  BY <1>1, <1>2, <1>3, BindingMovers

(* A session is registered for the connection that asks for a start, taken *)
(* by one that asks to attach it, and released when the holder is gone or  *)
(* asks for it.                                                            *)
LEMMA HolderSteps ==
    ASSUME ManagerAssumption, Typed, Next, NEW r \in Sessions, NEW t \in Transports
    PROVE  /\ holder'[r] = t /\ holder[r] # t =>
                \/ BrokerStarts(t)
                \/ BrokerAttaches(t) /\ Head(outbox[t]) = <<"attach", r>>
           /\ holder[r] = t /\ holder'[r] # t /\ stage[r] # "unborn" =>
                \/ stage'[r] = "ended" \/ BrokerDetaches(t) \/ link[t] # "up"
           /\ notify'[r] = t /\ notify[r] # t => holder[r] = t /\ stage'[r] = "ended"
<1>. DEFINE P == /\ holder'[r] = t /\ holder[r] # t =>
                      \/ BrokerStarts(t)
                      \/ BrokerAttaches(t) /\ Head(outbox[t]) = <<"attach", r>>
                 /\ holder[r] = t /\ holder'[r] # t /\ stage[r] # "unborn" =>
                      \/ stage'[r] = "ended" \/ BrokerDetaches(t) \/ link[t] # "up"
                 /\ notify'[r] = t /\ notify[r] # t => holder[r] = t /\ stage'[r] = "ended"
<1>0. /\ stage \in [Sessions -> Lease!Stages] /\ holder \in [Sessions -> Ids]
      /\ notify \in [Sessions -> Ids] /\ outbox \in [Transports -> Seq(Orders)] /\ t # None
  BY TransportIds DEF Typed, TypeOK, Lease!TypeOK, Ids
<1>1. ASSUME NEW u \in Transports, BrokerStarts(u) PROVE P
  <2>1. UNCHANGED notify
    BY <1>1 DEF BrokerStarts, Requested
  <2>2. CASE UNCHANGED <<stage, holder>>
    BY <2>1, <2>2
  <2>3. ASSUME NEW s \in Sessions, Lease!Register(s, u) PROVE P
    BY <1>0, <1>1, <2>1, <2>3 DEF Lease!Register
  <2>. QED
    BY <1>1, <2>2, <2>3 DEF BrokerStarts
<1>2. ASSUME NEW u \in Transports, BrokerDelivers(u) PROVE P
  BY <1>0, <1>2 DEF BrokerDelivers, Lease!Deliver, Lease!Move
<1>3. ASSUME NEW u \in Transports, BrokerConfirms(u) PROVE P
  BY <1>0, <1>3 DEF BrokerConfirms, Requested, Lease!Confirm, Lease!Move
<1>4. ASSUME NEW u \in Transports, BrokerAttaches(u) PROVE P
  <2>1. /\ Requested(u, "attach") /\ UNCHANGED notify
        /\ UNCHANGED <<stage, holder>> \/ Lease!Take(Head(outbox[u])[2], u)
    BY <1>4 DEF BrokerAttaches, Requested
  <2>2. Head(outbox[u]) \in Orders /\ Head(outbox[u])[1] = "attach"
    BY <1>0, <2>1, AskedWhenTaken
  <2>3. Head(outbox[u]) = <<"attach", Head(outbox[u])[2]>>
    BY <2>2 DEF Orders
  <2>. QED
    BY <1>0, <1>4, <2>1, <2>3 DEF Lease!Take
<1>5. ASSUME NEW u \in Transports, BrokerDetaches(u) PROVE P
  <2>1. UNCHANGED notify
    BY <1>5 DEF BrokerDetaches, Requested
  <2>2. CASE UNCHANGED <<stage, holder>>
    BY <2>1, <2>2
  <2>3. ASSUME NEW s \in Sessions, Lease!Release(s, u) PROVE P
    BY <1>0, <1>5, <2>1, <2>3 DEF Lease!Release
  <2>. QED
    BY <1>5, <2>2, <2>3 DEF BrokerDetaches
<1>6. ASSUME NEW u \in Transports, BrokerStops(u) PROVE P
  BY <1>0, <1>6 DEF BrokerStops, Requested, Lease!End
<1>7. ASSUME NEW u \in Transports, BrokerNotices(u) PROVE P
  <2>1. UNCHANGED notify /\ link[u] # "up"
    BY <1>7 DEF BrokerNotices
  <2>2. CASE UNCHANGED <<stage, holder>>
    BY <2>1, <2>2
  <2>3. ASSUME NEW s \in Sessions, Lease!Release(s, u) \/ Lease!End(s) PROVE P
    BY <1>0, <2>1, <2>3 DEF Lease!Release, Lease!End
  <2>. QED
    BY <1>7, <2>2, <2>3 DEF BrokerNotices
<1>8. ASSUME NEW s \in Sessions, AgentExits(s) PROVE P
  BY <1>0, <1>8 DEF AgentExits, Lease!End
<1>9. ASSUME NEW s \in Sessions, BrokerAnnounces(s) PROVE P
  BY <1>0, <1>9 DEF BrokerAnnounces
<1>10. CASE UNCHANGED <<stage, holder, notify>>
  BY <1>10
<1>. QED
  BY <1>1, <1>2, <1>3, <1>4, <1>5, <1>6, <1>7, <1>8, <1>9, <1>10, RemoteMovers DEF remote

(* A session that is over stays so, and one is confirmed by the            *)
(* acknowledgement of the connection that holds it.                        *)
LEMMA StageSteps ==
    ASSUME ManagerAssumption, Typed, Next, NEW r \in Sessions
    PROVE  /\ stage[r] = "ended" => stage'[r] = "ended"
           /\ stage[r] = "unborn" => stage'[r] \in {"unborn", "starting"}
           /\ stage'[r] = "unconfirmed" => stage[r] = "unconfirmed"
                                           \/ \E t \in Transports : BrokerDelivers(t)
                                                                    /\ stage[r] = "starting"
                                                                    /\ holder[r] = t
           /\ stage'[r] = "confirmed" /\ stage[r] # "confirmed" =>
                /\ stage[r] = "unconfirmed"
                /\ \E t \in Transports : BrokerConfirms(t) /\ Head(outbox[t]) = <<"ack", r>>
<1>. DEFINE P == /\ stage[r] = "ended" => stage'[r] = "ended"
                 /\ stage[r] = "unborn" => stage'[r] \in {"unborn", "starting"}
                 /\ stage'[r] = "unconfirmed" => stage[r] = "unconfirmed"
                                                 \/ \E t \in Transports : BrokerDelivers(t)
                                                                          /\ stage[r] = "starting"
                                                                          /\ holder[r] = t
                 /\ stage'[r] = "confirmed" /\ stage[r] # "confirmed" =>
                      /\ stage[r] = "unconfirmed"
                      /\ \E t \in Transports : BrokerConfirms(t) /\ Head(outbox[t]) = <<"ack", r>>
<1>0. /\ stage \in [Sessions -> Lease!Stages] /\ outbox \in [Transports -> Seq(Orders)]
  BY DEF Typed, TypeOK, Lease!TypeOK
<1>1. CASE UNCHANGED stage
  BY <1>1
<1>2. ASSUME NEW u \in Transports, BrokerStarts(u), stage' # stage PROVE P
  BY <1>0, <1>2 DEF BrokerStarts, Lease!Register
<1>3. ASSUME NEW u \in Transports, BrokerDelivers(u) PROVE P
  BY <1>0, <1>3 DEF BrokerDelivers, Lease!Deliver, Lease!Move
<1>4. ASSUME NEW u \in Transports, BrokerConfirms(u), stage' # stage PROVE P
  <2>1. Requested(u, "ack") /\ Lease!Confirm(Head(outbox[u])[2], u)
    BY <1>4 DEF BrokerConfirms
  <2>2. Head(outbox[u]) \in Orders /\ Head(outbox[u])[1] = "ack"
    BY <1>0, <2>1, AskedWhenTaken
  <2>3. Head(outbox[u]) = <<"ack", Head(outbox[u])[2]>>
    BY <2>2 DEF Orders
  <2>. QED
    BY <1>0, <1>4, <2>1, <2>3 DEF Lease!Confirm, Lease!Move
<1>5. ASSUME NEW u \in Transports, BrokerAttaches(u) \/ BrokerDetaches(u), stage' # stage PROVE P
  BY <1>5 DEF BrokerAttaches, BrokerDetaches, Lease!Take, Lease!Release
<1>6. ASSUME NEW s, Lease!End(s) PROVE P
  BY <1>0, <1>6 DEF Lease!End
<1>7. ASSUME NEW u \in Transports, BrokerStops(u) \/ BrokerNotices(u), stage' # stage
      PROVE  \E s : Lease!End(s)
  BY <1>7 DEF BrokerStops, BrokerNotices, Lease!Release
<1>8. ASSUME NEW s \in Sessions, AgentExits(s) PROVE P
  BY <1>6, <1>8 DEF AgentExits
<1>9. ASSUME NEW s \in Sessions, BrokerAnnounces(s) PROVE UNCHANGED stage
  BY <1>9 DEF BrokerAnnounces
<1>. QED
  BY <1>1, <1>2, <1>3, <1>4, <1>5, <1>6, <1>7, <1>8, <1>9, RemoteMovers DEF remote

-----------------------------------------------------------------------------
(* Connections, rows and workers. *)

(* A connection that holds is up exactly as long as it is registered.      *)
LEMMA LinksHoldStep ==
    ASSUME ManagerAssumption, "cut" \notin Happens, Typed, LinksHold, Next
    PROVE  LinksHold'
<1>0. /\ LinksHold /\ transports \subseteq Transports
      /\ link \in [Transports -> {"none", "up", "cut", "reaped"}]
      /\ \A c \in Callers : mine[c] \in Ids /\ (mine[c] = None <=> pc[c] = "idle")
      /\ \A s \in Sessions : worker[s] # "none" => worker_id[s] \in Transports
  BY DEF Typed, TypeOK
<1>1. CASE UNCHANGED <<transports, link>>
  BY <1>0, <1>1 DEF LinksHold
<1>2. ASSUME NEW c \in Callers, Connect(c) PROVE LinksHold'
  BY <1>0, <1>2 DEF LinksHold, Connect, Ids
<1>3. ASSUME NEW c \in Callers, HandshakeFails(c) PROVE LinksHold'
  BY <1>0, <1>3 DEF LinksHold, HandshakeFails, finish_transport, Reap
<1>4. ASSUME NEW c \in Callers, StartNotWritten(c) PROVE LinksHold'
  BY <1>0, <1>4 DEF LinksHold, StartNotWritten, finish_transport, Reap
<1>5. ASSUME NEW c \in Callers, HearStartFailed(c) PROVE LinksHold'
  BY <1>0, <1>5 DEF LinksHold, HearStartFailed, finish_transport, Reap
<1>6. ASSUME NEW c \in Callers, discard_pending(c) PROVE LinksHold'
  BY <1>0, <1>6 DEF LinksHold, discard_pending, finish_transport, Reap
<1>7. ASSUME NEW c \in Callers, CloseMine(c) PROVE LinksHold'
  BY <1>0, <1>7 DEF LinksHold, CloseMine, finish_transport, Reap
<1>8. ASSUME NEW t \in Transports, FinishReader(t) PROVE LinksHold'
  BY <1>0, <1>8 DEF LinksHold, FinishReader
<1>9. ASSUME NEW t \in Transports, ConnectionCut(t) PROVE LinksHold'
  BY <1>0, <1>9 DEF LinksHold, ConnectionCut
<1>10. ASSUME NEW t \in Transports, CloseTransport(t) PROVE LinksHold'
  BY <1>0, <1>10 DEF LinksHold, CloseTransport, finish_transport, Reap
<1>11. ASSUME FinishTransport PROVE LinksHold'
  BY <1>0, <1>11 DEF LinksHold, FinishTransport, finish_transport, Reap
<1>12. ASSUME NEW s \in Sessions, AbandonWorker(s) PROVE LinksHold'
  BY <1>0, <1>12 DEF LinksHold, AbandonWorker, finish_transport, Reap
<1>13. ASSUME NEW s \in Sessions, WorkerConnects(s) PROVE LinksHold'
  BY <1>0, <1>13 DEF LinksHold, WorkerConnects
<1>14. ASSUME NEW s \in Sessions, WorkerFinishes(s) PROVE LinksHold'
  BY <1>0, <1>14 DEF LinksHold, WorkerFinishes, finish_transport, Reap
<1>. QED
  BY <1>1, <1>2, <1>3, <1>4, <1>5, <1>6, <1>7, <1>8, <1>9, <1>10, <1>11, <1>12, <1>13, <1>14,
     LinkMovers

(* A closed binding stays closed.                                          *)
LEMMA ClosedStays ==
    ASSUME ManagerAssumption, Typed, SettledBeforeShutdown, Next, NEW t \in Transports,
           binding[t] = "Closed"
    PROVE  binding'[t] = "Closed"
<1>0. binding \in [Transports -> Bindings]
  BY DEF Typed, TypeOK
<1>1. ASSUME NEW c \in Callers, mine[c] = t, Connect(c) PROVE FALSE
  BY <1>1 DEF Connect, MayRegister, SettledBeforeShutdown, Settled, IdsAreFresh, Unused
<1>2. ASSUME NEW c \in Callers, mine[c] = t,
             \/ confirm_pending(c) \/ publish_pending(c) \/ WriteDetach(c) \/ WriteAttach(c)
      PROVE  FALSE
  BY <1>2 DEF confirm_pending, publish_pending, WriteDetach, WriteAttach
<1>3. ASSUME NEW c \in Callers, mine[c] = t, discard_pending(c) \/ LoseTransport(c)
      PROVE  binding'[t] = "Closed"
  BY <1>0, <1>3 DEF discard_pending, LoseTransport, handle_transport_loss
<1>4. ASSUME \/ ReadStarted(t) \/ ReadAttached(t) \/ TakeOverTransport(t)
      PROVE  FALSE
  BY <1>4 DEF ReadStarted, ReadAttached, TakeOverTransport, Reads
<1>5. ASSUME \/ ReadPendingOver(t) \/ ReadOver(t) \/ ReadDetached(t) \/ ReadStopped(t)
             \/ ReadUnexpected(t) \/ ReadEnd(t) \/ CloseTransport(t)
      PROVE  binding'[t] = "Closed"
  BY <1>0, <1>5 DEF ReadPendingOver, ReadOver, ReadDetached, ReadStopped, ReadUnexpected, ReadEnd,
     ReadsLast, CloseTransport
<1>6. ASSUME NEW s \in Sessions, worker_id[s] = t, WorkerConnects(s)
      PROVE  binding'[t] = "Closed"
  BY <1>0, <1>6 DEF WorkerConnects
<1>. QED
  BY <1>1, <1>2, <1>3, <1>4, <1>5, <1>6, BindingSteps

(* A reader that has read its last message has closed the binding.         *)
LEMMA EndingStep ==
    ASSUME ManagerAssumption, Typed, SettledBeforeShutdown, EndingIsClosed, Next
    PROVE  EndingIsClosed'
<1>0. /\ binding \in [Transports -> Bindings]
      /\ reader \in [Transports -> {"none", "running", "ending", "done"}]
  BY DEF Typed, TypeOK
<1>. SUFFICES ASSUME NEW t \in Transports, reader'[t] = "ending" PROVE binding'[t] = "Closed"
  BY DEF EndingIsClosed
<1>1. CASE reader'[t] = reader[t]
  BY <1>1, ClosedStays DEF EndingIsClosed
<1>2. ASSUME NEW c \in Callers, Listen(c) \/ StartNotWritten(c) PROVE reader'[t] = reader[t]
  BY <1>0, <1>2 DEF Listen, StartNotWritten
<1>3. ASSUME NEW u \in Transports,
             \/ ReadStarted(u) \/ ReadPendingOver(u) \/ ReadOver(u) \/ ReadAttached(u)
             \/ ReadDetached(u) \/ ReadStopped(u) \/ ReadUnexpected(u) \/ ReadEnd(u)
      PROVE  reader'[t] = reader[t] \/ binding'[t] = "Closed"
  BY <1>0, <1>3 DEF ReadStarted, ReadPendingOver, ReadOver, ReadAttached, ReadDetached,
     ReadStopped, ReadUnexpected, ReadEnd, ReadsLast
<1>4. ASSUME NEW u \in Transports, FinishReader(u) PROVE reader'[t] = reader[t]
  BY <1>0, <1>4 DEF FinishReader
<1>. QED
  BY <1>1, <1>2, <1>3, <1>4, ReaderMovers

(* Nothing is heard of a connection that another thread listens to.        *)
LEMMA HeardByMain ==
    ASSUME ManagerAssumption, Typed, Next, events'[Main] # events[Main]
    PROVE  \/ FinishTransport
           \/ \E t \in Transports :
                 /\ event_sender[t] = Main
                 /\ \/ ReadStarted(t) \/ ReadPendingOver(t) \/ ReadOver(t)
                    \/ ReadAttached(t) \/ ReadDetached(t) \/ ReadStopped(t)
                    \/ ReadUnexpected(t) \/ ReadEnd(t)
                    \/ \E c \in Callers : mine[c] = t /\ LoseTransport(c)
<1>0. /\ events \in [Callers \union {Main} -> Seq(Events)]
      /\ event_sender \in [Transports -> Callers \union {Nobody, Main}]
      /\ \A c \in Callers : mine[c] \in Ids /\ (mine[c] = None <=> pc[c] = "idle")
      /\ Main \notin Callers \union {Nobody}
  BY DEF Typed, TypeOK, ManagerAssumption
<1>1. ASSUME NEW c \in Callers,
             \/ CannotConnect(c) \/ HandshakeFails(c) \/ HandshakeTooLate(c)
             \/ StartNotWritten(c) \/ HearStarted(c) \/ HearStartFailed(c)
             \/ publish_pending(c) \/ StartLeftToOthers(c) \/ discard_pending(c)
             \/ DetachTooLate(c) \/ HearDetached(c) \/ WriteFailed(c)
             \/ CloseMine(c) \/ HearAttached(c) \/ HearAttachFailed(c)
      PROVE  FALSE
  BY <1>0, <1>1 DEF CannotConnect, HandshakeFails, HandshakeTooLate, StartNotWritten, HearStarted,
     HearStartFailed, publish_pending, StartLeftToOthers, discard_pending, DetachTooLate,
     HearDetached, WriteFailed, CloseMine, HearAttached, HearAttachFailed,
     CloseUnlessShuttingDown, Return
<1>2. ASSUME NEW c \in Callers, LoseTransport(c)
      PROVE  mine[c] \in Transports /\ event_sender[mine[c]] = Main
  BY <1>0, <1>2 DEF LoseTransport, Emitted, Ids
<1>3. ASSUME NEW t \in Transports,
             \/ ReadStarted(t) \/ ReadPendingOver(t) \/ ReadOver(t) \/ ReadAttached(t)
             \/ ReadDetached(t) \/ ReadStopped(t) \/ ReadUnexpected(t) \/ ReadEnd(t)
      PROVE  event_sender[t] = Main
  BY <1>0, <1>3 DEF ReadStarted, ReadPendingOver, ReadOver, ReadAttached, ReadDetached,
     ReadStopped, ReadUnexpected, ReadEnd, ReadsLast, Emitted
<1>. QED
  BY <1>1, <1>2, <1>3, EventMovers

(* What the shutdown hears is of the connection in its hands.              *)
LEMMA MainListensStep ==
    ASSUME ManagerAssumption, Typed, MainListens, Next
    PROVE  MainListens'
<1>0. /\ event_sender \in [Transports -> Callers \union {Nobody, Main}]
      /\ events \in [Callers \union {Main} -> Seq(Events)]
      /\ Main \notin Callers \union {Nobody}
      /\ main \in {"idle", "quiesce", "stop", "wait", "finish", "watch", "done"}
  BY DEF Typed, TypeOK, ManagerAssumption
<1>1. ASSUME plan' # plan, ~FinishTransport, ~(\E t \in Transports : TakeOverTransport(t))
      PROVE  /\ main \in {"stop", "wait", "finish"} =>
                  current' = current /\ main' \in {"stop", "wait", "finish"}
             /\ main' \in {"stop", "wait", "finish"} => main \in {"stop", "wait", "finish"}
  BY <1>1, PlanMovers DEF CloseTransport, Quiesces, BeginShutdown, WriteStop, StopNotWritten,
     HearStopped, StopWaiting, EndShutdown, SpawnWorker, JoinWorker, AbandonWorker
<1>2. CASE FinishTransport
  <2>1. /\ main = "finish"
        /\ event_sender' = [event_sender EXCEPT ![current] = IF @ = Main THEN Nobody ELSE @]
        /\ events'[Main] = <<>> /\ main' = "quiesce"
    BY <1>0, <1>2 DEF FinishTransport
  <2>2. \A t \in Transports : event_sender'[t] # Main
    BY <1>0, <2>1 DEF MainListens
  <2>. QED
    BY <2>1, <2>2 DEF MainListens
<1>3. CASE \E t \in Transports : TakeOverTransport(t)
  <2>1. PICK t \in Transports : TakeOverTransport(t)
    BY <1>3
  <2>2. /\ main = "quiesce" /\ main' = "stop" /\ current' = t
        /\ event_sender' = [event_sender EXCEPT ![t] = Main]
        /\ events' = events
    BY <2>1 DEF TakeOverTransport, Quiesces
  <2>. QED
    BY <1>0, <2>2 DEF MainListens
<1>4. CASE ~FinishTransport /\ ~(\E t \in Transports : TakeOverTransport(t))
  <2>1. ASSUME NEW c \in Callers,
               \/ CannotConnect(c) \/ HandshakeFails(c) \/ HandshakeTooLate(c)
               \/ Listen(c) \/ StartNotWritten(c) \/ HearStartFailed(c)
               \/ publish_pending(c) \/ StartLeftToOthers(c) \/ discard_pending(c)
               \/ TakeEventSlot(c) \/ DetachTooLate(c) \/ HearDetached(c)
               \/ WriteFailed(c) \/ CloseMine(c) \/ HearAttached(c)
               \/ HearAttachFailed(c),
               NEW t \in Transports, event_sender'[t] = Main
        PROVE  event_sender[t] = Main
    BY <1>0, <2>1 DEF CannotConnect, HandshakeFails, HandshakeTooLate, Listen, StartNotWritten,
       HearStartFailed, publish_pending, StartLeftToOthers, discard_pending, TakeEventSlot,
       DetachTooLate, HearDetached, WriteFailed, CloseMine, HearAttached, HearAttachFailed,
       CloseUnlessShuttingDown, Return
  <2>2. \A t \in Transports : event_sender'[t] = Main => event_sender[t] = Main
    BY <1>4, <2>1, SenderMovers
  <2>3. /\ main \in {"stop", "wait", "finish"} =>
              current' = current /\ main' \in {"stop", "wait", "finish"}
        /\ main' \in {"stop", "wait", "finish"} => main \in {"stop", "wait", "finish"}
    BY <1>1, <1>4 DEF plan
  <2>4. main' \notin {"stop", "wait", "finish"} => events'[Main] = events[Main]
    BY <1>4, <2>3, HeardByMain DEF MainListens
  <2>. QED
    BY <2>2, <2>3, <2>4 DEF MainListens
<1>. QED
  BY <1>2, <1>3, <1>4

(* A row that names no connection as attached to one names none.           *)
LEMMA IdleRowsStep ==
    ASSUME ManagerAssumption, Typed, SettledBeforeShutdown, IdleRows, Next
    PROVE  IdleRows'
<1>. DEFINE Idle(r) == r.state \in {"detached", "unreachable"} => r.transport = None
<1>0. /\ records \in [Sessions -> Rows] /\ \A s \in Sessions : Idle(records[s])
      /\ main = "idle" <=> ~shutting_down
  BY DEF Typed, TypeOK, IdleRows
<1>1. \A s \in Sessions : \A t :
        /\ Idle(Tombstone(records[s], t)) /\ Idle(Discard(records[s], t))
        /\ Idle(PublishUnreachable(records[s], t)) /\ Idle(MarkUnreachable(records[s], t))
        /\ Idle(Remove(records[s], t)) /\ Idle(FailReattach(records[s], t))
  BY <1>0 DEF Tombstone, Discard, PublishUnreachable, MarkUnreachable, Remove, FailReattach, Row,
     Absent, Rows
<1>2. \A t, u : Idle(Row("pending", t, None)) /\ Idle(Row("attached", t, None))
                /\ Idle(Row("detached", None, None)) /\ Idle(Absent)
  BY DEF Row, Absent
<1>. SUFFICES ASSUME records' # records PROVE \A s \in Sessions : Idle(records'[s])
  BY <1>0 DEF IdleRows
<1>3. ASSUME NEW c \in Callers,
             \/ CannotConnect(c) \/ HandshakeFails(c) \/ publish_pending(c)
             \/ discard_pending(c)
      PROVE  \A s \in Sessions : Idle(records'[s])
  BY <1>0, <1>1, <1>2, <1>3 DEF CannotConnect, HandshakeFails, publish_pending, discard_pending,
     RecordsAfterFailure
<1>4. ASSUME NEW t PROVE \A s \in Sessions : Idle(RecordsAfterLoss(t)[s])
  BY <1>0, <1>1, LossOfRow DEF RecordsAfterLoss
<1>5. ASSUME NEW c \in Callers, LoseTransport(c) PROVE \A s \in Sessions : Idle(records'[s])
  BY <1>4, <1>5 DEF LoseTransport, handle_transport_loss
<1>6. ASSUME NEW c \in Callers, NEW s \in Sessions, reattach(c, s)
      PROVE  \A r \in Sessions : Idle(records'[r])
  BY <1>0, <1>6 DEF reattach, CanReserve, Rows
<1>7. ASSUME NEW t \in Transports,
             \/ ReadStarted(t) \/ ReadPendingOver(t) \/ ReadOver(t)
             \/ ReadAttached(t) \/ ReadDetached(t)
      PROVE  \A s \in Sessions : Idle(records'[s])
  BY <1>0, <1>1, <1>2, <1>7 DEF ReadStarted, ReadPendingOver, ReadOver, ReadAttached,
     ReadDetached, Changes
<1>8. ASSUME NEW t \in Transports, ReadUnexpected(t) \/ ReadEnd(t)
      PROVE  \A s \in Sessions : Idle(records'[s])
  BY <1>4, <1>8 DEF ReadUnexpected, ReadEnd
<1>9. ASSUME BeginShutdown PROVE \A s \in Sessions : Idle(records'[s])
  BY <1>2, <1>9 DEF BeginShutdown
<1>. QED
  BY <1>3, <1>5, <1>6, <1>7, <1>8, <1>9, RowMovers

(* A connection that never was up is unheard of.                           *)
LEMMA QuietStep ==
    ASSUME ManagerAssumption, Typed, FreshIsQuiet, Next
    PROVE  FreshIsQuiet'
<1>0. /\ link \in [Transports -> {"none", "up", "cut", "reaped"}]
      /\ inbox \in [Transports -> Seq(Answers)]
      /\ outbox \in [Transports -> Seq(Orders)]
      /\ \A s \in Sessions : worker_id[s] \in Ids
  BY DEF Typed, TypeOK
<1>. SUFFICES ASSUME NEW t \in Transports, link'[t] = "none" PROVE Quiet(t)'
  BY DEF FreshIsQuiet
<1>1. link[t] = "none"
  <2>. SUFFICES ASSUME link'[t] # link[t] PROVE FALSE
    OBVIOUS
  <2>1. ASSUME NEW c \in Callers, mine[c] = t,
               \/ Connect(c) \/ HandshakeFails(c) \/ StartNotWritten(c)
               \/ HearStartFailed(c) \/ discard_pending(c) \/ CloseMine(c)
        PROVE  FALSE
    BY <1>0, <2>1 DEF Connect, HandshakeFails, StartNotWritten, HearStartFailed, discard_pending,
       CloseMine, finish_transport, Reap
  <2>2. ASSUME FinishReader(t) \/ ConnectionCut(t) \/ CloseTransport(t) PROVE FALSE
    BY <1>0, <2>2 DEF FinishReader, ConnectionCut, CloseTransport, finish_transport, Reap
  <2>3. ASSUME FinishTransport, current = t PROVE FALSE
    BY <1>0, <2>3 DEF FinishTransport, finish_transport, Reap
  <2>4. ASSUME NEW s \in Sessions, worker_id[s] = t,
               AbandonWorker(s) \/ WorkerConnects(s) \/ WorkerFinishes(s)
        PROVE  FALSE
    BY <1>0, <2>4 DEF AbandonWorker, WorkerConnects, WorkerFinishes, finish_transport, Reap
  <2>. QED
    BY <2>1, <2>2, <2>3, <2>4, LinkSteps
<1>2. Quiet(t) /\ inbox[t] = <<>>
  <2>1. Quiet(t)
    BY <1>1 DEF FreshIsQuiet
  <2>2. inbox[t] \in Seq(Answers) /\ \A i \in 1 .. Len(inbox[t]) : inbox[t][i] \in News(t)
    BY <1>0 DEF News, Entries
  <2>3. Len(inbox[t]) = 0
    BY <2>1, <2>2 DEF Quiet
  <2>. QED
    BY <2>1, <2>2, <2>3
<1>3. inbox'[t] = <<>>
  <2>. SUFFICES ASSUME inbox'[t] # inbox[t] PROVE FALSE
    BY <1>2
  <2>0. ASSUME NEW u \in Ids, Reap(u) PROVE FALSE
    BY <1>0, <1>1, <2>0 DEF Reap, Truncated
  <2>1. ASSUME NEW c \in Callers,
               \/ HandshakeFails(c) \/ StartNotWritten(c) \/ HearStartFailed(c)
               \/ discard_pending(c) \/ CloseMine(c)
        PROVE  FALSE
    BY <2>0, <2>1 DEF HandshakeFails, StartNotWritten, HearStartFailed, discard_pending,
       CloseMine, finish_transport, Typed, TypeOK
  <2>2. ASSUME NEW u \in Transports, FinishReader(u) \/ ConnectionCut(u) \/ CloseTransport(u)
        PROVE  FALSE
    BY <1>0, <1>1, <1>2, <2>0, <2>2 DEF FinishReader, ConnectionCut, Truncated, CloseTransport,
       finish_transport, Ids
  <2>3. ASSUME FinishTransport PROVE FALSE
    BY <2>0, <2>3 DEF FinishTransport, finish_transport, Typed, TypeOK
  <2>4. ASSUME NEW s \in Sessions, AbandonWorker(s) \/ WorkerFinishes(s)
        PROVE  FALSE
    BY <2>0, <2>4 DEF AbandonWorker, WorkerFinishes, finish_transport, Typed, TypeOK
  <2>5. ASSUME NEW s \in Sessions,
               \/ WorkerReads(s, "read_attach", "attached", "stop")
               \/ WorkerReads(s, "read_stop", "stopped", "finish")
        PROVE  FALSE
    BY <1>0, <1>2, <2>5 DEF WorkerReads
  <2>6. ASSUME NEW s \in Sessions, BrokerAnnounces(s) PROVE FALSE
    BY <1>0, <1>1, <2>6 DEF BrokerAnnounces, Replied
  <2>7. ASSUME NEW u \in Transports,
               \/ ReadStarted(u) \/ ReadPendingOver(u) \/ ReadOver(u)
               \/ ReadAttached(u) \/ ReadDetached(u) \/ ReadWhileStopping(u)
               \/ ReadStopped(u) \/ ReadUnexpected(u)
        PROVE  FALSE
    BY <1>0, <1>2, <2>7 DEF ReadStarted, ReadPendingOver, ReadOver, ReadAttached, ReadDetached,
       ReadWhileStopping, ReadStopped, ReadUnexpected, Reads
  <2>8. ASSUME NEW u \in Transports,
               \/ BrokerStarts(u) \/ BrokerDelivers(u) \/ BrokerConfirms(u)
               \/ BrokerAttaches(u) \/ BrokerDetaches(u) \/ BrokerStops(u)
        PROVE  FALSE
    BY <1>0, <1>1, <2>8 DEF BrokerStarts, BrokerDelivers, BrokerConfirms, BrokerAttaches,
       BrokerDetaches, BrokerStops, Replied
  <2>. QED
    BY <2>1, <2>2, <2>3, <2>4, <2>5, <2>6, <2>7, <2>8, InboxMovers
<1>4. outbox'[t] = <<>>
  <2>. SUFFICES ASSUME outbox'[t] # <<>> PROVE FALSE
    OBVIOUS
  <2>0. outbox[t] = <<>>
    BY <1>2 DEF Quiet
  <2>1. ASSUME NEW c \in Callers,
               Listen(c) \/ confirm_pending(c) \/ WriteDetach(c) \/ WriteAttach(c)
        PROVE  FALSE
    BY <1>0, <1>1, <2>0, <2>1 DEF Listen, confirm_pending, WriteDetach, WriteAttach, Written
  <2>2. ASSUME NEW u \in Transports,
               \/ BrokerStarts(u) \/ BrokerConfirms(u) \/ BrokerAttaches(u)
               \/ BrokerDetaches(u) \/ BrokerStops(u) \/ BrokerNotices(u)
        PROVE  FALSE
    BY <1>0, <2>0, <2>2 DEF BrokerStarts, BrokerConfirms, BrokerAttaches, BrokerDetaches,
       BrokerStops, BrokerNotices, Requested
  <2>3. ASSUME WriteStop PROVE FALSE
    BY <1>0, <1>1, <2>0, <2>3 DEF WriteStop, Written
  <2>4. ASSUME NEW s \in Sessions, WorkerAttaches(s) \/ WorkerRequestsStop(s) PROVE FALSE
    BY <1>0, <1>1, <2>0, <2>4 DEF WorkerAttaches, WorkerRequestsStop, WorkerWrites, Written,
       WriteFails
  <2>. QED
    BY <2>0, <2>1, <2>2, <2>3, <2>4, OutboxMovers
<1>5. \A s \in Sessions : holder'[s] # t /\ notify'[s] # t
  BY <1>2, HolderSteps DEF Quiet, BrokerStarts, BrokerAttaches, Requested
<1>. QED
  BY <1>3, <1>4, <1>5 DEF Quiet, News, Entries

(* Once the application ends no row is made and no connection of a command *)
(* is, and what a command has begun it does not carry on with.             *)
LEMMA NothingBegins ==
    ASSUME Typed, NoRowAfterShutdown, shutting_down
    PROVE  /\ ~BeginShutdown
           /\ \A c \in Callers :
                 /\ ~start(c) /\ ~Connect(c) /\ ~publish_pending(c)
                 /\ ~WriteDetach(c) /\ ~DetachNotWritten(c) /\ ~WriteAttach(c)
                 /\ \A s \in Sessions : ~reattach(c, s) /\ ~detach(c, s)
           /\ \A t \in Transports :
                 /\ ReadStarted(t) => ReadsLast(t, "Lost")
                 /\ ReadAttached(t) /\ key[t] \in Sessions => ReadsLast(t, "Lost")
                 /\ ReadDetached(t) /\ key[t] \in Sessions => ReadsLast(t, "Lost")
<1>1. ~BeginShutdown
  BY DEF BeginShutdown, Typed
<1>2. ASSUME NEW c \in Callers
      PROVE  /\ ~start(c) /\ ~Connect(c) /\ ~publish_pending(c)
             /\ ~WriteDetach(c) /\ ~DetachNotWritten(c) /\ ~WriteAttach(c)
             /\ \A s \in Sessions : ~reattach(c, s)
  BY DEF start, reattach, Begin, Connect, MayRegister, publish_pending, WriteDetach,
     DetachNotWritten, WriteAttach
<1>3. ASSUME NEW c \in Callers, NEW s \in Sessions, detach(c, s) PROVE FALSE
  BY <1>3, NoRowStaysNone DEF detach, NoRowAfterShutdown
<1>4. ASSUME NEW t \in Transports
      PROVE  /\ ReadStarted(t) => ReadsLast(t, "Lost")
             /\ ReadAttached(t) /\ key[t] \in Sessions => ReadsLast(t, "Lost")
             /\ ReadDetached(t) /\ key[t] \in Sessions => ReadsLast(t, "Lost")
  BY NoRowStaysNone DEF ReadStarted, MayInsert, ReadAttached, ReadDetached, NoRowAfterShutdown
<1>. QED
  BY <1>1, <1>2, <1>3, <1>4

(* A command keeps its connection until it returns.                        *)
LEMMA CallsInShutdown ==
    ASSUME ManagerAssumption, Typed, NoRowAfterShutdown, shutting_down, Next, NEW c \in Callers
    PROVE  /\ mine'[c] = mine[c] \/ mine'[c] = None
           /\ pc'[c] # "idle" => mine'[c] = mine[c] /\ pc[c] # "idle"
<1>1. /\ ~start(c)
      /\ \A s \in Sessions : ~reattach(c, s) /\ ~detach(c, s)
  BY NothingBegins
<1>2. CASE \/ pc'[c] = pc[c] /\ mine'[c] = mine[c] /\ at'[c] = at[c]
           \/ pc[c] # "idle" /\ mine'[c] = mine[c]
           \/ pc'[c] = "idle" /\ mine'[c] = None
  BY <1>2
<1>3. CASE pc[c] = "idle" /\ pc'[c] = "connect" /\ next_transport_id' = next_transport_id + 1
  <2>0. next_transport_id \in Nat /\ next_transport_id' # next_transport_id
    BY <1>3 DEF Typed, TypeOK
  <2>1. \A d \in Callers : ~start(d) /\ \A s \in Sessions : ~reattach(d, s)
    BY NothingBegins
  <2>2. ASSUME NEW s \in Sessions, SpawnWorker(s) PROVE FALSE
    BY <1>3, <2>2 DEF SpawnWorker, UnchangedByMain, calls
  <2>. QED
    BY <2>0, <2>1, <2>2, IdMovers
<1>4. CASE /\ pc[c] = "idle" /\ pc'[c] = "detach" /\ at'[c] \in Sessions
           /\ CanDetach(records[at'[c]])
  BY <1>4, NoRowStaysNone DEF NoRowAfterShutdown
<1>. QED
  BY <1>2, <1>3, <1>4, CallChanges

(* A worker has a connection that no command and no other worker has.      *)
LEMMA WorkersApartStep ==
    ASSUME ManagerAssumption, Typed, Typed', NoRowAfterShutdown, SettledBeforeShutdown,
           SettledBeforeShutdown', WorkersApart, Next
    PROVE  WorkersApart'
<1>0. /\ next_transport_id \in Nat /\ next_transport_id # None /\ None = 0
      /\ Transports \subseteq Nat /\ None \notin Transports
      /\ \A c \in Callers : mine[c] \in Ids /\ (mine[c] = None <=> pc[c] = "idle")
      /\ worker \in [Sessions -> {"none", "begin", "connect", "check", "read_attach", "stop",
                                  "read_stop", "finish", "done"}]
      /\ worker_id \in [Sessions -> Ids]
      /\ \A s \in Sessions : worker[s] # "none" => worker_id[s] \in Transports
      /\ reader \in [Transports -> {"none", "running", "ending", "done"}]
      /\ link \in [Transports -> {"none", "up", "cut", "reaped"}]
  BY TransportIds DEF Typed, TypeOK, None
<1>1. CASE ~shutting_down'
  <2>1. Settled'
    BY <1>1 DEF SettledBeforeShutdown
  <2>. QED
    BY <2>1 DEF WorkersApart, Settled, WorkersAreIdle, IdsAreFresh, Unused
<1>2. CASE ~shutting_down /\ shutting_down'
  <2>1. BeginShutdown
    BY <1>2, FlagMovers
  <2>2. UNCHANGED <<mine, next_transport_id, link, reader, worker>>
    BY <2>1 DEF BeginShutdown, calls, conns, workers
  <2>3. WorkersAreIdle
    BY <1>2 DEF SettledBeforeShutdown, Settled
  <2>. QED
    BY <2>2, <2>3 DEF WorkersApart, WorkersAreIdle
<1>3. CASE shutting_down
  <2>1. /\ next_transport_id' >= next_transport_id /\ next_transport_id' \in Nat
        /\ next_transport_id' # next_transport_id => \E s \in Sessions : SpawnWorker(s)
    BY <1>0, <1>3, NothingBegins, IdMovers DEF SpawnWorker
  <2>2. \A c \in Callers : mine'[c] \in {mine[c], None}
    BY <1>3, CallsInShutdown
  <2>3. \A c \in Callers : ~Connect(c)
    BY <1>3, NothingBegins
  <2>4. \A c \in Callers : mine[c] < next_transport_id
    BY DEF WorkersApart
  <2>5. \A c \in Callers : mine'[c] < next_transport_id'
    <3>1. ASSUME NEW c \in Callers PROVE mine[c] \in Nat
      <4>1. mine[c] \in Transports \/ mine[c] = None
        BY <1>0 DEF Ids
      <4>2. Transports \subseteq Nat /\ None \in Nat
        BY TransportIds DEF None
      <4>. QED
        BY <4>1, <4>2
    <3>2. 0 < next_transport_id'
      BY <1>0, <2>1
    <3>. QED
      BY <1>0, <2>1, <2>2, <2>4, <3>1, <3>2
  <2>6. ASSUME NEW t \in Transports, link[t] = "none", reader[t] = "none", link'[t] # "none"
        PROVE  \E s \in Sessions : worker_id[s] = t /\ worker[s] = "connect" /\ WorkerConnects(s)
    <3>1. ASSUME NEW c \in Callers, mine[c] = t,
                 \/ HandshakeFails(c) \/ StartNotWritten(c)
                 \/ HearStartFailed(c) \/ discard_pending(c) \/ CloseMine(c)
          PROVE  FALSE
      BY <1>0, <2>6, <3>1 DEF HandshakeFails, StartNotWritten, HearStartFailed, discard_pending,
         CloseMine, finish_transport, Reap
    <3>2. ASSUME ConnectionCut(t) \/ CloseTransport(t) PROVE FALSE
      BY <1>0, <2>6, <3>2 DEF ConnectionCut, CloseTransport, finish_transport, Reap
    <3>3. ASSUME FinishTransport, current = t PROVE FALSE
      BY <1>0, <2>6, <3>3 DEF FinishTransport, finish_transport, Reap
    <3>4. ASSUME NEW s \in Sessions, worker_id[s] = t,
                 AbandonWorker(s) \/ WorkerFinishes(s)
          PROVE  FALSE
      BY <1>0, <2>6, <3>4 DEF AbandonWorker, WorkerFinishes, finish_transport, Reap
    <3>5. ASSUME FinishReader(t) PROVE FALSE
      BY <3>5, <2>6 DEF FinishReader
    <3>. QED
      BY <2>3, <2>6, <3>1, <3>2, <3>3, <3>4, <3>5, LinkSteps DEF WorkerConnects
  <2>7. ASSUME NEW t \in Transports, reader[t] = "none", \A c \in Callers : mine[c] # t
        PROVE  reader'[t] = "none"
    <3>1. ASSUME NEW c \in Callers, Listen(c) \/ StartNotWritten(c) PROVE reader'[t] = "none"
      BY <1>0, <2>7, <3>1 DEF Listen, StartNotWritten
    <3>2. ASSUME NEW u \in Transports,
                 \/ ReadStarted(u) \/ ReadPendingOver(u) \/ ReadOver(u) \/ ReadAttached(u)
                 \/ ReadDetached(u) \/ ReadStopped(u) \/ ReadUnexpected(u) \/ ReadEnd(u)
          PROVE  reader'[t] = "none"
      BY <1>0, <2>7, <3>2 DEF ReadStarted, ReadPendingOver, ReadOver, ReadAttached, ReadDetached,
         ReadStopped, ReadUnexpected, ReadEnd, Reads, ReadsLast
    <3>3. ASSUME NEW u \in Transports, FinishReader(u) PROVE reader'[t] = "none"
      BY <1>0, <2>7, <3>3 DEF FinishReader
    <3>. QED
      BY <2>7, <3>1, <3>2, <3>3, ReaderMovers
  <2>8. \A t \in Transports : t >= next_transport_id' => link'[t] = "none" /\ reader'[t] = "none"
    <3>. SUFFICES ASSUME NEW t \in Transports, t >= next_transport_id'
                  PROVE  link'[t] = "none" /\ reader'[t] = "none"
      OBVIOUS
    <3>1. t >= next_transport_id /\ t \in Nat
      BY <1>0, <2>1
    <3>2. link[t] = "none" /\ reader[t] = "none"
      BY <3>1 DEF WorkersApart
    <3>3. \A c \in Callers : mine[c] # t
      BY <1>0, <2>4, <3>1, TransportIds DEF Ids
    <3>4. ASSUME NEW s \in Sessions, worker_id[s] = t, worker[s] # "none" PROVE FALSE
      BY <1>0, <3>1, <3>4 DEF WorkersApart
    <3>. QED
      BY <2>6, <2>7, <3>2, <3>3, <3>4
  <2>9. ASSUME NEW s \in Sessions
        PROVE  \/ /\ worker[s] # "none" /\ worker_id'[s] = worker_id[s]
                  /\ \/ worker'[s] = worker[s]
                     \/ worker[s] = "begin"
                     \/ worker'[s] \notin {"none", "begin", "connect"}
               \/ worker'[s] = "none" /\ worker[s] = "none"
               \/ SpawnWorker(s)
    <3>1. ASSUME NEW r \in Sessions, SpawnWorker(r), r # s
          PROVE  worker'[s] = worker[s] /\ worker_id'[s] = worker_id[s]
      BY <1>0, <3>1 DEF SpawnWorker
    <3>2. ASSUME NEW r \in Sessions, AbandonWorker(r)
          PROVE  worker'[s] = worker[s] /\ worker_id'[s] = worker_id[s]
      BY <3>2 DEF AbandonWorker
    <3>3. ASSUME NEW r \in Sessions,
                 \/ WorkerBegins(r)
                 \/ WorkerConnects(r) \/ WorkerCannotConnect(r) \/ WorkerStops(r)
                 \/ WorkerAttaches(r)
                 \/ WorkerReads(r, "read_attach", "attached", "stop")
                 \/ WorkerReads(r, "read_stop", "stopped", "finish")
                 \/ WorkerRequestsStop(r) \/ WorkerFinishes(r)
          PROVE  /\ worker_id'[s] = worker_id[s]
                 /\ \/ worker'[s] = worker[s]
                    \/ worker[s] = "begin"
                    \/ worker[s] # "none" /\ worker'[s] \notin {"none", "begin", "connect"}
      BY <1>0, <3>3 DEF WorkerBegins, WorkerConnects, WorkerCannotConnect, WorkerStops,
         WorkerAttaches, WorkerReads, WorkerRequestsStop, WorkerWrites, WorkerFinishes,
         WorkerGoes, UnchangedByWorker
    <3>4. CASE UNCHANGED workers
      BY <3>4 DEF workers
    <3>. QED
      BY <3>1, <3>2, <3>3, <3>4, WorkerMovers
  <2>10. ASSUME NEW s \in Sessions, worker[s] # "none"
         PROVE  main' \in {"quiesce", "watch", "done"} /\ to_quiesce' = {}
    <3>1. main \in {"quiesce", "watch", "done"} /\ to_quiesce = {}
      BY <2>10 DEF WorkersApart
    <3>2. \A t \in Transports : ~CloseTransport(t) /\ ~TakeOverTransport(t)
      BY <3>1 DEF CloseTransport, TakeOverTransport, Quiesces
    <3>3. ~BeginShutdown /\ ~WriteStop /\ ~StopNotWritten /\ ~HearStopped /\ ~StopWaiting
          /\ ~FinishTransport
      BY <3>1 DEF BeginShutdown, WriteStop, StopNotWritten, HearStopped, StopWaiting,
         FinishTransport
    <3>4. ASSUME NEW r \in Sessions, SpawnWorker(r) \/ JoinWorker(r) \/ AbandonWorker(r)
          PROVE  main' \in {"quiesce", "watch", "done"} /\ to_quiesce' = {}
      BY <3>1, <3>4 DEF SpawnWorker, JoinWorker, AbandonWorker
    <3>5. EndShutdown => main' \in {"quiesce", "watch", "done"} /\ to_quiesce' = {}
      BY <3>1 DEF EndShutdown
    <3>. QED
      BY <3>1, <3>2, <3>3, <3>4, <3>5, PlanMovers DEF plan
  <2>11. ASSUME NEW s \in Sessions, worker'[s] # "none", NEW r \in Sessions,
                worker'[r] # "none", worker_id'[r] = worker_id'[s]
         PROVE  r = s
    <3>1. ASSUME NEW u \in Sessions, SpawnWorker(u)
          PROVE  \A v \in Sessions : /\ v # u => worker'[v] = worker[v]
                                                  /\ worker_id'[v] = worker_id[v]
                                     /\ v = u => worker_id'[v] = next_transport_id
      BY <1>0, <3>1 DEF SpawnWorker
    <3>2. \A v \in Sessions : worker[v] # "none" => /\ worker_id[v] < next_transport_id
                                                   /\ worker_id[v] \in Nat
      BY <1>0 DEF WorkersApart
    <3>3. CASE \E u \in Sessions : SpawnWorker(u)
      BY <1>0, <2>11, <3>1, <3>2, <3>3 DEF WorkersApart
    <3>4. CASE ~(\E u \in Sessions : SpawnWorker(u))
      BY <2>9, <2>11, <3>4 DEF WorkersApart
    <3>. QED
      BY <3>3, <3>4
  <2>12. ASSUME NEW s \in Sessions, worker'[s] # "none"
         PROVE  /\ worker_id'[s] < next_transport_id'
                /\ \A c \in Callers : mine'[c] # worker_id'[s]
                /\ reader'[worker_id'[s]] = "none"
                /\ worker'[s] \in {"begin", "connect"} => link'[worker_id'[s]] = "none"
                /\ main' \in {"quiesce", "watch", "done"} /\ to_quiesce' = {}
    <3>1. CASE SpawnWorker(s)
      <4>1. /\ worker_id'[s] = next_transport_id /\ next_transport_id \in Transports
            /\ next_transport_id' = next_transport_id + 1
            /\ main' = "watch" /\ to_quiesce' = {}
            /\ UNCHANGED <<link, reader, mine>>
        BY <1>0, <3>1 DEF SpawnWorker, UnchangedByMain, calls
      <4>2. link[next_transport_id] = "none" /\ reader[next_transport_id] = "none"
        BY <1>0, <4>1 DEF WorkersApart
      <4>3. \A c \in Callers : mine[c] # next_transport_id
        BY <1>0, <2>4, TransportIds DEF Ids
      <4>. QED
        BY <1>0, <4>1, <4>2, <4>3
    <3>2. CASE ~SpawnWorker(s)
      <4>1. worker[s] # "none" /\ worker_id'[s] = worker_id[s] /\ worker_id[s] \in Transports
        BY <1>0, <2>9, <2>12, <3>2
      <4>2. /\ worker_id[s] < next_transport_id /\ \A c \in Callers : mine[c] # worker_id[s]
            /\ reader[worker_id[s]] = "none"
            /\ worker[s] \in {"begin", "connect"} => link[worker_id[s]] = "none"
        BY <4>1 DEF WorkersApart
      <4>3. worker_id'[s] < next_transport_id'
        <5>1. worker_id[s] \in Nat
          BY <1>0, <4>1
        <5>. QED
          BY <1>0, <2>1, <4>1, <4>2, <5>1
      <4>4. \A c \in Callers : mine'[c] # worker_id'[s]
        BY <1>0, <2>2, <4>1, <4>2
      <4>5. reader'[worker_id'[s]] = "none"
        BY <2>7, <4>1, <4>2
      <4>6. ASSUME worker'[s] \in {"begin", "connect"}, link'[worker_id[s]] # "none" PROVE FALSE
        <5>1. worker[s] \in {"begin", "connect"}
          BY <2>9, <3>2, <4>1, <4>6
        <5>2. PICK r \in Sessions : worker_id[r] = worker_id[s] /\ worker[r] = "connect"
                                    /\ WorkerConnects(r)
          BY <2>6, <4>1, <4>2, <4>6, <5>1
        <5>3. r = s
          BY <4>1, <5>2 DEF WorkersApart
        <5>. QED
          BY <1>0, <4>6, <5>2, <5>3 DEF WorkerConnects, WorkerGoes
      <4>. QED
        BY <2>10, <4>1, <4>3, <4>4, <4>5, <4>6
    <3>. QED
      BY <3>1, <3>2
  <2>. QED
    BY <2>5, <2>8, <2>11, <2>12 DEF WorkersApart
<1>. QED
  BY <1>1, <1>2, <1>3

(* A worker that is cancelled leaves a session that was given up.          *)
LEMMA CancelledStep ==
    ASSUME Typed, NoRowAfterShutdown, CancelledAreGivenUp, Next
    PROVE  CancelledAreGivenUp'
<1>0. /\ cancelled \subseteq given_up
      /\ ~shutting_down => cancelled = {}
      /\ main = "idle" <=> ~shutting_down
  BY DEF CancelledAreGivenUp, Typed
<1>1. shutting_down => shutting_down'
  BY FlagMovers DEF BeginShutdown
<1>2. CASE ~shutting_down
  <2>1. ASSUME NEW s \in Sessions, SpawnWorker(s) \/ AbandonWorker(s) PROVE FALSE
    BY <1>0, <1>2, <2>1 DEF SpawnWorker, AbandonWorker
  <2>2. ASSUME NEW s \in Sessions,
               \/ WorkerBegins(s)
               \/ WorkerConnects(s) \/ WorkerCannotConnect(s) \/ WorkerStops(s)
               \/ WorkerAttaches(s)
               \/ WorkerReads(s, "read_attach", "attached", "stop")
               \/ WorkerReads(s, "read_stop", "stopped", "finish")
               \/ WorkerRequestsStop(s) \/ WorkerFinishes(s)
        PROVE  UNCHANGED cancelled
    BY <2>2 DEF WorkerBegins, WorkerConnects, WorkerCannotConnect, WorkerStops, WorkerAttaches,
       WorkerReads, WorkerRequestsStop, WorkerWrites, WorkerFinishes, UnchangedByWorker
  <2>3. cancelled' = {}
    BY <1>0, <1>2, <2>1, <2>2, WorkerMovers DEF workers
  <2>. QED
    BY <2>3 DEF CancelledAreGivenUp
<1>3. CASE shutting_down
  <2>1. given_up \subseteq given_up'
    <3>1. ASSUME NEW c \in Callers,
                 \/ HearStartFailed(c) \/ discard_pending(c) \/ TakeEventSlot(c) \/ CloseMine(c)
          PROVE  UNCHANGED given_up
      BY <3>1 DEF HearStartFailed, discard_pending, TakeEventSlot, CloseMine, MayInterrupt,
         UnchangedByCommands
    <3>2. ASSUME NEW t \in Transports, BrokerAttaches(t) PROVE given_up \subseteq given_up'
      BY <3>2 DEF BrokerAttaches
    <3>3. ASSUME StopWaiting PROVE given_up \subseteq given_up'
      BY <3>3 DEF StopWaiting, GivesUp
    <3>4. ASSUME NEW s \in Sessions, AbandonWorker(s) \/ WorkerCannotConnect(s)
          PROVE  given_up \subseteq given_up'
      BY <3>4 DEF AbandonWorker, WorkerCannotConnect, GivesUp
    <3>5. ~BeginShutdown
      BY <1>3, NothingBegins
    <3>. QED
      BY <3>1, <3>2, <3>3, <3>4, <3>5, HistoryMovers
  <2>2. ASSUME NEW s \in Sessions, AbandonWorker(s) PROVE cancelled' \subseteq given_up'
    BY <1>0, <2>2 DEF AbandonWorker, GivesUp
  <2>3. ASSUME NEW s \in Sessions,
               \/ SpawnWorker(s) \/ WorkerBegins(s)
               \/ WorkerConnects(s) \/ WorkerCannotConnect(s) \/ WorkerStops(s)
               \/ WorkerAttaches(s)
               \/ WorkerReads(s, "read_attach", "attached", "stop")
               \/ WorkerReads(s, "read_stop", "stopped", "finish")
               \/ WorkerRequestsStop(s) \/ WorkerFinishes(s)
        PROVE  UNCHANGED cancelled
    BY <2>3 DEF SpawnWorker, WorkerBegins, WorkerConnects, WorkerCannotConnect, WorkerStops,
       WorkerAttaches, WorkerReads, WorkerRequestsStop, WorkerWrites, WorkerFinishes,
       UnchangedByWorker
  <2>4. cancelled' \subseteq given_up'
    BY <1>0, <2>1, <2>2, <2>3, WorkerMovers DEF workers
  <2>. QED
    BY <1>1, <1>3, <2>4 DEF CancelledAreGivenUp
<1>. QED
  BY <1>2, <1>3

(* How a command comes to lose its connection.                             *)
LEMMA LosingCalls ==
    ASSUME ManagerAssumption, Typed, Next, NEW c \in Callers
    PROVE  /\ pc'[c] = "attach" => pc[c] = "attach" \/ (Listen(c) /\ ~Starting(c))
           /\ pc'[c] = "lost" => pc[c] = "lost" \/ DetachNotWritten(c) \/ AttachNotWritten(c)
           /\ pc'[c] = "lose" => pc[c] = "lose" \/ (pc[c] = "lost" /\ ~shutting_down)
           /\ pc'[c] \in {"attach", "lost", "lose"} => mine'[c] = mine[c] /\ pc[c] # "idle"
<1>. DEFINE P == /\ pc'[c] = "attach" => pc[c] = "attach" \/ (Listen(c) /\ ~Starting(c))
                 /\ pc'[c] = "lost" => pc[c] = "lost" \/ DetachNotWritten(c) \/ AttachNotWritten(c)
                 /\ pc'[c] = "lose" => pc[c] = "lose" \/ (pc[c] = "lost" /\ ~shutting_down)
<1>0. pc \in [Callers -> Steps]
  BY DEF Typed, TypeOK
<1>1. CASE UNCHANGED calls
  BY <1>1 DEF calls
<1>2. ASSUME NEW d \in Callers,
             \/ start(d) \/ Connect(d) \/ CannotConnect(d) \/ Handshake(d)
             \/ HandshakeFails(d) \/ HandshakeTooLate(d)
             \/ StartNotWritten(d) \/ HearStarted(d) \/ HearStartFailed(d)
             \/ confirm_pending(d) \/ ConfirmFails(d) \/ publish_pending(d)
             \/ StartLeftToOthers(d) \/ StartNotPublished(d) \/ discard_pending(d)
      PROVE  P
  BY <1>0, <1>2 DEF start, Begin, Connect, CannotConnect, Handshake, HandshakeFails,
     HandshakeTooLate, StartNotWritten, HearStarted, HearStartFailed, confirm_pending,
     ConfirmFails, publish_pending, StartLeftToOthers, StartNotPublished, discard_pending,
     CloseUnlessShuttingDown, Return, Goto
<1>3. ASSUME NEW d \in Callers, Listen(d) PROVE P
  BY <1>0, <1>3 DEF Listen, Goto
<1>4. ASSUME NEW d \in Callers, DetachNotWritten(d) \/ AttachNotWritten(d) PROVE P
  BY <1>0, <1>4 DEF DetachNotWritten, AttachNotWritten, Goto
<1>5. ASSUME NEW d \in Callers,
             \/ TakeEventSlot(d) \/ DetachTooLate(d) \/ WriteDetach(d)
             \/ HearDetached(d) \/ WriteAttach(d) \/ LoseTransport(d)
             \/ CloseMine(d) \/ HearAttached(d) \/ HearAttachFailed(d)
      PROVE  P
  BY <1>0, <1>5 DEF TakeEventSlot, DetachTooLate, WriteDetach, HearDetached, WriteAttach,
     LoseTransport, CloseMine, HearAttached, HearAttachFailed, CloseUnlessShuttingDown, Return, Goto
<1>6. ASSUME NEW d \in Callers, WriteFailed(d) PROVE P
  BY <1>0, <1>6 DEF WriteFailed, CloseUnlessShuttingDown, Return, Goto
<1>7. ASSUME NEW d \in Callers, NEW s \in Sessions, reattach(d, s) \/ detach(d, s) PROVE P
  BY <1>0, <1>7 DEF reattach, Begin, detach, Goto
<1>8. P
  BY <1>1, <1>2, <1>3, <1>4, <1>5, <1>6, <1>7, CallMovers
<1>9. pc'[c] \in {"attach", "lost", "lose"} => mine'[c] = mine[c] /\ pc[c] # "idle"
  <2>1. pc'[c] = pc[c] \/ pc[c] # "idle" \/ pc'[c] \in {"connect", "detach"}
    BY CallChanges
  <2>. QED
    BY <2>1, CallChanges
<1>. QED
  BY <1>8, <1>9

(* A companion that was killed stays so.                                   *)
LEMMA ReapedStays ==
    ASSUME ManagerAssumption, Typed, SettledBeforeShutdown, WorkersApart, Next,
           NEW t \in Transports, link[t] = "reaped"
    PROVE  link'[t] = "reaped"
<1>0. link \in [Transports -> {"none", "up", "cut", "reaped"}]
  BY DEF Typed, TypeOK
<1>. SUFFICES ASSUME link'[t] # link[t] PROVE FALSE
  OBVIOUS
<1>1. ASSUME NEW c \in Callers, mine[c] = t, Connect(c) PROVE FALSE
  BY <1>1 DEF Connect, MayRegister, SettledBeforeShutdown, Settled, IdsAreFresh, Unused
<1>2. ASSUME NEW c \in Callers, mine[c] = t,
             \/ HandshakeFails(c) \/ StartNotWritten(c)
             \/ HearStartFailed(c) \/ discard_pending(c) \/ CloseMine(c)
      PROVE  FALSE
  BY <1>0, <1>2 DEF HandshakeFails, StartNotWritten, HearStartFailed, discard_pending,
     CloseMine, finish_transport, Reap
<1>3. ASSUME FinishReader(t) \/ ConnectionCut(t) \/ CloseTransport(t) PROVE FALSE
  BY <1>0, <1>3 DEF FinishReader, ConnectionCut, CloseTransport, finish_transport, Reap
<1>4. ASSUME FinishTransport, current = t PROVE FALSE
  BY <1>0, <1>4 DEF FinishTransport, finish_transport, Reap
<1>5. ASSUME NEW s \in Sessions, worker_id[s] = t, AbandonWorker(s) \/ WorkerFinishes(s)
      PROVE  FALSE
  BY <1>0, <1>5 DEF AbandonWorker, WorkerFinishes, finish_transport, Reap
<1>6. ASSUME NEW s \in Sessions, worker_id[s] = t, WorkerConnects(s) PROVE FALSE
  BY <1>6 DEF WorkerConnects, WorkersApart
<1>. QED
  BY <1>1, <1>2, <1>3, <1>4, <1>5, <1>6, LinkSteps

(* A connection that is to be attached is, with the request, or is closed. *)
LEMMA AwaitingStays ==
    ASSUME ManagerAssumption, Typed, SettledBeforeShutdown, Next,
           NEW t \in Transports, binding[t] = "AwaitingAttach"
    PROVE  \/ binding'[t] \in {"AwaitingAttach", "Closed"}
           \/ \E c \in Callers : mine[c] = t /\ WriteAttach(c)
<1>0. binding \in [Transports -> Bindings]
  BY DEF Typed, TypeOK
<1>1. ASSUME NEW c \in Callers, mine[c] = t, Connect(c) PROVE FALSE
  BY <1>1 DEF Connect, MayRegister, SettledBeforeShutdown, Settled, IdsAreFresh, Unused
<1>2. ASSUME NEW c \in Callers, mine[c] = t,
             \/ confirm_pending(c) \/ publish_pending(c) \/ WriteDetach(c)
      PROVE  FALSE
  BY <1>2 DEF confirm_pending, publish_pending, WriteDetach
<1>3. ASSUME NEW c \in Callers, mine[c] = t, discard_pending(c) \/ LoseTransport(c)
      PROVE  binding'[t] \in {"AwaitingAttach", "Closed"}
  BY <1>0, <1>3 DEF discard_pending, LoseTransport, handle_transport_loss
<1>4. ASSUME \/ ReadStarted(t) \/ ReadAttached(t) \/ TakeOverTransport(t)
      PROVE  FALSE
  BY <1>4 DEF ReadStarted, ReadAttached, TakeOverTransport, Reads
<1>5. ASSUME \/ ReadPendingOver(t) \/ ReadOver(t) \/ ReadDetached(t) \/ ReadStopped(t)
             \/ ReadUnexpected(t) \/ ReadEnd(t) \/ CloseTransport(t)
      PROVE  binding'[t] = "Closed"
  BY <1>0, <1>5 DEF ReadPendingOver, ReadOver, ReadDetached, ReadStopped, ReadUnexpected, ReadEnd,
     ReadsLast, CloseTransport
<1>6. ASSUME NEW s \in Sessions, worker_id[s] = t, WorkerConnects(s)
      PROVE  binding'[t] = "Closed"
  BY <1>0, <1>6 DEF WorkerConnects
<1>. QED
  BY <1>1, <1>2, <1>3, <1>4, <1>5, <1>6, BindingSteps

(* Only a connection that was not attached yet, or is closed, is lost by a *)
(* command while its companion runs.                                       *)
LEMMA LosersStep ==
    ASSUME ManagerAssumption, "cut" \notin Happens, Typed, Typed', LinksHold,
           SettledBeforeShutdown, InStepBeforeShutdown, WorkersApart, LosersAreCut, Next
    PROVE  LosersAreCut'
<1>0. /\ binding \in [Transports -> Bindings]
      /\ \A c \in Callers : mine[c] \in Ids /\ (mine[c] = None <=> pc[c] = "idle")
      /\ shutting_down => shutting_down'
  BY FlagMovers DEF Typed, TypeOK, BeginShutdown
<1>. SUFFICES ASSUME NEW c \in Callers
              PROVE  /\ pc'[c] = "attach" /\ ~shutting_down' =>
                           binding'[mine'[c]] \in {"AwaitingAttach", "Closed"}
                     /\ pc'[c] = "lose" \/ (pc'[c] = "lost" /\ ~shutting_down') =>
                           \/ binding'[mine'[c]] \in {"AwaitingAttach", "Closed"}
                           \/ link'[mine'[c]] = "reaped"
  BY DEF LosersAreCut
<1>. SUFFICES ASSUME \/ pc'[c] \in {"attach", "lost"} /\ ~shutting_down'
                     \/ pc'[c] = "lose"
              PROVE  \/ binding'[mine[c]] \in {"AwaitingAttach", "Closed"}
                     \/ pc'[c] # "attach" /\ link'[mine[c]] = "reaped"
  BY LosingCalls
<1>1. mine[c] \in Transports
  BY <1>0, LosingCalls DEF Ids
<1>2. CASE Listen(c) /\ pc'[c] = "attach"
  <2>1. pc[c] = "listen" /\ UNCHANGED binding /\ ~Starting(c) /\ ~shutting_down
    BY <1>0, <1>2, LosingCalls DEF Listen, Goto
  <2>2. /\ binding[mine[c]] \in {"AwaitingStart", "AwaitingAttach"} /\ key[mine[c]] = at[c]
        /\ binding[mine[c]] = "AwaitingStart" => key[mine[c]] = NoSession
    BY <1>1, <1>2, <2>1 DEF InStepBeforeShutdown, InStep, BeginningsAreQuiet, Opening, Startless
  <2>. QED
    BY <2>1, <2>2 DEF Starting
<1>3. CASE DetachNotWritten(c) \/ AttachNotWritten(c)
  <2>1. UNCHANGED <<binding, link>> /\ pc'[c] = "lost" /\ ~shutting_down
    BY <1>0, <1>3 DEF DetachNotWritten, AttachNotWritten, conns, Goto, Typed, TypeOK
  <2>2. \/ link[mine[c]] \in {"cut", "reaped"}
        \/ pc[c] = "attach" /\ binding[mine[c]] # "AwaitingAttach"
    BY <1>3, <2>1 DEF DetachNotWritten, AttachNotWritten, WriteFails
  <2>. QED
    BY <1>1, <2>1, <2>2 DEF LinksHold, LosersAreCut
<1>4. CASE /\ pc[c] = "attach" => pc'[c] = "attach"
           /\ \/ pc[c] \in {"attach", "lost"} /\ ~shutting_down
              \/ pc[c] = "lose"
  <2>1. \/ binding[mine[c]] \in {"AwaitingAttach", "Closed"}
        \/ pc[c] # "attach" /\ link[mine[c]] = "reaped"
    BY <1>4 DEF LosersAreCut
  <2>2. CASE pc[c] # "attach" /\ link[mine[c]] = "reaped"
    BY <1>1, <1>4, <2>2, ReapedStays, LosingCalls DEF Listen
  <2>3. CASE binding[mine[c]] = "Closed"
    BY <1>1, <2>3, ClosedStays
  <2>4. CASE binding[mine[c]] = "AwaitingAttach"
    <3>1. ASSUME NEW d \in Callers, mine[d] = mine[c], WriteAttach(d) PROVE FALSE
      <4>1. ~shutting_down /\ pc[d] = "attach" /\ pc'[d] = "await_attach"
        BY <3>1 DEF WriteAttach, Goto, Typed, TypeOK
      <4>2. d # c
        BY <4>1
      <4>3. CommandsKeepApart
        BY <4>1 DEF SettledBeforeShutdown, Settled
      <4>4. mine[c] # None
        BY <1>1, TransportIds
      <4>. QED
        BY <2>4, <3>1, <4>2, <4>3, <4>4 DEF CommandsKeepApart, Over
    <3>. QED
      BY <1>1, <2>4, <3>1, AwaitingStays
  <2>. QED
    BY <2>1, <2>2, <2>3, <2>4
<1>. QED
  BY <1>0, <1>2, <1>3, <1>4, LosingCalls

-----------------------------------------------------------------------------
(* The wire until the shutdown. *)

(* What follows the first message, when one is read and when one arrives.  *)
LEMMA RestOfTail ==
    ASSUME NEW S, NEW w \in Seq(S), w # <<>>
    PROVE  Entries(Tail(w)) = Rest(w)
<1>1. Len(w) \in Nat \ {0} /\ Len(Tail(w)) = Len(w) - 1
  BY EmptySeq, LenProperties, HeadTailProperties
<1>2. \A i \in 1 .. Len(w) - 1 : Tail(w)[i] = w[i + 1]
  BY <1>1
<1>3. ASSUME NEW x \in Rest(w) PROVE x \in Entries(Tail(w))
  <2>1. PICK i \in 2 .. Len(w) : x = w[i]
    BY <1>3 DEF Rest
  <2>2. i - 1 \in 1 .. Len(w) - 1 /\ Tail(w)[i - 1] = x
    BY <1>1, <1>2, <2>1
  <2>. QED
    BY <1>1, <2>2 DEF Entries
<1>4. ASSUME NEW x \in Entries(Tail(w)) PROVE x \in Rest(w)
  <2>1. PICK i \in 1 .. Len(w) - 1 : x = Tail(w)[i]
    BY <1>1, <1>4 DEF Entries
  <2>2. i + 1 \in 2 .. Len(w) /\ w[i + 1] = x
    BY <1>1, <1>2, <2>1
  <2>. QED
    BY <2>2 DEF Rest
<1>. QED
  BY <1>3, <1>4

(* What follows the first message when one more arrives.                   *)
LEMMA RestOfAppend ==
    ASSUME NEW S, NEW w \in Seq(S), NEW x \in S
    PROVE  /\ Rest(Append(w, x)) \subseteq Rest(w) \union {x}
           /\ w = <<>> => Rest(Append(w, x)) = {}
<1>1. /\ Len(w) \in Nat /\ Len(Append(w, x)) = Len(w) + 1
      /\ \A i \in 1 .. Len(w) : Append(w, x)[i] = w[i]
      /\ Append(w, x)[Len(w) + 1] = x
      /\ w = <<>> => Len(w) = 0
  BY LenProperties, AppendProperties
<1>. QED
  BY <1>1 DEF Rest

(* What follows the first message was received.                            *)
LEMMA RestIsPart ==
    ASSUME NEW w
    PROVE  Rest(w) \subseteq Entries(w)
BY DEF Rest, Entries

(* A connection that is answered.                                          *)
LEMMA AnsweredUp ==
    ASSUME NEW t \in Transports, NEW reply, NEW s, <<reply, s>> \in Answers, link[t] = "up",
           inbox \in [Transports -> Seq(Answers)], Replied(t, reply, s)
    PROVE  /\ inbox'[t] = Append(inbox[t], <<reply, s>>)
           /\ News(t)' = News(t) \union {<<reply, s>>}
           /\ Later(t)' \subseteq Later(t) \union {<<reply, s>>}
           /\ News(t) = {} => Later(t)' = {}
<1>1. inbox'[t] = Append(inbox[t], <<reply, s>>) /\ inbox[t] \in Seq(Answers)
  BY DEF Replied
<1>2. Entries(Append(inbox[t], <<reply, s>>)) = Entries(inbox[t]) \union {<<reply, s>>}
  BY <1>1, EntriesOfAppend
<1>3. /\ Rest(Append(inbox[t], <<reply, s>>)) \subseteq Rest(inbox[t]) \union {<<reply, s>>}
      /\ inbox[t] = <<>> => Rest(Append(inbox[t], <<reply, s>>)) = {}
  BY <1>1, RestOfAppend
<1>4. News(t) = {} => inbox[t] = <<>>
  BY <1>1, EntriesTyped DEF News
<1>. QED
  BY <1>1, <1>2, <1>3, <1>4 DEF News, Later

(* Taking a message changes the sequence.                                  *)
LEMMA TailDiffers ==
    ASSUME NEW S, NEW w \in Seq(S), w # <<>>
    PROVE  Tail(w) # w
<1>1. Len(Tail(w)) = Len(w) - 1 /\ Len(w) \in Nat
  BY HeadTailProperties, LenProperties
<1>2. \A n \in Nat : n - 1 # n
  OBVIOUS
<1>. QED
  BY <1>1, <1>2, Zenon

(* Nothing is asked of, and nothing follows on, a wire that is quiet.      *)
LEMMA QuietWire ==
    ASSUME NEW t \in Transports, outbox[t] = <<>>
    PROVE  Asked(t) = {}
BY DEF Asked, Entries

(* The broker gives a connection a session only when it takes a request.   *)
LEMMA GivenOnRequest ==
    ASSUME ManagerAssumption, Typed, Next, NEW t \in Transports, NEW r \in Sessions,
           outbox'[t] = outbox[t]
    PROVE  /\ holder'[r] = t => holder[r] = t
           /\ notify'[r] = t => notify[r] = t \/ holder[r] = t
<1>0. outbox \in [Transports -> Seq(Orders)]
  BY DEF Typed, TypeOK
<1>1. ASSUME NEW request, Requested(t, request) PROVE FALSE
  <2>1. outbox[t] # <<>> /\ outbox'[t] = Tail(outbox[t]) /\ outbox[t] \in Seq(Orders)
    BY <1>0, <1>1 DEF Requested
  <2>. QED
    BY <2>1, TailDiffers
<1>2. ~BrokerStarts(t) /\ ~BrokerAttaches(t)
  BY <1>1 DEF BrokerStarts, BrokerAttaches
<1>. QED
  BY <1>2, HolderSteps

(* A wire that nobody writes to or reads from stays in order.              *)
LEMMA TidyKept ==
    ASSUME ManagerAssumption, Typed, SettledBeforeShutdown, InStepBeforeShutdown, Next,
           ~shutting_down', NEW t \in Transports, link[t] = "up", Tidy(t),
           inbox'[t] = inbox[t], outbox'[t] = outbox[t], binding'[t] = binding[t]
    PROVE  Tidy(t)'
<1>1. key'[t] = key[t]
  BY BindingChanges DEF BindingChange, Connected, Unused
<1>2. \A r \in Sessions : /\ holder'[r] = t => holder[r] = t
                          /\ notify'[r] = t => notify[r] = t \/ holder[r] = t
  BY GivenOnRequest
<1>3. ASSUME NEW r \in Sessions, holder'[r] = t, stage'[r] = "starting"
      PROVE  holder[r] = t /\ stage[r] = "starting"
  <2>1. ASSUME NEW u \in Transports, Registered(r, u) PROVE FALSE
    <3>1. u = t /\ PleaseStart \in Asked(t) /\ outbox'[t] = Tail(outbox[t])
      BY <1>3, <2>1 DEF Registered
    <3>2. outbox[t] \in Seq(Orders) /\ outbox[t] # <<>>
      BY <3>1, EntriesTyped DEF Asked, Typed
    <3>. QED
      BY <3>1, <3>2, TailDiffers
  <2>2. SessionChange(r)
    BY SessionChanges
  <2>3. stage[r] = "starting"
    BY <1>3, <2>1, <2>2 DEF SessionChange, LeaseMoves, Ends, Announced
  <2>. QED
    BY <1>2, <1>3, <2>3
<1>4. News(t)' = News(t) /\ Later(t)' = Later(t) /\ Asked(t)' = Asked(t)
  BY DEF News, Later, Asked
<1>5. StartTidy(t)'
  BY <1>3, <1>4 DEF Tidy, StartTidy
<1>6. PendingTidy(t)' /\ DetachTidy(t)'
  BY <1>1, <1>4 DEF Tidy, PendingTidy, DetachTidy
<1>7. ReservedTidy(t)'
  BY <1>2, <1>4 DEF Tidy, ReservedTidy, Quiet
<1>8. AttachTidy(t)'
  BY <1>1, <1>2, <1>4 DEF Tidy, AttachTidy
<1>9. BegunTidy(t)'
  BY <1>3 DEF Tidy, BegunTidy
<1>. QED
  BY <1>5, <1>6, <1>7, <1>8, <1>9 DEF Tidy

(* A binding that is closed has no order to keep.                          *)
LEMMA ClosedIsTidy ==
    ASSUME NEW t, binding[t] = "Closed"
    PROVE  Tidy(t)
BY DEF Tidy, StartTidy, PendingTidy, ReservedTidy, AttachTidy, DetachTidy, BegunTidy

(* A command that uses its connection keeps its wire in order.             *)
LEMMA TidyWhenUsed ==
    ASSUME ManagerAssumption, Typed, SettledBeforeShutdown, InStepBeforeShutdown, Next,
           ~shutting_down', NEW c \in Callers, NEW t \in Transports, mine[c] = t,
           pc[c] = "connect" \/ (link[t] = "up" /\ Tidy(t)),
           \/ Connect(c) \/ Listen(c) \/ confirm_pending(c) \/ publish_pending(c)
           \/ WriteDetach(c) \/ WriteAttach(c)
    PROVE  Tidy(t)'
<1>0. /\ binding \in [Transports -> Bindings] /\ outbox \in [Transports -> Seq(Orders)]
      /\ link \in [Transports -> {"none", "up", "cut", "reaped"}]
      /\ key \in [Transports -> Sessions \union {NoSession}]
      /\ at \in [Callers -> Sessions \union {NoSession}]
      /\ ~shutting_down /\ Settled /\ InStep
  BY NotYet DEF Typed, TypeOK, InStepBeforeShutdown
<1>1. CASE Connect(c)
  <2>1. /\ Unused(t)
        /\ binding' = [binding EXCEPT ![t] = IF Starting(c) THEN "AwaitingStart"
                                             ELSE "AwaitingAttach"]
        /\ UNCHANGED <<inbox, outbox, stage, holder, notify>>
    BY <1>0, <1>1 DEF Connect, Settled, IdsAreFresh, UnchangedElsewhere, UnchangedByCommands,
       remote, wire
  <2>2. Quiet(t)
    BY <1>0, <2>1 DEF Unused, InStep, BeginningsAreQuiet
  <2>3. Quiet(t)'
    BY <2>1, <2>2 DEF Quiet, News
  <2>4. Asked(t)' = {}
    BY <2>1, <2>2, QuietWire DEF Quiet, Asked
  <2>5. Later(t)' = {}
    <3>1. Later(t)' \subseteq News(t)'
      BY RestIsPart DEF Later, News
    <3>. QED
      BY <2>3, <3>1 DEF Quiet
  <2>. QED
    BY <1>0, <2>1, <2>3, <2>4, <2>5 DEF Quiet, Tidy, StartTidy, PendingTidy, ReservedTidy,
       AttachTidy, DetachTidy, BegunTidy
<1>2. CASE Listen(c)
  <2>1. /\ binding[t] \in {"AwaitingStart", "AwaitingAttach"} /\ Quiet(t) /\ key[t] = at[c]
        /\ UNCHANGED <<binding, inbox, stage, holder, notify>>
    BY <1>0, <1>2 DEF Listen, InStep, BeginningsAreQuiet, Opening, UnchangedElsewhere,
       UnchangedByCommands, remote
  <2>2. CASE UNCHANGED outbox
    BY <1>2, <2>1, <2>2, TidyKept DEF Listen
  <2>3. CASE Starting(c) /\ Written(t, <<PleaseStart>>)
    <3>1. binding[t] = "AwaitingStart"
      BY <1>0, <2>1, <2>3 DEF Starting, Typed, Unkeyed
    <3>2. Asked(t)' = Asked(t) \union {PleaseStart}
      <4>1. PleaseStart \in Orders
        BY DEF PleaseStart, Orders, Requests
      <4>. QED
        BY <1>0, <1>2, <2>3, <4>1, AskedWhenWritten DEF Listen
    <3>3. News(t)' = {} /\ Asked(t) = {}
      BY <2>1, QuietWire DEF Quiet, News
    <3>4. Later(t)' = {}
      <4>1. Later(t)' \subseteq News(t)'
        BY RestIsPart DEF Later, News
      <4>. QED
        BY <3>3, <4>1
    <3>. QED
      BY <2>1, <3>1, <3>2, <3>3, <3>4 DEF Quiet, Tidy, StartTidy, PendingTidy, ReservedTidy,
         AttachTidy,
         DetachTidy, BegunTidy
  <2>. QED
    BY <1>2, <2>2, <2>3 DEF Listen, PleaseStart
<1>3. CASE confirm_pending(c)
  <2>1. /\ binding[t] = "Pending" /\ binding' = [binding EXCEPT ![t] = "ConfirmedPending"]
        /\ Written(t, <<<<"ack", at[c]>>>>)
        /\ link[t] = "up" /\ Tidy(t)
        /\ UNCHANGED <<key, inbox, stage, holder, notify>>
        /\ at[c] = key[t]
    BY <1>0, <1>3 DEF confirm_pending, StartAck, Settled, EventsGoToTheirCaller,
       UnchangedElsewhere, UnchangedByCommands, remote
  <2>2. <<"ack", at[c]>> \in Orders
    BY <1>0 DEF Orders, Requests
  <2>3. Asked(t)' = Asked(t) \union {<<"ack", key[t]>>}
    BY <1>0, <2>1, <2>2, AskedWhenWritten
  <2>4. News(t)' = News(t)
    BY <2>1 DEF News
  <2>. QED
    BY <1>0, <2>1, <2>3, <2>4 DEF Tidy, StartTidy, PendingTidy, ReservedTidy, AttachTidy,
       DetachTidy, BegunTidy
<1>4. CASE publish_pending(c)
  <2>1. /\ binding[t] = "ConfirmedPending" /\ binding' = [binding EXCEPT ![t] = "Attached"]
        /\ link[t] = "up" /\ Tidy(t)
        /\ UNCHANGED <<key, inbox, outbox, stage, holder, notify>>
    BY <1>0, <1>4 DEF publish_pending, UnchangedElsewhere, UnchangedByCommands, remote, wire
  <2>2. News(t)' = News(t) /\ Asked(t)' = Asked(t)
    BY <2>1 DEF News, Asked
  <2>. QED
    BY <1>0, <2>1, <2>2 DEF Tidy, StartTidy, PendingTidy, ReservedTidy, AttachTidy,
       DetachTidy, BegunTidy
<1>5. CASE WriteDetach(c)
  <2>1. /\ binding[t] = "Attached" /\ binding' = [binding EXCEPT ![t] = "Detaching"]
        /\ Written(t, <<PleaseDetach>>)
        /\ link[t] = "up" /\ Tidy(t)
        /\ UNCHANGED <<key, inbox, stage, holder, notify>>
    BY <1>0, <1>5 DEF WriteDetach, PleaseDetach, UnchangedElsewhere, UnchangedByCommands, remote
  <2>2. PleaseDetach \in Orders
    BY DEF PleaseDetach, Orders, Requests
  <2>3. Asked(t)' = Asked(t) \union {PleaseDetach}
    BY <1>0, <2>1, <2>2, AskedWhenWritten
  <2>4. News(t)' = News(t)
    BY <2>1 DEF News
  <2>. QED
    BY <1>0, <2>1, <2>3, <2>4 DEF Tidy, StartTidy, PendingTidy, ReservedTidy, AttachTidy,
       DetachTidy, BegunTidy
<1>6. CASE WriteAttach(c)
  <2>1. /\ binding[t] = "AwaitingAttach" /\ binding' = [binding EXCEPT ![t] = "Attaching"]
        /\ Written(t, <<<<"attach", at[c]>>>>)
        /\ link[t] = "up" /\ Tidy(t)
        /\ UNCHANGED <<key, inbox, stage, holder, notify>>
        /\ at[c] = key[t] /\ at[c] \in Sessions
    BY <1>0, <1>6 DEF WriteAttach, Typed, InStep, BeginningsAreQuiet,
       UnchangedElsewhere, UnchangedByCommands, remote
  <2>2. Quiet(t)
    BY <2>1 DEF Tidy, ReservedTidy
  <2>3. <<"attach", at[c]>> \in Orders
    BY <2>1 DEF Orders
  <2>4. outbox'[t] = Append(outbox[t], <<"attach", key[t]>>) /\ outbox[t] = <<>>
    BY <1>0, <2>1, <2>2, <2>3, AskedWhenWritten DEF Quiet
  <2>5. outbox'[t] = <<<<"attach", key[t]>>>>
    BY <2>4
  <2>6. News(t)' = {}
    BY <2>1, <2>2 DEF News, Quiet
  <2>. QED
    BY <1>0, <2>1, <2>2, <2>5, <2>6 DEF Quiet, Tidy, StartTidy, PendingTidy, ReservedTidy,
       AttachTidy, DetachTidy, BegunTidy
<1>. QED
  BY <1>1, <1>2, <1>3, <1>4, <1>5, <1>6

(* A reader that takes a message leaves the wire in order.                 *)
LEMMA TidyWhenRead ==
    ASSUME ManagerAssumption, Typed, NEW t \in Transports, Tidy(t),
           \/ ReadStarted(t) \/ ReadPendingOver(t) \/ ReadOver(t)
           \/ ReadAttached(t) \/ ReadDetached(t) \/ ReadWhileStopping(t)
           \/ ReadStopped(t) \/ ReadUnexpected(t) \/ ReadEnd(t)
    PROVE  Tidy(t)'
<1>0. /\ binding \in [Transports -> Bindings] /\ inbox \in [Transports -> Seq(Answers)]
      /\ key \in [Transports -> Sessions \union {NoSession}]
  BY DEF Typed, TypeOK
<1>1. CASE binding'[t] = "Closed"
  BY <1>1, ClosedIsTidy, ClosedIsTidy DEF Tidy, StartTidy, PendingTidy, ReservedTidy, AttachTidy,
     DetachTidy, BegunTidy
<1>2. ASSUME NEW event, ReadsLast(t, event) PROVE binding'[t] = "Closed"
  BY <1>0, <1>2 DEF ReadsLast
<1>3. \/ binding'[t] = "Closed"
      \/ ReadStarted(t) /\ ~ReadsLast(t, "Lost")
      \/ ReadAttached(t) /\ ~ReadsLast(t, "Lost")
      \/ ReadWhileStopping(t)
  BY <1>2 DEF ReadPendingOver, ReadOver, ReadDetached, ReadStopped, ReadUnexpected, ReadEnd
<1>4. ASSUME NEW bs, NEW ms, Reads(t, bs, ms)
      PROVE  /\ binding[t] \in bs /\ News(t) # {} /\ News(t)' = Later(t)
             /\ Asked(t)' = Asked(t) /\ outbox'[t] = outbox[t]
             /\ UNCHANGED <<stage, holder, notify>>
  <2>1. inbox[t] # <<>> /\ inbox'[t] = Tail(inbox[t]) /\ binding[t] \in bs
        /\ UNCHANGED <<outbox, stage, holder, notify>>
    BY <1>0, <1>4 DEF Reads, UnchangedElsewhere, UnchangedByCommands, remote
  <2>. QED
    BY <1>0, <2>1, EntriesTyped, RestOfTail DEF News, Later, Asked
<1>5. CASE ReadStarted(t) /\ ~ReadsLast(t, "Lost")
  <2>1. /\ Reads(t, {"AwaitingStart"}, {"started"})
        /\ binding' = [binding EXCEPT ![t] = "Pending"]
    BY <1>5 DEF ReadStarted
  <2>2. /\ News(t) # {} /\ Asked(t) = {} /\ Asked(t)' = {}
        /\ \A news \in News(t)' : news[1] \in SessionOver
        /\ \A s \in Sessions : holder'[s] = t => stage'[s] # "starting"
    BY <1>4, <2>1 DEF Tidy, StartTidy
  <2>. QED
    BY <1>0, <2>1, <2>2 DEF Tidy, StartTidy, PendingTidy, ReservedTidy, AttachTidy, DetachTidy,
       BegunTidy
<1>6. CASE ReadAttached(t) /\ ~ReadsLast(t, "Lost")
  <2>1. /\ Reads(t, {"Attaching"}, {"attached"})
        /\ binding' = [binding EXCEPT ![t] = "Attached"]
    BY <1>6 DEF ReadAttached
  <2>2. binding[t] = "Attaching" /\ News(t) # {}
    BY <1>4, <2>1
  <2>3. outbox[t] = <<>> /\ \A news \in Later(t) : news[1] \in SessionOver
    BY <2>2 DEF Tidy, AttachTidy
  <2>4. /\ Asked(t)' = {} /\ News(t)' = Later(t)
        /\ \A s \in Sessions : holder'[s] = t => stage'[s] # "starting"
    BY <1>4, <2>1, <2>2, <2>3, QuietWire DEF Tidy, BegunTidy
  <2>. QED
    BY <1>0, <2>1, <2>3, <2>4 DEF Tidy, StartTidy, PendingTidy, ReservedTidy, AttachTidy,
       DetachTidy,
       BegunTidy
<1>7. CASE ReadWhileStopping(t)
  <2>1. binding[t] = "Stopping" /\ UNCHANGED binding
    BY <1>7 DEF ReadWhileStopping, Reads
  <2>2. \A s \in Sessions : holder'[s] = t => stage'[s] # "starting"
    BY <1>4, <1>7, <2>1 DEF ReadWhileStopping, Tidy, BegunTidy
  <2>. QED
    BY <2>1, <2>2 DEF Tidy, StartTidy, PendingTidy, ReservedTidy, AttachTidy, DetachTidy,
       BegunTidy
<1>. QED
  BY <1>1, <1>3, <1>5, <1>6, <1>7

(* The broker takes a request and answers, or says that a session is over: *)
(* the wire stays in order.                                                *)
LEMMA TidyWhenAnswered ==
    ASSUME ManagerAssumption, Typed, SettledBeforeShutdown, InStepBeforeShutdown, Next,
           ~shutting_down', NEW t \in Transports, link[t] = "up", Tidy(t),
           \/ BrokerStarts(t) \/ BrokerDelivers(t) \/ BrokerConfirms(t) \/ BrokerAttaches(t)
           \/ BrokerDetaches(t) \/ BrokerStops(t)
           \/ \E s \in Sessions : notify[s] = t /\ BrokerAnnounces(s)
    PROVE  Tidy(t)'
<1>0. /\ outbox \in [Transports -> Seq(Orders)] /\ inbox \in [Transports -> Seq(Answers)]
      /\ stage \in [Sessions -> Lease!Stages] /\ holder \in [Sessions -> Ids]
      /\ notify \in [Sessions -> Ids] /\ t # None
      /\ \A order \in Asked(t) : FitsIn(t, order)
      /\ PleaseDetach \in Asked(t) => binding[t] \in {"Detaching", "Closed"}
      /\ PleaseStart \in Asked(t) => /\ outbox[t] = <<PleaseStart>> /\ key[t] = NoSession
                                     /\ \A s \in Sessions : ~Concerns(t, s)
      /\ \A s, r \in Sessions : Concerns(t, s) /\ (Concerns(t, r) \/ key[t] = r) => s = r
      /\ \A s \in Sessions : notify[s] # None => stage[s] = "ended"
      /\ NoSession \notin Sessions
      /\ key[t] = NoSession => binding[t] \in Unkeyed
      /\ key[t] \in Sessions \union {NoSession}
  <2>1. InStep
    BY NotYet DEF InStepBeforeShutdown
  <2>2. /\ outbox \in [Transports -> Seq(Orders)] /\ inbox \in [Transports -> Seq(Answers)]
        /\ stage \in [Sessions -> Lease!Stages] /\ holder \in [Sessions -> Ids]
        /\ notify \in [Sessions -> Ids] /\ t # None
        /\ NoSession \notin Sessions
        /\ key[t] = NoSession => binding[t] \in Unkeyed
        /\ key[t] \in Sessions \union {NoSession}
    BY TransportIds DEF Typed, TypeOK, Lease!TypeOK, Ids, ManagerAssumption
  <2>3. /\ \A order \in Asked(t) : FitsIn(t, order)
        /\ PleaseDetach \in Asked(t) => binding[t] \in {"Detaching", "Closed"}
        /\ PleaseStart \in Asked(t) => /\ outbox[t] = <<PleaseStart>> /\ key[t] = NoSession
                                       /\ \A s \in Sessions : ~Concerns(t, s)
    BY <2>1 DEF InStep, OrdersFit
  <2>4. \A s, r \in Sessions : Concerns(t, s) /\ (Concerns(t, r) \/ key[t] = r) => s = r
    BY <2>1 DEF InStep, OneSession
  <2>5. \A s \in Sessions : notify[s] # None => stage[s] = "ended"
    BY <2>1 DEF InStep, EndsAreTrue
  <2>. QED
    BY <2>2, <2>3, <2>4, <2>5
<1>1. UNCHANGED <<binding, key>>
  BY DEF BrokerStarts, Requested, BrokerDelivers, BrokerConfirms, BrokerAttaches, BrokerDetaches,
     BrokerStops, BrokerAnnounces, UnchangedByBroker, UnchangedByRequests, conns
<1>2. ASSUME NEW request, Requested(t, request)
      PROVE  /\ outbox[t] # <<>> /\ outbox'[t] = Tail(outbox[t])
             /\ Head(outbox[t]) \in Asked(t) /\ Head(outbox[t])[1] = request
             /\ Asked(t) = {Head(outbox[t])} \union Asked(t)'
             /\ UNCHANGED notify
  BY <1>0, <1>2, AskedWhenTaken DEF Requested
<1>. DEFINE NoneStarting == \A s \in Sessions : holder'[s] = t => stage'[s] # "starting"
(* An answer that says that the session is over. *)
<1>3. ASSUME NEW reply \in SessionOver, NEW s \in Sessions, Replied(t, reply, s),
             Asked(t)' \subseteq Asked(t),
             binding[t] = "AwaitingStart" => Asked(t)' = {} /\ NoneStarting,
             binding[t] # "AwaitingAttach",
             binding[t] = "Attaching" => outbox'[t] = <<>>,
             binding[t] \notin {"none", "AwaitingStart", "Closed"} => NoneStarting
      PROVE  Tidy(t)'
  <2>1. <<reply, s>> \in Answers /\ <<reply, s>>[1] \in SessionOver
    BY <1>3 DEF SessionOver, Answers, Replies
  <2>2. /\ News(t)' = News(t) \union {<<reply, s>>}
        /\ Later(t)' \subseteq Later(t) \union {<<reply, s>>}
        /\ News(t) = {} => Later(t)' = {}
    BY <1>0, <1>3, <2>1, AnsweredUp
  <2>3. StartTidy(t)'
    BY <1>1, <1>3, <2>1, <2>2 DEF Tidy, StartTidy
  <2>4. PendingTidy(t)' /\ DetachTidy(t)'
    BY <1>1, <1>3, <2>1, <2>2 DEF Tidy, PendingTidy, DetachTidy
  <2>5. ReservedTidy(t)'
    BY <1>1, <1>3 DEF ReservedTidy
  <2>6. AttachTidy(t)'
    <3>. SUFFICES ASSUME binding[t] = "Attaching"
                  PROVE  /\ outbox'[t] = <<>> /\ News(t)' # {}
                         /\ \A news \in Later(t)' : news[1] \in SessionOver
                         /\ \A news \in News(t)' :
                              \/ news[1] \in SessionOver
                              \/ news \in {"attached", "rejected"} \X {key[t]}
      BY <1>1 DEF AttachTidy
    <3>1. CASE outbox[t] = <<>>
      BY <1>3, <2>1, <2>2, <3>1 DEF Tidy, AttachTidy
    <3>2. CASE outbox[t] # <<>>
      <4>1. News(t) = {}
        BY <3>2 DEF Tidy, AttachTidy
      <4>. QED
        BY <1>3, <2>1, <2>2, <4>1
    <3>. QED
      BY <3>1, <3>2
  <2>7. BegunTidy(t)'
    BY <1>1, <1>3 DEF BegunTidy
  <2>. QED
    BY <2>3, <2>4, <2>5, <2>6, <2>7 DEF Tidy
(* A session is starting for a connection since it was asked for. *)
<1>4. ASSUME ~BrokerStarts(t), NEW s \in Sessions, holder'[s] = t, stage'[s] = "starting"
      PROVE  holder[s] = t /\ stage[s] = "starting"
  <2>1. CASE UNCHANGED <<stage, holder>>
    BY <1>4, <2>1
  <2>2. ASSUME NEW r \in Sessions,
               Lease!Deliver(r, t) \/ Lease!Confirm(r, t) \/ Lease!Release(r, t) \/ Lease!End(r)
        PROVE  holder[s] = t /\ stage[s] = "starting"
    BY <1>0, <1>4, <2>2 DEF Lease!Deliver, Lease!Confirm, Lease!Move, Lease!Release, Lease!End
  <2>3. ASSUME NEW r, Lease!Take(r, t) \/ Lease!Confirm(r, t) \/ Lease!End(r)
        PROVE  holder[s] = t /\ stage[s] = "starting"
    BY <1>0, <1>4, <2>3 DEF Lease!Take, Lease!Confirm, Lease!Move, Lease!End
  <2>. QED
    BY <1>4, <2>1, <2>2, <2>3 DEF BrokerDelivers, BrokerConfirms, BrokerAttaches, BrokerDetaches,
       BrokerStops, BrokerAnnounces
<1>5. ASSUME ~BrokerStarts(t), binding[t] \notin {"none", "AwaitingStart", "Closed"}
      PROVE  NoneStarting
  BY <1>4, <1>5 DEF Tidy, BegunTidy
<1>6. CASE binding[t] \in {"none", "Closed"}
  BY <1>1, <1>6 DEF Tidy, StartTidy, PendingTidy, ReservedTidy, AttachTidy, DetachTidy, BegunTidy
<1>7. CASE BrokerStarts(t) /\ binding[t] \notin {"none", "Closed"}
  <2>1. Requested(t, "start")
    BY <1>7 DEF BrokerStarts
  <2>2. FitsIn(t, Head(outbox[t])) /\ Head(outbox[t])[1] = "start"
    BY <1>0, <1>2, <2>1
  <2>3. Head(outbox[t]) = PleaseStart
    BY <2>2 DEF FitsIn, PleaseStart, PleaseDetach
  <2>4. /\ PleaseStart \in Asked(t) /\ outbox[t] = <<PleaseStart>> /\ outbox'[t] = Tail(outbox[t])
        /\ key[t] = NoSession /\ \A s \in Sessions : ~Concerns(t, s)
    BY <1>0, <1>2, <2>1, <2>3
  <2>5. binding[t] = "AwaitingStart"
    BY <1>0, <1>7, <2>4 DEF Unkeyed
  <2>6. outbox'[t] = <<>>
    BY <2>4
  <2>7. Asked(t)' = {}
    BY <2>6 DEF Asked, Entries
  <2>8. News(t) = {}
    BY <2>4, <2>5 DEF Tidy, StartTidy
  <2>9. CASE UNCHANGED inbox
    <3>1. News(t)' = {}
      BY <2>8, <2>9 DEF News
    <3>2. Later(t)' = {}
      <4>1. Later(t)' \subseteq News(t)'
        BY RestIsPart DEF Later, News
      <4>. QED
        BY <3>1, <4>1
    <3>. QED
      BY <1>1, <2>5, <2>7, <3>1, <3>2 DEF Tidy, StartTidy, PendingTidy, ReservedTidy, AttachTidy,
         DetachTidy, BegunTidy
  <2>10. CASE Replied(t, "rejected", NoSession) /\ UNCHANGED <<stage, holder>>
    <3>1. <<"rejected", NoSession>> \in Answers
      BY DEF Answers, Replies
    <3>2. Later(t)' = {}
      BY <1>0, <2>8, <2>10, <3>1, AnsweredUp
    <3>3. NoneStarting
      BY <2>4, <2>10 DEF Concerns
    <3>. QED
      BY <1>1, <2>5, <2>7, <3>2, <3>3 DEF Tidy, StartTidy, PendingTidy, ReservedTidy, AttachTidy,
         DetachTidy, BegunTidy
  <2>. QED
    BY <1>7, <2>9, <2>10 DEF BrokerStarts
<1>8. CASE BrokerDelivers(t) /\ binding[t] \notin {"none", "Closed"}
  <2>1. PICK s \in Sessions : Lease!Deliver(s, t) /\ Replied(t, "started", s)
    BY <1>8 DEF BrokerDelivers
  <2>2. /\ stage[s] = "starting" /\ holder[s] = t /\ stage'[s] = "unconfirmed"
        /\ UNCHANGED <<holder, outbox>>
    BY <1>0, <1>8, <2>1 DEF Lease!Deliver, Lease!Move, BrokerDelivers
  <2>3. binding[t] = "AwaitingStart" /\ News(t) = {}
    BY <1>8, <2>2 DEF Tidy, StartTidy, BegunTidy
  <2>4. Asked(t) = {}
    BY <1>0, <2>2, <2>3 DEF Tidy, StartTidy, Concerns
  <2>5. Asked(t)' = {}
    BY <2>2, <2>4 DEF Asked
  <2>6. <<"started", s>> \in Answers
    BY DEF Answers
  <2>7. Later(t)' = {}
    BY <1>0, <2>1, <2>3, <2>6, AnsweredUp
  <2>8. NoneStarting
    <3>. SUFFICES ASSUME NEW r \in Sessions, holder'[r] = t, stage'[r] = "starting" PROVE FALSE
      OBVIOUS
    <3>1. Concerns(t, r) /\ Concerns(t, s)
      BY <2>2 DEF Concerns
    <3>. QED
      BY <1>0, <2>2, <3>1
  <2>. QED
    BY <1>1, <2>3, <2>5, <2>7, <2>8 DEF Tidy, StartTidy, PendingTidy, ReservedTidy, AttachTidy,
       DetachTidy, BegunTidy
<1>9. CASE BrokerConfirms(t) /\ binding[t] \notin {"none", "Closed"}
  <2>1. Requested(t, "ack")
    BY <1>9 DEF BrokerConfirms
  <2>2. FitsIn(t, Head(outbox[t])) /\ Head(outbox[t])[1] = "ack" /\ Head(outbox[t]) \in Asked(t)
        /\ Asked(t)' \subseteq Asked(t) /\ outbox[t] # <<>>
    BY <1>0, <1>2, <2>1
  <2>3. Head(outbox[t]) = <<"ack", key[t]>> /\ key[t] \in Sessions
    BY <2>2 DEF FitsIn, PleaseStart, PleaseDetach
  <2>4. binding[t] \notin {"AwaitingStart", "AwaitingAttach", "Attaching"}
    <3>1. binding[t] # "AwaitingStart"
      BY <2>2 DEF Tidy, StartTidy, PleaseStart
    <3>2. binding[t] # "AwaitingAttach"
      BY <2>2 DEF Tidy, ReservedTidy, Quiet
    <3>3. CASE binding[t] = "Attaching"
      <4>1. outbox[t] = <<<<"attach", key[t]>>>>
        BY <2>2, <3>3 DEF Tidy, AttachTidy
      <4>2. Head(outbox[t]) = <<"attach", key[t]>>
        BY <4>1
      <4>. QED
        BY <2>2, <4>2
    <3>. QED
      BY <3>1, <3>2, <3>3
  <2>5. ~BrokerStarts(t)
    BY <2>2 DEF BrokerStarts, Requested
  <2>6. NoneStarting
    BY <1>5, <1>9, <2>4, <2>5
  <2>7. CASE UNCHANGED inbox
    <3>1. News(t)' = News(t)
      BY <2>7 DEF News
    <3>. QED
      BY <1>1, <2>2, <2>4, <2>6, <3>1 DEF Tidy, StartTidy, PendingTidy, ReservedTidy, AttachTidy,
         DetachTidy, BegunTidy
  <2>8. CASE Replied(t, "not_found", Head(outbox[t])[2])
    <3>1. Head(outbox[t])[2] = key[t]
      BY <2>3
    <3>. QED
      BY <1>3, <2>2, <2>3, <2>4, <2>6, <2>8, <3>1 DEF SessionOver
  <2>. QED
    BY <1>9, <2>7, <2>8 DEF BrokerConfirms
<1>10. CASE BrokerAttaches(t) /\ binding[t] \notin {"none", "Closed"}
  <2>1. Requested(t, "attach")
    BY <1>10 DEF BrokerAttaches
  <2>2. FitsIn(t, Head(outbox[t])) /\ Head(outbox[t])[1] = "attach" /\ Head(outbox[t]) \in Asked(t)
        /\ outbox[t] # <<>> /\ outbox'[t] = Tail(outbox[t])
    BY <1>0, <1>2, <2>1
  <2>3. Head(outbox[t]) = <<"attach", key[t]>> /\ key[t] \in Sessions
    BY <2>2 DEF FitsIn, PleaseStart, PleaseDetach
  <2>4. ~BrokerStarts(t)
    BY <2>2 DEF BrokerStarts, Requested
  <2>5. binding[t] \in {"Attaching", "Stopping"}
    <3>1. binding[t] # "AwaitingStart"
      BY <2>2 DEF Tidy, StartTidy, PleaseStart
    <3>2. binding[t] # "AwaitingAttach"
      BY <2>2 DEF Tidy, ReservedTidy, Quiet
    <3>3. binding[t] \notin {"Pending", "ConfirmedPending", "Attached"}
      BY <2>2, <2>3 DEF Tidy, PendingTidy
    <3>4. binding[t] # "Detaching"
      BY <2>2, <2>3 DEF Tidy, DetachTidy, PleaseDetach
    <3>5. binding[t] \in Bindings
      BY DEF Typed, TypeOK
    <3>. QED
      BY <1>10, <3>1, <3>2, <3>3, <3>4, <3>5 DEF Bindings
  <2>6. NoneStarting
    BY <1>5, <2>4, <2>5
  <2>7. CASE binding[t] = "Stopping"
    BY <1>1, <2>6, <2>7 DEF Tidy, StartTidy, PendingTidy, ReservedTidy, AttachTidy, DetachTidy,
       BegunTidy
  <2>8. CASE binding[t] = "Attaching"
    <3>1. outbox[t] = <<<<"attach", key[t]>>>> /\ News(t) = {}
      BY <2>2, <2>8 DEF Tidy, AttachTidy
    <3>2. outbox'[t] = <<>>
      BY <2>2, <3>1
    <3>3. PICK reply \in {"attached", "not_found", "rejected"} : Replied(t, reply, key[t])
      <4>1. Head(outbox[t])[2] = key[t]
        BY <2>3
      <4>. QED
        BY <1>10, <4>1 DEF BrokerAttaches
    <3>4. <<reply, key[t]>> \in Answers
      BY <2>3 DEF Answers, Replies
    <3>5. News(t)' = {<<reply, key[t]>>} /\ Later(t)' = {}
      <4>1. News(t)' = News(t) \union {<<reply, key[t]>>} /\ (News(t) = {} => Later(t)' = {})
        BY <1>0, <3>3, <3>4, AnsweredUp
      <4>. QED
        BY <3>1, <4>1
    <3>6. \/ <<reply, key[t]>>[1] \in SessionOver
          \/ <<reply, key[t]>> \in {"attached", "rejected"} \X {key[t]}
      BY DEF SessionOver
    <3>. QED
      BY <1>1, <2>6, <2>8, <3>2, <3>5, <3>6 DEF Tidy, StartTidy, PendingTidy, ReservedTidy,
         AttachTidy, DetachTidy, BegunTidy
  <2>. QED
    BY <2>5, <2>7, <2>8
<1>11. CASE BrokerDetaches(t) /\ binding[t] \notin {"none", "Closed"}
  <2>1. Requested(t, "detach")
    BY <1>11 DEF BrokerDetaches
  <2>2. FitsIn(t, Head(outbox[t])) /\ Head(outbox[t])[1] = "detach" /\ Head(outbox[t]) \in Asked(t)
        /\ Asked(t)' \subseteq Asked(t)
    BY <1>0, <1>2, <2>1
  <2>3. Head(outbox[t]) = PleaseDetach
    BY <2>2 DEF FitsIn, PleaseStart
  <2>4. binding[t] = "Detaching"
    BY <1>0, <1>11, <2>2, <2>3
  <2>5. ~BrokerStarts(t)
    BY <2>2 DEF BrokerStarts, Requested
  <2>6. NoneStarting
    BY <1>5, <2>4, <2>5
  <2>7. <<"detached", NoSession>> \in Answers
    BY DEF Answers, Replies
  <2>8. News(t)' = News(t) \union {<<"detached", NoSession>>}
    BY <1>0, <1>11, <2>7, AnsweredUp DEF BrokerDetaches
  <2>. QED
    BY <1>1, <2>2, <2>4, <2>6, <2>8 DEF Tidy, StartTidy, PendingTidy, ReservedTidy,
       AttachTidy, DetachTidy, BegunTidy
<1>12. CASE BrokerStops(t)
  <2>1. Requested(t, "stop")
    BY <1>12 DEF BrokerStops
  <2>2. FitsIn(t, Head(outbox[t])) /\ Head(outbox[t])[1] = "stop"
    BY <1>0, <1>2, <2>1
  <2>. QED
    BY <2>2 DEF FitsIn, PleaseStart, PleaseDetach
<1>13. ASSUME NEW s \in Sessions, notify[s] = t, BrokerAnnounces(s),
              binding[t] \notin {"none", "Closed"}
       PROVE  Tidy(t)'
  <2>1. Replied(t, "exited", s) /\ UNCHANGED <<stage, holder, outbox>>
    BY <1>13 DEF BrokerAnnounces
  <2>2. Concerns(t, s) /\ stage[s] = "ended"
    BY <1>0, <1>13 DEF Concerns
  <2>3. NoneStarting
    <3>. SUFFICES ASSUME NEW r \in Sessions, holder[r] = t, stage[r] = "starting" PROVE FALSE
      BY <2>1
    <3>1. Concerns(t, r)
      BY DEF Concerns
    <3>. QED
      BY <1>0, <2>2, <3>1
  <2>4. Asked(t)' = Asked(t)
    BY <2>1 DEF Asked
  <2>5. binding[t] = "AwaitingStart" => Asked(t)' = {}
    BY <1>0, <2>2, <2>4 DEF Tidy, StartTidy
  <2>6. binding[t] # "AwaitingAttach"
    BY <1>13 DEF Tidy, ReservedTidy, Quiet
  <2>7. binding[t] = "Attaching" => outbox[t] = <<>> /\ outbox'[t] = <<>>
    BY <1>13, <2>1 DEF Tidy, AttachTidy
  <2>. QED
    BY <1>3, <2>1, <2>3, <2>4, <2>5, <2>6, <2>7 DEF SessionOver
<1>. QED
  BY <1>6, <1>7, <1>8, <1>9, <1>10, <1>11, <1>12, <1>13

(* Until the shutdown every wire stays in order.                           *)
LEMMA WireStep ==
    ASSUME ManagerAssumption, Typed, SettledBeforeShutdown, InStepBeforeShutdown, WireIsTidy, Next,
           ~shutting_down'
    PROVE  WireIsTidy'
<1>. SUFFICES ASSUME NEW t \in Transports, link'[t] = "up" PROVE Tidy(t)'
  BY DEF WireIsTidy
<1>0. /\ binding \in [Transports -> Bindings]
      /\ ~MainStep /\ \A s \in Sessions : ~WorkerStep(s)
  BY NotYet DEF Typed, TypeOK
<1>1. CASE Connected(t)
  <2>1. PICK c \in Callers : Connect(c) /\ mine[c] = t
    BY <1>1 DEF Connected
  <2>. QED
    BY <2>1, TidyWhenUsed DEF Connect
<1>2. CASE link[t] = "up"
  <2>0. Tidy(t)
    BY <1>2 DEF WireIsTidy
  <2>1. CASE binding'[t] = binding[t] /\ outbox'[t] = outbox[t] /\ inbox'[t] = inbox[t]
    BY <1>2, <2>0, <2>1, TidyKept
  <2>2. ASSUME NEW c \in Callers, mine[c] = t,
               \/ Connect(c) \/ Listen(c) \/ confirm_pending(c) \/ publish_pending(c)
               \/ WriteDetach(c) \/ WriteAttach(c)
        PROVE  Tidy(t)'
    BY <1>2, <2>0, <2>2, TidyWhenUsed
  <2>3. CASE binding'[t] = "Closed"
    BY <2>3 DEF Tidy, StartTidy, PendingTidy, ReservedTidy, AttachTidy, DetachTidy, BegunTidy
  <2>4. ASSUME NEW c \in Callers, mine[c] = t, binding'[t] # binding[t],
               discard_pending(c) \/ LoseTransport(c)
        PROVE  binding'[t] = "Closed"
    BY <1>0, <2>4 DEF discard_pending, LoseTransport, handle_transport_loss
  <2>5. CASE \/ ReadStarted(t) \/ ReadPendingOver(t) \/ ReadOver(t)
             \/ ReadAttached(t) \/ ReadDetached(t) \/ ReadWhileStopping(t)
             \/ ReadStopped(t) \/ ReadUnexpected(t) \/ ReadEnd(t)
    BY <2>0, <2>5, TidyWhenRead
  <2>6. CASE \/ BrokerStarts(t) \/ BrokerDelivers(t) \/ BrokerConfirms(t) \/ BrokerAttaches(t)
             \/ BrokerDetaches(t) \/ BrokerStops(t)
             \/ \E s \in Sessions : notify[s] = t /\ BrokerAnnounces(s)
    BY <1>2, <2>0, <2>6, TidyWhenAnswered
  <2>7. ~CloseTransport(t) /\ ~TakeOverTransport(t) /\ ~WriteStop
    BY <1>0 DEF MainStep
  <2>8. \A s \in Sessions : /\ ~WorkerConnects(s) /\ ~WorkerAttaches(s) /\ ~WorkerRequestsStop(s)
                            /\ ~WorkerReads(s, "read_attach", "attached", "stop")
                            /\ ~WorkerReads(s, "read_stop", "stopped", "finish")
    BY <1>0 DEF WorkerStep
  <2>9. binding'[t] # binding[t] => Tidy(t)'
    BY <2>2, <2>3, <2>4, <2>5, <2>7, <2>8, BindingSteps
  <2>10. outbox'[t] # outbox[t] => Tidy(t)'
    BY <1>2, <2>2, <2>6, <2>7, <2>8, OutboxSteps
  <2>11. inbox'[t] # inbox[t] => Tidy(t)'
    BY <2>5, <2>6, <2>8, InboxSteps
  <2>. QED
    BY <2>1, <2>9, <2>10, <2>11
<1>. QED
  BY <1>1, <1>2, LinkChanges DEF LinkChange

(* What a command that has confirmed its start does next.                  *)
LEMMA PublishingSteps ==
    ASSUME ManagerAssumption, Typed, Next, NEW c \in Callers, pc[c] = "publish"
    PROVE  pc'[c] \in {"publish", "idle", "discard"}
<1>0. pc \in [Callers -> Steps]
  BY DEF Typed, TypeOK
<1>1. CASE UNCHANGED calls
  BY <1>1 DEF calls
<1>2. ASSUME NEW d \in Callers,
             \/ start(d) \/ Connect(d) \/ CannotConnect(d) \/ Handshake(d)
             \/ HandshakeFails(d) \/ HandshakeTooLate(d) \/ Listen(d)
             \/ StartNotWritten(d) \/ HearStarted(d) \/ HearStartFailed(d)
             \/ confirm_pending(d) \/ ConfirmFails(d) \/ publish_pending(d)
             \/ StartLeftToOthers(d) \/ StartNotPublished(d) \/ discard_pending(d)
      PROVE  pc'[c] \in {"publish", "idle", "discard"}
  BY <1>0, <1>2 DEF start, Begin, Connect, CannotConnect, Handshake, HandshakeFails, Listen,
     HandshakeTooLate, StartNotWritten, HearStarted, HearStartFailed, confirm_pending,
     ConfirmFails, publish_pending, StartLeftToOthers, StartNotPublished, discard_pending,
     CloseUnlessShuttingDown, Return, Goto
<1>3. ASSUME NEW d \in Callers,
             \/ TakeEventSlot(d) \/ DetachTooLate(d) \/ WriteDetach(d) \/ DetachNotWritten(d)
             \/ HearDetached(d) \/ WriteAttach(d) \/ AttachNotWritten(d) \/ WriteFailed(d)
             \/ LoseTransport(d) \/ CloseMine(d) \/ HearAttached(d) \/ HearAttachFailed(d)
      PROVE  pc'[c] \in {"publish", "idle", "discard"}
  BY <1>0, <1>3 DEF TakeEventSlot, DetachTooLate, WriteDetach, DetachNotWritten, HearDetached,
     WriteAttach, AttachNotWritten, WriteFailed, LoseTransport, CloseMine, HearAttached,
     HearAttachFailed, CloseUnlessShuttingDown, Return, Goto
<1>4. ASSUME NEW d \in Callers, NEW s \in Sessions, reattach(d, s) \/ detach(d, s)
      PROVE  pc'[c] \in {"publish", "idle", "discard"}
  BY <1>0, <1>4 DEF reattach, Begin, detach, Goto
<1>. QED
  BY <1>1, <1>2, <1>3, <1>4, CallMovers

(* A start that is acknowledged is about to be published, over a           *)
(* connection that holds.                                                  *)
LEMMA PublishingStep ==
    ASSUME ManagerAssumption, "cut" \notin Happens, Typed, Typed', SettledBeforeShutdown,
           SettledBeforeShutdown', InStepBeforeShutdown, InStepBeforeShutdown', LinksHold,
           LinksHold', EndingIsClosed, OnlyPublishing, Next, ~shutting_down'
    PROVE  OnlyPublishing'
<1>0. /\ binding \in [Transports -> Bindings]
      /\ link \in [Transports -> {"none", "up", "cut", "reaped"}]
      /\ \A c \in Callers : mine[c] \in Ids /\ mine'[c] \in Ids
      /\ \A c \in Callers : mine[c] = None <=> pc[c] = "idle"
      /\ \A c \in Callers : mine'[c] = None <=> pc'[c] = "idle"
      /\ ~MainStep /\ \A s \in Sessions : ~WorkerStep(s)
      /\ ~shutting_down /\ Settled /\ InStep /\ Settled' /\ InStep'
  BY NotYet DEF Typed, TypeOK, InStepBeforeShutdown, SettledBeforeShutdown
<1>1. ASSUME NEW t \in Transports, binding'[t] = "ConfirmedPending"
      PROVE  \/ binding[t] = "ConfirmedPending"
             \/ /\ binding[t] = "Pending"
                /\ \E c \in Callers : confirm_pending(c) /\ mine[c] = t
  BY <1>1, BindingChanges DEF BindingChange, BindingMoves, Connected, Confirmed
<1>2. ASSUME NEW c \in Callers, mine'[c] # None, binding'[mine'[c]] = "ConfirmedPending"
      PROVE  pc'[c] = "publish"
  <2>. DEFINE t == mine'[c]
  <2>0. t \in Transports
    BY <1>0, <1>2 DEF Ids
  <2>1. binding[t] \in {"Pending", "ConfirmedPending"}
    BY <1>1, <1>2, <2>0
  <2>2. mine[c] = t
    <3>1. CASE mine'[c] = next_transport_id
      <4>1. binding[t] = "none"
        BY <1>0, <2>0, <3>1, TransportIds DEF Settled, IdsAreFresh, Unused
      <4>. QED
        BY <2>1, <4>1
    <3>2. CASE /\ at'[c] \in Sessions /\ CanDetach(records[at'[c]])
               /\ mine'[c] = records[at'[c]].transport
      <4>1. binding[t] \in {"Attached", "Detaching"}
        BY <1>0, <3>2 DEF CanDetach, Settled, RowsAreBound, Backed
      <4>. QED
        BY <2>1, <4>1
    <3>. QED
      BY <1>2, <3>1, <3>2, CallChanges
  <2>3. \A d \in Callers : mine[d] = t => d = c
    BY <1>0, <1>2, <2>1, <2>2 DEF Settled, CommandsKeepApart, Over
  <2>4. CASE binding[t] = "Pending"
    <3>1. PICK d \in Callers : confirm_pending(d) /\ mine[d] = t
      BY <1>1, <1>2, <2>0, <2>4
    <3>2. d = c
      BY <2>3, <3>1
    <3>. QED
      BY <3>1, <3>2 DEF confirm_pending, Goto, Typed, TypeOK
  <2>5. CASE binding[t] = "ConfirmedPending"
    <3>1. pc[c] = "publish"
      BY <1>2, <2>2, <2>5 DEF OnlyPublishing
    <3>2. pc'[c] # "discard"
      BY <1>0, <1>2 DEF InStep, Unacknowledged
    <3>. QED
      BY <1>0, <1>2, <3>1, <3>2, PublishingSteps
  <2>. QED
    BY <2>1, <2>4, <2>5
<1>3. ASSUME NEW t \in Transports, binding'[t] = "ConfirmedPending" PROVE link'[t] = "up"
  <2>1. CASE binding[t] = "Pending"
    <3>1. PICK c \in Callers : confirm_pending(c) /\ mine[c] = t
      BY <1>1, <1>3, <2>1
    <3>. QED
      BY <3>1 DEF confirm_pending, Written, LinksHold
  <2>2. CASE binding[t] = "ConfirmedPending"
    <3>1. link[t] = "up" /\ \A c \in Callers : mine[c] = t => pc[c] = "publish"
      BY <2>2, TransportIds DEF OnlyPublishing
    <3>. SUFFICES ASSUME link'[t] # link[t] PROVE FALSE
      BY <3>1
    <3>2. ASSUME NEW c \in Callers, mine[c] = t,
                 \/ Connect(c) \/ HandshakeFails(c) \/ StartNotWritten(c)
                 \/ HearStartFailed(c) \/ discard_pending(c) \/ CloseMine(c)
          PROVE  FALSE
      BY <3>1, <3>2 DEF Connect, HandshakeFails, StartNotWritten, HearStartFailed,
         discard_pending, CloseMine
    <3>3. ~FinishReader(t)
      BY <2>2 DEF FinishReader, EndingIsClosed
    <3>4. ~ConnectionCut(t)
      BY DEF ConnectionCut
    <3>5. ~CloseTransport(t) /\ ~FinishTransport /\ \A s \in Sessions : ~AbandonWorker(s)
      BY <1>0 DEF MainStep
    <3>6. \A s \in Sessions : ~WorkerConnects(s) /\ ~WorkerFinishes(s)
      BY <1>0 DEF WorkerStep
    <3>. QED
      BY <3>2, <3>3, <3>4, <3>5, <3>6, LinkSteps
  <2>. QED
    BY <1>1, <1>3, <2>1, <2>2
<1>. QED
  BY <1>2, <1>3 DEF OnlyPublishing

(* Both until the shutdown begins.                                         *)
LEMMA TidyStep ==
    ASSUME ManagerAssumption, "cut" \notin Happens, Typed, Typed', SettledBeforeShutdown,
           SettledBeforeShutdown', InStepBeforeShutdown, InStepBeforeShutdown', LinksHold,
           LinksHold', EndingIsClosed, TidyBeforeShutdown, Next
    PROVE  TidyBeforeShutdown'
<1>1. ASSUME ~shutting_down' PROVE WireIsTidy' /\ OnlyPublishing'
  <2>1. ~shutting_down
    BY <1>1, NotYet
  <2>. QED
    BY <1>1, <2>1, WireStep, PublishingStep DEF TidyBeforeShutdown
<1>. QED
  BY <1>1 DEF TidyBeforeShutdown

-----------------------------------------------------------------------------
(* The shutdown keeps what it has in its hands off its list ...            *)
LEMMA PlanHoldsStep ==
    ASSUME ManagerAssumption, Typed, Typed', NoRowAfterShutdown, SettledBeforeShutdown,
           SettledBeforeShutdown', PlanHolds, Next
    PROVE  PlanHolds'
<1>0. /\ binding \in [Transports -> Bindings]
      /\ worker \in [Sessions -> {"none", "begin", "connect", "check", "read_attach", "stop",
                                  "read_stop", "finish", "done"}]
      /\ worker_id \in [Sessions -> Ids]
  BY DEF Typed, TypeOK
<1>1. ASSUME main' \in {"stop", "wait", "finish"}
      PROVE  current' \notin to_quiesce' /\ binding'[current'] \in {"Stopping", "Closed"}
  <2>1. ASSUME NEW t \in Transports, TakeOverTransport(t)
        PROVE  current' \notin to_quiesce' /\ binding'[current'] \in {"Stopping", "Closed"}
    BY <1>0, <2>1 DEF TakeOverTransport, Quiesces
  <2>2. CASE /\ main \in {"stop", "wait", "finish"} /\ current' = current
             /\ to_quiesce' \subseteq to_quiesce
    <3>1. current \in Transports /\ shutting_down /\ current \notin to_quiesce
          /\ binding[current] \in {"Stopping", "Closed"}
      BY <2>2 DEF Typed, PlanHolds
    <3>2. CASE binding[current] = "Closed"
      BY <2>2, <3>1, <3>2, ClosedStays
    <3>3. CASE binding[current] = "Stopping" /\ binding'[current] # binding[current]
      <4>1. \A c \in Callers : /\ ~Connect(c) /\ ~publish_pending(c) /\ ~WriteDetach(c)
                               /\ ~WriteAttach(c)
        BY <3>1, NothingBegins
      <4>2. ~TakeOverTransport(current)
        BY <2>2 DEF TakeOverTransport, Quiesces
      <4>3. ASSUME NEW c \in Callers, mine[c] = current,
                   confirm_pending(c) \/ discard_pending(c) \/ LoseTransport(c)
            PROVE  binding'[current] = "Closed"
        BY <1>0, <3>1, <3>3, <4>3 DEF confirm_pending, discard_pending, LoseTransport,
           handle_transport_loss
      <4>4. ASSUME \/ ReadStarted(current) \/ ReadPendingOver(current) \/ ReadOver(current)
                   \/ ReadAttached(current) \/ ReadDetached(current) \/ ReadStopped(current)
                   \/ ReadUnexpected(current) \/ ReadEnd(current) \/ CloseTransport(current)
                   \/ \E s \in Sessions : worker_id[s] = current /\ WorkerConnects(s)
            PROVE  binding'[current] = "Closed"
        BY <1>0, <3>1, <3>3, <4>4 DEF ReadStarted, ReadPendingOver, ReadOver, ReadAttached,
           ReadDetached, ReadStopped, ReadUnexpected, ReadEnd, Reads, ReadsLast, CloseTransport,
           WorkerConnects
      <4>. QED
        BY <2>2, <3>1, <3>3, <4>1, <4>2, <4>3, <4>4, BindingSteps
    <3>. QED
      BY <2>2, <3>1, <3>2, <3>3
  <2>3. CASE UNCHANGED plan
    BY <1>1, <2>2, <2>3 DEF plan
  <2>4. ASSUME \/ \E t \in Transports : CloseTransport(t)
               \/ BeginShutdown \/ FinishTransport \/ EndShutdown
               \/ \E s \in Sessions : SpawnWorker(s) \/ JoinWorker(s) \/ AbandonWorker(s)
        PROVE  FALSE
    BY <1>1, <2>4 DEF CloseTransport, Quiesces, BeginShutdown, FinishTransport, EndShutdown,
       SpawnWorker, JoinWorker, AbandonWorker
  <2>5. ASSUME WriteStop \/ StopNotWritten \/ HearStopped \/ StopWaiting
        PROVE  /\ main \in {"stop", "wait", "finish"} /\ current' = current
               /\ to_quiesce' \subseteq to_quiesce
    BY <2>5 DEF WriteStop, StopNotWritten, HearStopped, StopWaiting
  <2>. QED
    BY <2>1, <2>2, <2>3, <2>4, <2>5, PlanMovers
<1>2. ASSUME main' = "done" PROVE to_stop' = {}
  <2>1. CASE UNCHANGED plan
    BY <1>2, <2>1 DEF plan, PlanHolds
  <2>2. CASE EndShutdown
    BY <2>2 DEF EndShutdown
  <2>3. ASSUME \/ \E t \in Transports : CloseTransport(t) \/ TakeOverTransport(t)
               \/ BeginShutdown \/ WriteStop \/ StopNotWritten \/ HearStopped
               \/ StopWaiting \/ FinishTransport
               \/ \E s \in Sessions : SpawnWorker(s) \/ JoinWorker(s) \/ AbandonWorker(s)
        PROVE  FALSE
    BY <1>2, <2>3 DEF CloseTransport, TakeOverTransport, Quiesces, BeginShutdown, WriteStop,
       StopNotWritten, HearStopped, StopWaiting, FinishTransport, SpawnWorker, JoinWorker,
       AbandonWorker
  <2>. QED
    BY <2>1, <2>2, <2>3, PlanMovers
<1>3. ASSUME NEW s \in Sessions, worker'[s] = "none" PROVE worker_id'[s] = None
  <2>1. CASE UNCHANGED workers
    BY <1>3, <2>1 DEF workers, PlanHolds
  <2>2. ASSUME NEW r \in Sessions, SpawnWorker(r) PROVE worker_id'[s] = None
    BY <1>0, <1>3, <2>2 DEF SpawnWorker, PlanHolds
  <2>3. ASSUME NEW r \in Sessions,
               \/ AbandonWorker(r) \/ WorkerBegins(r)
               \/ WorkerConnects(r) \/ WorkerCannotConnect(r) \/ WorkerStops(r)
               \/ WorkerAttaches(r)
               \/ WorkerReads(r, "read_attach", "attached", "stop")
               \/ WorkerReads(r, "read_stop", "stopped", "finish")
               \/ WorkerRequestsStop(r) \/ WorkerFinishes(r)
        PROVE  worker_id'[s] = None
    BY <1>0, <1>3, <2>3 DEF AbandonWorker, WorkerBegins, WorkerConnects, WorkerCannotConnect,
       WorkerStops, WorkerAttaches, WorkerRequestsStop, WorkerWrites, WorkerReads, WorkerFinishes,
       WorkerGoes, UnchangedByWorker, PlanHolds
  <2>. QED
    BY <2>1, <2>2, <2>3, WorkerMovers
<1>. QED
  BY <1>1, <1>2, <1>3 DEF PlanHolds

-----------------------------------------------------------------------------
(* What a sequence of requests comes to, when the first one is taken and   *)
(* when one more is written.                                               *)
LEMMA FirstAndRest ==
    ASSUME NEW S, NEW w \in Seq(S), w # <<>>
    PROVE  /\ Len(w) \in Nat \ {0} /\ Head(w) = w[1]
           /\ Tail(w) \in Seq(S) /\ Len(Tail(w)) = Len(w) - 1
           /\ \A i \in 1 .. Len(w) - 1 : Tail(w)[i] = w[i + 1]
<1>1. Len(w) \in Nat \ {0} /\ Tail(w) \in Seq(S) /\ Len(Tail(w)) = Len(w) - 1 /\ Head(w) = w[1]
  BY HeadTailProperties, EmptySeq, LenProperties
<1>2. \A i \in 1 .. Len(w) - 1 : Tail(w)[i] = w[i + 1]
  BY <1>1, HeadTailProperties
<1>. QED
  BY <1>1, <1>2

(* Attached in the end: when the first request is taken ...                *)
LEMMA AttachedAfterTail ==
    ASSUME NEW S, NEW w \in Seq(S), w # <<>>, EndsAttached(w)
    PROVE  \/ EndsAttached(Tail(w))
           \/ Head(w)[1] = "attach" /\ Without(Tail(w), "detach")
<1>. DEFINE n == Len(w)
            v == Tail(w)
<1>1. /\ n \in Nat \ {0} /\ Head(w) = w[1] /\ v \in Seq(S) /\ Len(v) = n - 1
      /\ \A i \in 1 .. n - 1 : v[i] = w[i + 1]
  BY FirstAndRest
<1>. HIDE DEF n, v
<1>2. PICK i \in 1 .. n : w[i][1] = "attach" /\ \A j \in i + 1 .. n : w[j][1] # "detach"
  BY DEF EndsAttached, n
<1>3. CASE i = 1
  <2>1. ASSUME NEW j \in 1 .. n - 1 PROVE v[j][1] # "detach"
    <3>1. j + 1 \in i + 1 .. n /\ v[j] = w[j + 1]
      BY <1>1, <1>3
    <3>. QED
      BY <1>2, <3>1
  <2>. QED
    BY <1>1, <1>2, <1>3, <2>1 DEF Without, Entries, v
<1>4. CASE i # 1
  <2>1. i - 1 \in 1 .. n - 1 /\ v[i - 1] = w[i]
    BY <1>1, <1>4
  <2>2. ASSUME NEW j \in i .. n - 1 PROVE v[j][1] # "detach"
    <3>1. j \in 1 .. n - 1 /\ j + 1 \in i + 1 .. n
      BY <1>1
    <3>. QED
      BY <1>1, <1>2, <3>1
  <2>3. (i - 1) + 1 = i
    BY <1>1
  <2>4. EndsAttached(v)
    BY <1>1, <1>2, <2>1, <2>2, <2>3 DEF EndsAttached
  <2>. QED
    BY <2>4 DEF v
<1>. QED
  BY <1>3, <1>4

(* ... and when one more is written.                                       *)
LEMMA AttachedAfterAppend ==
    ASSUME NEW S, NEW w \in Seq(S), NEW x \in S, x[1] # "detach",
           EndsAttached(w) \/ x[1] = "attach"
    PROVE  EndsAttached(Append(w, x))
<1>1. /\ Len(w) \in Nat /\ Len(Append(w, x)) = Len(w) + 1
      /\ \A i \in 1 .. Len(w) : Append(w, x)[i] = w[i]
      /\ Append(w, x)[Len(w) + 1] = x
  BY AppendProperties, LenProperties
<1>2. CASE x[1] = "attach"
  BY <1>1, <1>2 DEF EndsAttached
<1>3. CASE EndsAttached(w)
  <2>1. PICK i \in 1 .. Len(w) : /\ w[i][1] = "attach"
                                 /\ \A j \in i + 1 .. Len(w) : w[j][1] # "detach"
    BY <1>3 DEF EndsAttached
  <2>2. ASSUME NEW j \in i + 1 .. Len(w) + 1 PROVE Append(w, x)[j][1] # "detach"
    <3>1. CASE j = Len(w) + 1
      BY <1>1, <3>1
    <3>2. CASE j # Len(w) + 1
      BY <1>1, <2>1, <3>2
    <3>. QED
      BY <3>1, <3>2
  <2>3. i \in 1 .. Len(Append(w, x)) /\ Append(w, x)[i][1] = "attach"
    BY <1>1, <2>1
  <2>4. \A j \in i + 1 .. Len(Append(w, x)) : Append(w, x)[j][1] # "detach"
    BY <1>1, <2>2
  <2>. QED
    BY <2>3, <2>4 DEF EndsAttached
<1>. QED
  BY <1>2, <1>3

(* A stop in the end: when the first request is taken ...                  *)
LEMMA StopAfterTail ==
    ASSUME NEW S, NEW w \in Seq(S), EndsInStop(w)
    PROVE  /\ w # <<>>
           /\ Head(w)[1] # "stop" => EndsInStop(Tail(w))
           /\ Head(w)[1] = "stop" => ~EndsAttached(w)
<1>. DEFINE n == Len(w)
            v == Tail(w)
<1>0. w # <<>>
  BY DEF EndsInStop
<1>1. /\ n \in Nat \ {0} /\ Head(w) = w[1] /\ v \in Seq(S) /\ Len(v) = n - 1
      /\ \A i \in 1 .. n - 1 : v[i] = w[i + 1]
  BY <1>0, FirstAndRest
<1>2. w[n][1] = "stop" /\ \A i \in 1 .. n - 1 : w[i][1] # "stop"
  BY DEF EndsInStop
<1>. HIDE DEF n, v
<1>3. CASE Head(w)[1] = "stop"
  <2>1. n = 1
    <3>1. n # 1 => 1 \in 1 .. n - 1
      BY <1>1
    <3>. QED
      BY <1>1, <1>2, <1>3, <3>1
  <2>2. \A i \in 1 .. n : i = 1
    BY <2>1
  <2>. QED
    BY <1>0, <1>1, <1>3, <2>2 DEF EndsAttached, n
<1>4. CASE Head(w)[1] # "stop"
  <2>1. n # 1
    BY <1>1, <1>2, <1>4
  <2>2. n - 1 \in 1 .. n - 1 /\ (n - 1) + 1 = n
    BY <1>1, <2>1
  <2>3. v # <<>> /\ v[Len(v)][1] = "stop"
    BY <1>1, <1>2, <2>2, EmptySeq
  <2>4. ASSUME NEW i \in 1 .. (n - 1) - 1 PROVE v[i][1] # "stop"
    <3>1. i \in 1 .. n - 1 /\ i + 1 \in 1 .. n - 1
      BY <1>1
    <3>. QED
      BY <1>1, <1>2, <3>1
  <2>5. EndsInStop(v)
    BY <1>1, <2>3, <2>4 DEF EndsInStop
  <2>. QED
    BY <1>0, <1>4, <2>5 DEF v
<1>. QED
  BY <1>3, <1>4

(* ... and when the stop is written.                                       *)
LEMMA StopAfterAppend ==
    ASSUME NEW S, NEW w \in Seq(S), NEW x \in S, x[1] = "stop", Without(w, "stop")
    PROVE  EndsInStop(Append(w, x))
<1>1. /\ Len(w) \in Nat /\ Len(Append(w, x)) = Len(w) + 1
      /\ \A i \in 1 .. Len(w) : Append(w, x)[i] = w[i]
      /\ Append(w, x)[Len(w) + 1] = x
  BY AppendProperties, LenProperties
<1>2. Append(w, x) # <<>>
  BY <1>1, EmptySeq
<1>3. ASSUME NEW i \in 1 .. (Len(w) + 1) - 1 PROVE Append(w, x)[i][1] # "stop"
  <2>1. i \in 1 .. Len(w)
    BY <1>1
  <2>. QED
    BY <1>1, <2>1 DEF Without, Entries
<1>. QED
  BY <1>1, <1>2, <1>3 DEF EndsInStop

(* Writing one request, or two, ...                                        *)
LEMMA OneMore ==
    ASSUME NEW S, NEW w \in Seq(S), NEW x \in S
    PROVE  w \o (<<>> \o <<x>>) = Append(w, x)
OBVIOUS

(* ... which are written one after the other, ...                          *)
LEMMA TwoMore ==
    ASSUME NEW S, NEW w \in Seq(S), NEW x \in S, NEW y \in S
    PROVE  w \o (<<x>> \o <<y>>) = Append(Append(w, x), y)
OBVIOUS

(* ... adds them to what is asked.                                         *)
LEMMA EntriesOfTwo ==
    ASSUME NEW S, NEW w \in Seq(S), NEW x \in S, NEW y \in S
    PROVE  Entries(Append(Append(w, x), y)) = Entries(w) \union {x, y}
<1>1. Append(w, x) \in Seq(S)
  BY AppendProperties
<1>2. Entries(Append(w, x)) = Entries(w) \union {x}
  BY EntriesOfAppend
<1>3. \A v \in Seq(S) : Entries(Append(v, y)) = Entries(v) \union {y}
  BY EntriesOfAppend
<1>. QED
  BY <1>1, <1>2, <1>3

(* What the shutdown asks for.                                             *)
LEMMA StopRequestsAdded ==
    ASSUME NEW w \in Seq(Orders), key[current] \in Sessions
    PROVE  /\ <<"attach", key[current]>> \in Orders /\ <<"stop", key[current]>> \in Orders
           /\ attach_first =>
                w \o StopRequests = Append(Append(w, <<"attach", key[current]>>),
                                           <<"stop", key[current]>>)
           /\ ~attach_first => w \o StopRequests = Append(w, <<"stop", key[current]>>)
<1>. DEFINE x == <<"attach", key[current]>>
            y == <<"stop", key[current]>>
<1>1. x \in Orders /\ y \in Orders
  BY DEF Orders, Requests
<1>2. /\ attach_first => StopRequests = <<x>> \o <<y>>
      /\ ~attach_first => StopRequests = <<>> \o <<y>>
  BY Zenon DEF StopRequests
<1>. HIDE DEF x, y
<1>3. w \o (<<x>> \o <<y>>) = Append(Append(w, x), y) /\ w \o (<<>> \o <<y>>) = Append(w, y)
  BY <1>1, OneMore, TwoMore
<1>4. /\ attach_first => w \o StopRequests = Append(Append(w, x), y)
      /\ ~attach_first => w \o StopRequests = Append(w, y)
  BY <1>2, <1>3, Zenon
<1>. QED
  BY <1>1, <1>4 DEF x, y

(* What is not asked is not asked when a request is taken.                 *)
LEMMA WithoutTail ==
    ASSUME NEW S, NEW w \in Seq(S), w # <<>>, NEW request, Without(w, request)
    PROVE  Without(Tail(w), request) /\ Head(w)[1] # request
BY EntriesOfTail DEF Without

-----------------------------------------------------------------------------
(* What the shutdown has not changed yet. *)

(* A session goes on, or ends.                                             *)
LEMMA StageOnwards ==
    ASSUME ManagerAssumption, Typed, Next, NEW r \in Sessions
    PROVE  \/ stage'[r] = stage[r] \/ stage'[r] = "ended"
           \/ stage[r] = "unborn" /\ stage'[r] = "starting"
           \/ stage[r] = "starting" /\ stage'[r] = "unconfirmed"
           \/ stage[r] = "unconfirmed" /\ stage'[r] = "confirmed"
<1>. DEFINE P == \/ stage'[r] = stage[r] \/ stage'[r] = "ended"
                 \/ stage[r] = "unborn" /\ stage'[r] = "starting"
                 \/ stage[r] = "starting" /\ stage'[r] = "unconfirmed"
                 \/ stage[r] = "unconfirmed" /\ stage'[r] = "confirmed"
<1>0. stage \in [Sessions -> Lease!Stages]
  BY DEF Typed, TypeOK, Lease!TypeOK
<1>1. CASE UNCHANGED stage
  BY <1>1
<1>2. ASSUME NEW s, Lease!End(s) PROVE P
  BY <1>0, <1>2 DEF Lease!End
<1>3. ASSUME NEW u \in Transports, BrokerStarts(u) \/ BrokerDelivers(u) \/ BrokerConfirms(u),
             stage' # stage
      PROVE  P
  BY <1>0, <1>3 DEF BrokerStarts, BrokerDelivers, BrokerConfirms, Lease!Register, Lease!Deliver,
     Lease!Confirm, Lease!Move
<1>4. ASSUME NEW u \in Transports, BrokerAttaches(u) \/ BrokerDetaches(u), stage' # stage PROVE P
  BY <1>4 DEF BrokerAttaches, BrokerDetaches, Lease!Take, Lease!Release
<1>5. ASSUME NEW u \in Transports, BrokerStops(u) \/ BrokerNotices(u), stage' # stage
      PROVE  \E s : Lease!End(s)
  BY <1>5 DEF BrokerStops, BrokerNotices, Lease!Release
<1>6. ASSUME NEW s \in Sessions, AgentExits(s) PROVE P
  BY <1>2, <1>6 DEF AgentExits
<1>7. ASSUME NEW s \in Sessions, BrokerAnnounces(s) PROVE UNCHANGED stage
  BY <1>7 DEF BrokerAnnounces
<1>. QED
  BY <1>1, <1>2, <1>3, <1>4, <1>5, <1>6, <1>7, RemoteMovers DEF remote

(* Only a command acknowledges a start.                                    *)
LEMMA AckWritten ==
    ASSUME ManagerAssumption, Typed, Next, NEW s \in Sessions, Acknowledged(s)', ~Acknowledged(s)
    PROVE  \E c \in Callers : /\ confirm_pending(c) /\ at[c] = s
                              /\ mine[c] \in Transports /\ link[mine[c]] = "up"
<1>0. /\ outbox \in [Transports -> Seq(Orders)] /\ current \in Ids
      /\ binding \in [Transports -> Bindings] /\ mine \in [Callers -> Ids]
      /\ \A c \in Callers : mine[c] = None <=> pc[c] = "idle"
      /\ worker_id \in [Sessions -> Ids]
      /\ \A r \in Sessions : worker[r] # "none" => worker_id[r] \in Transports
      /\ at \in [Callers -> Sessions \union {NoSession}]
      /\ main \in {"stop", "wait", "finish"} => current \in Transports /\ key[current] \in Sessions
      /\ \A c \in Callers : pc[c] = "attach" => at[c] \in Sessions
  BY DEF Typed, TypeOK
<1>1. PICK t \in Transports : <<"ack", s>> \in Asked(t)' /\ <<"ack", s>> \notin Asked(t)
  BY DEF Acknowledged, Asked
<1>2. outbox'[t] # outbox[t]
  BY <1>1 DEF Asked
<1>3. ASSUME NEW u \in Transports, NEW order \in Orders, order # <<"ack", s>>,
             Written(u, <<order>>)
      PROVE  FALSE
  BY <1>0, <1>1, <1>2, <1>3, AskedWhenWritten DEF Asked
<1>4. ASSUME NEW u \in Transports, NEW request, Requested(u, request) PROVE FALSE
  BY <1>0, <1>1, <1>2, <1>4, AskedWhenTaken
<1>5. ASSUME NEW u \in Transports,
             \/ BrokerStarts(u) \/ BrokerConfirms(u) \/ BrokerAttaches(u)
             \/ BrokerDetaches(u) \/ BrokerStops(u)
      PROVE  FALSE
  BY <1>4, <1>5 DEF BrokerStarts, BrokerConfirms, BrokerAttaches, BrokerDetaches, BrokerStops
<1>6. ASSUME NEW u \in Transports, BrokerNotices(u) PROVE FALSE
  <2>1. outbox'[t] = <<>>
    BY <1>0, <1>2, <1>6 DEF BrokerNotices
  <2>. QED
    BY <1>1, <2>1, QuietWire DEF Asked, Entries
<1>7. ASSUME NEW c \in Callers, Listen(c) \/ WriteDetach(c) \/ WriteAttach(c) PROVE FALSE
  <2>1. mine[c] \in Transports
    BY <1>0, <1>7 DEF Listen, WriteDetach, WriteAttach, Ids
  <2>2. /\ <<"start", NoSession>> \in Orders /\ <<"detach", NoSession>> \in Orders
        /\ pc[c] = "attach" => <<"attach", at[c]>> \in Orders
    BY <1>0 DEF Orders, Requests
  <2>3. \/ outbox' = outbox
        \/ Written(mine[c], <<<<"start", NoSession>>>>)
        \/ Written(mine[c], <<<<"detach", NoSession>>>>)
        \/ pc[c] = "attach" /\ Written(mine[c], <<<<"attach", at[c]>>>>)
    BY <1>7 DEF Listen, WriteDetach, WriteAttach
  <2>. QED
    BY <1>2, <1>3, <2>1, <2>2, <2>3
<1>8. ASSUME NEW r \in Sessions, WorkerAttaches(r) \/ WorkerRequestsStop(r) PROVE FALSE
  <2>1. worker_id[r] \in Transports
    BY <1>0, <1>8 DEF WorkerAttaches, WorkerRequestsStop, WorkerWrites
  <2>2. <<"attach", r>> \in Orders /\ <<"stop", r>> \in Orders
    BY DEF Orders, Requests
  <2>3. \/ outbox' = outbox
        \/ Written(worker_id[r], <<<<"attach", r>>>>)
        \/ Written(worker_id[r], <<<<"stop", r>>>>)
    BY <1>8 DEF WorkerAttaches, WorkerRequestsStop, WorkerWrites, WriteFails
  <2>. QED
    BY <1>2, <1>3, <2>1, <2>2, <2>3
<1>9. ASSUME WriteStop PROVE FALSE
  <2>1. current = t /\ outbox'[t] = outbox[t] \o StopRequests
    BY <1>0, <1>2, <1>9 DEF WriteStop, Written
  <2>2. <<"attach", key[t]>> \in Orders /\ <<"stop", key[t]>> \in Orders
    BY <1>0, <1>9, <2>1 DEF WriteStop, Orders, Requests
  <2>3. outbox[t] \in Seq(Orders)
    BY <1>0
  <2>4. Entries(outbox'[t]) \subseteq Entries(outbox[t])
                                      \union {<<"attach", key[t]>>, <<"stop", key[t]>>}
    <3>. DEFINE w == outbox[t]
                x == <<"attach", key[t]>>
                y == <<"stop", key[t]>>
    <3>1. w \o StopRequests \in {Append(Append(w, x), y), Append(w, y)}
      BY <1>0, <1>9, <2>1, <2>3, StopRequestsAdded DEF WriteStop
    <3>2. outbox'[t] \in {Append(Append(w, x), y), Append(w, y)}
      BY <2>1, <3>1
    <3>. HIDE DEF w, x, y
    <3>3. w \in Seq(Orders) /\ x \in Orders /\ y \in Orders
      BY <2>2, <2>3 DEF w, x, y
    <3>4. Entries(Append(Append(w, x), y)) = Entries(w) \union {x, y}
      BY <3>3, EntriesOfTwo
    <3>5. Entries(Append(w, y)) = Entries(w) \union {y}
      BY <3>3, EntriesOfAppend
    <3>. QED
      BY <3>2, <3>4, <3>5 DEF w, x, y
  <2>. QED
    BY <1>1, <2>4 DEF Asked
<1>10. ASSUME NEW c \in Callers, confirm_pending(c)
       PROVE  at[c] = s /\ mine[c] \in Transports /\ link[mine[c]] = "up"
  <2>1. mine[c] \in Transports
    BY <1>0, <1>10 DEF confirm_pending, Ids
  <2>2. Written(mine[c], <<<<"ack", at[c]>>>>)
    BY <1>10 DEF confirm_pending, StartAck
  <2>3. <<"ack", at[c]>> \in Orders
    BY <1>0 DEF Orders, Requests
  <2>4. link[mine[c]] = "up"
    BY <1>2, <2>2 DEF Written
  <2>5. <<"ack", at[c]>> = <<"ack", s>>
    BY <1>3, <2>1, <2>2, <2>3
  <2>. QED
    BY <2>1, <2>4, <2>5
<1>. QED
  BY <1>2, <1>5, <1>6, <1>7, <1>8, <1>9, <1>10, OutboxMovers

(* What a command that begins, or has heard of its start, has done before. *)
LEMMA BeginningCalls ==
    ASSUME ManagerAssumption, Typed, Next, NEW c \in Callers
    PROVE  /\ pc'[c] \in {"handshake", "listen"} => pc[c] \in {"handshake", "listen"} \/ Connect(c)
           /\ pc'[c] = "confirm" => pc[c] = "confirm" \/ HearStarted(c)
<1>. DEFINE P == /\ pc'[c] \in {"handshake", "listen"} =>
                      pc[c] \in {"handshake", "listen"} \/ Connect(c)
                 /\ pc'[c] = "confirm" => pc[c] = "confirm" \/ HearStarted(c)
<1>0. pc \in [Callers -> Steps]
  BY DEF Typed, TypeOK
<1>1. CASE UNCHANGED calls
  BY <1>1 DEF calls
<1>2. ASSUME NEW d \in Callers, Connect(d) \/ HearStarted(d) PROVE P
  BY <1>0, <1>2 DEF Connect, HearStarted, Goto
<1>3. ASSUME NEW d \in Callers,
             \/ start(d) \/ CannotConnect(d) \/ Handshake(d)
             \/ HandshakeFails(d) \/ HandshakeTooLate(d) \/ Listen(d)
             \/ StartNotWritten(d) \/ HearStartFailed(d)
             \/ confirm_pending(d) \/ ConfirmFails(d) \/ publish_pending(d)
             \/ StartLeftToOthers(d) \/ StartNotPublished(d) \/ discard_pending(d)
      PROVE  P
  BY <1>0, <1>3 DEF start, Begin, CannotConnect, Handshake, HandshakeFails, HandshakeTooLate,
     Listen, StartNotWritten, HearStartFailed, confirm_pending, ConfirmFails, publish_pending,
     StartLeftToOthers, StartNotPublished, discard_pending, CloseUnlessShuttingDown, Return, Goto
<1>4. ASSUME NEW d \in Callers,
             \/ TakeEventSlot(d) \/ DetachTooLate(d) \/ WriteDetach(d) \/ DetachNotWritten(d)
             \/ HearDetached(d) \/ WriteAttach(d) \/ AttachNotWritten(d) \/ WriteFailed(d)
             \/ LoseTransport(d) \/ CloseMine(d) \/ HearAttached(d) \/ HearAttachFailed(d)
      PROVE  P
  BY <1>0, <1>4 DEF TakeEventSlot, DetachTooLate, WriteDetach, DetachNotWritten, HearDetached,
     WriteAttach, AttachNotWritten, WriteFailed, LoseTransport, CloseMine, HearAttached,
     HearAttachFailed, CloseUnlessShuttingDown, Return, Goto
<1>5. ASSUME NEW d \in Callers, NEW s \in Sessions, reattach(d, s) \/ detach(d, s) PROVE P
  BY <1>0, <1>5 DEF reattach, Begin, detach, Goto
<1>. QED
  BY <1>1, <1>2, <1>3, <1>4, <1>5, CallMovers

(* What the shutdown has found out it does not forget.                     *)
LEMMA KeptInShutdown ==
    ASSUME ManagerAssumption, Typed, NoRowAfterShutdown, shutting_down, Next
    PROVE  /\ key' = key /\ fallback' = fallback /\ shutting_down'
           /\ to_quiesce' \subseteq to_quiesce
           /\ given_up \subseteq given_up' /\ interrupted \subseteq interrupted'
<1>0. ~BeginShutdown
  BY NothingBegins
<1>1. key' = key
  BY NothingBegins, KeyMovers DEF ReadsLast
<1>2. fallback' = fallback /\ to_quiesce' \subseteq to_quiesce
  BY <1>0, PlanMovers DEF plan, CloseTransport, TakeOverTransport, Quiesces, WriteStop,
     StopNotWritten, HearStopped, StopWaiting, FinishTransport, EndShutdown, SpawnWorker,
     JoinWorker,
     AbandonWorker
<1>3. shutting_down'
  BY FlagMovers DEF BeginShutdown
<1>4. given_up \subseteq given_up' /\ interrupted \subseteq interrupted'
  <2>1. CASE UNCHANGED <<given_up, interrupted>>
    BY <2>1
  <2>2. ASSUME NEW c \in Callers, MayInterrupt(c)
        PROVE  given_up \subseteq given_up' /\ interrupted \subseteq interrupted'
    BY <2>2 DEF MayInterrupt, UnchangedByCommands
  <2>3. ASSUME NEW t \in Transports, BrokerAttaches(t)
        PROVE  given_up \subseteq given_up' /\ interrupted \subseteq interrupted'
    BY <2>3 DEF BrokerAttaches, Requested, UnchangedByRequests
  <2>4. ASSUME NEW s \in Sessions, AbandonWorker(s) \/ WorkerCannotConnect(s) \/ StopWaiting
        PROVE  given_up \subseteq given_up' /\ interrupted \subseteq interrupted'
    BY <2>4 DEF AbandonWorker, WorkerCannotConnect, UnchangedByMain, UnchangedByWorker, GivesUp,
       StopWaiting
  <2>5. CASE StopWaiting
    BY <2>5 DEF StopWaiting, GivesUp, UnchangedByMain
  <2>. QED
    BY <1>0, <2>1, <2>2, <2>3, <2>4, <2>5, HistoryMovers DEF HearStartFailed, discard_pending,
       TakeEventSlot, CloseMine
<1>. QED
  BY <1>1, <1>2, <1>3, <1>4

(* A connection is not put to another use.                                 *)
LEMMA BoundInShutdown ==
    ASSUME ManagerAssumption, Typed, NoRowAfterShutdown, shutting_down, Next, NEW t \in Transports
    PROVE  \/ binding'[t] = binding[t]
           \/ binding'[t] = "Closed"
           \/ binding[t] = "Pending" /\ binding'[t] = "ConfirmedPending"
           \/ TakeOverTransport(t)
<1>. DEFINE P == \/ binding'[t] = binding[t]
                 \/ binding'[t] = "Closed"
                 \/ binding[t] = "Pending" /\ binding'[t] = "ConfirmedPending"
<1>0. /\ binding \in [Transports -> Bindings]
      /\ key[t] \in Sessions \/ binding[t] \in {"none", "AwaitingStart", "Closed"}
  <2>1. key \in [Transports -> Sessions \union {NoSession}]
    BY DEF Typed, TypeOK
  <2>2. key[t] = NoSession => binding[t] \in Unkeyed
    BY DEF Typed
  <2>. QED
    BY <2>1, <2>2 DEF Typed, TypeOK, Unkeyed
<1>1. \A c \in Callers : ~Connect(c) /\ ~publish_pending(c) /\ ~WriteDetach(c) /\ ~WriteAttach(c)
  BY NothingBegins
<1>2. ASSUME NEW c \in Callers, mine[c] = t,
             confirm_pending(c) \/ discard_pending(c) \/ LoseTransport(c)
      PROVE  P
  BY <1>0, <1>2 DEF confirm_pending, discard_pending, LoseTransport, handle_transport_loss
<1>3. ASSUME ReadStarted(t) \/ ReadAttached(t) \/ ReadDetached(t) PROVE P
  <2>1. ReadAttached(t) \/ ReadDetached(t) => key[t] \in Sessions
    BY <1>0 DEF ReadAttached, ReadDetached, Reads
  <2>2. ReadsLast(t, "Lost")
    BY <1>3, <2>1, NothingBegins
  <2>. QED
    BY <1>0, <2>2 DEF ReadsLast
<1>4. ASSUME \/ ReadPendingOver(t) \/ ReadOver(t) \/ ReadStopped(t)
             \/ ReadUnexpected(t) \/ ReadEnd(t) \/ CloseTransport(t)
             \/ \E s \in Sessions : worker_id[s] = t /\ WorkerConnects(s)
      PROVE  P
  BY <1>0, <1>4 DEF ReadPendingOver, ReadOver, ReadStopped, ReadUnexpected, ReadEnd, ReadsLast,
     CloseTransport, WorkerConnects
<1>. QED
  BY <1>1, <1>2, <1>3, <1>4, BindingSteps

(* A command that takes the connection of a session is on record.          *)
LEMMA LinkInShutdown ==
    ASSUME ManagerAssumption, "cut" \notin Happens, Typed, NoRowAfterShutdown, LinksAreRegistered,
           EndingIsClosed, PlanHolds, BeginnersAreUnbound, shutting_down, Next,
           NEW t \in Transports, link[t] = "up", key[t] \in Sessions, key[t] \notin interrupted',
           binding[t] \notin {"AwaitingStart", "AwaitingAttach", "Closed"}
    PROVE  \/ link'[t] = "up"
           \/ CloseTransport(t) /\ binding[t] = "Pending"
           \/ FinishTransport /\ current = t
           \/ \E s \in Sessions : worker[s] # "none" /\ worker_id[s] = t
<1>. SUFFICES ASSUME link'[t] # link[t]
              PROVE  \/ CloseTransport(t) /\ binding[t] = "Pending"
                     \/ FinishTransport /\ current = t
                     \/ \E s \in Sessions : worker[s] # "none" /\ worker_id[s] = t
  OBVIOUS
<1>1. \A c \in Callers : ~Connect(c)
  BY NothingBegins
<1>2. ASSUME NEW c \in Callers, mine[c] = t, HandshakeFails(c) \/ StartNotWritten(c) PROVE FALSE
  BY <1>2 DEF HandshakeFails, StartNotWritten, BeginnersAreUnbound
<1>3. ASSUME NEW c \in Callers, mine[c] = t,
             HearStartFailed(c) \/ discard_pending(c) \/ CloseMine(c)
      PROVE  FALSE
  <2>1. t \in transports
    BY DEF LinksAreRegistered
  <2>2. MayInterrupt(c)
    BY <1>3 DEF HearStartFailed, discard_pending, CloseMine
  <2>. QED
    BY <1>3, <2>1, <2>2 DEF MayInterrupt
<1>4. ASSUME FinishReader(t) PROVE FALSE
  BY <1>4 DEF FinishReader, EndingIsClosed
<1>5. ~ConnectionCut(t)
  BY DEF ConnectionCut
<1>6. ASSUME CloseTransport(t) PROVE binding[t] = "Pending"
  BY <1>6 DEF CloseTransport
<1>7. ASSUME NEW s \in Sessions, worker_id[s] = t PROVE worker[s] # "none"
  BY <1>7, TransportIds DEF PlanHolds
<1>. QED
  BY <1>1, <1>2, <1>3, <1>4, <1>5, <1>6, <1>7, LinkSteps

(* A start is acknowledged after it was delivered.                         *)
LEMMA AcksStep ==
    ASSUME ManagerAssumption, Typed, SettledBeforeShutdown, InStepBeforeShutdown, AcksAreDue,
           ReachedInShutdown, Next
    PROVE  AcksAreDue'
<1>. SUFFICES ASSUME NEW s \in Sessions, Acknowledged(s)'
              PROVE  stage'[s] \notin {"unborn", "starting"}
  BY DEF AcksAreDue
<1>1. ASSUME stage[s] \notin {"unborn", "starting"} PROVE stage'[s] \notin {"unborn", "starting"}
  BY <1>1, StageOnwards
<1>2. ASSUME ~Acknowledged(s) PROVE stage[s] \notin {"unborn", "starting"}
  <2>1. PICK c \in Callers : /\ confirm_pending(c) /\ at[c] = s
                             /\ mine[c] \in Transports /\ link[mine[c]] = "up"
    BY <1>2, AckWritten
  <2>2. pc[c] = "confirm" /\ binding[mine[c]] = "Pending"
    BY <2>1 DEF confirm_pending
  <2>3. CASE shutting_down
    BY <2>1, <2>2, <2>3 DEF ReachedInShutdown, ConfirmersKnow, Startable
  <2>4. CASE ~shutting_down
    <3>1. key[mine[c]] = s
      BY <2>1, <2>2, <2>4 DEF SettledBeforeShutdown, Settled, EventsGoToTheirCaller
    <3>2. Leased(mine[c], s)
      BY <2>1, <2>2, <2>4, <3>1 DEF InStepBeforeShutdown, InStep, BeliefsAreLeases, Believed
    <3>3. EndsAreTrue
      BY <2>4 DEF InStepBeforeShutdown, InStep
    <3>4. notify[s] = mine[c] => stage[s] = "ended"
      BY <2>1, <3>3, TransportIds DEF EndsAreTrue
    <3>5. ASSUME NEW reply \in SessionOver, <<reply, s>> \in News(mine[c])
          PROVE  stage[s] = "ended"
      BY <2>1, <3>3, <3>5 DEF EndsAreTrue
    <3>. QED
      BY <3>2, <3>4, <3>5 DEF Leased
  <2>. QED
    BY <2>3, <2>4
<1>. QED
  BY <1>1, <1>2 DEF AcksAreDue

(* Commands that begin do not get any further.                             *)
LEMMA BeginnersStep ==
    ASSUME ManagerAssumption, Typed, NoRowAfterShutdown, shutting_down, BeginnersAreUnbound, Next
    PROVE  BeginnersAreUnbound'
<1>. SUFFICES ASSUME NEW c \in Callers, pc'[c] \in {"handshake", "listen"}
              PROVE  binding'[mine'[c]] \in {"AwaitingStart", "AwaitingAttach", "Closed"}
  BY DEF BeginnersAreUnbound
<1>1. pc[c] \in {"handshake", "listen"} /\ mine'[c] = mine[c]
  BY BeginningCalls, NothingBegins, CallsInShutdown
<1>2. mine[c] \in Transports
  BY <1>1 DEF Typed, TypeOK, Ids
<1>3. binding[mine[c]] \in {"AwaitingStart", "AwaitingAttach", "Closed"}
  BY <1>1 DEF BeginnersAreUnbound
<1>. QED
  BY <1>1, <1>2, <1>3, BoundInShutdown DEF TakeOverTransport

(* A command that has heard of its start knows the session.                *)
LEMMA ConfirmersStep ==
    ASSUME ManagerAssumption, Typed, NoRowAfterShutdown, shutting_down, ConfirmersKnow, Next
    PROVE  ConfirmersKnow'
<1>. SUFFICES ASSUME NEW c \in Callers, pc'[c] = "confirm" PROVE at'[c] = key'[mine'[c]]
  BY DEF ConfirmersKnow
<1>1. key' = key /\ mine'[c] = mine[c]
  BY KeptInShutdown, CallsInShutdown
<1>2. CASE HearStarted(c)
  BY <1>1, <1>2 DEF HearStarted, Typed, TypeOK
<1>3. CASE pc[c] = "confirm" /\ ~HearStarted(c)
  <2>1. at'[c] = at[c]
    BY <1>3, CallChanges
  <2>. QED
    BY <1>1, <1>3, <2>1 DEF ConfirmersKnow
<1>. QED
  BY <1>2, <1>3, BeginningCalls

(* A connection leaves the list when it is quiesced.                       *)
LEMMA QuiescingSteps ==
    ASSUME ManagerAssumption, Typed, NoRowAfterShutdown, shutting_down, Next, NEW t \in Transports,
           t \in to_quiesce, t \notin to_quiesce'
    PROVE  CloseTransport(t) \/ TakeOverTransport(t)
<1>1. ~BeginShutdown
  BY NothingBegins
<1>2. ASSUME NEW u \in Transports, CloseTransport(u) \/ TakeOverTransport(u) PROVE u = t
  BY <1>2 DEF CloseTransport, TakeOverTransport, Quiesces
<1>. QED
  BY <1>1, <1>2, PlanMovers DEF plan, WriteStop, StopNotWritten, HearStopped, StopWaiting,
     FinishTransport, EndShutdown, SpawnWorker, JoinWorker, AbandonWorker

(* During the shutdown only its own connections come up.                   *)
LEMMA UpBefore ==
    ASSUME ManagerAssumption, Typed, NoRowAfterShutdown, shutting_down, Next, NEW t \in Transports,
           link'[t] = "up", binding'[t] # "Closed"
    PROVE  link[t] = "up"
<1>0. /\ link \in [Transports -> {"none", "up", "cut", "reaped"}]
      /\ binding \in [Transports -> Bindings]
      /\ inbox \in [Transports -> Seq(Answers)]
      /\ \A c \in Callers : mine[c] \in Ids
      /\ current \in Ids
      /\ \A s \in Sessions : worker_id[s] \in Ids
  BY DEF Typed, TypeOK
<1>1. \A c \in Callers : ~Connect(c)
  BY NothingBegins
<1>2. ASSUME NEW u \in Ids, Reap(u) PROVE link[t] = "up"
  BY <1>0, <1>2, ReapedAlone
<1>3. ASSUME NEW c \in Callers,
             \/ HandshakeFails(c) \/ StartNotWritten(c) \/ HearStartFailed(c)
             \/ discard_pending(c) \/ CloseMine(c)
      PROVE  Reap(mine[c])
  BY <1>3 DEF HandshakeFails, StartNotWritten, HearStartFailed, discard_pending, CloseMine,
     finish_transport
<1>4. ASSUME FinishReader(t) \/ ConnectionCut(t) PROVE FALSE
  BY <1>0, <1>4 DEF FinishReader, ConnectionCut
<1>5. ASSUME CloseTransport(t) PROVE Reap(t)
  BY <1>5 DEF CloseTransport, finish_transport
<1>6. ASSUME FinishTransport PROVE Reap(current)
  BY <1>6 DEF FinishTransport, finish_transport
<1>7. ASSUME NEW s \in Sessions, WorkerFinishes(s) PROVE Reap(worker_id[s])
  BY <1>7 DEF WorkerFinishes, finish_transport
<1>8. ASSUME NEW s \in Sessions, AbandonWorker(s), link' # link PROVE Reap(current)
  BY <1>8 DEF AbandonWorker, finish_transport
<1>9. ASSUME NEW s \in Sessions, WorkerConnects(s), worker_id[s] = t PROVE FALSE
  BY <1>0, <1>9 DEF WorkerConnects
<1>. QED
  BY <1>0, <1>1, <1>2, <1>3, <1>4, <1>5, <1>6, <1>7, <1>8, <1>9, LinkSteps, Zenon DEF Ids

(* Workers do not touch the connections on the list, or in the shutdown's  *)
(* hands.                                                                  *)
LEMMA WorkersElsewhere ==
    ASSUME ManagerAssumption, WorkersApart, PlanHolds, NEW t \in Transports,
           t \in to_quiesce \/ main \in {"stop", "wait", "finish"}
    PROVE  \A s \in Sessions : worker[s] = "none" /\ worker_id[s] # t
BY TransportIds DEF WorkersApart, PlanHolds

(* What is asked there.                                                    *)
LEMMA OutboxInShutdown ==
    ASSUME ManagerAssumption, Typed, NoRowAfterShutdown, BeginnersAreUnbound, shutting_down, Next,
           NEW t \in Transports, link[t] = "up", outbox'[t] # outbox[t],
           binding[t] \notin {"AwaitingStart", "AwaitingAttach", "Closed"},
           \A s \in Sessions : worker_id[s] # t
    PROVE  \/ \E c \in Callers : mine[c] = t /\ confirm_pending(c)
           \/ BrokerStarts(t) \/ BrokerConfirms(t) \/ BrokerAttaches(t)
           \/ BrokerDetaches(t) \/ BrokerStops(t)
           \/ WriteStop /\ current = t
<1>1. \A c \in Callers : ~WriteDetach(c) /\ ~WriteAttach(c)
  BY NothingBegins
<1>2. ASSUME NEW c \in Callers, Listen(c), mine[c] = t PROVE FALSE
  BY <1>2 DEF Listen, BeginnersAreUnbound
<1>. QED
  BY <1>1, <1>2, OutboxSteps

(* A start that waits for the shutdown stays as the broker knows it.       *)
LEMMA StartableStep ==
    ASSUME ManagerAssumption, Typed, NoRowAfterShutdown, WorkersApart, PlanHolds,
           BeginnersAreUnbound, ConfirmersKnow, shutting_down, Next,
           NEW t \in Transports, Startable(t)
    PROVE  Startable(t)'
<1>. DEFINE k == key[t]
<1>. SUFFICES ASSUME binding'[t] \in {"Pending", "ConfirmedPending"}, link'[t] = "up"
              PROVE  /\ t \in to_quiesce'
                     /\ \/ stage'[k] = "ended"
                        \/ /\ holder'[k] = t
                           /\ stage'[k] \in {"unconfirmed", "confirmed"}
                           /\ inbox'[t] = <<>>
                           /\ Asked(t)' \subseteq {<<"ack", k>>}
                           /\ ServesOnly(t, k)'
  BY KeptInShutdown DEF Startable, ServesOnly
<1>0. /\ binding \in [Transports -> Bindings] /\ inbox \in [Transports -> Seq(Answers)]
      /\ outbox \in [Transports -> Seq(Orders)]
      /\ holder \in [Sessions -> Ids] /\ stage \in [Sessions -> Lease!Stages]
      /\ notify \in [Sessions -> Ids]
  BY DEF Typed, TypeOK, Lease!TypeOK, Ids
<1>1. binding[t] \in {"Pending", "ConfirmedPending"}
  BY <1>0, BoundInShutdown DEF TakeOverTransport
<1>2. link[t] = "up"
  BY UpBefore
<1>3. k \in Sessions
  <2>1. key[t] \in Sessions \union {NoSession} /\ (key[t] = NoSession => binding[t] \in Unkeyed)
    BY DEF Typed, TypeOK
  <2>. QED
    BY <1>1, <2>1 DEF Unkeyed
<1>4. t \in to_quiesce
  BY <1>1, <1>2 DEF Startable
<1>5. t \in to_quiesce'
  BY <1>0, <1>4, QuiescingSteps DEF CloseTransport, TakeOverTransport
<1>6. /\ \A s \in Sessions : worker[s] = "none" /\ worker_id[s] # t
      /\ ~(WriteStop /\ current = t)
  BY <1>4, WorkersElsewhere DEF PlanHolds, WriteStop
<1>7. CASE stage[k] = "ended"
  BY <1>3, <1>5, <1>7, StageSteps
<1>8. CASE stage[k] # "ended" /\ stage'[k] # "ended"
  <2>1. /\ holder[k] = t /\ stage[k] \in {"unconfirmed", "confirmed"} /\ inbox[t] = <<>>
        /\ Asked(t) \subseteq {<<"ack", k>>} /\ ServesOnly(t, k)
    BY <1>1, <1>2, <1>8 DEF Startable
  <2>2. stage'[k] \in {"unconfirmed", "confirmed"}
    BY <1>3, <1>8, <2>1, StageOnwards
  <2>3. ASSUME NEW request, Requested(t, request)
        PROVE  request = "ack" /\ Head(outbox[t]) = <<"ack", k>>
    <3>1. Head(outbox[t]) \in Asked(t) /\ Head(outbox[t])[1] = request
      BY <1>0, <2>3, AskedWhenTaken
    <3>. QED
      BY <2>1, <3>1
  <2>4. ~BrokerStarts(t) /\ ~BrokerAttaches(t) /\ ~BrokerDetaches(t) /\ ~BrokerStops(t)
    BY <2>3 DEF BrokerStarts, BrokerAttaches, BrokerDetaches, BrokerStops
  <2>5. holder'[k] = t
    BY <1>2, <1>3, <1>8, <2>1, <2>4, HolderSteps
  <2>6. inbox'[t] = <<>>
    <3>1. ASSUME \/ ReadStarted(t) \/ ReadPendingOver(t) \/ ReadOver(t)
                 \/ ReadAttached(t) \/ ReadDetached(t) \/ ReadWhileStopping(t)
                 \/ ReadStopped(t) \/ ReadUnexpected(t)
          PROVE  FALSE
      BY <2>1, <3>1 DEF ReadStarted, ReadPendingOver, ReadOver, ReadAttached, ReadDetached,
         ReadWhileStopping, ReadStopped, ReadUnexpected, Reads
    <3>2. ASSUME BrokerDelivers(t) PROVE FALSE
      BY <2>1, <3>2 DEF BrokerDelivers, Lease!Deliver, Lease!Move, ServesOnly
    <3>3. ASSUME BrokerConfirms(t) PROVE UNCHANGED inbox
      BY <1>8, <2>3, <3>3 DEF BrokerConfirms
    <3>4. \A s \in Sessions : notify[s] # t
      BY <2>1 DEF ServesOnly
    <3>. QED
      BY <1>6, <2>1, <2>4, <3>1, <3>2, <3>3, <3>4, InboxSteps
  <2>7. Asked(t)' \subseteq {<<"ack", k>>}
    <3>1. ASSUME BrokerConfirms(t) PROVE Asked(t)' \subseteq Asked(t)
      BY <1>0, <3>1, AskedWhenTaken DEF BrokerConfirms
    <3>2. ASSUME NEW c \in Callers, mine[c] = t, confirm_pending(c)
          PROVE  Asked(t)' \subseteq Asked(t) \union {<<"ack", k>>}
      <4>1. at[c] = k
        BY <3>2 DEF confirm_pending, ConfirmersKnow
      <4>2. <<"ack", k>> \in Orders
        BY <1>3 DEF Orders, Requests
      <4>3. Written(t, <<<<"ack", k>>>>)
        BY <3>2, <4>1 DEF confirm_pending, StartAck
      <4>. QED
        BY <1>0, <1>2, <4>2, <4>3, AskedWhenWritten
    <3>3. outbox'[t] = outbox[t] => Asked(t)' = Asked(t)
      BY DEF Asked
    <3>. QED
      BY <1>1, <1>2, <1>6, <2>1, <2>4, <3>1, <3>2, <3>3, OutboxInShutdown
  <2>8. ServesOnly(t, k)'
    <3>1. ASSUME NEW r \in Sessions PROVE notify'[r] # t /\ (holder'[r] = t => r = k)
      <4>1. notify[r] # t /\ (holder[r] = t => r = k)
        BY <2>1 DEF ServesOnly
      <4>2. holder'[r] = t => holder[r] = t
        BY <2>4, HolderSteps
      <4>3. notify'[r] = t => holder[r] = t /\ stage'[r] = "ended"
        BY <4>1, HolderSteps
      <4>. QED
        BY <1>8, <4>1, <4>2, <4>3
    <3>. QED
      BY <3>1, KeptInShutdown DEF ServesOnly
  <2>. QED
    BY <1>5, <2>2, <2>5, <2>6, <2>7, <2>8
<1>. QED
  BY <1>5, <1>7, <1>8

-----------------------------------------------------------------------------
(* A session that the shutdown is about to stop. *)

(* The broker answers what it is asked about it.                           *)
LEMMA ServingAnswers ==
    ASSUME ManagerAssumption, Typed, shutting_down, Next, NEW t \in Transports, NEW s \in Sessions,
           Serves(t, s), Live(s), Live(s)', s \notin given_up',
           Without(outbox[t], "stop") \/ (EndsInStop(outbox[t]) /\ WillHold(t, s))
    PROVE  /\ ~BrokerStarts(t) /\ ~BrokerStops(t) /\ ~BrokerDelivers(t)
           /\ BrokerConfirms(t) => /\ Head(outbox[t])[1] = "ack"
                                   /\ UNCHANGED <<inbox, holder>>
           /\ BrokerAttaches(t) => /\ Head(outbox[t]) = <<"attach", s>>
                                   /\ Replied(t, "attached", s)
                                   /\ holder[s] = None /\ holder'[s] = t
           /\ BrokerDetaches(t) => /\ Head(outbox[t])[1] = "detach"
                                   /\ Replied(t, "detached", NoSession)
<1>0. /\ outbox \in [Transports -> Seq(Orders)] /\ holder \in [Sessions -> Ids]
      /\ stage[s] # "ended" /\ stage'[s] # "ended" /\ stage[s] # "starting"
  BY DEF Typed, TypeOK, Lease!TypeOK, Ids, Live
<1>1. ASSUME NEW request, Requested(t, request)
      PROVE  /\ outbox[t] # <<>> /\ Head(outbox[t])[1] = request
             /\ request = "detach" \/ Head(outbox[t]) = <<request, s>>
             /\ request # "start"
  <2>1. /\ outbox[t] # <<>> /\ Head(outbox[t]) \in Asked(t) /\ Head(outbox[t])[1] = request
    BY <1>0, <1>1, AskedWhenTaken DEF Requested
  <2>2. Head(outbox[t]) \in {<<"ack", s>>, <<"attach", s>>, <<"stop", s>>, PleaseDetach}
    BY <2>1 DEF Serves, AsksOnly
  <2>. QED
    BY <2>1, <2>2 DEF PleaseDetach
<1>2. ~BrokerStarts(t)
  BY <1>1 DEF BrokerStarts
<1>3. ASSUME BrokerStops(t) PROVE FALSE
  <2>1. /\ outbox[t] # <<>> /\ Head(outbox[t])[1] = "stop"
        /\ Head(outbox[t]) = <<"stop", s>>
    BY <1>1, <1>3 DEF BrokerStops
  <2>2. ~Without(outbox[t], "stop")
    BY <1>0, <2>1, WithoutTail
  <2>3. ~EndsAttached(outbox[t])
    BY <1>0, <2>1, <2>2, StopAfterTail
  <2>4. holder[s] = t
    BY <2>2, <2>3 DEF WillHold
  <2>5. Lease!End(s)
    BY <1>3, <2>1, <2>4 DEF BrokerStops
  <2>. QED
    BY <1>0, <2>5 DEF Lease!End, Typed, TypeOK, Lease!TypeOK
<1>4. ASSUME BrokerDelivers(t) PROVE FALSE
  BY <1>0, <1>4 DEF BrokerDelivers, Lease!Deliver, Lease!Move, Serves, ServesOnly
<1>5. ASSUME BrokerConfirms(t) PROVE Head(outbox[t])[1] = "ack" /\ UNCHANGED <<inbox, holder>>
  <2>1. Head(outbox[t]) = <<"ack", s>>
    BY <1>1, <1>5 DEF BrokerConfirms
  <2>. QED
    BY <1>0, <1>5, <2>1 DEF BrokerConfirms, Lease!Confirm, Lease!Move
<1>6. ASSUME BrokerAttaches(t)
      PROVE  /\ Head(outbox[t]) = <<"attach", s>> /\ Replied(t, "attached", s)
             /\ holder[s] = None /\ holder'[s] = t
  <2>1. Head(outbox[t]) = <<"attach", s>>
    BY <1>1, <1>6 DEF BrokerAttaches
  <2>2. Lease!Take(s, t) /\ Replied(t, "attached", s)
    BY <1>0, <1>6, <2>1 DEF BrokerAttaches
  <2>. QED
    BY <1>0, <2>1, <2>2 DEF Lease!Take
<1>7. ASSUME BrokerDetaches(t)
      PROVE  Head(outbox[t])[1] = "detach" /\ Replied(t, "detached", NoSession)
  BY <1>1, <1>7 DEF BrokerDetaches
<1>. QED
  BY <1>2, <1>3, <1>4, <1>5, <1>6, <1>7

(* What it says stays to the point ...                                     *)
LEMMA ServesStep ==
    ASSUME ManagerAssumption, Typed, NoRowAfterShutdown, WorkersApart, PlanHolds,
           BeginnersAreUnbound, shutting_down, Next,
           NEW t \in Transports, NEW s \in Sessions, ~(WriteStop /\ current = t),
           t \in to_quiesce \/ main \in {"stop", "wait", "finish"},
           binding[t] \in {"Attaching", "Attached", "Detaching", "Stopping"},
           Serves(t, s), link'[t] = "up", Live(s), Live(s)', s \notin given_up',
           Without(outbox[t], "stop") \/ (EndsInStop(outbox[t]) /\ WillHold(t, s))
    PROVE  Serves(t, s)'
<1>0. /\ inbox \in [Transports -> Seq(Answers)] /\ outbox \in [Transports -> Seq(Orders)]
      /\ link[t] = "up" /\ key[t] = s /\ ServesOnly(t, s) /\ AsksOnly(t, s)
      /\ \A news \in News(t) : news[1] \in {"attached", "detached"}
      /\ key' = key /\ stage'[s] # "ended"
      /\ \A r \in Sessions : worker_id[r] # t
      /\ <<"attached", s>> \in Answers /\ <<"detached", NoSession>> \in Answers
  BY KeptInShutdown, WorkersElsewhere DEF Typed, TypeOK, Serves, Live, Answers, Replies
<1>1. ASSUME NEW news \in News(t)' PROVE news[1] \in {"attached", "detached"}
  <2>1. CASE inbox'[t] = inbox[t]
    BY <1>0, <1>1, <2>1 DEF News
  <2>2. ASSUME \/ ReadStarted(t) \/ ReadPendingOver(t) \/ ReadOver(t)
               \/ ReadAttached(t) \/ ReadDetached(t) \/ ReadWhileStopping(t)
               \/ ReadStopped(t) \/ ReadUnexpected(t)
        PROVE  news[1] \in {"attached", "detached"}
    <3>1. inbox[t] # <<>> /\ inbox' = [inbox EXCEPT ![t] = Tail(inbox[t])]
      BY <2>2 DEF ReadStarted, ReadPendingOver, ReadOver, ReadAttached, ReadDetached,
         ReadWhileStopping, ReadStopped, ReadUnexpected, Reads
    <3>2. News(t) = {Head(inbox[t])} \union News(t)'
      BY <1>0, <3>1, NewsOfReading
    <3>. QED
      BY <1>0, <1>1, <3>2
  <2>3. ASSUME BrokerAttaches(t) \/ BrokerDetaches(t) PROVE news[1] \in {"attached", "detached"}
    <3>1. Replied(t, "attached", s) \/ Replied(t, "detached", NoSession)
      BY <2>3, ServingAnswers
    <3>2. News(t)' = News(t) \union {<<"attached", s>>}
          \/ News(t)' = News(t) \union {<<"detached", NoSession>>}
      BY <1>0, <3>1, AnsweredUp
    <3>. QED
      BY <1>0, <1>1, <3>2
  <2>4. BrokerConfirms(t) => inbox' = inbox
    BY ServingAnswers
  <2>5. ~BrokerStarts(t) /\ ~BrokerStops(t) /\ ~BrokerDelivers(t)
    BY ServingAnswers
  <2>6. \A r \in Sessions : notify[r] # t
    BY <1>0 DEF ServesOnly
  <2>. QED
    BY <1>0, <2>1, <2>2, <2>3, <2>4, <2>5, <2>6, InboxSteps
<1>2. AsksOnly(t, s)'
  <2>1. CASE outbox'[t] = outbox[t]
    BY <1>0, <2>1 DEF AsksOnly, Asked
  <2>2. ASSUME NEW request, Requested(t, request) PROVE Asked(t)' \subseteq Asked(t)
    BY <1>0, <2>2, AskedWhenTaken
  <2>3. \A c \in Callers : mine[c] = t => ~confirm_pending(c)
    BY DEF confirm_pending
  <2>. QED
    BY <1>0, <2>1, <2>2, <2>3, OutboxInShutdown DEF AsksOnly, BrokerStarts, BrokerConfirms,
       BrokerAttaches, BrokerDetaches, BrokerStops
<1>3. ASSUME NEW r \in Sessions PROVE notify'[r] # t /\ (holder'[r] = t => r = s)
  <2>1. notify[r] # t /\ (holder[r] = t => r = s)
    BY <1>0 DEF ServesOnly
  <2>2. holder'[r] = t /\ holder[r] # t => r = s
    BY HolderSteps, ServingAnswers
  <2>3. notify'[r] = t => holder[r] = t /\ stage'[r] = "ended"
    BY <2>1, HolderSteps
  <2>. QED
    BY <1>0, <2>1, <2>2, <2>3
<1>4. ServesOnly(t, s)'
  BY <1>3 DEF ServesOnly
<1>. QED
  BY <1>0, <1>1, <1>2, <1>4 DEF Serves

(* ... and so does what is asked.                                          *)
LEMMA AskingStep ==
    ASSUME ManagerAssumption, Typed, NoRowAfterShutdown, WorkersApart, PlanHolds,
           BeginnersAreUnbound, shutting_down, Next,
           NEW t \in Transports, NEW s \in Sessions, ~(WriteStop /\ current = t),
           t \in to_quiesce \/ main \in {"stop", "wait", "finish"},
           binding[t] \in {"Attaching", "Attached", "Detaching", "Stopping"},
           Serves(t, s), Live(s), Live(s)', s \notin given_up',
           Without(outbox[t], "stop") \/ (EndsInStop(outbox[t]) /\ WillHold(t, s))
    PROVE  /\ Without(outbox[t], "stop") => Without(outbox'[t], "stop")
           /\ EndsInStop(outbox[t]) => EndsInStop(outbox'[t])
           /\ WillHold(t, s) => WillHold(t, s)'
<1>0. /\ outbox[t] \in Seq(Orders) /\ link[t] = "up" /\ stage'[s] # "ended"
      /\ stage[s] # "unborn" /\ t # None /\ outbox \in [Transports -> Seq(Orders)]
      /\ \A r \in Sessions : worker_id[r] # t
  BY WorkersElsewhere, TransportIds DEF Typed, TypeOK, Serves, Live
<1>1. CASE outbox'[t] = outbox[t]
  <2>1. ~BrokerDetaches(t)
    BY <1>0, <1>1, TailDiffers DEF BrokerDetaches, Requested
  <2>2. holder[s] = t => holder'[s] = t
    BY <1>0, <2>1, HolderSteps
  <2>. QED
    BY <1>1, <2>2 DEF WillHold
<1>2. ASSUME BrokerConfirms(t) \/ BrokerAttaches(t) \/ BrokerDetaches(t)
      PROVE  /\ outbox[t] # <<>> /\ outbox'[t] = Tail(outbox[t])
             /\ Head(outbox[t])[1] # "stop"
  BY <1>0, <1>2, AskedWhenTaken, ServingAnswers DEF BrokerConfirms, BrokerAttaches, BrokerDetaches,
     Requested
<1>tail. ASSUME outbox[t] # <<>>
         PROVE  /\ \A request \in {"stop", "detach"} :
                      Without(outbox[t], request) =>
                         Without(Tail(outbox[t]), request) /\ Head(outbox[t])[1] # request
                /\ EndsInStop(outbox[t]) /\ Head(outbox[t])[1] # "stop"
                     => EndsInStop(Tail(outbox[t]))
                /\ EndsAttached(outbox[t]) =>
                      \/ EndsAttached(Tail(outbox[t]))
                      \/ Head(outbox[t])[1] = "attach" /\ Without(Tail(outbox[t]), "detach")
  <2>1. \A request \in {"stop", "detach"} :
           Without(outbox[t], request) =>
              Without(Tail(outbox[t]), request) /\ Head(outbox[t])[1] # request
    BY <1>0, <1>tail, WithoutTail
  <2>2. EndsInStop(outbox[t]) /\ Head(outbox[t])[1] # "stop" => EndsInStop(Tail(outbox[t]))
    BY <1>0, <1>tail, StopAfterTail
  <2>3. EndsAttached(outbox[t]) =>
           \/ EndsAttached(Tail(outbox[t]))
           \/ Head(outbox[t])[1] = "attach" /\ Without(Tail(outbox[t]), "detach")
    BY <1>0, <1>tail, AttachedAfterTail
  <2>. QED
    BY <2>1, <2>2, <2>3
<1>3. ASSUME BrokerConfirms(t) \/ BrokerAttaches(t) \/ BrokerDetaches(t)
      PROVE  /\ Without(outbox[t], "stop") => Without(outbox'[t], "stop")
             /\ EndsInStop(outbox[t]) => EndsInStop(outbox'[t])
  BY <1>2, <1>3, <1>tail
<1>4. ASSUME BrokerConfirms(t), WillHold(t, s) PROVE WillHold(t, s)'
  <2>1. Head(outbox[t])[1] = "ack" /\ holder' = holder
    BY <1>4, ServingAnswers
  <2>2. EndsAttached(outbox[t]) => EndsAttached(outbox'[t])
    BY <1>2, <1>4, <1>tail, <2>1
  <2>3. Without(outbox[t], "detach") => Without(outbox'[t], "detach")
    BY <1>2, <1>4, <1>tail
  <2>. QED
    BY <1>4, <2>1, <2>2, <2>3 DEF WillHold
<1>5. ASSUME BrokerAttaches(t), WillHold(t, s) PROVE WillHold(t, s)'
  <2>1. holder[s] = None /\ holder'[s] = t
    BY <1>5, ServingAnswers
  <2>2. EndsAttached(outbox[t])
    BY <1>0, <1>5, <2>1 DEF WillHold
  <2>3. EndsAttached(outbox'[t]) \/ Without(outbox'[t], "detach")
    BY <1>2, <1>5, <1>tail, <2>2
  <2>. QED
    BY <2>1, <2>3 DEF WillHold
<1>6. ASSUME BrokerDetaches(t), WillHold(t, s) PROVE WillHold(t, s)'
  <2>1. Head(outbox[t])[1] = "detach"
    BY <1>6, ServingAnswers
  <2>2. EndsAttached(outbox[t])
    BY <1>2, <1>6, <1>tail, <2>1 DEF WillHold
  <2>. QED
    BY <1>2, <1>6, <1>tail, <2>1, <2>2 DEF WillHold
<1>7. \A c \in Callers : mine[c] = t => ~confirm_pending(c)
  BY DEF confirm_pending
<1>8. ~BrokerStarts(t) /\ ~BrokerStops(t)
  BY ServingAnswers
<1>9. CASE BrokerConfirms(t) \/ BrokerAttaches(t) \/ BrokerDetaches(t)
  BY <1>3, <1>4, <1>5, <1>6, <1>9
<1>. QED
  BY <1>0, <1>1, <1>7, <1>8, <1>9, OutboxInShutdown

(* A connection in use is closed by what is read from it, unless a command *)
(* takes it from the shutdown.                                             *)
LEMMA ClosedByReading ==
    ASSUME ManagerAssumption, Typed, NoRowAfterShutdown, LinksAreRegistered, LosersAreCut,
           shutting_down, Next, NEW t \in Transports, link[t] = "up", key[t] \in Sessions,
           key[t] \notin interrupted', \A s \in Sessions : worker_id[s] # t,
           binding[t] \notin {"AwaitingStart", "AwaitingAttach", "Closed"}, binding'[t] = "Closed"
    PROVE  \/ CloseTransport(t)
           \/ ReadPendingOver(t) \/ ReadOver(t) \/ ReadAttached(t) \/ ReadDetached(t)
           \/ ReadStopped(t) \/ ReadUnexpected(t)
<1>1. \A c \in Callers : ~Connect(c) /\ ~publish_pending(c) /\ ~WriteDetach(c) /\ ~WriteAttach(c)
  BY NothingBegins
<1>2. binding \in [Transports -> Bindings]
  BY DEF Typed, TypeOK
<1>3. ASSUME NEW c \in Callers, mine[c] = t, confirm_pending(c) PROVE FALSE
  BY <1>2, <1>3 DEF confirm_pending
<1>4. ASSUME NEW c \in Callers, mine[c] = t, discard_pending(c) PROVE FALSE
  <2>1. t \in transports
    BY DEF LinksAreRegistered
  <2>. QED
    BY <1>4, <2>1 DEF discard_pending, MayInterrupt
<1>5. ASSUME NEW c \in Callers, mine[c] = t, LoseTransport(c) PROVE FALSE
  BY <1>5 DEF LoseTransport, LosersAreCut
<1>6. ~ReadStarted(t) /\ ~ReadEnd(t)
  BY DEF ReadStarted, Reads, ReadEnd
<1>7. ~TakeOverTransport(t)
  BY <1>2 DEF TakeOverTransport
<1>. QED
  BY <1>1, <1>3, <1>4, <1>5, <1>6, <1>7, BindingSteps

(* The shutdown takes over a connection that serves the session.           *)
LEMMA TakenInHand ==
    ASSUME Typed, MainListens, NEW t \in Transports, NEW s \in Sessions, TakeOverTransport(t),
           Serves(t, s), Without(outbox[t], "stop"), binding[t] # "Detaching" => WillHold(t, s)
    PROVE  InHand(t, s)'
<1>1. /\ t = current' /\ binding'[t] = "Stopping" /\ event_sender'[t] = Main /\ main' = "stop"
      /\ attach_first' = (binding[t] = "Detaching")
      /\ events' = events /\ inbox' = inbox /\ outbox' = outbox /\ link' = link
      /\ key' = key /\ holder' = holder /\ notify' = notify
  BY DEF TakeOverTransport, UnchangedByMain, remote, wire, Typed, TypeOK
<1>2. events[Main] = <<>>
  BY DEF TakeOverTransport, Quiesces, MainListens
<1>3. Serves(t, s)'
  BY <1>1 DEF Serves, ServesOnly, AsksOnly, Asked, News
<1>4. attach_first' \/ WillHold(t, s)'
  BY <1>1 DEF WillHold
<1>. QED
  BY <1>1, <1>2, <1>3, <1>4 DEF InHand

(* A session on the list stays there until its connection is quiesced, and *)
(* is then in the shutdown's hands or to be stopped by a worker.           *)
LEMMA ListedStep ==
    ASSUME ManagerAssumption, "cut" \notin Happens, Typed, NoRowAfterShutdown, LinksAreRegistered,
           SettledBeforeShutdown, EndingIsClosed, MainListens, WorkersApart, PlanHolds,
           LosersAreCut,
           BeginnersAreUnbound, shutting_down, Next,
           NEW t \in Transports, NEW s \in Sessions, Startable(t), Listed(t, s),
           Live(s), Live(s)', s \notin given_up', s \notin interrupted'
    PROVE  Listed(t, s)' \/ InHand(t, s)' \/ Awaited(s)'
<1>0. /\ binding \in [Transports -> Bindings] /\ t \in to_quiesce
      /\ key' = key /\ fallback' = fallback /\ stage[s] # "ended"
      /\ NoSession \notin Sessions
  BY KeptInShutdown DEF Typed, TypeOK, Listed, Live, ManagerAssumption
<1>1. /\ \A r \in Sessions : worker[r] = "none" /\ worker_id[r] # t
      /\ ~(WriteStop /\ current = t) /\ ~(FinishTransport /\ current = t)
  BY <1>0, WorkersElsewhere DEF PlanHolds, WriteStop, FinishTransport
<1>2. ASSUME t \notin to_quiesce' PROVE CloseTransport(t) \/ TakeOverTransport(t)
  BY <1>0, <1>2, QuiescingSteps
<1>3. ASSUME CloseTransport(t), s \in to_stop' PROVE Awaited(s)'
  BY <1>1, <1>3 DEF CloseTransport, workers, Awaited
<1>4. CASE binding[t] = "Closed" /\ fallback[t] = s
  <2>1. binding'[t] = "Closed" /\ ~TakeOverTransport(t)
    BY <1>4, ClosedStays DEF TakeOverTransport
  <2>2. CloseTransport(t) => s \in to_stop'
    BY <1>0, <1>4 DEF CloseTransport
  <2>. QED
    BY <1>0, <1>2, <1>3, <1>4, <2>1, <2>2 DEF Listed
<1>5. CASE binding[t] = "AwaitingAttach" /\ fallback[t] = s /\ key[t] = s
  <2>1. ~TakeOverTransport(t) /\ \A c \in Callers : ~WriteAttach(c)
    BY <1>5, NothingBegins DEF TakeOverTransport
  <2>2. binding'[t] \in {"AwaitingAttach", "Closed"}
    BY <1>5, <2>1, AwaitingStays
  <2>3. CloseTransport(t) => s \in to_stop'
    BY <1>5 DEF CloseTransport
  <2>. QED
    BY <1>0, <1>2, <1>3, <1>5, <2>1, <2>2, <2>3 DEF Listed
<1>6. CASE binding[t] = "ConfirmedPending" /\ key[t] = s /\ link[t] = "up"
  <2>1. /\ holder[s] = t /\ inbox[t] = <<>> /\ Asked(t) \subseteq {<<"ack", s>>}
        /\ ServesOnly(t, s)
    BY <1>0, <1>6 DEF Startable
  <2>2. ~CloseTransport(t)
    BY <1>6 DEF CloseTransport
  <2>3. link'[t] = "up"
    BY <1>1, <1>6, <2>2, LinkInShutdown
  <2>4. binding'[t] # "Closed"
    <3>1. ~ReadPendingOver(t) /\ ~ReadOver(t) /\ ~ReadAttached(t) /\ ~ReadDetached(t)
          /\ ~ReadStopped(t) /\ ~ReadUnexpected(t)
      BY <2>1 DEF ReadPendingOver, ReadOver, ReadAttached, ReadDetached, ReadStopped,
         ReadUnexpected, Reads
    <3>. QED
      BY <1>1, <1>6, <2>2, <3>1, ClosedByReading
  <2>5. CASE TakeOverTransport(t)
    <3>1. Without(outbox[t], "stop") /\ Without(outbox[t], "detach") /\ AsksOnly(t, s)
      BY <2>1 DEF Without, AsksOnly, Asked
    <3>2. News(t) = {}
      BY <2>1, EntriesTyped DEF News, Typed
    <3>3. Serves(t, s) /\ WillHold(t, s)
      BY <1>6, <2>1, <3>1, <3>2 DEF Serves, WillHold
    <3>. QED
      BY <2>5, <3>1, <3>3, TakenInHand
  <2>6. CASE ~TakeOverTransport(t)
    <3>1. binding'[t] = "ConfirmedPending" /\ t \in to_quiesce'
      BY <1>2, <1>6, <2>2, <2>4, <2>6, BoundInShutdown
    <3>. QED
      BY <1>0, <1>6, <2>3, <3>1 DEF Listed
  <2>. QED
    BY <2>5, <2>6
<1>7. CASE /\ binding[t] \in {"Attaching", "Attached", "Detaching"} /\ fallback[t] = s
           /\ Serves(t, s)
           /\ Without(outbox[t], "stop")
           /\ binding[t] # "Detaching" => WillHold(t, s)
  <2>1. ~CloseTransport(t) /\ key[t] = s /\ link[t] = "up"
    BY <1>7 DEF CloseTransport, Serves
  <2>2. link'[t] = "up"
    BY <1>1, <1>7, <2>1, LinkInShutdown
  <2>3. CASE TakeOverTransport(t)
    BY <1>7, <2>3, TakenInHand
  <2>4. CASE binding'[t] = "Closed"
    <3>1. ~TakeOverTransport(t)
      BY <1>0, <2>4 DEF TakeOverTransport
    <3>2. t \in to_quiesce'
      BY <1>2, <2>1, <3>1
    <3>. QED
      BY <1>0, <1>7, <2>4, <3>2 DEF Listed
  <2>5. CASE ~TakeOverTransport(t) /\ binding'[t] # "Closed"
    <3>1. binding'[t] = binding[t] /\ t \in to_quiesce'
      BY <1>2, <1>7, <2>1, <2>5, BoundInShutdown
    <3>2. Serves(t, s)'
      BY <1>0, <1>1, <1>7, <2>2, ServesStep
    <3>3. Without(outbox'[t], "stop") /\ (WillHold(t, s) => WillHold(t, s)')
      BY <1>0, <1>1, <1>7, AskingStep
    <3>. QED
      BY <1>0, <1>7, <3>1, <3>2, <3>3 DEF Listed
  <2>. QED
    BY <2>3, <2>4, <2>5
<1>. QED
  BY <1>4, <1>5, <1>6, <1>7 DEF Listed

(* The shutdown goes on listening, unless a command takes the events.      *)
LEMMA SenderInShutdown ==
    ASSUME ManagerAssumption, Typed, NoRowAfterShutdown, LinksAreRegistered, BeginnersAreUnbound,
           shutting_down, Next, NEW t \in Transports, link[t] = "up", key[t] \in Sessions,
           key[t] \notin interrupted', binding[t] \notin {"AwaitingStart", "AwaitingAttach",
           "Closed"},
           event_sender[t] = Main, ~(FinishTransport /\ current = t)
    PROVE  event_sender'[t] = Main
<1>0. /\ event_sender \in [Transports -> Callers \union {Nobody, Main}]
      /\ \A c \in Callers : c # Main
      /\ t \in transports
  BY DEF Typed, TypeOK, ManagerAssumption, LinksAreRegistered
<1>1. ASSUME NEW c \in Callers, NEW left, Return(c, left) PROVE event_sender'[t] = Main
  BY <1>0, <1>1 DEF Return
<1>2. ASSUME NEW c \in Callers, TakeEventSlot(c) PROVE event_sender'[t] = Main
  BY <1>0, <1>2 DEF TakeEventSlot, MayInterrupt
<1>3. ASSUME NEW c \in Callers, Listen(c) PROVE event_sender'[t] = Main
  BY <1>0, <1>3 DEF Listen, BeginnersAreUnbound
<1>4. ASSUME NEW u \in Transports, TakeOverTransport(u) PROVE event_sender'[t] = Main
  BY <1>0, <1>4 DEF TakeOverTransport
<1>5. ASSUME NEW c \in Callers, NEW step, CloseUnlessShuttingDown(c, step)
      PROVE  event_sender'[t] = Main
  BY <1>1, <1>5 DEF CloseUnlessShuttingDown
<1>6. FinishTransport => event_sender'[t] = Main
  BY <1>0 DEF FinishTransport
<1>7. CASE event_sender' = event_sender
  BY <1>7
<1>8. ASSUME NEW c \in Callers,
             \/ CannotConnect(c) \/ HandshakeFails(c) \/ StartNotWritten(c) \/ HearStartFailed(c)
             \/ publish_pending(c) \/ StartLeftToOthers(c) \/ discard_pending(c)
             \/ DetachTooLate(c) \/ CloseMine(c) \/ HearAttached(c)
      PROVE  event_sender'[t] = Main
  BY <1>1, <1>8 DEF CannotConnect, HandshakeFails, StartNotWritten, HearStartFailed,
     publish_pending, StartLeftToOthers, discard_pending, DetachTooLate, CloseMine, HearAttached
<1>9. ASSUME NEW c \in Callers,
             HandshakeTooLate(c) \/ HearDetached(c) \/ WriteFailed(c) \/ HearAttachFailed(c)
      PROVE  event_sender'[t] = Main
  BY <1>5, <1>9 DEF HandshakeTooLate, HearDetached, WriteFailed, HearAttachFailed
<1>. QED
  BY <1>2, <1>3, <1>4, <1>6, <1>7, <1>8, <1>9, SenderMovers

(* What the shutdown asks of the connection that it took over.             *)
LEMMA StopWritten ==
    ASSUME ManagerAssumption, Typed, NoRowAfterShutdown, shutting_down, Next,
           NEW t \in Transports, NEW s \in Sessions, t = current, WriteStop, Serves(t, s),
           Without(outbox[t], "stop"), attach_first \/ WillHold(t, s)
    PROVE  /\ main' = "wait" /\ Serves(t, s)' /\ EndsInStop(outbox'[t]) /\ WillHold(t, s)'
<1> DEFINE w == outbox[t]
           attach == <<"attach", s>>
           stop == <<"stop", s>>
<1>0. /\ w \in Seq(Orders) /\ key[t] = s /\ link[t] = "up" /\ main' = "wait"
      /\ key' = key /\ link' = link /\ inbox' = inbox /\ holder' = holder /\ notify' = notify
      /\ outbox' = [outbox EXCEPT ![t] = w \o StopRequests]
      /\ AsksOnly(t, s) /\ ServesOnly(t, s)
  BY DEF WriteStop, Written, Serves, Typed, TypeOK, UnchangedByMain, remote
<1>1. outbox'[t] = w \o StopRequests
  BY <1>0 DEF Typed
<1>2. /\ attach \in Orders /\ stop \in Orders
      /\ attach_first => outbox'[t] = Append(Append(w, attach), stop)
      /\ ~attach_first => outbox'[t] = Append(w, stop)
  BY <1>0, <1>1, StopRequestsAdded
<1>3. /\ attach[1] = "attach" /\ stop[1] = "stop"
  OBVIOUS
<1>6. ServesOnly(t, s)' /\ \A news \in News(t)' : news[1] \in {"attached", "detached"}
  BY <1>0 DEF Serves, ServesOnly, News
<1>7. Entries(outbox'[t]) \subseteq Entries(w) \union {attach, stop} => AsksOnly(t, s)'
  <2>1. Entries(w) \union {attach, stop}
           \subseteq {<<"ack", s>>, <<"attach", s>>, <<"stop", s>>, PleaseDetach}
    BY <1>0 DEF AsksOnly, Asked
  <2>. QED
    BY <2>1 DEF AsksOnly, Asked, PleaseDetach
<1> HIDE DEF attach, stop, w
<1>4. CASE attach_first
  <2>1. Append(w, attach) \in Seq(Orders)
    BY <1>0, <1>2
  <2>2. Entries(outbox'[t]) = Entries(w) \union {attach, stop}
    <3>1. Entries(Append(Append(w, attach), stop)) = Entries(w) \union {attach, stop}
      BY <1>0, <1>2, EntriesOfTwo
    <3>2. outbox'[t] = Append(Append(w, attach), stop)
      BY <1>2, <1>4
    <3>. QED
      BY <3>1, <3>2, Zenon
  <2>3. Entries(Append(w, attach)) = Entries(w) \union {attach}
    BY <1>0, <1>2, EntriesOfAppend
  <2>4. Without(Append(w, attach), "stop")
    BY <1>3, <2>3 DEF Without, w
  <2>5. EndsInStop(Append(Append(w, attach), stop))
    BY <1>2, <1>3, <2>1, <2>4, StopAfterAppend
  <2>6. EndsAttached(Append(w, attach))
    BY <1>0, <1>2, <1>3, AttachedAfterAppend
  <2>7. EndsAttached(Append(Append(w, attach), stop))
    BY <1>2, <1>3, <2>1, <2>6, AttachedAfterAppend
  <2>8. AsksOnly(t, s)'
    BY <1>7, <2>2, Zenon
  <2>9. WillHold(t, s)' /\ EndsInStop(outbox'[t])
    BY <1>2, <1>4, <2>5, <2>7 DEF WillHold
  <2>. QED
    BY <1>0, <1>6, <2>8, <2>9 DEF Serves
<1>5. CASE ~attach_first
  <2>2. Entries(outbox'[t]) = Entries(w) \union {stop}
    <3>1. Entries(Append(w, stop)) = Entries(w) \union {stop}
      BY <1>0, <1>2, EntriesOfAppend
    <3>2. outbox'[t] = Append(w, stop)
      BY <1>2, <1>5
    <3>. QED
      BY <3>1, <3>2, Zenon
  <2>5. EndsInStop(Append(w, stop))
    BY <1>0, <1>2, <1>3, StopAfterAppend DEF w
  <2>6. EndsAttached(w) => EndsAttached(Append(w, stop))
    BY <1>0, <1>2, <1>3, AttachedAfterAppend
  <2>7. Without(w, "detach") => Without(outbox'[t], "detach")
    BY <1>3, <2>2 DEF Without
  <2>8. WillHold(t, s)'
    BY <1>0, <1>2, <1>5, <2>6, <2>7 DEF WillHold, w
  <2>9. AsksOnly(t, s)'
    BY <1>7, <2>2, Zenon
  <2>10. EndsInStop(outbox'[t])
    BY <1>2, <1>5, <2>5
  <2>. QED
    BY <1>0, <1>6, <2>8, <2>9, <2>10 DEF Serves
<1>. QED
  BY <1>4, <1>5 DEF Typed, TypeOK

(* A session in the shutdown's hands stays there until it has ended.       *)
LEMMA InHandStep ==
    ASSUME ManagerAssumption, "cut" \notin Happens, Typed, NoRowAfterShutdown, LinksAreRegistered,
           EndingIsClosed, MainListens, WorkersApart, PlanHolds, LosersAreCut,
           BeginnersAreUnbound, shutting_down, Next,
           NEW t \in Transports, NEW s \in Sessions, InHand(t, s),
           Live(s), Live(s)', s \notin given_up', s \notin interrupted'
    PROVE  InHand(t, s)'
<1>0. /\ t = current /\ binding[t] = "Stopping" /\ event_sender[t] = Main /\ events[Main] = <<>>
      /\ Serves(t, s) /\ link[t] = "up" /\ key[t] = s /\ main \in {"stop", "wait"}
      /\ inbox \in [Transports -> Seq(Answers)]
      /\ NoSession \notin Sessions
  BY DEF InHand, Serves, Typed, ManagerAssumption
<1>1. /\ \A r \in Sessions : worker[r] = "none" /\ worker_id[r] # t
      /\ ~FinishTransport /\ \A u \in Transports : ~CloseTransport(u) /\ ~TakeOverTransport(u)
  BY <1>0, WorkersElsewhere DEF FinishTransport, CloseTransport, TakeOverTransport, Quiesces
<1>2. link'[t] = "up"
  BY <1>0, <1>1, LinkInShutdown
<1>3. binding'[t] # "Closed"
  <2>1. ASSUME \/ ReadPendingOver(t) \/ ReadOver(t) \/ ReadAttached(t) \/ ReadDetached(t)
               \/ ReadStopped(t) \/ ReadUnexpected(t)
        PROVE  FALSE
    <3>1. /\ inbox[t] # <<>> /\ inbox' = [inbox EXCEPT ![t] = Tail(inbox[t])]
          /\ \/ Head(inbox[t])[1] \in SessionOver \union {"stopped"}
             \/ <<binding[t], Head(inbox[t])[1]>> \notin Expected
             \/ binding[t] \in {"Attaching", "Detaching"}
      BY <2>1 DEF ReadPendingOver, ReadOver, ReadAttached, ReadDetached, ReadStopped,
         ReadUnexpected, Reads
    <3>2. Head(inbox[t]) \in News(t)
      BY <1>0, <3>1, NewsOfReading
    <3>3. Head(inbox[t])[1] \in {"attached", "detached"}
      BY <1>0, <3>2 DEF Serves
    <3>. QED
      BY <1>0, <3>1, <3>3 DEF SessionOver, Expected
  <2>. QED
    BY <1>0, <1>1, <2>1, ClosedByReading
<1>4. binding'[t] = "Stopping"
  BY <1>0, <1>1, <1>3, BoundInShutdown
<1>5. event_sender'[t] = Main
  BY <1>0, <1>1, SenderInShutdown
<1>6. events'[Main] = <<>>
  <2>1. ASSUME NEW u \in Transports, event_sender[u] = Main PROVE u = t
    BY <1>0, <2>1 DEF MainListens
  <2>2. ~ReadEnd(t) /\ ~ReadStarted(t)
    BY <1>0 DEF ReadEnd, ReadStarted, Reads
  <2>3. binding \in [Transports -> Bindings]
    BY DEF Typed, TypeOK
  <2>4. ASSUME NEW c \in Callers, mine[c] = t, LoseTransport(c) PROVE FALSE
    BY <1>3, <2>3, <2>4 DEF LoseTransport, handle_transport_loss
  <2>5. ~ReadPendingOver(t) /\ ~ReadAttached(t) /\ ~ReadDetached(t)
    BY <1>0 DEF ReadPendingOver, ReadAttached, ReadDetached, Reads
  <2>6. ~ReadOver(t) /\ ~ReadStopped(t) /\ ~ReadUnexpected(t)
    BY <1>3, <2>3 DEF ReadOver, ReadStopped, ReadUnexpected, ReadsLast
  <2>. QED
    BY <1>0, <1>1, <2>1, <2>2, <2>4, <2>5, <2>6, HeardByMain
<1>7. CASE WriteStop
  <2>1. main = "stop" /\ Without(outbox[t], "stop") /\ (attach_first \/ WillHold(t, s))
    BY <1>7 DEF WriteStop, InHand
  <2>2. main' = "wait" /\ Serves(t, s)' /\ EndsInStop(outbox'[t]) /\ WillHold(t, s)'
    BY <1>0, <1>7, <2>1, StopWritten
  <2>3. current' = current
    BY <1>7 DEF WriteStop
  <2>. QED
    BY <1>0, <1>4, <1>5, <1>6, <2>2, <2>3 DEF InHand
<1>8. CASE ~WriteStop
  <2>1. main' = main /\ current' = current /\ attach_first' = attach_first
    <3>1. ~StopNotWritten /\ ~HearStopped
      BY <1>0 DEF StopNotWritten, WriteFails, HearStopped
    <3>2. ~StopWaiting
      BY <1>0 DEF StopWaiting, GivesUp
    <3>3. ~BeginShutdown /\ ~EndShutdown
      BY <1>0, NothingBegins DEF EndShutdown
    <3>4. \A r \in Sessions : ~SpawnWorker(r) /\ ~JoinWorker(r) /\ ~AbandonWorker(r)
      BY <1>0 DEF SpawnWorker, JoinWorker, AbandonWorker
    <3>. QED
      BY <1>1, <1>8, <3>1, <3>2, <3>3, <3>4, PlanMovers DEF plan
  <2>2. Without(outbox[t], "stop") \/ (EndsInStop(outbox[t]) /\ WillHold(t, s))
    BY DEF InHand
  <2>3. Serves(t, s)'
    BY <1>0, <1>2, <1>8, <2>2, ServesStep
  <2>4. /\ Without(outbox[t], "stop") => Without(outbox'[t], "stop")
        /\ EndsInStop(outbox[t]) => EndsInStop(outbox'[t])
        /\ WillHold(t, s) => WillHold(t, s)'
    BY <1>0, <1>8, <2>2, AskingStep
  <2>. QED
    BY <1>0, <1>4, <1>5, <1>6, <2>1, <2>3, <2>4 DEF InHand
<1>. QED
  BY <1>7, <1>8

(* A worker moves itself, with the connection it was given.                *)
LEMMA OwnWorker ==
    ASSUME ManagerAssumption, Typed, Next, NEW s \in Sessions
    PROVE  /\ \/ worker'[s] = worker[s] \/ SpawnWorker(s)
              \/ WorkerBegins(s) \/ WorkerConnects(s) \/ WorkerCannotConnect(s) \/ WorkerStops(s)
              \/ WorkerAttaches(s) \/ WorkerReads(s, "read_attach", "attached", "stop")
              \/ WorkerReads(s, "read_stop", "stopped", "finish") \/ WorkerRequestsStop(s)
              \/ WorkerFinishes(s)
           /\ worker_id'[s] = worker_id[s] \/ SpawnWorker(s)
<1>0. /\ DOMAIN worker = Sessions /\ DOMAIN worker_id = Sessions
      /\ worker = [r \in Sessions |-> worker[r]] /\ worker_id = [r \in Sessions |-> worker_id[r]]
  BY DEF Typed, TypeOK
<1>1. ASSUME NEW r \in Sessions, r # s, SpawnWorker(r)
      PROVE  worker'[s] = worker[s] /\ worker_id'[s] = worker_id[s]
  BY <1>0, <1>1 DEF SpawnWorker
<1>2. ASSUME NEW r \in Sessions, AbandonWorker(r)
      PROVE  worker'[s] = worker[s] /\ worker_id'[s] = worker_id[s]
  BY <1>2 DEF AbandonWorker
<1>3. ASSUME NEW r \in Sessions,
             \/ WorkerBegins(r) \/ WorkerConnects(r) \/ WorkerCannotConnect(r) \/ WorkerStops(r)
             \/ WorkerAttaches(r) \/ WorkerReads(r, "read_attach", "attached", "stop")
             \/ WorkerReads(r, "read_stop", "stopped", "finish") \/ WorkerRequestsStop(r)
             \/ WorkerFinishes(r)
      PROVE  worker_id'[s] = worker_id[s] /\ (r # s => worker'[s] = worker[s])
  BY <1>0, <1>3 DEF WorkerBegins, WorkerConnects, WorkerCannotConnect, WorkerStops, WorkerAttaches,
     WorkerReads, WorkerRequestsStop, WorkerFinishes, WorkerWrites, WorkerGoes, UnchangedByWorker
<1>4. CASE UNCHANGED workers
  BY <1>4 DEF workers
<1>. QED
  BY <1>1, <1>2, <1>3, <1>4, WorkerMovers

(* The shutdown waits for a worker until it has ended or its time is over. *)
LEMMA ToStopStep ==
    ASSUME ManagerAssumption, Typed, NoRowAfterShutdown, shutting_down, Next, NEW s \in Sessions,
           s \in to_stop, s \notin given_up', worker[s] # "done"
    PROVE  s \in to_stop'
<1>1. ASSUME NEW t \in Transports, CloseTransport(t) PROVE s \in to_stop'
  BY <1>1 DEF CloseTransport
<1>2. ASSUME NEW t \in Transports, TakeOverTransport(t) PROVE s \in to_stop'
  BY <1>2 DEF TakeOverTransport
<1>3. ASSUME NEW r \in Sessions, SpawnWorker(r) \/ JoinWorker(r) \/ AbandonWorker(r)
      PROVE  s \in to_stop'
  BY <1>3 DEF SpawnWorker, JoinWorker, AbandonWorker, GivesUp
<1>4. ~BeginShutdown
  BY NothingBegins
<1>5. CASE \/ WriteStop \/ StopNotWritten \/ HearStopped \/ StopWaiting
           \/ FinishTransport \/ EndShutdown
  BY <1>5 DEF WriteStop, StopNotWritten, HearStopped, StopWaiting, FinishTransport, EndShutdown
<1>6. CASE UNCHANGED plan
  BY <1>6 DEF plan
<1>. QED
  BY <1>1, <1>2, <1>3, <1>4, <1>5, <1>6, PlanMovers

(* What happens on the connection of a worker.                             *)
LEMMA WorkersWire ==
    ASSUME ManagerAssumption, "cut" \notin Happens, Typed, NoRowAfterShutdown, WorkersApart,
           PlanHolds, shutting_down, Next, NEW s \in Sessions, NEW w \in Transports,
           w = worker_id[s], worker[s] \in {"check", "read_attach", "stop", "read_stop"},
           link[w] = "up", ServesOnly(w, s), Live(s), Live(s)', s \notin given_up',
           outbox[w] \in {<<>>, <<<<"attach", s>>>>, <<<<"stop", s>>>>}
    PROVE  /\ link'[w] = "up" /\ ServesOnly(w, s)'
           /\ holder[s] = w => holder'[s] = w
           /\ \/ outbox'[w] = outbox[w] \/ BrokerAttaches(w) \/ BrokerStops(w)
              \/ WorkerAttaches(s) \/ WorkerRequestsStop(s)
           /\ \/ inbox'[w] = inbox[w] \/ BrokerAttaches(w) \/ BrokerStops(w)
              \/ WorkerReads(s, "read_attach", "attached", "stop")
              \/ WorkerReads(s, "read_stop", "stopped", "finish")
<1>0. /\ \A c \in Callers : mine[c] # w
      /\ \A r \in Sessions : worker_id[r] = w => r = s
      /\ reader[w] = "none" /\ to_quiesce = {} /\ main \in {"quiesce", "watch", "done"}
      /\ stage[s] \in {"unconfirmed", "confirmed"} /\ stage'[s] # "ended"
  <2>1. \A c \in Callers : mine[c] # w
    BY DEF WorkersApart
  <2>2. ASSUME NEW r \in Sessions, worker_id[r] = w PROVE r = s
    <3>1. worker[r] # "none"
      BY <2>2, TransportIds DEF PlanHolds
    <3>. QED
      BY <2>2, <3>1 DEF WorkersApart
  <2>. QED
    BY <2>1, <2>2 DEF WorkersApart, Live
<1>1. link'[w] = "up"
  <2>1. ~FinishReader(w) /\ ~ConnectionCut(w) /\ ~CloseTransport(w) /\ ~FinishTransport
    BY <1>0 DEF FinishReader, ConnectionCut, CloseTransport, Quiesces, FinishTransport
  <2>2. ~AbandonWorker(s) /\ ~WorkerConnects(s) /\ ~WorkerFinishes(s)
    BY DEF AbandonWorker, GivesUp, WorkerConnects, WorkerFinishes
  <2>. QED
    BY <1>0, <2>1, <2>2, LinkSteps
<1>2. ASSUME NEW request, Requested(w, request)
      PROVE  request \in {"attach", "stop"} /\ Head(outbox[w]) = <<request, s>>
  <2>1. outbox[w] # <<>> /\ Head(outbox[w])[1] = request
    BY <1>2 DEF Requested
  <2>. QED
    BY <2>1
<1>3. ~BrokerStarts(w) /\ ~BrokerConfirms(w) /\ ~BrokerDetaches(w)
  BY <1>2 DEF BrokerStarts, BrokerConfirms, BrokerDetaches
<1>4. BrokerAttaches(w) => Head(outbox[w]) = <<"attach", s>>
  BY <1>2 DEF BrokerAttaches
<1>5. ASSUME NEW r \in Sessions PROVE notify'[r] # w /\ (holder'[r] = w => r = s)
  <2>1. notify[r] # w /\ (holder[r] = w => r = s)
    BY DEF ServesOnly
  <2>2. holder'[r] = w /\ holder[r] # w => r = s
    BY <1>3, <1>4, HolderSteps
  <2>3. notify'[r] = w => holder[r] = w /\ stage'[r] = "ended"
    BY <2>1, HolderSteps
  <2>. QED
    BY <1>0, <2>1, <2>2, <2>3
<1>6. holder[s] = w => holder'[s] = w
  BY <1>0, <1>3, HolderSteps
<1>7. \/ outbox'[w] = outbox[w] \/ BrokerAttaches(w) \/ BrokerStops(w)
      \/ WorkerAttaches(s) \/ WorkerRequestsStop(s)
  <2>1. ~WriteStop
    BY <1>0 DEF WriteStop
  <2>. QED
    BY <1>0, <1>3, <2>1, OutboxSteps
<1>8. \/ inbox'[w] = inbox[w] \/ BrokerAttaches(w) \/ BrokerStops(w)
      \/ WorkerReads(s, "read_attach", "attached", "stop")
      \/ WorkerReads(s, "read_stop", "stopped", "finish")
  <2>1. ~ReadStarted(w) /\ ~ReadPendingOver(w) /\ ~ReadOver(w) /\ ~ReadAttached(w)
        /\ ~ReadDetached(w) /\ ~ReadWhileStopping(w) /\ ~ReadStopped(w) /\ ~ReadUnexpected(w)
    BY <1>0 DEF ReadStarted, ReadPendingOver, ReadOver, ReadAttached, ReadDetached,
       ReadWhileStopping, ReadStopped, ReadUnexpected, Reads
  <2>2. ~BrokerDelivers(w)
    BY <1>0 DEF BrokerDelivers, Lease!Deliver, Lease!Move, ServesOnly
  <2>3. \A r \in Sessions : notify[r] # w
    BY DEF ServesOnly
  <2>. QED
    BY <1>0, <1>1, <1>3, <2>1, <2>2, <2>3, InboxSteps
<1>. QED
  BY <1>1, <1>5, <1>6, <1>7, <1>8 DEF ServesOnly

(* A worker that has its connection gets the agent stopped.                *)
LEMMA ProgressStep ==
    ASSUME ManagerAssumption, "cut" \notin Happens, Typed, NoRowAfterShutdown, FreshIsQuiet,
           WorkersApart, CancelledAreGivenUp, PlanHolds, shutting_down, Next,
           NEW s \in Sessions, NEW w \in Transports, w = worker_id[s], worker[s] # "none",
           Progress(w, s), Live(s), Live(s)', s \notin given_up'
    PROVE  worker_id'[s] = w /\ Progress(w, s)'
<1>0. /\ s \notin cancelled /\ ~SpawnWorker(s) /\ worker_id'[s] = w
      /\ worker \in [Sessions -> {"none", "begin", "connect", "check", "read_attach", "stop",
                                  "read_stop", "finish", "done"}]
      /\ stage[s] # "ended" /\ stage'[s] # "ended"
      /\ outbox \in [Transports -> Seq(Orders)] /\ inbox \in [Transports -> Seq(Answers)]
      /\ link \in [Transports -> {"none", "up", "cut", "reaped"}]
      /\ transports \subseteq Transports
  BY OwnWorker, KeptInShutdown DEF CancelledAreGivenUp, SpawnWorker, Typed, TypeOK, Live
<1>1. CASE worker[s] \in {"begin", "connect"}
  <2>1. CASE worker'[s] = worker[s]
    BY <1>0, <1>1, <2>1 DEF Progress
  <2>2. CASE WorkerBegins(s)
    BY <1>0, <2>2 DEF WorkerBegins, WorkerGoes, Progress
  <2>3. CASE WorkerConnects(s)
    <3>1. Quiet(w)
      BY <1>1 DEF WorkersApart, FreshIsQuiet
    <3>2. outbox[w] = <<>> /\ inbox[w] = <<>> /\ ServesOnly(w, s)
      BY <1>0, <3>1, EntriesTyped DEF Quiet, News, ServesOnly
    <3>3. /\ worker'[s] = "check" /\ link'[w] = "up" /\ outbox' = outbox /\ inbox' = inbox
          /\ holder' = holder /\ notify' = notify
      BY <1>0, <2>3 DEF WorkerConnects, WorkerGoes, wire, UnchangedByWorker, remote
    <3>. QED
      BY <1>0, <3>2, <3>3 DEF Progress, ServesOnly
  <2>4. ~WorkerCannotConnect(s)
    BY DEF WorkerCannotConnect, GivesUp
  <2>5. /\ ~WorkerStops(s) /\ ~WorkerAttaches(s) /\ ~WorkerRequestsStop(s) /\ ~WorkerFinishes(s)
        /\ ~WorkerReads(s, "read_attach", "attached", "stop")
        /\ ~WorkerReads(s, "read_stop", "stopped", "finish")
    BY <1>1 DEF WorkerStops, WorkerAttaches, WorkerRequestsStop, WorkerWrites, WorkerFinishes,
       WorkerReads
  <2>. QED
    BY <1>0, <2>1, <2>2, <2>3, <2>4, <2>5, OwnWorker
<1>2. CASE worker[s] \notin {"begin", "connect"}
  <2>0. /\ worker[s] \in {"check", "read_attach", "stop", "read_stop"}
        /\ link[w] = "up" /\ ServesOnly(w, s)
        /\ outbox[w] \in {<<>>, <<<<"attach", s>>>>, <<<<"stop", s>>>>}
    BY <1>2 DEF Progress
  <2>1. /\ link'[w] = "up" /\ ServesOnly(w, s)'
        /\ holder[s] = w => holder'[s] = w
        /\ \/ outbox'[w] = outbox[w] \/ BrokerAttaches(w) \/ BrokerStops(w)
           \/ WorkerAttaches(s) \/ WorkerRequestsStop(s)
        /\ \/ inbox'[w] = inbox[w] \/ BrokerAttaches(w) \/ BrokerStops(w)
           \/ WorkerReads(s, "read_attach", "attached", "stop")
           \/ WorkerReads(s, "read_stop", "stopped", "finish")
    BY <2>0, WorkersWire
  <2>2. CASE BrokerAttaches(w)
    <3>1. /\ outbox[w] # <<>> /\ Head(outbox[w])[1] = "attach" /\ outbox'[w] = Tail(outbox[w])
          /\ worker'[s] = worker[s]
      BY <1>0, <2>2 DEF BrokerAttaches, Requested, UnchangedByRequests, workers
    <3>2. outbox[w] = <<<<"attach", s>>>>
      BY <2>0, <3>1
    <3>3. worker[s] = "read_attach" /\ inbox[w] = <<>>
      BY <1>2, <3>2 DEF Progress
    <3>4. Head(outbox[w]) = <<"attach", s>> /\ outbox'[w] = <<>>
      BY <3>1, <3>2
    <3>5. Lease!Take(s, w) /\ Replied(w, "attached", s)
      BY <1>0, <2>2, <3>4 DEF BrokerAttaches
    <3>6. holder'[s] = w
      BY <3>5 DEF Lease!Take, Typed, TypeOK, Lease!TypeOK
    <3>7. inbox'[w] = <<<<"attached", s>>>>
      BY <1>0, <2>0, <3>3, <3>5 DEF Replied
    <3>. QED
      BY <1>0, <2>1, <3>1, <3>3, <3>4, <3>6, <3>7 DEF Progress
  <2>3. ~BrokerStops(w)
    <3>1. ASSUME BrokerStops(w) PROVE FALSE
      <4>1. outbox[w] # <<>> /\ Head(outbox[w])[1] = "stop"
        BY <3>1 DEF BrokerStops, Requested
      <4>2. outbox[w] = <<<<"stop", s>>>>
        BY <2>0, <4>1
      <4>3. holder[s] = w
        BY <1>2, <4>2 DEF Progress
      <4>4. Head(outbox[w])[2] = s
        BY <4>2
      <4>5. Lease!End(s)
        BY <3>1, <4>3, <4>4 DEF BrokerStops
      <4>. QED
        BY <1>0, <4>5 DEF Lease!End, Typed, TypeOK, Lease!TypeOK
    <3>. QED
      BY <3>1
  <2>4. CASE WorkerAttaches(s)
    <3>1. /\ worker[s] = "check" /\ worker'[s] = "read_attach" /\ inbox' = inbox
          /\ outbox'[w] = outbox[w] \o <<<<"attach", s>>>>
      <4>1. WorkerWrites(s, "check", "attach", "read_attach")
        BY <2>4 DEF WorkerAttaches
      <4>2. Written(w, <<<<"attach", s>>>>) /\ WorkerGoes(s, "read_attach")
        BY <2>0, <4>1 DEF WorkerWrites, WriteFails
      <4>3. outbox' = [outbox EXCEPT ![w] = @ \o <<<<"attach", s>>>>]
        BY <2>0, <4>2 DEF Written
      <4>. QED
        BY <1>0, <4>1, <4>2, <4>3 DEF WorkerWrites, WorkerGoes
    <3>2. outbox[w] = <<>> /\ inbox[w] = <<>>
      BY <3>1 DEF Progress
    <3>3. outbox'[w] = <<<<"attach", s>>>>
      BY <3>1, <3>2
    <3>. QED
      BY <1>0, <2>1, <3>1, <3>2, <3>3 DEF Progress
  <2>5. CASE WorkerRequestsStop(s)
    <3>1. /\ worker[s] = "stop" /\ worker'[s] = "read_stop" /\ inbox' = inbox
          /\ outbox'[w] = outbox[w] \o <<<<"stop", s>>>>
      <4>1. WorkerWrites(s, "stop", "stop", "read_stop")
        BY <2>5 DEF WorkerRequestsStop
      <4>2. Written(w, <<<<"stop", s>>>>) /\ WorkerGoes(s, "read_stop")
        BY <2>0, <4>1 DEF WorkerWrites, WriteFails
      <4>3. outbox' = [outbox EXCEPT ![w] = @ \o <<<<"stop", s>>>>]
        BY <2>0, <4>2 DEF Written
      <4>. QED
        BY <1>0, <4>1, <4>2, <4>3 DEF WorkerWrites, WorkerGoes
    <3>2. outbox[w] = <<>> /\ inbox[w] = <<>> /\ holder[s] = w
      BY <3>1 DEF Progress
    <3>3. outbox'[w] = <<<<"stop", s>>>>
      BY <3>1, <3>2
    <3>. QED
      BY <1>0, <2>1, <3>1, <3>2, <3>3 DEF Progress
  <2>6. CASE WorkerReads(s, "read_attach", "attached", "stop")
    <3>1. /\ worker[s] = "read_attach" /\ outbox' = outbox
          /\ inbox[w] # <<>> /\ inbox'[w] = Tail(inbox[w])
          /\ Head(inbox[w])[1] = "attached" => worker'[s] = "stop"
      BY <1>0, <1>2, <2>0, <2>6 DEF WorkerReads, WorkerGoes
    <3>2. outbox[w] = <<>> /\ inbox[w] = <<<<"attached", s>>>> /\ holder[s] = w
      BY <3>1 DEF Progress
    <3>3. Head(inbox[w])[1] = "attached" /\ Tail(inbox[w]) = <<>>
      BY <3>2
    <3>. QED
      BY <1>0, <2>1, <3>1, <3>2, <3>3 DEF Progress
  <2>7. ~WorkerReads(s, "read_stop", "stopped", "finish")
    BY <1>0, <1>2, <2>0 DEF WorkerReads, Progress
  <2>8. ~WorkerBegins(s) /\ ~WorkerConnects(s) /\ ~WorkerCannotConnect(s) /\ ~WorkerStops(s)
        /\ ~WorkerFinishes(s)
    BY <1>0, <2>0 DEF WorkerBegins, WorkerConnects, WorkerCannotConnect, WorkerStops, WorkerFinishes
  <2>9. CASE worker'[s] = worker[s] /\ outbox'[w] = outbox[w] /\ inbox'[w] = inbox[w]
    BY <1>0, <1>2, <2>0, <2>1, <2>9 DEF Progress
  <2>. QED
    BY <1>0, <2>1, <2>2, <2>3, <2>4, <2>5, <2>6, <2>7, <2>8, <2>9, OwnWorker
<1>. QED
  BY <1>1, <1>2

(* An agent that a worker is to stop stays one until it has.               *)
LEMMA AwaitedStep ==
    ASSUME ManagerAssumption, "cut" \notin Happens, Typed, NoRowAfterShutdown, FreshIsQuiet,
           WorkersApart, CancelledAreGivenUp, PlanHolds, shutting_down, Next,
           NEW s \in Sessions, Awaited(s), Live(s), Live(s)', s \notin given_up'
    PROVE  Awaited(s)'
<1>1. s \in to_stop'
  BY ToStopStep DEF Awaited, Progress
<1>2. CASE worker[s] = "none"
  <2>1. worker'[s] = worker[s] \/ SpawnWorker(s)
    BY <1>2, OwnWorker DEF WorkerBegins, WorkerConnects, WorkerCannotConnect, WorkerStops,
       WorkerAttaches, WorkerReads, WorkerRequestsStop, WorkerFinishes, WorkerWrites
  <2>2. SpawnWorker(s) => worker'[s] = "begin"
    BY DEF SpawnWorker, Typed, TypeOK
  <2>. QED
    BY <1>1, <1>2, <2>1, <2>2 DEF Awaited, Progress
<1>3. CASE worker[s] # "none"
  <2>1. worker_id[s] \in Transports /\ Progress(worker_id[s], s)
    BY <1>3 DEF Typed, Awaited
  <2> DEFINE w == worker_id[s]
  <2>2. worker_id'[s] = w /\ Progress(w, s)'
    BY <1>3, <2>1, ProgressStep
  <2>. QED
    BY <1>1, <2>2 DEF Awaited
<1>. QED
  BY <1>2, <1>3

(* An agent is one that the shutdown must stop from when its start is      *)
(* acknowledged, and its connection is then on the list.                   *)
LEMMA AgentsStep ==
    ASSUME ManagerAssumption, "cut" \notin Happens, Typed, NoRowAfterShutdown, LinksAreRegistered,
           SettledBeforeShutdown, EndingIsClosed, MainListens, FreshIsQuiet, WorkersApart,
           CancelledAreGivenUp, PlanHolds, AcksAreDue, LosersAreCut, ReachedInShutdown,
           shutting_down, Next
    PROVE  AgentsAreReached'
<1>1. SUFFICES ASSUME NEW s \in Sessions, Live(s)', s \notin given_up', s \notin interrupted'
               PROVE  Reached(s)'
  BY DEF AgentsAreReached
<1>2. /\ BeginnersAreUnbound /\ ConfirmersKnow /\ AgentsAreReached
      /\ \A t \in Transports : Startable(t)
      /\ s \notin given_up \union interrupted
  BY <1>1, KeptInShutdown DEF ReachedInShutdown
<1>3. CASE Live(s)
  <2>1. Reached(s)
    BY <1>2, <1>3 DEF AgentsAreReached
  <2>2. ASSUME NEW t \in Transports, Listed(t, s) PROVE Reached(s)'
    <3>1. Listed(t, s)' \/ InHand(t, s)' \/ Awaited(s)'
      BY <1>1, <1>2, <1>3, <2>2, ListedStep
    <3>. QED
      BY <3>1 DEF Reached
  <2>3. ASSUME NEW t \in Transports, InHand(t, s) PROVE Reached(s)'
    <3>1. InHand(t, s)'
      BY <1>1, <1>2, <1>3, <2>3, InHandStep
    <3>. QED
      BY <3>1 DEF Reached
  <2>4. CASE Awaited(s)
    <3>1. Awaited(s)'
      BY <1>1, <1>3, <2>4, AwaitedStep
    <3>. QED
      BY <3>1 DEF Reached
  <2>. QED
    BY <2>1, <2>2, <2>3, <2>4 DEF Reached
<1>4. CASE ~Live(s)
  <2>1. stage'[s] # "confirmed"
    <3>1. ASSUME stage'[s] = "confirmed" PROVE FALSE
      <4>1. stage[s] = "unconfirmed"
            /\ \E t \in Transports : BrokerConfirms(t) /\ Head(outbox[t]) = <<"ack", s>>
        BY <1>4, <3>1, StageSteps DEF Live
      <4>2. PICK t \in Transports : BrokerConfirms(t) /\ Head(outbox[t]) = <<"ack", s>>
        BY <4>1
      <4>3. <<"ack", s>> \in Asked(t)
        <5>1. Requested(t, "ack") /\ outbox \in [Transports -> Seq(Orders)]
          BY <4>2 DEF BrokerConfirms, Typed
        <5>2. Asked(t) = {Head(outbox[t])} \union Asked(t)'
          BY <5>1, AskedWhenTaken
        <5>. QED
          BY <4>2, <5>2
      <4>. QED
        BY <1>4, <4>1, <4>3 DEF Live, Acknowledged
    <3>. QED
      BY <3>1
  <2>2. stage'[s] = "unconfirmed" /\ Acknowledged(s)'
    BY <1>1, <2>1 DEF Live
  <2>3. stage[s] \in {"starting", "unconfirmed"}
    BY <2>2, StageOnwards
  <2>4. ~Acknowledged(s)
    BY <1>4, <2>3 DEF AcksAreDue, Live
  <2>5. PICK c \in Callers : /\ confirm_pending(c) /\ at[c] = s
                             /\ mine[c] \in Transports /\ link[mine[c]] = "up"
    BY <2>2, <2>4, AckWritten
  <2>t. PICK t \in Transports : t = mine[c]
    BY <2>5
  <2>6. /\ key[t] = s /\ binding[t] = "Pending" /\ binding'[t] = "ConfirmedPending"
        /\ to_quiesce' = to_quiesce /\ link' = link /\ key' = key
    BY <1>2, <2>5, <2>t DEF confirm_pending, ConfirmersKnow, UnchangedElsewhere, UnchangedByCommands,
       plan,
       Typed, TypeOK
  <2>7. t \in to_quiesce
    BY <1>2, <2>5, <2>6, <2>t DEF Startable
  <2>8. Listed(t, s)'
    BY <2>5, <2>6, <2>7, <2>t DEF Listed
  <2>. QED
    BY <2>8 DEF Reached
<1>. QED
  BY <1>3, <1>4

-----------------------------------------------------------------------------
(* The beginning of the shutdown. *)

(* Nothing is said to be over on the connection of a session that is not.  *)
LEMMA ServesItsSession ==
    ASSUME ManagerAssumption, Typed, InStep, NEW t \in Transports, NEW s \in Sessions,
           key[t] = s, stage[s] # "ended"
    PROVE  /\ ServesOnly(t, s)
           /\ \A news \in News(t) : news[1] \notin SessionOver
<1>0. /\ inbox[t] \in Seq(Answers) /\ t # None /\ NoSession \notin Sessions
      /\ EndsAreTrue /\ OneSession
  BY TransportIds DEF Typed, InStep, ManagerAssumption
<1>1. ASSUME NEW r \in Sessions PROVE notify[r] # t /\ (holder[r] = t => r = s)
  <2>1. Concerns(t, r) => r = s
    BY <1>0 DEF OneSession
  <2>. QED
    BY <1>0, <2>1 DEF Concerns, EndsAreTrue
<1>2. ASSUME NEW news \in News(t), news[1] \in SessionOver PROVE FALSE
  <2>1. news \in Answers
    BY <1>0, <1>2, EntriesTyped DEF News
  <2>2. news = <<news[1], news[2]>> /\ news[1] \in Replies
    BY <2>1 DEF Answers, Replies
  <2>3. news[2] \in Sessions /\ stage[news[2]] = "ended"
    BY <1>0, <1>2 DEF EndsAreTrue
  <2>4. Concerns(t, news[2])
    BY <1>2, <2>2 DEF Concerns
  <2>. QED
    BY <1>0, <2>3, <2>4 DEF OneSession
<1>. QED
  BY <1>1, <1>2 DEF ServesOnly

(* What the desktop believes of a session that is not over is true.        *)
LEMMA HoldsItsSession ==
    ASSUME ManagerAssumption, Typed, InStep, NEW t \in Transports, NEW s \in Sessions,
           key[t] = s, stage[s] # "ended", link[t] = "up", Believed(t, s)
    PROVE  holder[s] = t /\ stage[s] \in {"unconfirmed", "confirmed"}
<1>1. Leased(t, s)
  BY DEF InStep, BeliefsAreLeases
<1>2. notify[s] # t /\ \A reply \in SessionOver : <<reply, s>> \notin News(t)
  BY ServesItsSession DEF ServesOnly
<1>. QED
  BY <1>1, <1>2 DEF Leased

(* A connection that runs is that of one row.                              *)
LEMMA OwnedByOne ==
    ASSUME ManagerAssumption, Typed, Settled, IdleRows, NEW t \in Transports, NEW s \in Sessions,
           key[t] = s, link[t] = "up", s \in Owned(t)
    PROVE  Owned(t) = {s}
<1>1. ASSUME NEW r \in Owned(t) PROVE r = s
  <2>0. t # None
    BY TransportIds
  <2>1. /\ r \in Sessions /\ Published(records[r])
        /\ t = records[r].transport \/ t = records[r].transition
    BY <1>1 DEF Owned
  <2>2. CASE t = records[r].transport
    BY <2>0, <2>1, <2>2 DEF IdleRows, Settled, RowsAreBound, Backed, Published
  <2>3. CASE t = records[r].transition
    <3>1. PICK c \in Callers : mine[c] = t /\ Reserving(c, r)
      BY <2>0, <2>1, <2>3 DEF Settled, ReservationsAreHeld
    <3>2. pc[c] # "connect"
      BY <3>1 DEF Settled, IdsAreFresh, Unused
    <3>. QED
      BY <3>1, <3>2 DEF Reserving
  <2>. QED
    BY <2>1, <2>2, <2>3
<1>. QED
  BY <1>1

(* What the shutdown finds of the starts under way ...                     *)
LEMMA StartsAtFirst ==
    ASSUME ManagerAssumption, Typed, Settled, InStep, LinksAreRegistered, WireIsTidy, BeginShutdown,
           NEW t \in Transports
    PROVE  Startable(t)'
<1>1. SUFFICES ASSUME binding[t] \in {"Pending", "ConfirmedPending"}, link[t] = "up"
               PROVE  /\ t \in transports
                      /\ \/ stage[key[t]] = "ended"
                         \/ /\ holder[key[t]] = t
                            /\ stage[key[t]] \in {"unconfirmed", "confirmed"}
                            /\ inbox[t] = <<>>
                            /\ Asked(t) \subseteq {<<"ack", key[t]>>}
                            /\ ServesOnly(t, key[t])
  <2>1. /\ binding' = binding /\ link' = link /\ to_quiesce' = transports /\ stage' = stage
        /\ key' = key /\ holder' = holder /\ notify' = notify /\ inbox' = inbox /\ outbox' = outbox
    BY DEF BeginShutdown, conns, remote, wire
  <2>. QED
    BY <1>1, <2>1 DEF Startable, Asked, ServesOnly
<1>2. key[t] \in Sessions /\ t \in transports /\ inbox[t] \in Seq(Answers)
  BY <1>1 DEF Typed, TypeOK, Unkeyed, LinksAreRegistered
<1>3. CASE stage[key[t]] # "ended"
  <2>1. Believed(t, key[t])
    BY <1>1 DEF Believed
  <2>2. holder[key[t]] = t /\ stage[key[t]] \in {"unconfirmed", "confirmed"}
    BY <1>1, <1>2, <1>3, <2>1, HoldsItsSession
  <2>3. ServesOnly(t, key[t]) /\ \A news \in News(t) : news[1] \notin SessionOver
    BY <1>2, <1>3, ServesItsSession
  <2>4. /\ Asked(t) \subseteq {<<"ack", key[t]>>}
        /\ \A news \in News(t) : news[1] \in SessionOver
    BY <1>1 DEF WireIsTidy, Tidy, PendingTidy
  <2>5. inbox[t] = <<>>
    BY <1>2, <2>3, <2>4, EntriesTyped DEF News
  <2>. QED
    BY <1>2, <2>2, <2>3, <2>4, <2>5
<1>. QED
  BY <1>2, <1>3

(* ... of a connection that shows a session or attaches it ...             *)
LEMMA ServesAtFirst ==
    ASSUME ManagerAssumption, Typed, InStep, WireIsTidy, NEW t \in Transports, NEW s \in Sessions,
           key[t] = s, stage[s] # "ended", link[t] = "up", ~Refused(s),
           binding[t] \in {"Attaching", "Attached", "Detaching"}
    PROVE  /\ Serves(t, s) /\ Without(outbox[t], "stop")
           /\ binding[t] # "Detaching" => WillHold(t, s)
<1>0. /\ inbox[t] \in Seq(Answers) /\ outbox[t] \in Seq(Orders)
      /\ Tidy(t) /\ ServesOnly(t, s) /\ \A news \in News(t) : news[1] \notin SessionOver
  BY ServesItsSession DEF Typed, WireIsTidy
<1>1. CASE binding[t] = "Attached"
  <2>1. Asked(t) \subseteq {<<"ack", s>>} /\ News(t) = {}
    BY <1>0, <1>1 DEF Tidy, PendingTidy
  <2>2. holder[s] = t
    BY <1>1, HoldsItsSession DEF Believed
  <2>3. Without(outbox[t], "stop") /\ Without(outbox[t], "detach") /\ AsksOnly(t, s)
    BY <2>1 DEF Without, AsksOnly, Asked
  <2>. QED
    BY <1>0, <2>1, <2>2, <2>3 DEF Serves, WillHold
<1>2. CASE binding[t] = "Detaching"
  <2>1. /\ Asked(t) \subseteq {<<"ack", s>>, PleaseDetach}
        /\ \A news \in News(t) : news[1] = "detached"
    BY <1>0, <1>2 DEF Tidy, DetachTidy
  <2>2. Without(outbox[t], "stop") /\ AsksOnly(t, s)
    BY <2>1 DEF Without, AsksOnly, Asked, PleaseDetach
  <2>. QED
    BY <1>0, <1>2, <2>1, <2>2 DEF Serves
<1>3. CASE binding[t] = "Attaching" /\ outbox[t] # <<>>
  <2>1. outbox[t] = <<<<"attach", s>>>> /\ News(t) = {}
    BY <1>0, <1>3 DEF Tidy, AttachTidy
  <2>2. Asked(t) = {<<"attach", s>>}
    BY <2>1 DEF Asked, Entries
  <2>3. Without(outbox[t], "stop") /\ AsksOnly(t, s)
    BY <2>2 DEF Without, AsksOnly, Asked
  <2>4. EndsAttached(outbox[t])
    <3>1. Len(outbox[t]) = 1 /\ outbox[t][1][1] = "attach"
      BY <2>1
    <3>. QED
      BY <3>1 DEF EndsAttached
  <2>. QED
    BY <1>0, <2>1, <2>3, <2>4 DEF Serves, WillHold
<1>4. CASE binding[t] = "Attaching" /\ outbox[t] = <<>>
  <2>1. /\ News(t) # {}
        /\ \A news \in News(t) : news \in {"attached", "rejected"} \X {s}
    BY <1>0, <1>4 DEF Tidy, AttachTidy
  <2>2. <<"rejected", s>> \notin News(t)
    BY DEF Refused, News, Entries
  <2>3. \A news \in News(t) : news = <<"attached", s>>
    BY <2>1, <2>2
  <2>4. Believed(t, s)
    BY <1>4, <2>1, <2>3 DEF Believed
  <2>5. holder[s] = t
    BY <2>4, HoldsItsSession
  <2>6. Asked(t) = {}
    BY <1>4, QuietWire
  <2>7. Without(outbox[t], "stop") /\ Without(outbox[t], "detach") /\ AsksOnly(t, s)
    BY <2>6 DEF Without, AsksOnly, Asked
  <2>. QED
    BY <1>0, <2>3, <2>5, <2>7 DEF Serves, WillHold
<1>. QED
  BY <1>1, <1>2, <1>3, <1>4

(* ... and of every agent.                                                 *)
LEMMA AgentsAtFirst ==
    ASSUME ManagerAssumption, Typed, Settled, InStep, LinksHold, LinksAreRegistered, IdleRows,
           WireIsTidy, OnlyPublishing, BeginShutdown
    PROVE  AgentsAreReached'
<1>1. SUFFICES ASSUME NEW s \in Sessions, Live(s), s \notin given_up'
               PROVE  Reached(s)'
  <2>1. stage' = stage /\ outbox' = outbox
    BY DEF BeginShutdown, remote, wire
  <2>. QED
    BY <1>1, <2>1 DEF AgentsAreReached, Live, Acknowledged, Asked
<1>2. /\ binding' = binding /\ link' = link /\ to_quiesce' = transports /\ stage' = stage
      /\ key' = key /\ holder' = holder /\ notify' = notify /\ inbox' = inbox /\ outbox' = outbox
      /\ worker' = worker /\ worker_id' = worker_id
      /\ stage[s] # "ended" /\ records[s] \in Rows /\ None \notin Transports
      /\ records[s] # Row("unreachable", None, None) /\ ~Refused(s)
      /\ \A t \in Transports : fallback'[t] = IF Owned(t) = {} THEN NoSession
                                              ELSE CHOOSE r \in Owned(t) : TRUE
      /\ worker[s] = "none"
  BY <1>1, TransportIds DEF BeginShutdown, conns, remote, wire, workers, Live, Typed, TypeOK,
     Settled, WorkersAreIdle
<1>3. CASE NeedsConnection(s)
  <2>1. s \in to_stop'
    BY <1>3 DEF BeginShutdown
  <2>. QED
    BY <1>2, <2>1 DEF Reached, Awaited
<1>4. ASSUME NEW t \in Transports, t \in transports, key[t] = s, s \in Owned(t),
             binding[t] \in {"AwaitingAttach", "Attaching", "Attached", "Detaching"}
      PROVE  Reached(s)'
  <2>1. link[t] = "up"
    BY <1>4 DEF LinksHold
  <2>2. fallback'[t] = s
    <3>1. Owned(t) = {s}
      BY <1>4, <2>1, OwnedByOne
    <3>. QED
      BY <1>2, <3>1
  <2>3. CASE binding[t] = "AwaitingAttach"
    <3>1. Listed(t, s)'
      BY <1>2, <1>4, <2>2, <2>3 DEF Listed
    <3>. QED
      BY <3>1 DEF Reached
  <2>4. CASE binding[t] # "AwaitingAttach"
    <3>1. /\ Serves(t, s) /\ Without(outbox[t], "stop")
          /\ binding[t] # "Detaching" => WillHold(t, s)
      BY <1>2, <1>4, <2>1, <2>4, ServesAtFirst
    <3>2. Serves(t, s)' /\ (WillHold(t, s) => WillHold(t, s)')
      BY <1>2, <3>1 DEF Serves, ServesOnly, AsksOnly, Asked, News, WillHold
    <3>3. Listed(t, s)'
      BY <1>2, <1>4, <2>2, <2>4, <3>1, <3>2 DEF Listed
    <3>. QED
      BY <3>3 DEF Reached
  <2>. QED
    BY <2>3, <2>4
<1> DEFINE r == records[s]
<1>5. Sighted(s)
  BY <1>1, <1>2 DEF InStep, AcknowledgedAreSighted, Live
<1>6. CASE r.state = "pending" /\ binding[r.transport] = "ConfirmedPending"
  <2>1. r.transport \in Transports /\ key[r.transport] = s
    BY <1>6 DEF Settled, RowsAreBound, Backed
  <2>2. link[r.transport] = "up" /\ r.transport \in transports
    BY <1>6, <2>1 DEF OnlyPublishing, LinksAreRegistered
  <2>3. PICK t \in Transports : t = r.transport
    BY <2>1
  <2>4. Listed(t, s)'
    BY <1>2, <1>6, <2>1, <2>2, <2>3 DEF Listed
  <2>. QED
    BY <2>4 DEF Reached
<1>7. CASE r.state = "attached" /\ ~NeedsConnection(s)
  <2>1. /\ r.transport \in Transports /\ key[r.transport] = s
        /\ binding[r.transport] \in {"Attached", "Detaching"}
    BY <1>7 DEF Settled, RowsAreBound, Backed
  <2>2. s \in Owned(r.transport)
    BY <1>7 DEF Owned, Published
  <2>3. r.transport \in transports
    BY <1>2, <1>7, <2>1 DEF NeedsConnection, Published
  <2>. QED
    BY <1>4, <2>1, <2>2, <2>3
<1>8. CASE r.state \in {"detached", "unreachable"} /\ ~NeedsConnection(s)
  <2>1. r.transport = None
    BY <1>8 DEF IdleRows
  <2>2. r.transition # None
    <3>1. ASSUME r.transition = None PROVE FALSE
      <4>1. r = Row(r.state, None, None)
        BY <1>2, <2>1, <3>1 DEF Rows, Row
      <4>2. r.state = "detached"
        BY <1>2, <1>8, <4>1
      <4>. QED
        BY <1>8, <2>1, <3>1, <4>2 DEF NeedsConnection, Published
    <3>. QED
      BY <3>1
  <2>3. PICK c \in Callers : mine[c] = r.transition /\ Reserving(c, s)
    BY <2>2 DEF Settled, ReservationsAreHeld
  <2>4. r.transition \in Transports
    BY <1>2, <2>2 DEF Rows, Ids
  <2>5. r.transition \in transports
    BY <1>8, <2>1, <2>2 DEF NeedsConnection, Published
  <2>6. pc[c] # "connect"
    BY <2>3, <2>5 DEF Settled, IdsAreFresh, Unused
  <2>7. key[r.transition] = s /\ binding[r.transition] \in {"AwaitingAttach", "Attaching"}
    BY <2>3, <2>6 DEF Reserving
  <2>8. s \in Owned(r.transition)
    BY <1>8 DEF Owned, Published
  <2>. QED
    BY <1>4, <2>4, <2>5, <2>7, <2>8
<1>. QED
  BY <1>3, <1>5, <1>6, <1>7, <1>8 DEF Sighted, Published

-----------------------------------------------------------------------------
(* Together. *)

(* The shutdown reaches every agent when it begins, and until it has       *)
(* stopped it.                                                             *)
LEMMA ReachedStep ==
    ASSUME ManagerAssumption, "cut" \notin Happens, ManagerInv, StopsInv, Next
    PROVE  ReachedInShutdown'
<1>0. /\ Typed /\ NoRowAfterShutdown /\ LinksAreRegistered
      /\ SettledBeforeShutdown /\ InStepBeforeShutdown
      /\ LinksHold /\ EndingIsClosed /\ MainListens /\ IdleRows /\ FreshIsQuiet
      /\ WorkersApart /\ CancelledAreGivenUp /\ PlanHolds /\ AcksAreDue
      /\ TidyBeforeShutdown /\ LosersAreCut /\ ReachedInShutdown
  BY DEF ManagerInv, StopsInv
<1>1. CASE shutting_down
  <2>1. BeginnersAreUnbound /\ ConfirmersKnow /\ \A t \in Transports : Startable(t)
    BY <1>0, <1>1 DEF ReachedInShutdown
  <2>2. BeginnersAreUnbound' /\ ConfirmersKnow'
    BY <1>0, <1>1, <2>1, BeginnersStep, ConfirmersStep
  <2>3. \A t \in Transports : Startable(t)'
    BY <1>0, <1>1, <2>1, StartableStep
  <2>4. AgentsAreReached'
    BY <1>0, <1>1, AgentsStep
  <2>. QED
    BY <2>2, <2>3, <2>4 DEF ReachedInShutdown
<1>2. CASE ~shutting_down /\ shutting_down'
  <2>1. BeginShutdown
    BY <1>2, FlagMovers
  <2>2. Settled /\ InStep /\ WireIsTidy /\ OnlyPublishing
    BY <1>0, <1>2 DEF SettledBeforeShutdown, InStepBeforeShutdown, TidyBeforeShutdown
  <2>3. BeginnersAreUnbound /\ ConfirmersKnow
    BY <2>2 DEF InStep, BeginningsAreQuiet, Opening, Settled, EventsGoToTheirCaller,
       BeginnersAreUnbound, ConfirmersKnow
  <2>4. BeginnersAreUnbound' /\ ConfirmersKnow'
    BY <2>1, <2>3 DEF BeginShutdown, conns, calls, BeginnersAreUnbound, ConfirmersKnow
  <2>5. \A t \in Transports : Startable(t)'
    BY <1>0, <2>1, <2>2, StartsAtFirst
  <2>6. AgentsAreReached'
    BY <1>0, <2>1, <2>2, AgentsAtFirst
  <2>. QED
    BY <2>4, <2>5, <2>6 DEF ReachedInShutdown
<1>3. CASE ~shutting_down'
  BY <1>3 DEF ReachedInShutdown
<1>. QED
  BY <1>1, <1>2, <1>3

(* Every step keeps the invariant.                                         *)
LEMMA StopsStep ==
    ASSUME ManagerAssumption, "cut" \notin Happens, ManagerInv, ManagerInv', StopsInv, Next
    PROVE  StopsInv'
<1>0. /\ Typed /\ NoRowAfterShutdown /\ LinksAreRegistered
      /\ SettledBeforeShutdown /\ InStepBeforeShutdown
      /\ LinksHold /\ EndingIsClosed /\ MainListens /\ IdleRows /\ FreshIsQuiet
      /\ WorkersApart /\ CancelledAreGivenUp /\ PlanHolds /\ AcksAreDue
      /\ TidyBeforeShutdown /\ LosersAreCut /\ ReachedInShutdown
  BY DEF ManagerInv, StopsInv
<1>1. Typed' /\ SettledBeforeShutdown' /\ InStepBeforeShutdown'
  BY DEF ManagerInv
<1>2. LinksHold' /\ EndingIsClosed' /\ MainListens' /\ IdleRows' /\ FreshIsQuiet'
  BY <1>0, LinksHoldStep, EndingStep, MainListensStep, IdleRowsStep, QuietStep
<1>3. WorkersApart' /\ CancelledAreGivenUp' /\ PlanHolds'
  BY <1>0, <1>1, WorkersApartStep, CancelledStep, PlanHoldsStep
<1>4. AcksAreDue' /\ LosersAreCut'
  BY <1>0, <1>1, AcksStep, LosersStep
<1>5. TidyBeforeShutdown'
  BY <1>0, <1>1, <1>2, TidyStep
<1>6. ReachedInShutdown'
  BY ReachedStep
<1>. QED
  BY <1>2, <1>3, <1>4, <1>5, <1>6 DEF StopsInv

(* So does one that changes nothing.                                       *)
LEMMA StutteringStops ==
    ASSUME StopsInv, UNCHANGED vars
    PROVE  StopsInv'
<1>1. UNCHANGED <<records, shutting_down, transports, next_transport_id, binding, key,
                  event_sender, link, reader, pc, mine, at, events, main, to_quiesce, fallback,
                  to_stop, current, attach_first, worker, worker_id, cancelled, stage, holder,
                  notify, inbox, outbox, given_up, interrupted>>
  BY DEF vars, maps, conns, calls, plan, workers, remote, wire
<1>2. LinksHold' /\ EndingIsClosed' /\ MainListens' /\ IdleRows'
  BY <1>1 DEF StopsInv, LinksHold, EndingIsClosed, MainListens, IdleRows
<1>3. \A t : News(t)' = News(t) /\ Asked(t)' = Asked(t) /\ Later(t)' = Later(t)
             /\ (Quiet(t)' <=> Quiet(t))
  BY <1>1 DEF News, Asked, Later, Quiet
<1>4. FreshIsQuiet' /\ WorkersApart' /\ CancelledAreGivenUp' /\ PlanHolds'
  BY <1>1, <1>3 DEF StopsInv, FreshIsQuiet, WorkersApart, CancelledAreGivenUp, PlanHolds
<1>5. \A s : (Acknowledged(s)' <=> Acknowledged(s)) /\ (Live(s)' <=> Live(s))
  BY <1>1, <1>3 DEF Acknowledged, Live
<1>6. AcksAreDue' /\ LosersAreCut'
  BY <1>1, <1>5 DEF StopsInv, AcksAreDue, LosersAreCut
<1>7. \A t : Tidy(t)' <=> Tidy(t)
  BY <1>1, <1>3 DEF Tidy, StartTidy, PendingTidy, ReservedTidy, AttachTidy, DetachTidy, BegunTidy
<1>8. TidyBeforeShutdown'
  BY <1>1, <1>7 DEF StopsInv, TidyBeforeShutdown, WireIsTidy, OnlyPublishing
<1>9. \A t, s : /\ Serves(t, s)' <=> Serves(t, s)
                /\ ServesOnly(t, s)' <=> ServesOnly(t, s)
                /\ WillHold(t, s)' <=> WillHold(t, s)
  BY <1>1, <1>3 DEF Serves, ServesOnly, AsksOnly, WillHold
<1>10. \A t, s : /\ Listed(t, s)' <=> Listed(t, s)
                 /\ InHand(t, s)' <=> InHand(t, s)
                 /\ Progress(t, s)' <=> Progress(t, s)
  BY <1>1, <1>9 DEF Listed, InHand, Progress
<1>11. \A s : Awaited(s)' <=> Awaited(s)
  BY <1>1, <1>10 DEF Awaited
<1>12. AgentsAreReached => AgentsAreReached'
  BY <1>1, <1>5, <1>10, <1>11 DEF AgentsAreReached, Reached
<1>13. \A t : Startable(t)' <=> Startable(t)
  BY <1>1, <1>3 DEF Startable, ServesOnly
<1>14. ReachedInShutdown'
  BY <1>1, <1>12, <1>13 DEF StopsInv, ReachedInShutdown, BeginnersAreUnbound, ConfirmersKnow
<1>. QED
  BY <1>2, <1>4, <1>6, <1>8, <1>14 DEF StopsInv

(* It holds at first.                                                      *)
LEMMA InitStops ==
    ASSUME ManagerAssumption, Init
    PROVE  StopsInv
<1>0. /\ \A t \in Transports : /\ News(t) = {} /\ Asked(t) = {} /\ outbox[t] = <<>>
                               /\ link[t] = "none" /\ reader[t] = "none" /\ binding[t] = "none"
                               /\ event_sender[t] = Nobody
      /\ \A s \in Sessions : /\ stage[s] = "unborn" /\ records[s] = Absent /\ worker[s] = "none"
                             /\ worker_id[s] = None
                             /\ \A t \in Transports : holder[s] # t /\ notify[s] # t
      /\ \A c \in Callers : pc[c] = "idle" /\ mine[c] = None
      /\ ~shutting_down /\ main = "idle" /\ transports = {} /\ cancelled = {}
      /\ events[Main] = <<>> /\ next_transport_id = 1
      /\ Main # Nobody
  BY TransportIds DEF Init, Lease!Init, News, Asked, Entries, ManagerAssumption
<1>1. LinksHold /\ EndingIsClosed /\ MainListens
  BY <1>0 DEF LinksHold, EndingIsClosed, MainListens
<1>2. IdleRows
  BY <1>0 DEF IdleRows, Absent, Row
<1>3. FreshIsQuiet
  BY <1>0 DEF FreshIsQuiet, Quiet
<1>4. WorkersApart
  BY <1>0 DEF WorkersApart, None
<1>5. CancelledAreGivenUp /\ PlanHolds
  BY <1>0 DEF CancelledAreGivenUp, PlanHolds
<1>6. AcksAreDue
  BY <1>0 DEF AcksAreDue, Acknowledged
<1>7. TidyBeforeShutdown
  BY <1>0 DEF TidyBeforeShutdown, WireIsTidy, OnlyPublishing
<1>8. LosersAreCut /\ ReachedInShutdown
  BY <1>0 DEF LosersAreCut, ReachedInShutdown
<1>. QED
  BY <1>1, <1>2, <1>3, <1>4, <1>5, <1>6, <1>7, <1>8 DEF StopsInv

(* Over connections that hold, an agent that still runs when the shutdown  *)
(* is over was given up or taken from it: whatever starts, detaches and    *)
(* reattaches it met, it has stopped every other one (quiesce_transport,   *)
(* stop_detached_now).                                                     *)
THEOREM AgentsAreStopped ==
    ASSUME "cut" \notin Happens
    PROVE  Spec => []ShutdownStopsAgents
<1>1. Init => StopsInv
  BY InitStops, ManagerAssumption
<1>2. ManagerInv /\ ManagerInv' /\ StopsInv /\ [Next]_vars => StopsInv'
  BY StopsStep, StutteringStops, ManagerAssumption
<1>3. ManagerInv /\ StopsInv => ShutdownStopsAgents
  <2>. SUFFICES ASSUME ManagerInv, StopsInv, main = "done",
                       NEW s \in Sessions, stage[s] = "confirmed"
                PROVE  s \in given_up \union interrupted
    BY DEF ShutdownStopsAgents
  <2>1. shutting_down /\ to_quiesce = {} /\ to_stop = {}
    BY DEF ManagerInv, Typed, Quiesced, StopsInv, PlanHolds
  <2>2. ~Reached(s)
    BY <2>1 DEF Reached, Listed, InHand, Awaited
  <2>. QED
    BY <2>1, <2>2 DEF StopsInv, ReachedInShutdown, AgentsAreReached, Live
<1>. QED
  BY <1>1, <1>2, <1>3, ManagerInvariant, PTL DEF Spec
=============================================================================
