------------------------- MODULE RemoteBrokerProofs -------------------------
(***************************************************************************)
(* The safety of RemoteBroker, proved for any connections, sessions and    *)
(* faults.                                                                 *)
(*                                                                         *)
(* First what the broker's clients are told: which steps change what a     *)
(* client was told of a session, its row, its agent and its watcher, and   *)
(* from these that an end is announced only when it happened and output is *)
(* written only under an announced lease.                                  *)
(*                                                                         *)
(* Then the remaining conjuncts of the inductive invariant, the invariant  *)
(* itself, and the properties that follow from it.                         *)
(***************************************************************************)
EXTENDS RemoteBrokerStarts

(* Five steps send a message that clients act on.                           *)
LEMMA Tellers ==
    ASSUME Next, told' # told
    PROVE  \/ \E f \in Frontends : SendStarted(f) \/ SendAttached(f) \/ SendDetached(f) \/ Finish(f)
           \/ \E s \in Sessions : SendExited(s)
<1>1. ASSUME NEW f \in Frontends,
             \/ Accept(f) \/ ClientLeaves(f) \/ HangUp(f) \/ Oversized(f)
             \/ Disconnect(f) \/ SpawnFork(f) \/ SpawnRelease(f) \/ SpawnFails(f)
             \/ Insert(f) \/ SpawnWatcher(f) \/ ReapUnwatched(f) \/ Unregister(f)
             \/ SpawnReader(f) \/ Claim(f) \/ CommitStarted(f) \/ CommitFailed(f)
             \/ Activate(f) \/ PtyDetach(f) \/ PtyStop(f) \/ Signal(f)
      PROVE  UNCHANGED told
  BY <1>1 DEF Accept, ClientLeaves, HangUp, Oversized, Disconnect, SpawnFork, SpawnRelease,
       SpawnFails, Insert, SpawnWatcher, ReapUnwatched, Unregister, SpawnReader, Claim,
       CommitStarted, CommitFailed, Activate, PtyDetach, PtyStop, Signal, history
<1>2. ASSUME NEW f \in Frontends, NEW s \in Sessions,
             PtyStart(f, s) \/ PtyStartAck(f, s) \/ PtyAttach(f, s)
      PROVE  UNCHANGED told
  BY <1>2 DEF PtyStart, PtyStartAck, PtyAttach, history
<1>3. ASSUME NEW s \in Sessions,
             \/ AgentExits(s) \/ WatcherWaits(s) \/ Classify(s) \/ WatcherReaps(s)
             \/ ReleaseGuardian(s) \/ GuardianEnds(s) \/ GuardianFires(s)
             \/ HeldAgentDies(s) \/ ReadOutput(s) \/ RecheckLease(s)
             \/ WriteOutput(s)
      PROVE  UNCHANGED told
  BY <1>3 DEF AgentExits, WatcherWaits, Classify, WatcherReaps, ReleaseGuardian, GuardianEnds,
       GuardianFires, HeldAgentDies, ReadOutput, RecheckLease, WriteOutput, history
<1>4. ASSUME BrokerDies \/ IdleShutdown
      PROVE  UNCHANGED told
  BY <1>4 DEF BrokerDies, IdleShutdown, history
<1>. QED
  BY <1>1, <1>2, <1>3, <1>4 DEF Next, BrokerStep, Outside, Request, Handle,
     Watch, Output

(* The steps that start, end or kill an agent.                             *)
LEMMA GroupMovers ==
    ASSUME Next, group' # group
    PROVE  \/ \E f \in Frontends :
                \/ SpawnFork(f) \/ SpawnRelease(f) \/ SpawnFails(f) \/ ReapUnwatched(f)
                \/ Signal(f)
           \/ \E s \in Sessions :
                \/ AgentExits(s) \/ WatcherReaps(s) \/ GuardianFires(s)
                \/ HeldAgentDies(s)
<1>1. ASSUME NEW f \in Frontends,
             \/ Accept(f) \/ ClientLeaves(f) \/ HangUp(f) \/ Oversized(f)
             \/ Disconnect(f) \/ Insert(f) \/ SpawnWatcher(f) \/ Unregister(f)
             \/ SpawnReader(f) \/ Claim(f) \/ SendStarted(f) \/ CommitStarted(f)
             \/ CommitFailed(f) \/ SendAttached(f) \/ Activate(f) \/ PtyDetach(f)
             \/ SendDetached(f) \/ PtyStop(f) \/ Finish(f)
      PROVE  UNCHANGED group
  BY <1>1 DEF Accept, ClientLeaves, HangUp, Oversized, Disconnect, Insert, SpawnWatcher,
       Unregister, SpawnReader, Claim, SendStarted, CommitStarted, CommitFailed, SendAttached,
       Activate, PtyDetach, SendDetached, PtyStop, Finish, agents
<1>2. ASSUME NEW f \in Frontends, NEW s \in Sessions,
             PtyStart(f, s) \/ PtyStartAck(f, s) \/ PtyAttach(f, s)
      PROVE  UNCHANGED group
  BY <1>2 DEF PtyStart, PtyStartAck, PtyAttach, agents
<1>3. ASSUME NEW s \in Sessions,
             \/ WatcherWaits(s) \/ Classify(s) \/ SendExited(s)
             \/ ReleaseGuardian(s) \/ GuardianEnds(s) \/ ReadOutput(s)
             \/ RecheckLease(s) \/ WriteOutput(s)
      PROVE  UNCHANGED group
  BY <1>3 DEF WatcherWaits, Classify, SendExited, ReleaseGuardian, GuardianEnds, ReadOutput,
       RecheckLease, WriteOutput, agents
<1>4. ASSUME BrokerDies \/ IdleShutdown
      PROVE  UNCHANGED group
  BY <1>4 DEF BrokerDies, IdleShutdown, agents
<1>. QED
  BY <1>1, <1>2, <1>3, <1>4 DEF Next, BrokerStep, Outside, Request, Handle,
     Watch, Output

(* The steps that report the end of a group.                               *)
LEMMA Completers ==
    ASSUME Next, completion' # completion
    PROVE  \/ \E f \in Frontends : Unregister(f)
           \/ \E s \in Sessions : ReleaseGuardian(s) \/ GuardianEnds(s)
<1>1. ASSUME NEW f \in Frontends,
             \/ Accept(f) \/ ClientLeaves(f) \/ HangUp(f) \/ Oversized(f)
             \/ Disconnect(f) \/ SpawnFork(f) \/ SpawnRelease(f) \/ SpawnFails(f)
             \/ Insert(f) \/ SpawnWatcher(f) \/ ReapUnwatched(f) \/ SpawnReader(f)
             \/ Claim(f) \/ SendStarted(f) \/ CommitStarted(f) \/ CommitFailed(f)
             \/ SendAttached(f) \/ Activate(f) \/ PtyDetach(f) \/ SendDetached(f)
             \/ PtyStop(f) \/ Signal(f) \/ Finish(f)
      PROVE  UNCHANGED completion
  BY <1>1 DEF Accept, ClientLeaves, HangUp, Oversized, Disconnect, SpawnFork, SpawnRelease,
       SpawnFails, Insert, SpawnWatcher, ReapUnwatched, SpawnReader, Claim, SendStarted,
       CommitStarted, CommitFailed, SendAttached, Activate, PtyDetach, SendDetached, PtyStop,
       Signal, Finish, watchers
<1>2. ASSUME NEW f \in Frontends, NEW s \in Sessions,
             PtyStart(f, s) \/ PtyStartAck(f, s) \/ PtyAttach(f, s)
      PROVE  UNCHANGED completion
  BY <1>2 DEF PtyStart, PtyStartAck, PtyAttach, watchers
<1>3. ASSUME NEW s \in Sessions,
             \/ AgentExits(s) \/ WatcherWaits(s) \/ Classify(s) \/ WatcherReaps(s)
             \/ SendExited(s) \/ GuardianFires(s) \/ HeldAgentDies(s)
             \/ ReadOutput(s) \/ RecheckLease(s) \/ WriteOutput(s)
      PROVE  UNCHANGED completion
  BY <1>3 DEF AgentExits, WatcherWaits, Classify, WatcherReaps, SendExited, GuardianFires,
       HeldAgentDies, ReadOutput, RecheckLease, WriteOutput, watchers
<1>4. ASSUME BrokerDies \/ IdleShutdown
      PROVE  UNCHANGED completion
  BY <1>4 DEF BrokerDies, IdleShutdown, watchers
<1>. QED
  BY <1>1, <1>2, <1>3, <1>4 DEF Next, BrokerStep, Outside, Request, Handle,
     Watch, Output

(* The steps of a watcher, from its creation by pty-start on.              *)
LEMMA WatcherMovers ==
    ASSUME Next, watcher' # watcher
    PROVE  \/ \E f \in Frontends : SpawnWatcher(f)
           \/ \E s \in Sessions :
                \/ WatcherWaits(s) \/ Classify(s) \/ WatcherReaps(s) \/ SendExited(s)
                \/ ReleaseGuardian(s) \/ GuardianEnds(s)
<1>1. ASSUME NEW f \in Frontends,
             \/ Accept(f) \/ ClientLeaves(f) \/ HangUp(f) \/ Oversized(f)
             \/ Disconnect(f) \/ SpawnFork(f) \/ SpawnRelease(f) \/ SpawnFails(f)
             \/ Insert(f) \/ ReapUnwatched(f) \/ Unregister(f) \/ SpawnReader(f)
             \/ Claim(f) \/ SendStarted(f) \/ CommitStarted(f) \/ CommitFailed(f)
             \/ SendAttached(f) \/ Activate(f) \/ PtyDetach(f) \/ SendDetached(f)
             \/ PtyStop(f) \/ Signal(f) \/ Finish(f)
      PROVE  UNCHANGED watcher
  BY <1>1 DEF Accept, ClientLeaves, HangUp, Oversized, Disconnect, SpawnFork, SpawnRelease,
       SpawnFails, Insert, ReapUnwatched, Unregister, SpawnReader, Claim, SendStarted,
       CommitStarted, CommitFailed, SendAttached, Activate, PtyDetach, SendDetached, PtyStop,
       Signal, Finish, watchers
<1>2. ASSUME NEW f \in Frontends, NEW s \in Sessions,
             PtyStart(f, s) \/ PtyStartAck(f, s) \/ PtyAttach(f, s)
      PROVE  UNCHANGED watcher
  BY <1>2 DEF PtyStart, PtyStartAck, PtyAttach, watchers
<1>3. ASSUME NEW s \in Sessions,
             \/ AgentExits(s) \/ GuardianFires(s) \/ HeldAgentDies(s)
             \/ ReadOutput(s) \/ RecheckLease(s) \/ WriteOutput(s)
      PROVE  UNCHANGED watcher
  BY <1>3 DEF AgentExits, GuardianFires, HeldAgentDies, ReadOutput, RecheckLease, WriteOutput,
       watchers
<1>4. ASSUME BrokerDies \/ IdleShutdown
      PROVE  UNCHANGED watcher
  BY <1>4 DEF BrokerDies, IdleShutdown, watchers
<1>. QED
  BY <1>1, <1>2, <1>3, <1>4 DEF Next, BrokerStep, Outside, Request, Handle,
     Watch, Output

(* Only pty-start claims a session.                                        *)
LEMMA BirthMovers ==
    ASSUME Next, birth' # birth
    PROVE  \E f \in Frontends, s \in Sessions : PtyStart(f, s)
<1>1. ASSUME NEW f \in Frontends,
             \/ Accept(f) \/ ClientLeaves(f) \/ HangUp(f) \/ Oversized(f)
             \/ Disconnect(f) \/ SpawnFork(f) \/ SpawnRelease(f) \/ SpawnFails(f)
             \/ Insert(f) \/ SpawnWatcher(f) \/ ReapUnwatched(f) \/ Unregister(f)
             \/ SpawnReader(f) \/ Claim(f) \/ SendStarted(f) \/ CommitStarted(f)
             \/ CommitFailed(f) \/ SendAttached(f) \/ Activate(f) \/ PtyDetach(f)
             \/ SendDetached(f) \/ PtyStop(f) \/ Signal(f) \/ Finish(f)
      PROVE  UNCHANGED birth
  BY <1>1 DEF Accept, ClientLeaves, HangUp, Oversized, Disconnect, SpawnFork, SpawnRelease,
       SpawnFails, Insert, SpawnWatcher, ReapUnwatched, Unregister, SpawnReader, Claim,
       SendStarted, CommitStarted, CommitFailed, SendAttached, Activate, PtyDetach, SendDetached,
       PtyStop, Signal, Finish, history
<1>2. ASSUME NEW f \in Frontends, NEW s \in Sessions, PtyStartAck(f, s) \/ PtyAttach(f, s)
      PROVE  UNCHANGED birth
  BY <1>2 DEF PtyStartAck, PtyAttach, history
<1>3. ASSUME NEW s \in Sessions,
             \/ AgentExits(s) \/ WatcherWaits(s) \/ Classify(s) \/ WatcherReaps(s)
             \/ SendExited(s) \/ ReleaseGuardian(s) \/ GuardianEnds(s)
             \/ GuardianFires(s) \/ HeldAgentDies(s) \/ ReadOutput(s)
             \/ RecheckLease(s) \/ WriteOutput(s)
      PROVE  UNCHANGED birth
  BY <1>3 DEF AgentExits, WatcherWaits, Classify, WatcherReaps, SendExited, ReleaseGuardian,
       GuardianEnds, GuardianFires, HeldAgentDies, ReadOutput, RecheckLease, WriteOutput, history
<1>4. ASSUME BrokerDies \/ IdleShutdown
      PROVE  UNCHANGED birth
  BY <1>4 DEF BrokerDies, IdleShutdown, history
<1>. QED
  BY <1>1, <1>2, <1>3, <1>4 DEF Next, BrokerStep, Outside, Request, Handle,
     Watch, Output

(* The steps that decide whether a start is confirmed.                     *)
LEMMA Confirmers ==
    ASSUME Next, start_confirmed' # start_confirmed
    PROVE  \/ \E f \in Frontends : Insert(f) \/ CommitStarted(f)
           \/ \E f \in Frontends, s \in Sessions : PtyStartAck(f, s)
<1>1. ASSUME NEW f \in Frontends,
             \/ Accept(f) \/ ClientLeaves(f) \/ HangUp(f) \/ Oversized(f)
             \/ Disconnect(f) \/ SpawnFork(f) \/ SpawnRelease(f) \/ SpawnFails(f)
             \/ SpawnWatcher(f) \/ ReapUnwatched(f) \/ Unregister(f)
             \/ SpawnReader(f) \/ Claim(f) \/ SendStarted(f) \/ CommitFailed(f)
             \/ SendAttached(f) \/ Activate(f) \/ PtyDetach(f) \/ SendDetached(f)
             \/ PtyStop(f) \/ Signal(f) \/ Finish(f)
      PROVE  UNCHANGED start_confirmed
  BY <1>1 DEF Accept, ClientLeaves, HangUp, Oversized, Disconnect, SpawnFork, SpawnRelease,
       SpawnFails, SpawnWatcher, ReapUnwatched, Unregister, SpawnReader, Claim, SendStarted,
       CommitFailed, SendAttached, Activate, PtyDetach, SendDetached, PtyStop, Signal, Finish,
       rows
<1>2. ASSUME NEW f \in Frontends, NEW s \in Sessions, PtyStart(f, s) \/ PtyAttach(f, s)
      PROVE  UNCHANGED start_confirmed
  BY <1>2 DEF PtyStart, PtyAttach, rows
<1>3. ASSUME NEW s \in Sessions,
             \/ AgentExits(s) \/ WatcherWaits(s) \/ Classify(s) \/ WatcherReaps(s)
             \/ SendExited(s) \/ ReleaseGuardian(s) \/ GuardianEnds(s)
             \/ GuardianFires(s) \/ HeldAgentDies(s) \/ ReadOutput(s)
             \/ RecheckLease(s) \/ WriteOutput(s)
      PROVE  UNCHANGED start_confirmed
  BY <1>3 DEF AgentExits, WatcherWaits, Classify, WatcherReaps, SendExited, ReleaseGuardian,
       GuardianEnds, GuardianFires, HeldAgentDies, ReadOutput, RecheckLease, WriteOutput, rows
<1>4. ASSUME BrokerDies \/ IdleShutdown
      PROVE  UNCHANGED start_confirmed
  BY <1>4 DEF BrokerDies, IdleShutdown, rows
<1>. QED
  BY <1>1, <1>2, <1>3, <1>4 DEF Next, BrokerStep, Outside, Request, Handle,
     Watch, Output

(* The steps that change what a connection remembers of its lease.         *)
LEMMA LeaseMovers ==
    ASSUME Next, controlled_session' # controlled_session
    PROVE  \/ \E f \in Frontends :
                \/ Disconnect(f) \/ SendStarted(f) \/ PtyDetach(f) \/ PtyStop(f)
                \/ Finish(f)
           \/ \E f \in Frontends, s \in Sessions : PtyStart(f, s) \/ PtyAttach(f, s)
<1>1. ASSUME NEW f \in Frontends,
             \/ Accept(f) \/ ClientLeaves(f) \/ HangUp(f) \/ Oversized(f)
             \/ SpawnFork(f) \/ SpawnRelease(f) \/ SpawnFails(f) \/ Insert(f)
             \/ SpawnWatcher(f) \/ ReapUnwatched(f) \/ Unregister(f)
             \/ SpawnReader(f) \/ Claim(f) \/ CommitStarted(f) \/ CommitFailed(f)
             \/ SendAttached(f) \/ Activate(f) \/ SendDetached(f) \/ Signal(f)
      PROVE  UNCHANGED controlled_session
  BY <1>1 DEF Accept, ClientLeaves, HangUp, Oversized, SpawnFork, SpawnRelease, SpawnFails,
       Insert, SpawnWatcher, ReapUnwatched, Unregister, SpawnReader, Claim, CommitStarted,
       CommitFailed, SendAttached, Activate, SendDetached, Signal, threads
<1>2. ASSUME NEW f \in Frontends, NEW s \in Sessions, PtyStartAck(f, s)
      PROVE  UNCHANGED controlled_session
  BY <1>2 DEF PtyStartAck, threads
<1>3. ASSUME NEW s \in Sessions,
             \/ AgentExits(s) \/ WatcherWaits(s) \/ Classify(s) \/ WatcherReaps(s)
             \/ SendExited(s) \/ ReleaseGuardian(s) \/ GuardianEnds(s)
             \/ GuardianFires(s) \/ HeldAgentDies(s) \/ ReadOutput(s)
             \/ RecheckLease(s) \/ WriteOutput(s)
      PROVE  UNCHANGED controlled_session
  BY <1>3 DEF AgentExits, WatcherWaits, Classify, WatcherReaps, SendExited, ReleaseGuardian,
       GuardianEnds, GuardianFires, HeldAgentDies, ReadOutput, RecheckLease, WriteOutput, threads
<1>4. ASSUME BrokerDies \/ IdleShutdown
      PROVE  UNCHANGED controlled_session
  BY <1>4 DEF BrokerDies, IdleShutdown, threads
<1>. QED
  BY <1>1, <1>2, <1>3, <1>4 DEF Next, BrokerStep, Outside, Request, Handle,
     Watch, Output

(* The steps that change the shared table.                                 *)
LEMMA RowMovers ==
    ASSUME Next, rows' # rows
    PROVE  \/ \E f \in Frontends :
                \/ Disconnect(f) \/ Insert(f) \/ Unregister(f) \/ Claim(f)
                \/ CommitStarted(f) \/ CommitFailed(f) \/ Activate(f) \/ PtyDetach(f)
                \/ PtyStop(f)
           \/ \E f \in Frontends, s \in Sessions : PtyStartAck(f, s) \/ PtyAttach(f, s)
           \/ \E s \in Sessions : Classify(s)
<1>1. ASSUME NEW f \in Frontends,
             \/ Accept(f) \/ ClientLeaves(f) \/ HangUp(f) \/ Oversized(f)
             \/ SpawnFork(f) \/ SpawnRelease(f) \/ SpawnFails(f) \/ SpawnWatcher(f)
             \/ ReapUnwatched(f) \/ SpawnReader(f) \/ SendStarted(f)
             \/ SendAttached(f) \/ SendDetached(f) \/ Signal(f) \/ Finish(f)
      PROVE  UNCHANGED rows
  BY <1>1 DEF Accept, ClientLeaves, HangUp, Oversized, SpawnFork, SpawnRelease, SpawnFails,
       SpawnWatcher, ReapUnwatched, SpawnReader, SendStarted, SendAttached, SendDetached, Signal,
       Finish
<1>2. ASSUME NEW f \in Frontends, NEW s \in Sessions, PtyStart(f, s)
      PROVE  UNCHANGED rows
  BY <1>2 DEF PtyStart
<1>3. ASSUME NEW s \in Sessions,
             \/ AgentExits(s) \/ WatcherWaits(s) \/ WatcherReaps(s) \/ SendExited(s)
             \/ ReleaseGuardian(s) \/ GuardianEnds(s) \/ GuardianFires(s)
             \/ HeldAgentDies(s) \/ ReadOutput(s) \/ RecheckLease(s)
             \/ WriteOutput(s)
      PROVE  UNCHANGED rows
  BY <1>3 DEF AgentExits, WatcherWaits, WatcherReaps, SendExited, ReleaseGuardian, GuardianEnds,
       GuardianFires, HeldAgentDies, ReadOutput, RecheckLease, WriteOutput
<1>4. ASSUME BrokerDies \/ IdleShutdown
      PROVE  UNCHANGED rows
  BY <1>4 DEF BrokerDies, IdleShutdown
<1>. QED
  BY <1>1, <1>2, <1>3, <1>4 DEF Next, BrokerStep, Outside, Request, Handle,
     Watch, Output

(* The steps of an output reader, and those that release it.               *)
LEMMA ReaderMovers ==
    ASSUME Next, readers' # readers
    PROVE  \/ \E f \in Frontends : SpawnReader(f) \/ Claim(f) \/ CommitStarted(f) \/ CommitFailed(f)
           \/ \E s \in Sessions : ReadOutput(s) \/ RecheckLease(s) \/ WriteOutput(s)
<1>1. ASSUME NEW f \in Frontends,
             \/ Accept(f) \/ ClientLeaves(f) \/ HangUp(f) \/ Oversized(f)
             \/ Disconnect(f) \/ SpawnFork(f) \/ SpawnRelease(f) \/ SpawnFails(f)
             \/ Insert(f) \/ SpawnWatcher(f) \/ ReapUnwatched(f) \/ Unregister(f)
             \/ SendStarted(f) \/ SendAttached(f) \/ Activate(f) \/ PtyDetach(f)
             \/ SendDetached(f) \/ PtyStop(f) \/ Signal(f) \/ Finish(f)
      PROVE  UNCHANGED readers
  BY <1>1 DEF Accept, ClientLeaves, HangUp, Oversized, Disconnect, SpawnFork, SpawnRelease,
       SpawnFails, Insert, SpawnWatcher, ReapUnwatched, Unregister, SendStarted, SendAttached,
       Activate, PtyDetach, SendDetached, PtyStop, Signal, Finish
<1>2. ASSUME NEW f \in Frontends, NEW s \in Sessions,
             PtyStart(f, s) \/ PtyStartAck(f, s) \/ PtyAttach(f, s)
      PROVE  UNCHANGED readers
  BY <1>2 DEF PtyStart, PtyStartAck, PtyAttach
<1>3. ASSUME NEW s \in Sessions,
             \/ AgentExits(s) \/ WatcherWaits(s) \/ Classify(s) \/ WatcherReaps(s)
             \/ SendExited(s) \/ ReleaseGuardian(s) \/ GuardianEnds(s)
             \/ GuardianFires(s) \/ HeldAgentDies(s)
      PROVE  UNCHANGED readers
  BY <1>3 DEF AgentExits, WatcherWaits, Classify, WatcherReaps, SendExited, ReleaseGuardian,
       GuardianEnds, GuardianFires, HeldAgentDies
<1>4. ASSUME BrokerDies \/ IdleShutdown
      PROVE  UNCHANGED readers
  BY <1>4 DEF BrokerDies, IdleShutdown
<1>. QED
  BY <1>1, <1>2, <1>3, <1>4 DEF Next, BrokerStep, Outside, Request, Handle,
     Watch, Output

(* Only the end of the agent chooses a client to tell of it.                *)
LEMMA Notifiers ==
    ASSUME Next, notify' # notify
    PROVE  \E s \in Sessions : Classify(s)
<1>1. ASSUME NEW f \in Frontends,
             \/ Accept(f) \/ ClientLeaves(f) \/ HangUp(f) \/ Oversized(f)
             \/ Disconnect(f) \/ SpawnFork(f) \/ SpawnRelease(f) \/ SpawnFails(f)
             \/ Insert(f) \/ SpawnWatcher(f) \/ ReapUnwatched(f) \/ Unregister(f)
             \/ SpawnReader(f) \/ Claim(f) \/ SendStarted(f) \/ CommitStarted(f)
             \/ CommitFailed(f) \/ SendAttached(f) \/ Activate(f) \/ PtyDetach(f)
             \/ SendDetached(f) \/ PtyStop(f) \/ Signal(f) \/ Finish(f)
      PROVE  UNCHANGED notify
  BY <1>1 DEF Accept, ClientLeaves, HangUp, Oversized, Disconnect, SpawnFork, SpawnRelease,
       SpawnFails, Insert, SpawnWatcher, ReapUnwatched, Unregister, SpawnReader, Claim,
       SendStarted, CommitStarted, CommitFailed, SendAttached, Activate, PtyDetach, SendDetached,
       PtyStop, Signal, Finish, watchers
<1>2. ASSUME NEW f \in Frontends, NEW s \in Sessions,
             PtyStart(f, s) \/ PtyStartAck(f, s) \/ PtyAttach(f, s)
      PROVE  UNCHANGED notify
  BY <1>2 DEF PtyStart, PtyStartAck, PtyAttach, watchers
<1>3. ASSUME NEW s \in Sessions,
             \/ AgentExits(s) \/ WatcherWaits(s) \/ WatcherReaps(s) \/ SendExited(s)
             \/ ReleaseGuardian(s) \/ GuardianEnds(s) \/ GuardianFires(s)
             \/ HeldAgentDies(s) \/ ReadOutput(s) \/ RecheckLease(s)
             \/ WriteOutput(s)
      PROVE  UNCHANGED notify
  BY <1>3 DEF AgentExits, WatcherWaits, WatcherReaps, SendExited, ReleaseGuardian, GuardianEnds,
       GuardianFires, HeldAgentDies, ReadOutput, RecheckLease, WriteOutput, watchers
<1>4. ASSUME BrokerDies \/ IdleShutdown
      PROVE  UNCHANGED notify
  BY <1>4 DEF BrokerDies, IdleShutdown, watchers
<1>. QED
  BY <1>1, <1>2, <1>3, <1>4 DEF Next, BrokerStep, Outside, Request, Handle,
     Watch, Output

-----------------------------------------------------------------------------
(* What the changes are. *)

(* A message changes what its client was last told to what it says, and    *)
(* nothing is told after an exit.                                          *)
LEMMA TellFacts ==
    ASSUME told \in [Frontends -> [Sessions -> Told]], NEW g \in Frontends, NEW x \in Sessions,
           NEW what, Tell(g, x, what),
           NEW f \in Frontends, NEW s \in Sessions, told'[f][s] # told[f][s]
    PROVE  /\ f = g /\ s = x /\ told'[f][s] = what /\ told[f][s] # "exited"
           /\ peer_open[f] /\ WriterFree(f)
<1>1. /\ peer_open[g]
      /\ told' = [told EXCEPT ![g][x] = IF told[g][x] = "exited" THEN told[g][x] ELSE what]
  BY DEF Tell
<1>. QED
  BY <1>1 DEF Tell

(* Who tells a client of a session, what, and when.                        *)
LEMMA ToldChanges ==
    ASSUME TypeOK, HandlersOwnTheirStart, Next,
           NEW f \in Frontends, NEW s \in Sessions, told'[f][s] # told[f][s]
    PROVE  /\ told[f][s] # "exited" /\ peer_open[f] /\ WriterFree(f)
           /\ \/ /\ SendStarted(f) \/ SendAttached(f)
                 /\ arg[f] = s /\ told'[f][s] = "attached"
              \/ SendDetached(f) /\ arg[f] = s /\ told'[f][s] = "detached"
              \/ Finish(f) /\ arg[f] = s /\ completion[s] = "ok" /\ told'[f][s] = "stopped"
              \/ SendExited(s) /\ notify[s] = f /\ told'[f][s] = "exited"
<1>1. told \in [Frontends -> [Sessions -> Told]] /\ told' # told
  BY DEF TypeOK
<1>2. CASE \E g \in Frontends : SendStarted(g) \/ SendAttached(g)
  <2>1. PICK g \in Frontends : SendStarted(g) \/ SendAttached(g)
    BY <1>2
  <2>2. Tell(g, arg[g], "attached") /\ arg[g] \in Sessions
    BY <2>1 DEF SendStarted, SendAttached, At, HandlersOwnTheirStart
  <2>. QED
    BY <1>1, <2>1, <2>2, TellFacts
<1>3. CASE \E g \in Frontends : SendDetached(g)
  <2>1. PICK g \in Frontends : SendDetached(g)
    BY <1>3
  <2>2. Tell(g, arg[g], "detached") /\ arg[g] \in Sessions
    BY <2>1 DEF SendDetached, Reply, At, HandlersOwnTheirStart
  <2>. QED
    BY <1>1, <2>1, <2>2, TellFacts
<1>4. CASE \E g \in Frontends : Finish(g)
  <2>1. PICK g \in Frontends : Finish(g)
    BY <1>4
  <2>2. Tell(g, arg[g], "stopped") /\ arg[g] \in Sessions /\ completion[arg[g]] = "ok"
    BY <1>1, <2>1 DEF Finish, Reply, At, HandlersOwnTheirStart
  <2>. QED
    BY <1>1, <2>1, <2>2, TellFacts
<1>5. CASE \E x \in Sessions : SendExited(x)
  <2>1. PICK x \in Sessions : SendExited(x)
    BY <1>5
  <2>2. Tell(notify[x], x, "exited") /\ notify[x] \in Frontends
    BY <1>1, <2>1 DEF TypeOK, SendExited
  <2>. QED
    BY <1>1, <2>1, <2>2, TellFacts
<1>. QED
  BY <1>1, <1>2, <1>3, <1>4, <1>5, Tellers

(* An agent runs only when pty-start lets it, and a group that is gone     *)
(* comes back only as one that was never there: in pty-start.              *)
LEMMA GroupChanges ==
    ASSUME TypeOK, HandlersOwnTheirStart, Next, NEW s \in Sessions, group'[s] # group[s]
    PROVE  \/ group'[s] \notin {"held", "running"} /\ group[s] # "gone"
           \/ \E f \in Frontends : pc[f] \in {"spawn", "release"} /\ arg[f] = s
<1>1. group \in [Sessions -> Groups] /\ group' # group
  BY DEF TypeOK
<1>2. ASSUME NEW f \in Frontends, SpawnFork(f) \/ SpawnRelease(f) \/ SpawnFails(f)
      PROVE  pc[f] \in {"spawn", "release"} /\ arg[f] = s
  <2>1. /\ pc[f] \in {"spawn", "release"}
        /\ \E what \in Groups : group' = [group EXCEPT ![arg[f]] = what]
    BY <1>2 DEF SpawnFork, SpawnRelease, SpawnFails, At, Groups
  <2>. QED
    BY <1>1, <2>1
<1>3. ASSUME NEW x \in Sessions, ReapAndProve(x) \/ Kill(x)
      PROVE  group'[s] \notin {"held", "running"} /\ group[s] # "gone"
  BY <1>1, <1>3, ReapFacts, KillFacts DEF Groups
<1>4. ASSUME NEW f \in Frontends, ReapUnwatched(f) \/ Signal(f)
      PROVE  ReapAndProve(arg[f]) \/ Kill(arg[f])
  BY <1>4 DEF ReapUnwatched, Signal
<1>5. ASSUME NEW f \in Frontends, ReapUnwatched(f) \/ Signal(f)
      PROVE  arg[f] \in Sessions
  BY <1>5 DEF ReapUnwatched, Signal, At, HandlersOwnTheirStart
<1>6. ASSUME NEW x \in Sessions, WatcherReaps(x) \/ GuardianFires(x)
      PROVE  ReapAndProve(x) \/ Kill(x)
  BY <1>6 DEF WatcherReaps, GuardianFires
<1>7. ASSUME NEW x \in Sessions, AgentExits(x) \/ HeldAgentDies(x)
      PROVE  group'[s] \notin {"held", "running"} /\ group[s] # "gone"
  BY <1>1, <1>7 DEF AgentExits, HeldAgentDies
<1>. QED
  BY <1>1, <1>2, <1>3, <1>4, <1>5, <1>6, <1>7, GroupMovers

(* The end of a group is reported by the handler that reaped it without a  *)
(* watcher, or by its watcher.                                             *)
LEMMA CompletionChanges ==
    ASSUME TypeOK, HandlersOwnTheirStart, Next, NEW s \in Sessions,
           completion'[s] # completion[s]
    PROVE  /\ completion'[s] = "ok" => group[s] = "gone"
           /\ UNCHANGED group
           /\ \/ \E f \in Frontends : pc[f] = "unregister" /\ arg[f] = s
              \/ watcher[s] \in {"release", "await_guardian"} /\ watcher'[s] = "done"
<1>1. completion' # completion
  OBVIOUS
<1>2. ASSUME NEW f \in Frontends, Unregister(f)
      PROVE  /\ pc[f] = "unregister" /\ arg[f] = s /\ UNCHANGED group
             /\ completion'[s] = "ok" => group[s] = "gone"
  BY <1>1, <1>2 DEF TypeOK, Unregister, At
<1>3. ASSUME NEW x \in Sessions, ReleaseGuardian(x) \/ GuardianEnds(x)
      PROVE  /\ watcher[s] \in {"release", "await_guardian"} /\ watcher'[s] = "done"
             /\ UNCHANGED group
             /\ completion'[s] = "ok" => group[s] = "gone"
  BY <1>1, <1>3 DEF TypeOK, ReleaseGuardian, GuardianEnds, WatcherAt, agents
<1>. QED
  BY <1>1, <1>2, <1>3, Completers

(* A watcher begins its work when pty-start creates it, and never again    *)
(* after it ended.                                                         *)
LEMMA WatcherChanges ==
    ASSUME TypeOK, HandlersOwnTheirStart, Next, NEW s \in Sessions, watcher'[s] # watcher[s]
    PROVE  /\ watcher'[s] # "none"
           /\ \/ \E f \in Frontends : pc[f] = "watch" /\ arg[f] = s
              \/ watcher[s] \notin {"none", "done"}
<1>1. watcher' # watcher
  OBVIOUS
<1>2. ASSUME NEW f \in Frontends, SpawnWatcher(f)
      PROVE  pc[f] = "watch" /\ arg[f] = s /\ watcher'[s] # "none"
  BY <1>1, <1>2 DEF TypeOK, SpawnWatcher, At
<1>3. ASSUME NEW x \in Sessions, \/ WatcherWaits(x) \/ Classify(x) \/ WatcherReaps(x)
                                \/ SendExited(x) \/ ReleaseGuardian(x) \/ GuardianEnds(x)
      PROVE  watcher[s] \notin {"none", "done"} /\ watcher'[s] # "none"
  <2>1. /\ watcher[x] \notin {"none", "done"}
        /\ \E step \in {"classify", "cleanup", "notify", "release", "await_guardian", "done"} :
              watcher' = [watcher EXCEPT ![x] = step]
    BY <1>3 DEF WatcherAt, WatcherWaits, Classify, WatcherReaps, SendExited, ReleaseGuardian,
         GuardianEnds
  <2>. QED
    BY <1>1, <2>1 DEF TypeOK
<1>. QED
  BY <1>1, <1>2, <1>3, WatcherMovers

(* A completion is reported once.                                          *)
LEMMA CompletionIsKept ==
    ASSUME TypeOK, HandlersOwnTheirStart, StartsAreInOrder, EndingsAreProven, Next,
           NEW s \in Sessions, completion[s] # "none"
    PROVE  completion'[s] = completion[s]
<1>1. ~\E f \in Frontends : pc[f] = "unregister" /\ arg[f] = s
  BY DEF StartsAreInOrder
<1>2. watcher[s] \in {"none", "done"}
  BY DEF EndingsAreProven
<1>. QED
  BY <1>1, <1>2, CompletionChanges

(* A session becomes unconfirmed only by its own start.                    *)
LEMMA ConfirmationChanges ==
    ASSUME TypeOK, HandlersOwnTheirStart, StartsAreInOrder, Next, NEW s \in Sessions,
           start_confirmed'[s] # start_confirmed[s]
    PROVE  \/ start_confirmed'[s]
           \/ \E f \in Frontends : pc[f] = "insert" /\ arg[f] = s
<1>1. start_confirmed \in [Sessions -> BOOLEAN] /\ start_confirmed' # start_confirmed
  BY DEF TypeOK
<1>2. CASE \E f \in Frontends : Insert(f)
  BY <1>1, <1>2 DEF Insert, At
<1>3. CASE \E f \in Frontends : CommitStarted(f)
  <2>1. PICK f \in Frontends : CommitStarted(f)
    BY <1>3
  <2>2. pc[f] = "commit" /\ arg[f] \in sessions /\ ~start_confirmed[arg[f]]
    BY <2>1 DEF CommitStarted, At, StartsAreInOrder
  <2>3. start_confirmed' = [start_confirmed EXCEPT ![arg[f]] = f \notin LifecycleFrontends]
    BY <2>1, <2>2 DEF CommitStarted
  <2>4. arg[f] = s
    BY <1>1, <2>3
  <2>5. start_confirmed[s] \in {TRUE, FALSE} /\ start_confirmed'[s] \in {TRUE, FALSE}
    BY <1>1, <2>3
  <2>. QED
    BY <2>2, <2>4, <2>5
<1>4. CASE \E f \in Frontends, x \in Sessions : PtyStartAck(f, x)
  BY <1>1, <1>4 DEF PtyStartAck
<1>. QED
  BY <1>1, <1>2, <1>3, <1>4, Confirmers

(* A connection gets a lease by starting a session or by attaching to it.  *)
LEMMA LeaseChanges ==
    ASSUME TypeOK, HandlersOwnTheirStart, Next, NEW f \in Frontends,
           controlled_session'[f] # controlled_session[f]
    PROVE  \/ controlled_session'[f] = NoSession
           \/ SendStarted(f) /\ controlled_session'[f] = arg[f]
           \/ \E s \in Sessions : PtyAttach(f, s) /\ controlled_session'[f] = s
<1>1. controlled_session' # controlled_session
  OBVIOUS
<1>2. ASSUME NEW g \in Frontends, \/ Disconnect(g) \/ PtyDetach(g) \/ PtyStop(g) \/ Finish(g)
      PROVE  controlled_session'[f] = NoSession
  <2>1. \/ controlled_session' = [controlled_session EXCEPT ![g] = NoSession]
        \/ controlled_session' = [controlled_session EXCEPT ![g] = controlled_session[g]]
        \/ UNCHANGED controlled_session
    BY <1>2 DEF Disconnect, PtyDetach, PtyStop, Finish
  <2>. QED
    BY <2>1 DEF TypeOK
<1>3. ASSUME NEW g \in Frontends, NEW s \in Sessions, PtyStart(g, s)
      PROVE  controlled_session'[f] = NoSession
  BY <1>3 DEF TypeOK, PtyStart
<1>4. ASSUME NEW g \in Frontends, SendStarted(g)
      PROVE  g = f /\ controlled_session'[f] = arg[f]
  BY <1>4 DEF TypeOK, SendStarted
<1>5. ASSUME NEW g \in Frontends, NEW s \in Sessions, PtyAttach(g, s)
      PROVE  g = f /\ controlled_session'[f] = s
  BY <1>5 DEF TypeOK, PtyAttach
<1>. QED
  BY <1>1, <1>2, <1>3, <1>4, <1>5, LeaseMovers

(* Whose session it was stays so.                                          *)
LEMMA BirthIsKept ==
    ASSUME TypeOK, Next, NEW s \in Sessions, birth[s] # NoFrontend
    PROVE  birth'[s] = birth[s]
<1>1. ASSUME NEW f \in Frontends, NEW x \in Sessions, PtyStart(f, x)
      PROVE  birth'[s] = birth[s]
  BY <1>1 DEF TypeOK, PtyStart
<1>. QED
  BY <1>1, BirthMovers

(* How a row enters the table, gets a controller, is made active and has   *)
(* its PtyStarted recorded.                                                *)
RowChanged(s) ==
    /\ s \in sessions' /\ s \notin sessions
         => \E f \in Frontends : Insert(f) /\ arg[f] = s
    /\ controller'[s] # controller[s] /\ controller'[s] # NoFrontend
         => \E f \in Frontends : \/ Insert(f) /\ arg[f] = s
                                 \/ PtyAttach(f, s)
    /\ active'[s] /\ ~active[s]
         => \E f \in Frontends : /\ CommitStarted(f) \/ Activate(f)
                                 /\ arg[f] = s /\ s \in sessions /\ controller[s] = f
    /\ write_phase'[s] = "Written" /\ write_phase[s] # "Written"
         => \E f \in Frontends : CommitStarted(f) /\ arg[f] = s /\ s \in sessions

(* These are the only ways in which a row changes so.                      *)
LEMMA RowChanges ==
    ASSUME TypeOK, Next, NEW s \in Sessions
    PROVE  RowChanged(s)
<1>1. CASE UNCHANGED rows
  BY <1>1 DEF rows, RowChanged
<1>2. ASSUME NEW f \in Frontends, Insert(f)
      PROVE  RowChanged(s)
  <2>1. CASE arg[f] = s
    BY <1>2, <2>1 DEF TypeOK, Insert, RowChanged
  <2>2. CASE arg[f] # s
    BY <1>2, <2>2 DEF TypeOK, Insert, RowChanged
  <2>. QED
    BY <2>1, <2>2
<1>3. ASSUME NEW f \in Frontends, CommitStarted(f)
      PROVE  RowChanged(s)
  <2>1. UNCHANGED <<sessions, controller>>
    BY <1>3 DEF CommitStarted
  <2>2. CASE arg[f] = s /\ s \in sessions
    <3>1. active'[s] = (IF controller[s] = f THEN TRUE ELSE active[s])
      BY <1>3, <2>2 DEF TypeOK, CommitStarted
    <3>. QED
      BY <1>3, <2>1, <2>2, <3>1 DEF RowChanged
  <2>3. CASE arg[f] # s \/ s \notin sessions
    <3>1. \/ UNCHANGED <<active, write_phase>>
          \/ /\ arg[f] # s
             /\ write_phase' = [write_phase EXCEPT ![arg[f]] = "Written"]
             /\ active' = [active EXCEPT ![arg[f]] = IF controller[arg[f]] = f
                                                    THEN TRUE ELSE active[arg[f]]]
      BY <1>3, <2>3 DEF CommitStarted
    <3>2. active'[s] = active[s] /\ write_phase'[s] = write_phase[s]
      BY <3>1 DEF TypeOK
    <3>. QED
      BY <2>1, <3>2 DEF RowChanged
  <2>. QED
    BY <2>2, <2>3
<1>4. ASSUME NEW f \in Frontends, Activate(f)
      PROVE  RowChanged(s)
  <2>1. UNCHANGED <<sessions, controller, write_phase>>
    BY <1>4 DEF Activate
  <2>2. CASE arg[f] = s /\ s \in sessions /\ controller[s] = f
    BY <1>4, <2>1, <2>2 DEF RowChanged
  <2>3. CASE ~(arg[f] = s /\ s \in sessions /\ controller[s] = f)
    <3>1. active'[s] = active[s]
      BY <1>4, <2>3 DEF TypeOK, Activate
    <3>. QED
      BY <2>1, <3>1 DEF RowChanged
  <2>. QED
    BY <2>2, <2>3
<1>5. ASSUME NEW f \in Frontends, NEW x \in Sessions, PtyAttach(f, x)
      PROVE  RowChanged(s)
  BY <1>5 DEF TypeOK, PtyAttach, RowChanged
<1>6. ASSUME NEW f \in Frontends, NEW x \in Sessions, PtyStartAck(f, x)
      PROVE  RowChanged(s)
  BY <1>6 DEF PtyStartAck, RowChanged
<1>7. ASSUME NEW f \in Frontends, \/ Disconnect(f) \/ Unregister(f) \/ PtyDetach(f)
      PROVE  RowChanged(s)
  <2>1. /\ sessions' \subseteq sessions /\ UNCHANGED <<active, write_phase>>
        /\ controller'[s] \in {controller[s], NoFrontend}
    BY <1>7 DEF TypeOK, Disconnect, Unregister, PtyDetach, ReleasedBy
  <2>. QED
    BY <2>1 DEF RowChanged
<1>8. ASSUME NEW f \in Frontends, \/ Claim(f) \/ CommitFailed(f) \/ PtyStop(f)
      PROVE  RowChanged(s)
  <2>1. UNCHANGED <<sessions, controller>>
    BY <1>8 DEF Claim, CommitFailed, PtyStop
  <2>2. \/ UNCHANGED active
        \/ \E x \in Sessions : active' = [active EXCEPT ![x] = FALSE]
    BY <1>8 DEF TypeOK, Claim, CommitFailed, PtyStop
  <2>3. \/ UNCHANGED write_phase
        \/ \E x \in Sessions, w \in {"Writing", "Abandoned"} :
              write_phase' = [write_phase EXCEPT ![x] = w]
    BY <1>8 DEF TypeOK, Claim, CommitFailed, PtyStop
  <2>4. active'[s] => active[s]
    BY <2>2 DEF TypeOK
  <2>5. write_phase'[s] = "Written" => write_phase[s] = "Written"
    BY <2>3 DEF TypeOK
  <2>. QED
    BY <2>1, <2>4, <2>5 DEF RowChanged
<1>9. ASSUME NEW x \in Sessions, Classify(x)
      PROVE  RowChanged(s)
  BY <1>9 DEF Classify, RowChanged
<1>. QED
  BY <1>1, <1>2, <1>3, <1>4, <1>5, <1>6, <1>7, <1>8, <1>9, RowMovers

(* An output reader takes the controller it speaks to from the table, and  *)
(* writes only after it found the lease active once more.                  *)
LEMMA ReaderChanges ==
    ASSUME TypeOK, Next, NEW s \in Sessions
    PROVE  /\ snapshot'[s] # snapshot[s] => ReadOutput(s)
           /\ reader'[s] # reader[s] /\ reader'[s] \in {"snapped", "writing"} =>
                \/ ReadOutput(s)
                \/ RecheckLease(s) /\ StillActive(s)
<1>1. CASE UNCHANGED readers
  BY <1>1 DEF readers
<1>2. ASSUME NEW x \in Sessions, ReadOutput(x) \/ RecheckLease(x) \/ WriteOutput(x), x # s
      PROVE  reader'[s] = reader[s] /\ snapshot'[s] = snapshot[s]
  BY <1>2 DEF TypeOK, ReadOutput, RecheckLease, WriteOutput
<1>3. RecheckLease(s) => /\ UNCHANGED snapshot
                         /\ reader'[s] = IF StillActive(s) THEN "writing" ELSE "ready"
  BY DEF TypeOK, RecheckLease
<1>4. WriteOutput(s) => UNCHANGED snapshot /\ reader'[s] = "ready"
  BY DEF TypeOK, WriteOutput
<1>5. ASSUME NEW f \in Frontends,
             \/ SpawnReader(f) \/ Claim(f) \/ CommitStarted(f) \/ CommitFailed(f)
      PROVE  UNCHANGED snapshot /\ reader'[s] \in {reader[s], "gated", "ready"}
  <2>1. /\ UNCHANGED snapshot
        /\ \/ UNCHANGED reader
           \/ reader' = [reader EXCEPT ![arg[f]] = "gated"]
           \/ OpenGate(arg[f])
    BY <1>5 DEF SpawnReader, Claim, CommitStarted, CommitFailed
  <2>. QED
    BY <2>1 DEF TypeOK, OpenGate
<1>. QED
  BY <1>1, <1>2, <1>3, <1>4, <1>5, ReaderMovers

(* The messages that a handler is about to send, or has just sent.         *)
Spoke(f) ==
    /\ pc'[f] = "detach_send" =>
         \/ pc[f] = "detach_send" /\ arg'[f] = arg[f]
         \/ PtyDetach(f)
         \/ Finish(f) /\ completion[arg[f]] = "ok" /\ arg'[f] = arg[f]
    /\ pc'[f] = "commit" => (pc[f] = "commit" /\ arg'[f] = arg[f]) \/ SendStarted(f)
    /\ pc'[f] = "activate" => (pc[f] = "activate" /\ arg'[f] = arg[f]) \/ SendAttached(f)

(* How a handler gets to a message.                                        *)
LEMMA SpeakerMoves ==
    ASSUME TypeOK, HandlersOwnTheirStart, Next, NEW h \in Frontends
    PROVE  Spoke(h)
<1>1. UNCHANGED <<pc, arg, after>> => Spoke(h)
  BY DEF Spoke
<1>2. ASSUME NEW f \in Frontends, ClientLeaves(f)
      PROVE  Spoke(h)
  BY <1>1, <1>2 DEF ClientLeaves, agents, history, readers, rows, threads, watchers
<1>3. ASSUME NEW f \in Frontends, NEW s \in Sessions, PtyStartAck(f, s)
      PROVE  Spoke(h)
  BY <1>1, <1>3 DEF PtyStartAck, agents, history, readers, threads, watchers, world
<1>4. ASSUME NEW s \in Sessions,
              \/ AgentExits(s) \/ WatcherWaits(s) \/ Classify(s) \/ WatcherReaps(s)
              \/ SendExited(s) \/ ReleaseGuardian(s) \/ GuardianEnds(s)
              \/ GuardianFires(s) \/ HeldAgentDies(s) \/ ReadOutput(s)
              \/ RecheckLease(s) \/ WriteOutput(s)
       PROVE  Spoke(h)
  BY <1>1, <1>4 DEF AgentExits, WatcherWaits, Classify, WatcherReaps, SendExited, ReleaseGuardian,
       GuardianEnds, GuardianFires, HeldAgentDies, ReadOutput, RecheckLease, WriteOutput, agents,
       history, readers, rows, threads, watchers, world
<1>5. ASSUME BrokerDies \/ IdleShutdown
      PROVE  Spoke(h)
  BY <1>1, <1>5 DEF BrokerDies, IdleShutdown, agents, history, readers, rows, threads, watchers
<1>6. ASSUME NEW f \in Frontends, Accept(f) PROVE Spoke(h)
  BY <1>6 DEF TypeOK, Accept, At, Goto, Spoke
<1>7. ASSUME NEW f \in Frontends, HangUp(f) PROVE Spoke(h)
  BY <1>7 DEF TypeOK, HangUp, At, Goto, Spoke
<1>8. ASSUME NEW f \in Frontends, Oversized(f) PROVE Spoke(h)
  BY <1>8 DEF TypeOK, Oversized, At, Goto, Spoke
<1>9. ASSUME NEW f \in Frontends, Disconnect(f) PROVE Spoke(h)
  BY <1>9 DEF TypeOK, Disconnect, At, Goto, UnconfirmedOf, ReleasedBy, Spoke
<1>10. ASSUME NEW f \in Frontends, NEW s \in Sessions, PtyStart(f, s) PROVE Spoke(h)
  BY <1>10 DEF TypeOK, PtyStart, At, Goto, Spoke
<1>11. ASSUME NEW f \in Frontends, SpawnFork(f) PROVE Spoke(h)
  BY <1>11 DEF TypeOK, SpawnFork, At, Goto, Spoke
<1>12. ASSUME NEW f \in Frontends, SpawnRelease(f) PROVE Spoke(h)
  BY <1>12 DEF TypeOK, SpawnRelease, At, Goto, Spoke
<1>13. ASSUME NEW f \in Frontends, SpawnFails(f) PROVE Spoke(h)
  BY <1>13 DEF TypeOK, SpawnFails, At, Goto, Spoke
<1>14. ASSUME NEW f \in Frontends, Insert(f) PROVE Spoke(h)
  BY <1>14 DEF TypeOK, Insert, At, Goto, Spoke
<1>15. ASSUME NEW f \in Frontends, SpawnWatcher(f) PROVE Spoke(h)
  BY <1>15 DEF TypeOK, SpawnWatcher, At, Goto, Spoke
<1>16. ASSUME NEW f \in Frontends, ReapUnwatched(f) PROVE Spoke(h)
  BY <1>16 DEF TypeOK, ReapUnwatched, At, Goto, ReapAndProve, Kill, Spoke
<1>17. ASSUME NEW f \in Frontends, Unregister(f) PROVE Spoke(h)
  BY <1>17 DEF TypeOK, Unregister, At, Goto, Spoke
<1>18. ASSUME NEW f \in Frontends, SpawnReader(f) PROVE Spoke(h)
  BY <1>18 DEF TypeOK, SpawnReader, At, Goto, Spoke
<1>19. ASSUME NEW f \in Frontends, Claim(f) PROVE Spoke(h)
  BY <1>19 DEF TypeOK, Claim, At, Goto, OpenGate, Spoke
<1>20. ASSUME NEW f \in Frontends, SendStarted(f) PROVE Spoke(h)
  BY <1>20 DEF TypeOK, SendStarted, At, Goto, Tell, Spoke
<1>21. ASSUME NEW f \in Frontends, CommitStarted(f) PROVE Spoke(h)
  BY <1>21 DEF TypeOK, CommitStarted, At, Goto, OpenGate, Spoke
<1>22. ASSUME NEW f \in Frontends, CommitFailed(f) PROVE Spoke(h)
  BY <1>22 DEF TypeOK, CommitFailed, At, Goto, OpenGate, Spoke
<1>23. ASSUME NEW f \in Frontends, NEW s \in Sessions, PtyAttach(f, s) PROVE Spoke(h)
  BY <1>23 DEF TypeOK, PtyAttach, At, Goto, Attachable, Spoke
<1>24. ASSUME NEW f \in Frontends, SendAttached(f) PROVE Spoke(h)
  BY <1>24 DEF TypeOK, SendAttached, At, Goto, Tell, Spoke
<1>25. ASSUME NEW f \in Frontends, Activate(f) PROVE Spoke(h)
  BY <1>25 DEF TypeOK, Activate, At, Goto, Spoke
<1>26. ASSUME NEW f \in Frontends, PtyDetach(f) PROVE Spoke(h)
  <2>1. pc'[f] \in {"signal", "detach_send"}
    BY <1>26 DEF TypeOK, PtyDetach, Goto
  <2>2. h # f => pc'[h] = pc[h] /\ arg'[h] = arg[h]
    BY <1>26 DEF TypeOK, PtyDetach, Goto
  <2>. QED
    BY <1>26, <2>1, <2>2 DEF Spoke
<1>27. ASSUME NEW f \in Frontends, SendDetached(f) PROVE Spoke(h)
  BY <1>27 DEF TypeOK, SendDetached, At, Goto, Reply, Tell, Spoke
<1>28. ASSUME NEW f \in Frontends, PtyStop(f) PROVE Spoke(h)
  BY <1>28 DEF TypeOK, PtyStop, At, Goto, Spoke
<1>29. ASSUME NEW f \in Frontends, Signal(f) PROVE Spoke(h)
  BY <1>29 DEF TypeOK, Signal, At, Goto, Kill, Spoke
<1>30. ASSUME NEW f \in Frontends, Finish(f) PROVE Spoke(h)
  <2>1. /\ UNCHANGED arg
        /\ h # f => pc'[h] = pc[h]
    BY <1>30 DEF TypeOK, Finish, Goto, Reply
  <2>2. /\ pc'[f] \in {"idle", "closing", "gone", "detach_send"}
        /\ pc'[f] = "detach_send" => completion[arg[f]] = "ok"
    BY <1>30 DEF TypeOK, Finish, Goto, Reply
  <2>. QED
    BY <1>30, <2>1, <2>2 DEF Spoke
<1>. QED
  BY <1>1, <1>2, <1>3, <1>4, <1>5, <1>6, <1>7, <1>8, <1>9, <1>10, <1>11, <1>12, <1>13, <1>14,
       <1>15, <1>16, <1>17, <1>18, <1>19, <1>20, <1>21, <1>22, <1>23, <1>24, <1>25, <1>26, <1>27,
       <1>28, <1>29, <1>30 DEF Next,
     BrokerStep, Outside, Request, Handle, Watch, Output

-----------------------------------------------------------------------------
(* The conjuncts of the inductive invariant that they preserve. *)

(* The steps of pty-start keep its row, its watcher and the outcome of the *)
(* write of PtyStarted in step.                                            *)
LEMMA OrderStep ==
    ASSUME ConstantsAssumption, TypeOK, HandlersOwnTheirStart, NewSessionsAreFresh,
           StartsKeepTheirRow, EndedSessionsAreForgotten, UnfinishedStartsAreHeld,
           LeaseAgreement, StartsAreInOrder, Next
    PROVE  StartsAreInOrder'
<1>1. UNCHANGED <<pc, arg, after, sessions, write_phase, start_confirmed, watcher, completion>>
         => StartsAreInOrder'
  BY DEF StartsAreInOrder, HandlersOwnTheirStart, StartsKeepTheirRow, Starting, InStart,
       StartSteps, StartReaps, ConstantsAssumption
<1>2. ASSUME NEW f \in Frontends, ClientLeaves(f)
      PROVE  StartsAreInOrder'
  BY <1>1, <1>2 DEF ClientLeaves, agents, history, readers, rows, threads, watchers
<1>3. ASSUME NEW s \in Sessions,
              \/ AgentExits(s) \/ GuardianFires(s) \/ HeldAgentDies(s) \/ ReadOutput(s)
              \/ RecheckLease(s) \/ WriteOutput(s)
       PROVE  StartsAreInOrder'
  BY <1>1, <1>3 DEF AgentExits, GuardianFires, HeldAgentDies, ReadOutput, RecheckLease,
       WriteOutput, agents, history, readers, rows, threads, watchers, world
<1>4. ASSUME BrokerDies \/ IdleShutdown
      PROVE  StartsAreInOrder'
  BY <1>1, <1>4 DEF BrokerDies, IdleShutdown, agents, history, readers, rows, threads, watchers
<1>5. ASSUME NEW f \in Frontends, Accept(f) PROVE StartsAreInOrder'
  BY <1>5 DEF TypeOK, Accept, At, Goto, rows, watchers, StartsAreInOrder, HandlersOwnTheirStart,
       StartsKeepTheirRow, Starting, InStart, StartSteps, StartReaps, ConstantsAssumption
<1>6. ASSUME NEW f \in Frontends, HangUp(f) PROVE StartsAreInOrder'
  BY <1>6 DEF TypeOK, HangUp, At, Goto, rows, watchers, StartsAreInOrder, HandlersOwnTheirStart,
       StartsKeepTheirRow, Starting, InStart, StartSteps, StartReaps, ConstantsAssumption
<1>7. ASSUME NEW f \in Frontends, Oversized(f) PROVE StartsAreInOrder'
  BY <1>7 DEF TypeOK, Oversized, At, Goto, rows, watchers, StartsAreInOrder,
       HandlersOwnTheirStart, StartsKeepTheirRow, Starting, InStart, StartSteps, StartReaps,
       ConstantsAssumption
<1>8. ASSUME NEW f \in Frontends, Disconnect(f) PROVE StartsAreInOrder'
  BY <1>8 DEF TypeOK, Disconnect, At, Goto, UnconfirmedOf, ReleasedBy, watchers,
       EndedSessionsAreForgotten, StartsAreInOrder, HandlersOwnTheirStart, StartsKeepTheirRow,
       Starting, InStart, StartSteps, StartReaps, ConstantsAssumption
<1>9. ASSUME NEW f \in Frontends, NEW s \in Sessions, PtyStart(f, s) PROVE StartsAreInOrder'
  <2>1. /\ UNCHANGED <<rows, watchers, after>>
        /\ \A g \in Frontends \ {f} : pc'[g] = pc[g] /\ arg'[g] = arg[g]
    BY <1>9 DEF TypeOK, PtyStart, Goto
  <2>2. pc'[f] \in {"idle", "spawn"}
    BY <1>9 DEF TypeOK, PtyStart, At, Goto
  <2>3. \A g \in Frontends : InStart(g)' => g # f /\ InStart(g)
    BY <2>1, <2>2 DEF InStart, StartSteps
  <2>. QED
    BY <2>1, <2>2, <2>3 DEF rows, watchers, StartsAreInOrder
<1>10. ASSUME NEW f \in Frontends, SpawnFork(f) PROVE StartsAreInOrder'
  <2>1. pc[f] = "spawn" /\ arg[f] \notin sessions
    BY <1>10 DEF SpawnFork, At, NewSessionsAreFresh, Unspawned, Unregistered
  <2>2. /\ UNCHANGED <<rows, arg, after, watchers>>
        /\ pc'[f] = "release" /\ \A g \in Frontends \ {f} : pc'[g] = pc[g]
    BY <1>10 DEF TypeOK, SpawnFork, Goto
  <2>. QED
    BY <2>1, <2>2 DEF rows, watchers, StartsAreInOrder, InStart
<1>11. ASSUME NEW f \in Frontends, SpawnRelease(f) PROVE StartsAreInOrder'
  BY <1>11 DEF TypeOK, SpawnRelease, At, Goto, rows, watchers, StartsAreInOrder,
       HandlersOwnTheirStart, StartsKeepTheirRow, Starting, InStart, StartSteps, StartReaps,
       ConstantsAssumption
<1>12. ASSUME NEW f \in Frontends, SpawnFails(f) PROVE StartsAreInOrder'
  BY <1>12 DEF TypeOK, SpawnFails, At, Goto, rows, watchers, StartsAreInOrder,
       HandlersOwnTheirStart, StartsKeepTheirRow, Starting, InStart, StartSteps, StartReaps,
       ConstantsAssumption
<1>13. ASSUME NEW f \in Frontends, Insert(f) PROVE StartsAreInOrder'
  BY <1>13 DEF TypeOK, Insert, At, Goto, watchers, NewSessionsAreFresh, Unregistered,
       StartsAreInOrder, HandlersOwnTheirStart, StartsKeepTheirRow, Starting, InStart, StartSteps,
       StartReaps, ConstantsAssumption
<1>14. ASSUME NEW f \in Frontends, SpawnWatcher(f) PROVE StartsAreInOrder'
  <2>0. pc[f] = "watch" /\ birth[arg[f]] = f /\ arg[f] \in Sessions
    BY <1>14 DEF SpawnWatcher, At, HandlersOwnTheirStart, Starting, InStart, StartSteps
  <2>1. /\ UNCHANGED <<rows, arg, after, completion>>
        /\ \A g \in Frontends \ {f} : pc'[g] = pc[g]
    BY <1>14 DEF TypeOK, SpawnWatcher, Goto
  <2>2. \A g \in Frontends \ {f} : Starting(g) => arg[g] # arg[f]
    BY <2>0 DEF HandlersOwnTheirStart
  <2>3. CASE watcher' = [watcher EXCEPT ![arg[f]] = "waiting"] /\ pc'[f] = "reader"
    BY <2>0, <2>1, <2>2, <2>3 DEF TypeOK, rows, StartsAreInOrder, Starting, InStart, StartSteps
  <2>4. CASE watcher' = watcher /\ pc'[f] = "unwatched"
    BY <2>0, <2>1, <2>4 DEF rows, StartsAreInOrder, InStart, StartSteps
  <2>. QED
    BY <1>14, <2>3, <2>4 DEF TypeOK, SpawnWatcher, Goto
<1>15. ASSUME NEW f \in Frontends, ReapUnwatched(f) PROVE StartsAreInOrder'
  BY <1>15 DEF TypeOK, ReapUnwatched, At, Goto, ReapAndProve, Kill, rows, watchers,
       StartsAreInOrder, HandlersOwnTheirStart, StartsKeepTheirRow, Starting, InStart, StartSteps,
       StartReaps, ConstantsAssumption
<1>16. ASSUME NEW f \in Frontends, Unregister(f) PROVE StartsAreInOrder'
  BY <1>16 DEF TypeOK, Unregister, At, Goto, StartsAreInOrder, HandlersOwnTheirStart,
       StartsKeepTheirRow, Starting, InStart, StartSteps, StartReaps, ConstantsAssumption
<1>17. ASSUME NEW f \in Frontends, SpawnReader(f) PROVE StartsAreInOrder'
  BY <1>17 DEF TypeOK, SpawnReader, At, Goto, rows, watchers, StartsAreInOrder,
       HandlersOwnTheirStart, StartsKeepTheirRow, Starting, InStart, StartSteps, StartReaps,
       ConstantsAssumption
<1>18. ASSUME NEW f \in Frontends, Claim(f) PROVE StartsAreInOrder'
  BY <1>18 DEF TypeOK, Claim, At, Goto, OpenGate, watchers, StartsAreInOrder,
       HandlersOwnTheirStart, StartsKeepTheirRow, Starting, InStart, StartSteps, StartReaps,
       ConstantsAssumption
<1>19. ASSUME NEW f \in Frontends, SendStarted(f) PROVE StartsAreInOrder'
  BY <1>19 DEF TypeOK, SendStarted, At, Goto, Tell, rows, watchers, StartsAreInOrder,
       HandlersOwnTheirStart, StartsKeepTheirRow, Starting, InStart, StartSteps, StartReaps,
       ConstantsAssumption
<1>20. ASSUME NEW f \in Frontends, CommitStarted(f) PROVE StartsAreInOrder'
  <2>1. /\ pc[f] = "commit" /\ birth[arg[f]] = f
        /\ arg[f] \in sessions /\ watcher[arg[f]] # "none"
    BY <1>20 DEF CommitStarted, At, StartsAreInOrder, HandlersOwnTheirStart, Starting, InStart,
         StartSteps
  <2>2. /\ UNCHANGED <<sessions, arg, after, watchers>>
        /\ pc'[f] = "idle" /\ \A g \in Frontends \ {f} : pc'[g] = pc[g]
        /\ write_phase' = [write_phase EXCEPT ![arg[f]] = "Written"]
    BY <1>20, <2>1 DEF TypeOK, CommitStarted, Goto
  <2>3. \A g \in Frontends \ {f} : InStart(g) => arg[g] # arg[f]
    BY <2>1 DEF HandlersOwnTheirStart, Starting
  <2>4. \A s \in sessions \ {arg[f]} : write_phase'[s] = write_phase[s]
    BY <2>2 DEF TypeOK
  <2>5. ~InStart(f)'
    BY <2>2 DEF InStart, StartSteps
  <2>6. \A g \in Frontends \ {f} : InStart(g)' = InStart(g)
    BY <2>2 DEF InStart
  <2>7. \A g \in Frontends : pc'[g] \in StartSteps => g # f /\ pc[g] = pc'[g] /\ InStart(g)
    BY <2>2 DEF InStart, StartSteps
  <2>. QED
    <3>1. start_confirmed' = [start_confirmed EXCEPT ![arg[f]] = f \notin LifecycleFrontends]
      BY <1>20, <2>1 DEF CommitStarted
    <3>2. \A s \in sessions \ {arg[f]} : start_confirmed'[s] = start_confirmed[s]
      BY <3>1 DEF TypeOK
    <3>3. \A s \in sessions : write_phase'[s] # "Written" => s # arg[f]
      BY <2>1, <2>2 DEF TypeOK
    <3>. QED
      BY <2>1, <2>2, <2>3, <2>4, <2>5, <2>6, <2>7, <3>2, <3>3 DEF watchers, StartsAreInOrder,
         StartSteps
<1>21. ASSUME NEW f \in Frontends, CommitFailed(f) PROVE StartsAreInOrder'
  BY <1>21 DEF TypeOK, CommitFailed, At, Goto, OpenGate, watchers, StartsAreInOrder,
       HandlersOwnTheirStart, StartsKeepTheirRow, Starting, InStart, StartSteps, StartReaps,
       ConstantsAssumption
<1>22. ASSUME NEW f \in Frontends, NEW s \in Sessions, PtyStartAck(f, s) PROVE StartsAreInOrder'
  BY <1>22 DEF TypeOK, PtyStartAck, At, Goto, threads, watchers, StartsAreInOrder,
       HandlersOwnTheirStart, StartsKeepTheirRow, Starting, InStart, StartSteps, StartReaps,
       ConstantsAssumption
<1>23. ASSUME NEW f \in Frontends, NEW s \in Sessions, PtyAttach(f, s) PROVE StartsAreInOrder'
  BY <1>23 DEF TypeOK, PtyAttach, At, Goto, Attachable, watchers, StartsAreInOrder,
       HandlersOwnTheirStart, StartsKeepTheirRow, Starting, InStart, StartSteps, StartReaps,
       ConstantsAssumption
<1>24. ASSUME NEW f \in Frontends, SendAttached(f) PROVE StartsAreInOrder'
  BY <1>24 DEF TypeOK, SendAttached, At, Goto, Tell, rows, watchers, StartsAreInOrder,
       HandlersOwnTheirStart, StartsKeepTheirRow, Starting, InStart, StartSteps, StartReaps,
       ConstantsAssumption
<1>25. ASSUME NEW f \in Frontends, Activate(f) PROVE StartsAreInOrder'
  BY <1>25 DEF TypeOK, Activate, At, Goto, watchers, StartsAreInOrder, HandlersOwnTheirStart,
       StartsKeepTheirRow, Starting, InStart, StartSteps, StartReaps, ConstantsAssumption
<1>26. ASSUME NEW f \in Frontends, PtyDetach(f) PROVE StartsAreInOrder'
  BY <1>26 DEF TypeOK, PtyDetach, At, Goto, UnconfirmedOf, watchers, StartsAreInOrder,
       HandlersOwnTheirStart, StartsKeepTheirRow, Starting, InStart, StartSteps, StartReaps,
       ConstantsAssumption
<1>27. ASSUME NEW f \in Frontends, SendDetached(f) PROVE StartsAreInOrder'
  BY <1>27 DEF TypeOK, SendDetached, At, Goto, Reply, Tell, rows, watchers, StartsAreInOrder,
       HandlersOwnTheirStart, StartsKeepTheirRow, Starting, InStart, StartSteps, StartReaps,
       ConstantsAssumption
<1>28. ASSUME NEW f \in Frontends, PtyStop(f) PROVE StartsAreInOrder'
  <2>1. /\ UNCHANGED <<sessions, write_phase, start_confirmed, watcher, completion>>
        /\ \A g \in Frontends \ {f} : pc'[g] = pc[g] /\ arg'[g] = arg[g] /\ after'[g] = after[g]
    BY <1>28 DEF TypeOK, PtyStop, Goto, watchers
  <2>2. pc'[f] = "idle" \/ (pc'[f] = "signal" /\ after'[f] = "stop")
    BY <1>28 DEF TypeOK, PtyStop, At, Goto
  <2>3. \A g \in Frontends : InStart(g)' => g # f /\ InStart(g)
    BY <2>1, <2>2 DEF InStart, StartSteps, StartReaps
  <2>. QED
    BY <2>1, <2>2, <2>3 DEF StartsAreInOrder
<1>29. ASSUME NEW f \in Frontends, Signal(f) PROVE StartsAreInOrder'
  BY <1>29 DEF TypeOK, Signal, At, Goto, Kill, rows, watchers, StartsAreInOrder,
       HandlersOwnTheirStart, StartsKeepTheirRow, Starting, InStart, StartSteps, StartReaps,
       ConstantsAssumption
<1>30. ASSUME NEW f \in Frontends, Finish(f) PROVE StartsAreInOrder'
  BY <1>30 DEF TypeOK, Finish, At, Goto, Reply, Tell, rows, watchers, StartsAreInOrder,
       HandlersOwnTheirStart, StartsKeepTheirRow, Starting, InStart, StartSteps, StartReaps,
       ConstantsAssumption
<1>31. ASSUME NEW s \in Sessions, WatcherWaits(s) PROVE StartsAreInOrder'
  BY <1>31 DEF TypeOK, WatcherWaits, WatcherAt, rows, threads, StartsAreInOrder,
       HandlersOwnTheirStart, StartsKeepTheirRow, Starting, InStart, StartSteps, StartReaps,
       ConstantsAssumption
<1>32. ASSUME NEW s \in Sessions, Classify(s) PROVE StartsAreInOrder'
  BY <1>32 DEF TypeOK, Classify, WatcherAt, Settled, ExitNotice, threads, StartsAreInOrder,
       HandlersOwnTheirStart, StartsKeepTheirRow, Starting, InStart, StartSteps, StartReaps,
       ConstantsAssumption
<1>33. ASSUME NEW s \in Sessions, WatcherReaps(s) PROVE StartsAreInOrder'
  BY <1>33 DEF TypeOK, WatcherReaps, WatcherAt, ReapAndProve, Kill, rows, threads,
       StartsAreInOrder, HandlersOwnTheirStart, StartsKeepTheirRow, Starting, InStart, StartSteps,
       StartReaps, ConstantsAssumption
<1>34. ASSUME NEW s \in Sessions, SendExited(s) PROVE StartsAreInOrder'
  BY <1>34 DEF TypeOK, SendExited, WatcherAt, Tell, rows, threads, StartsAreInOrder,
       HandlersOwnTheirStart, StartsKeepTheirRow, Starting, InStart, StartSteps, StartReaps,
       ConstantsAssumption
<1>35. ASSUME NEW s \in Sessions, ReleaseGuardian(s) PROVE StartsAreInOrder'
  <2>1. /\ UNCHANGED <<rows, threads>>
        /\ watcher[s] = "release" /\ watcher'[s] \in {"done", "await_guardian"}
        /\ \A x \in Sessions \ {s} : watcher'[x] = watcher[x] /\ completion'[x] = completion[x]
    BY <1>35 DEF TypeOK, ReleaseGuardian, WatcherAt
  <2>2. \A f \in Frontends : InStart(f)' = InStart(f)
    BY <2>1 DEF threads, InStart
  <2>3. \A f \in Frontends : InStart(f) => arg[f] \in Sessions
    BY DEF HandlersOwnTheirStart, InStart, StartSteps
  <2>4. s \notin sessions
    BY <2>1 DEF EndedSessionsAreForgotten
  <2>5. \A f \in Frontends : pc[f] \in StartSteps => InStart(f)
    BY DEF InStart
  <2>. QED
    BY <2>1, <2>2, <2>3, <2>4, <2>5 DEF TypeOK, rows, threads, StartsAreInOrder, StartSteps
<1>36. ASSUME NEW s \in Sessions, GuardianEnds(s) PROVE StartsAreInOrder'
  BY <1>36 DEF TypeOK, GuardianEnds, WatcherAt, rows, threads, StartsAreInOrder,
       HandlersOwnTheirStart, StartsKeepTheirRow, Starting, InStart, StartSteps, StartReaps,
       ConstantsAssumption
<1>. QED
  BY <1>1, <1>2, <1>3, <1>4, <1>5, <1>6, <1>7, <1>8, <1>9, <1>10, <1>11, <1>12, <1>13, <1>14,
       <1>15, <1>16, <1>17, <1>18, <1>19, <1>20, <1>21, <1>22, <1>23, <1>24, <1>25, <1>26, <1>27,
       <1>28, <1>29, <1>30, <1>31, <1>32, <1>33, <1>34, <1>35, <1>36 DEF Next,
     BrokerStep, Outside, Request, Handle, Watch, Output

(* A handler that is not starting its session took it from the table or    *)
(* from its connection's lease, and pty-start takes one that nobody asked  *)
(* for.                                                                    *)
Busy(f) == pc[f] \notin {"unborn", "idle", "closing", "gone"}

Fresh(s) == \/ birth[s] = NoFrontend
            \/ \E f \in Frontends : pc[f] \in {"spawn", "release", "insert"} /\ arg[f] = s

Came(f) ==
    /\ Busy(f)' /\ ~Starting(f)' =>
         \/ Busy(f) /\ ~Starting(f) /\ arg'[f] = arg[f]
         \/ arg'[f] \in sessions
         \/ controlled_session[f] # NoSession /\ arg'[f] = controlled_session[f]
    /\ pc'[f] \in {"spawn", "release", "insert"} =>
         \/ pc[f] \in {"spawn", "release", "insert"} /\ arg'[f] = arg[f]
         \/ birth[arg'[f]] = NoFrontend

(* Where a handler comes from.                                             *)
LEMMA HandlerMoves ==
    ASSUME TypeOK, HandlersOwnTheirStart, Next, NEW h \in Frontends
    PROVE  Came(h)
<1>1. UNCHANGED <<pc, arg, after, birth>> => Came(h)
  BY DEF Came, Busy, Starting, InStart, StartSteps, StartReaps
<1>2. ASSUME NEW f \in Frontends, ClientLeaves(f)
      PROVE  Came(h)
  BY <1>1, <1>2 DEF ClientLeaves, agents, history, readers, rows, threads, watchers
<1>3. ASSUME NEW f \in Frontends, NEW s \in Sessions, PtyStartAck(f, s)
      PROVE  Came(h)
  BY <1>1, <1>3 DEF PtyStartAck, agents, history, readers, threads, watchers, world
<1>4. ASSUME NEW s \in Sessions,
              \/ AgentExits(s) \/ WatcherWaits(s) \/ Classify(s) \/ WatcherReaps(s)
              \/ SendExited(s) \/ ReleaseGuardian(s) \/ GuardianEnds(s)
              \/ GuardianFires(s) \/ HeldAgentDies(s) \/ ReadOutput(s)
              \/ RecheckLease(s) \/ WriteOutput(s)
       PROVE  Came(h)
  BY <1>1, <1>4 DEF AgentExits, WatcherWaits, Classify, WatcherReaps, SendExited, ReleaseGuardian,
       GuardianEnds, GuardianFires, HeldAgentDies, ReadOutput, RecheckLease, WriteOutput, agents,
       history, readers, rows, threads, watchers, world
<1>5. ASSUME BrokerDies \/ IdleShutdown
      PROVE  Came(h)
  BY <1>1, <1>5 DEF BrokerDies, IdleShutdown, agents, history, readers, rows, threads, watchers
<1>6. ASSUME NEW f \in Frontends, Accept(f) PROVE Came(h)
  BY <1>6 DEF TypeOK, Accept, At, Goto, history, Came, Busy, Starting, InStart, StartSteps,
       StartReaps
<1>7. ASSUME NEW f \in Frontends, HangUp(f) PROVE Came(h)
  BY <1>7 DEF TypeOK, HangUp, At, Goto, history, Came, Busy, Starting, InStart, StartSteps,
       StartReaps
<1>8. ASSUME NEW f \in Frontends, Oversized(f) PROVE Came(h)
  BY <1>8 DEF TypeOK, Oversized, At, Goto, history, Came, Busy, Starting, InStart, StartSteps,
       StartReaps
<1>9. ASSUME NEW f \in Frontends, Disconnect(f) PROVE Came(h)
  BY <1>9 DEF TypeOK, Disconnect, At, Goto, UnconfirmedOf, ReleasedBy, history, Came, Busy,
       Starting, InStart, StartSteps, StartReaps
<1>10. ASSUME NEW f \in Frontends, NEW s \in Sessions, PtyStart(f, s) PROVE Came(h)
  BY <1>10 DEF TypeOK, PtyStart, At, Goto, Came, Busy, Starting, InStart, StartSteps, StartReaps
<1>11. ASSUME NEW f \in Frontends, SpawnFork(f) PROVE Came(h)
  BY <1>11 DEF TypeOK, SpawnFork, At, Goto, history, Came, Busy, Starting, InStart, StartSteps,
       StartReaps
<1>12. ASSUME NEW f \in Frontends, SpawnRelease(f) PROVE Came(h)
  BY <1>12 DEF TypeOK, SpawnRelease, At, Goto, history, Came, Busy, Starting, InStart, StartSteps,
       StartReaps
<1>13. ASSUME NEW f \in Frontends, SpawnFails(f) PROVE Came(h)
  BY <1>13 DEF TypeOK, SpawnFails, At, Goto, history, Came, Busy, Starting, InStart, StartSteps,
       StartReaps
<1>14. ASSUME NEW f \in Frontends, Insert(f) PROVE Came(h)
  BY <1>14 DEF TypeOK, Insert, At, Goto, history, Came, Busy, Starting, InStart, StartSteps,
       StartReaps
<1>15. ASSUME NEW f \in Frontends, SpawnWatcher(f) PROVE Came(h)
  BY <1>15 DEF TypeOK, SpawnWatcher, At, Goto, history, Came, Busy, Starting, InStart, StartSteps,
       StartReaps
<1>16. ASSUME NEW f \in Frontends, ReapUnwatched(f) PROVE Came(h)
  BY <1>16 DEF TypeOK, ReapUnwatched, At, Goto, ReapAndProve, Kill, history, Came, Busy, Starting,
       InStart, StartSteps, StartReaps
<1>17. ASSUME NEW f \in Frontends, Unregister(f) PROVE Came(h)
  BY <1>17 DEF TypeOK, Unregister, At, Goto, history, Came, Busy, Starting, InStart, StartSteps,
       StartReaps
<1>18. ASSUME NEW f \in Frontends, SpawnReader(f) PROVE Came(h)
  BY <1>18 DEF TypeOK, SpawnReader, At, Goto, history, Came, Busy, Starting, InStart, StartSteps,
       StartReaps
<1>19. ASSUME NEW f \in Frontends, Claim(f) PROVE Came(h)
  BY <1>19 DEF TypeOK, Claim, At, Goto, OpenGate, history, Came, Busy, Starting, InStart,
       StartSteps, StartReaps
<1>20. ASSUME NEW f \in Frontends, SendStarted(f) PROVE Came(h)
  BY <1>20 DEF TypeOK, SendStarted, At, Goto, Tell, Came, Busy, Starting, InStart, StartSteps,
       StartReaps
<1>21. ASSUME NEW f \in Frontends, CommitStarted(f) PROVE Came(h)
  BY <1>21 DEF TypeOK, CommitStarted, At, Goto, OpenGate, history, Came, Busy, Starting, InStart,
       StartSteps, StartReaps
<1>22. ASSUME NEW f \in Frontends, CommitFailed(f) PROVE Came(h)
  BY <1>22 DEF TypeOK, CommitFailed, At, Goto, OpenGate, history, Came, Busy, Starting, InStart,
       StartSteps, StartReaps
<1>23. ASSUME NEW f \in Frontends, NEW s \in Sessions, PtyAttach(f, s) PROVE Came(h)
  BY <1>23 DEF TypeOK, PtyAttach, At, Goto, Attachable, history, Came, Busy, Starting, InStart,
       StartSteps, StartReaps
<1>24. ASSUME NEW f \in Frontends, SendAttached(f) PROVE Came(h)
  BY <1>24 DEF TypeOK, SendAttached, At, Goto, Tell, Came, Busy, Starting, InStart, StartSteps,
       StartReaps
<1>25. ASSUME NEW f \in Frontends, Activate(f) PROVE Came(h)
  BY <1>25 DEF TypeOK, Activate, At, Goto, history, Came, Busy, Starting, InStart, StartSteps,
       StartReaps
<1>26. ASSUME NEW f \in Frontends, PtyDetach(f) PROVE Came(h)
  BY <1>26 DEF TypeOK, PtyDetach, At, Goto, UnconfirmedOf, history, Came, Busy, Starting, InStart,
       StartSteps, StartReaps
<1>27. ASSUME NEW f \in Frontends, SendDetached(f) PROVE Came(h)
  BY <1>27 DEF TypeOK, SendDetached, At, Goto, Reply, Tell, Came, Busy, Starting, InStart,
       StartSteps, StartReaps
<1>28. ASSUME NEW f \in Frontends, PtyStop(f) PROVE Came(h)
  BY <1>28 DEF TypeOK, PtyStop, At, Goto, history, Came, Busy, Starting, InStart, StartSteps,
       StartReaps
<1>29. ASSUME NEW f \in Frontends, Signal(f) PROVE Came(h)
  BY <1>29 DEF TypeOK, Signal, At, Goto, Kill, history, Came, Busy, Starting, InStart, StartSteps,
       StartReaps
<1>30. ASSUME NEW f \in Frontends, Finish(f) PROVE Came(h)
  BY <1>30 DEF TypeOK, Finish, At, Goto, Reply, Tell, Came, Busy, Starting, InStart, StartSteps,
       StartReaps
<1>. QED
  BY <1>1, <1>2, <1>3, <1>4, <1>5, <1>6, <1>7, <1>8, <1>9, <1>10, <1>11, <1>12, <1>13, <1>14,
       <1>15, <1>16, <1>17, <1>18, <1>19, <1>20, <1>21, <1>22, <1>23, <1>24, <1>25, <1>26, <1>27,
       <1>28, <1>29, <1>30 DEF Next,
     BrokerStep, Outside, Request, Handle, Watch, Output

(* Once a session was started it is not fresh again.                       *)
LEMMA FreshIsOld ==
    ASSUME TypeOK, HandlersOwnTheirStart, Next, NEW s \in Sessions, Fresh(s)'
    PROVE  Fresh(s)
<1>1. CASE birth'[s] = NoFrontend
  <2>1. ASSUME NEW f \in Frontends, NEW x \in Sessions, PtyStart(f, x)
        PROVE  birth[s] = NoFrontend
    BY <1>1, <2>1 DEF TypeOK, PtyStart
  <2>. QED
    BY <1>1, <2>1, BirthMovers DEF Fresh
<1>2. ASSUME NEW f \in Frontends, pc'[f] \in {"spawn", "release", "insert"}, arg'[f] = s
      PROVE  Fresh(s)
  BY <1>2, HandlerMoves DEF Came, Fresh
<1>. QED
  BY <1>1, <1>2 DEF Fresh

(* Nobody hears of a session before its row is there.                      *)
LEMMA UnheardStep ==
    ASSUME ConstantsAssumption, TypeOK, HandlersOwnTheirStart, NewSessionsAreFresh,
           NewSessionsAreUnheard, StartsAreInOrder, HandlersOwnTheirStart', Next
    PROVE  NewSessionsAreUnheard'
<1>1. ASSUME NEW s \in Sessions, Fresh(s), NEW f \in Frontends
      PROVE  /\ Unregistered(s) /\ told[f][s] = "none"
             /\ Busy(f) /\ arg[f] = s => Starting(f)
  BY <1>1 DEF Fresh, NewSessionsAreFresh, Unspawned, NewSessionsAreUnheard, Unheard, Busy
<1>2. ASSUME NEW s \in Sessions, Fresh(s), NEW f \in Frontends
      PROVE  told'[f][s] = "none"
  <2>1. SUFFICES ASSUME told'[f][s] # told[f][s]
                 PROVE  FALSE
    BY <1>1, <1>2
  <2>2. Unregistered(s) /\ (Busy(f) /\ arg[f] = s => Starting(f))
    BY <1>1, <1>2
  <2>3. CASE SendStarted(f) /\ arg[f] = s
    BY <2>2, <2>3 DEF SendStarted, At, StartsAreInOrder, Unregistered
  <2>4. CASE (SendAttached(f) \/ SendDetached(f)) /\ arg[f] = s
    BY <2>2, <2>4 DEF SendAttached, SendDetached, At, Busy, Starting, InStart, StartSteps
  <2>5. CASE completion[s] = "ok" \/ notify[s] = f
    BY <2>2, <2>5 DEF Unregistered, ConstantsAssumption
  <2>. QED
    BY <2>1, <2>3, <2>4, <2>5, ToldChanges
<1>3. ASSUME NEW s \in Sessions, Fresh(s), NEW f \in Frontends, Busy(f)', arg'[f] = s
      PROVE  Starting(f)'
  <2>1. /\ s \notin sessions /\ controlled_session[f] # s
        /\ Busy(f) /\ arg[f] = s => Starting(f)
    BY <1>1, <1>3 DEF Unregistered
  <2>. QED
    BY <1>3, <2>1, HandlerMoves DEF Came
<1>4. ASSUME NEW s \in Sessions, Fresh(s)'
      PROVE  /\ Unheard(s)'
             /\ \A f \in Frontends :
                   /\ told'[f][s] = "none"
                   /\ Busy(f)' /\ arg'[f] = s => Starting(f)'
  BY <1>2, <1>3, <1>4, FreshIsOld DEF Unheard, Busy
<1>5. ASSUME NEW f \in Frontends, pc'[f] \in {"spawn", "release", "insert"}
      PROVE  Unheard(arg[f])'
  <2>1. PICK s \in Sessions : arg'[f] = s
    BY <1>5 DEF HandlersOwnTheirStart
  <2>2. Fresh(s)'
    BY <1>5, <2>1 DEF Fresh
  <2>. QED
    BY <1>4, <2>1, <2>2 DEF Unheard, Busy
<1>. QED
  BY <1>4, <1>5 DEF NewSessionsAreUnheard, Fresh

(* PtyStopped is only ever said of a group proven gone: completions are    *)
(* reported once, and no group that is gone comes back.                    *)
LEMMA ProvenStep ==
    ASSUME ConstantsAssumption, TypeOK, HandlersOwnTheirStart, NewSessionsAreFresh,
           StartsAreInOrder, EndingsAreProven, Next
    PROVE  EndingsAreProven'
<1>1. ASSUME NEW s \in Sessions, completion[s] # "none"
      PROVE  completion'[s] = completion[s]
  BY <1>1, CompletionIsKept
<1>2. ASSUME NEW s \in Sessions, completion'[s] = "ok"
      PROVE  group'[s] = "gone"
  <2>1. CASE completion[s] = "ok"
    <3>1. ~\E f \in Frontends : pc[f] \in {"spawn", "release"} /\ arg[f] = s
      BY <2>1 DEF NewSessionsAreFresh, Unspawned, Unregistered
    <3>2. group[s] = "gone"
      BY <2>1 DEF EndingsAreProven
    <3>. QED
      BY <3>1, <3>2, GroupChanges
  <2>2. CASE completion[s] # "ok"
    BY <1>2, <2>2, CompletionChanges
  <2>. QED
    BY <2>1, <2>2
<1>3. ASSUME NEW s \in Sessions, watcher'[s] \notin {"none", "done"}
      PROVE  completion'[s] = "none"
  <2>1. CASE completion[s] = "none"
    <3>1. ASSUME completion'[s] # completion[s]
          PROVE  FALSE
      <4>1. PICK f \in Frontends : pc[f] = "unregister" /\ arg[f] = s
        BY <1>3, <3>1, CompletionChanges
      <4>2. watcher[s] = "none"
        BY <4>1 DEF StartsAreInOrder
      <4>3. \E g \in Frontends : Unregister(g)
        BY <3>1, <4>2, Completers DEF TypeOK, ReleaseGuardian, GuardianEnds, WatcherAt
      <4>. QED
        BY <1>3, <4>2, <4>3 DEF Unregister
    <3>. QED
      BY <2>1, <3>1
  <2>2. CASE completion[s] # "none"
    <3>1. watcher[s] \in {"none", "done"}
      BY <2>2 DEF EndingsAreProven
    <3>2. ~\E f \in Frontends : pc[f] = "watch" /\ arg[f] = s
      BY <2>2 DEF StartsAreInOrder
    <3>. QED
      BY <1>3, <3>1, <3>2, WatcherChanges
  <2>. QED
    BY <2>1, <2>2
<1>4. ASSUME NEW f \in Frontends, NEW s \in Sessions, told'[f][s] = "stopped"
      PROVE  completion'[s] = "ok"
  <2>1. completion[s] = "ok"
    BY <1>4, ToldChanges DEF EndingsAreProven
  <2>. QED
    BY <1>1, <2>1
<1>. QED
  BY <1>2, <1>3, <1>4 DEF EndingsAreProven

(* An unacknowledged session is detached from only when its agent is gone. *)
LEMMA ReapedFirst ==
    ASSUME ConstantsAssumption, TypeOK, HandlersOwnTheirStart, NewSessionsAreFresh,
           UnfinishedStartsAreHeld, AttachableIsConfirmed, AgentsHaveAnOwner, StartsAreInOrder,
           NewSessionsAreUnheard, EndingsAreProven, UnconfirmedAreReaped, Next
    PROVE  UnconfirmedAreReaped'
<1>1. ASSUME NEW s \in Sessions,
             \/ group'[s] = "running" /\ group[s] # "running"
             \/ start_confirmed[s] /\ ~start_confirmed'[s]
      PROVE  /\ Unregistered(s)
             /\ \A f \in Frontends : /\ told[f][s] = "none"
                                     /\ pc[f] = "detach_send" => arg[f] # s
  <2>1. PICK g \in Frontends : pc[g] \in {"spawn", "release", "insert"} /\ arg[g] = s
    BY <1>1, GroupChanges, ConfirmationChanges
  <2>2. Unregistered(s) /\ Unheard(s)
    BY <2>1 DEF NewSessionsAreFresh, Unspawned, NewSessionsAreUnheard
  <2>. QED
    BY <2>2 DEF Unheard, Starting, InStart, StartSteps
<1>2. ASSUME NEW f \in Frontends, controlled_session'[f] # NoSession,
             ~start_confirmed'[controlled_session'[f]]
      PROVE  birth'[controlled_session'[f]] = f
  <2>. DEFINE s == controlled_session'[f]
  <2>1. CASE controlled_session'[f] = controlled_session[f]
    <3>1. s \in Sessions /\ controlled_session[f] = s
      BY <1>2, <2>1 DEF TypeOK
    <3>2. ~start_confirmed[s]
      BY <1>1, <1>2, <3>1 DEF Unregistered
    <3>3. birth[s] = f
      BY <1>2, <3>1, <3>2 DEF UnconfirmedAreReaped
    <3>. QED
      BY <3>1, <3>3, BirthIsKept DEF ConstantsAssumption
  <2>2. CASE SendStarted(f) /\ s = arg[f]
    BY <2>2 DEF SendStarted, At, HandlersOwnTheirStart, Starting, InStart, StartSteps
  <2>3. ASSUME NEW x \in Sessions, PtyAttach(f, x), s = x
        PROVE  FALSE
    BY <1>2, <2>3 DEF PtyAttach, Attachable, AttachableIsConfirmed
  <2>. QED
    BY <1>2, <2>1, <2>2, <2>3, LeaseChanges
<1>3. ASSUME NEW f \in Frontends, pc'[f] = "detach_send", NEW s \in Sessions, arg'[f] = s,
             ~start_confirmed'[s]
      PROVE  group'[s] # "running"
  <2>1. CASE pc[f] = "detach_send" /\ arg'[f] = arg[f]
    <3>1. ~start_confirmed[s]
      BY <1>1, <1>3, <2>1
    <3>2. group[s] # "running"
      BY <1>3, <2>1, <3>1 DEF UnconfirmedAreReaped
    <3>. QED
      BY <1>1, <1>3, <2>1, <3>2
  <2>2. CASE PtyDetach(f)
    <3>1. /\ pc[f] = "idle" /\ controlled_session[f] = s /\ s # NoSession
          /\ s \notin UnconfirmedOf(f)
          /\ UNCHANGED <<group, start_confirmed>>
      BY <1>3, <2>2 DEF TypeOK, PtyDetach, At, Goto, agents
    <3>2. ~start_confirmed[s] /\ birth[s] = f
      BY <1>3, <3>1 DEF UnconfirmedAreReaped
    <3>3. ~Owned(s)
      BY <3>1, <3>2 DEF Owned, InStart, StartSteps, UnconfirmedOf, UnfinishedStartsAreHeld
    <3>. QED
      BY <3>1, <3>2, <3>3 DEF AgentsHaveAnOwner
  <2>3. CASE Finish(f) /\ completion[s] = "ok"
    BY <2>3 DEF Finish, agents, EndingsAreProven
  <2>. QED
    BY <1>3, <2>1, <2>2, <2>3, SpeakerMoves DEF Spoke
<1>4. ASSUME NEW f \in Frontends, NEW s \in Sessions, told'[f][s] = "detached",
             ~start_confirmed'[s]
      PROVE  group'[s] # "running"
  <2>1. CASE told[f][s] = "detached"
    <3>1. ~start_confirmed[s]
      BY <1>1, <1>4, <2>1
    <3>2. group[s] # "running"
      BY <2>1, <3>1 DEF UnconfirmedAreReaped
    <3>. QED
      BY <1>1, <2>1, <3>2
  <2>2. CASE SendDetached(f) /\ arg[f] = s
    BY <1>4, <2>2 DEF SendDetached, At, rows, agents, UnconfirmedAreReaped
  <2>. QED
    BY <1>4, <2>1, <2>2, ToldChanges
<1>5. \A f \in Frontends : pc'[f] = "detach_send" => arg'[f] \in Sessions
  <2>1. ASSUME NEW f \in Frontends, pc'[f] = "detach_send" PROVE arg'[f] \in Sessions
    <3>1. ASSUME PtyDetach(f) PROVE arg'[f] \in Sessions
      BY <3>1 DEF TypeOK, PtyDetach
    <3>. QED
      BY <2>1, <3>1, SpeakerMoves DEF Spoke, Finish, At, HandlersOwnTheirStart
  <2>. QED
    BY <2>1
<1>. QED
  BY <1>2, <1>3, <1>4, <1>5 DEF UnconfirmedAreReaped

(* An active controller was told so, and a watcher speaks only to a client *)
(* that heard of its session.                                              *)
LEMMA AnnouncedStep ==
    ASSUME ConstantsAssumption, TypeOK, HandlersOwnTheirStart, NewSessionsAreFresh,
           StartsKeepTheirRow, EndedSessionsAreForgotten, StopsAreNotAnnounced,
           StartsAreInOrder, NewSessionsAreUnheard, LeasesAreAnnounced, Next
    PROVE  LeasesAreAnnounced'
<1>1. ASSUME NEW s \in Sessions, s \in sessions', s \notin sessions
      PROVE  \E f \in Frontends : Insert(f) /\ arg[f] = s /\ Unregistered(s) /\ Unheard(s)
  BY <1>1, RowChanges DEF RowChanged, Insert, At, NewSessionsAreFresh, NewSessionsAreUnheard
(* What a client was told of a live session changes by the messages of its *)
(* own connection.                                                         *)
<1>2. ASSUME NEW f \in Frontends, NEW s \in sessions, told'[f][s] # told[f][s]
      PROVE  \/ (SendStarted(f) \/ SendAttached(f)) /\ arg[f] = s /\ told'[f][s] = "attached"
             \/ SendDetached(f) /\ arg[f] = s /\ told'[f][s] = "detached"
  <2>1. s \in Sessions /\ completion[s] = "none" /\ notify[s] = NoFrontend
    BY DEF TypeOK, EndedSessionsAreForgotten, StopsAreNotAnnounced
  <2>. QED
    BY <1>2, <2>1, ToldChanges DEF ConstantsAssumption
<1>3. ASSUME NEW f \in Frontends, pc[f] # "detach_send", NEW s \in sessions,
             told[f][s] = "attached"
      PROVE  told'[f][s] = "attached"
  BY <1>2, <1>3 DEF SendDetached, At
(* A message that gives a lease arrives, unless its client is gone.        *)
<1>4. ASSUME NEW f \in Frontends, SendStarted(f) \/ SendAttached(f), NEW s \in sessions,
             arg[f] = s, peer_open[f]
      PROVE  told'[f][s] = "attached"
  <2>1. s \in Sessions /\ told[f][s] # "exited"
    BY DEF TypeOK, StopsAreNotAnnounced
  <2>2. Tell(f, s, "attached")
    BY <1>4 DEF SendStarted, SendAttached
  <2>3. told' = [told EXCEPT ![f][s] = IF told[f][s] = "exited" THEN told[f][s] ELSE "attached"]
    BY <1>4, <2>2 DEF Tell
  <2>. QED
    BY <2>1, <2>3 DEF TypeOK
<1>5. ASSUME NEW f \in Frontends, pc'[f] = "commit"
      PROVE  told'[f][arg'[f]] = "attached"
  <2>1. CASE pc[f] = "commit" /\ arg'[f] = arg[f]
    <3>1. arg[f] \in sessions /\ told[f][arg[f]] = "attached"
      BY <2>1 DEF StartsAreInOrder, LeasesAreAnnounced
    <3>. QED
      BY <1>3, <2>1, <3>1
  <2>2. CASE SendStarted(f)
    <3>1. arg[f] \in sessions /\ peer_open[f] /\ arg'[f] = arg[f]
      BY <1>5, <2>2 DEF TypeOK, SendStarted, At, Goto, StartsAreInOrder
    <3>. QED
      BY <1>4, <2>2, <3>1
  <2>. QED
    BY <1>5, <2>1, <2>2, SpeakerMoves DEF Spoke
<1>6. ASSUME NEW f \in Frontends, pc'[f] = "activate", arg'[f] \in sessions'
      PROVE  told'[f][arg'[f]] = "attached"
  <2>1. CASE pc[f] = "activate" /\ arg'[f] = arg[f]
    <3>1. arg[f] \in Sessions
      BY <2>1 DEF HandlersOwnTheirStart
    <3>2. arg[f] \in sessions
      BY <1>1, <1>6, <2>1, <3>1 DEF Unheard, Starting, InStart, StartSteps
    <3>3. told[f][arg[f]] = "attached"
      BY <2>1, <3>2 DEF LeasesAreAnnounced
    <3>. QED
      BY <1>3, <2>1, <3>2, <3>3
  <2>2. CASE SendAttached(f)
    <3>1. arg[f] \in sessions /\ peer_open[f] /\ arg'[f] = arg[f]
      BY <1>6, <2>2 DEF TypeOK, SendAttached, At, Goto, rows
    <3>. QED
      BY <1>4, <2>2, <3>1
  <2>. QED
    BY <1>6, <2>1, <2>2, SpeakerMoves DEF Spoke
<1>7. ASSUME NEW f \in Frontends, pc'[f] = "detach_send", arg'[f] \in sessions',
             controller'[arg'[f]] = f
      PROVE  FALSE
  <2>1. CASE pc[f] = "detach_send" /\ arg'[f] = arg[f]
    <3>1. arg[f] \in Sessions
      BY <2>1 DEF HandlersOwnTheirStart
    <3>2. ~\E g \in Frontends : pc[g] = "insert" /\ arg[g] = arg[f]
      BY <2>1 DEF NewSessionsAreUnheard, Unheard, Starting, InStart, StartSteps
    <3>3. arg[f] \in sessions
      BY <1>1, <1>7, <2>1, <3>1, <3>2 DEF Insert, At
    <3>4. controller[arg[f]] # f
      BY <2>1, <3>3 DEF LeasesAreAnnounced
    <3>5. ~\E g \in Frontends : Insert(g) /\ arg[g] = arg[f]
      BY <3>2 DEF Insert, At
    <3>6. PICK g \in Frontends : PtyAttach(g, arg[f])
      BY <1>7, <2>1, <3>1, <3>4, <3>5, RowChanges DEF RowChanged, ConstantsAssumption
    <3>7. g = f /\ pc[g] = "idle"
      BY <1>7, <2>1, <3>1, <3>6 DEF TypeOK, PtyAttach, At
    <3>. QED
      BY <2>1, <3>7
  <2>2. CASE PtyDetach(f)
    <3>1. arg'[f] = controlled_session[f] /\ pc[f] = "idle"
      BY <2>2 DEF TypeOK, PtyDetach, At
    <3>2. controlled_session[f] \notin UnconfirmedOf(f)
      BY <1>7, <2>2 DEF TypeOK, PtyDetach, Goto
    <3>. QED
      BY <1>7, <2>2, <3>1, <3>2 DEF TypeOK, PtyDetach, ConstantsAssumption
  <2>3. CASE Finish(f) /\ completion[arg[f]] = "ok" /\ arg'[f] = arg[f]
    BY <1>7, <2>3 DEF Finish, rows, EndedSessionsAreForgotten
  <2>. QED
    BY <1>7, <2>1, <2>2, <2>3, SpeakerMoves DEF Spoke
<1>8. ASSUME NEW s \in sessions', active'[s], controller'[s] # NoFrontend
      PROVE  told'[controller'[s]][s] = "attached"
  <2>0. s \in Sessions
    BY <1>8, TypeStep DEF TypeOK
  <2>1. CASE \E f \in Frontends : Insert(f) /\ arg[f] = s
    BY <1>8, <2>0, <2>1 DEF TypeOK, Insert
  <2>2. CASE \E f \in Frontends : PtyAttach(f, s)
    BY <1>8, <2>0, <2>2 DEF TypeOK, PtyAttach
  <2>3. CASE ~(\E f \in Frontends : (Insert(f) /\ arg[f] = s) \/ PtyAttach(f, s))
    <3>1. s \in sessions /\ controller[s] \in Frontends /\ controller'[s] = controller[s]
      BY <1>1, <1>8, <2>0, <2>3, RowChanges DEF RowChanged, TypeOK
    <3>2. CASE active[s]
      <4>1. told[controller[s]][s] = "attached"
        BY <3>1, <3>2 DEF LeasesAreAnnounced, ConstantsAssumption
      <4>2. ~SendDetached(controller[s]) \/ arg[controller[s]] # s
        BY <3>1 DEF SendDetached, At, LeasesAreAnnounced
      <4>. QED
        BY <1>2, <3>1, <4>1, <4>2
    <3>3. CASE ~active[s]
      <4>1. PICK f \in Frontends : /\ CommitStarted(f) \/ Activate(f)
                                   /\ arg[f] = s /\ controller[s] = f
        BY <1>8, <2>0, <3>3, RowChanges DEF RowChanged
      <4>2. told[f][s] = "attached" /\ pc[f] # "detach_send"
        BY <3>1, <4>1 DEF CommitStarted, Activate, At, LeasesAreAnnounced
      <4>. QED
        BY <1>3, <3>1, <4>1, <4>2
    <3>. QED
      BY <3>2, <3>3
  <2>. QED
    BY <2>1, <2>2, <2>3
<1>9. ASSUME NEW f \in Frontends, NEW s \in Sessions, told[f][s] # "none"
      PROVE  told'[f][s] # "none"
  BY <1>9, ToldChanges
<1>10. ASSUME NEW s \in sessions', write_phase'[s] = "Written"
       PROVE  birth'[s] \in Frontends /\ told'[birth'[s]][s] # "none"
  <2>0. s \in Sessions
    BY <1>10, TypeStep DEF TypeOK
  <2>1. s \in sessions
    BY <1>1, <1>10, <2>0 DEF TypeOK, Insert
  <2>2. birth[s] \in Frontends /\ told[birth[s]][s] # "none"
    <3>1. CASE write_phase[s] = "Written"
      BY <2>1, <3>1 DEF LeasesAreAnnounced
    <3>2. CASE write_phase[s] # "Written"
      <4>1. PICK f \in Frontends : CommitStarted(f) /\ arg[f] = s
        BY <1>10, <2>0, <3>2, RowChanges DEF RowChanged
      <4>. QED
        BY <4>1 DEF CommitStarted, At, LeasesAreAnnounced, HandlersOwnTheirStart, Starting,
           InStart, StartSteps
    <3>. QED
      BY <3>1, <3>2
  <2>. QED
    BY <1>9, <2>0, <2>2, BirthIsKept DEF ConstantsAssumption
<1>11. ASSUME NEW s \in Sessions, notify'[s] # NoFrontend
       PROVE  birth'[s] \in Frontends /\ told'[birth'[s]][s] # "none"
  <2>1. birth[s] \in Frontends /\ told[birth[s]][s] # "none"
    <3>1. CASE notify[s] # NoFrontend
      BY <3>1 DEF LeasesAreAnnounced
    <3>2. CASE notify[s] = NoFrontend
      <4>1. PICK x \in Sessions : Classify(x)
        BY <1>11, <3>2, Notifiers
      <4>2. x = s /\ ExitNotice(s) # NoFrontend
        BY <1>11, <3>2, <4>1 DEF TypeOK, Classify
      <4>. QED
        BY <4>2 DEF ExitNotice, LeasesAreAnnounced
    <3>. QED
      BY <3>1, <3>2
  <2>. QED
    BY <1>9, <2>1, BirthIsKept DEF ConstantsAssumption
<1>12. ASSUME NEW s \in Sessions, reader'[s] \in {"snapped", "writing"}
       PROVE  snapshot'[s] \in Frontends
  <2>1. CASE ReadOutput(s)
    BY <2>1 DEF TypeOK, ReadOutput
  <2>2. CASE ~ReadOutput(s)
    <3>1. snapshot'[s] = snapshot[s]
      BY <2>2, ReaderChanges
    <3>2. RecheckLease(s) => reader[s] = "snapped"
      BY DEF RecheckLease, ReaderAt
    <3>3. reader[s] \in {"snapped", "writing"}
      BY <1>12, <2>2, <3>2, ReaderChanges
    <3>. QED
      BY <3>1, <3>3 DEF LeasesAreAnnounced
  <2>. QED
    BY <2>1, <2>2
<1>. QED
  BY <1>5, <1>6, <1>7, <1>8, <1>10, <1>11, <1>12 DEF LeasesAreAnnounced

(* Output is written only between the message that gives a lease and the   *)
(* one that takes it away: both wait for the writer.                       *)
LEMMA OutputStep ==
    ASSUME ConstantsAssumption, TypeOK, HandlersOwnTheirStart, LeasesAreAnnounced,
           OutputInsideLease, Next
    PROVE  OutputInsideLease'
<1>. SUFFICES ASSUME NEW s \in Sessions, reader'[s] = "writing"
              PROVE  told'[snapshot'[s]][s] = "attached"
  BY DEF OutputInsideLease
<1>1. CASE reader[s] = "writing"
  <2>1. snapshot[s] \in Frontends /\ told[snapshot[s]][s] = "attached"
    BY <1>1 DEF LeasesAreAnnounced, OutputInsideLease
  <2>2. snapshot'[s] = snapshot[s]
    BY <1>1, ReaderChanges DEF ReadOutput, ReaderAt
  <2>3. ~WriterFree(snapshot[s])
    BY <1>1 DEF WriterFree
  <2>. QED
    BY <2>1, <2>2, <2>3, ToldChanges
<1>2. CASE reader[s] # "writing"
  <2>1. ReadOutput(s) => reader'[s] # "writing"
    BY DEF TypeOK, ReadOutput
  <2>2. RecheckLease(s) /\ StillActive(s) /\ reader[s] = "snapped"
    BY <1>2, <2>1, ReaderChanges DEF RecheckLease, ReaderAt
  <2>3. snapshot[s] \in Frontends
    BY <2>2 DEF LeasesAreAnnounced
  <2>4. told[snapshot[s]][s] = "attached"
    BY <2>2, <2>3 DEF StillActive, LeasesAreAnnounced, ConstantsAssumption
  <2>. QED
    BY <2>2, <2>4 DEF RecheckLease, history
<1>. QED
  BY <1>1, <1>2

-----------------------------------------------------------------------------
(* Leases, guardians and endings. *)

(* Every handler leaves the lease that its thread remembers and the        *)
(* controller in the shared table in agreement.                            *)
LEMMA LeaseStep ==
    ASSUME ConstantsAssumption, TypeOK, LeaseAgreement, HandlersOwnTheirStart,
           NewSessionsAreFresh, StartsKeepTheirRow, EndedSessionsAreForgotten, Next
    PROVE  LeaseAgreement'
<1>1. UNCHANGED <<sessions, controller, pc, arg, after, controlled_session>> => LeaseAgreement'
  BY DEF LeaseAgreement, Unspawned, Unregistered, Starting, InStart
<1>2. ASSUME NEW f \in Frontends, ClientLeaves(f)
       PROVE  LeaseAgreement'
  BY <1>1, <1>2 DEF ClientLeaves, agents, history, readers, rows, threads, watchers
<1>3. ASSUME NEW f \in Frontends, NEW s \in Sessions, PtyStartAck(f, s)
       PROVE  LeaseAgreement'
  BY <1>1, <1>3 DEF PtyStartAck, agents, history, readers, threads, watchers, world
<1>4. ASSUME NEW s \in Sessions,
              \/ AgentExits(s) \/ WatcherWaits(s) \/ WatcherReaps(s) \/ SendExited(s)
              \/ ReleaseGuardian(s) \/ GuardianEnds(s) \/ GuardianFires(s)
              \/ HeldAgentDies(s) \/ ReadOutput(s) \/ RecheckLease(s) \/ WriteOutput(s)
       PROVE  LeaseAgreement'
  BY <1>1, <1>4 DEF AgentExits, WatcherWaits, WatcherReaps, SendExited, ReleaseGuardian,
       GuardianEnds, GuardianFires, HeldAgentDies, ReadOutput, RecheckLease, WriteOutput,
       agents, history, readers, rows, threads, watchers, world
<1>5. ASSUME BrokerDies \/ IdleShutdown
       PROVE  LeaseAgreement'
  BY <1>1, <1>5 DEF BrokerDies, IdleShutdown, agents, history, readers, rows, threads, watchers
<1>6. ASSUME NEW f \in Frontends, Accept(f) PROVE LeaseAgreement'
  BY <1>6 DEF TypeOK, Accept, At, Goto, LeaseAgreement, InStart, StartSteps, StartReaps, rows
<1>7. ASSUME NEW f \in Frontends, HangUp(f) PROVE LeaseAgreement'
  BY <1>7 DEF TypeOK, HangUp, At, Goto, LeaseAgreement, InStart, StartSteps, StartReaps, rows
<1>8. ASSUME NEW f \in Frontends, Oversized(f) PROVE LeaseAgreement'
  BY <1>8 DEF TypeOK, Oversized, At, Goto, LeaseAgreement, InStart, StartSteps, StartReaps, rows
<1>9. ASSUME NEW f \in Frontends, Disconnect(f) PROVE LeaseAgreement'
  BY <1>9 DEF TypeOK, Disconnect, At, Goto, UnconfirmedOf, ReleasedBy, LeaseAgreement, InStart,
       StartSteps, StartReaps, ConstantsAssumption
<1>10. ASSUME NEW f \in Frontends, SpawnFork(f) PROVE LeaseAgreement'
  BY <1>10 DEF TypeOK, SpawnFork, At, Goto, LeaseAgreement, InStart, StartSteps, StartReaps,
       rows
<1>11. ASSUME NEW f \in Frontends, SpawnRelease(f) PROVE LeaseAgreement'
  BY <1>11 DEF TypeOK, SpawnRelease, At, Goto, LeaseAgreement, InStart, StartSteps, StartReaps,
       rows
<1>12. ASSUME NEW f \in Frontends, SpawnFails(f) PROVE LeaseAgreement'
  BY <1>12 DEF TypeOK, SpawnFails, At, Goto, LeaseAgreement, HandlersOwnTheirStart,
       NewSessionsAreFresh, Unspawned, Unregistered, Starting, InStart, StartSteps, StartReaps,
       rows, watchers, history
<1>13. ASSUME NEW f \in Frontends, Insert(f) PROVE LeaseAgreement'
  BY <1>13 DEF TypeOK, Insert, At, Goto, LeaseAgreement, HandlersOwnTheirStart,
       NewSessionsAreFresh, StartsKeepTheirRow, EndedSessionsAreForgotten, Unspawned,
       Unregistered, Starting, InStart, StartSteps, StartReaps, agents, watchers, history
<1>14. ASSUME NEW f \in Frontends, SpawnWatcher(f) PROVE LeaseAgreement'
  BY <1>14 DEF TypeOK, SpawnWatcher, At, Goto, LeaseAgreement, InStart, StartSteps, StartReaps,
       rows
<1>15. ASSUME NEW f \in Frontends, ReapUnwatched(f) PROVE LeaseAgreement'
  BY <1>15 DEF TypeOK, ReapUnwatched, At, Goto, LeaseAgreement, InStart, StartSteps, StartReaps,
       rows
<1>16. ASSUME NEW f \in Frontends, Unregister(f) PROVE LeaseAgreement'
  BY <1>16 DEF TypeOK, Unregister, At, Goto, LeaseAgreement, InStart, StartSteps, StartReaps
<1>17. ASSUME NEW f \in Frontends, SpawnReader(f) PROVE LeaseAgreement'
  BY <1>17 DEF TypeOK, SpawnReader, At, Goto, LeaseAgreement, InStart, StartSteps, StartReaps,
       rows
<1>18. ASSUME NEW f \in Frontends, Claim(f) PROVE LeaseAgreement'
  BY <1>18 DEF TypeOK, Claim, At, Goto, LeaseAgreement, StartsKeepTheirRow, Starting, InStart,
       StartSteps, StartReaps
<1>19. ASSUME NEW f \in Frontends, SendStarted(f) PROVE LeaseAgreement'
  BY <1>19 DEF TypeOK, SendStarted, At, Goto, LeaseAgreement, StartsKeepTheirRow, Starting,
       InStart, StartSteps, StartReaps, rows
<1>20. ASSUME NEW f \in Frontends, CommitStarted(f) PROVE LeaseAgreement'
  BY <1>20 DEF TypeOK, CommitStarted, At, Goto, LeaseAgreement, StartsKeepTheirRow, Starting,
       InStart, StartSteps, StartReaps
<1>21. ASSUME NEW f \in Frontends, CommitFailed(f) PROVE LeaseAgreement'
  BY <1>21 DEF TypeOK, CommitFailed, At, Goto, LeaseAgreement, EndedSessionsAreForgotten,
       InStart, StartSteps, StartReaps, watchers
<1>22. ASSUME NEW f \in Frontends, PtyDetach(f) PROVE LeaseAgreement'
  BY <1>22 DEF TypeOK, PtyDetach, At, Goto, UnconfirmedOf, LeaseAgreement, InStart, StartSteps,
       StartReaps, ConstantsAssumption
<1>23. ASSUME NEW f \in Frontends, SendAttached(f) PROVE LeaseAgreement'
  BY <1>23 DEF TypeOK, SendAttached, At, Goto, LeaseAgreement, InStart, StartSteps, StartReaps,
       rows
<1>24. ASSUME NEW f \in Frontends, Activate(f) PROVE LeaseAgreement'
  BY <1>24 DEF TypeOK, Activate, At, Goto, LeaseAgreement, InStart, StartSteps, StartReaps
<1>25. ASSUME NEW f \in Frontends, SendDetached(f) PROVE LeaseAgreement'
  BY <1>25 DEF TypeOK, SendDetached, At, Reply, Goto, LeaseAgreement, InStart, StartSteps,
       StartReaps, rows
<1>26. ASSUME NEW f \in Frontends, PtyStop(f) PROVE LeaseAgreement'
  BY <1>26 DEF TypeOK, PtyStop, At, Goto, LeaseAgreement, HandlersOwnTheirStart,
       StartsKeepTheirRow, Starting, InStart, StartSteps, StartReaps, history
<1>27. ASSUME NEW f \in Frontends, Signal(f) PROVE LeaseAgreement'
  BY <1>27 DEF TypeOK, Signal, At, Goto, LeaseAgreement, InStart, StartSteps, StartReaps, rows
<1>28. ASSUME NEW f \in Frontends, Finish(f) PROVE LeaseAgreement'
  <2>1. arg[f] \notin sessions /\ pc[f] = "wait"
    BY <1>28 DEF Finish, At, EndedSessionsAreForgotten
  <2>2. /\ UNCHANGED <<sessions, controller, arg, after>>
        /\ \A g \in Frontends \ {f} : /\ pc'[g] = pc[g]
                                       /\ controlled_session'[g] = controlled_session[g]
    BY <1>28 DEF TypeOK, Finish, Goto, Reply, rows
  <2>3. /\ pc'[f] # "unborn"
        /\ pc'[f] = "gone" => after[f] = "disconnect"
        /\ controlled_session'[f] = IF after[f] = "stop" THEN NoSession ELSE controlled_session[f]
    BY <1>28 DEF TypeOK, Finish, Goto, Reply
  <2>4. ASSUME NEW s \in sessions
        PROVE  controller[s] = f => pc'[f] # "gone" /\ controlled_session'[f] = s
    BY <2>1, <2>3 DEF TypeOK, ConstantsAssumption, LeaseAgreement, StartsKeepTheirRow
  <2>5. ASSUME NEW s \in sessions, controlled_session'[f] = s PROVE controller[s] = f
    BY <2>3, <2>5 DEF TypeOK, ConstantsAssumption, LeaseAgreement
  <2>. QED
    BY <2>2, <2>3, <2>4, <2>5 DEF LeaseAgreement, InStart
<1>29. ASSUME NEW f \in Frontends, NEW s \in Sessions, PtyStart(f, s) PROVE LeaseAgreement'
  BY <1>29 DEF TypeOK, PtyStart, At, Goto, LeaseAgreement, InStart, StartSteps, StartReaps,
       rows, ConstantsAssumption
<1>30. ASSUME NEW f \in Frontends, NEW s \in Sessions, PtyAttach(f, s)
       PROVE  LeaseAgreement'
  BY <1>30 DEF TypeOK, PtyAttach, At, Goto, Attachable, LeaseAgreement, InStart, StartSteps,
       StartReaps, ConstantsAssumption
<1>31. ASSUME NEW s \in Sessions, Classify(s) PROVE LeaseAgreement'
  BY <1>31 DEF TypeOK, Classify, WatcherAt, ExitNotice, LeaseAgreement, InStart, StartSteps,
       StartReaps, threads
<1>. QED
  BY <1>1, <1>2, <1>3, <1>4, <1>5, <1>6, <1>7, <1>8, <1>9, <1>10, <1>11, <1>12, <1>13, <1>14,
     <1>15, <1>16, <1>17, <1>18, <1>19, <1>20, <1>21, <1>22, <1>23, <1>24, <1>25, <1>26, <1>27,
     <1>28, <1>29, <1>30, <1>31 DEF Next, BrokerStep, Outside, Request, Handle, Watch, Output

(* A release leaves no unconfirmed session behind: pty-detach and a        *)
(* disconnection forget it in the same critical section.                   *)
LEMMA AttachableStep ==
    ASSUME ConstantsAssumption, TypeOK, AttachableIsConfirmed, HandlersOwnTheirStart,
           NewSessionsAreFresh, StartsKeepTheirRow, UnfinishedStartsAreHeld, Next
    PROVE  AttachableIsConfirmed'
<1>1. UNCHANGED <<sessions, controller, write_phase, start_confirmed>> => AttachableIsConfirmed'
  BY DEF AttachableIsConfirmed, Unspawned, Unregistered, Starting, InStart
<1>2. ASSUME NEW f \in Frontends,
              \/ Accept(f) \/ ClientLeaves(f) \/ HangUp(f) \/ Oversized(f) \/ SpawnFork(f)
              \/ SpawnRelease(f) \/ SpawnFails(f) \/ SpawnWatcher(f) \/ ReapUnwatched(f)
              \/ SpawnReader(f) \/ SendStarted(f) \/ SendAttached(f) \/ Activate(f)
              \/ SendDetached(f) \/ PtyStop(f) \/ Signal(f) \/ Finish(f)
       PROVE  AttachableIsConfirmed'
  BY <1>1, <1>2 DEF Accept, ClientLeaves, HangUp, Oversized, SpawnFork, SpawnRelease,
       SpawnFails, SpawnWatcher, ReapUnwatched, SpawnReader, SendStarted, SendAttached,
       Activate, SendDetached, PtyStop, Signal, Finish, agents, history, readers, rows, threads,
       watchers, world
<1>3. ASSUME NEW f \in Frontends, NEW s \in Sessions, PtyStart(f, s)
       PROVE  AttachableIsConfirmed'
  BY <1>1, <1>3 DEF PtyStart, agents, readers, rows, watchers, world
<1>4. ASSUME NEW s \in Sessions,
              \/ AgentExits(s) \/ WatcherWaits(s) \/ WatcherReaps(s) \/ SendExited(s)
              \/ ReleaseGuardian(s) \/ GuardianEnds(s) \/ GuardianFires(s)
              \/ HeldAgentDies(s) \/ ReadOutput(s) \/ RecheckLease(s) \/ WriteOutput(s)
       PROVE  AttachableIsConfirmed'
  BY <1>1, <1>4 DEF AgentExits, WatcherWaits, WatcherReaps, SendExited, ReleaseGuardian,
       GuardianEnds, GuardianFires, HeldAgentDies, ReadOutput, RecheckLease, WriteOutput,
       agents, history, readers, rows, threads, watchers, world
<1>5. ASSUME BrokerDies \/ IdleShutdown
       PROVE  AttachableIsConfirmed'
  BY <1>1, <1>5 DEF BrokerDies, IdleShutdown, agents, history, readers, rows, threads, watchers
<1>6. ASSUME NEW f \in Frontends, Disconnect(f) PROVE AttachableIsConfirmed'
  <2>1. ~InStart(f)
    BY <1>6 DEF Disconnect, At, InStart, StartSteps
  <2>2. ASSUME NEW s \in sessions, controller[s] = f, s \notin UnconfirmedOf(f)
        PROVE  write_phase[s] = "Written" /\ start_confirmed[s]
    <3>1. write_phase[s] = "Written"
      BY <2>1, <2>2 DEF TypeOK, UnfinishedStartsAreHeld, StartsKeepTheirRow, NewSessionsAreFresh,
           Unspawned, Unregistered
    <3>. QED
      BY <2>2, <3>1 DEF UnfinishedStartsAreHeld, UnconfirmedOf
  <2>3. /\ UNCHANGED <<write_phase, start_confirmed>>
        /\ sessions' = sessions \ UnconfirmedOf(f)
        /\ controller' = ReleasedBy(f)
    BY <1>6 DEF Disconnect
  <2>. QED
    BY <2>2, <2>3 DEF TypeOK, AttachableIsConfirmed, ReleasedBy
<1>7. ASSUME NEW f \in Frontends, Insert(f) PROVE AttachableIsConfirmed'
  BY <1>7 DEF TypeOK, Insert, At, Goto, AttachableIsConfirmed, HandlersOwnTheirStart,
       NewSessionsAreFresh, StartsKeepTheirRow, UnfinishedStartsAreHeld, Unspawned,
       Unregistered, Starting, InStart, StartSteps, StartReaps, agents, watchers, history
<1>8. ASSUME NEW f \in Frontends, Unregister(f) PROVE AttachableIsConfirmed'
  BY <1>8 DEF TypeOK, Unregister, At, AttachableIsConfirmed
<1>9. ASSUME NEW f \in Frontends, Claim(f) PROVE AttachableIsConfirmed'
  BY <1>9 DEF TypeOK, Claim, At, AttachableIsConfirmed
<1>10. ASSUME NEW f \in Frontends, CommitStarted(f) PROVE AttachableIsConfirmed'
  <2>1. /\ pc[f] = "commit" /\ arg[f] \in Sessions
        /\ arg[f] \in sessions => controller[arg[f]] = f
    BY <1>10 DEF CommitStarted, At, HandlersOwnTheirStart, StartsKeepTheirRow, InStart, StartSteps
  <2>2. UNCHANGED <<sessions, controller>>
    BY <1>10 DEF CommitStarted
  <2>3. ASSUME NEW s \in sessions, s # arg[f]
        PROVE  write_phase'[s] = write_phase[s] /\ start_confirmed'[s] = start_confirmed[s]
    BY <1>10, <2>1, <2>3 DEF TypeOK, CommitStarted
  <2>. QED
    BY <2>1, <2>2, <2>3 DEF ConstantsAssumption, AttachableIsConfirmed
<1>11. ASSUME NEW f \in Frontends, CommitFailed(f) PROVE AttachableIsConfirmed'
  BY <1>11 DEF TypeOK, CommitFailed, At, Goto, AttachableIsConfirmed, StartsKeepTheirRow,
       UnfinishedStartsAreHeld, Starting, InStart, StartSteps, StartReaps, history
<1>12. ASSUME NEW f \in Frontends, PtyDetach(f) PROVE AttachableIsConfirmed'
  BY <1>12 DEF TypeOK, PtyDetach, At, Goto, UnconfirmedOf, AttachableIsConfirmed,
       HandlersOwnTheirStart, NewSessionsAreFresh, StartsKeepTheirRow, UnfinishedStartsAreHeld,
       Unspawned, Unregistered, Starting, InStart, StartSteps, StartReaps, agents, watchers,
       history, ConstantsAssumption
<1>13. ASSUME NEW f \in Frontends, NEW s \in Sessions, PtyStartAck(f, s)
       PROVE  AttachableIsConfirmed'
  BY <1>13 DEF TypeOK, PtyStartAck, At, AttachableIsConfirmed
<1>14. ASSUME NEW f \in Frontends, NEW s \in Sessions, PtyAttach(f, s)
       PROVE  AttachableIsConfirmed'
  BY <1>14 DEF TypeOK, PtyAttach, At, Attachable, AttachableIsConfirmed, ConstantsAssumption
<1>15. ASSUME NEW s \in Sessions, Classify(s) PROVE AttachableIsConfirmed'
  BY <1>15 DEF TypeOK, Classify, WatcherAt, ExitNotice, AttachableIsConfirmed
<1>. QED
  BY <1>1, <1>2, <1>3, <1>4, <1>5, <1>6, <1>7, <1>8, <1>9, <1>10, <1>11, <1>12, <1>13, <1>14,
     <1>15 DEF Next, BrokerStep, Outside, Request, Handle, Watch, Output

(* A handler that reaps an unwatched group forgets the session only after  *)
(* the kill.                                                               *)
LEMMA ReapedStep ==
    ASSUME ConstantsAssumption, TypeOK, ReapedGroupsDoNotRun, HandlersOwnTheirStart, Next
    PROVE  ReapedGroupsDoNotRun'
<1>1. UNCHANGED <<pc, arg, group>> => ReapedGroupsDoNotRun'
  BY DEF ReapedGroupsDoNotRun, Starting, InStart
<1>2. ASSUME NEW f \in Frontends, ClientLeaves(f)
       PROVE  ReapedGroupsDoNotRun'
  BY <1>1, <1>2 DEF ClientLeaves, agents, history, readers, rows, threads, watchers
<1>3. ASSUME NEW f \in Frontends, NEW s \in Sessions, PtyStartAck(f, s)
       PROVE  ReapedGroupsDoNotRun'
  BY <1>1, <1>3 DEF PtyStartAck, agents, history, readers, threads, watchers, world
<1>4. ASSUME NEW s \in Sessions,
              \/ WatcherWaits(s) \/ Classify(s) \/ SendExited(s) \/ ReleaseGuardian(s)
              \/ GuardianEnds(s) \/ ReadOutput(s) \/ RecheckLease(s) \/ WriteOutput(s)
       PROVE  ReapedGroupsDoNotRun'
  BY <1>1, <1>4 DEF WatcherWaits, Classify, SendExited, ReleaseGuardian, GuardianEnds,
       ReadOutput, RecheckLease, WriteOutput, agents, history, readers, rows, threads, watchers,
       world
<1>5. ASSUME BrokerDies \/ IdleShutdown
       PROVE  ReapedGroupsDoNotRun'
  BY <1>1, <1>5 DEF BrokerDies, IdleShutdown, agents, history, readers, rows, threads, watchers
<1>6. ASSUME NEW f \in Frontends, Accept(f) PROVE ReapedGroupsDoNotRun'
  BY <1>6 DEF TypeOK, Accept, At, Goto, ReapedGroupsDoNotRun, agents
<1>7. ASSUME NEW f \in Frontends, HangUp(f) PROVE ReapedGroupsDoNotRun'
  BY <1>7 DEF TypeOK, HangUp, At, Goto, ReapedGroupsDoNotRun, agents
<1>8. ASSUME NEW f \in Frontends, Oversized(f) PROVE ReapedGroupsDoNotRun'
  BY <1>8 DEF TypeOK, Oversized, At, Goto, ReapedGroupsDoNotRun, agents
<1>9. ASSUME NEW f \in Frontends, Disconnect(f) PROVE ReapedGroupsDoNotRun'
  BY <1>9 DEF TypeOK, Disconnect, At, Goto, UnconfirmedOf, ReleasedBy, ReapedGroupsDoNotRun,
       agents, ConstantsAssumption
<1>10. ASSUME NEW f \in Frontends, SpawnFork(f) PROVE ReapedGroupsDoNotRun'
  BY <1>10 DEF TypeOK, SpawnFork, At, Goto, ReapedGroupsDoNotRun
<1>11. ASSUME NEW f \in Frontends, SpawnRelease(f) PROVE ReapedGroupsDoNotRun'
  BY <1>11 DEF TypeOK, SpawnRelease, At, Goto, ReapedGroupsDoNotRun, HandlersOwnTheirStart,
       Starting, InStart, StartSteps, history
<1>12. ASSUME NEW f \in Frontends, SpawnFails(f) PROVE ReapedGroupsDoNotRun'
  <2>1. \A s \in Sessions : group'[s] \in {"gone", "killed", group[s]}
    BY <1>12 DEF TypeOK, SpawnFails
  <2>2. /\ UNCHANGED arg
        /\ pc'[f] = "idle" /\ \A g \in Frontends \ {f} : pc'[g] = pc[g]
    BY <1>12 DEF TypeOK, SpawnFails, Goto
  <2>3. \A g \in Frontends : pc[g] = "unregister" => arg[g] \in Sessions
    BY DEF HandlersOwnTheirStart
  <2>. QED
    BY <2>1, <2>2, <2>3 DEF ReapedGroupsDoNotRun
<1>13. ASSUME NEW f \in Frontends, Insert(f) PROVE ReapedGroupsDoNotRun'
  BY <1>13 DEF TypeOK, Insert, At, Goto, ReapedGroupsDoNotRun, agents
<1>14. ASSUME NEW f \in Frontends, SpawnWatcher(f) PROVE ReapedGroupsDoNotRun'
  BY <1>14 DEF TypeOK, SpawnWatcher, At, Goto, ReapedGroupsDoNotRun, agents
<1>15. ASSUME NEW f \in Frontends, ReapUnwatched(f) PROVE ReapedGroupsDoNotRun'
  <2>1. pc[f] = "unwatched" /\ arg[f] \in Sessions
    BY <1>15 DEF ReapUnwatched, At, HandlersOwnTheirStart
  <2>2. \A s \in Sessions : s = arg[f] \/ group'[s] = group[s]
    BY <1>15, <2>1, ReapFacts DEF TypeOK, ReapUnwatched
  <2>3. group'[arg[f]] \notin {"running", "exited"}
    BY <1>15, <2>1, ReapFacts DEF TypeOK, ReapUnwatched
  <2>4. UNCHANGED arg /\ \A g \in Frontends \ {f} : pc'[g] = pc[g]
    BY <1>15 DEF TypeOK, ReapUnwatched, Goto
  <2>5. \A g \in Frontends : pc[g] = "unregister" => arg[g] \in Sessions
    BY DEF HandlersOwnTheirStart
  <2>. QED
    BY <2>2, <2>3, <2>4, <2>5 DEF ReapedGroupsDoNotRun
<1>16. ASSUME NEW f \in Frontends, Unregister(f) PROVE ReapedGroupsDoNotRun'
  BY <1>16 DEF TypeOK, Unregister, At, Goto, ReapedGroupsDoNotRun
<1>17. ASSUME NEW f \in Frontends, SpawnReader(f) PROVE ReapedGroupsDoNotRun'
  BY <1>17 DEF TypeOK, SpawnReader, At, Goto, ReapedGroupsDoNotRun, agents
<1>18. ASSUME NEW f \in Frontends, Claim(f) PROVE ReapedGroupsDoNotRun'
  BY <1>18 DEF TypeOK, Claim, At, Goto, ReapedGroupsDoNotRun, agents
<1>19. ASSUME NEW f \in Frontends, SendStarted(f) PROVE ReapedGroupsDoNotRun'
  BY <1>19 DEF TypeOK, SendStarted, At, Goto, ReapedGroupsDoNotRun, agents
<1>20. ASSUME NEW f \in Frontends, CommitStarted(f) PROVE ReapedGroupsDoNotRun'
  BY <1>20 DEF TypeOK, CommitStarted, At, Goto, ReapedGroupsDoNotRun, agents
<1>21. ASSUME NEW f \in Frontends, CommitFailed(f) PROVE ReapedGroupsDoNotRun'
  BY <1>21 DEF TypeOK, CommitFailed, At, Goto, ReapedGroupsDoNotRun, agents
<1>22. ASSUME NEW f \in Frontends, PtyDetach(f) PROVE ReapedGroupsDoNotRun'
  BY <1>22 DEF TypeOK, PtyDetach, At, Goto, UnconfirmedOf, ReapedGroupsDoNotRun, agents,
       ConstantsAssumption
<1>23. ASSUME NEW f \in Frontends, SendAttached(f) PROVE ReapedGroupsDoNotRun'
  BY <1>23 DEF TypeOK, SendAttached, At, Goto, ReapedGroupsDoNotRun, agents
<1>24. ASSUME NEW f \in Frontends, Activate(f) PROVE ReapedGroupsDoNotRun'
  BY <1>24 DEF TypeOK, Activate, At, Goto, ReapedGroupsDoNotRun, agents
<1>25. ASSUME NEW f \in Frontends, SendDetached(f) PROVE ReapedGroupsDoNotRun'
  BY <1>25 DEF TypeOK, SendDetached, At, Reply, Goto, ReapedGroupsDoNotRun, agents
<1>26. ASSUME NEW f \in Frontends, PtyStop(f) PROVE ReapedGroupsDoNotRun'
  <2>1. CASE controlled_session[f] \in sessions /\ controller[controlled_session[f]] = f
    BY <1>26, <2>1 DEF TypeOK, PtyStop, At, Goto, ReapedGroupsDoNotRun, agents
  <2>2. CASE ~(controlled_session[f] \in sessions /\ controller[controlled_session[f]] = f)
    BY <1>26, <2>2 DEF TypeOK, PtyStop, At, Goto, ReapedGroupsDoNotRun, agents
  <2>. QED
    BY <1>26, <2>1, <2>2
<1>27. ASSUME NEW f \in Frontends, Signal(f) PROVE ReapedGroupsDoNotRun'
  BY <1>27 DEF TypeOK, Signal, At, Goto, Kill, ReapedGroupsDoNotRun
<1>28. ASSUME NEW f \in Frontends, Finish(f) PROVE ReapedGroupsDoNotRun'
  BY <1>28 DEF TypeOK, Finish, At, Goto, Reply, ReapedGroupsDoNotRun, agents
<1>29. ASSUME NEW f \in Frontends, NEW s \in Sessions, PtyStart(f, s)
       PROVE  ReapedGroupsDoNotRun'
  BY <1>29 DEF TypeOK, PtyStart, At, Goto, ReapedGroupsDoNotRun, agents, ConstantsAssumption
<1>30. ASSUME NEW f \in Frontends, NEW s \in Sessions, PtyAttach(f, s)
       PROVE  ReapedGroupsDoNotRun'
  BY <1>30 DEF TypeOK, PtyAttach, At, Goto, Attachable, ReapedGroupsDoNotRun, agents,
       ConstantsAssumption
<1>31. ASSUME NEW s \in Sessions, AgentExits(s) PROVE ReapedGroupsDoNotRun'
  BY <1>31 DEF TypeOK, AgentExits, ReapedGroupsDoNotRun, threads
<1>32. ASSUME NEW s \in Sessions, WatcherReaps(s) PROVE ReapedGroupsDoNotRun'
  <2>1. \A x \in Sessions : group'[x] = group[x] \/ group'[x] \notin {"running", "exited"}
    BY <1>32, ReapFacts DEF TypeOK, WatcherReaps
  <2>2. UNCHANGED <<pc, arg>>
    BY <1>32 DEF WatcherReaps, threads
  <2>3. \A g \in Frontends : pc[g] = "unregister" => arg[g] \in Sessions
    BY DEF HandlersOwnTheirStart
  <2>. QED
    BY <2>1, <2>2, <2>3 DEF ReapedGroupsDoNotRun
<1>33. ASSUME NEW s \in Sessions, GuardianFires(s) PROVE ReapedGroupsDoNotRun'
  BY <1>33 DEF TypeOK, GuardianFires, Kill, ReapedGroupsDoNotRun, threads
<1>34. ASSUME NEW s \in Sessions, HeldAgentDies(s) PROVE ReapedGroupsDoNotRun'
  BY <1>34 DEF TypeOK, HeldAgentDies, ReapedGroupsDoNotRun, threads
<1>. QED
  BY <1>1, <1>2, <1>3, <1>4, <1>5, <1>6, <1>7, <1>8, <1>9, <1>10, <1>11, <1>12, <1>13, <1>14,
     <1>15, <1>16, <1>17, <1>18, <1>19, <1>20, <1>21, <1>22, <1>23, <1>24, <1>25, <1>26, <1>27,
     <1>28, <1>29, <1>30, <1>31, <1>32, <1>33, <1>34 DEF Next, BrokerStep, Outside, Request,
     Handle, Watch, Output

(* A guardian is armed before its agent is released and disarmed only      *)
(* behind a group proven gone.                                             *)
LEMMA GuardedStep ==
    ASSUME ConstantsAssumption, TypeOK, GuardedWhileAlive, NewSessionsAreFresh,
           ReapedGroupsDoNotRun, HandlersOwnTheirStart, Next
    PROVE  GuardedWhileAlive'
<1>1. UNCHANGED <<group, guardian>> => GuardedWhileAlive'
  BY DEF GuardedWhileAlive, Unspawned
<1>2. ASSUME NEW f \in Frontends,
              \/ Accept(f) \/ ClientLeaves(f) \/ HangUp(f) \/ Oversized(f) \/ Disconnect(f)
              \/ Insert(f) \/ SpawnWatcher(f) \/ SpawnReader(f) \/ Claim(f)
              \/ SendStarted(f) \/ CommitStarted(f) \/ CommitFailed(f) \/ PtyDetach(f)
              \/ SendAttached(f) \/ Activate(f) \/ SendDetached(f) \/ PtyStop(f)
              \/ Finish(f)
       PROVE  GuardedWhileAlive'
  BY <1>1, <1>2 DEF Accept, ClientLeaves, HangUp, Oversized, Disconnect, Insert, SpawnWatcher,
       SpawnReader, Claim, SendStarted, CommitStarted, CommitFailed, PtyDetach, SendAttached,
       Activate, SendDetached, PtyStop, Finish, agents, history, readers, rows, threads,
       watchers, world
<1>3. ASSUME NEW f \in Frontends, NEW s \in Sessions,
              PtyStart(f, s) \/ PtyStartAck(f, s) \/ PtyAttach(f, s)
       PROVE  GuardedWhileAlive'
  BY <1>1, <1>3 DEF PtyStart, PtyStartAck, PtyAttach, agents, history, readers, rows, threads,
       watchers, world
<1>4. ASSUME NEW s \in Sessions,
              \/ WatcherWaits(s) \/ Classify(s) \/ SendExited(s) \/ GuardianEnds(s)
              \/ ReadOutput(s) \/ RecheckLease(s) \/ WriteOutput(s)
       PROVE  GuardedWhileAlive'
  BY <1>1, <1>4 DEF WatcherWaits, Classify, SendExited, GuardianEnds, ReadOutput, RecheckLease,
       WriteOutput, agents, history, readers, rows, threads, watchers, world
<1>5. ASSUME BrokerDies \/ IdleShutdown
       PROVE  GuardedWhileAlive'
  BY <1>1, <1>5 DEF BrokerDies, IdleShutdown, agents, history, readers, rows, threads, watchers
<1>6. ASSUME NEW f \in Frontends, SpawnFork(f) PROVE GuardedWhileAlive'
  BY <1>6 DEF TypeOK, SpawnFork, At, Goto, GuardedWhileAlive, NewSessionsAreFresh, Unspawned,
       rows, watchers, history
<1>7. ASSUME NEW f \in Frontends, SpawnRelease(f) PROVE GuardedWhileAlive'
  BY <1>7 DEF TypeOK, SpawnRelease, At, GuardedWhileAlive
<1>8. ASSUME NEW f \in Frontends, SpawnFails(f) PROVE GuardedWhileAlive'
  BY <1>8 DEF TypeOK, SpawnFails, At, GuardedWhileAlive
<1>9. ASSUME NEW f \in Frontends, ReapUnwatched(f) PROVE GuardedWhileAlive'
  <2>1. /\ group \in [Sessions -> Groups] /\ arg[f] \in Sessions
        /\ ReapAndProve(arg[f]) /\ UNCHANGED guardian
    BY <1>9 DEF TypeOK, ReapUnwatched, At, HandlersOwnTheirStart
  <2>. QED
    BY <2>1, ReapFacts DEF GuardedWhileAlive
<1>10. ASSUME NEW f \in Frontends, Unregister(f) PROVE GuardedWhileAlive'
  BY <1>10 DEF TypeOK, Unregister, At, Goto, GuardedWhileAlive, ReapedGroupsDoNotRun
<1>11. ASSUME NEW f \in Frontends, Signal(f) PROVE GuardedWhileAlive'
  BY <1>11 DEF TypeOK, Signal, At, Kill, GuardedWhileAlive
<1>12. ASSUME NEW s \in Sessions, AgentExits(s) PROVE GuardedWhileAlive'
  BY <1>12 DEF TypeOK, AgentExits, GuardedWhileAlive
<1>13. ASSUME NEW s \in Sessions, WatcherReaps(s) PROVE GuardedWhileAlive'
  BY <1>13, ReapFacts DEF TypeOK, WatcherReaps, GuardedWhileAlive
<1>14. ASSUME NEW s \in Sessions, ReleaseGuardian(s) PROVE GuardedWhileAlive'
  BY <1>14 DEF TypeOK, ReleaseGuardian, WatcherAt, Disarm, GuardedWhileAlive
<1>15. ASSUME NEW s \in Sessions, GuardianFires(s) PROVE GuardedWhileAlive'
  BY <1>15 DEF TypeOK, GuardianFires, Kill, GuardedWhileAlive
<1>16. ASSUME NEW s \in Sessions, HeldAgentDies(s) PROVE GuardedWhileAlive'
  BY <1>16 DEF TypeOK, HeldAgentDies, GuardedWhileAlive
<1>. QED
  BY <1>1, <1>2, <1>3, <1>4, <1>5, <1>6, <1>7, <1>8, <1>9, <1>10, <1>11, <1>12, <1>13, <1>14,
     <1>15, <1>16 DEF Next, BrokerStep, Outside, Request, Handle, Watch, Output

(* The watcher never picks a client to tell of a session while the session *)
(* is registered or its stop was accepted.                                 *)
LEMMA StopsStep ==
    ASSUME ConstantsAssumption, TypeOK, StopsAreNotAnnounced, HandlersOwnTheirStart,
           NewSessionsAreFresh, EndedSessionsAreForgotten, Next
    PROVE  StopsAreNotAnnounced'
<1>1. UNCHANGED <<sessions, stop_in_flight, notify, told>> => StopsAreNotAnnounced'
  BY DEF StopsAreNotAnnounced, Unspawned, Unregistered
<1>2. ASSUME NEW f \in Frontends,
              \/ Accept(f) \/ ClientLeaves(f) \/ HangUp(f) \/ Oversized(f) \/ SpawnFork(f)
              \/ SpawnRelease(f) \/ SpawnFails(f) \/ SpawnWatcher(f) \/ ReapUnwatched(f)
              \/ SpawnReader(f) \/ Claim(f) \/ CommitStarted(f) \/ CommitFailed(f)
              \/ Activate(f) \/ Signal(f)
       PROVE  StopsAreNotAnnounced'
  BY <1>1, <1>2 DEF Accept, ClientLeaves, HangUp, Oversized, SpawnFork, SpawnRelease,
       SpawnFails, SpawnWatcher, ReapUnwatched, SpawnReader, Claim, CommitStarted, CommitFailed,
       Activate, Signal, agents, history, readers, rows, threads, watchers, world
<1>3. ASSUME NEW f \in Frontends, NEW s \in Sessions,
              PtyStart(f, s) \/ PtyStartAck(f, s) \/ PtyAttach(f, s)
       PROVE  StopsAreNotAnnounced'
  BY <1>1, <1>3 DEF PtyStart, PtyStartAck, PtyAttach, agents, history, readers, rows, threads,
       watchers, world
<1>4. ASSUME NEW s \in Sessions,
              \/ AgentExits(s) \/ WatcherWaits(s) \/ WatcherReaps(s) \/ ReleaseGuardian(s)
              \/ GuardianEnds(s) \/ GuardianFires(s) \/ HeldAgentDies(s) \/ ReadOutput(s)
              \/ RecheckLease(s) \/ WriteOutput(s)
       PROVE  StopsAreNotAnnounced'
  BY <1>1, <1>4 DEF AgentExits, WatcherWaits, WatcherReaps, ReleaseGuardian, GuardianEnds,
       GuardianFires, HeldAgentDies, ReadOutput, RecheckLease, WriteOutput, agents, history,
       readers, rows, threads, watchers, world
<1>5. ASSUME BrokerDies \/ IdleShutdown
       PROVE  StopsAreNotAnnounced'
  BY <1>1, <1>5 DEF BrokerDies, IdleShutdown, agents, history, readers, rows, threads, watchers
<1>6. ASSUME NEW f \in Frontends, Disconnect(f) PROVE StopsAreNotAnnounced'
  BY <1>6 DEF TypeOK, Disconnect, At, UnconfirmedOf, ReleasedBy, StopsAreNotAnnounced, watchers,
       history, ConstantsAssumption
<1>7. ASSUME NEW f \in Frontends, Insert(f) PROVE StopsAreNotAnnounced'
  BY <1>7 DEF TypeOK, Insert, At, Goto, StopsAreNotAnnounced, NewSessionsAreFresh, Unregistered,
       agents, watchers, history
<1>8. ASSUME NEW f \in Frontends, Unregister(f) PROVE StopsAreNotAnnounced'
  BY <1>8 DEF TypeOK, Unregister, At, StopsAreNotAnnounced, history
<1>9. ASSUME NEW f \in Frontends, SendStarted(f) PROVE StopsAreNotAnnounced'
  BY <1>9 DEF TypeOK, SendStarted, At, Tell, StopsAreNotAnnounced, rows, watchers
<1>10. ASSUME NEW f \in Frontends, PtyDetach(f) PROVE StopsAreNotAnnounced'
  BY <1>10 DEF TypeOK, PtyDetach, At, UnconfirmedOf, StopsAreNotAnnounced, watchers, history,
       ConstantsAssumption
<1>11. ASSUME NEW f \in Frontends, SendAttached(f) PROVE StopsAreNotAnnounced'
  BY <1>11 DEF TypeOK, SendAttached, At, Tell, StopsAreNotAnnounced, rows, watchers
<1>12. ASSUME NEW f \in Frontends, SendDetached(f) PROVE StopsAreNotAnnounced'
  BY <1>12 DEF TypeOK, SendDetached, At, Reply, Tell, StopsAreNotAnnounced, rows, watchers
<1>13. ASSUME NEW f \in Frontends, PtyStop(f) PROVE StopsAreNotAnnounced'
  BY <1>13 DEF TypeOK, PtyStop, At, StopsAreNotAnnounced, watchers, history
<1>14. ASSUME NEW f \in Frontends, Finish(f) PROVE StopsAreNotAnnounced'
  <2>1. told' = told \/ Tell(f, arg[f], "stopped")
    BY <1>14 DEF Finish, Reply
  <2>2. ASSUME NEW g \in Frontends, NEW s \in Sessions, told'[g][s] = "exited"
        PROVE  told[g][s] = "exited"
    <3>1. CASE told' = told
      BY <2>2, <3>1
    <3>2. CASE told' = [told EXCEPT ![f][arg[f]] = IF @ = "exited" THEN @ ELSE "stopped"]
      BY <2>2, <3>2 DEF TypeOK
    <3>. QED
      BY <2>1, <3>1, <3>2 DEF Tell
  <2>3. UNCHANGED <<sessions, stop_in_flight, notify>>
    BY <1>14 DEF Finish, rows, watchers
  <2>. QED
    BY <2>2, <2>3 DEF TypeOK, StopsAreNotAnnounced
<1>15. ASSUME NEW s \in Sessions, Classify(s) PROVE StopsAreNotAnnounced'
  BY <1>15 DEF TypeOK, Classify, WatcherAt, ExitNotice, StopsAreNotAnnounced, history
<1>16. ASSUME NEW s \in Sessions, SendExited(s) PROVE StopsAreNotAnnounced'
  <2>1. UNCHANGED <<sessions, stop_in_flight, notify>>
    BY <1>16 DEF SendExited, rows
  <2>2. CASE notify[s] = NoFrontend
    BY <1>16, <2>1, <2>2 DEF SendExited, StopsAreNotAnnounced
  <2>3. CASE notify[s] # NoFrontend
    <3>1. s \notin sessions /\ ~stop_in_flight[s]
      BY <2>3 DEF StopsAreNotAnnounced
    <3>2. \A g \in Frontends, x \in Sessions : x # s => told'[g][x] = told[g][x]
      BY <1>16, <2>3, TellOthers DEF TypeOK, SendExited
    <3>. QED
      BY <2>1, <3>1, <3>2 DEF StopsAreNotAnnounced
  <2>. QED
    BY <2>2, <2>3
<1>. QED
  BY <1>1, <1>2, <1>3, <1>4, <1>5, <1>6, <1>7, <1>8, <1>9, <1>10, <1>11, <1>12, <1>13, <1>14,
     <1>15, <1>16 DEF Next, BrokerStep, Outside, Request, Handle, Watch, Output

-----------------------------------------------------------------------------
(* The count of the connections.                                           *)

(* A connection comes to count when it is accepted and ceases to when its  *)
(* guard is dropped, whatever its handler does in between; nothing else    *)
(* changes the count.                                                      *)
LEMMA ConnectionsChange ==
    ASSUME ConstantsAssumption, TypeOK, Next
    PROVE  \/ \E f \in Frontends : Accept(f) \/ Disconnect(f)
           \/ frontends' = frontends /\ \A g \in Frontends : Connected(g)' = Connected(g)
<1>. DEFINE Same == frontends' = frontends /\ \A g \in Frontends : Connected(g)' = Connected(g)
<1>1. UNCHANGED <<frontends, pc, after>> => Same
  BY DEF Connected, Reaping
<1>2. ASSUME NEW f \in Frontends, ClientLeaves(f) PROVE Same
  BY <1>1, <1>2 DEF ClientLeaves, threads
<1>3. ASSUME NEW f \in Frontends, NEW s \in Sessions, PtyStartAck(f, s) PROVE Same
  BY <1>1, <1>3 DEF PtyStartAck, threads, world
<1>4. ASSUME NEW s \in Sessions,
             \/ AgentExits(s) \/ WatcherWaits(s) \/ Classify(s) \/ WatcherReaps(s)
             \/ SendExited(s) \/ ReleaseGuardian(s) \/ GuardianEnds(s) \/ GuardianFires(s)
             \/ HeldAgentDies(s) \/ ReadOutput(s) \/ RecheckLease(s) \/ WriteOutput(s)
      PROVE  Same
  BY <1>1, <1>4 DEF AgentExits, WatcherWaits, Classify, WatcherReaps, SendExited,
     ReleaseGuardian, GuardianEnds, GuardianFires, HeldAgentDies, ReadOutput, RecheckLease,
     WriteOutput, threads, world
<1>5. ASSUME BrokerDies \/ IdleShutdown PROVE Same
  BY <1>1, <1>5 DEF BrokerDies, IdleShutdown, threads
<1>6. ASSUME NEW f \in Frontends, NEW s \in Sessions, PtyStart(f, s) \/ PtyAttach(f, s)
      PROVE  Same
  BY <1>6 DEF TypeOK, PtyStart, PtyAttach, At, Goto, Connected, Reaping, world
<1>7. ASSUME NEW f \in Frontends, HangUp(f) PROVE Same
  BY <1>7 DEF TypeOK, HangUp, At, Goto, Connected, Reaping, world
<1>8. ASSUME NEW f \in Frontends, Oversized(f) PROVE Same
  BY <1>8 DEF TypeOK, Oversized, At, Goto, Connected, Reaping, world
<1>9. ASSUME NEW f \in Frontends, SpawnFork(f) PROVE Same
  BY <1>9 DEF TypeOK, SpawnFork, At, Goto, Connected, Reaping, world
<1>10. ASSUME NEW f \in Frontends, SpawnRelease(f) PROVE Same
  BY <1>10 DEF TypeOK, SpawnRelease, At, Goto, Connected, Reaping, world
<1>11. ASSUME NEW f \in Frontends, SpawnFails(f) PROVE Same
  BY <1>11 DEF TypeOK, SpawnFails, At, Goto, Connected, Reaping, world
<1>12. ASSUME NEW f \in Frontends, Insert(f) PROVE Same
  BY <1>12 DEF TypeOK, Insert, At, Goto, Connected, Reaping, world
<1>13. ASSUME NEW f \in Frontends, SpawnWatcher(f) PROVE Same
  BY <1>13 DEF TypeOK, SpawnWatcher, At, Goto, Connected, Reaping, world
<1>14. ASSUME NEW f \in Frontends, ReapUnwatched(f) PROVE Same
  BY <1>14 DEF TypeOK, ReapUnwatched, At, Goto, Connected, Reaping, world
<1>15. ASSUME NEW f \in Frontends, Unregister(f) PROVE Same
  BY <1>15 DEF TypeOK, Unregister, At, Goto, Connected, Reaping, world
<1>16. ASSUME NEW f \in Frontends, SpawnReader(f) PROVE Same
  BY <1>16 DEF TypeOK, SpawnReader, At, Goto, Connected, Reaping, world
<1>17. ASSUME NEW f \in Frontends, Claim(f) PROVE Same
  BY <1>17 DEF TypeOK, Claim, At, Goto, Connected, Reaping, world
<1>18. ASSUME NEW f \in Frontends, SendStarted(f) PROVE Same
  BY <1>18 DEF TypeOK, SendStarted, At, Goto, Connected, Reaping, world
<1>19. ASSUME NEW f \in Frontends, CommitStarted(f) PROVE Same
  BY <1>19 DEF TypeOK, CommitStarted, At, Goto, Connected, Reaping, world
<1>20. ASSUME NEW f \in Frontends, CommitFailed(f) PROVE Same
  BY <1>20 DEF TypeOK, CommitFailed, At, Goto, Connected, Reaping, world
<1>21. ASSUME NEW f \in Frontends, SendAttached(f) PROVE Same
  BY <1>21 DEF TypeOK, SendAttached, At, Goto, Connected, Reaping, world
<1>22. ASSUME NEW f \in Frontends, Activate(f) PROVE Same
  BY <1>22 DEF TypeOK, Activate, At, Goto, Connected, Reaping, world
<1>23. ASSUME NEW f \in Frontends, PtyDetach(f) PROVE Same
  BY <1>23 DEF TypeOK, PtyDetach, At, Goto, Connected, Reaping, world
<1>24. ASSUME NEW f \in Frontends, SendDetached(f) PROVE Same
  BY <1>24 DEF TypeOK, SendDetached, At, Goto, Connected, Reaping, world, Reply
<1>25. ASSUME NEW f \in Frontends, PtyStop(f) PROVE Same
  BY <1>25 DEF TypeOK, PtyStop, At, Goto, Connected, Reaping, world
<1>26. ASSUME NEW f \in Frontends, Signal(f) PROVE Same
  BY <1>26 DEF TypeOK, Signal, At, Goto, Connected, Reaping, world
<1>27. ASSUME NEW f \in Frontends, Finish(f) PROVE Same
  BY <1>27 DEF TypeOK, Finish, At, Goto, Connected, Reaping, world, Reply
<1>. QED
  BY <1>2, <1>3, <1>4, <1>5, <1>6, <1>7, <1>8, <1>9, <1>10, <1>11, <1>12, <1>13, <1>14, <1>15,
     <1>16, <1>17, <1>18, <1>19, <1>20, <1>21, <1>22, <1>23, <1>24, <1>25, <1>26, <1>27 DEF
     Next, BrokerStep, Outside, Request, Handle, Watch, Output

(* So the broker counts each of them once (register_frontend,              *)
(* disconnect_frontend).                                                   *)
LEMMA CountStep ==
    ASSUME ConstantsAssumption, TypeOK, FrontendsAreCounted, Next
    PROVE  FrontendsAreCounted'
<1>. DEFINE Present == {g \in Frontends : Connected(g)}
<1>1. IsFiniteSet(Present)
  BY FS_Subset DEF ConstantsAssumption
<1>2. frontends = Cardinality(Present)
  BY DEF FrontendsAreCounted
<1>3. ASSUME NEW f \in Frontends, Accept(f) PROVE FrontendsAreCounted'
  <2>1. f \notin Present /\ Present' = Present \union {f}
    BY <1>3 DEF TypeOK, Accept, At, Goto, Connected, Reaping
  <2>2. Cardinality(Present \union {f}) = Cardinality(Present) + 1
    BY <1>1, <2>1, FS_AddElement
  <2>. QED
    BY <1>2, <1>3, <2>1, <2>2 DEF Accept, FrontendsAreCounted
<1>4. ASSUME NEW f \in Frontends, Disconnect(f) PROVE FrontendsAreCounted'
  <2>1. f \in Present /\ Present' = Present \ {f}
    BY <1>4 DEF TypeOK, Disconnect, At, Goto, Connected, Reaping
  <2>2. /\ Cardinality(Present) \in Nat
        /\ Cardinality(Present \ {f}) \in Nat
        /\ Cardinality(Present \ {f}) = Cardinality(Present) - 1
    BY <1>1, <2>1, FS_RemoveElement, FS_CardinalityType
  <2>3. frontends' = frontends - 1
    BY <1>2, <1>4, <2>2 DEF Disconnect, FrontendsLeft
  <2>. QED
    BY <1>2, <2>1, <2>2, <2>3 DEF FrontendsAreCounted
<1>5. CASE frontends' = frontends /\ \A g \in Frontends : Connected(g)' = Connected(g)
  BY <1>2, <1>5 DEF FrontendsAreCounted
<1>. QED
  BY <1>3, <1>4, <1>5, ConnectionsChange

-----------------------------------------------------------------------------
(* The inductive invariant holds when broker_main starts to poll: one      *)
(* connection is registered and no session exists.                         *)
LEMMA InitInductive ==
    ASSUME ConstantsAssumption, Init
    PROVE  Inductive
<1>1. TypeOK
  BY DEF Init, TypeOK, WritePhases, Steps, StartSteps, Reaps, StartReaps, Groups, Told
<1>2. HandlersOwnTheirStart /\ NewSessionsAreFresh
  BY DEF Init, ConstantsAssumption, HandlersOwnTheirStart, NewSessionsAreFresh, Unspawned,
         Unregistered, Starting, InStart, StartSteps
<1>3. StartsKeepTheirRow /\ EndedSessionsAreForgotten /\ UnfinishedStartsAreHeld
  BY DEF Init, StartsKeepTheirRow, EndedSessionsAreForgotten, UnfinishedStartsAreHeld, Starting,
         InStart, StartSteps
<1>4. LeaseAgreement /\ AttachableIsConfirmed
  BY DEF Init, LeaseAgreement, AttachableIsConfirmed
<1>5. ReapedGroupsDoNotRun /\ GuardedWhileAlive /\ StopsAreNotAnnounced
  BY DEF Init, ReapedGroupsDoNotRun, GuardedWhileAlive, StopsAreNotAnnounced
<1>6. AgentsHaveAnOwner
  BY DEF Init, AgentsHaveAnOwner
<1>7. StartsAreInOrder /\ NewSessionsAreUnheard
  BY DEF Init, StartsAreInOrder, NewSessionsAreUnheard, Unheard, InStart, StartSteps
<1>8. EndingsAreProven /\ UnconfirmedAreReaped
  BY DEF Init, EndingsAreProven, UnconfirmedAreReaped
<1>9. LeasesAreAnnounced /\ OutputInsideLease
  BY DEF Init, LeasesAreAnnounced, OutputInsideLease
<1>10. FrontendsAreCounted
  <2>1. PICK first \in Frontends :
           pc = [f \in Frontends |-> IF f = first THEN "idle" ELSE "unborn"]
    BY DEF Init
  <2>2. {f \in Frontends : Connected(f)} = {first}
    BY <2>1 DEF Connected, Reaping
  <2>. QED
    BY <2>2, FS_Singleton DEF Init, FrontendsAreCounted
<1>. QED
  BY <1>1, <1>2, <1>3, <1>4, <1>5, <1>6, <1>7, <1>8, <1>9, <1>10 DEF Inductive

(* Every step of a handler, a watcher, a reader or the environment keeps   *)
(* the inductive invariant.                                                *)
LEMMA StepInductive ==
    ASSUME ConstantsAssumption, Inductive, [Next]_vars
    PROVE  Inductive'
<1>1. CASE Next
  <2>1. TypeOK' /\ HandlersOwnTheirStart' /\ NewSessionsAreFresh'
    BY <1>1, TypeStep, OwnStep, FreshStep DEF Inductive
  <2>2. StartsKeepTheirRow' /\ EndedSessionsAreForgotten' /\ UnfinishedStartsAreHeld'
    BY <1>1, RowStep, EndedStep, UnfinishedStep DEF Inductive
  <2>3. LeaseAgreement' /\ AttachableIsConfirmed'
    BY <1>1, LeaseStep, AttachableStep DEF Inductive
  <2>4. ReapedGroupsDoNotRun' /\ GuardedWhileAlive' /\ StopsAreNotAnnounced'
    BY <1>1, ReapedStep, GuardedStep, StopsStep DEF Inductive
  <2>5. AgentsHaveAnOwner'
    BY <1>1, OwnedStep DEF Inductive
  <2>6. StartsAreInOrder' /\ NewSessionsAreUnheard'
    BY <1>1, <2>1, OrderStep, UnheardStep DEF Inductive
  <2>7. EndingsAreProven' /\ UnconfirmedAreReaped'
    BY <1>1, ProvenStep, ReapedFirst DEF Inductive
  <2>8. LeasesAreAnnounced' /\ OutputInsideLease'
    BY <1>1, AnnouncedStep, OutputStep DEF Inductive
  <2>9. FrontendsAreCounted'
    BY <1>1, CountStep DEF Inductive
  <2>. QED
    BY <2>1, <2>2, <2>3, <2>4, <2>5, <2>6, <2>7, <2>8, <2>9 DEF Inductive
<1>2. CASE UNCHANGED vars
  <2>. USE <1>2 DEF vars, rows, threads, agents, watchers, readers, world, history
  <2>1. TypeOK'
    BY DEF Inductive, TypeOK
  <2>2. HandlersOwnTheirStart' /\ NewSessionsAreFresh'
    BY DEF Inductive, HandlersOwnTheirStart, NewSessionsAreFresh, Unspawned, Unregistered,
           Starting, InStart
  <2>3. StartsKeepTheirRow' /\ EndedSessionsAreForgotten' /\ UnfinishedStartsAreHeld'
    BY DEF Inductive, StartsKeepTheirRow, EndedSessionsAreForgotten, UnfinishedStartsAreHeld,
           Starting, InStart
  <2>4. LeaseAgreement' /\ AttachableIsConfirmed'
    BY DEF Inductive, LeaseAgreement, AttachableIsConfirmed, InStart
  <2>5. ReapedGroupsDoNotRun' /\ GuardedWhileAlive' /\ StopsAreNotAnnounced'
    BY DEF Inductive, ReapedGroupsDoNotRun, GuardedWhileAlive, StopsAreNotAnnounced
  <2>6. AgentsHaveAnOwner'
    BY DEF Inductive, AgentsHaveAnOwner, Owned, InStart
  <2>7. StartsAreInOrder' /\ NewSessionsAreUnheard'
    BY DEF Inductive, StartsAreInOrder, NewSessionsAreUnheard, Unheard, Starting, InStart
  <2>8. EndingsAreProven' /\ UnconfirmedAreReaped'
    BY DEF Inductive, EndingsAreProven, UnconfirmedAreReaped
  <2>9. LeasesAreAnnounced' /\ OutputInsideLease'
    BY DEF Inductive, LeasesAreAnnounced, OutputInsideLease
  <2>10. FrontendsAreCounted'
    BY DEF Inductive, FrontendsAreCounted, Connected, Reaping
  <2>. QED
    BY <2>1, <2>2, <2>3, <2>4, <2>5, <2>6, <2>7, <2>8, <2>9, <2>10 DEF Inductive
<1>. QED
  BY <1>1, <1>2

(* Whatever the connections, sessions and failures, the inductive          *)
(* invariant holds in every state the broker reaches.                      *)
THEOREM InductiveInvariant == Spec => []Inductive
<1>1. Init => Inductive
  BY ConstantsAssumption, InitInductive
<1>2. Inductive /\ [Next]_vars => Inductive'
  BY ConstantsAssumption, StepInductive
<1>. QED
  BY <1>1, <1>2, PTL DEF Spec

(* The broker's tables, threads, guardians and watchers stay in their      *)
(* types.                                                                  *)
THEOREM TypeCorrect == Spec => []TypeOK
<1>1. Inductive => TypeOK
  BY DEF Inductive
<1>. QED
  BY <1>1, InductiveInvariant, PTL

(* dispatch_message, start_session and disconnect_frontend keep each       *)
(* thread's own record of its lease and the shared table in agreement,     *)
(* although they update the two at different times.                        *)
THEOREM LeasesAgree == Spec => []LeaseAgreement
<1>1. Inductive => LeaseAgreement
  BY DEF Inductive
<1>. QED
  BY <1>1, InductiveInvariant, PTL

(* pty-attach never finds a session whose start was not delivered and, by  *)
(* a lifecycle client, acknowledged.                                       *)
THEOREM AttachableConfirmed == Spec => []AttachableIsConfirmed
<1>1. Inductive => AttachableIsConfirmed
  BY DEF Inductive
<1>. QED
  BY <1>1, InductiveInvariant, PTL

(* No agent runs without an armed guardian, and no guardian stands down    *)
(* before its group is proven gone.                                        *)
THEOREM AlwaysGuarded == Spec => []GuardedWhileAlive
<1>1. Inductive => GuardedWhileAlive
  BY DEF Inductive
<1>. QED
  BY <1>1, InductiveInvariant, PTL

(* Once FrontendGuard and the thread of a connection are done, no agent    *)
(* started for it runs unless its client acknowledged the start.           *)
THEOREM UnconfirmedDies == Spec => []UnconfirmedDiesWithFrontend
<1>1. Inductive => UnconfirmedDiesWithFrontend
  BY DEF Inductive, AgentsHaveAnOwner, Owned, InStart, StartSteps, LeaseAgreement,
         UnconfirmedDiesWithFrontend
<1>. QED
  BY <1>1, InductiveInvariant, PTL

(* The number that keeps the broker alive between sessions is that of the  *)
(* connections whose guard is not dropped yet (register_frontend,          *)
(* disconnect_frontend), for any number of them.                           *)
THEOREM ConnectionsAreCounted == Spec => []FrontendsAreCounted
<1>1. Inductive => FrontendsAreCounted
  BY DEF Inductive
<1>. QED
  BY <1>1, InductiveInvariant, PTL

(* A session whose stop was accepted is never announced as exited, whether *)
(* pty-stop or the watcher reaches the shared table first.                 *)
THEOREM StopsEndOnce == Spec => []OneEnding
<1>1. Inductive => OneEnding
  BY DEF Inductive, StopsAreNotAnnounced, OneEnding
<1>. QED
  BY <1>1, InductiveInvariant, PTL

(* PtyStopped is only said of a group that is gone and a session that is   *)
(* forgotten, and PtyDetached of an unacknowledged start only when its     *)
(* agent does not run: finish_stop and finish_detach wait for the watcher. *)
THEOREM EndingsTrue == Spec => []EndingsAreTrue
<1>1. Inductive => EndingsAreTrue
  BY DEF Inductive, EndingsAreProven, EndedSessionsAreForgotten, UnconfirmedAreReaped,
         EndingsAreTrue
<1>. QED
  BY <1>1, InductiveInvariant, PTL

(* What an output reader writes lies between the message that gave its     *)
(* client the lease and the message that takes it away.                    *)
THEOREM OutputInside == Spec => []OutputInsideLease
<1>1. Inductive => OutputInsideLease
  BY DEF Inductive
<1>. QED
  BY <1>1, InductiveInvariant, PTL

(* The watcher's PtyExited never reaches the client a session was started  *)
(* for before its PtyStarted does.                                         *)
THEOREM ExitIsAfterStart == Spec => ExitAfterStarted
<1>. DEFINE After == \A f \in Frontends, s \in Sessions :
                        told'[f][s] = "exited" /\ birth[s] = f => told[f][s] # "none"
<1>1. ASSUME Inductive, [Next]_vars
      PROVE  [After]_vars
  <2>1. CASE UNCHANGED vars
    BY <2>1
  <2>2. CASE Next
    <3>1. ASSUME NEW f \in Frontends, NEW s \in Sessions,
                 told'[f][s] = "exited", birth[s] = f, told[f][s] = "none"
          PROVE  FALSE
      <4>1. notify[s] = f
        BY <1>1, <2>2, <3>1, ToldChanges DEF Inductive
      <4>2. notify[s] # NoFrontend
        BY <4>1, ConstantsAssumption DEF ConstantsAssumption
      <4>. QED
        BY <1>1, <3>1, <4>2 DEF Inductive, LeasesAreAnnounced
    <3>. QED
      BY <3>1
  <2>. QED
    BY <1>1, <2>1, <2>2
<1>. QED
  BY <1>1, InductiveInvariant, PTL DEF Spec, ExitAfterStarted

-----------------------------------------------------------------------------
(* RemoteBroker implements SessionLease. *)

(* A session without a row stays as unborn or as ended as it is.           *)
Untouched(s) == watcher[s] = "none" /\ completion[s] = "none"

LEMMA EndsForGood ==
    ASSUME TypeOK, HandlersOwnTheirStart, StartsAreInOrder, EndingsAreProven, Next,
           NEW s \in Sessions
    PROVE  /\ Untouched(s)' => Untouched(s)
           /\ Untouched(s) /\ s \notin sessions => Untouched(s)'
<1>1. Untouched(s)' => Untouched(s)
  BY WatcherChanges, CompletionIsKept DEF Untouched
<1>2. ASSUME Untouched(s), s \notin sessions
      PROVE  Untouched(s)'
  <2>1. \A f \in Frontends : pc[f] \in {"watch", "unregister"} => arg[f] # s
    BY <1>2 DEF StartsAreInOrder
  <2>. QED
    BY <1>2, <2>1, WatcherChanges, CompletionChanges DEF Untouched
<1>. QED
  BY <1>1, <1>2

(* How a session is seen through its lease: the abstract state.            *)

SameRow(s) == /\ s \in sessions' <=> s \in sessions
              /\ s \in sessions => /\ controller'[s] = controller[s]
                                   /\ start_confirmed'[s] = start_confirmed[s]
                                   /\ \/ write_phase'[s] = write_phase[s]
                                      \/ {write_phase[s], write_phase'[s]} \subseteq
                                            {"Pending", "Writing"}

LEMMA SameRowIsSeenSame ==
    ASSUME TypeOK, HandlersOwnTheirStart, StartsAreInOrder, EndingsAreProven, Next,
           NEW s \in Sessions, SameRow(s)
    PROVE  stageOf(s)' = stageOf(s) /\ holderOf(s)' = holderOf(s)
<1>1. CASE s \in sessions
  <2>1. s \in sessions' /\ holderOf(s)' = holderOf(s)
    BY <1>1 DEF SameRow, holderOf
  <2>2. CASE write_phase'[s] = write_phase[s]
    <3>1. start_confirmed'[s] <=> start_confirmed[s]
      BY <1>1 DEF SameRow
    <3>2. write_phase[s] \in WritePhases
      BY DEF TypeOK
    <3>. QED
      BY <1>1, <2>1, <2>2, <3>1, <3>2 DEF stageOf, WritePhases
  <2>3. CASE {write_phase[s], write_phase'[s]} \subseteq {"Pending", "Writing"}
    BY <1>1, <2>1, <2>3 DEF stageOf
  <2>. QED
    BY <1>1, <2>1, <2>2, <2>3 DEF SameRow
<1>2. CASE s \notin sessions
  <2>1. Untouched(s)' <=> Untouched(s)
    BY <1>2, EndsForGood
  <2>. QED
    BY <1>2, <2>1 DEF SameRow, stageOf, holderOf, Untouched
<1>. QED
  BY <1>1, <1>2

(* A step that leaves every row but one as it is.                          *)
LEMMA OneRowMoves ==
    ASSUME TypeOK, HandlersOwnTheirStart, StartsAreInOrder, EndingsAreProven, Next,
           NEW s \in Sessions, \A x \in Sessions \ {s} : SameRow(x)
    PROVE  /\ [x \in Sessions |-> stageOf(x)'] =
                 [[x \in Sessions |-> stageOf(x)] EXCEPT ![s] = stageOf(s)']
           /\ [x \in Sessions |-> holderOf(x)'] =
                 [[x \in Sessions |-> holderOf(x)] EXCEPT ![s] = holderOf(s)']
<1>1. \A x \in Sessions \ {s} : stageOf(x)' = stageOf(x) /\ holderOf(x)' = holderOf(x)
  BY SameRowIsSeenSame
<1>. QED
  BY <1>1

(* Outside pty-start a connection holds at most the session it remembers,  *)
(* and that session is confirmed or can be forgotten with its connection.  *)
LEMMA HeldIsSettled ==
    ASSUME ConstantsAssumption, TypeOK, NewSessionsAreFresh, StartsKeepTheirRow,
           UnfinishedStartsAreHeld, LeaseAgreement,
           NEW f \in Frontends, ~InStart(f), NEW s \in sessions, controller[s] = f
    PROVE  /\ controlled_session[f] = s
           /\ write_phase[s] = "Written"
           /\ ~start_confirmed[s] => s \in UnconfirmedOf(f)
<1>1. controlled_session[f] = s
  BY DEF LeaseAgreement
<1>2. birth[s] \in Frontends
  BY DEF TypeOK, NewSessionsAreFresh, Unspawned, Unregistered
<1>3. write_phase[s] = "Written"
  BY <1>2 DEF UnfinishedStartsAreHeld, StartsKeepTheirRow
<1>. QED
  BY <1>1, <1>3 DEF UnfinishedStartsAreHeld, UnconfirmedOf

(* Every step of the broker is a step of SessionLease or leaves the leases *)
(* alone.                                                                  *)
LEMMA LeaseRefinement ==
    ASSUME ConstantsAssumption, Inductive, Next
    PROVE  [Lease!Next]_(Lease!vars)
<1>. USE DEF Inductive
<1>. DEFINE stage == [x \in Sessions |-> stageOf(x)]
            holder == [x \in Sessions |-> holderOf(x)]
            One(s) == \A x \in Sessions \ {s} : SameRow(x)
<1>1. ASSUME \A x \in Sessions : SameRow(x)
      PROVE  UNCHANGED Lease!vars
  <2>1. \A x \in Sessions : stageOf(x)' = stageOf(x) /\ holderOf(x)' = holderOf(x)
    BY <1>1, SameRowIsSeenSame
  <2>. QED
    BY <2>1 DEF Lease!vars
<1>2. ASSUME NEW s \in Sessions, One(s)
      PROVE  /\ stage' = [stage EXCEPT ![s] = stageOf(s)']
             /\ holder' = [holder EXCEPT ![s] = holderOf(s)']
  BY <1>2, OneRowMoves
<1>3. ASSUME NEW s \in sessions, One(s), s \notin sessions', ~Untouched(s)'
      PROVE  Lease!Next
  <2>1. s \in Sessions
    BY DEF TypeOK
  <2>2. stageOf(s) \notin {"unborn", "ended"}
    BY <2>1 DEF TypeOK, stageOf, WritePhases
  <2>3. stageOf(s)' = "ended" /\ holderOf(s)' = NoFrontend
    BY <1>3 DEF stageOf, holderOf, Untouched
  <2>4. Lease!End(s)
    BY <1>2, <1>3, <2>1, <2>2, <2>3 DEF Lease!End
  <2>. QED
    BY <2>1, <2>4 DEF Lease!Next
<1>4. ASSUME NEW f \in Frontends, ~InStart(f), NEW s \in sessions, controller[s] = f,
             s \notin UnconfirmedOf(f), One(s), UNCHANGED <<write_phase, start_confirmed>>,
             s \in sessions', controller'[s] = NoFrontend
      PROVE  Lease!Next
  <2>1. s \in Sessions /\ write_phase[s] = "Written" /\ start_confirmed[s]
    BY <1>4, HeldIsSettled DEF TypeOK
  <2>2. /\ stageOf(s) = "confirmed" /\ holderOf(s) = f
        /\ stageOf(s)' = "confirmed" /\ holderOf(s)' = NoFrontend
    BY <1>4, <2>1 DEF stageOf, holderOf
  <2>3. Lease!Release(s, f)
    BY <1>2, <1>4, <2>1, <2>2 DEF Lease!Release
  <2>. QED
    BY <2>1, <2>3 DEF Lease!Next
<1>5. CASE UNCHANGED rows
  BY <1>1, <1>5 DEF rows, SameRow
<1>6. ASSUME NEW f \in Frontends, Disconnect(f)
      PROVE  Lease!Next \/ UNCHANGED Lease!vars
  <2>1. pc[f] = "closing" /\ ~InStart(f)
    BY <1>6 DEF Disconnect, At, InStart, StartSteps
  <2>2. \A s \in sessions : controller[s] = f => controlled_session[f] = s
    BY <2>1, HeldIsSettled
  <2>3. /\ sessions' = sessions \ UnconfirmedOf(f) /\ controller' = ReleasedBy(f)
        /\ UNCHANGED <<write_phase, start_confirmed, watchers>>
    BY <1>6 DEF Disconnect
  <2>4. \A x \in Sessions : ~(x \in sessions /\ controller[x] = f) => SameRow(x)
    BY <2>3 DEF SameRow, ReleasedBy, UnconfirmedOf
  <2>5. CASE \A s \in sessions : controller[s] # f
    BY <1>1, <2>4, <2>5
  <2>6. ASSUME NEW s \in sessions, controller[s] = f
        PROVE  Lease!Next
    <3>1. One(s) /\ s \in Sessions
      BY <2>2, <2>4, <2>6 DEF TypeOK
    <3>2. CASE s \in UnconfirmedOf(f)
      <4>1. ~Untouched(s)'
        BY <2>3, <3>2 DEF watchers, Untouched, UnconfirmedOf, StartsAreInOrder
      <4>. QED
        BY <1>3, <2>3, <3>1, <3>2, <4>1
    <3>3. CASE s \notin UnconfirmedOf(f)
      BY <1>4, <2>1, <2>3, <2>6, <3>1, <3>3 DEF ReleasedBy
    <3>. QED
      BY <3>2, <3>3
  <2>. QED
    BY <2>5, <2>6
<1>7. ASSUME NEW f \in Frontends, Insert(f)
      PROVE  Lease!Next
  <2>0. PICK s \in Sessions : s = arg[f]
    BY <1>7 DEF Insert, At, HandlersOwnTheirStart
  <2>1. Unregistered(s)
    BY <1>7, <2>0 DEF Insert, At, NewSessionsAreFresh
  <2>2. One(s)
    BY <1>7, <2>0, <2>1 DEF TypeOK, Insert, SameRow
  <2>3. stageOf(s) = "unborn"
    BY <2>1 DEF Unregistered, stageOf
  <2>4. s \in sessions' /\ write_phase'[s] = "Pending" /\ controller'[s] = f
    BY <1>7, <2>0, <2>1 DEF TypeOK, Insert
  <2>5. stageOf(s)' = "starting" /\ holderOf(s)' = f
    BY <2>4 DEF stageOf, holderOf
  <2>6. Lease!Register(s, f)
    BY <1>2, <2>2, <2>3, <2>5 DEF Lease!Register
  <2>. QED
    BY <2>6 DEF Lease!Next
<1>8. ASSUME NEW f \in Frontends, Unregister(f)
      PROVE  Lease!Next
  <2>. DEFINE s == arg[f]
  <2>1. s \in sessions /\ s \in Sessions
    BY <1>8 DEF TypeOK, Unregister, At, StartsAreInOrder
  <2>2. One(s) /\ s \notin sessions' /\ completion'[s] # "none"
    BY <1>8, <2>1 DEF TypeOK, Unregister, SameRow
  <2>. QED
    BY <1>3, <2>1, <2>2 DEF Untouched
<1>9. ASSUME NEW f \in Frontends, Claim(f)
      PROVE  UNCHANGED Lease!vars
  <2>1. /\ UNCHANGED <<sessions, controller, start_confirmed>>
        /\ \/ UNCHANGED write_phase
           \/ /\ arg[f] \in sessions /\ write_phase[arg[f]] = "Pending"
              /\ write_phase' = [write_phase EXCEPT ![arg[f]] = "Writing"]
    BY <1>9 DEF Claim
  <2>. QED
    BY <1>1, <2>1 DEF TypeOK, SameRow
<1>10. ASSUME NEW f \in Frontends, CommitStarted(f) \/ CommitFailed(f)
       PROVE  Lease!Next
  <2>0. PICK s \in Sessions : s = arg[f]
    BY <1>10 DEF CommitStarted, CommitFailed, At, HandlersOwnTheirStart
  <2>1. s \in sessions /\ controller[s] = f /\ write_phase[s] = "Writing"
    BY <1>10, <2>0 DEF CommitStarted, CommitFailed, At, StartsAreInOrder, StartsKeepTheirRow,
       InStart, StartSteps
  <2>2. stageOf(s) = "starting" /\ holderOf(s) = f
    BY <2>1 DEF stageOf, holderOf
  <2>3. /\ UNCHANGED <<sessions, controller>>
        /\ One(s)
    BY <1>10, <2>0, <2>1 DEF TypeOK, CommitStarted, CommitFailed, SameRow
  <2>4. CASE CommitStarted(f)
    <3>1. write_phase'[s] = "Written" /\ start_confirmed'[s] = (f \notin LifecycleFrontends)
      BY <2>0, <2>1, <2>4 DEF TypeOK, CommitStarted
    <3>2. /\ stageOf(s)' = IF f \in LifecycleFrontends THEN "unconfirmed" ELSE "confirmed"
          /\ holderOf(s)' = f
      BY <2>1, <2>3, <3>1 DEF stageOf, holderOf
    <3>3. Lease!Deliver(s, f)
      BY <1>2, <2>1, <2>2, <2>3, <3>2 DEF Lease!Deliver, Lease!Move
    <3>. QED
      BY <2>1, <3>3 DEF Lease!Next
  <2>5. CASE CommitFailed(f)
    <3>1. write_phase'[s] = "Abandoned"
      BY <2>0, <2>1, <2>5 DEF TypeOK, CommitFailed
    <3>2. stageOf(s)' = "failed" /\ holderOf(s)' = f
      BY <2>1, <2>3, <3>1 DEF stageOf, holderOf
    <3>3. Lease!FailDelivery(s, f)
      BY <1>2, <2>1, <2>2, <2>3, <3>2 DEF Lease!FailDelivery, Lease!Move
    <3>. QED
      BY <2>1, <3>3 DEF Lease!Next
  <2>. QED
    BY <1>10, <2>4, <2>5
<1>11. ASSUME NEW f \in Frontends, NEW s \in Sessions, PtyStartAck(f, s)
       PROVE  Lease!Next \/ UNCHANGED Lease!vars
  <2>1. /\ s \in sessions /\ write_phase[s] = "Written" /\ controller[s] = f
        /\ UNCHANGED <<sessions, write_phase, controller>>
        /\ start_confirmed' = [start_confirmed EXCEPT ![s] = TRUE]
    BY <1>11 DEF PtyStartAck
  <2>2. One(s) /\ start_confirmed'[s]
    BY <2>1 DEF TypeOK, SameRow
  <2>3. CASE start_confirmed[s]
    <3>1. start_confirmed' = start_confirmed
      BY <2>1, <2>3 DEF TypeOK
    <3>. QED
      BY <1>1, <2>1, <3>1 DEF SameRow
  <2>4. CASE ~start_confirmed[s]
    <3>1. /\ stageOf(s) = "unconfirmed" /\ holderOf(s) = f
          /\ stageOf(s)' = "confirmed" /\ holderOf(s)' = f
      BY <2>1, <2>2, <2>4 DEF stageOf, holderOf
    <3>2. Lease!Confirm(s, f)
      BY <1>2, <2>2, <3>1 DEF Lease!Confirm, Lease!Move
    <3>. QED
      BY <3>2 DEF Lease!Next
  <2>. QED
    BY <2>3, <2>4
<1>12. ASSUME NEW f \in Frontends, NEW s \in Sessions, PtyAttach(f, s)
       PROVE  Lease!Next
  <2>1. /\ s \in sessions /\ controller[s] = NoFrontend
        /\ UNCHANGED <<sessions, write_phase, start_confirmed>>
        /\ controller' = [controller EXCEPT ![s] = f]
    BY <1>12 DEF PtyAttach, Attachable
  <2>2. One(s) /\ controller'[s] = f
    BY <2>1 DEF TypeOK, SameRow
  <2>3. write_phase[s] = "Written" /\ start_confirmed[s]
    BY <2>1 DEF AttachableIsConfirmed
  <2>4. /\ stageOf(s) = "confirmed" /\ holderOf(s) = NoFrontend
        /\ stageOf(s)' = "confirmed" /\ holderOf(s)' = f
    BY <2>1, <2>2, <2>3 DEF stageOf, holderOf
  <2>5. Lease!Take(s, f)
    BY <1>2, <2>2, <2>4 DEF Lease!Take
  <2>. QED
    BY <2>5 DEF Lease!Next
<1>13. ASSUME NEW f \in Frontends, Activate(f) \/ PtyStop(f)
       PROVE  UNCHANGED Lease!vars
  BY <1>1, <1>13 DEF Activate, PtyStop, SameRow
<1>14. ASSUME NEW f \in Frontends, PtyDetach(f)
       PROVE  Lease!Next \/ UNCHANGED Lease!vars
  <2>1. pc[f] = "idle" /\ ~InStart(f)
    BY <1>14 DEF PtyDetach, At, InStart, StartSteps
  <2>0. PICK s \in Sessions : s = controlled_session[f]
    BY <1>14 DEF TypeOK, PtyDetach
  <2>2. UNCHANGED <<write_phase, start_confirmed, watchers>>
    BY <1>14 DEF PtyDetach
  <2>3. CASE s \in UnconfirmedOf(f)
    <3>1. sessions' = sessions \ {s} /\ UNCHANGED controller /\ s \in sessions
      BY <1>14, <2>0, <2>3 DEF PtyDetach, UnconfirmedOf
    <3>2. One(s)
      BY <2>2, <3>1 DEF SameRow
    <3>3. ~Untouched(s)'
      BY <2>2, <2>3 DEF watchers, Untouched, UnconfirmedOf, StartsAreInOrder
    <3>. QED
      BY <1>3, <3>1, <3>2, <3>3
  <2>4. CASE s \notin UnconfirmedOf(f)
    <3>1. /\ UNCHANGED sessions
          /\ controller' = [controller EXCEPT ![s] = IF s \in sessions /\ controller[s] = f
                                                     THEN NoFrontend ELSE controller[s]]
      BY <1>14, <2>0, <2>4 DEF PtyDetach
    <3>2. One(s)
      BY <2>1, <2>2, <3>1 DEF TypeOK, SameRow
    <3>3. CASE s \in sessions /\ controller[s] = f
      <4>1. controller'[s] = NoFrontend
        BY <2>1, <3>1, <3>3 DEF TypeOK
      <4>. QED
        BY <1>4, <2>1, <2>2, <2>4, <3>1, <3>2, <3>3, <4>1
    <3>4. CASE ~(s \in sessions /\ controller[s] = f)
      <4>1. controller' = controller
        BY <2>1, <3>1, <3>4 DEF TypeOK
      <4>. QED
        BY <1>1, <2>2, <3>1, <4>1 DEF SameRow
    <3>. QED
      BY <3>3, <3>4
  <2>. QED
    BY <2>3, <2>4
<1>15. ASSUME NEW s \in Sessions, Classify(s)
       PROVE  Lease!Next \/ UNCHANGED Lease!vars
  <2>1. /\ sessions' = sessions \ {s}
        /\ UNCHANGED <<write_phase, controller, start_confirmed>>
        /\ watcher'[s] = "cleanup"
    BY <1>15 DEF TypeOK, Classify
  <2>2. CASE s \in sessions
    BY <1>3, <2>1, <2>2 DEF SameRow, Untouched
  <2>3. CASE s \notin sessions
    BY <1>1, <2>1, <2>3 DEF SameRow
  <2>. QED
    BY <2>2, <2>3
<1>. QED
  BY <1>5, <1>6, <1>7, <1>8, <1>9, <1>10, <1>11, <1>12, <1>13, <1>14, <1>15, RowMovers

(* The broker keeps the promise of SessionLease for every session: who     *)
(* holds it, when another connection may take it, and when it is over.     *)
THEOREM LeaseKept == Spec => KeepsLease
<1>1. ASSUME Init
      PROVE  Lease!Init
  <2>1. \A s \in Sessions : stageOf(s) = "unborn" /\ holderOf(s) = NoFrontend
    BY <1>1 DEF Init, stageOf, holderOf
  <2>. QED
    BY <2>1 DEF Lease!Init
<1>2. ASSUME Inductive, [Next]_vars
      PROVE  [Lease!Next]_(Lease!vars)
  <2>1. CASE UNCHANGED vars
    <3>1. \A s \in Sessions : stageOf(s)' = stageOf(s) /\ holderOf(s)' = holderOf(s)
      BY <2>1 DEF vars, rows, watchers, stageOf, holderOf
    <3>. QED
      BY <3>1 DEF Lease!vars
  <2>2. CASE Next
    BY <1>2, <2>2, ConstantsAssumption, LeaseRefinement
  <2>. QED
    BY <1>2, <2>1, <2>2
<1>. QED
  BY <1>1, <1>2, InductiveInvariant, PTL DEF Spec, KeepsLease, Lease!Spec
=============================================================================
