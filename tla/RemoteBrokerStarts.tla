------------------------- MODULE RemoteBrokerStarts -------------------------
(***************************************************************************)
(* First the types: every step keeps the broker's variables in them, for   *)
(* any sets of connections, sessions and faults.                           *)
(*                                                                         *)
(* Then what RemoteBroker keeps true of its rows, one lemma per conjunct   *)
(* of the inductive invariant and, in each lemma, one step per action that *)
(* can disturb it.  These are the conjuncts about a start in progress:     *)
(* whose it is, what of it is visible, when it is over, and who answers    *)
(* for its agent until the client has acknowledged it.                     *)
(***************************************************************************)
EXTENDS RemoteBroker, FiniteSetTheorems, TLAPS

(* What a client was last told keeps its type.                             *)
LEMMA TellType ==
    ASSUME told \in [Frontends -> [Sessions -> Told]],
           NEW f \in Frontends, NEW s, NEW what \in Told, Tell(f, s, what)
    PROVE  told' \in [Frontends -> [Sessions -> Told]]
<1>1. CASE peer_open[f]
  <2>. DEFINE new == [told[f] EXCEPT ![s] = IF @ = "exited" THEN @ ELSE what]
  <2>1. new \in [Sessions -> Told]
    OBVIOUS
  <2>2. told' = [told EXCEPT ![f] = new]
    BY <1>1 DEF Tell
  <2>. QED
    BY <2>1, <2>2
<1>2. CASE ~peer_open[f]
  BY <1>2 DEF Tell
<1>. QED
  BY <1>1, <1>2

(* A message to one client about one session leaves the others alone.      *)
LEMMA TellOthers ==
    ASSUME told \in [Frontends -> [Sessions -> Told]],
           NEW f \in Frontends, NEW s \in Sessions, NEW what, Tell(f, s, what),
           NEW g \in Frontends, NEW x \in Sessions, x # s
    PROVE  told'[g][x] = told[g][x]
  BY DEF Tell

(* SIGKILL leaves nothing of a group running and does not make a gone one  *)
(* of it.                                                                  *)
LEMMA KillFacts ==
    ASSUME group \in [Sessions -> Groups], NEW s \in Sessions, Kill(s)
    PROVE  /\ group' \in [Sessions -> Groups]
           /\ \A x \in Sessions \ {s} : group'[x] = group[x]
           /\ group'[s] = IF group[s] \in {"running", "exited"} THEN "killed" ELSE group[s]
<1>1. (IF group[s] \in {"running", "exited"} THEN "killed" ELSE group[s]) \in Groups
  BY DEF Groups
<1>. QED
  BY <1>1 DEF Kill

(* The same of the reaping that follows, which may end with nothing left.  *)
LEMMA ReapFacts ==
    ASSUME group \in [Sessions -> Groups], NEW s \in Sessions, ReapAndProve(s)
    PROVE  /\ group' \in [Sessions -> Groups]
           /\ \A x \in Sessions \ {s} : group'[x] = group[x]
           /\ group'[s] \notin {"running", "exited"}
           /\ group'[s] # "gone" =>
                 group'[s] = IF group[s] \in {"running", "exited"} THEN "killed" ELSE group[s]
<1>1. CASE group' = [group EXCEPT ![s] = "gone"]
  BY <1>1 DEF Groups
<1>2. CASE Kill(s)
  BY <1>2, KillFacts
<1>. QED
  BY <1>1, <1>2 DEF ReapAndProve

(* Opening its gate lets a reader that waits behind it read, and no other. *)
LEMMA GateType ==
    ASSUME NEW s, OpenGate(s),
           reader \in [Sessions -> {"none", "gated", "ready", "snapped", "writing"}]
    PROVE  reader' \in [Sessions -> {"none", "gated", "ready", "snapped", "writing"}]
<1>1. reader' = [reader EXCEPT ![s] = "ready"] \/ reader' = [reader EXCEPT ![s] = reader[s]]
  BY Zenon DEF OpenGate
<1>2. CASE reader' = [reader EXCEPT ![s] = "ready"]
  BY <1>2
<1>3. CASE reader' = [reader EXCEPT ![s] = reader[s]]
  BY <1>3
<1>. QED
  BY <1>1, <1>2, <1>3

(* Every step keeps every variable in its type.                            *)
LEMMA TypeStep ==
    ASSUME ConstantsAssumption, TypeOK, HandlersOwnTheirStart, Next
    PROVE  TypeOK'
<1>1. ASSUME NEW f \in Frontends, Accept(f) PROVE TypeOK'
  BY <1>1 DEF TypeOK, Accept, Goto, Steps, StartSteps, rows, agents, watchers, readers, history
<1>2. ASSUME NEW f \in Frontends, ClientLeaves(f) PROVE TypeOK'
  BY <1>2 DEF TypeOK, ClientLeaves, rows, threads, agents, watchers, readers, history
<1>3. ASSUME NEW f \in Frontends, HangUp(f) PROVE TypeOK'
  BY <1>3 DEF TypeOK, HangUp, Goto, Steps, StartSteps, rows, agents, watchers, readers, world,
       history
<1>4. ASSUME NEW f \in Frontends, Oversized(f) PROVE TypeOK'
  BY <1>4 DEF TypeOK, Oversized, Goto, Steps, StartSteps, rows, agents, watchers, readers,
       world, history
<1>5. ASSUME NEW f \in Frontends, Disconnect(f) PROVE TypeOK'
  <2>1. frontends' \in Nat
    BY <1>5 DEF TypeOK, Disconnect, FrontendsLeft
  <2>2. sessions' \in SUBSET Sessions
    BY <1>5 DEF TypeOK, Disconnect
  <2>3. controller' \in [Sessions -> Frontends \union {NoFrontend}]
    BY <1>5 DEF TypeOK, Disconnect, ReleasedBy
  <2>4. pc' \in [Frontends -> Steps]
    BY <1>5 DEF TypeOK, Disconnect, Goto, Steps, StartSteps
  <2>5. arg' \in [Frontends -> Sessions \union {NoSession}]
    <3>1. UnconfirmedOf(f) \subseteq Sessions
      BY DEF TypeOK, UnconfirmedOf
    <3>2. UnconfirmedOf(f) # {} => (CHOOSE s \in UnconfirmedOf(f) : TRUE) \in UnconfirmedOf(f)
      OBVIOUS
    <3>. QED
      BY <1>5, <3>1, <3>2 DEF TypeOK, Disconnect
  <2>6. after' \in [Frontends -> Reaps]
    BY <1>5 DEF TypeOK, Disconnect, Reaps, StartReaps
  <2>7. controlled_session' \in [Frontends -> Sessions \union {NoSession}]
    BY <1>5 DEF TypeOK, Disconnect
  <2>. QED
    BY <1>5, <2>1, <2>2, <2>3, <2>4, <2>5, <2>6, <2>7 DEF TypeOK, Disconnect, agents, watchers,
         readers, history
<1>6. ASSUME NEW f \in Frontends, SpawnFork(f) PROVE TypeOK'
  BY <1>6 DEF TypeOK, SpawnFork, Goto, Steps, StartSteps, Groups, rows, watchers, readers,
       world, history
<1>7. ASSUME NEW f \in Frontends, SpawnRelease(f) PROVE TypeOK'
  BY <1>7 DEF TypeOK, SpawnRelease, Goto, Steps, StartSteps, Groups, rows, watchers, readers,
       world, history
<1>8. ASSUME NEW f \in Frontends, SpawnFails(f) PROVE TypeOK'
  <2>1. group' \in [Sessions -> Groups]
    <3>1. \/ group' = [group EXCEPT ![arg[f]] = "gone"]
          \/ group' = [group EXCEPT ![arg[f]] = "killed"]
      BY <1>8 DEF SpawnFails
    <3>. QED
      BY <3>1 DEF TypeOK, Groups
  <2>2. guardian' \in [Sessions -> {"none", "armed", "disarmed", "fired"}]
    <3>1. \/ guardian' = [guardian EXCEPT ![arg[f]] = "disarmed"]
          \/ guardian' = [guardian EXCEPT ![arg[f]] = "fired"]
      BY <1>8 DEF SpawnFails
    <3>. QED
      BY <3>1 DEF TypeOK
  <2>3. pc' \in [Frontends -> Steps] /\ agent_spawn' = NoFrontend
    BY <1>8 DEF TypeOK, SpawnFails, Goto, Steps
  <2>. QED
    BY <1>8, <2>1, <2>2, <2>3 DEF TypeOK, SpawnFails, rows, watchers, readers, world, history
<1>9. ASSUME NEW f \in Frontends, Insert(f) PROVE TypeOK'
  <2>1. sessions' \in SUBSET Sessions
    <3>1. arg[f] \in Sessions /\ sessions' = sessions \union {arg[f]}
      BY <1>9 DEF Insert, HandlersOwnTheirStart, At
    <3>. QED
      BY <3>1 DEF TypeOK
  <2>2. write_phase' \in [Sessions -> WritePhases]
    BY <1>9 DEF TypeOK, Insert, WritePhases
  <2>3. controller' \in [Sessions -> Frontends \union {NoFrontend}]
    BY <1>9 DEF TypeOK, Insert
  <2>4. active' \in [Sessions -> BOOLEAN]
    BY <1>9 DEF TypeOK, Insert
  <2>5. start_confirmed' \in [Sessions -> BOOLEAN]
    BY <1>9 DEF TypeOK, Insert
  <2>6. stop_in_flight' \in [Sessions -> BOOLEAN]
    BY <1>9 DEF TypeOK, Insert
  <2>7. pc' \in [Frontends -> Steps]
    BY <1>9 DEF TypeOK, Insert, Goto, Steps, StartSteps
  <2>. QED
    BY <1>9, <2>1, <2>2, <2>3, <2>4, <2>5, <2>6, <2>7 DEF TypeOK, Insert, agents, watchers,
         readers, world, history
<1>10. ASSUME NEW f \in Frontends, SpawnWatcher(f) PROVE TypeOK'
  <2>1. watcher' \in [Sessions -> {"none", "waiting", "classify", "cleanup", "notify",
                                  "release", "await_guardian", "done"}]
    BY <1>10 DEF TypeOK, SpawnWatcher
  <2>2. pc' \in [Frontends -> Steps]
    BY <1>10 DEF TypeOK, SpawnWatcher, Goto, Steps, StartSteps
  <2>. QED
    BY <1>10, <2>1, <2>2 DEF TypeOK, SpawnWatcher, rows, agents, readers, world, history
<1>11. ASSUME NEW f \in Frontends, ReapUnwatched(f) PROVE TypeOK'
  <2>1. group' \in [Sessions -> Groups]
    BY <1>11, ReapFacts DEF TypeOK, ReapUnwatched, HandlersOwnTheirStart, At
  <2>2. pc' \in [Frontends -> Steps]
    BY <1>11 DEF TypeOK, ReapUnwatched, Goto, Steps, StartSteps
  <2>. QED
    BY <1>11, <2>1, <2>2 DEF TypeOK, ReapUnwatched, rows, watchers, readers, world, history
<1>12. ASSUME NEW f \in Frontends, Unregister(f) PROVE TypeOK'
  BY <1>12 DEF TypeOK, Unregister, Goto, Steps, StartSteps, readers, world, history,
       HandlersOwnTheirStart, At
<1>13. ASSUME NEW f \in Frontends, SpawnReader(f) PROVE TypeOK'
  <2>1. reader' \in [Sessions -> {"none", "gated", "ready", "snapped", "writing"}]
    BY <1>13 DEF TypeOK, SpawnReader
  <2>2. pc' \in [Frontends -> Steps]
    BY <1>13 DEF TypeOK, SpawnReader, Goto, Steps, StartSteps
  <2>3. after' \in [Frontends -> Reaps]
    <3>1. after' = after \/ after' = [after EXCEPT ![f] = "readerless"]
      BY <1>13 DEF SpawnReader
    <3>. QED
      BY <3>1 DEF TypeOK, Reaps, StartReaps
  <2>. QED
    BY <1>13, <2>1, <2>2, <2>3 DEF TypeOK, SpawnReader, rows, agents, watchers, world, history
<1>14. ASSUME NEW f \in Frontends, Claim(f) PROVE TypeOK'
  <2>1. write_phase' \in [Sessions -> WritePhases]
    <3>1. write_phase' \in {write_phase, [write_phase EXCEPT ![arg[f]] = "Writing"]}
      BY <1>14 DEF Claim
    <3>. QED
      BY <3>1 DEF TypeOK, WritePhases
  <2>2. pc' \in [Frontends -> Steps]
    <3>1. pc' = [pc EXCEPT ![f] = "send"] \/ pc' = [pc EXCEPT ![f] = "idle"]
      BY <1>14 DEF Claim, Goto
    <3>. QED
      BY <3>1 DEF TypeOK, Steps, StartSteps
  <2>3. reader' \in [Sessions -> {"none", "gated", "ready", "snapped", "writing"}]
    <3>1. reader' = reader \/ OpenGate(arg[f])
      BY <1>14 DEF Claim
    <3>. QED
      BY <3>1, GateType DEF TypeOK
  <2>4. UNCHANGED <<sessions, controller, active, start_confirmed, stop_in_flight, arg, after,
                   controlled_session, agents, watchers, snapshot, world, history>>
    BY <1>14 DEF Claim
  <2>. QED
    BY <2>1, <2>2, <2>3, <2>4 DEF TypeOK, agents, watchers, world, history
<1>15. ASSUME NEW f \in Frontends, SendStarted(f) PROVE TypeOK'
  <2>1. told' \in [Frontends -> [Sessions -> Told]]
    BY <1>15, TellType DEF TypeOK, SendStarted, Told
  <2>2. pc' \in [Frontends -> Steps]
    BY <1>15 DEF TypeOK, SendStarted, Goto, Steps, StartSteps
  <2>3. controlled_session' \in [Frontends -> Sessions \union {NoSession}]
    BY <1>15 DEF TypeOK, SendStarted
  <2>. QED
    BY <1>15, <2>1, <2>2, <2>3 DEF TypeOK, SendStarted, rows, agents, watchers, readers, world
<1>16. ASSUME NEW f \in Frontends, CommitStarted(f) PROVE TypeOK'
  <2>1. write_phase' \in [Sessions -> WritePhases]
    BY <1>16 DEF TypeOK, CommitStarted, WritePhases
  <2>2. start_confirmed' \in [Sessions -> BOOLEAN]
    BY <1>16 DEF TypeOK, CommitStarted
  <2>3. active' \in [Sessions -> BOOLEAN]
    <3>1. CASE arg[f] \in sessions
      <4>1. active' = active \/ active' = [active EXCEPT ![arg[f]] = TRUE]
        <5>1. active' = [active EXCEPT ![arg[f]] =
                          IF controller[arg[f]] = f THEN TRUE ELSE active[arg[f]]]
          BY <1>16, <3>1 DEF CommitStarted
        <5>. QED
          BY <5>1, Zenon DEF TypeOK
      <4>. QED
        BY <4>1 DEF TypeOK
    <3>2. CASE arg[f] \notin sessions
      BY <1>16, <3>2 DEF TypeOK, CommitStarted
    <3>. QED
      BY <3>1, <3>2
  <2>4. reader' \in [Sessions -> {"none", "gated", "ready", "snapped", "writing"}]
    BY <1>16, GateType DEF TypeOK, CommitStarted
  <2>5. pc' \in [Frontends -> Steps]
    BY <1>16 DEF TypeOK, CommitStarted, Goto, Steps, StartSteps
  <2>. QED
    BY <1>16, <2>1, <2>2, <2>3, <2>4, <2>5 DEF TypeOK, CommitStarted, agents, watchers, world,
         history
<1>17. ASSUME NEW f \in Frontends, CommitFailed(f) PROVE TypeOK'
  <2>1. write_phase' \in [Sessions -> WritePhases]
    BY <1>17 DEF TypeOK, CommitFailed, WritePhases
  <2>2. active' \in [Sessions -> BOOLEAN]
    BY <1>17 DEF TypeOK, CommitFailed
  <2>3. after' \in [Frontends -> Reaps]
    BY <1>17 DEF TypeOK, CommitFailed, Reaps, StartReaps
  <2>4. pc' \in [Frontends -> Steps]
    BY <1>17 DEF TypeOK, CommitFailed, Goto, Steps, StartSteps
  <2>5. reader' \in [Sessions -> {"none", "gated", "ready", "snapped", "writing"}]
    BY <1>17, GateType DEF TypeOK, CommitFailed
  <2>. QED
    BY <1>17, <2>1, <2>2, <2>3, <2>4, <2>5 DEF TypeOK, CommitFailed, agents, watchers, world,
         history
<1>18. ASSUME NEW f \in Frontends, PtyDetach(f) PROVE TypeOK'
  <2>1. controlled_session' \in [Frontends -> Sessions \union {NoSession}]
    BY <1>18 DEF TypeOK, PtyDetach
  <2>2. arg' \in [Frontends -> Sessions \union {NoSession}]
    BY <1>18 DEF TypeOK, PtyDetach
  <2>3. sessions' \in SUBSET Sessions
    BY <1>18 DEF TypeOK, PtyDetach
  <2>4. after' \in [Frontends -> Reaps]
    BY <1>18 DEF TypeOK, PtyDetach, Reaps, StartReaps
  <2>5. pc' \in [Frontends -> Steps]
    BY <1>18 DEF TypeOK, PtyDetach, Goto, Steps, StartSteps
  <2>6. controller' \in [Sessions -> Frontends \union {NoFrontend}]
    BY <1>18 DEF TypeOK, PtyDetach
  <2>. QED
    BY <1>18, <2>1, <2>2, <2>3, <2>4, <2>5, <2>6 DEF TypeOK, PtyDetach, agents, watchers,
         readers, world, history
<1>19. ASSUME NEW f \in Frontends, SendAttached(f) PROVE TypeOK'
  <2>1. told' \in [Frontends -> [Sessions -> Told]]
    BY <1>19, TellType DEF TypeOK, SendAttached, Told
  <2>2. pc' \in [Frontends -> Steps]
    BY <1>19 DEF TypeOK, SendAttached, Goto, Steps
  <2>. QED
    BY <1>19, <2>1, <2>2 DEF TypeOK, SendAttached, rows, agents, watchers, readers, world
<1>20. ASSUME NEW f \in Frontends, Activate(f) PROVE TypeOK'
  BY <1>20 DEF TypeOK, Activate, Goto, Steps, StartSteps, agents, watchers, readers, world,
       history
<1>21. ASSUME NEW f \in Frontends, SendDetached(f) PROVE TypeOK'
  <2>1. told' \in [Frontends -> [Sessions -> Told]]
    BY <1>21, TellType DEF TypeOK, SendDetached, Reply, Told
  <2>2. pc' \in [Frontends -> Steps]
    BY <1>21 DEF TypeOK, SendDetached, Reply, Goto, Steps
  <2>. QED
    BY <1>21, <2>1, <2>2 DEF TypeOK, SendDetached, rows, agents, watchers, readers, world
<1>22. ASSUME NEW f \in Frontends, PtyStop(f) PROVE TypeOK'
  <2>1. active' \in [Sessions -> BOOLEAN]
    <3>1. active' = active \/ active' = [active EXCEPT ![controlled_session[f]] = FALSE]
      BY <1>22 DEF PtyStop
    <3>. QED
      BY <3>1 DEF TypeOK
  <2>2. stop_in_flight' \in [Sessions -> BOOLEAN]
    <3>1. stop_in_flight' \in {stop_in_flight,
                              [stop_in_flight EXCEPT ![controlled_session[f]] = TRUE]}
      BY <1>22 DEF PtyStop
    <3>. QED
      BY <3>1 DEF TypeOK
  <2>3. arg' \in [Frontends -> Sessions \union {NoSession}]
    <3>1. arg' = arg \/ arg' = [arg EXCEPT ![f] = controlled_session[f]]
      BY <1>22 DEF PtyStop
    <3>. QED
      BY <3>1 DEF TypeOK
  <2>4. after' \in [Frontends -> Reaps]
    <3>1. after' = after \/ after' = [after EXCEPT ![f] = "stop"]
      BY <1>22 DEF PtyStop
    <3>. QED
      BY <3>1 DEF TypeOK, Reaps
  <2>5. pc' \in [Frontends -> Steps]
    BY <1>22 DEF TypeOK, PtyStop, Goto, Steps, StartSteps
  <2>6. controlled_session' \in [Frontends -> Sessions \union {NoSession}]
    BY <1>22 DEF TypeOK, PtyStop
  <2>. QED
    BY <1>22, <2>1, <2>2, <2>3, <2>4, <2>5, <2>6 DEF TypeOK, PtyStop, agents, watchers, readers,
         world, history
<1>23. ASSUME NEW f \in Frontends, Signal(f) PROVE TypeOK'
  <2>1. group' \in [Sessions -> Groups]
    BY <1>23, KillFacts DEF TypeOK, Signal, HandlersOwnTheirStart, At
  <2>2. pc' \in [Frontends -> Steps]
    BY <1>23 DEF TypeOK, Signal, Goto, Steps
  <2>. QED
    BY <1>23, <2>1, <2>2 DEF TypeOK, Signal, rows, watchers, readers, world, history
<1>24. ASSUME NEW f \in Frontends, Finish(f) PROVE TypeOK'
  <2>1. controlled_session' \in [Frontends -> Sessions \union {NoSession}]
    BY <1>24 DEF TypeOK, Finish
  <2>2. pc' \in [Frontends -> Steps]
    <3>1. \E step \in {"idle", "closing", "detach_send", "gone"} : pc' = [pc EXCEPT ![f] = step]
      <4>1. CASE after[f] = "stop"
        BY <1>24, <4>1 DEF Finish, Goto, Reply
      <4>2. CASE after[f] # "stop"
        BY <1>24, <4>2 DEF Finish, Goto
      <4>. QED
        BY <4>1, <4>2
    <3>. QED
      BY <3>1 DEF TypeOK, Steps
  <2>3. told' \in [Frontends -> [Sessions -> Told]]
    <3>1. told' = told \/ Tell(f, arg[f], "stopped")
      BY <1>24 DEF Finish, Reply
    <3>. QED
      BY <3>1, TellType DEF TypeOK, Told
  <2>. QED
    BY <1>24, <2>1, <2>2, <2>3 DEF TypeOK, Finish, rows, agents, watchers, readers, world
<1>25. ASSUME NEW f \in Frontends, NEW s \in Sessions, PtyStart(f, s) PROVE TypeOK'
  <2>1. controlled_session' \in [Frontends -> Sessions \union {NoSession}]
    BY <1>25 DEF TypeOK, PtyStart
  <2>2. pc' \in [Frontends -> Steps]
    BY <1>25 DEF TypeOK, PtyStart, Goto, Steps, StartSteps
  <2>3. arg' \in [Frontends -> Sessions \union {NoSession}]
    <3>1. arg' = arg \/ arg' = [arg EXCEPT ![f] = s]
      BY <1>25 DEF PtyStart
    <3>. QED
      BY <3>1 DEF TypeOK
  <2>4. birth' \in [Sessions -> Frontends \union {NoFrontend}]
    <3>1. birth' = birth \/ birth' = [birth EXCEPT ![s] = f]
      BY <1>25 DEF PtyStart
    <3>. QED
      BY <3>1 DEF TypeOK
  <2>. QED
    BY <1>25, <2>1, <2>2, <2>3, <2>4 DEF TypeOK, PtyStart, rows, agents, watchers, readers,
         world
<1>26. ASSUME NEW f \in Frontends, NEW s \in Sessions, PtyStartAck(f, s) PROVE TypeOK'
  BY <1>26 DEF TypeOK, PtyStartAck, threads, agents, watchers, readers, world, history
<1>27. ASSUME NEW f \in Frontends, NEW s \in Sessions, PtyAttach(f, s) PROVE TypeOK'
  BY <1>27 DEF TypeOK, PtyAttach, Goto, Steps, StartSteps, Attachable, agents, watchers,
       readers, world, history
<1>28. ASSUME NEW s \in Sessions, AgentExits(s) PROVE TypeOK'
  BY <1>28 DEF TypeOK, AgentExits, Groups, rows, threads, watchers, readers, world, history
<1>29. ASSUME NEW s \in Sessions, WatcherWaits(s) PROVE TypeOK'
  BY <1>29 DEF TypeOK, WatcherWaits, rows, threads, agents, readers, world, history
<1>30. ASSUME NEW s \in Sessions, Classify(s) PROVE TypeOK'
  BY <1>30 DEF TypeOK, Classify, ExitNotice, threads, agents, readers, world, history
<1>31. ASSUME NEW s \in Sessions, WatcherReaps(s) PROVE TypeOK'
  BY <1>31, ReapFacts DEF TypeOK, WatcherReaps, rows, threads, readers, world, history
<1>32. ASSUME NEW s \in Sessions, SendExited(s) PROVE TypeOK'
  <2>1. watcher' \in [Sessions -> {"none", "waiting", "classify", "cleanup", "notify",
                                  "release", "await_guardian", "done"}]
    BY <1>32 DEF TypeOK, SendExited
  <2>2. told' \in [Frontends -> [Sessions -> Told]]
    <3>1. told' = told \/ (notify[s] \in Frontends /\ Tell(notify[s], s, "exited"))
      BY <1>32 DEF TypeOK, SendExited
    <3>2. told \in [Frontends -> [Sessions -> Told]] /\ "exited" \in Told
      BY DEF TypeOK, Told
    <3>. QED
      BY <3>1, <3>2, TellType
  <2>. QED
    BY <1>32, <2>1, <2>2 DEF TypeOK, SendExited, rows, threads, agents, readers, world
<1>33. ASSUME NEW s \in Sessions, ReleaseGuardian(s) PROVE TypeOK'
  <2>1. guardian' \in [Sessions -> {"none", "armed", "disarmed", "fired"}]
    <3>1. CASE guardian' = guardian
      BY <3>1 DEF TypeOK
    <3>2. CASE Disarm(s) /\ guardian[s] = "armed"
      <4>1. guardian' = [guardian EXCEPT ![s] = "disarmed"]
        BY <3>2 DEF Disarm
      <4>. QED
        BY <4>1 DEF TypeOK
    <3>3. CASE Disarm(s) /\ guardian[s] # "armed"
      <4>1. guardian' = [guardian EXCEPT ![s] = guardian[s]]
        BY <3>3 DEF Disarm
      <4>. QED
        BY <4>1 DEF TypeOK
    <3>. QED
      BY <1>33, <3>1, <3>2, <3>3 DEF ReleaseGuardian
  <2>2. completion' \in [Sessions -> {"none", "ok", "failed"}]
    BY <1>33 DEF TypeOK, ReleaseGuardian
  <2>3. watcher' \in [Sessions -> {"none", "waiting", "classify", "cleanup", "notify",
                                  "release", "await_guardian", "done"}]
    BY <1>33 DEF TypeOK, ReleaseGuardian
  <2>. QED
    BY <1>33, <2>1, <2>2, <2>3 DEF TypeOK, ReleaseGuardian, rows, threads, readers, world,
         history
<1>34. ASSUME NEW s \in Sessions, GuardianEnds(s) PROVE TypeOK'
  BY <1>34 DEF TypeOK, GuardianEnds, rows, threads, agents, readers, world, history
<1>35. ASSUME NEW s \in Sessions, GuardianFires(s) PROVE TypeOK'
  BY <1>35, KillFacts DEF TypeOK, GuardianFires, rows, threads, watchers, readers, world, history
<1>36. ASSUME NEW s \in Sessions, HeldAgentDies(s) PROVE TypeOK'
  BY <1>36 DEF TypeOK, HeldAgentDies, Groups, rows, threads, watchers, readers, world, history
<1>37. ASSUME NEW s \in Sessions, ReadOutput(s) PROVE TypeOK'
  BY <1>37 DEF TypeOK, ReadOutput, rows, threads, agents, watchers, world, history
<1>38. ASSUME NEW s \in Sessions, RecheckLease(s) PROVE TypeOK'
  BY <1>38 DEF TypeOK, RecheckLease, rows, threads, agents, watchers, world, history
<1>39. ASSUME NEW s \in Sessions, WriteOutput(s) PROVE TypeOK'
  BY <1>39 DEF TypeOK, WriteOutput, rows, threads, agents, watchers, world, history
<1>40. ASSUME BrokerDies PROVE TypeOK'
  BY <1>40 DEF TypeOK, BrokerDies, rows, threads, agents, watchers, readers, history
<1>41. ASSUME IdleShutdown PROVE TypeOK'
  BY <1>41 DEF TypeOK, IdleShutdown, rows, threads, agents, watchers, readers, history
<1>. QED
  BY <1>1, <1>2, <1>3, <1>4, <1>5, <1>6, <1>7, <1>8, <1>9, <1>10, <1>11, <1>12, <1>13, <1>14,
     <1>15, <1>16, <1>17, <1>18, <1>19, <1>20, <1>21, <1>22, <1>23, <1>24, <1>25, <1>26, <1>27,
     <1>28, <1>29, <1>30, <1>31, <1>32, <1>33, <1>34, <1>35, <1>36, <1>37, <1>38, <1>39, <1>40,
     <1>41 DEF Next, BrokerStep, Outside, Request, Handle, Watch, Output
-----------------------------------------------------------------------------
(* A start in progress.                                                    *)


(* No step hands a handler a session other than the one of its request:    *)
(* only pty-start moves arg to a new session, at the moment it claims the  *)
(* session's birth.                                                        *)
LEMMA OwnStep ==
    ASSUME ConstantsAssumption, TypeOK, HandlersOwnTheirStart, Next
    PROVE  HandlersOwnTheirStart'
<1>1. UNCHANGED <<pc, arg, after, birth>> => HandlersOwnTheirStart'
  BY DEF HandlersOwnTheirStart, Starting, InStart
<1>2. ASSUME NEW f \in Frontends, ClientLeaves(f)
       PROVE  HandlersOwnTheirStart'
  BY <1>1, <1>2 DEF ClientLeaves, agents, history, readers, rows, threads, watchers
<1>3. ASSUME NEW f \in Frontends, NEW s \in Sessions, PtyStartAck(f, s)
       PROVE  HandlersOwnTheirStart'
  BY <1>1, <1>3 DEF PtyStartAck, agents, history, readers, threads, watchers, world
<1>4. ASSUME NEW s \in Sessions,
              \/ AgentExits(s) \/ WatcherWaits(s) \/ Classify(s) \/ WatcherReaps(s)
              \/ SendExited(s) \/ ReleaseGuardian(s) \/ GuardianEnds(s) \/ GuardianFires(s)
              \/ HeldAgentDies(s) \/ ReadOutput(s) \/ RecheckLease(s) \/ WriteOutput(s)
       PROVE  HandlersOwnTheirStart'
  BY <1>1, <1>4 DEF AgentExits, WatcherWaits, Classify, WatcherReaps, SendExited,
       ReleaseGuardian, GuardianEnds, GuardianFires, HeldAgentDies, ReadOutput, RecheckLease,
       WriteOutput, agents, history, readers, rows, threads, watchers, world
<1>5. ASSUME BrokerDies \/ IdleShutdown
       PROVE  HandlersOwnTheirStart'
  BY <1>1, <1>5 DEF BrokerDies, IdleShutdown, agents, history, readers, rows, threads, watchers
<1>6. ASSUME NEW f \in Frontends, Accept(f) PROVE HandlersOwnTheirStart'
  BY <1>6 DEF TypeOK, Accept, At, Goto, HandlersOwnTheirStart, Starting, InStart, StartSteps,
       StartReaps, history
<1>7. ASSUME NEW f \in Frontends, HangUp(f) PROVE HandlersOwnTheirStart'
  BY <1>7 DEF TypeOK, HangUp, At, Goto, HandlersOwnTheirStart, Starting, InStart, StartSteps,
       StartReaps, history
<1>8. ASSUME NEW f \in Frontends, Oversized(f) PROVE HandlersOwnTheirStart'
  BY <1>8 DEF TypeOK, Oversized, At, Goto, HandlersOwnTheirStart, Starting, InStart, StartSteps,
       StartReaps, history
<1>9. ASSUME NEW f \in Frontends, Disconnect(f) PROVE HandlersOwnTheirStart'
  <2>1. \A g \in Frontends \ {f} : pc'[g] = pc[g] /\ arg'[g] = arg[g] /\ after'[g] = after[g]
    BY <1>9 DEF TypeOK, Disconnect, Goto
  <2>2. UNCHANGED birth
    BY <1>9 DEF Disconnect, history
  <2>3. CASE UnconfirmedOf(f) = {}
    <3>1. pc'[f] = "gone"
      BY <1>9, <2>3 DEF TypeOK, Disconnect, Goto
    <3>. QED
      BY <2>1, <2>2, <3>1 DEF HandlersOwnTheirStart, Starting, InStart, StartSteps
  <2>4. CASE UnconfirmedOf(f) # {}
    <3>1. (CHOOSE s \in UnconfirmedOf(f) : TRUE) \in Sessions
      BY <2>4 DEF TypeOK, UnconfirmedOf
    <3>2. pc'[f] = "signal" /\ after'[f] = "disconnect" /\ arg'[f] \in Sessions
      BY <1>9, <2>4, <3>1 DEF TypeOK, Disconnect, Goto
    <3>. QED
      BY <2>1, <2>2, <3>2 DEF HandlersOwnTheirStart, Starting, InStart, StartSteps, StartReaps
  <2>. QED
    BY <2>3, <2>4
<1>10. ASSUME NEW f \in Frontends, SpawnFork(f) PROVE HandlersOwnTheirStart'
  BY <1>10 DEF TypeOK, SpawnFork, At, Goto, HandlersOwnTheirStart, Starting, InStart,
       StartSteps, StartReaps, history
<1>11. ASSUME NEW f \in Frontends, SpawnRelease(f) PROVE HandlersOwnTheirStart'
  BY <1>11 DEF TypeOK, SpawnRelease, At, Goto, HandlersOwnTheirStart, Starting, InStart,
       StartSteps, StartReaps, history
<1>12. ASSUME NEW f \in Frontends, SpawnFails(f) PROVE HandlersOwnTheirStart'
  BY <1>12 DEF TypeOK, SpawnFails, At, Goto, HandlersOwnTheirStart, Starting, InStart,
       StartSteps, StartReaps, history
<1>13. ASSUME NEW f \in Frontends, Insert(f) PROVE HandlersOwnTheirStart'
  BY <1>13 DEF TypeOK, Insert, At, Goto, HandlersOwnTheirStart, Starting, InStart, StartSteps,
       StartReaps, history
<1>14. ASSUME NEW f \in Frontends, SpawnWatcher(f) PROVE HandlersOwnTheirStart'
  BY <1>14 DEF TypeOK, SpawnWatcher, At, Goto, HandlersOwnTheirStart, Starting, InStart,
       StartSteps, StartReaps, history
<1>15. ASSUME NEW f \in Frontends, ReapUnwatched(f) PROVE HandlersOwnTheirStart'
  BY <1>15 DEF TypeOK, ReapUnwatched, At, Goto, HandlersOwnTheirStart, Starting, InStart,
       StartSteps, StartReaps, history
<1>16. ASSUME NEW f \in Frontends, Unregister(f) PROVE HandlersOwnTheirStart'
  BY <1>16 DEF TypeOK, Unregister, At, Goto, HandlersOwnTheirStart, Starting, InStart,
       StartSteps, StartReaps, history
<1>17. ASSUME NEW f \in Frontends, SpawnReader(f) PROVE HandlersOwnTheirStart'
  BY <1>17 DEF TypeOK, SpawnReader, At, Goto, HandlersOwnTheirStart, Starting, InStart,
       StartSteps, StartReaps, history
<1>18. ASSUME NEW f \in Frontends, Claim(f) PROVE HandlersOwnTheirStart'
  BY <1>18 DEF TypeOK, Claim, At, Goto, HandlersOwnTheirStart, Starting, InStart, StartSteps,
       StartReaps, history
<1>19. ASSUME NEW f \in Frontends, SendStarted(f) PROVE HandlersOwnTheirStart'
  BY <1>19 DEF TypeOK, SendStarted, At, Goto, HandlersOwnTheirStart, Starting, InStart,
       StartSteps, StartReaps
<1>20. ASSUME NEW f \in Frontends, CommitStarted(f) PROVE HandlersOwnTheirStart'
  BY <1>20 DEF TypeOK, CommitStarted, At, Goto, HandlersOwnTheirStart, Starting, InStart,
       StartSteps, StartReaps, history
<1>21. ASSUME NEW f \in Frontends, CommitFailed(f) PROVE HandlersOwnTheirStart'
  BY <1>21 DEF TypeOK, CommitFailed, At, Goto, HandlersOwnTheirStart, Starting, InStart,
       StartSteps, StartReaps, history
<1>22. ASSUME NEW f \in Frontends, PtyDetach(f) PROVE HandlersOwnTheirStart'
  BY <1>22 DEF TypeOK, PtyDetach, At, Goto, UnconfirmedOf, HandlersOwnTheirStart, Starting,
       InStart, StartSteps, StartReaps, history, ConstantsAssumption
<1>23. ASSUME NEW f \in Frontends, SendAttached(f) PROVE HandlersOwnTheirStart'
  BY <1>23 DEF TypeOK, SendAttached, At, Goto, HandlersOwnTheirStart, Starting, InStart,
       StartSteps, StartReaps
<1>24. ASSUME NEW f \in Frontends, Activate(f) PROVE HandlersOwnTheirStart'
  BY <1>24 DEF TypeOK, Activate, At, Goto, HandlersOwnTheirStart, Starting, InStart, StartSteps,
       StartReaps, history
<1>25. ASSUME NEW f \in Frontends, SendDetached(f) PROVE HandlersOwnTheirStart'
  BY <1>25 DEF TypeOK, SendDetached, At, Reply, Goto, HandlersOwnTheirStart, Starting, InStart,
       StartSteps, StartReaps
<1>26. ASSUME NEW f \in Frontends, PtyStop(f) PROVE HandlersOwnTheirStart'
  <2>1. CASE controlled_session[f] \in sessions /\ controller[controlled_session[f]] = f
    BY <1>26, <2>1 DEF TypeOK, PtyStop, At, Goto, HandlersOwnTheirStart, Starting, InStart,
         StartSteps, StartReaps, history
  <2>2. CASE ~(controlled_session[f] \in sessions /\ controller[controlled_session[f]] = f)
    BY <1>26, <2>2 DEF TypeOK, PtyStop, At, Goto, HandlersOwnTheirStart, Starting, InStart,
         StartSteps, StartReaps, history
  <2>. QED
    BY <1>26, <2>1, <2>2
<1>27. ASSUME NEW f \in Frontends, Signal(f) PROVE HandlersOwnTheirStart'
  BY <1>27 DEF TypeOK, Signal, At, Goto, HandlersOwnTheirStart, Starting, InStart, StartSteps,
       StartReaps, history
<1>28. ASSUME NEW f \in Frontends, Finish(f) PROVE HandlersOwnTheirStart'
  BY <1>28 DEF TypeOK, Finish, At, Goto, Reply, HandlersOwnTheirStart, Starting, InStart,
       StartSteps, StartReaps
<1>29. ASSUME NEW f \in Frontends, NEW s \in Sessions, PtyStart(f, s)
       PROVE  HandlersOwnTheirStart'
  BY <1>29 DEF TypeOK, PtyStart, At, Goto, HandlersOwnTheirStart, Starting, InStart, StartSteps,
       StartReaps, ConstantsAssumption
<1>30. ASSUME NEW f \in Frontends, NEW s \in Sessions, PtyAttach(f, s)
       PROVE  HandlersOwnTheirStart'
  BY <1>30 DEF TypeOK, PtyAttach, At, Goto, Attachable, HandlersOwnTheirStart, Starting,
       InStart, StartSteps, StartReaps, history, ConstantsAssumption
<1>. QED
  BY <1>1, <1>2, <1>3, <1>4, <1>5, <1>6, <1>7, <1>8, <1>9, <1>10, <1>11, <1>12, <1>13, <1>14,
     <1>15, <1>16, <1>17, <1>18, <1>19, <1>20, <1>21, <1>22, <1>23, <1>24, <1>25, <1>26, <1>27,
     <1>28, <1>29, <1>30 DEF Next, BrokerStep, Outside, Request, Handle, Watch, Output

(* A session that pty-start has not yet inserted is mentioned by no row,   *)
(* lease, watcher or message: session ids are never used twice.            *)
LEMMA FreshStep ==
    ASSUME ConstantsAssumption, TypeOK, NewSessionsAreFresh, HandlersOwnTheirStart, Next
    PROVE  NewSessionsAreFresh'
<1>1. ASSUME UNCHANGED <<birth, pc, arg, sessions, watcher, completion, notify, controlled_session,
                         told, group, guardian>>
       PROVE  NewSessionsAreFresh'
  BY <1>1 DEF NewSessionsAreFresh, Unspawned, Unregistered, Starting, InStart
<1>2. ASSUME NEW f \in Frontends, ClientLeaves(f)
       PROVE  NewSessionsAreFresh'
  BY <1>1, <1>2 DEF ClientLeaves, agents, history, readers, rows, threads, watchers
<1>3. ASSUME NEW f \in Frontends, NEW s \in Sessions, PtyStartAck(f, s)
       PROVE  NewSessionsAreFresh'
  BY <1>1, <1>3 DEF PtyStartAck, agents, history, readers, threads, watchers, world
<1>4. ASSUME NEW s \in Sessions, ReadOutput(s) \/ RecheckLease(s) \/ WriteOutput(s)
       PROVE  NewSessionsAreFresh'
  BY <1>1, <1>4 DEF ReadOutput, RecheckLease, WriteOutput, agents, history, rows, threads,
       watchers, world
<1>5. ASSUME BrokerDies \/ IdleShutdown
       PROVE  NewSessionsAreFresh'
  BY <1>1, <1>5 DEF BrokerDies, IdleShutdown, agents, history, readers, rows, threads, watchers
<1>6. ASSUME NEW f \in Frontends, Accept(f) PROVE NewSessionsAreFresh'
  BY <1>6 DEF TypeOK, Accept, At, Goto, NewSessionsAreFresh, Unspawned, Unregistered, rows,
       agents, watchers, history
<1>7. ASSUME NEW f \in Frontends, HangUp(f) PROVE NewSessionsAreFresh'
  BY <1>7 DEF TypeOK, HangUp, At, Goto, NewSessionsAreFresh, Unspawned, Unregistered, rows,
       agents, watchers, history
<1>8. ASSUME NEW f \in Frontends, Oversized(f) PROVE NewSessionsAreFresh'
  BY <1>8 DEF TypeOK, Oversized, At, Goto, NewSessionsAreFresh, Unspawned, Unregistered, rows,
       agents, watchers, history
<1>9. ASSUME NEW f \in Frontends, Disconnect(f) PROVE NewSessionsAreFresh'
  <2>1. ASSUME NEW x \in Sessions, Unregistered(x) PROVE Unregistered(x)'
    BY <1>9, <2>1 DEF TypeOK, ConstantsAssumption, Unregistered, Disconnect, UnconfirmedOf,
         ReleasedBy, FrontendsLeft, agents, watchers, readers, history
  <2>2. ASSUME NEW x \in Sessions, Unspawned(x) PROVE Unspawned(x)'
    BY <1>9, <2>1, <2>2 DEF TypeOK, Unspawned, Unregistered, Disconnect, agents, watchers,
         readers, history
  <2>3. /\ birth' = birth
        /\ \A g \in Frontends : pc'[g] \in {"spawn", "release", "insert"}
                                => pc'[g] = pc[g] /\ arg'[g] = arg[g]
    BY <1>9 DEF TypeOK, Disconnect, At, Goto, agents, watchers, readers, history
  <2>. QED
    BY <2>1, <2>2, <2>3 DEF TypeOK, NewSessionsAreFresh, HandlersOwnTheirStart
<1>10. ASSUME NEW f \in Frontends, SpawnFork(f) PROVE NewSessionsAreFresh'
  BY <1>10 DEF TypeOK, SpawnFork, At, Goto, NewSessionsAreFresh, Unspawned, Unregistered,
       HandlersOwnTheirStart, Starting, InStart, StartSteps, rows, watchers, history
<1>11. ASSUME NEW f \in Frontends, SpawnRelease(f) PROVE NewSessionsAreFresh'
  BY <1>11 DEF TypeOK, SpawnRelease, At, Goto, NewSessionsAreFresh, Unspawned, Unregistered,
       HandlersOwnTheirStart, Starting, InStart, StartSteps, rows, watchers, history
<1>12. ASSUME NEW f \in Frontends, SpawnFails(f) PROVE NewSessionsAreFresh'
  <2>1. arg[f] \in Sessions /\ birth[arg[f]] = f
    BY <1>12 DEF SpawnFails, At, HandlersOwnTheirStart, Starting, InStart, StartSteps
  <2>2. /\ UNCHANGED <<arg, birth, sessions, watcher, completion, notify, controlled_session, told>>
        /\ pc'[f] = "idle" /\ \A g \in Frontends \ {f} : pc'[g] = pc[g]
    BY <1>12 DEF TypeOK, SpawnFails, Goto, rows, watchers, history
  <2>3. \A x \in Sessions \ {arg[f]} : group'[x] = group[x] /\ guardian'[x] = guardian[x]
    BY <1>12 DEF TypeOK, SpawnFails
  <2>4. ASSUME NEW x \in Sessions, x # arg[f], Unspawned(x) PROVE Unspawned(x)'
    BY <2>2, <2>3, <2>4 DEF Unspawned, Unregistered
  <2>5. ASSUME NEW g \in Frontends, g # f, pc[g] = "spawn"
        PROVE  arg[g] \in Sessions /\ arg[g] # arg[f]
    BY <2>1, <2>5 DEF HandlersOwnTheirStart, Starting
  <2>6. ASSUME NEW x \in Sessions, Unregistered(x) PROVE Unregistered(x)'
    BY <2>2, <2>6 DEF Unregistered
  <2>7. ASSUME NEW g \in Frontends, pc[g] \in {"release", "insert"} PROVE arg[g] \in Sessions
    BY <2>7 DEF HandlersOwnTheirStart
  <2>. QED
    BY <2>1, <2>2, <2>4, <2>5, <2>6, <2>7 DEF ConstantsAssumption, NewSessionsAreFresh
<1>13. ASSUME NEW f \in Frontends, Insert(f) PROVE NewSessionsAreFresh'
  BY <1>13 DEF TypeOK, Insert, At, Goto, NewSessionsAreFresh, Unspawned, Unregistered,
       HandlersOwnTheirStart, Starting, InStart, StartSteps, agents, watchers, history
<1>14. ASSUME NEW f \in Frontends, SpawnWatcher(f) PROVE NewSessionsAreFresh'
  <2>1. arg[f] \in Sessions /\ birth[arg[f]] = f
    BY <1>14 DEF SpawnWatcher, At, HandlersOwnTheirStart, Starting, InStart, StartSteps
  <2>2. ASSUME NEW x \in Sessions, x # arg[f], Unregistered(x) PROVE Unregistered(x)'
    BY <1>14, <2>2 DEF TypeOK, SpawnWatcher, Unregistered, rows, history
  <2>3. ASSUME NEW g \in Frontends, pc'[g] \in {"spawn", "release", "insert"}
        PROVE  g # f /\ pc'[g] = pc[g] /\ arg[g] \in Sessions /\ arg[g] # arg[f]
    <3>1. /\ pc'[f] \in {"reader", "unwatched"}
          /\ \A h \in Frontends \ {f} : pc'[h] = pc[h]
      BY <1>14 DEF TypeOK, SpawnWatcher, Goto
    <3>2. g # f /\ pc'[g] = pc[g]
      BY <2>3, <3>1
    <3>3. arg[g] \in Sessions /\ birth[arg[g]] = g
      BY <2>3, <3>2 DEF HandlersOwnTheirStart, Starting, InStart, StartSteps
    <3>. QED
      BY <2>1, <3>2, <3>3
  <2>4. UNCHANGED <<arg, birth, group, guardian>>
    BY <1>14 DEF SpawnWatcher, agents, history
  <2>. QED
    BY <2>1, <2>2, <2>3, <2>4 DEF ConstantsAssumption, NewSessionsAreFresh, Unspawned
<1>15. ASSUME NEW f \in Frontends, ReapUnwatched(f) PROVE NewSessionsAreFresh'
  <2>1. CASE group' = [group EXCEPT ![arg[f]] = "gone"]
    BY <1>15, <2>1 DEF TypeOK, ReapUnwatched, At, Goto, ReapAndProve, Kill, NewSessionsAreFresh,
         Unspawned, Unregistered, HandlersOwnTheirStart, Starting, InStart, StartSteps, rows,
         watchers, history
  <2>2. CASE Kill(arg[f])
    BY <1>15, <2>2 DEF TypeOK, ReapUnwatched, At, Goto, ReapAndProve, Kill, NewSessionsAreFresh,
         Unspawned, Unregistered, rows, watchers, history
  <2>. QED
    BY <1>15, <2>1, <2>2 DEF ReapUnwatched, ReapAndProve
<1>16. ASSUME NEW f \in Frontends, Unregister(f) PROVE NewSessionsAreFresh'
  BY <1>16 DEF TypeOK, Unregister, At, Goto, NewSessionsAreFresh, Unspawned, Unregistered,
       HandlersOwnTheirStart, Starting, InStart, StartSteps, history
<1>17. ASSUME NEW f \in Frontends, SpawnReader(f) PROVE NewSessionsAreFresh'
  BY <1>17 DEF TypeOK, SpawnReader, At, Goto, NewSessionsAreFresh, Unspawned, Unregistered,
       rows, agents, watchers, history
<1>18. ASSUME NEW f \in Frontends, Claim(f) PROVE NewSessionsAreFresh'
  BY <1>18 DEF TypeOK, Claim, At, Goto, NewSessionsAreFresh, Unspawned, Unregistered, agents,
       watchers, history
<1>19. ASSUME NEW f \in Frontends, SendStarted(f) PROVE NewSessionsAreFresh'
  BY <1>19 DEF TypeOK, SendStarted, At, Goto, Tell, NewSessionsAreFresh, Unspawned,
       Unregistered, HandlersOwnTheirStart, Starting, InStart, StartSteps, rows, agents,
       watchers
<1>20. ASSUME NEW f \in Frontends, CommitStarted(f) PROVE NewSessionsAreFresh'
  BY <1>20 DEF TypeOK, CommitStarted, At, Goto, NewSessionsAreFresh, Unspawned, Unregistered,
       agents, watchers, history
<1>21. ASSUME NEW f \in Frontends, CommitFailed(f) PROVE NewSessionsAreFresh'
  BY <1>21 DEF TypeOK, CommitFailed, At, Goto, NewSessionsAreFresh, Unspawned, Unregistered,
       agents, watchers, history
<1>22. ASSUME NEW f \in Frontends, PtyDetach(f) PROVE NewSessionsAreFresh'
  <2>1. ASSUME NEW x \in Sessions, Unregistered(x) PROVE Unregistered(x)'
    BY <1>22, <2>1 DEF TypeOK, ConstantsAssumption, Unregistered, PtyDetach, UnconfirmedOf,
         agents, watchers, readers, world, history
  <2>2. ASSUME NEW x \in Sessions, Unspawned(x) PROVE Unspawned(x)'
    BY <1>22, <2>1, <2>2 DEF TypeOK, Unspawned, Unregistered, PtyDetach, agents, watchers,
         readers, world, history
  <2>3. /\ birth' = birth
        /\ \A g \in Frontends : pc'[g] \in {"spawn", "release", "insert"}
                                => pc'[g] = pc[g] /\ arg'[g] = arg[g]
    BY <1>22 DEF TypeOK, PtyDetach, At, Goto, agents, watchers, readers, world, history
  <2>. QED
    BY <2>1, <2>2, <2>3 DEF TypeOK, NewSessionsAreFresh, HandlersOwnTheirStart
<1>23. ASSUME NEW f \in Frontends, SendAttached(f) PROVE NewSessionsAreFresh'
  BY <1>23 DEF TypeOK, SendAttached, At, Goto, Tell, NewSessionsAreFresh, Unspawned,
       Unregistered, rows, agents, watchers
<1>24. ASSUME NEW f \in Frontends, Activate(f) PROVE NewSessionsAreFresh'
  BY <1>24 DEF TypeOK, Activate, At, Goto, NewSessionsAreFresh, Unspawned, Unregistered, agents,
       watchers, history
<1>25. ASSUME NEW f \in Frontends, SendDetached(f) PROVE NewSessionsAreFresh'
  BY <1>25 DEF TypeOK, SendDetached, At, Reply, Tell, Goto, NewSessionsAreFresh, Unspawned,
       Unregistered, rows, agents, watchers
<1>26. ASSUME NEW f \in Frontends, PtyStop(f) PROVE NewSessionsAreFresh'
  <2>1. ASSUME NEW x \in Sessions, Unregistered(x) PROVE Unregistered(x)'
    BY <1>26, <2>1 DEF TypeOK, ConstantsAssumption, Unregistered, PtyStop, agents, watchers,
         readers, world, history
  <2>2. ASSUME NEW x \in Sessions, Unspawned(x) PROVE Unspawned(x)'
    BY <1>26, <2>1, <2>2 DEF TypeOK, Unspawned, Unregistered, PtyStop, agents, watchers,
         readers, world, history
  <2>3. /\ birth' = birth
        /\ \A g \in Frontends : pc'[g] \in {"spawn", "release", "insert"}
                                => pc'[g] = pc[g] /\ arg'[g] = arg[g]
    BY <1>26 DEF TypeOK, PtyStop, At, Goto, agents, watchers, readers, world, history
  <2>. QED
    BY <2>1, <2>2, <2>3 DEF TypeOK, NewSessionsAreFresh, HandlersOwnTheirStart
<1>27. ASSUME NEW f \in Frontends, Signal(f) PROVE NewSessionsAreFresh'
  BY <1>27 DEF TypeOK, Signal, At, Goto, Kill, NewSessionsAreFresh, Unspawned, Unregistered,
       rows, watchers, history
<1>28. ASSUME NEW f \in Frontends, Finish(f) PROVE NewSessionsAreFresh'
  <2>1. ASSUME NEW x \in Sessions, Unregistered(x) PROVE Unregistered(x)'
    BY <1>28, <2>1 DEF TypeOK, ConstantsAssumption, Unregistered, Finish, Tell, Reply, Goto,
         rows, agents, watchers, readers, world
  <2>2. ASSUME NEW x \in Sessions, Unspawned(x) PROVE Unspawned(x)'
    BY <1>28, <2>1, <2>2 DEF TypeOK, Unspawned, Unregistered, Finish, rows, agents, watchers,
         readers, world
  <2>3. /\ birth' = birth
        /\ \A g \in Frontends : pc'[g] \in {"spawn", "release", "insert"}
                                => pc'[g] = pc[g] /\ arg'[g] = arg[g]
    BY <1>28 DEF TypeOK, Finish, At, Goto, Reply, rows, agents, watchers, readers, world
  <2>. QED
    BY <2>1, <2>2, <2>3 DEF TypeOK, NewSessionsAreFresh, HandlersOwnTheirStart
<1>29. ASSUME NEW f \in Frontends, NEW s \in Sessions, PtyStart(f, s)
       PROVE  NewSessionsAreFresh'
  <2>1. ASSUME NEW x \in Sessions, Unregistered(x) PROVE Unregistered(x)'
    BY <1>29, <2>1 DEF TypeOK, ConstantsAssumption, Unregistered, PtyStart, rows, agents,
         watchers, readers, world
  <2>2. ASSUME NEW x \in Sessions, Unspawned(x) PROVE Unspawned(x)'
    BY <1>29, <2>1, <2>2 DEF TypeOK, Unspawned, Unregistered, PtyStart, rows, agents, watchers,
         readers, world
  <2>3. CASE /\ birth[s] = NoFrontend
             /\ pc' = [pc EXCEPT ![f] = "spawn"]
             /\ arg' = [arg EXCEPT ![f] = s]
             /\ birth' = [birth EXCEPT ![s] = f]
    BY <1>29, <2>1, <2>2, <2>3 DEF TypeOK, ConstantsAssumption, NewSessionsAreFresh,
         HandlersOwnTheirStart
  <2>4. CASE UNCHANGED <<pc, arg, birth>>
    BY <1>29, <2>1, <2>2, <2>4 DEF TypeOK, NewSessionsAreFresh, HandlersOwnTheirStart
  <2>. QED
    BY <1>29, <2>3, <2>4 DEF PtyStart, Goto
<1>30. ASSUME NEW f \in Frontends, NEW s \in Sessions, PtyAttach(f, s)
       PROVE  NewSessionsAreFresh'
  BY <1>30 DEF TypeOK, PtyAttach, At, Goto, Attachable, NewSessionsAreFresh, Unspawned,
       Unregistered, agents, watchers, history, ConstantsAssumption
<1>31. ASSUME NEW s \in Sessions, AgentExits(s) PROVE NewSessionsAreFresh'
  BY <1>31 DEF TypeOK, AgentExits, NewSessionsAreFresh, Unspawned, Unregistered, rows, threads,
       watchers, history
<1>32. ASSUME NEW s \in Sessions, WatcherWaits(s) PROVE NewSessionsAreFresh'
  BY <1>32 DEF TypeOK, WatcherWaits, WatcherAt, NewSessionsAreFresh, Unspawned, Unregistered,
       rows, threads, agents, history
<1>33. ASSUME NEW s \in Sessions, Classify(s) PROVE NewSessionsAreFresh'
  BY <1>33 DEF TypeOK, Classify, WatcherAt, ExitNotice, NewSessionsAreFresh, Unspawned,
       Unregistered, threads, agents, history
<1>34. ASSUME NEW s \in Sessions, WatcherReaps(s) PROVE NewSessionsAreFresh'
  <2>1. CASE group' = [group EXCEPT ![s] = "gone"]
    BY <1>34, <2>1 DEF TypeOK, WatcherReaps, WatcherAt, ReapAndProve, Kill, NewSessionsAreFresh,
         Unspawned, Unregistered, rows, threads, history
  <2>2. CASE Kill(s)
    BY <1>34, <2>2 DEF TypeOK, WatcherReaps, WatcherAt, ReapAndProve, Kill, NewSessionsAreFresh,
         Unspawned, Unregistered, rows, threads, history
  <2>. QED
    BY <1>34, <2>1, <2>2 DEF WatcherReaps, ReapAndProve
<1>35. ASSUME NEW s \in Sessions, SendExited(s) PROVE NewSessionsAreFresh'
  <2>1. ASSUME NEW x \in Sessions, Unregistered(x) PROVE Unregistered(x)'
    <3>1. x # s
      BY <1>35, <2>1 DEF SendExited, WatcherAt, Unregistered
    <3>2. \A g \in Frontends : told'[g][x] = told[g][x]
      <4>1. CASE notify[s] = NoFrontend
        BY <1>35, <4>1 DEF SendExited
      <4>2. CASE notify[s] # NoFrontend
        BY <1>35, <4>2, <3>1, TellOthers DEF TypeOK, SendExited
      <4>. QED
        BY <4>1, <4>2
    <3>. QED
      BY <1>35, <2>1, <3>1, <3>2 DEF TypeOK, Unregistered, SendExited, rows, threads
  <2>2. ASSUME NEW x \in Sessions, Unspawned(x) PROVE Unspawned(x)'
    BY <1>35, <2>1, <2>2 DEF Unspawned, SendExited, agents
  <2>3. UNCHANGED <<birth, pc, arg>>
    BY <1>35 DEF SendExited, threads
  <2>. QED
    BY <2>1, <2>2, <2>3 DEF NewSessionsAreFresh, HandlersOwnTheirStart
<1>36. ASSUME NEW s \in Sessions, ReleaseGuardian(s) PROVE NewSessionsAreFresh'
  <2>1. ASSUME NEW x \in Sessions, Unregistered(x) PROVE Unregistered(x)'
    BY <1>36, <2>1 DEF TypeOK, ConstantsAssumption, Unregistered, ReleaseGuardian, WatcherAt,
         rows, threads, readers, world, history
  <2>2. ASSUME NEW x \in Sessions, Unspawned(x) PROVE Unspawned(x)'
    BY <1>36, <2>1, <2>2 DEF TypeOK, Unspawned, Unregistered, ReleaseGuardian, Disarm,
         WatcherAt, rows, threads, readers, world, history
  <2>3. /\ birth' = birth
        /\ \A g \in Frontends : pc'[g] \in {"spawn", "release", "insert"}
                                => pc'[g] = pc[g] /\ arg'[g] = arg[g]
    BY <1>36 DEF TypeOK, ReleaseGuardian, rows, threads, readers, world, history
  <2>. QED
    BY <2>1, <2>2, <2>3 DEF TypeOK, NewSessionsAreFresh, HandlersOwnTheirStart
<1>37. ASSUME NEW s \in Sessions, GuardianEnds(s) PROVE NewSessionsAreFresh'
  BY <1>37 DEF TypeOK, GuardianEnds, WatcherAt, NewSessionsAreFresh, Unspawned, Unregistered,
       rows, threads, agents, history
<1>38. ASSUME NEW s \in Sessions, GuardianFires(s) PROVE NewSessionsAreFresh'
  BY <1>38 DEF TypeOK, GuardianFires, Kill, NewSessionsAreFresh, Unspawned, Unregistered, rows,
       threads, watchers, history
<1>39. ASSUME NEW s \in Sessions, HeldAgentDies(s) PROVE NewSessionsAreFresh'
  BY <1>39 DEF TypeOK, HeldAgentDies, NewSessionsAreFresh, Unspawned, Unregistered, rows,
       threads, watchers, history
<1>. QED
  BY <1>1, <1>2, <1>3, <1>4, <1>5, <1>6, <1>7, <1>8, <1>9, <1>10, <1>11, <1>12, <1>13, <1>14,
     <1>15, <1>16, <1>17, <1>18, <1>19, <1>20, <1>21, <1>22, <1>23, <1>24, <1>25, <1>26, <1>27,
     <1>28, <1>29, <1>30, <1>31, <1>32, <1>33, <1>34, <1>35, <1>36, <1>37, <1>38, <1>39 DEF
     Next, BrokerStep, Outside, Request, Handle, Watch, Output

(* Nobody but its own pty-start takes a row away from its controller or    *)
(* advances its delivery before PtyStarted is out.                         *)
LEMMA RowStep ==
    ASSUME ConstantsAssumption, TypeOK, StartsKeepTheirRow, HandlersOwnTheirStart,
           NewSessionsAreFresh, Next
    PROVE  StartsKeepTheirRow'
<1>1. ASSUME UNCHANGED <<pc, arg, after, sessions, controlled_session, controller, write_phase>>
       PROVE  StartsKeepTheirRow'
  BY <1>1 DEF StartsKeepTheirRow, Unspawned, Unregistered, Starting, InStart
<1>2. ASSUME NEW f \in Frontends, ClientLeaves(f)
       PROVE  StartsKeepTheirRow'
  BY <1>1, <1>2 DEF ClientLeaves, agents, history, readers, rows, threads, watchers
<1>3. ASSUME NEW f \in Frontends, NEW s \in Sessions, PtyStartAck(f, s)
       PROVE  StartsKeepTheirRow'
  BY <1>1, <1>3 DEF PtyStartAck, agents, history, readers, threads, watchers, world
<1>4. ASSUME NEW s \in Sessions,
              \/ AgentExits(s) \/ WatcherWaits(s) \/ WatcherReaps(s) \/ SendExited(s)
              \/ ReleaseGuardian(s) \/ GuardianEnds(s) \/ GuardianFires(s)
              \/ HeldAgentDies(s) \/ ReadOutput(s) \/ RecheckLease(s) \/ WriteOutput(s)
       PROVE  StartsKeepTheirRow'
  BY <1>1, <1>4 DEF AgentExits, WatcherWaits, WatcherReaps, SendExited, ReleaseGuardian,
       GuardianEnds, GuardianFires, HeldAgentDies, ReadOutput, RecheckLease, WriteOutput,
       agents, history, readers, rows, threads, watchers, world
<1>5. ASSUME BrokerDies \/ IdleShutdown
       PROVE  StartsKeepTheirRow'
  BY <1>1, <1>5 DEF BrokerDies, IdleShutdown, agents, history, readers, rows, threads, watchers
<1>6. ASSUME NEW f \in Frontends, Accept(f) PROVE StartsKeepTheirRow'
  BY <1>6 DEF TypeOK, Accept, At, Goto, StartsKeepTheirRow, Starting, InStart, StartSteps,
       StartReaps, rows
<1>7. ASSUME NEW f \in Frontends, HangUp(f) PROVE StartsKeepTheirRow'
  BY <1>7 DEF TypeOK, HangUp, At, Goto, StartsKeepTheirRow, Starting, InStart, StartSteps,
       StartReaps, rows
<1>8. ASSUME NEW f \in Frontends, Oversized(f) PROVE StartsKeepTheirRow'
  BY <1>8 DEF TypeOK, Oversized, At, Goto, StartsKeepTheirRow, Starting, InStart, StartSteps,
       StartReaps, rows
<1>9. ASSUME NEW f \in Frontends, Disconnect(f) PROVE StartsKeepTheirRow'
  BY <1>9 DEF TypeOK, Disconnect, At, Goto, UnconfirmedOf, ReleasedBy, StartsKeepTheirRow,
       Starting, InStart, StartSteps, StartReaps, ConstantsAssumption
<1>10. ASSUME NEW f \in Frontends, SpawnFork(f) PROVE StartsKeepTheirRow'
  BY <1>10 DEF TypeOK, SpawnFork, At, Goto, StartsKeepTheirRow, NewSessionsAreFresh, Unspawned,
       Unregistered, Starting, InStart, StartSteps, StartReaps, rows, watchers, history
<1>11. ASSUME NEW f \in Frontends, SpawnRelease(f) PROVE StartsKeepTheirRow'
  BY <1>11 DEF TypeOK, SpawnRelease, At, Goto, StartsKeepTheirRow, Starting, InStart,
       StartSteps, StartReaps, rows
<1>12. ASSUME NEW f \in Frontends, SpawnFails(f) PROVE StartsKeepTheirRow'
  BY <1>12 DEF TypeOK, SpawnFails, At, Goto, StartsKeepTheirRow, Starting, InStart, StartSteps,
       StartReaps, rows
<1>13. ASSUME NEW f \in Frontends, Insert(f) PROVE StartsKeepTheirRow'
  BY <1>13 DEF TypeOK, Insert, At, Goto, StartsKeepTheirRow, HandlersOwnTheirStart,
       NewSessionsAreFresh, Unspawned, Unregistered, Starting, InStart, StartSteps, StartReaps,
       agents, watchers, history
<1>14. ASSUME NEW f \in Frontends, SpawnWatcher(f) PROVE StartsKeepTheirRow'
  BY <1>14 DEF TypeOK, SpawnWatcher, At, Goto, StartsKeepTheirRow, Starting, InStart,
       StartSteps, StartReaps, rows
<1>15. ASSUME NEW f \in Frontends, ReapUnwatched(f) PROVE StartsKeepTheirRow'
  BY <1>15 DEF TypeOK, ReapUnwatched, At, Goto, StartsKeepTheirRow, Starting, InStart,
       StartSteps, StartReaps, rows
<1>16. ASSUME NEW f \in Frontends, Unregister(f) PROVE StartsKeepTheirRow'
  BY <1>16 DEF TypeOK, Unregister, At, Goto, StartsKeepTheirRow, Starting, InStart, StartSteps,
       StartReaps
<1>17. ASSUME NEW f \in Frontends, SpawnReader(f) PROVE StartsKeepTheirRow'
  BY <1>17 DEF TypeOK, SpawnReader, At, Goto, StartsKeepTheirRow, Starting, InStart, StartSteps,
       StartReaps, rows
<1>18. ASSUME NEW f \in Frontends, Claim(f) PROVE StartsKeepTheirRow'
  BY <1>18 DEF TypeOK, Claim, At, Goto, StartsKeepTheirRow, Starting, InStart, StartSteps,
       StartReaps
<1>19. ASSUME NEW f \in Frontends, SendStarted(f) PROVE StartsKeepTheirRow'
  BY <1>19 DEF TypeOK, SendStarted, At, Goto, StartsKeepTheirRow, Starting, InStart, StartSteps,
       StartReaps, rows
<1>20. ASSUME NEW f \in Frontends, CommitStarted(f) PROVE StartsKeepTheirRow'
  <2>1. /\ UNCHANGED <<sessions, controller, arg, after, controlled_session>>
        /\ pc[f] = "commit" /\ pc'[f] = "idle" /\ \A g \in Frontends \ {f} : pc'[g] = pc[g]
    BY <1>20 DEF TypeOK, CommitStarted, At, Goto
  <2>2. \A s \in sessions : s = arg[f] \/ write_phase'[s] = write_phase[s]
    BY <1>20 DEF TypeOK, CommitStarted
  <2>3. ASSUME NEW g \in Frontends, g # f, arg[g] = arg[f], arg[g] \in sessions
        PROVE  ~InStart(g)
    BY <2>1, <2>3 DEF StartsKeepTheirRow, InStart, StartSteps
  <2>4. ASSUME NEW g \in Frontends, g # f, pc[g] \in {"watch", "reader", "claim"},
               arg[g] \in sessions
        PROVE  write_phase'[arg[g]] = "Pending"
    BY <2>2, <2>3, <2>4 DEF StartsKeepTheirRow, InStart, StartSteps
  <2>. QED
    <3>1. ASSUME NEW g \in Frontends, g # f
          PROVE  (Starting(g) <=> Starting(g)') /\ (InStart(g) <=> InStart(g)')
      BY <2>1, <3>1 DEF Starting, InStart
    <3>2. ~Starting(f)' /\ ~InStart(f)'
      BY <2>1 DEF Starting, InStart, StartSteps
    <3>3. \A g \in Frontends \ {f} : /\ pc'[g] = pc[g] /\ arg'[g] = arg[g]
                                    /\ after'[g] = after[g]
                                    /\ controlled_session'[g] = controlled_session[g]
      BY <2>1
    <3>4. sessions' = sessions /\ controller' = controller
      BY <2>1
    <3>5. pc'[f] = "idle"
      BY <2>1
    <3>. QED
      BY <2>4, <3>1, <3>2, <3>3, <3>4, <3>5 DEF StartsKeepTheirRow
<1>21. ASSUME NEW f \in Frontends, CommitFailed(f) PROVE StartsKeepTheirRow'
  <2>1. /\ pc[f] = "commit_failed"
        /\ UNCHANGED <<sessions, controller, arg, controlled_session>>
        /\ \A g \in Frontends \ {f} : pc'[g] = pc[g] /\ after'[g] = after[g]
    BY <1>21 DEF TypeOK, CommitFailed, At, Goto
  <2>2. pc'[f] = "closing" \/ (pc'[f] = "signal" /\ after'[f] = "abandoned")
    BY <1>21 DEF TypeOK, CommitFailed, Goto
  <2>3. Starting(f) /\ InStart(f)
    BY <2>1 DEF Starting, InStart, StartSteps
  <2>4. \A s \in sessions : s = arg[f] \/ write_phase'[s] = write_phase[s]
    BY <1>21 DEF TypeOK, CommitFailed
  <2>5. ASSUME NEW g \in Frontends, g # f, pc[g] \in {"watch", "reader", "claim"},
               arg[g] \in sessions
        PROVE  write_phase'[arg[g]] = "Pending"
    <3>1. InStart(g)
      BY <2>5 DEF InStart, StartSteps
    <3>2. arg[g] # arg[f]
      BY <2>3, <2>5, <3>1 DEF StartsKeepTheirRow
    <3>. QED
      BY <2>4, <2>5, <3>2 DEF StartsKeepTheirRow
  <2>6. ASSUME NEW g \in Frontends, g # f
        PROVE  (Starting(g) <=> Starting(g)') /\ (InStart(g) <=> InStart(g)')
    BY <2>1, <2>6 DEF Starting, InStart
  <2>7. controlled_session[f] = NoSession
    BY <2>1, <2>3 DEF StartsKeepTheirRow
  <2>8. arg[f] \in sessions => controller[arg[f]] = f
    BY <2>3 DEF StartsKeepTheirRow
  <2>9. ASSUME NEW g \in Frontends, g # f
        PROVE  /\ pc'[g] = pc[g] /\ after'[g] = after[g] /\ arg'[g] = arg[g]
               /\ controlled_session'[g] = controlled_session[g]
    BY <2>1, <2>9
  <2>10. sessions' = sessions /\ controller' = controller
    BY <2>1
  <2>11. CASE pc'[f] = "closing"
    <3>1. ~Starting(f)' /\ ~InStart(f)'
      BY <2>11 DEF Starting, InStart, StartSteps
    <3>. QED
      BY <2>5, <2>6, <2>9, <2>10, <2>11, <3>1 DEF StartsKeepTheirRow
  <2>12. CASE pc'[f] = "signal" /\ after'[f] = "abandoned"
    <3>1. /\ controlled_session'[f] = NoSession
          /\ arg'[f] \in sessions' => controller'[arg'[f]] = f
      BY <2>1, <2>7, <2>8
    <3>. QED
      BY <2>5, <2>6, <2>9, <2>10, <2>12, <3>1 DEF StartsKeepTheirRow
  <2>. QED
    BY <2>2, <2>11, <2>12
<1>22. ASSUME NEW f \in Frontends, PtyDetach(f) PROVE StartsKeepTheirRow'
  BY <1>22 DEF TypeOK, PtyDetach, At, Goto, UnconfirmedOf, StartsKeepTheirRow, Starting,
       InStart, StartSteps, StartReaps, ConstantsAssumption
<1>23. ASSUME NEW f \in Frontends, SendAttached(f) PROVE StartsKeepTheirRow'
  BY <1>23 DEF TypeOK, SendAttached, At, Goto, StartsKeepTheirRow, Starting, InStart,
       StartSteps, StartReaps, rows
<1>24. ASSUME NEW f \in Frontends, Activate(f) PROVE StartsKeepTheirRow'
  BY <1>24 DEF TypeOK, Activate, At, Goto, StartsKeepTheirRow, Starting, InStart, StartSteps,
       StartReaps
<1>25. ASSUME NEW f \in Frontends, SendDetached(f) PROVE StartsKeepTheirRow'
  BY <1>25 DEF TypeOK, SendDetached, At, Reply, Goto, StartsKeepTheirRow, Starting, InStart,
       StartSteps, StartReaps, rows
<1>26. ASSUME NEW f \in Frontends, PtyStop(f) PROVE StartsKeepTheirRow'
  <2>1. /\ pc[f] = "idle"
        /\ UNCHANGED <<sessions, controller, write_phase>>
        /\ \A g \in Frontends \ {f} : /\ pc'[g] = pc[g] /\ arg'[g] = arg[g] /\ after'[g] = after[g]
                                       /\ controlled_session'[g] = controlled_session[g]
    BY <1>26 DEF TypeOK, PtyStop, At, Goto
  <2>2. \/ /\ pc'[f] = "signal" /\ after'[f] = "stop"
           /\ arg'[f] = controlled_session[f] /\ controlled_session' = controlled_session
        \/ pc'[f] = "idle"
    BY <1>26 DEF TypeOK, PtyStop, At, Goto
  <2>. QED
    BY <2>1, <2>2 DEF StartsKeepTheirRow, Starting, InStart, StartSteps, StartReaps
<1>27. ASSUME NEW f \in Frontends, Signal(f) PROVE StartsKeepTheirRow'
  <2>1. /\ pc[f] = "signal" /\ pc'[f] = "wait"
        /\ \A g \in Frontends \ {f} : pc'[g] = pc[g]
        /\ UNCHANGED <<arg, after, controlled_session, sessions, controller, write_phase>>
    BY <1>27 DEF TypeOK, Signal, At, Goto, rows
  <2>. QED
    BY <2>1 DEF StartsKeepTheirRow, Starting, InStart, StartSteps, StartReaps
<1>28. ASSUME NEW f \in Frontends, Finish(f) PROVE StartsKeepTheirRow'
  BY <1>28 DEF TypeOK, Finish, At, Goto, Reply, StartsKeepTheirRow, Starting, InStart,
       StartSteps, StartReaps, rows
<1>29. ASSUME NEW f \in Frontends, NEW s \in Sessions, PtyStart(f, s)
       PROVE  StartsKeepTheirRow'
  BY <1>29 DEF TypeOK, PtyStart, At, Goto, StartsKeepTheirRow, Starting, InStart, StartSteps,
       StartReaps, rows, ConstantsAssumption
<1>30. ASSUME NEW f \in Frontends, NEW s \in Sessions, PtyAttach(f, s)
       PROVE  StartsKeepTheirRow'
  BY <1>30 DEF TypeOK, PtyAttach, At, Goto, Attachable, StartsKeepTheirRow, Starting, InStart,
       StartSteps, StartReaps, ConstantsAssumption
<1>31. ASSUME NEW s \in Sessions, Classify(s) PROVE StartsKeepTheirRow'
  BY <1>31 DEF TypeOK, Classify, WatcherAt, ExitNotice, StartsKeepTheirRow, Starting, InStart,
       StartSteps, StartReaps, threads
<1>. QED
  BY <1>1, <1>2, <1>3, <1>4, <1>5, <1>6, <1>7, <1>8, <1>9, <1>10, <1>11, <1>12, <1>13, <1>14,
     <1>15, <1>16, <1>17, <1>18, <1>19, <1>20, <1>21, <1>22, <1>23, <1>24, <1>25, <1>26, <1>27,
     <1>28, <1>29, <1>30, <1>31 DEF Next, BrokerStep, Outside, Request, Handle, Watch, Output

(* A row stays in the table no longer than its watcher needs to notice the *)
(* exit; the cleanup of the group happens behind a removed row.            *)
LEMMA EndedStep ==
    ASSUME ConstantsAssumption, TypeOK, EndedSessionsAreForgotten, HandlersOwnTheirStart,
           NewSessionsAreFresh, Next
    PROVE  EndedSessionsAreForgotten'
<1>1. UNCHANGED <<sessions, completion, watcher>> => EndedSessionsAreForgotten'
  BY DEF EndedSessionsAreForgotten, Unregistered
<1>2. ASSUME NEW f \in Frontends,
              \/ Accept(f) \/ ClientLeaves(f) \/ HangUp(f) \/ Oversized(f) \/ SpawnFork(f)
              \/ SpawnRelease(f) \/ SpawnFails(f) \/ ReapUnwatched(f) \/ SpawnReader(f)
              \/ Claim(f) \/ SendStarted(f) \/ CommitStarted(f) \/ CommitFailed(f)
              \/ SendAttached(f) \/ Activate(f) \/ SendDetached(f) \/ PtyStop(f)
              \/ Signal(f) \/ Finish(f)
       PROVE  EndedSessionsAreForgotten'
  BY <1>1, <1>2 DEF Accept, ClientLeaves, HangUp, Oversized, SpawnFork, SpawnRelease,
       SpawnFails, ReapUnwatched, SpawnReader, Claim, SendStarted, CommitStarted, CommitFailed,
       SendAttached, Activate, SendDetached, PtyStop, Signal, Finish, agents, history, readers,
       rows, threads, watchers, world
<1>3. ASSUME NEW f \in Frontends, NEW s \in Sessions,
              PtyStart(f, s) \/ PtyStartAck(f, s) \/ PtyAttach(f, s)
       PROVE  EndedSessionsAreForgotten'
  BY <1>1, <1>3 DEF PtyStart, PtyStartAck, PtyAttach, agents, history, readers, rows, threads,
       watchers, world
<1>4. ASSUME NEW s \in Sessions,
              \/ AgentExits(s) \/ GuardianFires(s) \/ HeldAgentDies(s) \/ ReadOutput(s)
              \/ RecheckLease(s) \/ WriteOutput(s)
       PROVE  EndedSessionsAreForgotten'
  BY <1>1, <1>4 DEF AgentExits, GuardianFires, HeldAgentDies, ReadOutput, RecheckLease,
       WriteOutput, agents, history, readers, rows, threads, watchers, world
<1>5. ASSUME BrokerDies \/ IdleShutdown
       PROVE  EndedSessionsAreForgotten'
  BY <1>1, <1>5 DEF BrokerDies, IdleShutdown, agents, history, readers, rows, threads, watchers
<1>6. ASSUME NEW f \in Frontends, Disconnect(f) PROVE EndedSessionsAreForgotten'
  BY <1>6 DEF TypeOK, Disconnect, At, UnconfirmedOf, ReleasedBy, EndedSessionsAreForgotten,
       watchers, ConstantsAssumption
<1>7. ASSUME NEW f \in Frontends, Insert(f) PROVE EndedSessionsAreForgotten'
  BY <1>7 DEF TypeOK, Insert, At, Goto, EndedSessionsAreForgotten, NewSessionsAreFresh,
       Unregistered, agents, watchers, history
<1>8. ASSUME NEW f \in Frontends, SpawnWatcher(f) PROVE EndedSessionsAreForgotten'
  BY <1>8 DEF TypeOK, SpawnWatcher, At, EndedSessionsAreForgotten, rows
<1>9. ASSUME NEW f \in Frontends, Unregister(f) PROVE EndedSessionsAreForgotten'
  BY <1>9 DEF TypeOK, Unregister, At, EndedSessionsAreForgotten
<1>10. ASSUME NEW f \in Frontends, PtyDetach(f) PROVE EndedSessionsAreForgotten'
  BY <1>10 DEF TypeOK, PtyDetach, At, UnconfirmedOf, EndedSessionsAreForgotten, watchers,
       ConstantsAssumption
<1>11. ASSUME NEW s \in Sessions, WatcherWaits(s) PROVE EndedSessionsAreForgotten'
  BY <1>11 DEF TypeOK, WatcherWaits, WatcherAt, EndedSessionsAreForgotten, rows
<1>12. ASSUME NEW s \in Sessions, Classify(s) PROVE EndedSessionsAreForgotten'
  BY <1>12 DEF TypeOK, Classify, WatcherAt, ExitNotice, EndedSessionsAreForgotten
<1>13. ASSUME NEW s \in Sessions, WatcherReaps(s) PROVE EndedSessionsAreForgotten'
  BY <1>13 DEF TypeOK, WatcherReaps, WatcherAt, EndedSessionsAreForgotten, rows
<1>14. ASSUME NEW s \in Sessions, SendExited(s) PROVE EndedSessionsAreForgotten'
  BY <1>14 DEF TypeOK, SendExited, WatcherAt, EndedSessionsAreForgotten, rows
<1>15. ASSUME NEW s \in Sessions, ReleaseGuardian(s) PROVE EndedSessionsAreForgotten'
  BY <1>15 DEF TypeOK, ReleaseGuardian, WatcherAt, EndedSessionsAreForgotten, rows
<1>16. ASSUME NEW s \in Sessions, GuardianEnds(s) PROVE EndedSessionsAreForgotten'
  BY <1>16 DEF TypeOK, GuardianEnds, WatcherAt, EndedSessionsAreForgotten, rows
<1>. QED
  BY <1>1, <1>2, <1>3, <1>4, <1>5, <1>6, <1>7, <1>8, <1>9, <1>10, <1>11, <1>12, <1>13, <1>14,
     <1>15, <1>16 DEF Next, BrokerStep, Outside, Request, Handle, Watch, Output

(* An undelivered start stays in the hands of the pty-start that made it,  *)
(* an unconfirmed one in those of a lifecycle client.                      *)
LEMMA UnfinishedStep ==
    ASSUME ConstantsAssumption, TypeOK, UnfinishedStartsAreHeld, HandlersOwnTheirStart,
           NewSessionsAreFresh, StartsKeepTheirRow, EndedSessionsAreForgotten, LeaseAgreement,
           AttachableIsConfirmed, Next
    PROVE  UnfinishedStartsAreHeld'
<1>1. ASSUME UNCHANGED <<sessions, write_phase, start_confirmed, controller, pc, arg, after,
                         birth>>
       PROVE  UnfinishedStartsAreHeld'
  BY <1>1 DEF UnfinishedStartsAreHeld, Unspawned, Unregistered, Starting, InStart
<1>2. ASSUME NEW f \in Frontends, ClientLeaves(f)
       PROVE  UnfinishedStartsAreHeld'
  BY <1>1, <1>2 DEF ClientLeaves, agents, history, readers, rows, threads, watchers
<1>3. ASSUME NEW s \in Sessions,
              \/ AgentExits(s) \/ WatcherWaits(s) \/ WatcherReaps(s) \/ SendExited(s)
              \/ ReleaseGuardian(s) \/ GuardianEnds(s) \/ GuardianFires(s)
              \/ HeldAgentDies(s) \/ ReadOutput(s) \/ RecheckLease(s) \/ WriteOutput(s)
       PROVE  UnfinishedStartsAreHeld'
  BY <1>1, <1>3 DEF AgentExits, WatcherWaits, WatcherReaps, SendExited, ReleaseGuardian,
       GuardianEnds, GuardianFires, HeldAgentDies, ReadOutput, RecheckLease, WriteOutput,
       agents, history, readers, rows, threads, watchers, world
<1>4. ASSUME BrokerDies \/ IdleShutdown
       PROVE  UnfinishedStartsAreHeld'
  BY <1>1, <1>4 DEF BrokerDies, IdleShutdown, agents, history, readers, rows, threads, watchers
<1>5. ASSUME NEW f \in Frontends, Accept(f) PROVE UnfinishedStartsAreHeld'
  BY <1>5 DEF TypeOK, Accept, At, Goto, UnfinishedStartsAreHeld, InStart, StartSteps,
       StartReaps, rows, history
<1>6. ASSUME NEW f \in Frontends, HangUp(f) PROVE UnfinishedStartsAreHeld'
  BY <1>6 DEF TypeOK, HangUp, At, Goto, UnfinishedStartsAreHeld, InStart, StartSteps,
       StartReaps, rows, history
<1>7. ASSUME NEW f \in Frontends, Oversized(f) PROVE UnfinishedStartsAreHeld'
  BY <1>7 DEF TypeOK, Oversized, At, Goto, UnfinishedStartsAreHeld, InStart, StartSteps,
       StartReaps, rows, history
<1>8. ASSUME NEW f \in Frontends, Disconnect(f) PROVE UnfinishedStartsAreHeld'
  BY <1>8 DEF TypeOK, Disconnect, At, Goto, UnconfirmedOf, ReleasedBy, UnfinishedStartsAreHeld,
       HandlersOwnTheirStart, NewSessionsAreFresh, StartsKeepTheirRow, Unspawned, Unregistered,
       Starting, InStart, StartSteps, StartReaps, agents, watchers, history, ConstantsAssumption
<1>9. ASSUME NEW f \in Frontends, SpawnFork(f) PROVE UnfinishedStartsAreHeld'
  BY <1>9 DEF TypeOK, SpawnFork, At, Goto, UnfinishedStartsAreHeld, InStart, StartSteps,
       StartReaps, rows, history
<1>10. ASSUME NEW f \in Frontends, SpawnRelease(f) PROVE UnfinishedStartsAreHeld'
  BY <1>10 DEF TypeOK, SpawnRelease, At, Goto, UnfinishedStartsAreHeld, InStart, StartSteps,
       StartReaps, rows, history
<1>11. ASSUME NEW f \in Frontends, SpawnFails(f) PROVE UnfinishedStartsAreHeld'
  BY <1>11 DEF TypeOK, SpawnFails, At, Goto, UnfinishedStartsAreHeld, HandlersOwnTheirStart,
       NewSessionsAreFresh, StartsKeepTheirRow, Unspawned, Unregistered, Starting, InStart,
       StartSteps, StartReaps, rows, watchers, history
<1>12. ASSUME NEW f \in Frontends, Insert(f) PROVE UnfinishedStartsAreHeld'
  BY <1>12 DEF TypeOK, Insert, At, Goto, UnfinishedStartsAreHeld, HandlersOwnTheirStart,
       NewSessionsAreFresh, StartsKeepTheirRow, Unspawned, Unregistered, Starting, InStart,
       StartSteps, StartReaps, agents, watchers, history
<1>13. ASSUME NEW f \in Frontends, SpawnWatcher(f) PROVE UnfinishedStartsAreHeld'
  BY <1>13 DEF TypeOK, SpawnWatcher, At, Goto, UnfinishedStartsAreHeld, HandlersOwnTheirStart,
       NewSessionsAreFresh, StartsKeepTheirRow, Unspawned, Unregistered, Starting, InStart,
       StartSteps, StartReaps, rows, agents, history
<1>14. ASSUME NEW f \in Frontends, ReapUnwatched(f) PROVE UnfinishedStartsAreHeld'
  BY <1>14 DEF TypeOK, ReapUnwatched, At, Goto, UnfinishedStartsAreHeld, InStart, StartSteps,
       StartReaps, rows, history
<1>15. ASSUME NEW f \in Frontends, Unregister(f) PROVE UnfinishedStartsAreHeld'
  BY <1>15 DEF TypeOK, Unregister, At, Goto, UnfinishedStartsAreHeld, InStart, StartSteps,
       StartReaps, history
<1>16. ASSUME NEW f \in Frontends, SpawnReader(f) PROVE UnfinishedStartsAreHeld'
  <2>1. CASE after' = [after EXCEPT ![f] = "readerless"]
    BY <1>16, <2>1 DEF TypeOK, SpawnReader, At, Goto, UnfinishedStartsAreHeld,
         HandlersOwnTheirStart, NewSessionsAreFresh, StartsKeepTheirRow, Unspawned,
         Unregistered, Starting, InStart, StartSteps, StartReaps, rows, agents, watchers,
         history
  <2>2. CASE UNCHANGED after
    BY <1>16, <2>2 DEF TypeOK, SpawnReader, At, Goto, UnfinishedStartsAreHeld,
         HandlersOwnTheirStart, NewSessionsAreFresh, StartsKeepTheirRow, Unspawned,
         Unregistered, Starting, InStart, StartSteps, StartReaps, rows, agents, watchers,
         history
  <2>. QED
    BY <1>16, <2>1, <2>2 DEF SpawnReader
<1>17. ASSUME NEW f \in Frontends, Claim(f) PROVE UnfinishedStartsAreHeld'
  BY <1>17 DEF TypeOK, Claim, At, Goto, UnfinishedStartsAreHeld, HandlersOwnTheirStart,
       NewSessionsAreFresh, StartsKeepTheirRow, Unspawned, Unregistered, Starting, InStart,
       StartSteps, StartReaps, agents, watchers, history
<1>18. ASSUME NEW f \in Frontends, SendStarted(f) PROVE UnfinishedStartsAreHeld'
  BY <1>18 DEF TypeOK, SendStarted, At, Goto, UnfinishedStartsAreHeld, InStart, StartSteps,
       StartReaps, rows
<1>19. ASSUME NEW f \in Frontends, CommitStarted(f) PROVE UnfinishedStartsAreHeld'
  <2>1. arg[f] \in Sessions /\ (arg[f] \in sessions => controller[arg[f]] = f)
    BY <1>19 DEF CommitStarted, At, HandlersOwnTheirStart, StartsKeepTheirRow, InStart,
         StartSteps
  <2>2. /\ UNCHANGED <<sessions, controller, arg, after, birth>>
        /\ \A g \in Frontends \ {f} : pc'[g] = pc[g]
    BY <1>19 DEF TypeOK, CommitStarted, Goto, history
  <2>3. ASSUME NEW s \in sessions, s # arg[f]
        PROVE  write_phase'[s] = write_phase[s] /\ start_confirmed'[s] = start_confirmed[s]
    BY <1>19, <2>1, <2>3 DEF TypeOK, CommitStarted
  <2>4. ASSUME arg[f] \in sessions
        PROVE  /\ write_phase'[arg[f]] = "Written"
               /\ start_confirmed'[arg[f]] = (f \notin LifecycleFrontends)
    BY <1>19, <2>1, <2>4 DEF TypeOK, CommitStarted
  <2>5. ASSUME NEW s \in sessions, s # arg[f], write_phase[s] # "Written"
        PROVE  birth[s] \in Frontends \ {f}
    BY <2>5 DEF TypeOK, UnfinishedStartsAreHeld, NewSessionsAreFresh, Unspawned, Unregistered
  <2>6. ASSUME NEW s \in sessions
        PROVE  /\ write_phase'[s] # "Written" => InStart(birth[s])' /\ arg[birth[s]] = s
               /\ write_phase'[s] = "Written" /\ ~start_confirmed'[s]
                    => controller[s] \in LifecycleFrontends
    <3>1. CASE s = arg[f]
      BY <2>1, <2>4, <3>1
    <3>2. CASE s # arg[f]
      <4>1. write_phase[s] # "Written" => /\ pc'[birth[s]] = pc[birth[s]]
                                         /\ birth[s] \in Frontends
        BY <2>2, <2>5, <3>2
      <4>. QED
        BY <2>2, <2>3, <3>2, <4>1 DEF UnfinishedStartsAreHeld, InStart
    <3>. QED
      BY <3>1, <3>2
  <2>. QED
    BY <2>2, <2>6 DEF UnfinishedStartsAreHeld, InStart
<1>20. ASSUME NEW f \in Frontends, CommitFailed(f) PROVE UnfinishedStartsAreHeld'
  BY <1>20 DEF TypeOK, CommitFailed, At, Goto, UnfinishedStartsAreHeld, HandlersOwnTheirStart,
       NewSessionsAreFresh, StartsKeepTheirRow, Unspawned, Unregistered, Starting, InStart,
       StartSteps, StartReaps, agents, watchers, history
<1>21. ASSUME NEW f \in Frontends, PtyDetach(f) PROVE UnfinishedStartsAreHeld'
  BY <1>21 DEF TypeOK, PtyDetach, At, Goto, UnconfirmedOf, UnfinishedStartsAreHeld,
       HandlersOwnTheirStart, NewSessionsAreFresh, StartsKeepTheirRow,
       EndedSessionsAreForgotten, LeaseAgreement, AttachableIsConfirmed, Unspawned,
       Unregistered, Starting, InStart, StartSteps, StartReaps, agents, watchers, history,
       ConstantsAssumption
<1>22. ASSUME NEW f \in Frontends, SendAttached(f) PROVE UnfinishedStartsAreHeld'
  BY <1>22 DEF TypeOK, SendAttached, At, Goto, UnfinishedStartsAreHeld, InStart, StartSteps,
       StartReaps, rows
<1>23. ASSUME NEW f \in Frontends, Activate(f) PROVE UnfinishedStartsAreHeld'
  BY <1>23 DEF TypeOK, Activate, At, Goto, UnfinishedStartsAreHeld, InStart, StartSteps,
       StartReaps, history
<1>24. ASSUME NEW f \in Frontends, SendDetached(f) PROVE UnfinishedStartsAreHeld'
  BY <1>24 DEF TypeOK, SendDetached, At, Reply, Goto, UnfinishedStartsAreHeld, InStart,
       StartSteps, StartReaps, rows
<1>25. ASSUME NEW f \in Frontends, PtyStop(f) PROVE UnfinishedStartsAreHeld'
  <2>1. CASE controlled_session[f] \in sessions /\ controller[controlled_session[f]] = f
    BY <1>25, <2>1 DEF TypeOK, PtyStop, At, Goto, UnfinishedStartsAreHeld,
         HandlersOwnTheirStart, NewSessionsAreFresh, StartsKeepTheirRow, Unspawned,
         Unregistered, Starting, InStart, StartSteps, StartReaps, agents, watchers, history
  <2>2. CASE ~(controlled_session[f] \in sessions /\ controller[controlled_session[f]] = f)
    BY <1>25, <2>2 DEF TypeOK, PtyStop, At, Goto, UnfinishedStartsAreHeld, InStart, StartSteps,
         StartReaps, history
  <2>. QED
    BY <1>25, <2>1, <2>2
<1>26. ASSUME NEW f \in Frontends, Signal(f) PROVE UnfinishedStartsAreHeld'
  BY <1>26 DEF TypeOK, Signal, At, Goto, UnfinishedStartsAreHeld, InStart, StartSteps,
       StartReaps, rows, history
<1>27. ASSUME NEW f \in Frontends, Finish(f) PROVE UnfinishedStartsAreHeld'
  <2>1. arg[f] \notin sessions
    BY <1>27 DEF Finish, EndedSessionsAreForgotten
  <2>2. /\ UNCHANGED <<sessions, write_phase, start_confirmed, controller, arg, after, birth>>
        /\ \A g \in Frontends \ {f} : pc'[g] = pc[g]
    BY <1>27 DEF TypeOK, Finish, Goto, Reply, rows
  <2>3. ASSUME NEW s \in sessions, write_phase[s] # "Written"
        PROVE  birth[s] \in Frontends \ {f}
    BY <2>1, <2>3 DEF TypeOK, UnfinishedStartsAreHeld, NewSessionsAreFresh, Unspawned,
         Unregistered
  <2>. QED
    BY <2>2, <2>3 DEF UnfinishedStartsAreHeld, InStart
<1>28. ASSUME NEW f \in Frontends, NEW s \in Sessions, PtyStart(f, s)
       PROVE  UnfinishedStartsAreHeld'
  <2>1. /\ UNCHANGED <<sessions, write_phase, start_confirmed, controller, after>>
        /\ \A g \in Frontends \ {f} : pc'[g] = pc[g] /\ arg'[g] = arg[g]
        /\ \A x \in sessions : birth'[x] = birth[x]
    BY <1>28 DEF TypeOK, PtyStart, Goto, rows, NewSessionsAreFresh, Unspawned, Unregistered
  <2>2. ASSUME NEW x \in sessions, write_phase[x] # "Written"
        PROVE  birth[x] \in Frontends \ {f}
    BY <1>28, <2>2 DEF TypeOK, PtyStart, At, UnfinishedStartsAreHeld, InStart, StartSteps,
         NewSessionsAreFresh, Unspawned, Unregistered
  <2>. QED
    BY <2>1, <2>2 DEF UnfinishedStartsAreHeld, InStart
<1>29. ASSUME NEW f \in Frontends, NEW s \in Sessions, PtyStartAck(f, s)
       PROVE  UnfinishedStartsAreHeld'
  BY <1>29 DEF TypeOK, PtyStartAck, At, UnfinishedStartsAreHeld, InStart, StartSteps,
       StartReaps, threads, history
<1>30. ASSUME NEW f \in Frontends, NEW s \in Sessions, PtyAttach(f, s)
       PROVE  UnfinishedStartsAreHeld'
  BY <1>30 DEF TypeOK, PtyAttach, At, Goto, Attachable, UnfinishedStartsAreHeld, InStart,
       StartSteps, StartReaps, history, ConstantsAssumption
<1>31. ASSUME NEW s \in Sessions, Classify(s) PROVE UnfinishedStartsAreHeld'
  BY <1>31 DEF TypeOK, Classify, WatcherAt, ExitNotice, UnfinishedStartsAreHeld, InStart,
       StartSteps, StartReaps, threads, history
<1>. QED
  BY <1>1, <1>2, <1>3, <1>4, <1>5, <1>6, <1>7, <1>8, <1>9, <1>10, <1>11, <1>12, <1>13, <1>14,
     <1>15, <1>16, <1>17, <1>18, <1>19, <1>20, <1>21, <1>22, <1>23, <1>24, <1>25, <1>26, <1>27,
     <1>28, <1>29, <1>30, <1>31 DEF Next, BrokerStep, Outside, Request, Handle, Watch, Output

-----------------------------------------------------------------------------
(* Every step that takes an unconfirmed session out of the hands of its    *)
(* own connection kills its agent or is on its way to.                     *)
LEMMA OwnedStep ==
    ASSUME ConstantsAssumption, TypeOK, AgentsHaveAnOwner, HandlersOwnTheirStart,
           NewSessionsAreFresh, StartsKeepTheirRow, UnfinishedStartsAreHeld, LeaseAgreement,
           AttachableIsConfirmed, ReapedGroupsDoNotRun, EndedSessionsAreForgotten, Next
    PROVE  AgentsHaveAnOwner'
<1>1. UNCHANGED <<rows, pc, arg, after, group, watcher, completion, birth>> => AgentsHaveAnOwner'
  BY DEF AgentsHaveAnOwner, Owned, InStart, rows
<1>2. ASSUME NEW f \in Frontends, ClientLeaves(f) PROVE AgentsHaveAnOwner'
  BY <1>1, <1>2 DEF ClientLeaves, agents, history, threads, watchers
<1>3. ASSUME NEW s \in Sessions, ReadOutput(s) \/ RecheckLease(s) \/ WriteOutput(s)
      PROVE  AgentsHaveAnOwner'
  BY <1>1, <1>3 DEF ReadOutput, RecheckLease, WriteOutput, agents, history, threads, watchers
<1>4. ASSUME BrokerDies \/ IdleShutdown PROVE AgentsHaveAnOwner'
  BY <1>1, <1>4 DEF BrokerDies, IdleShutdown, agents, history, threads, watchers
<1>5. ASSUME NEW f \in Frontends, Accept(f) PROVE AgentsHaveAnOwner'
  BY <1>5 DEF TypeOK, Accept, At, Goto, rows, agents, watchers, history, AgentsHaveAnOwner, Owned,
       InStart, StartSteps, StartReaps
<1>6. ASSUME NEW f \in Frontends, HangUp(f) PROVE AgentsHaveAnOwner'
  BY <1>6 DEF TypeOK, HangUp, At, Goto, rows, agents, watchers, history, AgentsHaveAnOwner, Owned,
       InStart, StartSteps, StartReaps
<1>7. ASSUME NEW f \in Frontends, Oversized(f) PROVE AgentsHaveAnOwner'
  BY <1>7 DEF TypeOK, Oversized, At, Goto, rows, agents, watchers, history, AgentsHaveAnOwner,
       Owned, InStart, StartSteps, StartReaps
<1>8. ASSUME NEW f \in Frontends, SpawnFork(f) PROVE AgentsHaveAnOwner'
  BY <1>8 DEF TypeOK, SpawnFork, At, Goto, rows, watchers, history, HandlersOwnTheirStart,
       Starting, NewSessionsAreFresh, Unspawned, Unregistered, AgentsHaveAnOwner, Owned, InStart,
       StartSteps, StartReaps
<1>9. ASSUME NEW f \in Frontends, SpawnRelease(f) PROVE AgentsHaveAnOwner'
  BY <1>9 DEF TypeOK, SpawnRelease, At, Goto, rows, watchers, history, HandlersOwnTheirStart,
       Starting, NewSessionsAreFresh, Unspawned, Unregistered, AgentsHaveAnOwner, Owned, InStart,
       StartSteps, StartReaps
<1>10. ASSUME NEW f \in Frontends, SpawnFails(f) PROVE AgentsHaveAnOwner'
  BY <1>10 DEF TypeOK, SpawnFails, At, Goto, rows, watchers, history, HandlersOwnTheirStart,
       Starting, AgentsHaveAnOwner, Owned, InStart, StartSteps, StartReaps
<1>11. ASSUME NEW f \in Frontends, Insert(f) PROVE AgentsHaveAnOwner'
  BY <1>11 DEF TypeOK, Insert, At, Goto, agents, watchers, history, HandlersOwnTheirStart,
       Starting, AgentsHaveAnOwner, Owned, InStart, StartSteps, StartReaps
<1>12. ASSUME NEW f \in Frontends, SpawnWatcher(f) PROVE AgentsHaveAnOwner'
  BY <1>12 DEF TypeOK, SpawnWatcher, At, Goto, rows, agents, history, HandlersOwnTheirStart,
       Starting, AgentsHaveAnOwner, Owned, InStart, StartSteps, StartReaps
<1>13. ASSUME NEW f \in Frontends, ReapUnwatched(f) PROVE AgentsHaveAnOwner'
  <2>1. pc[f] = "unwatched" /\ arg[f] \in Sessions
    BY <1>13 DEF ReapUnwatched, At, HandlersOwnTheirStart
  <2>2. /\ \A x \in Sessions \ {arg[f]} : group'[x] = group[x]
        /\ group'[arg[f]] # "running"
        /\ group'[arg[f]] = "held" => group[arg[f]] = "held"
    BY <1>13, <2>1, ReapFacts DEF TypeOK, ReapUnwatched
  <2>3. /\ UNCHANGED <<rows, arg, after, watchers, history>>
        /\ pc'[f] = "unregister" /\ \A g \in Frontends \ {f} : pc'[g] = pc[g]
    BY <1>13 DEF TypeOK, ReapUnwatched, Goto
  <2>4. ASSUME NEW x \in Sessions, Owned(x) PROVE Owned(x)'
    BY <2>1, <2>3, <2>4 DEF rows, history, Owned, InStart, StartSteps
  <2>5. \A x \in Sessions : birth[x] = f => group[x] # "held"
    BY <2>1 DEF AgentsHaveAnOwner
  <2>. QED
    BY <2>2, <2>3, <2>4, <2>5 DEF rows, watchers, history, AgentsHaveAnOwner
<1>14. ASSUME NEW f \in Frontends, Unregister(f) PROVE AgentsHaveAnOwner'
  BY <1>14 DEF TypeOK, Unregister, At, Goto, history, HandlersOwnTheirStart, Starting,
       ReapedGroupsDoNotRun, AgentsHaveAnOwner, Owned, InStart, StartSteps, StartReaps
<1>15. ASSUME NEW f \in Frontends, SpawnReader(f) PROVE AgentsHaveAnOwner'
  BY <1>15 DEF TypeOK, SpawnReader, At, Goto, rows, agents, watchers, history,
       HandlersOwnTheirStart, Starting, AgentsHaveAnOwner, Owned, InStart, StartSteps, StartReaps
<1>16. ASSUME NEW f \in Frontends, Claim(f) PROVE AgentsHaveAnOwner'
  BY <1>16 DEF TypeOK, Claim, At, Goto, agents, watchers, history, HandlersOwnTheirStart,
       Starting, StartsKeepTheirRow, AgentsHaveAnOwner, Owned, InStart, StartSteps, StartReaps
<1>17. ASSUME NEW f \in Frontends, SendStarted(f) PROVE AgentsHaveAnOwner'
  BY <1>17 DEF TypeOK, SendStarted, At, Goto, rows, agents, watchers, AgentsHaveAnOwner, Owned,
       InStart, StartSteps, StartReaps
<1>18. ASSUME NEW f \in Frontends, CommitStarted(f) PROVE AgentsHaveAnOwner'
  <2>0. PICK s \in Sessions : s = arg[f]
    BY <1>18 DEF CommitStarted, At, HandlersOwnTheirStart
  <2>1. pc[f] = "commit" /\ birth[s] = f /\ InStart(f)
    BY <1>18, <2>0 DEF CommitStarted, At, HandlersOwnTheirStart, Starting, InStart, StartSteps
  <2>2. /\ UNCHANGED <<sessions, controller, arg, after, group, watcher, completion, birth>>
        /\ \A g \in Frontends \ {f} : pc'[g] = pc[g]
        /\ \A x \in Sessions \ {s} : /\ write_phase'[x] = write_phase[x]
                                     /\ start_confirmed'[x] = start_confirmed[x]
    <3>1. CASE s \in sessions
      BY <1>18, <2>0, <3>1 DEF TypeOK, CommitStarted, Goto, agents, watchers, history
    <3>2. CASE s \notin sessions
      BY <1>18, <2>0, <3>2 DEF TypeOK, CommitStarted, Goto, agents, watchers, history
    <3>. QED
      BY <3>1, <3>2
  <2>3. s \in sessions => write_phase'[s] = "Written" /\ controller[s] = f
    BY <1>18, <2>0, <2>1 DEF TypeOK, CommitStarted, StartsKeepTheirRow
  <2>4. s \notin sessions => start_confirmed' = start_confirmed
    BY <1>18, <2>0 DEF CommitStarted
  <2>5. ASSUME NEW x \in Sessions, x # s, Owned(x) PROVE Owned(x)'
    BY <2>0, <2>1, <2>2, <2>5 DEF TypeOK, Owned, InStart
  <2>6. group[s] = "running" /\ ~start_confirmed'[s] => Owned(s)'
    <3>1. CASE s \in sessions
      BY <2>1, <2>2, <2>3, <3>1 DEF Owned
    <3>2. CASE s \notin sessions
      BY <2>0, <2>1, <2>2, <2>4, <3>2 DEF AgentsHaveAnOwner, Owned
    <3>. QED
      BY <3>1, <3>2
  <2>7. \A x \in Sessions : birth[x] = f => group[x] # "held"
    BY <2>1 DEF AgentsHaveAnOwner
  <2>. QED
    BY <2>2, <2>5, <2>6, <2>7 DEF AgentsHaveAnOwner
<1>19. ASSUME NEW f \in Frontends, CommitFailed(f) PROVE AgentsHaveAnOwner'
  BY <1>19 DEF TypeOK, CommitFailed, At, Goto, agents, watchers, history, HandlersOwnTheirStart,
       Starting, AgentsHaveAnOwner, Owned, InStart, StartSteps, StartReaps
<1>20. ASSUME NEW f \in Frontends, SendAttached(f) PROVE AgentsHaveAnOwner'
  BY <1>20 DEF TypeOK, SendAttached, At, Goto, rows, agents, watchers, AgentsHaveAnOwner, Owned,
       InStart, StartSteps, StartReaps
<1>21. ASSUME NEW f \in Frontends, Activate(f) PROVE AgentsHaveAnOwner'
  BY <1>21 DEF TypeOK, Activate, At, Goto, agents, watchers, history, AgentsHaveAnOwner, Owned,
       InStart, StartSteps, StartReaps
<1>22. ASSUME NEW f \in Frontends, SendDetached(f) PROVE AgentsHaveAnOwner'
  BY <1>22 DEF TypeOK, SendDetached, At, Reply, Goto, rows, agents, watchers, AgentsHaveAnOwner,
       Owned, InStart, StartSteps, StartReaps
<1>23. ASSUME NEW f \in Frontends, PtyDetach(f) PROVE AgentsHaveAnOwner'
  <2> DEFINE s == controlled_session[f]
  <2>1. pc[f] = "idle" /\ ~InStart(f) /\ s \in Sessions
    BY <1>23 DEF TypeOK, PtyDetach, At, InStart, StartSteps
  <2>2. /\ UNCHANGED <<write_phase, start_confirmed, group, watcher, completion, birth>>
        /\ \A g \in Frontends \ {f} : pc'[g] = pc[g] /\ arg'[g] = arg[g] /\ after'[g] = after[g]
        /\ \A x \in Sessions \ {s} : controller'[x] = controller[x]
    BY <1>23 DEF TypeOK, PtyDetach, Goto, agents, watchers, history
  <2>3. CASE s \in UnconfirmedOf(f)
    <3>1. /\ sessions' = sessions \ {s} /\ controller' = controller
          /\ pc'[f] = "signal" /\ arg'[f] = s
      BY <1>23, <2>3 DEF TypeOK, PtyDetach, Goto
    <3>2. controller[s] = f /\ s \in sessions
      BY <2>3 DEF UnconfirmedOf
    <3>3. ASSUME NEW x \in Sessions, Owned(x)
          PROVE  Owned(x)'
      BY <2>1, <2>2, <3>1, <3>2, <3>3 DEF Owned, InStart, StartsKeepTheirRow
    <3>. QED
      BY <2>1, <2>2, <3>3 DEF AgentsHaveAnOwner
  <2>4. CASE s \notin UnconfirmedOf(f)
    <3>1. /\ sessions' = sessions
          /\ controller'[s] = IF s \in sessions /\ controller[s] = f THEN NoFrontend
                              ELSE controller[s]
          /\ pc'[f] = "detach_send"
      BY <1>23, <2>4 DEF TypeOK, PtyDetach, Goto
    <3>2. s \in sessions /\ write_phase[s] = "Written" /\ controller[s] = f => start_confirmed[s]
      BY <2>4 DEF UnconfirmedOf, UnfinishedStartsAreHeld
    <3>3. ASSUME NEW x \in Sessions, ~start_confirmed[x], Owned(x)
          PROVE  Owned(x)'
      BY <2>1, <2>2, <3>1, <3>2, <3>3 DEF Owned, InStart
    <3>. QED
      BY <2>1, <2>2, <3>3 DEF AgentsHaveAnOwner
  <2>. QED
    BY <2>3, <2>4
<1>24. ASSUME NEW f \in Frontends, PtyStop(f) PROVE AgentsHaveAnOwner'
  BY <1>24 DEF TypeOK, PtyStop, At, Goto, agents, watchers, history, AgentsHaveAnOwner, Owned,
       InStart, StartSteps, StartReaps
<1>25. ASSUME NEW f \in Frontends, Signal(f) PROVE AgentsHaveAnOwner'
  BY <1>25 DEF TypeOK, Signal, Kill, At, Goto, rows, watchers, history, AgentsHaveAnOwner, Owned,
       InStart, StartSteps, StartReaps
<1>26. ASSUME NEW f \in Frontends, Finish(f) PROVE AgentsHaveAnOwner'
  BY <1>26 DEF TypeOK, Finish, At, Goto, Reply, rows, agents, watchers, history,
       AgentsHaveAnOwner, Owned, InStart, StartSteps, StartReaps
<1>27. ASSUME NEW f \in Frontends, Disconnect(f) PROVE AgentsHaveAnOwner'
  <2>1. pc[f] = "closing" /\ ~InStart(f)
    BY <1>27 DEF Disconnect, At, InStart, StartSteps
  <2>2. /\ sessions' = sessions \ UnconfirmedOf(f)
        /\ controller' = ReleasedBy(f)
        /\ UNCHANGED <<write_phase, start_confirmed, group, watcher, completion, birth>>
        /\ \A g \in Frontends \ {f} : pc'[g] = pc[g] /\ arg'[g] = arg[g] /\ after'[g] = after[g]
    BY <1>27 DEF TypeOK, Disconnect, Goto, agents, watchers, history
  <2>3. ASSUME NEW x \in UnconfirmedOf(f)
        PROVE  pc'[f] = "signal" /\ arg'[f] = x
    <3>1. UnconfirmedOf(f) = {x}
      BY <2>1 DEF UnconfirmedOf, LeaseAgreement
    <3>. QED
      BY <1>27, <3>1 DEF TypeOK, Disconnect, Goto
  <2>4. ASSUME NEW x \in Sessions, ~start_confirmed[x], Owned(x)
        PROVE  Owned(x)'
    <3> DEFINE g == birth[x]
    <3>1. CASE InStart(g) /\ arg[g] = x /\ (x \in sessions \/ pc[g] = "insert")
      <4>1. g # f /\ x \notin UnconfirmedOf(f)
        BY <2>1, <2>4, <3>1 DEF Owned, UnconfirmedOf, StartsKeepTheirRow
      <4>. QED
        BY <2>2, <2>4, <3>1, <4>1 DEF Owned, InStart
    <3>2. CASE x \in sessions /\ write_phase[x] = "Written" /\ controller[x] = g
      <4>1. CASE g = f
        <5>1. x \in UnconfirmedOf(f)
          BY <2>4, <3>2, <4>1 DEF UnconfirmedOf, UnfinishedStartsAreHeld
        <5>. QED
          BY <2>2, <2>3, <2>4, <4>1, <5>1 DEF Owned
      <4>2. CASE g # f
        BY <2>2, <2>4, <3>2, <4>2 DEF Owned, UnconfirmedOf, ReleasedBy
      <4>. QED
        BY <4>1, <4>2
    <3>3. CASE pc[g] = "signal" /\ arg[g] = x
      BY <2>1, <2>2, <2>4, <3>3 DEF Owned
    <3>. QED
      BY <2>4, <3>1, <3>2, <3>3 DEF Owned
  <2>. QED
    BY <2>1, <2>2, <2>4 DEF AgentsHaveAnOwner
<1>28. ASSUME NEW f \in Frontends, NEW s \in Sessions, PtyStart(f, s) PROVE AgentsHaveAnOwner'
  <2>1. pc[f] = "idle" /\ ~InStart(f) /\ group[s] = "none" /\ birth[s] = NoFrontend
    BY <1>28 DEF PtyStart, At, InStart, StartSteps, NewSessionsAreFresh, Unspawned
  <2>2. UNCHANGED <<rows, agents, watchers, after>>
    BY <1>28 DEF PtyStart
  <2>3. /\ \A x \in Sessions \ {s} : birth'[x] = birth[x]
        /\ \A g \in Frontends \ {f} : pc'[g] = pc[g] /\ arg'[g] = arg[g]
    BY <1>28 DEF TypeOK, PtyStart, Goto
  <2>4. ASSUME NEW x \in Sessions, x # s, Owned(x)
        PROVE  Owned(x)'
    BY <2>1, <2>2, <2>3, <2>4 DEF rows, Owned, InStart
  <2>5. \A x \in Sessions : birth[x] = f => group[x] # "held"
    BY <2>1 DEF AgentsHaveAnOwner
  <2>. QED
    BY <2>1, <2>2, <2>3, <2>4, <2>5 DEF rows, agents, watchers, AgentsHaveAnOwner
<1>29. ASSUME NEW f \in Frontends, NEW s \in Sessions, PtyStartAck(f, s) PROVE AgentsHaveAnOwner'
  BY <1>29 DEF TypeOK, PtyStartAck, At, threads, agents, watchers, history, AgentsHaveAnOwner,
       Owned, InStart, StartSteps, StartReaps
<1>30. ASSUME NEW f \in Frontends, NEW s \in Sessions, PtyAttach(f, s) PROVE AgentsHaveAnOwner'
  BY <1>30 DEF TypeOK, PtyAttach, At, Goto, Attachable, agents, watchers, history,
       AttachableIsConfirmed, AgentsHaveAnOwner, Owned, InStart, StartSteps, StartReaps
<1>31. ASSUME NEW s \in Sessions, Classify(s) PROVE AgentsHaveAnOwner'
  BY <1>31 DEF TypeOK, Classify, WatcherAt, threads, agents, history, AgentsHaveAnOwner, Owned,
       InStart, StartSteps, StartReaps
<1>32. ASSUME NEW s \in Sessions, WatcherWaits(s) PROVE AgentsHaveAnOwner'
  BY <1>32 DEF TypeOK, WatcherWaits, WatcherAt, rows, threads, agents, history, AgentsHaveAnOwner,
       Owned, InStart, StartSteps, StartReaps
<1>33. ASSUME NEW s \in Sessions, WatcherReaps(s) PROVE AgentsHaveAnOwner'
  <2>1. \A x \in Sessions : \/ group'[x] = group[x]
                            \/ group'[x] \in {"gone", "killed"}
                            \/ group'[x] = "held" /\ group[x] = "held"
    BY <1>33, ReapFacts DEF TypeOK, WatcherReaps
  <2>2. UNCHANGED <<rows, threads, completion, history>>
    BY <1>33 DEF WatcherReaps
  <2>3. \A x \in Sessions : watcher'[x] = watcher[x] \/ (x = s /\ watcher[s] = "cleanup")
    BY <1>33 DEF TypeOK, WatcherReaps, WatcherAt
  <2>. QED
    <3>1. ASSUME NEW x \in Sessions, Owned(x) PROVE Owned(x)'
      BY <2>2, <3>1 DEF rows, threads, history, Owned, InStart
    <3>. QED
      BY <2>1, <2>2, <2>3, <3>1 DEF rows, threads, history, AgentsHaveAnOwner
<1>34. ASSUME NEW s \in Sessions, SendExited(s) PROVE AgentsHaveAnOwner'
  BY <1>34 DEF TypeOK, SendExited, WatcherAt, rows, threads, agents, AgentsHaveAnOwner, Owned,
       InStart, StartSteps, StartReaps
<1>35. ASSUME NEW s \in Sessions, ReleaseGuardian(s) PROVE AgentsHaveAnOwner'
  <2>1. /\ UNCHANGED <<rows, threads, group, history>>
        /\ watcher[s] = "release"
        /\ \A x \in Sessions \ {s} : watcher'[x] = watcher[x] /\ completion'[x] = completion[x]
    BY <1>35 DEF TypeOK, ReleaseGuardian, WatcherAt
  <2>2. ASSUME NEW x \in Sessions, Owned(x) PROVE Owned(x)'
    BY <2>1, <2>2 DEF rows, threads, history, Owned, InStart
  <2>. QED
    BY <2>1, <2>2 DEF rows, threads, history, AgentsHaveAnOwner
<1>36. ASSUME NEW s \in Sessions, GuardianEnds(s) PROVE AgentsHaveAnOwner'
  BY <1>36 DEF TypeOK, GuardianEnds, WatcherAt, rows, threads, agents, history, AgentsHaveAnOwner,
       Owned, InStart, StartSteps, StartReaps
<1>37. ASSUME NEW s \in Sessions, AgentExits(s) PROVE AgentsHaveAnOwner'
  BY <1>37 DEF TypeOK, AgentExits, rows, threads, watchers, history, AgentsHaveAnOwner, Owned,
       InStart, StartSteps, StartReaps
<1>38. ASSUME NEW s \in Sessions, GuardianFires(s) PROVE AgentsHaveAnOwner'
  BY <1>38 DEF TypeOK, GuardianFires, Kill, rows, threads, watchers, history, AgentsHaveAnOwner,
       Owned, InStart, StartSteps, StartReaps
<1>39. ASSUME NEW s \in Sessions, HeldAgentDies(s) PROVE AgentsHaveAnOwner'
  BY <1>39 DEF TypeOK, HeldAgentDies, rows, threads, watchers, history, AgentsHaveAnOwner, Owned,
       InStart, StartSteps, StartReaps
<1>. QED
  BY <1>1, <1>2, <1>3, <1>4, <1>5, <1>6, <1>7, <1>8, <1>9, <1>10, <1>11, <1>12, <1>13, <1>14,
     <1>15, <1>16, <1>17, <1>18, <1>19, <1>20, <1>21, <1>22, <1>23, <1>24, <1>25, <1>26, <1>27,
     <1>28, <1>29, <1>30, <1>31, <1>32, <1>33, <1>34, <1>35, <1>36, <1>37, <1>38, <1>39 DEF Next,
     BrokerStep, Outside, Request, Handle, Watch, Output
=============================================================================
