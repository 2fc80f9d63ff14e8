------------------------ MODULE BrokerAdmissionProofs ------------------------
(***************************************************************************)
(* The safety of BrokerAdmission for any number of frontends and attempts. *)
(* The lock and the way a broker comes into being belong together: who is  *)
(* about to start one holds the lock or is dead, and while it is about to, *)
(* nobody serves.                                                          *)
(***************************************************************************)
EXTENDS BrokerAdmission, TLAPS

(* The steps of a frontend that hold the admission lock.                   *)
Holds(f) ==
    \/ fe[f] \in {"connect", "stale", "spawn", "await_ack"}
    \/ fe[f] \in {"handshake", "unlock"} /\ ~originator[f]

(* The kernel's record of the lock names everybody who relies on it.       *)
LockHolders ==
    /\ \A f \in Frontends : Holds(f) => Locked("frontend", f)
    /\ \A b \in Frontends : br[b] = "forked" => Locked("frontend", b)
    /\ \A b \in Frontends : br[b] \in {"recheck", "unlink", "exit"} => Locked("broker", b)
    /\ \A b \in Frontends : waiter[b] = "holding" => Locked("waiter", b)

(* A broker that starts has its frontend waiting for it, or the frontend   *)
(* was killed.                                                             *)
StartsHaveParents ==
    /\ \A b \in Frontends : br[b] \in Starting => fe[b] \in {"await_ack", "killed"}
    /\ \A f \in Frontends : fe[f] = "killed" => "kill" \in Faults
    /\ \A f \in Frontends : fe[f] = "await_ack" => originator[f]

(* The connection that comes with the fork is in the child's backlog.      *)
StartsAreConnected ==
    \A f \in Frontends :
        fe[f] = "await_ack" /\ br[f] \in Starting => \E c \in conns[f] : c.from = f

(* Nobody serves while a frontend is about to start a broker.              *)
AboutToStart(f) ==
    \/ fe[f] \in {"stale", "spawn"}
    \/ fe[f] = "await_ack" /\ br[f] \in Starting

NoneServesAtStart ==
    \A f, b \in Frontends : AboutToStart(f) => br[b] \notin Serving

(* The file at the path is the socket of the broker that is acknowledged.  *)
SocketOfStart ==
    \A b \in Frontends :
        br[b] \in {"bound", "listening"} /\ fe[b] = "await_ack" => socket = b

Safe == TypeOK /\ LockHolders /\ StartsHaveParents
Single == Safe /\ NoneServesAtStart /\ SocketOfStart /\ OneBroker

-----------------------------------------------------------------------------
(* What the helpers on connections do.                                     *)

(* A frontend that closes its end changes no other mark of a connection.   *)
LEMMA Closing ==
    ASSUME TypeOK, NEW f \in Frontends
    PROVE  /\ ClosedBy(f) \in [Frontends -> SUBSET Connections]
           /\ \A b \in Frontends : \A c \in conns[b] :
                 \E d \in ClosedBy(f)[b] : d.state = c.state /\ d.from = c.from
           /\ \A b \in Frontends : \A d \in ClosedBy(f)[b] :
                 \E c \in conns[b] : d.state = c.state /\ d.from = c.from
<1> DEFINE Closed(c) == IF c.from = f THEN [c EXCEPT !.open = FALSE] ELSE c
<1>1. \A c \in Connections : /\ Closed(c) \in Connections
                             /\ Closed(c).state = c.state /\ Closed(c).from = c.from
  BY DEF Connections
<1>2. CASE peer[f] = Nobody
  BY <1>2 DEF TypeOK, ClosedBy
<1>3. CASE peer[f] # Nobody
  <2>1. peer[f] \in Frontends
    BY <1>3 DEF TypeOK
  <2>2. ClosedBy(f) = [conns EXCEPT ![peer[f]] = {Closed(c) : c \in conns[peer[f]]}]
    BY <1>3, <2>1 DEF ClosedBy, TypeOK
  <2> HIDE DEF Closed
  <2>3. \A b \in Frontends :
           ClosedBy(f)[b] = IF b = peer[f] THEN {Closed(c) : c \in conns[b]} ELSE conns[b]
    BY <2>1, <2>2 DEF TypeOK
  <2>4. conns \in [Frontends -> SUBSET Connections]
    BY DEF TypeOK
  <2>5. {Closed(c) : c \in conns[peer[f]]} \in SUBSET Connections
    BY <1>1, <2>1, <2>4
  <2> QED
    BY <1>1, <2>1, <2>2, <2>3, <2>4, <2>5
<1> QED
  BY <1>2, <1>3

(* Connections come and go with their state and their sender only.         *)
MarksKept ==
    /\ \A b \in Frontends : \A c \in conns[b] :
          \E d \in conns'[b] : d.state = c.state /\ d.from = c.from
    /\ \A b \in Frontends : \A d \in conns'[b] :
          \E c \in conns[b] : d.state = c.state /\ d.from = c.from

(* These are the ways in which a frontend closes its end.                  *)
LEMMA ClosingKeepsMarks ==
    ASSUME TypeOK, NEW f \in Frontends,
           HandshakeFails(f) \/ RelayEnds(f) \/ Killed(f) \/ AwaitAck(f)
    PROVE  MarksKept
<1>1. CASE UNCHANGED conns
  BY <1>1 DEF MarksKept
<1>2. CASE conns' = ClosedBy(f)
  BY <1>2, Closing DEF MarksKept
<1> QED
  BY <1>1, <1>2 DEF HandshakeFails, RelayEnds, Killed, AwaitAck

(* What is said of connections by these marks stays true.                  *)
LEMMA MarksCarry ==
    ASSUME MarksKept, UNCHANGED <<br, sessions, waiter, wake>>
    PROVE  /\ IdleBrokerIsWoken => IdleBrokerIsWoken'
           /\ (\A f \in Frontends : fe'[f] = "await_ack" => fe[f] = "await_ack")
                 => (StartsAreConnected => StartsAreConnected')
<1>1. ASSUME NEW b \in Frontends PROVE IdleAt(b)' => IdleAt(b)
  <2>1. ASSUME NEW c \in conns[b], c.state = "served" PROVE \E d \in conns'[b] : d.state = "served"
    BY <2>1 DEF MarksKept
  <2> QED
    BY <2>1 DEF IdleAt, Served
<1>2. ASSUME NEW b \in Frontends, NEW c \in conns[b]
      PROVE  \E d \in conns'[b] : d.state = c.state
  BY DEF MarksKept
<1>3. IdleBrokerIsWoken => IdleBrokerIsWoken'
  BY <1>1, <1>2 DEF IdleBrokerIsWoken
<1>4. ASSUME NEW f \in Frontends, NEW c \in conns[f], c.from = f
      PROVE  \E d \in conns'[f] : d.from = f
  BY <1>4 DEF MarksKept
<1> QED
  BY <1>3, <1>4 DEF StartsAreConnected

(* Who was in the backlog is served afterwards.                            *)
LEMMA Accepting ==
    ASSUME TypeOK, NEW b \in Frontends
    PROVE  /\ Backlog(b) # {} \/ Served(b) # {} => \E d \in Accepted(b) : d.state = "served"
           /\ Backlog(b) = {} /\ Served(b) = {} => \A d \in Accepted(b) : d.state = "leaving"
<1> DEFINE Taken(c) == [c EXCEPT !.state = IF @ = "backlog" THEN "served" ELSE @]
<1>1. \A c \in Connections : /\ c.state \in {"backlog", "served", "leaving"}
                             /\ Taken(c).state = IF c.state = "backlog" THEN "served" ELSE c.state
  BY DEF Connections
<1>2. conns[b] \subseteq Connections
  BY DEF TypeOK
<1>3. Accepted(b) = {Taken(c) : c \in conns[b]}
  BY DEF Accepted
<1> HIDE DEF Taken
<1> QED
  BY <1>1, <1>2, <1>3 DEF Backlog, Served

(* At the start nobody holds the lock and there is no broker.              *)
LEMMA InitSingle ==
    ASSUME AdmissionAssumption, Init PROVE Single /\ StartsAreConnected
<1>1. TypeOK
  BY DEF AdmissionAssumption, Init, TypeOK, Free, FrontendSteps, BrokerSteps
<1> QED
  BY <1>1 DEF Init, Single, Safe, LockHolders, Holds, StartsHaveParents, StartsAreConnected,
     Starting, Serving, NoneServesAtStart, AboutToStart, SocketOfStart, OneBroker

(* Every action keeps the types.                                           *)
LEMMA TypeStep ==
    ASSUME AdmissionAssumption, TypeOK, Next
    PROVE  TypeOK'
<1>1. ASSUME NEW f \in Frontends, TakeLock(f) \/ RemoveStale(f) \/ Welcome(f) \/ Retry(f)
      PROVE  TypeOK'
  BY <1>1 DEF TakeLock, Take, Step, TypeOK, frontendVars, brokerVars, Holders, Free,
      FrontendSteps, BrokerSteps, RemoveStale, NoBroker, Unlock, Welcome, Retry, AttemptsLeft,
      AdmissionAssumption
<1>2. ASSUME NEW f \in Frontends, Connect(f) PROVE TypeOK'
  <2>1. Conn(f, "backlog") \in Connections
    BY DEF TypeOK, Conn, Connections
  <2>2. lock' \in Holders \union {Free} /\ fe' \in [Frontends -> FrontendSteps]
    BY <1>2 DEF Connect, NoBroker, Unlock, Step, TypeOK, FrontendSteps
  <2>3. peer' \in [Frontends -> Frontends \union {Nobody}]
    BY <1>2 DEF Connect, TypeOK
  <2>4. conns' \in [Frontends -> SUBSET Connections]
    BY <1>2, <2>1 DEF Connect, TypeOK
  <2>5. originator' \in [Frontends -> BOOLEAN]
    BY <1>2 DEF Connect, TypeOK
  <2> QED
    BY <1>2, <2>2, <2>3, <2>4, <2>5 DEF Connect, TypeOK
<1>3. ASSUME NEW f \in Frontends, Fork(f) PROVE TypeOK'
  BY <1>3 DEF Fork, Conn, Step, Main, TypeOK, frontendVars, brokerVars, Holders, Free,
      FrontendSteps, BrokerSteps, Connections
<1>4. ASSUME NEW f \in Frontends, AwaitAck(f) PROVE TypeOK'
  <2>1. conns' \in [Frontends -> SUBSET Connections]
    BY <1>4, Closing DEF AwaitAck, TypeOK
  <2>2. fe' \in [Frontends -> FrontendSteps]
    BY <1>4 DEF AwaitAck, Step, TypeOK, FrontendSteps
  <2> QED
    BY <1>4, <2>1, <2>2 DEF AwaitAck, Unlock, TypeOK
<1>5. ASSUME NEW f \in Frontends, HandshakeFails(f) PROVE TypeOK'
  BY <1>5, Closing DEF HandshakeFails, Step, TypeOK, frontendVars, brokerVars, Holders, Free,
      FrontendSteps, BrokerSteps
<1>6. ASSUME NEW f \in Frontends, RelayEnds(f) PROVE TypeOK'
  BY <1>6, Closing DEF RelayEnds, Step, TypeOK, frontendVars, brokerVars, Holders, Free,
      FrontendSteps, BrokerSteps
<1>7. ASSUME NEW f \in Frontends, Killed(f) PROVE TypeOK'
  BY <1>7, Closing DEF Killed, Step, TypeOK, frontendVars, brokerVars, Holders, Free,
      FrontendSteps, BrokerSteps
<1>8. ASSUME NEW b \in Frontends, BrokerDetaches(b) PROVE TypeOK'
  BY <1>8 DEF BrokerDetaches, Main, TypeOK, frontendVars, brokerVars, Holders, Free,
      FrontendSteps, BrokerSteps
<1>9. ASSUME NEW b \in Frontends, BrokerBinds(b) \/ BrokerListens(b) \/ BrokerRefuses(b)
      PROVE  TypeOK'
  BY <1>9 DEF BrokerBinds, Main, TypeOK, frontendVars, brokerVars, Holders, Free, FrontendSteps,
      BrokerSteps, BrokerListens, BrokerRefuses
<1>10. ASSUME NEW b \in Frontends, BrokerAcks(b) PROVE TypeOK'
  BY <1>10 DEF BrokerAcks, Main, TypeOK, frontendVars, brokerVars, Holders, Free, FrontendSteps,
      BrokerSteps, Connections
<1>11. ASSUME NEW b \in Frontends, Check(b) \/ Arm(b) PROVE TypeOK'
  BY <1>11 DEF Check, Main, TypeOK, frontendVars, brokerVars, Holders, Free, FrontendSteps,
      BrokerSteps, Arm
<1>12. ASSUME NEW b \in Frontends, Poll(b) PROVE TypeOK'
  BY <1>12 DEF Poll, Main, TypeOK, frontendVars, brokerVars, Holders, Free, FrontendSteps,
      BrokerSteps, Connections, Accepted
<1>13. ASSUME NEW b \in Frontends, Attempt(b) PROVE TypeOK'
  BY <1>13 DEF Attempt, LockForShutdown, Take, Main, TypeOK, frontendVars, brokerVars, Holders,
      Free, FrontendSteps, BrokerSteps
<1>14. ASSUME NEW b \in Frontends, Recheck(b) PROVE TypeOK'
  BY <1>14 DEF Recheck, Unlock, Main, TypeOK, frontendVars, brokerVars, Holders, Free,
      FrontendSteps, BrokerSteps, Connections, Accepted
<1>15. ASSUME NEW b \in Frontends, Unlink(b) PROVE TypeOK'
  BY <1>15 DEF Unlink, Main, TypeOK, frontendVars, brokerVars, Holders, Free, FrontendSteps,
      BrokerSteps
<1>16. ASSUME NEW b \in Frontends, Exit(b) PROVE TypeOK'
  BY <1>16 DEF Exit, Ends, Main, TypeOK, frontendVars, brokerVars, Holders, Free, FrontendSteps,
      BrokerSteps, Connections
<1>17. ASSUME NEW b \in Frontends, BrokerCrashes(b) PROVE TypeOK'
  BY <1>17 DEF BrokerCrashes, Ends, Main, TypeOK, frontendVars, brokerVars, Holders, Free,
      FrontendSteps, BrokerSteps, Connections
<1>18. ASSUME NEW b \in Frontends, WaiterFinishes(b) PROVE TypeOK'
  BY <1>18 DEF WaiterFinishes, TypeOK, frontendVars, brokerVars, Holders, Free, FrontendSteps,
      BrokerSteps
<1>19. ASSUME NEW b \in Frontends, WaiterLocks(b) PROVE TypeOK'
  BY <1>19 DEF WaiterLocks, Take, TypeOK, frontendVars, brokerVars, Holders, Free,
      FrontendSteps, BrokerSteps
<1>20. ASSUME NEW b \in Frontends, WaiterUnlocks(b) PROVE TypeOK'
  BY <1>20 DEF WaiterUnlocks, Unlock, TypeOK, frontendVars, brokerVars, Holders, Free,
      FrontendSteps, BrokerSteps
<1>21. ASSUME NEW b \in Frontends, NEW c \in conns[b], Disconnects(b, c) PROVE TypeOK'
  BY <1>21 DEF Disconnects, TypeOK, frontendVars, brokerVars, Holders, Free, FrontendSteps,
      BrokerSteps, Connections
<1>22. ASSUME NEW b \in Frontends, NEW c \in conns[b], Wakes(b, c) PROVE TypeOK'
  BY <1>22 DEF Wakes, TypeOK, frontendVars, brokerVars, Holders, Free, FrontendSteps,
      BrokerSteps, Connections
<1>23. ASSUME NEW b \in Frontends, SessionStarts(b) \/ LastSessionEnds(b) \/ SessionWakes(b)
      PROVE  TypeOK'
  BY <1>23 DEF SessionStarts, TypeOK, frontendVars, brokerVars, Holders, Free, FrontendSteps,
      BrokerSteps, LastSessionEnds, SessionWakes
<1> QED
  BY <1>1, <1>2, <1>3, <1>4, <1>5, <1>6, <1>7, <1>8, <1>9, <1>10, <1>11, <1>12, <1>13, <1>14,
      <1>15, <1>16, <1>17, <1>18, <1>19, <1>20, <1>21, <1>22, <1>23 DEF Next, Admission,
      MainThread, Waiter, Leaves

(* The lock changes hands only between those who asked for it.             *)
LEMMA LockStep ==
    ASSUME AdmissionAssumption, TypeOK, LockHolders, StartsHaveParents, Next
    PROVE  LockHolders'
<1>1. ASSUME NEW f \in Frontends, TakeLock(f) \/ RemoveStale(f) \/ Welcome(f) \/ Retry(f)
      PROVE  LockHolders'
  BY <1>1 DEF TakeLock, Take, Step, TypeOK, frontendVars, brokerVars, LockHolders, Holds,
      StartsHaveParents, Locked, Free, Starting, Serving, RemoveStale, NoBroker, Unlock,
      Welcome, Retry, AttemptsLeft
<1>2. ASSUME NEW f \in Frontends, Connect(f) PROVE LockHolders'
  BY <1>2 DEF Connect, NoBroker, Conn, Step, Unlock, Listening, TypeOK, frontendVars,
      brokerVars, LockHolders, Holds, StartsHaveParents, Locked, Free, Starting, Serving
<1>3. ASSUME NEW f \in Frontends, Fork(f) PROVE LockHolders'
  BY <1>3 DEF Fork, Conn, Step, Main, TypeOK, frontendVars, brokerVars, LockHolders, Holds,
      StartsHaveParents, Locked, Free, Starting, Serving
<1>4. ASSUME NEW f \in Frontends, AwaitAck(f) PROVE LockHolders'
  BY <1>4 DEF AwaitAck, Unlock, Step, TypeOK, frontendVars, brokerVars, LockHolders, Holds,
      StartsHaveParents, Locked, Free, Starting, Serving
<1>5. ASSUME NEW f \in Frontends, HandshakeFails(f) \/ RelayEnds(f) \/ Killed(f)
      PROVE  LockHolders'
  BY <1>5 DEF HandshakeFails, Step, TypeOK, frontendVars, brokerVars, LockHolders, Holds,
      StartsHaveParents, Locked, Free, Starting, Serving, RelayEnds, Killed
<1>6. ASSUME NEW b \in Frontends, BrokerDetaches(b) PROVE LockHolders'
  BY <1>6 DEF BrokerDetaches, Main, TypeOK, frontendVars, brokerVars, LockHolders, Holds,
      StartsHaveParents, Locked, Free, Starting, Serving
<1>7. ASSUME NEW b \in Frontends, BrokerBinds(b) \/ BrokerListens(b) \/ BrokerRefuses(b)
      PROVE  LockHolders'
  BY <1>7 DEF BrokerBinds, Main, TypeOK, frontendVars, brokerVars, LockHolders, Holds,
      StartsHaveParents, Locked, Free, Starting, Serving, BrokerListens, BrokerRefuses
<1>8. ASSUME NEW b \in Frontends, BrokerAcks(b) PROVE LockHolders'
  BY <1>8 DEF BrokerAcks, Main, TypeOK, frontendVars, brokerVars, LockHolders, Holds,
      StartsHaveParents, Locked, Free, Starting, Serving
<1>9. ASSUME NEW b \in Frontends, Poll(b) \/ Check(b) \/ Arm(b) PROVE LockHolders'
  BY <1>9 DEF Poll, Main, TypeOK, frontendVars, brokerVars, LockHolders, Holds,
      StartsHaveParents, Locked, Free, Starting, Serving, Check, Arm
<1>10. ASSUME NEW b \in Frontends, Attempt(b) PROVE LockHolders'
  BY <1>10 DEF Attempt, LockForShutdown, Take, Main, TypeOK, frontendVars, brokerVars,
      LockHolders, Holds, StartsHaveParents, Locked, Free, Starting, Serving
<1>11. ASSUME NEW b \in Frontends, Recheck(b) PROVE LockHolders'
  BY <1>11 DEF Recheck, Unlock, Main, TypeOK, frontendVars, brokerVars, LockHolders, Holds,
      StartsHaveParents, Locked, Free, Starting, Serving
<1>12. ASSUME NEW b \in Frontends, Unlink(b) PROVE LockHolders'
  BY <1>12 DEF Unlink, Main, TypeOK, frontendVars, brokerVars, LockHolders, Holds,
      StartsHaveParents, Locked, Free, Starting, Serving
<1>13. ASSUME NEW b \in Frontends, Exit(b) \/ BrokerCrashes(b) PROVE LockHolders'
  BY <1>13 DEF Exit, Ends, Main, TypeOK, frontendVars, brokerVars, LockHolders, Holds,
      StartsHaveParents, Locked, Free, Starting, Serving, BrokerCrashes
<1>14. ASSUME NEW b \in Frontends, WaiterLocks(b) \/ WaiterUnlocks(b) \/ WaiterFinishes(b)
      PROVE  LockHolders'
  BY <1>14 DEF WaiterLocks, Take, TypeOK, frontendVars, brokerVars, LockHolders, Holds,
      StartsHaveParents, Locked, Free, Starting, Serving, WaiterUnlocks, Unlock, WaiterFinishes
<1>15. ASSUME NEW b \in Frontends, NEW c \in conns[b], Disconnects(b, c) \/ Wakes(b, c)
      PROVE  LockHolders'
  BY <1>15 DEF Disconnects, TypeOK, frontendVars, brokerVars, LockHolders, Holds,
      StartsHaveParents, Locked, Free, Starting, Serving, Wakes
<1>16. ASSUME NEW b \in Frontends, SessionStarts(b) \/ LastSessionEnds(b) \/ SessionWakes(b)
      PROVE  LockHolders'
  BY <1>16 DEF SessionStarts, TypeOK, frontendVars, brokerVars, LockHolders, Holds,
      StartsHaveParents, Locked, Free, Starting, Serving, LastSessionEnds, SessionWakes
<1> QED
  BY <1>1, <1>2, <1>3, <1>4, <1>5, <1>6, <1>7, <1>8, <1>9, <1>10, <1>11, <1>12, <1>13, <1>14,
      <1>15, <1>16 DEF Next, Admission, MainThread, Waiter, Leaves

(* A frontend waits for the broker it forked until that one has started.  *)
LEMMA ParentStep ==
    ASSUME AdmissionAssumption, TypeOK, LockHolders, StartsHaveParents, Next
    PROVE  StartsHaveParents'
<1>1. ASSUME NEW f \in Frontends, TakeLock(f) \/ RemoveStale(f) \/ Welcome(f) \/ Retry(f)
      PROVE  StartsHaveParents'
  BY <1>1 DEF TakeLock, Take, Step, TypeOK, frontendVars, brokerVars, StartsHaveParents,
      Starting, Serving, RemoveStale, NoBroker, Unlock, Welcome, Retry, AttemptsLeft
<1>2. ASSUME NEW f \in Frontends, Connect(f) PROVE StartsHaveParents'
  BY <1>2 DEF Connect, NoBroker, Conn, Step, Unlock, Listening, TypeOK, frontendVars,
      brokerVars, StartsHaveParents, Starting, Serving
<1>3. ASSUME NEW f \in Frontends, Fork(f) PROVE StartsHaveParents'
  BY <1>3 DEF Fork, Conn, Step, Main, TypeOK, frontendVars, brokerVars, StartsHaveParents,
      Starting, Serving
<1>4. ASSUME NEW f \in Frontends, AwaitAck(f) PROVE StartsHaveParents'
  BY <1>4 DEF AwaitAck, Unlock, Step, TypeOK, frontendVars, brokerVars, StartsHaveParents,
      Starting, Serving
<1>5. ASSUME NEW f \in Frontends, HandshakeFails(f) \/ RelayEnds(f) \/ Killed(f)
      PROVE  StartsHaveParents'
  BY <1>5 DEF HandshakeFails, Step, TypeOK, frontendVars, brokerVars, StartsHaveParents,
      Starting, Serving, RelayEnds, Killed
<1>6. ASSUME NEW b \in Frontends, BrokerDetaches(b) PROVE StartsHaveParents'
  BY <1>6 DEF BrokerDetaches, Main, TypeOK, frontendVars, brokerVars, StartsHaveParents,
      Starting, Serving
<1>7. ASSUME NEW b \in Frontends, BrokerBinds(b) \/ BrokerListens(b) \/ BrokerRefuses(b)
      PROVE  StartsHaveParents'
  BY <1>7 DEF BrokerBinds, Main, TypeOK, frontendVars, brokerVars, StartsHaveParents, Starting,
      Serving, BrokerListens, BrokerRefuses
<1>8. ASSUME NEW b \in Frontends, BrokerAcks(b) PROVE StartsHaveParents'
  BY <1>8 DEF BrokerAcks, Main, TypeOK, frontendVars, brokerVars, StartsHaveParents, Starting,
      Serving
<1>9. ASSUME NEW b \in Frontends, Poll(b) \/ Check(b) \/ Arm(b) PROVE StartsHaveParents'
  BY <1>9 DEF Poll, Main, TypeOK, frontendVars, brokerVars, StartsHaveParents, Starting,
      Serving, Check, Arm
<1>10. ASSUME NEW b \in Frontends, Attempt(b) PROVE StartsHaveParents'
  BY <1>10 DEF Attempt, LockForShutdown, Take, Main, TypeOK, frontendVars, brokerVars,
      StartsHaveParents, Starting, Serving
<1>11. ASSUME NEW b \in Frontends, Recheck(b) PROVE StartsHaveParents'
  BY <1>11 DEF Recheck, Unlock, Main, TypeOK, frontendVars, brokerVars, StartsHaveParents,
      Starting, Serving
<1>12. ASSUME NEW b \in Frontends, Unlink(b) PROVE StartsHaveParents'
  BY <1>12 DEF Unlink, Main, TypeOK, frontendVars, brokerVars, StartsHaveParents, Starting,
      Serving
<1>13. ASSUME NEW b \in Frontends, Exit(b) \/ BrokerCrashes(b) PROVE StartsHaveParents'
  BY <1>13 DEF Exit, Ends, Main, TypeOK, frontendVars, brokerVars, StartsHaveParents, Starting,
      Serving, BrokerCrashes
<1>14. ASSUME NEW b \in Frontends, WaiterLocks(b) \/ WaiterUnlocks(b) \/ WaiterFinishes(b)
      PROVE  StartsHaveParents'
  BY <1>14 DEF WaiterLocks, Take, TypeOK, frontendVars, brokerVars, StartsHaveParents, Starting,
      Serving, WaiterUnlocks, Unlock, WaiterFinishes
<1>15. ASSUME NEW b \in Frontends, NEW c \in conns[b], Disconnects(b, c) \/ Wakes(b, c)
      PROVE  StartsHaveParents'
  BY <1>15 DEF Disconnects, TypeOK, frontendVars, brokerVars, StartsHaveParents, Starting,
      Serving, Wakes
<1>16. ASSUME NEW b \in Frontends, SessionStarts(b) \/ LastSessionEnds(b) \/ SessionWakes(b)
      PROVE  StartsHaveParents'
  BY <1>16 DEF SessionStarts, TypeOK, frontendVars, brokerVars, StartsHaveParents, Starting,
      Serving, LastSessionEnds, SessionWakes
<1> QED
  BY <1>1, <1>2, <1>3, <1>4, <1>5, <1>6, <1>7, <1>8, <1>9, <1>10, <1>11, <1>12, <1>13, <1>14,
      <1>15, <1>16 DEF Next, Admission, MainThread, Waiter, Leaves

(* No broker comes into service next to one that starts.                   *)
LEMMA NoneStep ==
    ASSUME AdmissionAssumption, TypeOK, LockHolders, StartsHaveParents, NoneServesAtStart,
           OneBroker, Next
    PROVE  NoneServesAtStart'
<1>1. ASSUME NEW f \in Frontends, TakeLock(f) \/ RemoveStale(f) \/ Welcome(f) \/ Retry(f)
      PROVE  NoneServesAtStart'
  BY <1>1 DEF TakeLock, Take, Step, TypeOK, frontendVars, brokerVars, LockHolders, Holds,
      StartsHaveParents, NoneServesAtStart, AboutToStart, OneBroker, Locked, Starting, Serving,
      Listening, RemoveStale, NoBroker, Unlock, Welcome, Retry, AttemptsLeft
<1>2. ASSUME NEW f \in Frontends, Connect(f) PROVE NoneServesAtStart'
  BY <1>2 DEF Connect, NoBroker, Conn, Step, Unlock, Listening, TypeOK, frontendVars,
      brokerVars, LockHolders, Holds, StartsHaveParents, NoneServesAtStart, AboutToStart,
      OneBroker, Locked, Starting, Serving
<1>3. ASSUME NEW f \in Frontends, Fork(f) PROVE NoneServesAtStart'
  BY <1>3 DEF Fork, Conn, Step, Main, TypeOK, frontendVars, brokerVars, LockHolders, Holds,
      StartsHaveParents, NoneServesAtStart, AboutToStart, OneBroker, Locked, Starting, Serving,
      Listening
<1>4. ASSUME NEW f \in Frontends, AwaitAck(f) PROVE NoneServesAtStart'
  BY <1>4 DEF AwaitAck, Unlock, Step, TypeOK, frontendVars, brokerVars, LockHolders, Holds,
      StartsHaveParents, NoneServesAtStart, AboutToStart, OneBroker, Locked, Starting, Serving,
      Listening
<1>5. ASSUME NEW f \in Frontends, HandshakeFails(f) \/ RelayEnds(f) \/ Killed(f)
      PROVE  NoneServesAtStart'
  BY <1>5 DEF HandshakeFails, Step, TypeOK, frontendVars, brokerVars, LockHolders, Holds,
      StartsHaveParents, NoneServesAtStart, AboutToStart, OneBroker, Locked, Starting, Serving,
      Listening, RelayEnds, Killed
<1>6. ASSUME NEW b \in Frontends, BrokerDetaches(b) PROVE NoneServesAtStart'
  BY <1>6 DEF BrokerDetaches, Main, TypeOK, frontendVars, brokerVars, LockHolders, Holds,
      StartsHaveParents, NoneServesAtStart, AboutToStart, OneBroker, Locked, Starting, Serving,
      Listening
<1>7. ASSUME NEW b \in Frontends, BrokerBinds(b) \/ BrokerListens(b) \/ BrokerRefuses(b)
      PROVE  NoneServesAtStart'
  BY <1>7 DEF BrokerBinds, Main, TypeOK, frontendVars, brokerVars, LockHolders, Holds,
      StartsHaveParents, NoneServesAtStart, AboutToStart, OneBroker, Locked, Starting, Serving,
      Listening, BrokerListens, BrokerRefuses
<1>8. ASSUME NEW b \in Frontends, BrokerAcks(b) PROVE NoneServesAtStart'
  BY <1>8 DEF BrokerAcks, Main, TypeOK, frontendVars, brokerVars, LockHolders, Holds,
      StartsHaveParents, NoneServesAtStart, AboutToStart, OneBroker, Locked, Starting, Serving,
      Listening
<1>9. ASSUME NEW b \in Frontends, Poll(b) \/ Check(b) \/ Arm(b) PROVE NoneServesAtStart'
  BY <1>9 DEF Poll, Main, TypeOK, frontendVars, brokerVars, LockHolders, Holds,
      StartsHaveParents, NoneServesAtStart, AboutToStart, OneBroker, Locked, Starting, Serving,
      Listening, Check, Arm
<1>10. ASSUME NEW b \in Frontends, Attempt(b) PROVE NoneServesAtStart'
  BY <1>10 DEF Attempt, LockForShutdown, Take, Main, TypeOK, frontendVars, brokerVars,
      LockHolders, Holds, StartsHaveParents, NoneServesAtStart, AboutToStart, OneBroker, Locked,
      Starting, Serving, Listening
<1>11. ASSUME NEW b \in Frontends, Recheck(b) PROVE NoneServesAtStart'
  BY <1>11 DEF Recheck, Unlock, Main, TypeOK, frontendVars, brokerVars, LockHolders, Holds,
      StartsHaveParents, NoneServesAtStart, AboutToStart, OneBroker, Locked, Starting, Serving,
      Listening
<1>12. ASSUME NEW b \in Frontends, Unlink(b) PROVE NoneServesAtStart'
  BY <1>12 DEF Unlink, Main, TypeOK, frontendVars, brokerVars, LockHolders, Holds,
      StartsHaveParents, NoneServesAtStart, AboutToStart, OneBroker, Locked, Starting, Serving,
      Listening
<1>13. ASSUME NEW b \in Frontends, Exit(b) \/ BrokerCrashes(b) PROVE NoneServesAtStart'
  BY <1>13 DEF Exit, Ends, Main, TypeOK, frontendVars, brokerVars, LockHolders, Holds,
      StartsHaveParents, NoneServesAtStart, AboutToStart, OneBroker, Locked, Starting, Serving,
      Listening, BrokerCrashes
<1>14. ASSUME NEW b \in Frontends, WaiterLocks(b) \/ WaiterUnlocks(b) \/ WaiterFinishes(b)
      PROVE  NoneServesAtStart'
  BY <1>14 DEF WaiterLocks, Take, TypeOK, frontendVars, brokerVars, LockHolders, Holds,
      StartsHaveParents, NoneServesAtStart, AboutToStart, OneBroker, Locked, Starting, Serving,
      Listening, WaiterUnlocks, Unlock, WaiterFinishes
<1>15. ASSUME NEW b \in Frontends, NEW c \in conns[b], Disconnects(b, c) \/ Wakes(b, c)
      PROVE  NoneServesAtStart'
  BY <1>15 DEF Disconnects, TypeOK, frontendVars, brokerVars, LockHolders, Holds,
      StartsHaveParents, NoneServesAtStart, AboutToStart, OneBroker, Locked, Starting, Serving,
      Listening, Wakes
<1>16. ASSUME NEW b \in Frontends, SessionStarts(b) \/ LastSessionEnds(b) \/ SessionWakes(b)
      PROVE  NoneServesAtStart'
  BY <1>16 DEF SessionStarts, TypeOK, frontendVars, brokerVars, LockHolders, Holds,
      StartsHaveParents, NoneServesAtStart, AboutToStart, OneBroker, Locked, Starting, Serving,
      Listening, LastSessionEnds, SessionWakes
<1> QED
  BY <1>1, <1>2, <1>3, <1>4, <1>5, <1>6, <1>7, <1>8, <1>9, <1>10, <1>11, <1>12, <1>13, <1>14,
      <1>15, <1>16 DEF Next, Admission, MainThread, Waiter, Leaves

(* The path is left alone while a broker is acknowledged.                  *)
LEMMA SocketStep ==
    ASSUME AdmissionAssumption, "abandoned" \notin Faults, Single, Next
    PROVE  SocketOfStart'
<1>1. ASSUME NEW f \in Frontends, TakeLock(f) \/ RemoveStale(f) \/ Welcome(f) \/ Retry(f)
      PROVE  SocketOfStart'
  BY <1>1 DEF TakeLock, Take, Step, TypeOK, frontendVars, brokerVars, Single, Safe, LockHolders,
      Holds, StartsHaveParents, SocketOfStart, Locked, Starting, RemoveStale, NoBroker, Unlock,
      Welcome, Retry, AttemptsLeft
<1>2. ASSUME NEW f \in Frontends, Connect(f) PROVE SocketOfStart'
  BY <1>2 DEF Connect, NoBroker, Conn, Step, Unlock, Listening, TypeOK, frontendVars,
      brokerVars, Single, Safe, LockHolders, Holds, StartsHaveParents, SocketOfStart, Locked,
      Starting
<1>3. ASSUME NEW f \in Frontends, Fork(f) PROVE SocketOfStart'
  BY <1>3 DEF Fork, Conn, Step, Main, TypeOK, frontendVars, brokerVars, Single, Safe,
      LockHolders, Holds, StartsHaveParents, SocketOfStart, Locked, Starting
<1>4. ASSUME NEW f \in Frontends, AwaitAck(f) PROVE SocketOfStart'
  BY <1>4 DEF AwaitAck, Unlock, Step, TypeOK, frontendVars, brokerVars, Single, Safe,
      LockHolders, Holds, StartsHaveParents, SocketOfStart, Locked, Starting
<1>5. ASSUME NEW f \in Frontends, HandshakeFails(f) \/ RelayEnds(f) \/ Killed(f)
      PROVE  SocketOfStart'
  BY <1>5 DEF HandshakeFails, Step, TypeOK, frontendVars, brokerVars, Single, Safe, LockHolders,
      Holds, StartsHaveParents, SocketOfStart, Locked, Starting, RelayEnds, Killed
<1>6. ASSUME NEW b \in Frontends, BrokerDetaches(b) PROVE SocketOfStart'
  BY <1>6 DEF BrokerDetaches, Main, TypeOK, frontendVars, brokerVars, Single, Safe, LockHolders,
      Holds, StartsHaveParents, SocketOfStart, Locked, Starting
<1>7. ASSUME NEW b \in Frontends, BrokerBinds(b) \/ BrokerListens(b) \/ BrokerRefuses(b)
      PROVE  SocketOfStart'
  BY <1>7 DEF BrokerBinds, Main, TypeOK, frontendVars, brokerVars, Single, Safe, LockHolders,
      Holds, StartsHaveParents, SocketOfStart, Locked, Starting, BrokerListens, BrokerRefuses
<1>8. ASSUME NEW b \in Frontends, BrokerAcks(b) PROVE SocketOfStart'
  BY <1>8 DEF BrokerAcks, Main, TypeOK, frontendVars, brokerVars, Single, Safe, LockHolders,
      Holds, StartsHaveParents, SocketOfStart, Locked, Starting
<1>9. ASSUME NEW b \in Frontends, Poll(b) \/ Check(b) \/ Arm(b) PROVE SocketOfStart'
  BY <1>9 DEF Poll, Main, TypeOK, frontendVars, brokerVars, Single, Safe, LockHolders, Holds,
      StartsHaveParents, SocketOfStart, Locked, Starting, Check, Arm
<1>10. ASSUME NEW b \in Frontends, Attempt(b) PROVE SocketOfStart'
  BY <1>10 DEF Attempt, LockForShutdown, Take, Main, TypeOK, frontendVars, brokerVars, Single,
      Safe, LockHolders, Holds, StartsHaveParents, SocketOfStart, Locked, Starting
<1>11. ASSUME NEW b \in Frontends, Recheck(b) PROVE SocketOfStart'
  BY <1>11 DEF Recheck, Unlock, Main, TypeOK, frontendVars, brokerVars, Single, Safe,
      LockHolders, Holds, StartsHaveParents, SocketOfStart, Locked, Starting
<1>12. ASSUME NEW b \in Frontends, Unlink(b) PROVE SocketOfStart'
  BY <1>12 DEF Unlink, Main, TypeOK, frontendVars, brokerVars, Single, Safe, LockHolders, Holds,
      StartsHaveParents, SocketOfStart, Locked, Starting
<1>13. ASSUME NEW b \in Frontends, Exit(b) \/ BrokerCrashes(b) PROVE SocketOfStart'
  BY <1>13 DEF Exit, Ends, Main, TypeOK, frontendVars, brokerVars, Single, Safe, LockHolders,
      Holds, StartsHaveParents, SocketOfStart, Locked, Starting, BrokerCrashes
<1>14. ASSUME NEW b \in Frontends, WaiterLocks(b) \/ WaiterUnlocks(b) \/ WaiterFinishes(b)
      PROVE  SocketOfStart'
  BY <1>14 DEF WaiterLocks, Take, TypeOK, frontendVars, brokerVars, Single, Safe, LockHolders,
      Holds, StartsHaveParents, SocketOfStart, Locked, Starting, WaiterUnlocks, Unlock,
      WaiterFinishes
<1>15. ASSUME NEW b \in Frontends, NEW c \in conns[b], Disconnects(b, c) \/ Wakes(b, c)
      PROVE  SocketOfStart'
  BY <1>15 DEF Disconnects, TypeOK, frontendVars, brokerVars, Single, Safe, LockHolders, Holds,
      StartsHaveParents, SocketOfStart, Locked, Starting, Wakes
<1>16. ASSUME NEW b \in Frontends, SessionStarts(b) \/ LastSessionEnds(b) \/ SessionWakes(b)
      PROVE  SocketOfStart'
  BY <1>16 DEF SessionStarts, TypeOK, frontendVars, brokerVars, Single, Safe, LockHolders,
      Holds, StartsHaveParents, SocketOfStart, Locked, Starting, LastSessionEnds, SessionWakes
<1> QED
  BY <1>1, <1>2, <1>3, <1>4, <1>5, <1>6, <1>7, <1>8, <1>9, <1>10, <1>11, <1>12, <1>13, <1>14,
      <1>15, <1>16 DEF Next, Admission, MainThread, Waiter, Leaves

(* One broker serves, at the path.                                         *)
LEMMA OneStep ==
    ASSUME AdmissionAssumption, "abandoned" \notin Faults, Single, Next
    PROVE  OneBroker'
<1>1. ASSUME NEW f \in Frontends, TakeLock(f) \/ RemoveStale(f) \/ Welcome(f) \/ Retry(f)
      PROVE  OneBroker'
  BY <1>1 DEF TakeLock, Take, Step, TypeOK, frontendVars, brokerVars, Single, Safe, LockHolders,
      Holds, StartsHaveParents, NoneServesAtStart, AboutToStart, SocketOfStart, OneBroker,
      Locked, Starting, Serving, RemoveStale, NoBroker, Unlock, Welcome, Retry, AttemptsLeft
<1>2. ASSUME NEW f \in Frontends, Connect(f) PROVE OneBroker'
  BY <1>2 DEF Connect, NoBroker, Conn, Step, Unlock, Listening, TypeOK, frontendVars,
      brokerVars, Single, Safe, LockHolders, Holds, StartsHaveParents, NoneServesAtStart,
      AboutToStart, SocketOfStart, OneBroker, Locked, Starting, Serving
<1>3. ASSUME NEW f \in Frontends, Fork(f) PROVE OneBroker'
  BY <1>3 DEF Fork, Conn, Step, Main, TypeOK, frontendVars, brokerVars, Single, Safe,
      LockHolders, Holds, StartsHaveParents, NoneServesAtStart, AboutToStart, SocketOfStart,
      OneBroker, Locked, Starting, Serving
<1>4. ASSUME NEW f \in Frontends, AwaitAck(f) PROVE OneBroker'
  BY <1>4 DEF AwaitAck, Unlock, Step, TypeOK, frontendVars, brokerVars, Single, Safe,
      LockHolders, Holds, StartsHaveParents, NoneServesAtStart, AboutToStart, SocketOfStart,
      OneBroker, Locked, Starting, Serving
<1>5. ASSUME NEW f \in Frontends, HandshakeFails(f) \/ RelayEnds(f) \/ Killed(f) PROVE OneBroker'
  BY <1>5 DEF HandshakeFails, Step, TypeOK, frontendVars, brokerVars, Single, Safe, LockHolders,
      Holds, StartsHaveParents, NoneServesAtStart, AboutToStart, SocketOfStart, OneBroker,
      Locked, Starting, Serving, RelayEnds, Killed
<1>6. ASSUME NEW b \in Frontends, BrokerDetaches(b) PROVE OneBroker'
  BY <1>6 DEF BrokerDetaches, Main, TypeOK, frontendVars, brokerVars, Single, Safe, LockHolders,
      Holds, StartsHaveParents, NoneServesAtStart, AboutToStart, SocketOfStart, OneBroker,
      Locked, Starting, Serving
<1>7. ASSUME NEW b \in Frontends, BrokerBinds(b) \/ BrokerListens(b) \/ BrokerRefuses(b)
      PROVE  OneBroker'
  BY <1>7 DEF BrokerBinds, Main, TypeOK, frontendVars, brokerVars, Single, Safe, LockHolders,
      Holds, StartsHaveParents, NoneServesAtStart, AboutToStart, SocketOfStart, OneBroker,
      Locked, Starting, Serving, BrokerListens, BrokerRefuses
<1>8. ASSUME NEW b \in Frontends, BrokerAcks(b) PROVE OneBroker'
  BY <1>8 DEF BrokerAcks, Main, TypeOK, frontendVars, brokerVars, Single, Safe, LockHolders,
      Holds, StartsHaveParents, NoneServesAtStart, AboutToStart, SocketOfStart, OneBroker,
      Locked, Starting, Serving
<1>9. ASSUME NEW b \in Frontends, Poll(b) \/ Check(b) \/ Arm(b) PROVE OneBroker'
  BY <1>9 DEF Poll, Main, TypeOK, frontendVars, brokerVars, Single, Safe, LockHolders, Holds,
      StartsHaveParents, NoneServesAtStart, AboutToStart, SocketOfStart, OneBroker, Locked,
      Starting, Serving, Check, Arm
<1>10. ASSUME NEW b \in Frontends, Attempt(b) PROVE OneBroker'
  BY <1>10 DEF Attempt, LockForShutdown, Take, Main, TypeOK, frontendVars, brokerVars, Single,
      Safe, LockHolders, Holds, StartsHaveParents, NoneServesAtStart, AboutToStart,
      SocketOfStart, OneBroker, Locked, Starting, Serving
<1>11. ASSUME NEW b \in Frontends, Recheck(b) PROVE OneBroker'
  BY <1>11 DEF Recheck, Unlock, Main, TypeOK, frontendVars, brokerVars, Single, Safe,
      LockHolders, Holds, StartsHaveParents, NoneServesAtStart, AboutToStart, SocketOfStart,
      OneBroker, Locked, Starting, Serving
<1>12. ASSUME NEW b \in Frontends, Unlink(b) PROVE OneBroker'
  BY <1>12 DEF Unlink, Main, TypeOK, frontendVars, brokerVars, Single, Safe, LockHolders, Holds,
      StartsHaveParents, NoneServesAtStart, AboutToStart, SocketOfStart, OneBroker, Locked,
      Starting, Serving
<1>13. ASSUME NEW b \in Frontends, Exit(b) \/ BrokerCrashes(b) PROVE OneBroker'
  BY <1>13 DEF Exit, Ends, Main, TypeOK, frontendVars, brokerVars, Single, Safe, LockHolders,
      Holds, StartsHaveParents, NoneServesAtStart, AboutToStart, SocketOfStart, OneBroker,
      Locked, Starting, Serving, BrokerCrashes
<1>14. ASSUME NEW b \in Frontends, WaiterLocks(b) \/ WaiterUnlocks(b) \/ WaiterFinishes(b)
      PROVE  OneBroker'
  BY <1>14 DEF WaiterLocks, Take, TypeOK, frontendVars, brokerVars, Single, Safe, LockHolders,
      Holds, StartsHaveParents, NoneServesAtStart, AboutToStart, SocketOfStart, OneBroker,
      Locked, Starting, Serving, WaiterUnlocks, Unlock, WaiterFinishes
<1>15. ASSUME NEW b \in Frontends, NEW c \in conns[b], Disconnects(b, c) \/ Wakes(b, c)
      PROVE  OneBroker'
  BY <1>15 DEF Disconnects, TypeOK, frontendVars, brokerVars, Single, Safe, LockHolders, Holds,
      StartsHaveParents, NoneServesAtStart, AboutToStart, SocketOfStart, OneBroker, Locked,
      Starting, Serving, Wakes
<1>16. ASSUME NEW b \in Frontends, SessionStarts(b) \/ LastSessionEnds(b) \/ SessionWakes(b)
      PROVE  OneBroker'
  BY <1>16 DEF SessionStarts, TypeOK, frontendVars, brokerVars, Single, Safe, LockHolders,
      Holds, StartsHaveParents, NoneServesAtStart, AboutToStart, SocketOfStart, OneBroker,
      Locked, Starting, Serving, LastSessionEnds, SessionWakes
<1> QED
  BY <1>1, <1>2, <1>3, <1>4, <1>5, <1>6, <1>7, <1>8, <1>9, <1>10, <1>11, <1>12, <1>13, <1>14,
      <1>15, <1>16 DEF Next, Admission, MainThread, Waiter, Leaves

(* The first connection stays until the broker serves it.                  *)
LEMMA ConnectedStep ==
    ASSUME AdmissionAssumption, TypeOK, StartsHaveParents, StartsAreConnected, Next
    PROVE  StartsAreConnected'
<1>1. ASSUME NEW f \in Frontends, TakeLock(f) \/ RemoveStale(f) \/ Welcome(f) \/ Retry(f)
      PROVE  StartsAreConnected'
  BY <1>1 DEF TakeLock, Take, Step, TypeOK, frontendVars, brokerVars, StartsAreConnected,
      Starting, Serving, RemoveStale, NoBroker, Unlock, Welcome, Retry, AttemptsLeft
<1>2. ASSUME NEW f \in Frontends, Connect(f) PROVE StartsAreConnected'
  BY <1>2 DEF Connect, NoBroker, Conn, Step, Unlock, Listening, TypeOK, frontendVars,
      brokerVars, StartsAreConnected, Starting, Serving
<1>3. ASSUME NEW f \in Frontends, Fork(f) PROVE StartsAreConnected'
  BY <1>3 DEF Fork, Conn, Step, Main, TypeOK, frontendVars, brokerVars, StartsAreConnected,
      Starting, Serving
<1>4. ASSUME NEW f \in Frontends, AwaitAck(f) PROVE StartsAreConnected'
  <2>1. MarksKept
    BY <1>4, ClosingKeepsMarks
  <2>2. \A g \in Frontends : fe'[g] = "await_ack" => fe[g] = "await_ack"
    BY <1>4 DEF AwaitAck, Step, TypeOK
  <2> QED
    BY <1>4, <2>1, <2>2, MarksCarry DEF AwaitAck
<1>5. ASSUME NEW f \in Frontends, HandshakeFails(f) PROVE StartsAreConnected'
  <2>1. MarksKept
    BY <1>5, ClosingKeepsMarks
  <2>2. \A g \in Frontends : fe'[g] = "await_ack" => fe[g] = "await_ack"
    BY <1>5 DEF HandshakeFails, Step, TypeOK
  <2> QED
    BY <1>5, <2>1, <2>2, MarksCarry DEF HandshakeFails
<1>6. ASSUME NEW f \in Frontends, RelayEnds(f) PROVE StartsAreConnected'
  <2>1. MarksKept
    BY <1>6, ClosingKeepsMarks
  <2>2. \A g \in Frontends : fe'[g] = "await_ack" => fe[g] = "await_ack"
    BY <1>6 DEF RelayEnds, Step, TypeOK
  <2> QED
    BY <1>6, <2>1, <2>2, MarksCarry DEF RelayEnds
<1>7. ASSUME NEW f \in Frontends, Killed(f) PROVE StartsAreConnected'
  <2>1. MarksKept
    BY <1>7, ClosingKeepsMarks
  <2>2. \A g \in Frontends : fe'[g] = "await_ack" => fe[g] = "await_ack"
    BY <1>7 DEF Killed, Step, TypeOK
  <2> QED
    BY <1>7, <2>1, <2>2, MarksCarry DEF Killed
<1>8. ASSUME NEW b \in Frontends, BrokerDetaches(b) PROVE StartsAreConnected'
  BY <1>8 DEF BrokerDetaches, Main, TypeOK, frontendVars, brokerVars, StartsAreConnected,
      Starting, Serving
<1>9. ASSUME NEW b \in Frontends, BrokerBinds(b) \/ BrokerListens(b) \/ BrokerRefuses(b)
      PROVE  StartsAreConnected'
  BY <1>9 DEF BrokerBinds, Main, TypeOK, frontendVars, brokerVars, StartsAreConnected, Starting,
      Serving, BrokerListens, BrokerRefuses
<1>10. ASSUME NEW b \in Frontends, BrokerAcks(b) PROVE StartsAreConnected'
  BY <1>10 DEF BrokerAcks, Main, TypeOK, frontendVars, brokerVars, StartsAreConnected, Starting,
      Serving
<1>11. ASSUME NEW b \in Frontends, Poll(b) \/ Check(b) \/ Arm(b) PROVE StartsAreConnected'
  BY <1>11 DEF Poll, Main, TypeOK, frontendVars, brokerVars, StartsAreConnected, Starting,
      Serving, Check, Arm
<1>12. ASSUME NEW b \in Frontends, Attempt(b) PROVE StartsAreConnected'
  BY <1>12 DEF Attempt, LockForShutdown, Take, Main, TypeOK, frontendVars, brokerVars,
      StartsAreConnected, Starting, Serving
<1>13. ASSUME NEW b \in Frontends, Recheck(b) PROVE StartsAreConnected'
  BY <1>13 DEF Recheck, Unlock, Main, TypeOK, frontendVars, brokerVars, StartsAreConnected,
      Starting, Serving
<1>14. ASSUME NEW b \in Frontends, Unlink(b) PROVE StartsAreConnected'
  BY <1>14 DEF Unlink, Main, TypeOK, frontendVars, brokerVars, StartsAreConnected, Starting,
      Serving
<1>15. ASSUME NEW b \in Frontends, Exit(b) \/ BrokerCrashes(b) PROVE StartsAreConnected'
  BY <1>15 DEF Exit, Ends, Main, TypeOK, frontendVars, brokerVars, StartsAreConnected, Starting,
      Serving, BrokerCrashes
<1>16. ASSUME NEW b \in Frontends, WaiterLocks(b) \/ WaiterUnlocks(b) \/ WaiterFinishes(b)
      PROVE  StartsAreConnected'
  BY <1>16 DEF WaiterLocks, Take, TypeOK, frontendVars, brokerVars, StartsAreConnected,
      Starting, Serving, WaiterUnlocks, Unlock, WaiterFinishes
<1>17. ASSUME NEW b \in Frontends, NEW c \in conns[b], Disconnects(b, c) \/ Wakes(b, c)
      PROVE  StartsAreConnected'
  BY <1>17 DEF Disconnects, TypeOK, frontendVars, brokerVars, StartsAreConnected, Starting,
      Serving, Wakes
<1>18. ASSUME NEW b \in Frontends, SessionStarts(b) \/ LastSessionEnds(b) \/ SessionWakes(b)
      PROVE  StartsAreConnected'
  BY <1>18 DEF SessionStarts, TypeOK, frontendVars, brokerVars, StartsAreConnected, Starting,
      Serving, LastSessionEnds, SessionWakes
<1> QED
  BY <1>1, <1>2, <1>3, <1>4, <1>5, <1>6, <1>7, <1>8, <1>9, <1>10, <1>11, <1>12, <1>13, <1>14,
      <1>15, <1>16, <1>17, <1>18 DEF Next, Admission, MainThread, Waiter, Leaves

(* Nobody comes while the broker that leaves holds the lock.               *)
LEMMA NobodyStep ==
    ASSUME AdmissionAssumption, TypeOK, LockHolders, NobodyLeftBehind, Next
    PROVE  NobodyLeftBehind'
<1>1. ASSUME NEW f \in Frontends, TakeLock(f) \/ RemoveStale(f) \/ Welcome(f) \/ Retry(f)
      PROVE  NobodyLeftBehind'
  BY <1>1 DEF TakeLock, Take, Step, TypeOK, frontendVars, brokerVars, LockHolders, Holds,
      NobodyLeftBehind, Locked, Serving, RemoveStale, NoBroker, Unlock, Welcome, Retry,
      AttemptsLeft
<1>2. ASSUME NEW f \in Frontends, Connect(f) PROVE NobodyLeftBehind'
  BY <1>2 DEF Connect, NoBroker, Conn, Step, Unlock, Listening, TypeOK, frontendVars,
      brokerVars, LockHolders, Holds, NobodyLeftBehind, Locked, Serving
<1>3. ASSUME NEW f \in Frontends, Fork(f) PROVE NobodyLeftBehind'
  BY <1>3 DEF Fork, Conn, Step, Main, TypeOK, frontendVars, brokerVars, LockHolders, Holds,
      NobodyLeftBehind, Locked, Serving
<1>4. ASSUME NEW f \in Frontends, AwaitAck(f) PROVE NobodyLeftBehind'
  <2>1. MarksKept
    BY <1>4, ClosingKeepsMarks
  <2> QED
    BY <1>4, <2>1 DEF AwaitAck, MarksKept, Step, TypeOK, NobodyLeftBehind
<1>5. ASSUME NEW f \in Frontends, HandshakeFails(f) PROVE NobodyLeftBehind'
  <2>1. MarksKept
    BY <1>5, ClosingKeepsMarks
  <2> QED
    BY <1>5, <2>1 DEF HandshakeFails, MarksKept, Step, TypeOK, NobodyLeftBehind
<1>6. ASSUME NEW f \in Frontends, RelayEnds(f) PROVE NobodyLeftBehind'
  <2>1. MarksKept
    BY <1>6, ClosingKeepsMarks
  <2> QED
    BY <1>6, <2>1 DEF RelayEnds, MarksKept, Step, TypeOK, NobodyLeftBehind
<1>7. ASSUME NEW f \in Frontends, Killed(f) PROVE NobodyLeftBehind'
  <2>1. MarksKept
    BY <1>7, ClosingKeepsMarks
  <2> QED
    BY <1>7, <2>1 DEF Killed, MarksKept, Step, TypeOK, NobodyLeftBehind
<1>8. ASSUME NEW b \in Frontends, BrokerDetaches(b) PROVE NobodyLeftBehind'
  BY <1>8 DEF BrokerDetaches, Main, TypeOK, frontendVars, brokerVars, LockHolders, Holds,
      NobodyLeftBehind, Locked, Serving
<1>9. ASSUME NEW b \in Frontends, BrokerBinds(b) \/ BrokerListens(b) \/ BrokerRefuses(b)
      PROVE  NobodyLeftBehind'
  BY <1>9 DEF BrokerBinds, Main, TypeOK, frontendVars, brokerVars, LockHolders, Holds,
      NobodyLeftBehind, Locked, Serving, BrokerListens, BrokerRefuses
<1>10. ASSUME NEW b \in Frontends, BrokerAcks(b) PROVE NobodyLeftBehind'
  BY <1>10 DEF BrokerAcks, Main, TypeOK, frontendVars, brokerVars, LockHolders, Holds,
      NobodyLeftBehind, Locked, Serving
<1>11. ASSUME NEW b \in Frontends, Poll(b) \/ Check(b) \/ Arm(b) PROVE NobodyLeftBehind'
  BY <1>11 DEF Poll, Main, TypeOK, frontendVars, brokerVars, LockHolders, Holds,
      NobodyLeftBehind, Locked, Serving, Accepted, IdleAt, Served, Backlog, Check, Arm
<1>12. ASSUME NEW b \in Frontends, Attempt(b) PROVE NobodyLeftBehind'
  BY <1>12 DEF Attempt, LockForShutdown, Take, Main, TypeOK, frontendVars, brokerVars,
      LockHolders, Holds, NobodyLeftBehind, Locked, Serving
<1>13. ASSUME NEW b \in Frontends, Recheck(b) PROVE NobodyLeftBehind'
  <2>1. \A x \in Frontends \ {b} : br'[x] = br[x] /\ conns'[x] = conns[x]
    BY <1>13 DEF Recheck, Main, TypeOK
  <2>2. br'[b] = "unlink" => Backlog(b) = {} /\ IdleAt(b)
    BY <1>13 DEF Recheck, Main, TypeOK
  <2>3. br'[b] = "unlink" \/ br'[b] = "poll"
    BY <1>13 DEF Recheck, Main, TypeOK
  <2>4. conns'[b] = Accepted(b) /\ sessions' = sessions
    BY <1>13 DEF Recheck, TypeOK
  <2> QED
    BY <2>1, <2>2, <2>3, <2>4, Accepting DEF NobodyLeftBehind, IdleAt
<1>14. ASSUME NEW b \in Frontends, Unlink(b) PROVE NobodyLeftBehind'
  BY <1>14 DEF Unlink, Main, TypeOK, frontendVars, brokerVars, LockHolders, Holds,
      NobodyLeftBehind, Locked, Serving
<1>15. ASSUME NEW b \in Frontends, Exit(b) \/ BrokerCrashes(b) PROVE NobodyLeftBehind'
  BY <1>15 DEF Exit, Ends, Main, TypeOK, frontendVars, brokerVars, LockHolders, Holds,
      NobodyLeftBehind, Locked, Serving, BrokerCrashes
<1>16. ASSUME NEW b \in Frontends, WaiterLocks(b) \/ WaiterUnlocks(b) \/ WaiterFinishes(b)
      PROVE  NobodyLeftBehind'
  BY <1>16 DEF WaiterLocks, Take, TypeOK, frontendVars, brokerVars, LockHolders, Holds,
      NobodyLeftBehind, Locked, Serving, WaiterUnlocks, Unlock, WaiterFinishes
<1>17. ASSUME NEW b \in Frontends, NEW c \in conns[b], Disconnects(b, c) \/ Wakes(b, c)
      PROVE  NobodyLeftBehind'
  BY <1>17 DEF Disconnects, TypeOK, frontendVars, brokerVars, LockHolders, Holds,
      NobodyLeftBehind, Locked, Serving, Wakes
<1>18. ASSUME NEW b \in Frontends, SessionStarts(b) \/ LastSessionEnds(b) \/ SessionWakes(b)
      PROVE  NobodyLeftBehind'
  BY <1>18 DEF SessionStarts, TypeOK, frontendVars, brokerVars, LockHolders, Holds,
      NobodyLeftBehind, Locked, Serving, Served, LastSessionEnds, SessionWakes
<1> QED
  BY <1>1, <1>2, <1>3, <1>4, <1>5, <1>6, <1>7, <1>8, <1>9, <1>10, <1>11, <1>12, <1>13, <1>14,
      <1>15, <1>16, <1>17, <1>18 DEF Next, Admission, MainThread, Waiter, Leaves

(* Whatever makes a broker idle leaves a wake on its way.                  *)
LEMMA WokenStep ==
    ASSUME AdmissionAssumption, TypeOK, StartsHaveParents, StartsAreConnected,
           IdleBrokerIsWoken, Next
    PROVE  IdleBrokerIsWoken'
<1>1. ASSUME NEW f \in Frontends, TakeLock(f) \/ RemoveStale(f) \/ Welcome(f) \/ Retry(f)
      PROVE  IdleBrokerIsWoken'
  BY <1>1 DEF TakeLock, Take, Step, TypeOK, frontendVars, brokerVars, IdleBrokerIsWoken, IdleAt,
      Served, Serving, RemoveStale, NoBroker, Unlock, Welcome, Retry, AttemptsLeft
<1>2. ASSUME NEW f \in Frontends, Connect(f) PROVE IdleBrokerIsWoken'
  BY <1>2 DEF Connect, NoBroker, Conn, Step, Unlock, Listening, TypeOK, frontendVars,
      brokerVars, IdleBrokerIsWoken, IdleAt, Served, Serving
<1>3. ASSUME NEW f \in Frontends, Fork(f) PROVE IdleBrokerIsWoken'
  BY <1>3 DEF Fork, Conn, Step, Main, TypeOK, frontendVars, brokerVars, IdleBrokerIsWoken,
      IdleAt, Served, Serving
<1>4. ASSUME NEW f \in Frontends, AwaitAck(f) PROVE IdleBrokerIsWoken'
  <2>1. MarksKept
    BY <1>4, ClosingKeepsMarks
  <2> QED
    BY <1>4, <2>1, MarksCarry DEF AwaitAck
<1>5. ASSUME NEW f \in Frontends, HandshakeFails(f) PROVE IdleBrokerIsWoken'
  <2>1. MarksKept
    BY <1>5, ClosingKeepsMarks
  <2> QED
    BY <1>5, <2>1, MarksCarry DEF HandshakeFails
<1>6. ASSUME NEW f \in Frontends, RelayEnds(f) PROVE IdleBrokerIsWoken'
  <2>1. MarksKept
    BY <1>6, ClosingKeepsMarks
  <2> QED
    BY <1>6, <2>1, MarksCarry DEF RelayEnds
<1>7. ASSUME NEW f \in Frontends, Killed(f) PROVE IdleBrokerIsWoken'
  <2>1. MarksKept
    BY <1>7, ClosingKeepsMarks
  <2> QED
    BY <1>7, <2>1, MarksCarry DEF Killed
<1>8. ASSUME NEW b \in Frontends, BrokerDetaches(b) PROVE IdleBrokerIsWoken'
  BY <1>8 DEF BrokerDetaches, Main, TypeOK, frontendVars, brokerVars, IdleBrokerIsWoken, IdleAt,
      Served, Serving
<1>9. ASSUME NEW b \in Frontends, BrokerBinds(b) \/ BrokerListens(b) \/ BrokerRefuses(b)
      PROVE  IdleBrokerIsWoken'
  BY <1>9 DEF BrokerBinds, Main, TypeOK, frontendVars, brokerVars, IdleBrokerIsWoken, IdleAt,
      Served, Serving, BrokerListens, BrokerRefuses
<1>10. ASSUME NEW b \in Frontends, BrokerAcks(b) PROVE IdleBrokerIsWoken'
  <2>1. CASE fe[b] = "await_ack"
    <3>1. PICK c \in conns[b] : c.from = b
      BY <1>10, <2>1 DEF BrokerAcks, StartsAreConnected, Starting
    <3>2. [c EXCEPT !.state = "served"] \in conns'[b]
      BY <1>10, <2>1, <3>1 DEF BrokerAcks, TypeOK
    <3>3. [c EXCEPT !.state = "served"].state = "served"
      BY <3>1 DEF TypeOK, Connections
    <3>4. ~IdleAt(b)'
      BY <3>2, <3>3 DEF IdleAt, Served
    <3>5. \A x \in Frontends \ {b} : br'[x] = br[x] /\ conns'[x] = conns[x]
      BY <1>10, <2>1 DEF BrokerAcks, Main, TypeOK
    <3> QED
      BY <1>10, <3>4, <3>5 DEF BrokerAcks, brokerVars, IdleBrokerIsWoken, IdleAt, Served
  <2>2. CASE fe[b] # "await_ack"
    BY <1>10, <2>2 DEF BrokerAcks, Main, TypeOK, IdleBrokerIsWoken, IdleAt, Served
  <2> QED
    BY <2>1, <2>2
<1>11. ASSUME NEW b \in Frontends, Poll(b) \/ Check(b) \/ Arm(b) PROVE IdleBrokerIsWoken'
  BY <1>11 DEF Poll, Main, TypeOK, frontendVars, brokerVars, IdleBrokerIsWoken, IdleAt, Served,
      Serving, Accepted, Backlog, Check, Arm, WaiterNeeded
<1>12. ASSUME NEW b \in Frontends, Attempt(b) PROVE IdleBrokerIsWoken'
  BY <1>12 DEF Attempt, LockForShutdown, Take, Main, TypeOK, frontendVars, brokerVars,
      IdleBrokerIsWoken, IdleAt, Served, Serving
<1>13. ASSUME NEW b \in Frontends, Recheck(b) PROVE IdleBrokerIsWoken'
  <2>1. \A x \in Frontends \ {b} : br'[x] = br[x] /\ conns'[x] = conns[x]
    BY <1>13 DEF Recheck, Main, TypeOK
  <2>2. br'[b] = "poll" => Backlog(b) # {} \/ Served(b) # {} \/ sessions[b] = "some"
    BY <1>13 DEF Recheck, Main, TypeOK, IdleAt
  <2>3. conns'[b] = Accepted(b) /\ UNCHANGED <<sessions, waiter, wake>>
    BY <1>13 DEF Recheck, TypeOK
  <2>4. br'[b] = "poll" => ~IdleAt(b)'
    BY <2>2, <2>3, Accepting DEF IdleAt, Served
  <2> QED
    BY <2>1, <2>3, <2>4 DEF IdleBrokerIsWoken, IdleAt, Served
<1>14. ASSUME NEW b \in Frontends, Unlink(b) PROVE IdleBrokerIsWoken'
  BY <1>14 DEF Unlink, Main, TypeOK, frontendVars, brokerVars, IdleBrokerIsWoken, IdleAt,
      Served, Serving
<1>15. ASSUME NEW b \in Frontends, Exit(b) \/ BrokerCrashes(b) PROVE IdleBrokerIsWoken'
  BY <1>15 DEF Exit, Ends, Main, TypeOK, frontendVars, brokerVars, IdleBrokerIsWoken, IdleAt,
      Served, Serving, BrokerCrashes
<1>16. ASSUME NEW b \in Frontends, WaiterLocks(b) \/ WaiterUnlocks(b) \/ WaiterFinishes(b)
      PROVE  IdleBrokerIsWoken'
  BY <1>16 DEF WaiterLocks, Take, TypeOK, frontendVars, brokerVars, IdleBrokerIsWoken, IdleAt,
      Served, Serving, WaiterUnlocks, Unlock, WaiterFinishes
<1>17. ASSUME NEW b \in Frontends, NEW c \in conns[b], Wakes(b, c) PROVE IdleBrokerIsWoken'
  BY <1>17 DEF Wakes, TypeOK, frontendVars, brokerVars, IdleBrokerIsWoken, IdleAt, Served,
      Serving
<1>18. ASSUME NEW b \in Frontends, NEW c \in conns[b], Disconnects(b, c) PROVE IdleBrokerIsWoken'
  <2>1. [c EXCEPT !.state = "leaving"] \in conns'[b]
    BY <1>18 DEF Disconnects, TypeOK
  <2>2. [c EXCEPT !.state = "leaving"].state = "leaving"
    BY DEF TypeOK, Connections
  <2>3. \A x \in Frontends \ {b} : conns'[x] = conns[x]
    BY <1>18 DEF Disconnects, TypeOK
  <2> QED
    BY <1>18, <2>1, <2>2, <2>3 DEF Disconnects, IdleBrokerIsWoken, IdleAt, Served
<1>19. ASSUME NEW b \in Frontends, SessionStarts(b) \/ LastSessionEnds(b) \/ SessionWakes(b)
      PROVE  IdleBrokerIsWoken'
  BY <1>19 DEF SessionStarts, TypeOK, frontendVars, brokerVars, IdleBrokerIsWoken, IdleAt,
      Served, Serving, LastSessionEnds, SessionWakes
<1> QED
  BY <1>1, <1>2, <1>3, <1>4, <1>5, <1>6, <1>7, <1>8, <1>9, <1>10, <1>11, <1>12, <1>13, <1>14,
      <1>15, <1>16, <1>17, <1>18, <1>19 DEF Next, Admission, MainThread, Waiter, Leaves

-----------------------------------------------------------------------------
(* The theorems.                                                           *)

(* What holds whatever fails.                                              *)
Steady == Safe /\ StartsAreConnected /\ NobodyLeftBehind /\ IdleBrokerIsWoken

(* The steps of before, put together.                                      *)
LEMMA AlwaysSteady == Spec => []Steady
<1>1. Init => Steady
  <2> SUFFICES ASSUME Init PROVE Steady
    OBVIOUS
  <2> QED
    BY AdmissionAssumption, InitSingle
       DEF Steady, Single, Init, NobodyLeftBehind, IdleBrokerIsWoken
<1>2. Steady /\ [Next]_vars => Steady'
  <2> SUFFICES ASSUME Steady, [Next]_vars PROVE Steady'
    OBVIOUS
  <2>1. CASE Next
    <3>1. TypeOK' /\ LockHolders' /\ StartsHaveParents' /\ StartsAreConnected'
      BY <2>1, AdmissionAssumption, TypeStep, LockStep, ParentStep, ConnectedStep DEF Steady, Safe
    <3>2. NobodyLeftBehind' /\ IdleBrokerIsWoken'
      BY <2>1, AdmissionAssumption, NobodyStep, WokenStep DEF Steady, Safe
    <3> QED
      BY <3>1, <3>2 DEF Steady, Safe
  <2>2. CASE UNCHANGED vars
    BY <2>2 DEF vars, frontendVars, brokerVars, Steady, Safe, TypeOK, LockHolders, Holds, Locked,
       StartsHaveParents, StartsAreConnected, NobodyLeftBehind, IdleBrokerIsWoken, IdleAt, Served
  <2> QED
    BY <2>1, <2>2
<1> QED
  BY <1>1, <1>2, PTL DEF Spec

(* Every variable of the admission keeps its type: attempts stay below     *)
(* HANDSHAKE_ATTEMPTS (serve_brokered_stdio).                              *)
THEOREM AdmissionTypeCorrect == Spec => []TypeOK
<1>1. Steady => TypeOK
  BY DEF Steady, Safe
<1> QED
  BY <1>1, AlwaysSteady, PTL

(* A broker that decided to shut down leaves nobody behind, for any number *)
(* of frontends and attempts and whatever fails (attempt_shutdown).        *)
THEOREM LeavesNobodyBehind == Spec => []NobodyLeftBehind
<1>1. Steady => NobodyLeftBehind
  BY DEF Steady
<1> QED
  BY <1>1, AlwaysSteady, PTL

(* No wake of an idle broker is lost (disconnect_frontend,                 *)
(* arm_shutdown_lock_release_waiter).                                      *)
THEOREM NoWakeIsLost == Spec => []IdleBrokerIsWoken
<1>1. Steady => IdleBrokerIsWoken
  BY DEF Steady
<1> QED
  BY <1>1, AlwaysSteady, PTL

(* One broker serves a user, at the path, for any number of frontends and  *)
(* attempts, whoever is killed, lost or refuses to start.  The assumption  *)
(* leaves out one failure: broker_main, when its pipe2 fails, removes the  *)
(* file at the path without the lock; if its frontend was killed, that can *)
(* be the file of another broker.                                          *)
THEOREM AtMostOneBroker ==
    ASSUME "abandoned" \notin Faults
    PROVE  Spec => []OneBroker
<1>1. Init => Single
  BY AdmissionAssumption, InitSingle
<1>2. Single /\ [Next]_vars => Single'
  <2> SUFFICES ASSUME Single, [Next]_vars PROVE Single'
    OBVIOUS
  <2>1. CASE Next
    <3>1. TypeOK' /\ LockHolders' /\ StartsHaveParents'
      BY <2>1, AdmissionAssumption, TypeStep, LockStep, ParentStep DEF Single, Safe
    <3>2. NoneServesAtStart'
      BY <2>1, AdmissionAssumption, NoneStep DEF Single, Safe
    <3>3. SocketOfStart' /\ OneBroker'
      BY <2>1, AdmissionAssumption, SocketStep, OneStep
    <3> QED
      BY <3>1, <3>2, <3>3 DEF Single, Safe
  <2>2. CASE UNCHANGED vars
    BY <2>2 DEF vars, frontendVars, brokerVars, Single, Safe, TypeOK, LockHolders, Holds, Locked,
       StartsHaveParents, NoneServesAtStart, AboutToStart, SocketOfStart, OneBroker
  <2> QED
    BY <2>1, <2>2
<1>3. Single => OneBroker
  BY DEF Single
<1> QED
  BY <1>1, <1>2, <1>3, PTL DEF Spec

=============================================================================
