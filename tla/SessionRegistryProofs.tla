------------------------ MODULE SessionRegistryProofs ------------------------
(***************************************************************************)
(* What SessionRegistry keeps true, for any number of servers, users and   *)
(* names: the files of a session are its server's own, and a server that   *)
(* stopped in order has left none.                                         *)
(***************************************************************************)
EXTENDS SessionRegistry, TLAPS

-----------------------------------------------------------------------------
(* The types.                                                              *)

Stages == {"unborn", "born", "sweep", "key", "registry", "starting", "replenish",
"spawn",
           "running", "move_key", "move_registry", "stopping", "stopped", "killed"}

Steps == {"idle", "begun", "recheck", "warm", "claim", "spawn", "wait", "verify", "list"}

AllOps == {"new", "kill", "rename", "warmup", "ls"}

Commands == [op : AllOps, base : Bases, to : Bases]

Looks == [base : Bases, registered : BOOLEAN]

FilesTyped ==
    /\ port \in [Bases -> Servers \cup {None}]
    /\ key \in [Bases -> Servers \cup {None}]
    /\ registry \in [Bases -> Servers \cup {None}]
    /\ recent \in SUBSET Bases
    /\ contested \in SUBSET Bases

ServersTyped ==
    /\ stage \in [Servers -> Stages]
    /\ name \in [Servers -> Bases \cup {None}]
    /\ requests \in [Servers -> SUBSET Requests]
    /\ moving \in [Servers -> Requests \cup {None}]

UsersTyped ==
    /\ pc \in [Users -> Steps]
    /\ cmd \in [Users -> Commands \cup {None}]
    /\ answered \in SUBSET Users
    /\ commands \in Nat

SweepsTyped ==
    /\ todo \in [Procs -> SUBSET Bases]
    /\ seen \in [Procs -> Looks \cup {None}]
    /\ doomed \in [Procs -> Bases \cup {None}]

(* A process that was spawned has its base, a command that was begun is    *)
(* known, and a server carries out a request while it moves its files.     *)
WorkKnown ==
    /\ \A s \in Servers :
        /\ stage[s] # "unborn" => name[s] \in Bases
        /\ (moving[s] # None) <=> (stage[s] \in {"move_key", "move_registry"})
    /\ \A u \in Users : pc[u] # "idle" => cmd[u] \in Commands

RegistryTypes ==
    FilesTyped /\ ServersTyped /\ UsersTyped /\ SweepsTyped /\ WorkKnown

-----------------------------------------------------------------------------
(* The invariant.                                                          *)

(* A server removes files as it begins, before it starts a warm server,    *)
(* and, its own, as it stops.                                              *)
SweepsInTurn ==
    \A s \in Servers :
        /\ todo[s] # {} \/ seen[s] # None => stage[s] = "sweep"
        /\ doomed[s] # None => stage[s] \in {"sweep", "spawn", "stopping"}
        /\ stage[s] = "stopping" => doomed[s] = name[s]

(* The base of a server's port file.                                       *)
Home(s) == IF moving[s] = None THEN name[s] ELSE moving[s].to

(* A server's files are those of the bases it works on, unless it was      *)
(* killed.                                                                 *)
FilesFollow ==
    \A s \in Servers, b \in Bases :
        /\ port[b] = s => /\ stage[s] \notin {"unborn", "born", "sweep", "stopped"}
                          /\ stage[s] # "killed" => b = Home(s)
        /\ registry[b] = s =>
              /\ stage[s] \notin {"unborn", "born", "sweep", "key", "stopped"}
              /\ stage[s] # "killed" => b = name[s]

(* Two servers that work on one base spoil it.                             *)
Exclusive ==
    \A s, o \in Servers, b \in Bases :
        s # o /\ Alive(s) /\ Alive(o) /\ WorksOn(s, b) /\ WorksOn(o, b)
           => b \in contested

(* What is spoiled where a server leaves is spoiled where it goes.         *)
CleanMoves ==
    \A s \in Servers : moving[s] # None /\ moving[s].to \notin contested =>
        name[s] \notin contested /\ name[s] # moving[s].to

(* Somebody has found the port file of a base, and may give it up.         *)
Doubted(b) == \/ \E p \in Procs : b \in todo[p] \/ (seen[p] # None /\ seen[p].base = b)
              \/ \E u \in Users : pc[u] = "verify" /\ cmd[u].base = b

Doomed(b) == \E p \in Procs : doomed[p] = b

Keeps(s) == Alive(s) /\ stage[s] # "stopping" /\ Home(s) \notin contested

(* The files of a base that only its server came to are in the state in    *)
(* which this server has brought them, and no sweep that saw them before   *)
(* or between two of its steps removes one.                                *)
PortKept ==
    \A s \in Servers : Keeps(s) =>
        IF stage[s] \in {"born", "sweep"} THEN port[Home(s)] = None /\ ~Doubted(Home(s))
        ELSE port[Home(s)] = s

KeyKept ==
    \A s \in Servers : Keeps(s) /\ stage[s] \notin {"born", "sweep", "key"} =>
        key[IF stage[s] = "move_key" THEN name[s] ELSE Home(s)] = s

RegistryKept ==
    \A s \in Servers : Keeps(s) =>
        /\ registry[Home(s)] = (IF Published(s) THEN s ELSE None)
        /\ \A p \in Procs :
              seen[p] # None /\ seen[p].base = Home(s) => ~seen[p].registered

NotDoomed == \A s \in Servers : Keeps(s) => ~Doomed(Home(s))

(* Nor does one remove the key file before it is moved.                    *)
LeftInPeace ==
    \A s \in Servers : Keeps(s) /\ stage[s] = "move_key" =>
        port[name[s]] = None /\ ~Doubted(name[s]) /\ ~Doomed(name[s])

RegistryInv ==
    /\ RegistryTypes /\ SweepsInTurn /\ FilesFollow /\ Exclusive /\ CleanMoves
    /\ PortKept /\ KeyKept /\ RegistryKept /\ NotDoomed /\ LeftInPeace
-----------------------------------------------------------------------------
(* The types are kept.                                                     *)

(* Variable by variable: the files, ...                                    *)
LEMMA FilesStep ==
    ASSUME RegistryAssumption, RegistryTypes, Next
    PROVE  FilesTyped'
<1>1. FilesTyped /\ ServersTyped /\ UsersTyped /\ SweepsTyped /\ WorkKnown
  BY DEF RegistryTypes
<1>2. ASSUME NEW b \in Bases PROVE Spoiled(b) \in SUBSET Bases
  BY <1>1 DEF Spoiled, ServersTyped, Requests
<1>3. CASE UNCHANGED <<port, key, registry, recent, contested>>
  BY <1>1, <1>3 DEF FilesTyped
<1>4. ASSUME NEW p \in Procs, Remove(p)
      PROVE  FilesTyped'
  BY <1>1, <1>4 DEF Remove, usr, FilesTyped, SweepsTyped
<1>5. ASSUME NEW p \in Procs, Killed(p)
      PROVE  FilesTyped'
  BY <1>1, <1>5 DEF Killed, FilesTyped, SweepsTyped
<1>6. ASSUME NEW b \in Bases, Ages(b)
      PROVE  FilesTyped'
  BY <1>1, <1>6 DEF Ages, srv, usr, sweep, FilesTyped
<1>7. ASSUME NEW o \in Servers, BindAndWritePort(o)
      PROVE  FilesTyped'
  BY <1>1, <1>7 DEF BindAndWritePort, Goes, usr, sweep, FilesTyped, WorkKnown,
     ServersTyped
<1>8. ASSUME NEW o \in Servers, WriteKey(o)
      PROVE  FilesTyped'
  BY <1>1, <1>8 DEF WriteKey, Goes, usr, sweep, FilesTyped, WorkKnown, ServersTyped
<1>9. ASSUME NEW o \in Servers, WriteRegistry(o)
      PROVE  FilesTyped'
  BY <1>1, <1>9 DEF WriteRegistry, Goes, usr, sweep, FilesTyped, WorkKnown,
     ServersTyped
<1>10. ASSUME NEW o \in Servers, Ready(o)
      PROVE  FilesTyped'
  BY <1>1, <1>10 DEF Ready, Goes, usr, sweep, FilesTyped, WorkKnown, ServersTyped
<1>11. ASSUME NEW o \in Servers, SpawnWarm(o)
      PROVE  FilesTyped'
  BY <1>1, <1>2, <1>11 DEF SpawnWarm, Spawn, Contest, files, usr, sweep, FilesTyped,
     ServersTyped, Bases
<1>12. ASSUME NEW o \in Servers, RefreshRegistry(o)
      PROVE  FilesTyped'
  BY <1>1, <1>12 DEF RefreshRegistry, srv, usr, sweep, FilesTyped, WorkKnown,
     ServersTyped
<1>13. ASSUME NEW o \in Servers, NEW r \in requests[o], MovePort(o, r)
      PROVE  FilesTyped'
  BY <1>1, <1>2, <1>13 DEF MovePort, Goes, Contest, usr, sweep, FilesTyped,
     ServersTyped, WorkKnown, Requests
<1>14. ASSUME NEW o \in Servers, MoveKey(o)
      PROVE  FilesTyped'
  BY <1>1, RegistryAssumption, <1>14 DEF MoveKey, Goes, usr, sweep, FilesTyped,
     ServersTyped, WorkKnown, Requests
<1>15. ASSUME NEW o \in Servers, MoveRegistry(o)
      PROVE  FilesTyped'
  BY <1>1, RegistryAssumption, <1>15 DEF MoveRegistry, Goes, sweep, FilesTyped,
     ServersTyped, WorkKnown, Requests
<1>16. ASSUME NEW u \in Users, SpawnServer(u)
      PROVE  FilesTyped'
  BY <1>1, <1>2, <1>16 DEF SpawnServer, Spawn, Contest, Goes, Step, files, sweep,
     FilesTyped, UsersTyped, WorkKnown, Commands
<1>17. ASSUME NEW u \in Users, WarmUp(u)
      PROVE  FilesTyped'
  BY <1>1, <1>2, <1>17 DEF WarmUp, Step, At, Contest, files, srv, FilesTyped, Bases
<1>18. ASSUME NEW p \in Procs, NEW b \in Bases,
             Look(p, b)
      PROVE  FilesTyped'
  BY <1>3, <1>18 DEF Look, files, srv, usr
<1>19. ASSUME NEW p \in Procs,
             Probe(p)
      PROVE  FilesTyped'
  BY <1>3, <1>19 DEF Probe, files, srv, usr
<1>20. ASSUME NEW o \in Servers,
             Begin(o) \/ Replenish(o) \/ Stop(o)
      PROVE  FilesTyped'
  BY <1>3, <1>20 DEF Begin, files, usr, sweep, Replenish, Stop
<1>21. ASSUME NEW u \in Users, NEW op \in AllOps, NEW b \in Bases, NEW n \in Bases,
             Command(u, op, b, n)
      PROVE  FilesTyped'
  BY <1>3, <1>21 DEF Command, files, srv
<1>22. ASSUME NEW u \in Users,
             \/ Check(u) \/ Recheck(u) \/ AskWarm(u) \/ Claimed(u) \/ Wait(u)
             \/ Verify(u) \/ Kill(u) \/ Rename(u) \/ ListSessions(u)
      PROVE  FilesTyped'
  BY <1>3, <1>22 DEF Check, files, srv, Recheck, sweep, AskWarm, Claimed, Wait,
     Verify, Kill, Rename, ListSessions
<1>23. ASSUME NEW u \in Users, NEW b \in Bases,
             ListOne(u, b)
      PROVE  FilesTyped'
  BY <1>3, <1>23 DEF ListOne, files, srv
<1>. QED
  BY <1>3, <1>4, <1>5, <1>6, <1>7, <1>8, <1>9, <1>10, <1>11, <1>12, <1>13, <1>14,
     <1>15, <1>16, <1>17, <1>18, <1>19, <1>20, <1>21, <1>22, <1>23 DEF Next, Bases,
     AllOps

(* ... the servers, ...                                                    *)
LEMMA ServersStep ==
    ASSUME RegistryAssumption, RegistryTypes, Next
    PROVE  ServersTyped'
<1>1. FilesTyped /\ ServersTyped /\ UsersTyped /\ SweepsTyped /\ WorkKnown
  BY DEF RegistryTypes
<1>2. CASE UNCHANGED <<stage, name, requests, moving>>
  BY <1>1, <1>2 DEF ServersTyped, Stages
<1>3. ASSUME NEW p \in Procs, Remove(p)
      PROVE  ServersTyped'
  BY <1>1, <1>3 DEF Remove, usr, ServersTyped, Stages
<1>4. ASSUME NEW p \in Procs, Killed(p)
      PROVE  ServersTyped'
  BY <1>1, <1>4 DEF Killed, ServersTyped, Stages
<1>5. ASSUME NEW o \in Servers, Begin(o)
      PROVE  ServersTyped'
  BY <1>1, <1>5 DEF Begin, Goes, List, files, usr, sweep, ServersTyped, Stages
<1>6. ASSUME NEW o \in Servers, BindAndWritePort(o)
      PROVE  ServersTyped'
  BY <1>1, <1>6 DEF BindAndWritePort, Goes, usr, sweep, ServersTyped, Stages
<1>7. ASSUME NEW o \in Servers, WriteKey(o)
      PROVE  ServersTyped'
  BY <1>1, <1>7 DEF WriteKey, Goes, usr, sweep, ServersTyped, Stages
<1>8. ASSUME NEW o \in Servers, WriteRegistry(o)
      PROVE  ServersTyped'
  BY <1>1, <1>8 DEF WriteRegistry, Goes, usr, sweep, ServersTyped, Stages
<1>9. ASSUME NEW o \in Servers, Ready(o)
      PROVE  ServersTyped'
  BY <1>1, <1>9 DEF Ready, Goes, usr, sweep, ServersTyped, Stages
<1>10. ASSUME NEW o \in Servers, Replenish(o)
      PROVE  ServersTyped'
  BY <1>1, <1>10 DEF Replenish, Goes, files, usr, ServersTyped, Stages
<1>11. ASSUME NEW o \in Servers, SpawnWarm(o)
      PROVE  ServersTyped'
  BY <1>1, <1>11 DEF SpawnWarm, Spawn, Contest, files, usr, sweep, ServersTyped,
     Stages, Bases
<1>12. ASSUME NEW o \in Servers, Stop(o)
      PROVE  ServersTyped'
  BY <1>1, <1>12 DEF Stop, Goes, files, usr, ServersTyped, Stages
<1>13. ASSUME NEW o \in Servers, NEW r \in requests[o], MovePort(o, r)
      PROVE  ServersTyped'
  BY <1>1, <1>13 DEF MovePort, Goes, Contest, usr, sweep, ServersTyped, Stages
<1>14. ASSUME NEW o \in Servers, MoveKey(o)
      PROVE  ServersTyped'
  BY <1>1, <1>14 DEF MoveKey, Goes, usr, sweep, ServersTyped, Stages
<1>15. ASSUME NEW o \in Servers, MoveRegistry(o)
      PROVE  ServersTyped'
  BY <1>1, RegistryAssumption, <1>15 DEF MoveRegistry, Goes, sweep, ServersTyped,
     Stages, WorkKnown, Requests
<1>16. ASSUME NEW u \in Users, AskWarm(u)
      PROVE  ServersTyped'
  BY <1>1, RegistryAssumption, <1>16 DEF AskWarm, Step, At, files, ServersTyped,
     Stages, FilesTyped, UsersTyped, WorkKnown, Commands, Requests, Open, Alive,
     Bases, AllOps, Steps
<1>17. ASSUME NEW u \in Users, SpawnServer(u)
      PROVE  ServersTyped'
  BY <1>1, <1>17 DEF SpawnServer, Spawn, Contest, Goes, Step, files, sweep,
     ServersTyped, Stages, UsersTyped, WorkKnown, Commands
<1>18. ASSUME NEW u \in Users, Rename(u)
      PROVE  ServersTyped'
  BY <1>1, RegistryAssumption, <1>18 DEF Rename, Step, At, files, sweep,
     ServersTyped, Stages, FilesTyped, UsersTyped, WorkKnown, Commands, Requests,
     Open, Alive, Bases, AllOps, Steps
<1>19. ASSUME NEW p \in Procs, NEW b \in Bases,
             Look(p, b)
      PROVE  ServersTyped'
  BY <1>2, <1>19 DEF Look, files, srv, usr
<1>20. ASSUME NEW p \in Procs,
             Probe(p)
      PROVE  ServersTyped'
  BY <1>2, <1>20 DEF Probe, files, srv, usr
<1>21. ASSUME NEW b \in Bases,
             Ages(b)
      PROVE  ServersTyped'
  BY <1>2, <1>21 DEF Ages, srv, usr, sweep
<1>22. ASSUME NEW o \in Servers,
             RefreshRegistry(o)
      PROVE  ServersTyped'
  BY <1>2, <1>22 DEF RefreshRegistry, srv, usr, sweep
<1>23. ASSUME NEW u \in Users, NEW op \in AllOps, NEW b \in Bases, NEW n \in Bases,
             Command(u, op, b, n)
      PROVE  ServersTyped'
  BY <1>2, <1>23 DEF Command, files, srv
<1>24. ASSUME NEW u \in Users,
             \/ Check(u) \/ Recheck(u) \/ Claimed(u) \/ Wait(u) \/ Verify(u)
             \/ Kill(u) \/ WarmUp(u) \/ ListSessions(u)
      PROVE  ServersTyped'
  BY <1>2, <1>24 DEF Check, files, srv, Recheck, sweep, Claimed, Wait, Verify, Kill,
     WarmUp, ListSessions
<1>25. ASSUME NEW u \in Users, NEW b \in Bases,
             ListOne(u, b)
      PROVE  ServersTyped'
  BY <1>2, <1>25 DEF ListOne, files, srv
<1>. QED
  BY <1>2, <1>3, <1>4, <1>5, <1>6, <1>7, <1>8, <1>9, <1>10, <1>11, <1>12, <1>13,
     <1>14, <1>15, <1>16, <1>17, <1>18, <1>19, <1>20, <1>21, <1>22, <1>23, <1>24,
     <1>25 DEF Next, Bases, AllOps

(* ... the users' commands, ...                                            *)
LEMMA UsersStep ==
    ASSUME RegistryAssumption, RegistryTypes, Next
    PROVE  UsersTyped'
<1>1. FilesTyped /\ ServersTyped /\ UsersTyped /\ SweepsTyped /\ WorkKnown
  BY DEF RegistryTypes
<1>2. CASE UNCHANGED <<pc, cmd, answered, commands>>
  BY <1>1, <1>2 DEF UsersTyped, Steps
<1>3. ASSUME NEW p \in Procs, Killed(p)
      PROVE  UsersTyped'
  BY <1>1, <1>3 DEF Killed, UsersTyped, Steps, Procs
<1>4. ASSUME NEW o \in Servers, MoveRegistry(o)
      PROVE  UsersTyped'
  BY <1>1, RegistryAssumption, <1>4 DEF MoveRegistry, Goes, sweep, UsersTyped,
     Steps, ServersTyped, WorkKnown, Requests
<1>5. ASSUME NEW u \in Users, NEW op \in AllOps, NEW b \in Bases, NEW n \in Bases,
             Command(u, op, b, n)
      PROVE  UsersTyped'
  BY <1>1, <1>5 DEF Command, Step, List, files, srv, UsersTyped, Steps, Commands
<1>6. ASSUME NEW u \in Users, Check(u)
      PROVE  UsersTyped'
  BY <1>1, <1>6 DEF Check, Step, List, At, files, srv, UsersTyped, Steps
<1>7. ASSUME NEW u \in Users, Recheck(u)
      PROVE  UsersTyped'
  BY <1>1, <1>7 DEF Recheck, Step, At, files, srv, sweep, UsersTyped, Steps
<1>8. ASSUME NEW u \in Users, AskWarm(u)
      PROVE  UsersTyped'
  BY <1>1, <1>8 DEF AskWarm, Step, At, files, UsersTyped, Steps
<1>9. ASSUME NEW u \in Users, Claimed(u)
      PROVE  UsersTyped'
  BY <1>1, <1>9 DEF Claimed, Step, files, srv, sweep, UsersTyped, Steps
<1>10. ASSUME NEW u \in Users, SpawnServer(u)
      PROVE  UsersTyped'
  BY <1>1, <1>10 DEF SpawnServer, Spawn, Contest, Goes, Step, files, sweep,
     UsersTyped, Steps
<1>11. ASSUME NEW u \in Users, Wait(u)
      PROVE  UsersTyped'
  BY <1>1, <1>11 DEF Wait, Step, files, srv, sweep, UsersTyped, Steps
<1>12. ASSUME NEW u \in Users, Verify(u)
      PROVE  UsersTyped'
  BY <1>1, <1>12 DEF Verify, Step, At, files, srv, UsersTyped, Steps
<1>13. ASSUME NEW u \in Users, Kill(u)
      PROVE  UsersTyped'
  BY <1>1, <1>13 DEF Kill, Step, List, At, files, srv, UsersTyped, Steps
<1>14. ASSUME NEW u \in Users, Rename(u)
      PROVE  UsersTyped'
  BY <1>1, <1>14 DEF Rename, Step, At, files, sweep, UsersTyped, Steps
<1>15. ASSUME NEW u \in Users, WarmUp(u)
      PROVE  UsersTyped'
  BY <1>1, <1>15 DEF WarmUp, Step, At, Contest, files, srv, UsersTyped, Steps
<1>16. ASSUME NEW u \in Users, ListSessions(u)
      PROVE  UsersTyped'
  BY <1>1, <1>16 DEF ListSessions, Step, List, At, files, srv, UsersTyped, Steps
<1>17. ASSUME NEW u \in Users, NEW b \in Bases, ListOne(u, b)
      PROVE  UsersTyped'
  BY <1>1, <1>17 DEF ListOne, Step, files, srv, UsersTyped, Steps
<1>18. ASSUME NEW p \in Procs, NEW b \in Bases,
             Look(p, b)
      PROVE  UsersTyped'
  BY <1>2, <1>18 DEF Look, files, srv, usr
<1>19. ASSUME NEW p \in Procs,
             Probe(p) \/ Remove(p)
      PROVE  UsersTyped'
  BY <1>2, <1>19 DEF Probe, files, srv, usr, Remove
<1>20. ASSUME NEW b \in Bases,
             Ages(b)
      PROVE  UsersTyped'
  BY <1>2, <1>20 DEF Ages, srv, usr, sweep
<1>21. ASSUME NEW o \in Servers,
             \/ Begin(o) \/ BindAndWritePort(o) \/ WriteKey(o) \/ WriteRegistry(o)
             \/ Ready(o) \/ Replenish(o) \/ SpawnWarm(o) \/ RefreshRegistry(o)
             \/ Stop(o) \/ MoveKey(o)
      PROVE  UsersTyped'
  BY <1>2, <1>21 DEF Begin, files, usr, sweep, BindAndWritePort, WriteKey,
     WriteRegistry, Ready, Replenish, SpawnWarm, RefreshRegistry, srv, Stop, MoveKey
<1>22. ASSUME NEW o \in Servers, NEW r \in requests[o],
             MovePort(o, r)
      PROVE  UsersTyped'
  BY <1>2, <1>22 DEF MovePort, usr, sweep
<1>. QED
  BY <1>2, <1>3, <1>4, <1>5, <1>6, <1>7, <1>8, <1>9, <1>10, <1>11, <1>12, <1>13,
     <1>14, <1>15, <1>16, <1>17, <1>18, <1>19, <1>20, <1>21, <1>22 DEF Next, Bases,
     AllOps

(* ... and what each process is about to remove keep their types, ...      *)
LEMMA SweepsStep ==
    ASSUME RegistryAssumption, RegistryTypes, Next
    PROVE  SweepsTyped'
<1>1. FilesTyped /\ ServersTyped /\ UsersTyped /\ SweepsTyped /\ WorkKnown
  BY DEF RegistryTypes
<1>2. CASE UNCHANGED <<todo, seen, doomed>>
  BY <1>1, <1>2 DEF SweepsTyped
<1>3. ASSUME NEW p \in Procs, NEW b \in Bases, Look(p, b)
      PROVE  SweepsTyped'
  BY <1>1, <1>3 DEF Look, files, srv, usr, SweepsTyped, Looks
<1>4. ASSUME NEW p \in Procs, Probe(p)
      PROVE  SweepsTyped'
  BY <1>1, <1>4 DEF Probe, files, srv, usr, SweepsTyped, Looks
<1>5. ASSUME NEW p \in Procs, Remove(p)
      PROVE  SweepsTyped'
  BY <1>1, <1>5 DEF Remove, usr, SweepsTyped
<1>6. ASSUME NEW p \in Procs, Killed(p)
      PROVE  SweepsTyped'
  BY <1>1, <1>6 DEF Killed, SweepsTyped
<1>7. ASSUME NEW o \in Servers, Begin(o)
      PROVE  SweepsTyped'
  BY <1>1, <1>7 DEF Begin, Goes, List, files, usr, sweep, SweepsTyped, Procs
<1>8. ASSUME NEW o \in Servers, Replenish(o)
      PROVE  SweepsTyped'
  BY <1>1, <1>8 DEF Replenish, Goes, files, usr, SweepsTyped, Procs, Bases
<1>9. ASSUME NEW o \in Servers, Stop(o)
      PROVE  SweepsTyped'
  BY <1>1, <1>9 DEF Stop, Goes, files, usr, SweepsTyped, Procs, WorkKnown,
     ServersTyped
<1>10. ASSUME NEW u \in Users, NEW op \in AllOps, NEW b \in Bases, NEW n \in Bases,
              Command(u, op, b, n)
      PROVE  SweepsTyped'
  BY <1>1, <1>10 DEF Command, Step, List, files, srv, SweepsTyped, Procs
<1>11. ASSUME NEW u \in Users, Check(u)
      PROVE  SweepsTyped'
  BY <1>1, <1>11 DEF Check, Step, List, At, files, srv, SweepsTyped, Procs
<1>12. ASSUME NEW u \in Users, AskWarm(u)
      PROVE  SweepsTyped'
  BY <1>1, <1>12 DEF AskWarm, Step, At, files, SweepsTyped, Procs, Bases
<1>13. ASSUME NEW u \in Users, Verify(u)
      PROVE  SweepsTyped'
  BY <1>1, <1>13 DEF Verify, Step, At, files, srv, SweepsTyped, Procs, UsersTyped,
     WorkKnown, Commands
<1>14. ASSUME NEW u \in Users, Kill(u)
      PROVE  SweepsTyped'
  BY <1>1, <1>14 DEF Kill, Step, List, At, files, srv, SweepsTyped, Procs
<1>15. ASSUME NEW u \in Users, WarmUp(u)
      PROVE  SweepsTyped'
  BY <1>1, <1>15 DEF WarmUp, Step, At, Contest, files, srv, SweepsTyped, Procs,
     Bases
<1>16. ASSUME NEW u \in Users, ListSessions(u)
      PROVE  SweepsTyped'
  BY <1>1, <1>16 DEF ListSessions, Step, List, At, files, srv, SweepsTyped, Procs
<1>17. ASSUME NEW u \in Users, NEW b \in Bases, ListOne(u, b)
      PROVE  SweepsTyped'
  BY <1>1, <1>17 DEF ListOne, Step, files, srv, SweepsTyped, Procs
<1>18. ASSUME NEW b \in Bases,
             Ages(b)
      PROVE  SweepsTyped'
  BY <1>2, <1>18 DEF Ages, srv, usr, sweep
<1>19. ASSUME NEW o \in Servers,
             \/ BindAndWritePort(o) \/ WriteKey(o) \/ WriteRegistry(o) \/ Ready(o)
             \/ SpawnWarm(o) \/ RefreshRegistry(o) \/ MoveKey(o) \/ MoveRegistry(o)
      PROVE  SweepsTyped'
  BY <1>2, <1>19 DEF BindAndWritePort, usr, sweep, WriteKey, WriteRegistry, Ready,
     SpawnWarm, files, RefreshRegistry, srv, MoveKey, MoveRegistry
<1>20. ASSUME NEW o \in Servers, NEW r \in requests[o],
             MovePort(o, r)
      PROVE  SweepsTyped'
  BY <1>2, <1>20 DEF MovePort, usr, sweep
<1>21. ASSUME NEW u \in Users,
             \/ Recheck(u) \/ Claimed(u) \/ SpawnServer(u) \/ Wait(u) \/ Rename(u)
      PROVE  SweepsTyped'
  BY <1>2, <1>21 DEF Recheck, files, srv, sweep, Claimed, SpawnServer, Wait, Rename
<1>. QED
  BY <1>2, <1>3, <1>4, <1>5, <1>6, <1>7, <1>8, <1>9, <1>10, <1>11, <1>12, <1>13,
     <1>14, <1>15, <1>16, <1>17, <1>18, <1>19, <1>20, <1>21 DEF Next, Bases, AllOps

(* ... and so does what each is working on.                                *)
LEMMA WorkStep ==
    ASSUME RegistryAssumption, RegistryTypes, Next
    PROVE  WorkKnown'
<1>1. FilesTyped /\ ServersTyped /\ UsersTyped /\ SweepsTyped /\ WorkKnown
  BY DEF RegistryTypes
<1>2. CASE UNCHANGED <<stage, name, moving, pc, cmd>>
  BY <1>1, <1>2 DEF WorkKnown
<1>3. ASSUME NEW p \in Procs, Remove(p)
      PROVE  WorkKnown'
  BY <1>1, <1>3 DEF Remove, usr, WorkKnown, ServersTyped, Stages
<1>4. ASSUME NEW p \in Procs, Killed(p)
      PROVE  WorkKnown'
  BY <1>1, <1>4 DEF Killed, WorkKnown, ServersTyped, UsersTyped, Alive, Procs
<1>5. ASSUME NEW o \in Servers, Begin(o)
      PROVE  WorkKnown'
  BY <1>1, <1>5 DEF Begin, Goes, List, files, usr, sweep, WorkKnown, ServersTyped,
     Stages
<1>6. ASSUME NEW o \in Servers, BindAndWritePort(o)
      PROVE  WorkKnown'
  BY <1>1, <1>6 DEF BindAndWritePort, Goes, usr, sweep, WorkKnown, ServersTyped,
     Stages
<1>7. ASSUME NEW o \in Servers, WriteKey(o)
      PROVE  WorkKnown'
  BY <1>1, <1>7 DEF WriteKey, Goes, usr, sweep, WorkKnown, ServersTyped, Stages
<1>8. ASSUME NEW o \in Servers, WriteRegistry(o)
      PROVE  WorkKnown'
  BY <1>1, <1>8 DEF WriteRegistry, Goes, usr, sweep, WorkKnown, ServersTyped, Stages
<1>9. ASSUME NEW o \in Servers, Ready(o)
      PROVE  WorkKnown'
  BY <1>1, <1>9 DEF Ready, Goes, usr, sweep, WorkKnown, ServersTyped, Stages
<1>10. ASSUME NEW o \in Servers, Replenish(o)
      PROVE  WorkKnown'
  BY <1>1, <1>10 DEF Replenish, Goes, files, usr, WorkKnown, ServersTyped, Stages
<1>11. ASSUME NEW o \in Servers, SpawnWarm(o)
      PROVE  WorkKnown'
  BY <1>1, <1>11 DEF SpawnWarm, Spawn, Contest, files, usr, sweep, WorkKnown,
     ServersTyped, Bases
<1>12. ASSUME NEW o \in Servers, Stop(o)
      PROVE  WorkKnown'
  BY <1>1, <1>12 DEF Stop, Goes, files, usr, WorkKnown, ServersTyped, Stages
<1>13. ASSUME NEW o \in Servers, NEW r \in requests[o], MovePort(o, r)
      PROVE  WorkKnown'
  BY <1>1, RegistryAssumption, <1>13 DEF MovePort, Goes, Contest, usr, sweep,
     WorkKnown, ServersTyped
<1>14. ASSUME NEW o \in Servers, MoveKey(o)
      PROVE  WorkKnown'
  BY <1>1, <1>14 DEF MoveKey, Goes, usr, sweep, WorkKnown, ServersTyped, Stages
<1>15. ASSUME NEW o \in Servers, MoveRegistry(o)
      PROVE  WorkKnown'
  BY <1>1, RegistryAssumption, <1>15 DEF MoveRegistry, Goes, sweep, WorkKnown,
     ServersTyped, Requests
<1>16. ASSUME NEW u \in Users, NEW op \in AllOps, NEW b \in Bases, NEW n \in Bases,
              Command(u, op, b, n)
      PROVE  WorkKnown'
  BY <1>1, <1>16 DEF Command, Step, List, files, srv, WorkKnown, UsersTyped,
     Commands
<1>17. ASSUME NEW u \in Users, Check(u)
      PROVE  WorkKnown'
  BY <1>1, <1>17 DEF Check, Step, List, At, files, srv, WorkKnown, UsersTyped
<1>18. ASSUME NEW u \in Users, Recheck(u)
      PROVE  WorkKnown'
  BY <1>1, <1>18 DEF Recheck, Step, At, files, srv, sweep, WorkKnown, UsersTyped
<1>19. ASSUME NEW u \in Users, AskWarm(u)
      PROVE  WorkKnown'
  BY <1>1, <1>19 DEF AskWarm, Step, At, files, WorkKnown, UsersTyped
<1>20. ASSUME NEW u \in Users, Claimed(u)
      PROVE  WorkKnown'
  BY <1>1, <1>20 DEF Claimed, Step, files, srv, sweep, WorkKnown, UsersTyped
<1>21. ASSUME NEW u \in Users, SpawnServer(u)
      PROVE  WorkKnown'
  BY <1>1, <1>21 DEF SpawnServer, Spawn, Contest, Goes, Step, files, sweep,
     WorkKnown, ServersTyped, UsersTyped, Commands
<1>22. ASSUME NEW u \in Users, Wait(u)
      PROVE  WorkKnown'
  BY <1>1, <1>22 DEF Wait, Step, files, srv, sweep, WorkKnown, UsersTyped
<1>23. ASSUME NEW u \in Users, Verify(u)
      PROVE  WorkKnown'
  BY <1>1, <1>23 DEF Verify, Step, At, files, srv, WorkKnown, UsersTyped
<1>24. ASSUME NEW u \in Users, Kill(u)
      PROVE  WorkKnown'
  BY <1>1, <1>24 DEF Kill, Step, List, At, files, srv, WorkKnown, UsersTyped
<1>25. ASSUME NEW u \in Users, Rename(u)
      PROVE  WorkKnown'
  BY <1>1, <1>25 DEF Rename, Step, At, files, sweep, WorkKnown, UsersTyped
<1>26. ASSUME NEW u \in Users, WarmUp(u)
      PROVE  WorkKnown'
  BY <1>1, <1>26 DEF WarmUp, Step, At, Contest, files, srv, WorkKnown, UsersTyped
<1>27. ASSUME NEW u \in Users, ListSessions(u)
      PROVE  WorkKnown'
  BY <1>1, <1>27 DEF ListSessions, Step, List, At, files, srv, WorkKnown, UsersTyped
<1>28. ASSUME NEW u \in Users, NEW b \in Bases, ListOne(u, b)
      PROVE  WorkKnown'
  BY <1>1, <1>28 DEF ListOne, Step, files, srv, WorkKnown, UsersTyped
<1>29. ASSUME NEW p \in Procs, NEW b \in Bases,
             Look(p, b)
      PROVE  WorkKnown'
  BY <1>2, <1>29 DEF Look, files, srv, usr
<1>30. ASSUME NEW p \in Procs,
             Probe(p)
      PROVE  WorkKnown'
  BY <1>2, <1>30 DEF Probe, files, srv, usr
<1>31. ASSUME NEW b \in Bases,
             Ages(b)
      PROVE  WorkKnown'
  BY <1>2, <1>31 DEF Ages, srv, usr, sweep
<1>32. ASSUME NEW o \in Servers,
             RefreshRegistry(o)
      PROVE  WorkKnown'
  BY <1>2, <1>32 DEF RefreshRegistry, srv, usr, sweep
<1>. QED
  BY <1>2, <1>3, <1>4, <1>5, <1>6, <1>7, <1>8, <1>9, <1>10, <1>11, <1>12, <1>13,
     <1>14, <1>15, <1>16, <1>17, <1>18, <1>19, <1>20, <1>21, <1>22, <1>23, <1>24,
     <1>25, <1>26, <1>27, <1>28, <1>29, <1>30, <1>31, <1>32 DEF Next, Bases, AllOps

(* Together: the types are kept.                                           *)
LEMMA TypesStep ==
    ASSUME RegistryAssumption, RegistryTypes, Next
    PROVE  RegistryTypes'
  BY FilesStep, ServersStep, UsersStep, SweepsStep, WorkStep DEF RegistryTypes

-----------------------------------------------------------------------------
(* Servers sweep in turn, and their files follow them.                     *)

(* A server lists stale files only as it begins, and dooms its own only as *)
(* it stops (cleanup_stale_port_files, remove_session_state_files).        *)
LEMMA TurnStep ==
    ASSUME RegistryAssumption, RegistryTypes, SweepsInTurn, Next
    PROVE  SweepsInTurn'
<1>1. FilesTyped /\ ServersTyped /\ UsersTyped /\ SweepsTyped /\ WorkKnown
  BY DEF RegistryTypes
<1>2. /\ stage \in [Servers -> Stages] /\ name \in [Servers -> Bases \cup {None}]
      /\ moving \in [Servers -> Requests \cup {None}]
      /\ requests \in [Servers -> SUBSET Requests]
  BY <1>1 DEF ServersTyped
<1>3. /\ port \in [Bases -> Servers \cup {None}]
/\ key \in [Bases -> Servers \cup {None}]
      /\ registry \in [Bases -> Servers \cup {None}]
  BY <1>1 DEF FilesTyped
<1>4. /\ todo \in [Procs -> SUBSET Bases] /\ seen \in [Procs -> Looks \cup {None}]
      /\ doomed \in [Procs -> Bases \cup {None}]
  BY <1>1 DEF SweepsTyped
<1>5. /\ None \notin Bases /\ None \notin Servers /\ None \notin Users
      /\ None \notin Requests /\ Users \cap Servers = {}
  BY RegistryAssumption
<1>6. CASE UNCHANGED <<stage, name, todo, seen, doomed>>
  BY <1>6 DEF SweepsInTurn
<1>7. ASSUME NEW p \in Procs, NEW b \in Bases, Look(p, b)
      PROVE  SweepsInTurn'
  BY <1>2, <1>4, <1>5, <1>7 DEF Look, files, srv, usr, SweepsInTurn, Procs, Looks
<1>8. ASSUME NEW p \in Procs, Probe(p)
      PROVE  SweepsInTurn'
  BY <1>2, <1>4, <1>5, <1>8 DEF Probe, files, srv, usr, SweepsInTurn
<1>9. ASSUME NEW p \in Procs, Remove(p)
      PROVE  SweepsInTurn'
  BY <1>2, <1>4, <1>5, <1>9 DEF Remove, usr, SweepsInTurn, Procs
<1>10. ASSUME NEW p \in Procs, Killed(p)
      PROVE  SweepsInTurn'
  BY <1>2, <1>4, <1>5, <1>10 DEF Killed, SweepsInTurn, Procs
<1>11. ASSUME NEW o \in Servers, Begin(o)
      PROVE  SweepsInTurn'
  BY <1>2, <1>4, <1>5, <1>11 DEF Begin, Goes, List, files, usr, sweep, SweepsInTurn,
     Procs
<1>12. ASSUME NEW o \in Servers, BindAndWritePort(o)
      PROVE  SweepsInTurn'
  BY <1>2, <1>4, <1>5, <1>12 DEF BindAndWritePort, Goes, usr, sweep, SweepsInTurn,
     Procs, Rests
<1>13. ASSUME NEW o \in Servers, WriteKey(o)
      PROVE  SweepsInTurn'
  BY <1>2, <1>4, <1>5, <1>13 DEF WriteKey, Goes, usr, sweep, SweepsInTurn
<1>14. ASSUME NEW o \in Servers, WriteRegistry(o)
      PROVE  SweepsInTurn'
  BY <1>2, <1>4, <1>5, <1>14 DEF WriteRegistry, Goes, usr, sweep, SweepsInTurn
<1>15. ASSUME NEW o \in Servers, Ready(o)
      PROVE  SweepsInTurn'
  BY <1>2, <1>4, <1>5, <1>15 DEF Ready, Goes, usr, sweep, SweepsInTurn
<1>16. ASSUME NEW o \in Servers, Replenish(o)
      PROVE  SweepsInTurn'
  BY <1>2, <1>4, <1>5, <1>16 DEF Replenish, Goes, files, usr, SweepsInTurn, Procs
<1>17. ASSUME NEW o \in Servers, SpawnWarm(o)
      PROVE  SweepsInTurn'
  BY <1>2, <1>4, <1>5, <1>17 DEF SpawnWarm, Spawn, Contest, files, usr, sweep,
     SweepsInTurn, Procs, Rests
<1>18. ASSUME NEW o \in Servers, Stop(o)
      PROVE  SweepsInTurn'
  BY <1>2, <1>4, <1>5, <1>1, <1>18 DEF Stop, Goes, files, usr, SweepsInTurn, Procs,
     WorkKnown
<1>19. ASSUME NEW o \in Servers, NEW r \in requests[o], MovePort(o, r)
      PROVE  SweepsInTurn'
  BY <1>2, <1>4, <1>5, <1>19 DEF MovePort, Goes, Contest, usr, sweep, SweepsInTurn,
     Procs
<1>20. ASSUME NEW o \in Servers, MoveKey(o)
      PROVE  SweepsInTurn'
  BY <1>2, <1>4, <1>5, <1>20 DEF MoveKey, Goes, usr, sweep, SweepsInTurn
<1>21. ASSUME NEW o \in Servers, MoveRegistry(o)
      PROVE  SweepsInTurn'
  BY <1>2, <1>4, <1>5, <1>21 DEF MoveRegistry, Goes, sweep, SweepsInTurn, Procs
<1>22. ASSUME NEW u \in Users, NEW op \in AllOps, NEW b \in Bases, NEW n \in Bases,
              Command(u, op, b, n)
      PROVE  SweepsInTurn'
  BY <1>2, <1>4, <1>5, <1>22 DEF Command, Step, List, files, srv, SweepsInTurn,
     Procs
<1>23. ASSUME NEW u \in Users, Check(u)
      PROVE  SweepsInTurn'
  BY <1>2, <1>4, <1>5, <1>23 DEF Check, Step, List, At, files, srv, SweepsInTurn,
     Procs
<1>24. ASSUME NEW u \in Users, AskWarm(u)
      PROVE  SweepsInTurn'
  BY <1>2, <1>4, <1>5, <1>24 DEF AskWarm, Step, At, files, SweepsInTurn, Procs
<1>25. ASSUME NEW u \in Users, SpawnServer(u)
      PROVE  SweepsInTurn'
  BY <1>2, <1>4, <1>5, <1>25 DEF SpawnServer, Spawn, Contest, Goes, Step, files,
     sweep, SweepsInTurn, Procs
<1>26. ASSUME NEW u \in Users, Verify(u)
      PROVE  SweepsInTurn'
  BY <1>2, <1>4, <1>5, <1>26 DEF Verify, Step, At, files, srv, SweepsInTurn, Procs
<1>27. ASSUME NEW u \in Users, Kill(u)
      PROVE  SweepsInTurn'
  BY <1>2, <1>4, <1>5, <1>27 DEF Kill, Step, List, At, files, srv, SweepsInTurn,
     Procs
<1>28. ASSUME NEW u \in Users, WarmUp(u)
      PROVE  SweepsInTurn'
  BY <1>2, <1>4, <1>5, <1>28 DEF WarmUp, Step, At, Contest, files, srv,
     SweepsInTurn, Procs
<1>29. ASSUME NEW u \in Users, ListSessions(u)
      PROVE  SweepsInTurn'
  BY <1>2, <1>4, <1>5, <1>29 DEF ListSessions, Step, List, At, files, srv,
     SweepsInTurn, Procs
<1>30. ASSUME NEW u \in Users, NEW b \in Bases, ListOne(u, b)
      PROVE  SweepsInTurn'
  BY <1>2, <1>4, <1>5, <1>30 DEF ListOne, Step, files, srv, SweepsInTurn, Procs
<1>31. ASSUME NEW b \in Bases,
             Ages(b)
      PROVE  SweepsInTurn'
  BY <1>6, <1>31 DEF Ages, srv, usr, sweep
<1>32. ASSUME NEW o \in Servers,
             RefreshRegistry(o)
      PROVE  SweepsInTurn'
  BY <1>6, <1>32 DEF RefreshRegistry, srv, usr, sweep
<1>33. ASSUME NEW u \in Users,
             \/ Recheck(u) \/ Claimed(u) \/ Wait(u) \/ Rename(u)
      PROVE  SweepsInTurn'
  BY <1>6, <1>33 DEF Recheck, files, srv, sweep, Claimed, Wait, Rename
<1>. QED
  BY <1>6, <1>7, <1>8, <1>9, <1>10, <1>11, <1>12, <1>13, <1>14, <1>15, <1>16, <1>17,
     <1>18, <1>19, <1>20, <1>21, <1>22, <1>23, <1>24, <1>25, <1>26, <1>27, <1>28,
     <1>29, <1>30, <1>31, <1>32, <1>33 DEF Next, Bases, AllOps

(* Files are written, moved and removed by the server that serves their    *)
(* base (write_current_session_registry, CtrlReq::RenameSession).          *)
LEMMA FollowStep ==
    ASSUME RegistryAssumption, RegistryTypes, SweepsInTurn, FilesFollow, Next
    PROVE  FilesFollow'
<1>1. FilesTyped /\ ServersTyped /\ UsersTyped /\ SweepsTyped /\ WorkKnown
  BY DEF RegistryTypes
<1>2. /\ stage \in [Servers -> Stages] /\ name \in [Servers -> Bases \cup {None}]
      /\ moving \in [Servers -> Requests \cup {None}]
      /\ requests \in [Servers -> SUBSET Requests]
  BY <1>1 DEF ServersTyped
<1>3. /\ port \in [Bases -> Servers \cup {None}]
/\ key \in [Bases -> Servers \cup {None}]
      /\ registry \in [Bases -> Servers \cup {None}]
  BY <1>1 DEF FilesTyped
<1>4. /\ todo \in [Procs -> SUBSET Bases] /\ seen \in [Procs -> Looks \cup {None}]
      /\ doomed \in [Procs -> Bases \cup {None}]
  BY <1>1 DEF SweepsTyped
<1>5. /\ None \notin Bases /\ None \notin Servers /\ None \notin Users
      /\ None \notin Requests /\ Users \cap Servers = {}
  BY RegistryAssumption
<1>6. CASE UNCHANGED <<port, registry, stage, name, moving>>
  BY <1>6 DEF FilesFollow, Home
<1>7. ASSUME NEW p \in Procs, Remove(p)
      PROVE  FilesFollow'
  BY <1>2, <1>3, <1>5, <1>1, <1>4, <1>7 DEF Remove, usr, FilesFollow, Home,
     SweepsInTurn, WorkKnown, Procs
<1>8. ASSUME NEW p \in Procs, Killed(p)
      PROVE  FilesFollow'
  BY <1>2, <1>3, <1>5, <1>4, <1>8 DEF Killed, FilesFollow, Home, SweepsInTurn,
     Procs, Alive
<1>9. ASSUME NEW o \in Servers, Begin(o)
      PROVE  FilesFollow'
  BY <1>2, <1>3, <1>5, <1>9 DEF Begin, Goes, List, files, usr, sweep, FilesFollow,
     Home
<1>10. ASSUME NEW o \in Servers, BindAndWritePort(o)
      PROVE  FilesFollow'
  BY <1>2, <1>3, <1>5, <1>1, <1>10 DEF BindAndWritePort, Goes, usr, sweep,
     FilesFollow, Home, WorkKnown
<1>11. ASSUME NEW o \in Servers, WriteKey(o)
      PROVE  FilesFollow'
  BY <1>2, <1>3, <1>5, <1>11 DEF WriteKey, Goes, usr, sweep, FilesFollow, Home
<1>12. ASSUME NEW o \in Servers, WriteRegistry(o)
      PROVE  FilesFollow'
  BY <1>2, <1>3, <1>5, <1>1, <1>12 DEF WriteRegistry, Goes, usr, sweep, FilesFollow,
     Home, WorkKnown
<1>13. ASSUME NEW o \in Servers, Ready(o)
      PROVE  FilesFollow'
  BY <1>2, <1>3, <1>5, <1>1, <1>13 DEF Ready, Goes, usr, sweep, FilesFollow, Home,
     WorkKnown
<1>14. ASSUME NEW o \in Servers, Replenish(o)
      PROVE  FilesFollow'
  BY <1>2, <1>3, <1>5, <1>14 DEF Replenish, Goes, files, usr, FilesFollow, Home
<1>15. ASSUME NEW o \in Servers, SpawnWarm(o)
      PROVE  FilesFollow'
  BY <1>2, <1>3, <1>5, <1>15 DEF SpawnWarm, Spawn, Contest, files, usr, sweep,
     FilesFollow, Home
<1>16. ASSUME NEW o \in Servers, RefreshRegistry(o)
      PROVE  FilesFollow'
  BY <1>2, <1>3, <1>5, <1>1, <1>16 DEF RefreshRegistry, srv, usr, sweep,
     FilesFollow, Home, WorkKnown
<1>17. ASSUME NEW o \in Servers, Stop(o)
      PROVE  FilesFollow'
  BY <1>2, <1>3, <1>5, <1>17 DEF Stop, Goes, files, usr, FilesFollow, Home
<1>18. ASSUME NEW o \in Servers, NEW r \in requests[o], MovePort(o, r)
      PROVE  FilesFollow'
  BY <1>2, <1>3, <1>5, <1>1, <1>18 DEF MovePort, Goes, Contest, usr, sweep,
     FilesFollow, Home, WorkKnown
<1>19. ASSUME NEW o \in Servers, MoveKey(o)
      PROVE  FilesFollow'
  BY <1>2, <1>3, <1>5, <1>1, <1>19 DEF MoveKey, Goes, usr, sweep, FilesFollow, Home,
     WorkKnown
<1>20. ASSUME NEW o \in Servers, MoveRegistry(o)
      PROVE  FilesFollow'
  BY <1>2, <1>3, <1>5, <1>1, <1>20 DEF MoveRegistry, Goes, sweep, FilesFollow, Home,
     WorkKnown, Requests
<1>21. ASSUME NEW u \in Users, SpawnServer(u)
      PROVE  FilesFollow'
  BY <1>2, <1>3, <1>5, <1>21 DEF SpawnServer, Spawn, Contest, Goes, Step, files,
     sweep, FilesFollow, Home
<1>22. ASSUME NEW p \in Procs, NEW b \in Bases,
             Look(p, b)
      PROVE  FilesFollow'
  BY <1>6, <1>22 DEF Look, files, srv, usr
<1>23. ASSUME NEW p \in Procs,
             Probe(p)
      PROVE  FilesFollow'
  BY <1>6, <1>23 DEF Probe, files, srv, usr
<1>24. ASSUME NEW b \in Bases,
             Ages(b)
      PROVE  FilesFollow'
  BY <1>6, <1>24 DEF Ages, srv, usr, sweep
<1>25. ASSUME NEW u \in Users, NEW op \in AllOps, NEW b \in Bases, NEW n \in Bases,
             Command(u, op, b, n)
      PROVE  FilesFollow'
  BY <1>6, <1>25 DEF Command, files, srv
<1>26. ASSUME NEW u \in Users,
             \/ Check(u) \/ Recheck(u) \/ AskWarm(u) \/ Claimed(u) \/ Wait(u)
             \/ Verify(u) \/ Kill(u) \/ Rename(u) \/ WarmUp(u) \/ ListSessions(u)
      PROVE  FilesFollow'
  BY <1>6, <1>26 DEF Check, files, srv, Recheck, sweep, AskWarm, Claimed, Wait,
     Verify, Kill, Rename, WarmUp, ListSessions
<1>27. ASSUME NEW u \in Users, NEW b \in Bases,
             ListOne(u, b)
      PROVE  FilesFollow'
  BY <1>6, <1>27 DEF ListOne, files, srv
<1>. QED
  BY <1>6, <1>7, <1>8, <1>9, <1>10, <1>11, <1>12, <1>13, <1>14, <1>15, <1>16, <1>17,
     <1>18, <1>19, <1>20, <1>21, <1>22, <1>23, <1>24, <1>25, <1>26, <1>27 DEF Next,
     Bases, AllOps

(* A base that was contested stays contested.                              *)
LEMMA ContestedStays ==
    ASSUME Next
    PROVE  contested \subseteq contested'
<1>1. CASE UNCHANGED <<contested>>
  BY <1>1
<1>2. ASSUME NEW o \in Servers, SpawnWarm(o)
      PROVE  contested \subseteq contested'
  BY <1>2 DEF SpawnWarm, Spawn, Contest, files, usr, sweep
<1>3. ASSUME NEW o \in Servers, NEW r \in requests[o], MovePort(o, r)
      PROVE  contested \subseteq contested'
  BY <1>3 DEF MovePort, Goes, Contest, usr, sweep
<1>4. ASSUME NEW u \in Users, SpawnServer(u)
      PROVE  contested \subseteq contested'
  BY <1>4 DEF SpawnServer, Spawn, Contest, Goes, Step, files, sweep
<1>5. ASSUME NEW u \in Users, WarmUp(u)
      PROVE  contested \subseteq contested'
  BY <1>5 DEF WarmUp, Step, At, Contest, files, srv
<1>6. ASSUME NEW p \in Procs, NEW b \in Bases,
             Look(p, b)
      PROVE  contested \subseteq contested'
  BY <1>1, <1>6 DEF Look, files, srv, usr
<1>7. ASSUME NEW p \in Procs,
             Probe(p) \/ Remove(p) \/ Killed(p)
      PROVE  contested \subseteq contested'
  BY <1>1, <1>7 DEF Probe, files, srv, usr, Remove, Killed
<1>8. ASSUME NEW b \in Bases,
             Ages(b)
      PROVE  contested \subseteq contested'
  BY <1>1, <1>8 DEF Ages, srv, usr, sweep
<1>9. ASSUME NEW o \in Servers,
             \/ Begin(o) \/ BindAndWritePort(o) \/ WriteKey(o) \/ WriteRegistry(o)
             \/ Ready(o) \/ Replenish(o) \/ RefreshRegistry(o) \/ Stop(o)
             \/ MoveKey(o) \/ MoveRegistry(o)
      PROVE  contested \subseteq contested'
  BY <1>1, <1>9 DEF Begin, files, usr, sweep, BindAndWritePort, WriteKey,
     WriteRegistry, Ready, Replenish, RefreshRegistry, srv, Stop, MoveKey,
     MoveRegistry
<1>10. ASSUME NEW u \in Users, NEW op \in AllOps, NEW b \in Bases, NEW n \in Bases,
             Command(u, op, b, n)
      PROVE  contested \subseteq contested'
  BY <1>1, <1>10 DEF Command, files, srv
<1>11. ASSUME NEW u \in Users,
             \/ Check(u) \/ Recheck(u) \/ AskWarm(u) \/ Claimed(u) \/ Wait(u)
             \/ Verify(u) \/ Kill(u) \/ Rename(u) \/ ListSessions(u)
      PROVE  contested \subseteq contested'
  BY <1>1, <1>11 DEF Check, files, srv, Recheck, sweep, AskWarm, Claimed, Wait,
     Verify, Kill, Rename, ListSessions
<1>12. ASSUME NEW u \in Users, NEW b \in Bases,
             ListOne(u, b)
      PROVE  contested \subseteq contested'
  BY <1>1, <1>12 DEF ListOne, files, srv
<1>. QED
  BY <1>1, <1>2, <1>3, <1>4, <1>5, <1>6, <1>7, <1>8, <1>9, <1>10, <1>11, <1>12
    DEF Next, Bases, AllOps

(* A server that comes to a base where another works contests it.          *)
LEMMA ExclusiveStep ==
    ASSUME RegistryAssumption, RegistryTypes, Exclusive, Next
    PROVE  Exclusive'
<1>1. FilesTyped /\ ServersTyped /\ UsersTyped /\ SweepsTyped /\ WorkKnown
  BY DEF RegistryTypes
<1>2. /\ stage \in [Servers -> Stages] /\ name \in [Servers -> Bases \cup {None}]
      /\ moving \in [Servers -> Requests \cup {None}]
      /\ requests \in [Servers -> SUBSET Requests]
  BY <1>1 DEF ServersTyped
<1>3. /\ port \in [Bases -> Servers \cup {None}]
/\ key \in [Bases -> Servers \cup {None}]
      /\ registry \in [Bases -> Servers \cup {None}]
  BY <1>1 DEF FilesTyped
<1>4. /\ todo \in [Procs -> SUBSET Bases] /\ seen \in [Procs -> Looks \cup {None}]
      /\ doomed \in [Procs -> Bases \cup {None}]
  BY <1>1 DEF SweepsTyped
<1>5. /\ None \notin Bases /\ None \notin Servers /\ None \notin Users
      /\ None \notin Requests /\ Users \cap Servers = {}
  BY RegistryAssumption
<1>6. CASE UNCHANGED <<stage, name, moving, contested>>
  BY <1>6 DEF Exclusive, Alive, WorksOn
<1>7. ASSUME NEW p \in Procs, Remove(p)
      PROVE  Exclusive'
  BY <1>2, <1>5, <1>7 DEF Remove, usr, Exclusive, Alive, WorksOn
<1>8. ASSUME NEW p \in Procs, Killed(p)
      PROVE  Exclusive'
  BY <1>2, <1>5, <1>8 DEF Killed, Exclusive, Alive, WorksOn
<1>9. ASSUME NEW o \in Servers, Begin(o)
      PROVE  Exclusive'
  BY <1>2, <1>5, <1>9 DEF Begin, Goes, List, files, usr, sweep, Exclusive, Alive,
     WorksOn
<1>10. ASSUME NEW o \in Servers, BindAndWritePort(o)
      PROVE  Exclusive'
  BY <1>2, <1>5, <1>10 DEF BindAndWritePort, Goes, usr, sweep, Exclusive, Alive,
     WorksOn
<1>11. ASSUME NEW o \in Servers, WriteKey(o)
      PROVE  Exclusive'
  BY <1>2, <1>5, <1>11 DEF WriteKey, Goes, usr, sweep, Exclusive, Alive, WorksOn
<1>12. ASSUME NEW o \in Servers, WriteRegistry(o)
      PROVE  Exclusive'
  BY <1>2, <1>5, <1>12 DEF WriteRegistry, Goes, usr, sweep, Exclusive, Alive,
     WorksOn
<1>13. ASSUME NEW o \in Servers, Ready(o)
      PROVE  Exclusive'
  BY <1>2, <1>5, <1>13 DEF Ready, Goes, usr, sweep, Exclusive, Alive, WorksOn
<1>14. ASSUME NEW o \in Servers, Replenish(o)
      PROVE  Exclusive'
  BY <1>2, <1>5, <1>14 DEF Replenish, Goes, files, usr, Exclusive, Alive, WorksOn
<1>15. ASSUME NEW o \in Servers, SpawnWarm(o)
      PROVE  Exclusive'
  BY <1>2, <1>5, <1>1, <1>15 DEF SpawnWarm, Spawn, Contest, files, usr, sweep,
     Exclusive, Alive, WorksOn, WorkKnown, Free, Undisturbed, Taken, Spoiled
<1>16. ASSUME NEW o \in Servers, Stop(o)
      PROVE  Exclusive'
  BY <1>2, <1>5, <1>16 DEF Stop, Goes, files, usr, Exclusive, Alive, WorksOn
<1>17. ASSUME NEW o \in Servers, NEW r \in requests[o], MovePort(o, r)
      PROVE  Exclusive'
  BY <1>2, <1>5, <1>1, <1>17 DEF MovePort, Goes, Contest, usr, sweep, Exclusive,
     Alive, WorksOn, WorkKnown, Free, Undisturbed, Taken, Spoiled
<1>18. ASSUME NEW o \in Servers, MoveKey(o)
      PROVE  Exclusive'
  BY <1>2, <1>5, <1>1, <1>18 DEF MoveKey, Goes, usr, sweep, Exclusive, Alive,
     WorksOn, WorkKnown
<1>19. ASSUME NEW o \in Servers, MoveRegistry(o)
      PROVE  Exclusive'
  BY <1>2, <1>5, <1>1, <1>19 DEF MoveRegistry, Goes, sweep, Exclusive, Alive,
     WorksOn, WorkKnown, Requests
<1>20. ASSUME NEW u \in Users, SpawnServer(u)
      PROVE  Exclusive'
  BY <1>2, <1>5, <1>1, <1>20 DEF SpawnServer, Spawn, Contest, Goes, Step, files,
     sweep, Exclusive, Alive, WorksOn, WorkKnown, Free, Undisturbed, Taken, Spoiled
<1>21. ASSUME NEW u \in Users, WarmUp(u)
      PROVE  Exclusive'
  BY <1>2, <1>5, <1>21 DEF WarmUp, Step, At, Contest, files, srv, Exclusive, Alive,
     WorksOn
<1>22. ASSUME NEW p \in Procs, NEW b \in Bases,
             Look(p, b)
      PROVE  Exclusive'
  BY <1>6, <1>22 DEF Look, files, srv, usr
<1>23. ASSUME NEW p \in Procs,
             Probe(p)
      PROVE  Exclusive'
  BY <1>6, <1>23 DEF Probe, files, srv, usr
<1>24. ASSUME NEW b \in Bases,
             Ages(b)
      PROVE  Exclusive'
  BY <1>6, <1>24 DEF Ages, srv, usr, sweep
<1>25. ASSUME NEW o \in Servers,
             RefreshRegistry(o)
      PROVE  Exclusive'
  BY <1>6, <1>25 DEF RefreshRegistry, srv, usr, sweep
<1>26. ASSUME NEW u \in Users, NEW op \in AllOps, NEW b \in Bases, NEW n \in Bases,
             Command(u, op, b, n)
      PROVE  Exclusive'
  BY <1>6, <1>26 DEF Command, files, srv
<1>27. ASSUME NEW u \in Users,
             \/ Check(u) \/ Recheck(u) \/ AskWarm(u) \/ Claimed(u) \/ Wait(u)
             \/ Verify(u) \/ Kill(u) \/ Rename(u) \/ ListSessions(u)
      PROVE  Exclusive'
  BY <1>6, <1>27 DEF Check, files, srv, Recheck, sweep, AskWarm, Claimed, Wait,
     Verify, Kill, Rename, ListSessions
<1>28. ASSUME NEW u \in Users, NEW b \in Bases,
             ListOne(u, b)
      PROVE  Exclusive'
  BY <1>6, <1>28 DEF ListOne, files, srv
<1>. QED
  BY <1>6, <1>7, <1>8, <1>9, <1>10, <1>11, <1>12, <1>13, <1>14, <1>15, <1>16, <1>17,
     <1>18, <1>19, <1>20, <1>21, <1>22, <1>23, <1>24, <1>25, <1>26, <1>27, <1>28
    DEF Next, Bases, AllOps

(* Contesting a base leaves no clean move from a contested one.            *)
LEMMA ContestClean ==
    ASSUME RegistryAssumption, RegistryTypes, Exclusive, CleanMoves,
           NEW b \in Bases, NEW clean \in BOOLEAN, Contest(b, clean),
           NEW s \in Servers, moving[s] # None, moving[s].to \notin contested'
    PROVE  name[s] \notin contested' /\ name[s] # moving[s].to
<1>1. FilesTyped /\ ServersTyped /\ UsersTyped /\ SweepsTyped /\ WorkKnown
  BY DEF RegistryTypes
<1>2. /\ stage \in [Servers -> Stages] /\ name \in [Servers -> Bases \cup {None}]
      /\ moving \in [Servers -> Requests \cup {None}]
      /\ requests \in [Servers -> SUBSET Requests]
  BY <1>1 DEF ServersTyped
<1>3. /\ port \in [Bases -> Servers \cup {None}]
/\ key \in [Bases -> Servers \cup {None}]
      /\ registry \in [Bases -> Servers \cup {None}]
  BY <1>1 DEF FilesTyped
<1>4. /\ todo \in [Procs -> SUBSET Bases] /\ seen \in [Procs -> Looks \cup {None}]
      /\ doomed \in [Procs -> Bases \cup {None}]
  BY <1>1 DEF SweepsTyped
<1>5. /\ None \notin Bases /\ None \notin Servers /\ None \notin Users
      /\ None \notin Requests /\ Users \cap Servers = {}
  BY RegistryAssumption
<1>6. stage[s] \in {"move_key", "move_registry"} /\ name[s] \in Bases
  BY <1>1 DEF WorkKnown
<1>7. moving[s].to \notin contested
  BY DEF Contest
<1>8. name[s] \notin contested /\ name[s] # moving[s].to
  BY <1>7 DEF CleanMoves
<1>9. ASSUME ~clean, name[s] \in Spoiled(b) PROVE FALSE
  <2>1. contested' = contested \cup Spoiled(b)
    BY <1>9 DEF Contest
  <2>2. CASE name[s] = b
    BY <2>1, <2>2 DEF Spoiled
  <2>3. CASE name[s] # b
    <3>1. PICK o \in Servers : name[o] = b /\ moving[o] # None /\ name[s] = moving[o].to
      BY <1>9, <2>3 DEF Spoiled
    <3>2. stage[o] \in {"move_key", "move_registry"} /\ o # s
      BY <1>1, <2>3, <3>1 DEF WorkKnown
    <3>. QED
      BY <1>6, <1>8, <3>1, <3>2 DEF Exclusive, Alive, WorksOn
  <2>. QED
    BY <2>2, <2>3
<1>. QED
  BY <1>8, <1>9 DEF Contest

(* What is clean where a server goes was clean where it leaves.            *)
LEMMA CleanStep ==
    ASSUME RegistryAssumption, RegistryTypes, Exclusive, CleanMoves, PortKept,
           Next
    PROVE  CleanMoves'
<1>1. FilesTyped /\ ServersTyped /\ UsersTyped /\ SweepsTyped /\ WorkKnown
  BY DEF RegistryTypes
<1>2. /\ stage \in [Servers -> Stages] /\ name \in [Servers -> Bases \cup {None}]
      /\ moving \in [Servers -> Requests \cup {None}]
      /\ requests \in [Servers -> SUBSET Requests]
  BY <1>1 DEF ServersTyped
<1>3. /\ port \in [Bases -> Servers \cup {None}]
/\ key \in [Bases -> Servers \cup {None}]
      /\ registry \in [Bases -> Servers \cup {None}]
  BY <1>1 DEF FilesTyped
<1>4. /\ todo \in [Procs -> SUBSET Bases] /\ seen \in [Procs -> Looks \cup {None}]
      /\ doomed \in [Procs -> Bases \cup {None}]
  BY <1>1 DEF SweepsTyped
<1>5. /\ None \notin Bases /\ None \notin Servers /\ None \notin Users
      /\ None \notin Requests /\ Users \cap Servers = {}
  BY RegistryAssumption
<1>6. CASE UNCHANGED <<name, moving, contested>>
  BY <1>6 DEF CleanMoves
<1>7. ASSUME NEW p \in Procs, Killed(p)
      PROVE  CleanMoves'
  BY <1>2, <1>5, <1>7 DEF Killed, CleanMoves
<1>8. ASSUME NEW o \in Servers, SpawnWarm(o)
      PROVE  CleanMoves'
  <2>1. PICK w \in Servers : Spawn(w, Warm)
    BY <1>8 DEF SpawnWarm
  <2>2. moving' = moving
    BY <1>8 DEF SpawnWarm
  <2>3. ASSUME NEW s \in Servers, moving'[s] # None, moving'[s].to \notin contested'
        PROVE  name'[s] \notin contested' /\ name'[s] # moving'[s].to
    <3>1. Contest(Warm, Free(Warm, w)) /\ Warm \in Bases /\ Free(Warm, w) \in BOOLEAN
      BY <2>1 DEF Spawn, Bases, Free, Undisturbed
    <3>2. name[s] \notin contested' /\ name[s] # moving[s].to
      BY <2>2, <2>3, <3>1, ContestClean
    <3>3. name'[s] = name[s]
      BY <1>1, <1>2, <2>1, <2>2, <2>3 DEF Spawn, WorkKnown
    <3>. QED
      BY <2>2, <3>2, <3>3
  <2>. QED
    BY <2>3 DEF CleanMoves
<1>9. ASSUME NEW o \in Servers, NEW r \in requests[o], MovePort(o, r)
      PROVE  CleanMoves'
  <2>. DEFINE clean == /\ Free(r.to, o) /\ Undisturbed(name[o], o)
                       /\ name[o] \notin contested
  <2>1. /\ stage[o] = "running" /\ name' = name
        /\ moving' = [moving EXCEPT ![o] = r]
        /\ Contest(r.to, clean)
    BY <1>9 DEF MovePort
  <2>2. r.to \in Bases /\ clean \in BOOLEAN
    BY <1>2 DEF Requests, Free, Undisturbed
  <2>3. clean => port[r.to] = None
    BY DEF Free
  <2>4. clean => name[o] \notin contested
    OBVIOUS
  <2>. HIDE DEF clean
  <2>5. ASSUME r.to \notin contested'
        PROVE  name[o] \notin contested' /\ name[o] # r.to
    <3>1. clean /\ contested' = contested
      BY <2>1, <2>2, <2>5 DEF Contest, Spoiled
    <3>2. moving[o] = None
      BY <1>1, <2>1 DEF WorkKnown
    <3>3. port[name[o]] = o
      BY <2>1, <2>4, <3>1, <3>2 DEF PortKept, Keeps, Alive, Home
    <3>. QED
      BY <1>5, <2>3, <2>4, <3>1, <3>3
  <2>6. ASSUME NEW s \in Servers, s # o, moving[s] # None, moving[s].to \notin contested'
        PROVE  name[s] \notin contested' /\ name[s] # moving[s].to
    BY <2>1, <2>2, <2>6, ContestClean
  <2>7. ASSUME NEW s \in Servers, moving'[s] # None, moving'[s].to \notin contested'
        PROVE  name'[s] \notin contested' /\ name'[s] # moving'[s].to
    <3>1. CASE s = o
      BY <1>2, <2>1, <2>5, <2>7, <3>1
    <3>2. CASE s # o
      BY <1>2, <2>1, <2>6, <2>7, <3>2
    <3>. QED
      BY <3>1, <3>2
  <2>. QED
    BY <2>7 DEF CleanMoves
<1>10. ASSUME NEW o \in Servers, MoveRegistry(o)
      PROVE  CleanMoves'
  BY <1>2, <1>5, <1>1, <1>10 DEF MoveRegistry, Goes, sweep, CleanMoves, WorkKnown,
     Requests
<1>11. ASSUME NEW u \in Users, SpawnServer(u)
      PROVE  CleanMoves'
  <2>. DEFINE b == cmd[u].base
  <2>1. PICK w \in Servers : Spawn(w, b)
    BY <1>11 DEF SpawnServer
  <2>2. moving' = moving
    BY <1>11 DEF SpawnServer
  <2>3. b \in Bases
    BY <1>1, <1>11 DEF SpawnServer, WorkKnown, UsersTyped, Commands
  <2>. HIDE DEF b
  <2>4. ASSUME NEW s \in Servers, moving'[s] # None, moving'[s].to \notin contested'
        PROVE  name'[s] \notin contested' /\ name'[s] # moving'[s].to
    <3>1. Contest(b, Free(b, w)) /\ Free(b, w) \in BOOLEAN
      BY <2>1 DEF Spawn, Free, Undisturbed
    <3>2. name[s] \notin contested' /\ name[s] # moving[s].to
      BY <2>2, <2>3, <2>4, <3>1, ContestClean
    <3>3. name'[s] = name[s]
      BY <1>1, <1>2, <2>1, <2>2, <2>4 DEF Spawn, WorkKnown
    <3>. QED
      BY <2>2, <3>2, <3>3
  <2>. QED
    BY <2>4 DEF CleanMoves
<1>12. ASSUME NEW u \in Users, WarmUp(u)
      PROVE  CleanMoves'
  <2>1. moving' = moving /\ name' = name
    BY <1>12 DEF WarmUp, srv
  <2>2. CASE contested' = contested
    BY <2>1, <2>2 DEF CleanMoves
  <2>3. CASE Contest(Warm, ~Taken(Warm, None))
    <3>1. Warm \in Bases /\ (~Taken(Warm, None)) \in BOOLEAN
      BY DEF Bases, Taken
    <3>2. ASSUME NEW s \in Servers, moving[s] # None, moving[s].to \notin contested'
          PROVE  name[s] \notin contested' /\ name[s] # moving[s].to
      BY <2>3, <3>1, <3>2, ContestClean
    <3>. QED
      BY <2>1, <3>2 DEF CleanMoves
  <2>. QED
    BY <1>12, <2>2, <2>3 DEF WarmUp
<1>13. ASSUME NEW p \in Procs, NEW b \in Bases,
             Look(p, b)
      PROVE  CleanMoves'
  BY <1>6, <1>13 DEF Look, files, srv, usr
<1>14. ASSUME NEW p \in Procs,
             Probe(p) \/ Remove(p)
      PROVE  CleanMoves'
  BY <1>6, <1>14 DEF Probe, files, srv, usr, Remove
<1>15. ASSUME NEW b \in Bases,
             Ages(b)
      PROVE  CleanMoves'
  BY <1>6, <1>15 DEF Ages, srv, usr, sweep
<1>16. ASSUME NEW o \in Servers,
             \/ Begin(o) \/ BindAndWritePort(o) \/ WriteKey(o) \/ WriteRegistry(o)
             \/ Ready(o) \/ Replenish(o) \/ RefreshRegistry(o) \/ Stop(o)
             \/ MoveKey(o)
      PROVE  CleanMoves'
  BY <1>6, <1>16 DEF Begin, files, usr, sweep, BindAndWritePort, WriteKey,
     WriteRegistry, Ready, Replenish, RefreshRegistry, srv, Stop, MoveKey
<1>17. ASSUME NEW u \in Users, NEW op \in AllOps, NEW b \in Bases, NEW n \in Bases,
             Command(u, op, b, n)
      PROVE  CleanMoves'
  BY <1>6, <1>17 DEF Command, files, srv
<1>18. ASSUME NEW u \in Users,
             \/ Check(u) \/ Recheck(u) \/ AskWarm(u) \/ Claimed(u) \/ Wait(u)
             \/ Verify(u) \/ Kill(u) \/ Rename(u) \/ ListSessions(u)
      PROVE  CleanMoves'
  BY <1>6, <1>18 DEF Check, files, srv, Recheck, sweep, AskWarm, Claimed, Wait,
     Verify, Kill, Rename, ListSessions
<1>19. ASSUME NEW u \in Users, NEW b \in Bases,
             ListOne(u, b)
      PROVE  CleanMoves'
  BY <1>6, <1>19 DEF ListOne, files, srv
<1>. QED
  BY <1>6, <1>7, <1>8, <1>9, <1>10, <1>11, <1>12, <1>13, <1>14, <1>15, <1>16, <1>17,
     <1>18, <1>19 DEF Next, Bases, AllOps

-----------------------------------------------------------------------------
(* What others do to a base.                                               *)

(* A base comes into doubt only when its port file is there                *)
(* (cleanup_stale_port_files, wait_for_session).                           *)
LEMMA DoubtStep ==
    ASSUME RegistryAssumption, RegistryTypes, Next, NEW b \in Bases,
           Doubted(b)', ~Doubted(b)
    PROVE  port[b] # None
<1>1. FilesTyped /\ ServersTyped /\ UsersTyped /\ SweepsTyped /\ WorkKnown
  BY DEF RegistryTypes
<1>2. /\ stage \in [Servers -> Stages] /\ name \in [Servers -> Bases \cup {None}]
      /\ moving \in [Servers -> Requests \cup {None}]
      /\ requests \in [Servers -> SUBSET Requests]
  BY <1>1 DEF ServersTyped
<1>3. /\ port \in [Bases -> Servers \cup {None}]
/\ key \in [Bases -> Servers \cup {None}]
      /\ registry \in [Bases -> Servers \cup {None}]
  BY <1>1 DEF FilesTyped
<1>4. /\ todo \in [Procs -> SUBSET Bases] /\ seen \in [Procs -> Looks \cup {None}]
      /\ doomed \in [Procs -> Bases \cup {None}]
  BY <1>1 DEF SweepsTyped
<1>5. /\ None \notin Bases /\ None \notin Servers /\ None \notin Users
      /\ None \notin Requests /\ Users \cap Servers = {}
  BY RegistryAssumption
<1>6. pc \in [Users -> Steps] /\ cmd \in [Users -> Commands \cup {None}]
  BY <1>1 DEF UsersTyped
<1>7. CASE UNCHANGED <<pc, cmd, todo, seen>>
  BY <1>7 DEF Doubted
<1>8. ASSUME NEW p \in Procs, NEW x \in Bases, Look(p, x)
      PROVE  port[b] # None
  BY <1>4, <1>5, <1>6, <1>8 DEF Look, files, srv, usr, Doubted, Looks
<1>9. ASSUME NEW p \in Procs, Probe(p)
      PROVE  port[b] # None
  BY <1>4, <1>5, <1>6, <1>9 DEF Probe, files, srv, usr, Doubted
<1>10. ASSUME NEW p \in Procs, Killed(p)
      PROVE  port[b] # None
  BY <1>4, <1>5, <1>6, <1>10 DEF Killed, Doubted, Procs
<1>11. ASSUME NEW o \in Servers, Begin(o)
      PROVE  port[b] # None
  BY <1>4, <1>5, <1>6, <1>11 DEF Begin, Goes, List, files, usr, sweep, Doubted,
     Procs
<1>12. ASSUME NEW u \in Users, NEW op \in AllOps, NEW x \in Bases, NEW n \in Bases,
              Command(u, op, x, n)
      PROVE  port[b] # None
  BY <1>4, <1>5, <1>6, <1>12 DEF Command, Step, List, files, srv, Doubted, Procs
<1>13. ASSUME NEW u \in Users, Check(u)
      PROVE  port[b] # None
  BY <1>4, <1>5, <1>6, <1>13 DEF Check, Step, List, At, files, srv, Doubted, Procs
<1>14. ASSUME NEW u \in Users, Recheck(u)
      PROVE  port[b] # None
  BY <1>4, <1>5, <1>6, <1>14 DEF Recheck, Step, At, files, srv, sweep, Doubted
<1>15. ASSUME NEW u \in Users, AskWarm(u)
      PROVE  port[b] # None
  BY <1>4, <1>5, <1>6, <1>15 DEF AskWarm, Step, At, files, Doubted
<1>16. ASSUME NEW u \in Users, Claimed(u)
      PROVE  port[b] # None
  BY <1>4, <1>5, <1>6, <1>16 DEF Claimed, Step, files, srv, sweep, Doubted
<1>17. ASSUME NEW u \in Users, SpawnServer(u)
      PROVE  port[b] # None
  BY <1>4, <1>5, <1>6, <1>17 DEF SpawnServer, Spawn, Contest, Goes, Step, files,
     sweep, Doubted
<1>18. ASSUME NEW u \in Users, Wait(u)
      PROVE  port[b] # None
  BY <1>4, <1>5, <1>6, <1>18 DEF Wait, Step, files, srv, sweep, Doubted
<1>19. ASSUME NEW u \in Users, Verify(u)
      PROVE  port[b] # None
  BY <1>4, <1>5, <1>6, <1>19 DEF Verify, Step, At, files, srv, Doubted
<1>20. ASSUME NEW u \in Users, Kill(u)
      PROVE  port[b] # None
  BY <1>4, <1>5, <1>6, <1>20 DEF Kill, Step, List, At, files, srv, Doubted, Procs
<1>21. ASSUME NEW u \in Users, Rename(u)
      PROVE  port[b] # None
  BY <1>4, <1>5, <1>6, <1>21 DEF Rename, Step, At, files, sweep, Doubted
<1>22. ASSUME NEW u \in Users, WarmUp(u)
      PROVE  port[b] # None
  BY <1>4, <1>5, <1>6, <1>22 DEF WarmUp, Step, At, Contest, files, srv, Doubted
<1>23. ASSUME NEW u \in Users, ListSessions(u)
      PROVE  port[b] # None
  BY <1>4, <1>5, <1>6, <1>23 DEF ListSessions, Step, List, At, files, srv, Doubted,
     Procs
<1>24. ASSUME NEW u \in Users, NEW x \in Bases, ListOne(u, x)
      PROVE  port[b] # None
  BY <1>4, <1>5, <1>6, <1>24 DEF ListOne, Step, files, srv, Doubted, Procs
<1>25. ASSUME NEW p \in Procs,
             Remove(p)
      PROVE  port[b] # None
  BY <1>7, <1>25 DEF Remove, usr
<1>26. ASSUME NEW x \in Bases,
             Ages(x)
      PROVE  port[b] # None
  BY <1>7, <1>26 DEF Ages, srv, usr, sweep
<1>27. ASSUME NEW o \in Servers,
             \/ BindAndWritePort(o) \/ WriteKey(o) \/ WriteRegistry(o) \/ Ready(o)
             \/ Replenish(o) \/ SpawnWarm(o) \/ RefreshRegistry(o) \/ Stop(o)
             \/ MoveKey(o) \/ MoveRegistry(o)
      PROVE  port[b] # None
  BY <1>7, <1>27 DEF BindAndWritePort, usr, sweep, WriteKey, WriteRegistry, Ready,
     Replenish, files, SpawnWarm, RefreshRegistry, srv, Stop, MoveKey, MoveRegistry
<1>28. ASSUME NEW o \in Servers, NEW r \in requests[o],
             MovePort(o, r)
      PROVE  port[b] # None
  BY <1>7, <1>28 DEF MovePort, usr, sweep
<1>. QED
  BY <1>7, <1>8, <1>9, <1>10, <1>11, <1>12, <1>13, <1>14, <1>15, <1>16, <1>17,
     <1>18, <1>19, <1>20, <1>21, <1>22, <1>23, <1>24, <1>25, <1>26, <1>27, <1>28
    DEF Next, Bases, AllOps

(* Nobody but its server touches the port file of a base, unless it is     *)
(* doomed, ...                                                             *)
LEMMA OthersPort ==
    ASSUME RegistryAssumption, RegistryTypes, Next, NEW s \in Servers, NEW b \in Bases,
           Alive(s), WorksOn(s, b), b \notin contested, b \notin contested', Exclusive,
           ~Doomed(b)
    PROVE  \/ port'[b] = port[b]
           \/ BindAndWritePort(s)
           \/ \E q \in requests[s] : MovePort(s, q)
<1>1. FilesTyped /\ ServersTyped /\ UsersTyped /\ SweepsTyped /\ WorkKnown
  BY DEF RegistryTypes
<1>2. /\ stage \in [Servers -> Stages] /\ name \in [Servers -> Bases \cup {None}]
      /\ moving \in [Servers -> Requests \cup {None}]
      /\ requests \in [Servers -> SUBSET Requests]
  BY <1>1 DEF ServersTyped
<1>3. /\ port \in [Bases -> Servers \cup {None}]
/\ key \in [Bases -> Servers \cup {None}]
      /\ registry \in [Bases -> Servers \cup {None}]
  BY <1>1 DEF FilesTyped
<1>4. /\ todo \in [Procs -> SUBSET Bases] /\ seen \in [Procs -> Looks \cup {None}]
      /\ doomed \in [Procs -> Bases \cup {None}]
  BY <1>1 DEF SweepsTyped
<1>5. /\ None \notin Bases /\ None \notin Servers /\ None \notin Users
      /\ None \notin Requests /\ Users \cap Servers = {}
  BY RegistryAssumption
<1>6. ASSUME NEW o \in Servers, Alive(o), WorksOn(o, b) PROVE o = s
  BY <1>6 DEF Exclusive
<1>7. CASE UNCHANGED <<port>>
  BY <1>7
<1>8. ASSUME NEW p \in Procs, Remove(p)
      PROVE  \/ port'[b] = port[b]
         \/ BindAndWritePort(s)
         \/ \E q \in requests[s] : MovePort(s, q)
  BY <1>2, <1>3, <1>4, <1>5, <1>6, <1>8 DEF Remove, usr, Alive, WorksOn, Doomed
<1>9. ASSUME NEW p \in Procs, Killed(p)
      PROVE  \/ port'[b] = port[b]
         \/ BindAndWritePort(s)
         \/ \E q \in requests[s] : MovePort(s, q)
  BY <1>2, <1>3, <1>4, <1>5, <1>6, <1>9 DEF Killed, Alive, WorksOn, Doomed
<1>10. ASSUME NEW o \in Servers, BindAndWritePort(o)
      PROVE  \/ port'[b] = port[b]
         \/ BindAndWritePort(s)
         \/ \E q \in requests[s] : MovePort(s, q)
  BY <1>2, <1>3, <1>4, <1>5, <1>6, <1>1, <1>10 DEF BindAndWritePort, Goes, usr,
     sweep, Alive, WorksOn, Doomed, WorkKnown
<1>11. ASSUME NEW o \in Servers, NEW r \in requests[o], MovePort(o, r)
      PROVE  \/ port'[b] = port[b]
         \/ BindAndWritePort(s)
         \/ \E q \in requests[s] : MovePort(s, q)
  BY <1>2, <1>3, <1>4, <1>5, <1>6, <1>1, <1>11 DEF MovePort, Goes, Contest, usr,
     sweep, Alive, WorksOn, Doomed, WorkKnown, Requests, Free, Undisturbed, Taken,
     Spoiled
<1>12. ASSUME NEW p \in Procs, NEW x \in Bases,
             Look(p, x)
      PROVE  \/ port'[b] = port[b]
         \/ BindAndWritePort(s)
         \/ \E q \in requests[s] : MovePort(s, q)
  BY <1>7, <1>12 DEF Look, files, srv, usr
<1>13. ASSUME NEW p \in Procs,
             Probe(p)
      PROVE  \/ port'[b] = port[b]
         \/ BindAndWritePort(s)
         \/ \E q \in requests[s] : MovePort(s, q)
  BY <1>7, <1>13 DEF Probe, files, srv, usr
<1>14. ASSUME NEW x \in Bases,
             Ages(x)
      PROVE  \/ port'[b] = port[b]
         \/ BindAndWritePort(s)
         \/ \E q \in requests[s] : MovePort(s, q)
  BY <1>7, <1>14 DEF Ages, srv, usr, sweep
<1>15. ASSUME NEW o \in Servers,
             \/ Begin(o) \/ WriteKey(o) \/ WriteRegistry(o) \/ Ready(o)
             \/ Replenish(o) \/ SpawnWarm(o) \/ RefreshRegistry(o) \/ Stop(o)
             \/ MoveKey(o) \/ MoveRegistry(o)
      PROVE  \/ port'[b] = port[b]
         \/ BindAndWritePort(s)
         \/ \E q \in requests[s] : MovePort(s, q)
  BY <1>7, <1>15 DEF Begin, files, usr, sweep, WriteKey, WriteRegistry, Ready,
     Replenish, SpawnWarm, RefreshRegistry, srv, Stop, MoveKey, MoveRegistry
<1>16. ASSUME NEW u \in Users, NEW op \in AllOps, NEW x \in Bases, NEW n \in Bases,
             Command(u, op, x, n)
      PROVE  \/ port'[b] = port[b]
         \/ BindAndWritePort(s)
         \/ \E q \in requests[s] : MovePort(s, q)
  BY <1>7, <1>16 DEF Command, files, srv
<1>17. ASSUME NEW u \in Users,
             \/ Check(u) \/ Recheck(u) \/ AskWarm(u) \/ Claimed(u)
             \/ SpawnServer(u) \/ Wait(u) \/ Verify(u) \/ Kill(u) \/ Rename(u)
             \/ WarmUp(u) \/ ListSessions(u)
      PROVE  \/ port'[b] = port[b]
         \/ BindAndWritePort(s)
         \/ \E q \in requests[s] : MovePort(s, q)
  BY <1>7, <1>17 DEF Check, files, srv, Recheck, sweep, AskWarm, Claimed,
     SpawnServer, Wait, Verify, Kill, Rename, WarmUp, ListSessions
<1>18. ASSUME NEW u \in Users, NEW x \in Bases,
             ListOne(u, x)
      PROVE  \/ port'[b] = port[b]
         \/ BindAndWritePort(s)
         \/ \E q \in requests[s] : MovePort(s, q)
  BY <1>7, <1>18 DEF ListOne, files, srv
<1>. QED
  BY <1>7, <1>8, <1>9, <1>10, <1>11, <1>12, <1>13, <1>14, <1>15, <1>16, <1>17, <1>18
    DEF Next, Bases, AllOps

(* ... nor the key file, ...                                               *)
LEMMA OthersKey ==
    ASSUME RegistryAssumption, RegistryTypes, Next, NEW s \in Servers, NEW b \in Bases,
           Alive(s), WorksOn(s, b), b \notin contested, b \notin contested', Exclusive,
           ~Doomed(b)
    PROVE  \/ key'[b] = key[b]
           \/ WriteKey(s) \/ WriteRegistry(s) \/ MoveKey(s)
<1>1. FilesTyped /\ ServersTyped /\ UsersTyped /\ SweepsTyped /\ WorkKnown
  BY DEF RegistryTypes
<1>2. /\ stage \in [Servers -> Stages] /\ name \in [Servers -> Bases \cup {None}]
      /\ moving \in [Servers -> Requests \cup {None}]
      /\ requests \in [Servers -> SUBSET Requests]
  BY <1>1 DEF ServersTyped
<1>3. /\ port \in [Bases -> Servers \cup {None}]
/\ key \in [Bases -> Servers \cup {None}]
      /\ registry \in [Bases -> Servers \cup {None}]
  BY <1>1 DEF FilesTyped
<1>4. /\ todo \in [Procs -> SUBSET Bases] /\ seen \in [Procs -> Looks \cup {None}]
      /\ doomed \in [Procs -> Bases \cup {None}]
  BY <1>1 DEF SweepsTyped
<1>5. /\ None \notin Bases /\ None \notin Servers /\ None \notin Users
      /\ None \notin Requests /\ Users \cap Servers = {}
  BY RegistryAssumption
<1>6. ASSUME NEW o \in Servers, Alive(o), WorksOn(o, b) PROVE o = s
  BY <1>6 DEF Exclusive
<1>7. CASE UNCHANGED <<key>>
  BY <1>7
<1>8. ASSUME NEW p \in Procs, Remove(p)
      PROVE  \/ key'[b] = key[b]
         \/ WriteKey(s) \/ WriteRegistry(s) \/ MoveKey(s)
  BY <1>2, <1>3, <1>4, <1>5, <1>6, <1>8 DEF Remove, usr, Alive, WorksOn, Doomed
<1>9. ASSUME NEW o \in Servers, WriteKey(o)
      PROVE  \/ key'[b] = key[b]
         \/ WriteKey(s) \/ WriteRegistry(s) \/ MoveKey(s)
  BY <1>2, <1>3, <1>4, <1>5, <1>6, <1>1, <1>9 DEF WriteKey, Goes, usr, sweep, Alive,
     WorksOn, Doomed, WorkKnown, Requests
<1>10. ASSUME NEW o \in Servers, WriteRegistry(o)
      PROVE  \/ key'[b] = key[b]
         \/ WriteKey(s) \/ WriteRegistry(s) \/ MoveKey(s)
  BY <1>2, <1>3, <1>4, <1>5, <1>6, <1>1, <1>10 DEF WriteRegistry, Goes, usr, sweep,
     Alive, WorksOn, Doomed, WorkKnown, Requests
<1>11. ASSUME NEW o \in Servers, MoveKey(o)
      PROVE  \/ key'[b] = key[b]
         \/ WriteKey(s) \/ WriteRegistry(s) \/ MoveKey(s)
  BY <1>2, <1>3, <1>4, <1>5, <1>6, <1>1, <1>11 DEF MoveKey, Goes, usr, sweep, Alive,
     WorksOn, Doomed, WorkKnown, Requests
<1>12. ASSUME NEW p \in Procs, NEW x \in Bases,
             Look(p, x)
      PROVE  \/ key'[b] = key[b]
         \/ WriteKey(s) \/ WriteRegistry(s) \/ MoveKey(s)
  BY <1>7, <1>12 DEF Look, files, srv, usr
<1>13. ASSUME NEW p \in Procs,
             Probe(p) \/ Killed(p)
      PROVE  \/ key'[b] = key[b]
         \/ WriteKey(s) \/ WriteRegistry(s) \/ MoveKey(s)
  BY <1>7, <1>13 DEF Probe, files, srv, usr, Killed
<1>14. ASSUME NEW x \in Bases,
             Ages(x)
      PROVE  \/ key'[b] = key[b]
         \/ WriteKey(s) \/ WriteRegistry(s) \/ MoveKey(s)
  BY <1>7, <1>14 DEF Ages, srv, usr, sweep
<1>15. ASSUME NEW o \in Servers,
             \/ Begin(o) \/ BindAndWritePort(o) \/ Ready(o) \/ Replenish(o)
             \/ SpawnWarm(o) \/ RefreshRegistry(o) \/ Stop(o) \/ MoveRegistry(o)
      PROVE  \/ key'[b] = key[b]
         \/ WriteKey(s) \/ WriteRegistry(s) \/ MoveKey(s)
  BY <1>7, <1>15 DEF Begin, files, usr, sweep, BindAndWritePort, Ready, Replenish,
     SpawnWarm, RefreshRegistry, srv, Stop, MoveRegistry
<1>16. ASSUME NEW o \in Servers, NEW r \in requests[o],
             MovePort(o, r)
      PROVE  \/ key'[b] = key[b]
         \/ WriteKey(s) \/ WriteRegistry(s) \/ MoveKey(s)
  BY <1>7, <1>16 DEF MovePort, usr, sweep
<1>17. ASSUME NEW u \in Users, NEW op \in AllOps, NEW x \in Bases, NEW n \in Bases,
             Command(u, op, x, n)
      PROVE  \/ key'[b] = key[b]
         \/ WriteKey(s) \/ WriteRegistry(s) \/ MoveKey(s)
  BY <1>7, <1>17 DEF Command, files, srv
<1>18. ASSUME NEW u \in Users,
             \/ Check(u) \/ Recheck(u) \/ AskWarm(u) \/ Claimed(u)
             \/ SpawnServer(u) \/ Wait(u) \/ Verify(u) \/ Kill(u) \/ Rename(u)
             \/ WarmUp(u) \/ ListSessions(u)
      PROVE  \/ key'[b] = key[b]
         \/ WriteKey(s) \/ WriteRegistry(s) \/ MoveKey(s)
  BY <1>7, <1>18 DEF Check, files, srv, Recheck, sweep, AskWarm, Claimed,
     SpawnServer, Wait, Verify, Kill, Rename, WarmUp, ListSessions
<1>19. ASSUME NEW u \in Users, NEW x \in Bases,
             ListOne(u, x)
      PROVE  \/ key'[b] = key[b]
         \/ WriteKey(s) \/ WriteRegistry(s) \/ MoveKey(s)
  BY <1>7, <1>19 DEF ListOne, files, srv
<1>. QED
  BY <1>7, <1>8, <1>9, <1>10, <1>11, <1>12, <1>13, <1>14, <1>15, <1>16, <1>17,
     <1>18, <1>19 DEF Next, Bases, AllOps

(* ... nor the registry.                                                   *)
LEMMA OthersRegistry ==
    ASSUME RegistryAssumption, RegistryTypes, Next, NEW s \in Servers, NEW b \in Bases,
           Alive(s), WorksOn(s, b), b \notin contested, b \notin contested', Exclusive,
           ~Doomed(b)
    PROVE  \/ registry'[b] = registry[b]
           \/ WriteRegistry(s) \/ Ready(s) \/ RefreshRegistry(s) \/ MoveRegistry(s)
<1>1. FilesTyped /\ ServersTyped /\ UsersTyped /\ SweepsTyped /\ WorkKnown
  BY DEF RegistryTypes
<1>2. /\ stage \in [Servers -> Stages] /\ name \in [Servers -> Bases \cup {None}]
      /\ moving \in [Servers -> Requests \cup {None}]
      /\ requests \in [Servers -> SUBSET Requests]
  BY <1>1 DEF ServersTyped
<1>3. /\ port \in [Bases -> Servers \cup {None}]
/\ key \in [Bases -> Servers \cup {None}]
      /\ registry \in [Bases -> Servers \cup {None}]
  BY <1>1 DEF FilesTyped
<1>4. /\ todo \in [Procs -> SUBSET Bases] /\ seen \in [Procs -> Looks \cup {None}]
      /\ doomed \in [Procs -> Bases \cup {None}]
  BY <1>1 DEF SweepsTyped
<1>5. /\ None \notin Bases /\ None \notin Servers /\ None \notin Users
      /\ None \notin Requests /\ Users \cap Servers = {}
  BY RegistryAssumption
<1>6. ASSUME NEW o \in Servers, Alive(o), WorksOn(o, b) PROVE o = s
  BY <1>6 DEF Exclusive
<1>7. CASE UNCHANGED <<registry>>
  BY <1>7
<1>8. ASSUME NEW p \in Procs, Remove(p)
      PROVE  \/ registry'[b] = registry[b]
         \/ WriteRegistry(s) \/ Ready(s) \/ RefreshRegistry(s) \/ MoveRegistry(s)
  BY <1>2, <1>3, <1>4, <1>5, <1>6, <1>8 DEF Remove, usr, Alive, WorksOn, Doomed
<1>9. ASSUME NEW o \in Servers, WriteRegistry(o)
      PROVE  \/ registry'[b] = registry[b]
         \/ WriteRegistry(s) \/ Ready(s) \/ RefreshRegistry(s) \/ MoveRegistry(s)
  BY <1>2, <1>3, <1>4, <1>5, <1>6, <1>1, <1>9 DEF WriteRegistry, Goes, usr, sweep,
     Alive, WorksOn, Doomed, WorkKnown, Requests
<1>10. ASSUME NEW o \in Servers, Ready(o)
      PROVE  \/ registry'[b] = registry[b]
         \/ WriteRegistry(s) \/ Ready(s) \/ RefreshRegistry(s) \/ MoveRegistry(s)
  BY <1>2, <1>3, <1>4, <1>5, <1>6, <1>1, <1>10 DEF Ready, Goes, usr, sweep, Alive,
     WorksOn, Doomed, WorkKnown, Requests
<1>11. ASSUME NEW o \in Servers, RefreshRegistry(o)
      PROVE  \/ registry'[b] = registry[b]
         \/ WriteRegistry(s) \/ Ready(s) \/ RefreshRegistry(s) \/ MoveRegistry(s)
  BY <1>2, <1>3, <1>4, <1>5, <1>6, <1>1, <1>11 DEF RefreshRegistry, srv, usr, sweep,
     Alive, WorksOn, Doomed, WorkKnown, Requests
<1>12. ASSUME NEW o \in Servers, MoveRegistry(o)
      PROVE  \/ registry'[b] = registry[b]
         \/ WriteRegistry(s) \/ Ready(s) \/ RefreshRegistry(s) \/ MoveRegistry(s)
  BY <1>2, <1>3, <1>4, <1>5, <1>6, <1>1, <1>12 DEF MoveRegistry, Goes, sweep, Alive,
     WorksOn, Doomed, WorkKnown, Requests
<1>13. ASSUME NEW p \in Procs, NEW x \in Bases,
             Look(p, x)
      PROVE  \/ registry'[b] = registry[b]
         \/ WriteRegistry(s) \/ Ready(s) \/ RefreshRegistry(s) \/ MoveRegistry(s)
  BY <1>7, <1>13 DEF Look, files, srv, usr
<1>14. ASSUME NEW p \in Procs,
             Probe(p) \/ Killed(p)
      PROVE  \/ registry'[b] = registry[b]
         \/ WriteRegistry(s) \/ Ready(s) \/ RefreshRegistry(s) \/ MoveRegistry(s)
  BY <1>7, <1>14 DEF Probe, files, srv, usr, Killed
<1>15. ASSUME NEW x \in Bases,
             Ages(x)
      PROVE  \/ registry'[b] = registry[b]
         \/ WriteRegistry(s) \/ Ready(s) \/ RefreshRegistry(s) \/ MoveRegistry(s)
  BY <1>7, <1>15 DEF Ages, srv, usr, sweep
<1>16. ASSUME NEW o \in Servers,
             \/ Begin(o) \/ BindAndWritePort(o) \/ WriteKey(o) \/ Replenish(o)
             \/ SpawnWarm(o) \/ Stop(o) \/ MoveKey(o)
      PROVE  \/ registry'[b] = registry[b]
         \/ WriteRegistry(s) \/ Ready(s) \/ RefreshRegistry(s) \/ MoveRegistry(s)
  BY <1>7, <1>16 DEF Begin, files, usr, sweep, BindAndWritePort, WriteKey,
     Replenish, SpawnWarm, Stop, MoveKey
<1>17. ASSUME NEW o \in Servers, NEW r \in requests[o],
             MovePort(o, r)
      PROVE  \/ registry'[b] = registry[b]
         \/ WriteRegistry(s) \/ Ready(s) \/ RefreshRegistry(s) \/ MoveRegistry(s)
  BY <1>7, <1>17 DEF MovePort, usr, sweep
<1>18. ASSUME NEW u \in Users, NEW op \in AllOps, NEW x \in Bases, NEW n \in Bases,
             Command(u, op, x, n)
      PROVE  \/ registry'[b] = registry[b]
         \/ WriteRegistry(s) \/ Ready(s) \/ RefreshRegistry(s) \/ MoveRegistry(s)
  BY <1>7, <1>18 DEF Command, files, srv
<1>19. ASSUME NEW u \in Users,
             \/ Check(u) \/ Recheck(u) \/ AskWarm(u) \/ Claimed(u)
             \/ SpawnServer(u) \/ Wait(u) \/ Verify(u) \/ Kill(u) \/ Rename(u)
             \/ WarmUp(u) \/ ListSessions(u)
      PROVE  \/ registry'[b] = registry[b]
         \/ WriteRegistry(s) \/ Ready(s) \/ RefreshRegistry(s) \/ MoveRegistry(s)
  BY <1>7, <1>19 DEF Check, files, srv, Recheck, sweep, AskWarm, Claimed,
     SpawnServer, Wait, Verify, Kill, Rename, WarmUp, ListSessions
<1>20. ASSUME NEW u \in Users, NEW x \in Bases,
             ListOne(u, x)
      PROVE  \/ registry'[b] = registry[b]
         \/ WriteRegistry(s) \/ Ready(s) \/ RefreshRegistry(s) \/ MoveRegistry(s)
  BY <1>7, <1>20 DEF ListOne, files, srv
<1>. QED
  BY <1>7, <1>8, <1>9, <1>10, <1>11, <1>12, <1>13, <1>14, <1>15, <1>16, <1>17,
     <1>18, <1>19, <1>20 DEF Next, Bases, AllOps

(* Who looks at the files of a base finds no registry, or that of a server *)
(* that lives.                                                             *)
LEMMA SeenStep ==
    ASSUME RegistryAssumption, RegistryTypes, Next, NEW s \in Servers, NEW b \in Bases,
           Alive(s), registry[b] \in {None, s},
           \A q \in Procs : seen[q] # None /\ seen[q].base = b => ~seen[q].registered
    PROVE  \A q \in Procs :
                seen'[q] # None /\ seen'[q].base = b => ~seen'[q].registered
<1>1. FilesTyped /\ ServersTyped /\ UsersTyped /\ SweepsTyped /\ WorkKnown
  BY DEF RegistryTypes
<1>2. /\ stage \in [Servers -> Stages] /\ name \in [Servers -> Bases \cup {None}]
      /\ moving \in [Servers -> Requests \cup {None}]
      /\ requests \in [Servers -> SUBSET Requests]
  BY <1>1 DEF ServersTyped
<1>3. /\ port \in [Bases -> Servers \cup {None}]
/\ key \in [Bases -> Servers \cup {None}]
      /\ registry \in [Bases -> Servers \cup {None}]
  BY <1>1 DEF FilesTyped
<1>4. /\ todo \in [Procs -> SUBSET Bases] /\ seen \in [Procs -> Looks \cup {None}]
      /\ doomed \in [Procs -> Bases \cup {None}]
  BY <1>1 DEF SweepsTyped
<1>5. /\ None \notin Bases /\ None \notin Servers /\ None \notin Users
      /\ None \notin Requests /\ Users \cap Servers = {}
  BY RegistryAssumption
<1>6. CASE UNCHANGED <<seen>>
  BY <1>6
<1>7. ASSUME NEW p \in Procs, NEW x \in Bases, Look(p, x)
      PROVE  \A q \in Procs :
                seen'[q] # None /\ seen'[q].base = b => ~seen'[q].registered
  BY <1>4, <1>5, <1>7 DEF Look, files, srv, usr, Looks, Kept
<1>8. ASSUME NEW p \in Procs, Probe(p)
      PROVE  \A q \in Procs :
                seen'[q] # None /\ seen'[q].base = b => ~seen'[q].registered
  BY <1>4, <1>5, <1>8 DEF Probe, files, srv, usr
<1>9. ASSUME NEW p \in Procs, Killed(p)
      PROVE  \A q \in Procs :
                seen'[q] # None /\ seen'[q].base = b => ~seen'[q].registered
  BY <1>4, <1>5, <1>9 DEF Killed
<1>10. ASSUME NEW p \in Procs,
             Remove(p)
      PROVE  \A q \in Procs :
                seen'[q] # None /\ seen'[q].base = b => ~seen'[q].registered
  BY <1>6, <1>10 DEF Remove, usr
<1>11. ASSUME NEW x \in Bases,
             Ages(x)
      PROVE  \A q \in Procs :
                seen'[q] # None /\ seen'[q].base = b => ~seen'[q].registered
  BY <1>6, <1>11 DEF Ages, srv, usr, sweep
<1>12. ASSUME NEW o \in Servers,
             \/ Begin(o) \/ BindAndWritePort(o) \/ WriteKey(o) \/ WriteRegistry(o)
             \/ Ready(o) \/ Replenish(o) \/ SpawnWarm(o) \/ RefreshRegistry(o)
             \/ Stop(o) \/ MoveKey(o) \/ MoveRegistry(o)
      PROVE  \A q \in Procs :
                seen'[q] # None /\ seen'[q].base = b => ~seen'[q].registered
  BY <1>6, <1>12 DEF Begin, files, usr, sweep, BindAndWritePort, WriteKey,
     WriteRegistry, Ready, Replenish, SpawnWarm, RefreshRegistry, srv, Stop,
     MoveKey, MoveRegistry
<1>13. ASSUME NEW o \in Servers, NEW r \in requests[o],
             MovePort(o, r)
      PROVE  \A q \in Procs :
                seen'[q] # None /\ seen'[q].base = b => ~seen'[q].registered
  BY <1>6, <1>13 DEF MovePort, usr, sweep
<1>14. ASSUME NEW u \in Users, NEW op \in AllOps, NEW x \in Bases, NEW n \in Bases,
             Command(u, op, x, n)
      PROVE  \A q \in Procs :
                seen'[q] # None /\ seen'[q].base = b => ~seen'[q].registered
  BY <1>6, <1>14 DEF Command, files, srv
<1>15. ASSUME NEW u \in Users,
             \/ Check(u) \/ Recheck(u) \/ AskWarm(u) \/ Claimed(u)
             \/ SpawnServer(u) \/ Wait(u) \/ Verify(u) \/ Kill(u) \/ Rename(u)
             \/ WarmUp(u) \/ ListSessions(u)
      PROVE  \A q \in Procs :
                seen'[q] # None /\ seen'[q].base = b => ~seen'[q].registered
  BY <1>6, <1>15 DEF Check, files, srv, Recheck, sweep, AskWarm, Claimed,
     SpawnServer, Wait, Verify, Kill, Rename, WarmUp, ListSessions
<1>16. ASSUME NEW u \in Users, NEW x \in Bases,
             ListOne(u, x)
      PROVE  \A q \in Procs :
                seen'[q] # None /\ seen'[q].base = b => ~seen'[q].registered
  BY <1>6, <1>16 DEF ListOne, files, srv
<1>. QED
  BY <1>6, <1>7, <1>8, <1>9, <1>10, <1>11, <1>12, <1>13, <1>14, <1>15, <1>16
    DEF Next, Bases, AllOps

(* Nobody dooms a base whose server has its port file, or has not written  *)
(* it yet: only the server does, as it stops.                              *)
LEMMA DoomStep ==
    ASSUME RegistryAssumption, RegistryTypes, SweepsInTurn, Next, NEW s \in Servers,
           NEW b \in Bases,
           Alive(s), WorksOn(s, b), b \notin contested, b \notin contested', Exclusive,
           port[b] \in {None, s}, port[b] = None => ~Doubted(b), port[b] = s => Open(s),
           \A q \in Procs : seen[q] # None /\ seen[q].base = b => ~seen[q].registered,
           ~Doomed(b), Doomed(b)'
    PROVE  Stop(s)
<1>1. FilesTyped /\ ServersTyped /\ UsersTyped /\ SweepsTyped /\ WorkKnown
  BY DEF RegistryTypes
<1>2. /\ stage \in [Servers -> Stages] /\ name \in [Servers -> Bases \cup {None}]
      /\ moving \in [Servers -> Requests \cup {None}]
      /\ requests \in [Servers -> SUBSET Requests]
  BY <1>1 DEF ServersTyped
<1>3. /\ port \in [Bases -> Servers \cup {None}]
/\ key \in [Bases -> Servers \cup {None}]
      /\ registry \in [Bases -> Servers \cup {None}]
  BY <1>1 DEF FilesTyped
<1>4. /\ todo \in [Procs -> SUBSET Bases] /\ seen \in [Procs -> Looks \cup {None}]
      /\ doomed \in [Procs -> Bases \cup {None}]
  BY <1>1 DEF SweepsTyped
<1>5. /\ None \notin Bases /\ None \notin Servers /\ None \notin Users
      /\ None \notin Requests /\ Users \cap Servers = {}
  BY RegistryAssumption
<1>6. ASSUME NEW o \in Servers, Alive(o), WorksOn(o, b) PROVE o = s
  BY <1>6 DEF Exclusive
<1>7. port[b] # None => Open(port[b])
  BY <1>5
<1>8. ~Open(None)
  BY <1>5 DEF Open, Alive
<1>9. CASE UNCHANGED <<doomed>>
  BY <1>9 DEF Doomed
<1>10. ASSUME NEW p \in Procs, Probe(p)
      PROVE  Stop(s)
  BY <1>2, <1>3, <1>4, <1>5, <1>6, <1>7, <1>8, <1>10 DEF Probe, files, srv, usr,
     Doomed, Doubted
<1>11. ASSUME NEW p \in Procs, Remove(p)
      PROVE  Stop(s)
  BY <1>2, <1>3, <1>4, <1>5, <1>6, <1>7, <1>8, <1>11 DEF Remove, usr, Doomed
<1>12. ASSUME NEW p \in Procs, Killed(p)
      PROVE  Stop(s)
  BY <1>2, <1>3, <1>4, <1>5, <1>6, <1>7, <1>8, <1>12 DEF Killed, Doomed, Procs
<1>13. ASSUME NEW o \in Servers, Replenish(o)
      PROVE  Stop(s)
  BY <1>2, <1>3, <1>4, <1>5, <1>6, <1>7, <1>8, <1>13 DEF Replenish, Goes, files,
     usr, Doomed, Procs
<1>14. ASSUME NEW o \in Servers, Stop(o)
      PROVE  Stop(s)
  BY <1>2, <1>3, <1>4, <1>5, <1>6, <1>7, <1>8, <1>14 DEF Stop, Goes, files, usr,
     Doomed, Alive, WorksOn, Procs
<1>15. ASSUME NEW u \in Users, AskWarm(u)
      PROVE  Stop(s)
  BY <1>2, <1>3, <1>4, <1>5, <1>6, <1>7, <1>8, <1>15 DEF AskWarm, Step, At, files,
     Doomed, Procs
<1>16. ASSUME NEW u \in Users, Verify(u)
      PROVE  Stop(s)
  BY <1>2, <1>3, <1>4, <1>5, <1>6, <1>7, <1>8, <1>16 DEF Verify, Step, At, files,
     srv, Doomed, Doubted, Procs
<1>17. ASSUME NEW u \in Users, WarmUp(u)
      PROVE  Stop(s)
  BY <1>2, <1>3, <1>4, <1>5, <1>6, <1>7, <1>8, <1>17 DEF WarmUp, Step, At, Contest,
     files, srv, Doomed, Taken, Spoiled, WorksOn, Procs
<1>18. ASSUME NEW u \in Users, NEW x \in Bases, ListOne(u, x)
      PROVE  Stop(s)
  BY <1>2, <1>3, <1>4, <1>5, <1>6, <1>7, <1>8, <1>18 DEF ListOne, Step, files, srv,
     Doomed, Procs
<1>19. ASSUME NEW p \in Procs, NEW x \in Bases,
             Look(p, x)
      PROVE  Stop(s)
  BY <1>9, <1>19 DEF Look, files, srv, usr
<1>20. ASSUME NEW x \in Bases,
             Ages(x)
      PROVE  Stop(s)
  BY <1>9, <1>20 DEF Ages, srv, usr, sweep
<1>21. ASSUME NEW o \in Servers,
             \/ Begin(o) \/ BindAndWritePort(o) \/ WriteKey(o) \/ WriteRegistry(o)
             \/ Ready(o) \/ SpawnWarm(o) \/ RefreshRegistry(o) \/ MoveKey(o)
             \/ MoveRegistry(o)
      PROVE  Stop(s)
  BY <1>9, <1>21 DEF Begin, files, usr, sweep, BindAndWritePort, WriteKey,
     WriteRegistry, Ready, SpawnWarm, RefreshRegistry, srv, MoveKey, MoveRegistry
<1>22. ASSUME NEW o \in Servers, NEW r \in requests[o],
             MovePort(o, r)
      PROVE  Stop(s)
  BY <1>9, <1>22 DEF MovePort, usr, sweep
<1>23. ASSUME NEW u \in Users, NEW op \in AllOps, NEW x \in Bases, NEW n \in Bases,
             Command(u, op, x, n)
      PROVE  Stop(s)
  BY <1>9, <1>23 DEF Command, files, srv
<1>24. ASSUME NEW u \in Users,
             \/ Check(u) \/ Recheck(u) \/ Claimed(u) \/ SpawnServer(u) \/ Wait(u)
             \/ Kill(u) \/ Rename(u) \/ ListSessions(u)
      PROVE  Stop(s)
  BY <1>9, <1>24 DEF Check, files, srv, Recheck, sweep, Claimed, SpawnServer, Wait,
     Kill, Rename, ListSessions
<1>. QED
  BY <1>9, <1>10, <1>11, <1>12, <1>13, <1>14, <1>15, <1>16, <1>17, <1>18, <1>19,
     <1>20, <1>21, <1>22, <1>23, <1>24 DEF Next, Bases, AllOps

-----------------------------------------------------------------------------
(* What a server does to its own base.                                     *)

(* The stages that it goes through while it stays under its name.          *)
Proceeds(s) ==
    \/ stage'[s] = stage[s]
    \/ stage[s] \in {"replenish", "spawn"} /\ stage'[s] \in {"spawn", "running"}
    \/ Begin(s) \/ BindAndWritePort(s) \/ WriteKey(s) \/ WriteRegistry(s) \/ Ready(s)
    \/ MoveKey(s)

(* It is spawned for a base that is free.                                  *)
SpawnedFree(s) ==
    /\ moving'[s] = None /\ stage'[s] = "born" /\ name'[s] \in Bases
    /\ Free(name'[s], s)
    /\ port' = port /\ registry' = registry /\ doomed' = doomed /\ seen' = seen

Stays(s) == name'[s] = name[s] /\ moving'[s] = moving[s] /\ Alive(s)

(* A server that keeps its name goes through its stages in their order.    *)
LEMMA StageStep ==
    ASSUME RegistryAssumption, RegistryTypes, SweepsInTurn, Next, NEW s \in Servers,
           Stays(s), Alive(s)', stage'[s] # "stopping"
    PROVE  Proceeds(s)
<1>1. FilesTyped /\ ServersTyped /\ UsersTyped /\ SweepsTyped /\ WorkKnown
  BY DEF RegistryTypes
<1>2. /\ stage \in [Servers -> Stages] /\ name \in [Servers -> Bases \cup {None}]
      /\ moving \in [Servers -> Requests \cup {None}]
      /\ requests \in [Servers -> SUBSET Requests]
  BY <1>1 DEF ServersTyped
<1>3. /\ port \in [Bases -> Servers \cup {None}]
/\ key \in [Bases -> Servers \cup {None}]
      /\ registry \in [Bases -> Servers \cup {None}]
  BY <1>1 DEF FilesTyped
<1>4. /\ todo \in [Procs -> SUBSET Bases] /\ seen \in [Procs -> Looks \cup {None}]
      /\ doomed \in [Procs -> Bases \cup {None}]
  BY <1>1 DEF SweepsTyped
<1>5. /\ None \notin Bases /\ None \notin Servers /\ None \notin Users
      /\ None \notin Requests /\ Users \cap Servers = {}
  BY RegistryAssumption
<1>6. CASE UNCHANGED <<stage>>
  BY <1>6 DEF Proceeds, Stays, Alive
<1>7. ASSUME NEW p \in Procs, Remove(p)
      PROVE  Proceeds(s)
  BY <1>2, <1>5, <1>7 DEF Remove, usr, Proceeds, Stays, Alive
<1>8. ASSUME NEW p \in Procs, Killed(p)
      PROVE  Proceeds(s)
  BY <1>2, <1>5, <1>8 DEF Killed, Proceeds, Stays, Alive
<1>9. ASSUME NEW o \in Servers, Begin(o)
      PROVE  Proceeds(s)
  BY <1>2, <1>5, <1>9 DEF Begin, Goes, List, files, usr, sweep, Proceeds, Stays,
     Alive
<1>10. ASSUME NEW o \in Servers, BindAndWritePort(o)
      PROVE  Proceeds(s)
  BY <1>2, <1>5, <1>10 DEF BindAndWritePort, Goes, usr, sweep, Proceeds, Stays,
     Alive
<1>11. ASSUME NEW o \in Servers, WriteKey(o)
      PROVE  Proceeds(s)
  BY <1>2, <1>5, <1>11 DEF WriteKey, Goes, usr, sweep, Proceeds, Stays, Alive
<1>12. ASSUME NEW o \in Servers, WriteRegistry(o)
      PROVE  Proceeds(s)
  BY <1>2, <1>5, <1>12 DEF WriteRegistry, Goes, usr, sweep, Proceeds, Stays, Alive
<1>13. ASSUME NEW o \in Servers, Ready(o)
      PROVE  Proceeds(s)
  BY <1>2, <1>5, <1>13 DEF Ready, Goes, usr, sweep, Proceeds, Stays, Alive
<1>14. ASSUME NEW o \in Servers, Replenish(o)
      PROVE  Proceeds(s)
  BY <1>2, <1>5, <1>14 DEF Replenish, Goes, files, usr, Proceeds, Stays, Alive
<1>15. ASSUME NEW o \in Servers, SpawnWarm(o)
      PROVE  Proceeds(s)
  BY <1>2, <1>5, <1>15 DEF SpawnWarm, Spawn, Contest, files, usr, sweep, Proceeds,
     Stays, Alive
<1>16. ASSUME NEW o \in Servers, Stop(o)
      PROVE  Proceeds(s)
  BY <1>2, <1>5, <1>16 DEF Stop, Goes, files, usr, Proceeds, Stays, Alive
<1>17. ASSUME NEW o \in Servers, NEW r \in requests[o], MovePort(o, r)
      PROVE  Proceeds(s)
  BY <1>2, <1>5, <1>1, <1>17 DEF MovePort, Goes, Contest, usr, sweep, Proceeds,
     Stays, Alive, WorkKnown, Requests
<1>18. ASSUME NEW o \in Servers, MoveKey(o)
      PROVE  Proceeds(s)
  BY <1>2, <1>5, <1>18 DEF MoveKey, Goes, usr, sweep, Proceeds, Stays, Alive
<1>19. ASSUME NEW o \in Servers, MoveRegistry(o)
      PROVE  Proceeds(s)
  BY <1>2, <1>5, <1>1, <1>19 DEF MoveRegistry, Goes, sweep, Proceeds, Stays, Alive,
     WorkKnown, Requests
<1>20. ASSUME NEW u \in Users, SpawnServer(u)
      PROVE  Proceeds(s)
  BY <1>2, <1>5, <1>20 DEF SpawnServer, Spawn, Contest, Goes, Step, files, sweep,
     Proceeds, Stays, Alive
<1>21. ASSUME NEW p \in Procs, NEW x \in Bases,
             Look(p, x)
      PROVE  Proceeds(s)
  BY <1>6, <1>21 DEF Look, files, srv, usr
<1>22. ASSUME NEW p \in Procs,
             Probe(p)
      PROVE  Proceeds(s)
  BY <1>6, <1>22 DEF Probe, files, srv, usr
<1>23. ASSUME NEW x \in Bases,
             Ages(x)
      PROVE  Proceeds(s)
  BY <1>6, <1>23 DEF Ages, srv, usr, sweep
<1>24. ASSUME NEW o \in Servers,
             RefreshRegistry(o)
      PROVE  Proceeds(s)
  BY <1>6, <1>24 DEF RefreshRegistry, srv, usr, sweep
<1>25. ASSUME NEW u \in Users, NEW op \in AllOps, NEW x \in Bases, NEW n \in Bases,
             Command(u, op, x, n)
      PROVE  Proceeds(s)
  BY <1>6, <1>25 DEF Command, files, srv
<1>26. ASSUME NEW u \in Users,
             \/ Check(u) \/ Recheck(u) \/ AskWarm(u) \/ Claimed(u) \/ Wait(u)
             \/ Verify(u) \/ Kill(u) \/ Rename(u) \/ WarmUp(u) \/ ListSessions(u)
      PROVE  Proceeds(s)
  BY <1>6, <1>26 DEF Check, files, srv, Recheck, sweep, AskWarm, Claimed, Wait,
     Verify, Kill, Rename, WarmUp, ListSessions
<1>27. ASSUME NEW u \in Users, NEW x \in Bases,
             ListOne(u, x)
      PROVE  Proceeds(s)
  BY <1>6, <1>27 DEF ListOne, files, srv
<1>. QED
  BY <1>6, <1>7, <1>8, <1>9, <1>10, <1>11, <1>12, <1>13, <1>14, <1>15, <1>16, <1>17,
     <1>18, <1>19, <1>20, <1>21, <1>22, <1>23, <1>24, <1>25, <1>26, <1>27 DEF Next,
     Bases, AllOps

(* A server comes to a base as it is spawned or moves, and keeps it        *)
(* otherwise.                                                              *)
LEMMA BaseStep ==
    ASSUME RegistryAssumption, RegistryTypes, Next, NEW s \in Servers,
           Keeps(s)'
    PROVE  \/ Stays(s) \/ SpawnedFree(s)
           \/ (\E q \in requests[s] : MovePort(s, q)) \/ MoveRegistry(s)
<1>1. FilesTyped /\ ServersTyped /\ UsersTyped /\ SweepsTyped /\ WorkKnown
  BY DEF RegistryTypes
<1>2. /\ stage \in [Servers -> Stages] /\ name \in [Servers -> Bases \cup {None}]
      /\ moving \in [Servers -> Requests \cup {None}]
      /\ requests \in [Servers -> SUBSET Requests]
  BY <1>1 DEF ServersTyped
<1>3. /\ port \in [Bases -> Servers \cup {None}]
/\ key \in [Bases -> Servers \cup {None}]
      /\ registry \in [Bases -> Servers \cup {None}]
  BY <1>1 DEF FilesTyped
<1>4. /\ todo \in [Procs -> SUBSET Bases] /\ seen \in [Procs -> Looks \cup {None}]
      /\ doomed \in [Procs -> Bases \cup {None}]
  BY <1>1 DEF SweepsTyped
<1>5. /\ None \notin Bases /\ None \notin Servers /\ None \notin Users
      /\ None \notin Requests /\ Users \cap Servers = {}
  BY RegistryAssumption
<1>6. CASE UNCHANGED <<stage, name, moving, contested>>
  BY <1>6 DEF Alive, Keeps, Home, Stays
<1>7. ASSUME NEW p \in Procs, Remove(p)
      PROVE  \/ Stays(s) \/ SpawnedFree(s)
         \/ (\E q \in requests[s] : MovePort(s, q)) \/ MoveRegistry(s)
  BY <1>2, <1>5, <1>7 DEF Remove, usr, Alive, Keeps, Home, Stays
<1>8. ASSUME NEW p \in Procs, Killed(p)
      PROVE  \/ Stays(s) \/ SpawnedFree(s)
         \/ (\E q \in requests[s] : MovePort(s, q)) \/ MoveRegistry(s)
  BY <1>2, <1>5, <1>8 DEF Killed, Alive, Keeps, Home, Stays
<1>9. ASSUME NEW o \in Servers, Begin(o)
      PROVE  \/ Stays(s) \/ SpawnedFree(s)
         \/ (\E q \in requests[s] : MovePort(s, q)) \/ MoveRegistry(s)
  BY <1>2, <1>5, <1>9 DEF Begin, Goes, List, files, usr, sweep, Alive, Keeps, Home,
     Stays
<1>10. ASSUME NEW o \in Servers, BindAndWritePort(o)
      PROVE  \/ Stays(s) \/ SpawnedFree(s)
         \/ (\E q \in requests[s] : MovePort(s, q)) \/ MoveRegistry(s)
  BY <1>2, <1>5, <1>10 DEF BindAndWritePort, Goes, usr, sweep, Alive, Keeps, Home,
     Stays
<1>11. ASSUME NEW o \in Servers, WriteKey(o)
      PROVE  \/ Stays(s) \/ SpawnedFree(s)
         \/ (\E q \in requests[s] : MovePort(s, q)) \/ MoveRegistry(s)
  BY <1>2, <1>5, <1>11 DEF WriteKey, Goes, usr, sweep, Alive, Keeps, Home, Stays
<1>12. ASSUME NEW o \in Servers, WriteRegistry(o)
      PROVE  \/ Stays(s) \/ SpawnedFree(s)
         \/ (\E q \in requests[s] : MovePort(s, q)) \/ MoveRegistry(s)
  BY <1>2, <1>5, <1>12 DEF WriteRegistry, Goes, usr, sweep, Alive, Keeps, Home,
     Stays
<1>13. ASSUME NEW o \in Servers, Ready(o)
      PROVE  \/ Stays(s) \/ SpawnedFree(s)
         \/ (\E q \in requests[s] : MovePort(s, q)) \/ MoveRegistry(s)
  BY <1>2, <1>5, <1>13 DEF Ready, Goes, usr, sweep, Alive, Keeps, Home, Stays
<1>14. ASSUME NEW o \in Servers, Replenish(o)
      PROVE  \/ Stays(s) \/ SpawnedFree(s)
         \/ (\E q \in requests[s] : MovePort(s, q)) \/ MoveRegistry(s)
  BY <1>2, <1>5, <1>14 DEF Replenish, Goes, files, usr, Alive, Keeps, Home, Stays
<1>15. ASSUME NEW o \in Servers, SpawnWarm(o)
      PROVE  \/ Stays(s) \/ SpawnedFree(s)
         \/ (\E q \in requests[s] : MovePort(s, q)) \/ MoveRegistry(s)
  BY <1>2, <1>5, <1>1, <1>15 DEF SpawnWarm, Spawn, Contest, files, usr, sweep,
     Alive, Keeps, Home, Stays, SpawnedFree, WorkKnown, Bases, Spoiled
<1>16. ASSUME NEW o \in Servers, Stop(o)
      PROVE  \/ Stays(s) \/ SpawnedFree(s)
         \/ (\E q \in requests[s] : MovePort(s, q)) \/ MoveRegistry(s)
  BY <1>2, <1>5, <1>16 DEF Stop, Goes, files, usr, Alive, Keeps, Home, Stays
<1>17. ASSUME NEW o \in Servers, NEW r \in requests[o], MovePort(o, r)
      PROVE  \/ Stays(s) \/ SpawnedFree(s)
         \/ (\E q \in requests[s] : MovePort(s, q)) \/ MoveRegistry(s)
  BY <1>2, <1>5, <1>17 DEF MovePort, Goes, Contest, usr, sweep, Alive, Keeps, Home,
     Stays
<1>18. ASSUME NEW o \in Servers, MoveKey(o)
      PROVE  \/ Stays(s) \/ SpawnedFree(s)
         \/ (\E q \in requests[s] : MovePort(s, q)) \/ MoveRegistry(s)
  BY <1>2, <1>5, <1>18 DEF MoveKey, Goes, usr, sweep, Alive, Keeps, Home, Stays
<1>19. ASSUME NEW o \in Servers, MoveRegistry(o)
      PROVE  \/ Stays(s) \/ SpawnedFree(s)
         \/ (\E q \in requests[s] : MovePort(s, q)) \/ MoveRegistry(s)
  BY <1>2, <1>5, <1>19 DEF MoveRegistry, Goes, sweep, Alive, Keeps, Home, Stays
<1>20. ASSUME NEW u \in Users, SpawnServer(u)
      PROVE  \/ Stays(s) \/ SpawnedFree(s)
         \/ (\E q \in requests[s] : MovePort(s, q)) \/ MoveRegistry(s)
  BY <1>2, <1>5, <1>1, <1>20 DEF SpawnServer, Spawn, Contest, Goes, Step, files,
     sweep, Alive, Keeps, Home, Stays, SpawnedFree, WorkKnown, UsersTyped, Commands,
     Spoiled
<1>21. ASSUME NEW u \in Users, WarmUp(u)
      PROVE  \/ Stays(s) \/ SpawnedFree(s)
         \/ (\E q \in requests[s] : MovePort(s, q)) \/ MoveRegistry(s)
  BY <1>2, <1>5, <1>21 DEF WarmUp, Step, At, Contest, files, srv, Alive, Keeps,
     Home, Stays
<1>22. ASSUME NEW p \in Procs, NEW x \in Bases,
             Look(p, x)
      PROVE  \/ Stays(s) \/ SpawnedFree(s)
         \/ (\E q \in requests[s] : MovePort(s, q)) \/ MoveRegistry(s)
  BY <1>6, <1>22 DEF Look, files, srv, usr
<1>23. ASSUME NEW p \in Procs,
             Probe(p)
      PROVE  \/ Stays(s) \/ SpawnedFree(s)
         \/ (\E q \in requests[s] : MovePort(s, q)) \/ MoveRegistry(s)
  BY <1>6, <1>23 DEF Probe, files, srv, usr
<1>24. ASSUME NEW x \in Bases,
             Ages(x)
      PROVE  \/ Stays(s) \/ SpawnedFree(s)
         \/ (\E q \in requests[s] : MovePort(s, q)) \/ MoveRegistry(s)
  BY <1>6, <1>24 DEF Ages, srv, usr, sweep
<1>25. ASSUME NEW o \in Servers,
             RefreshRegistry(o)
      PROVE  \/ Stays(s) \/ SpawnedFree(s)
         \/ (\E q \in requests[s] : MovePort(s, q)) \/ MoveRegistry(s)
  BY <1>6, <1>25 DEF RefreshRegistry, srv, usr, sweep
<1>26. ASSUME NEW u \in Users, NEW op \in AllOps, NEW x \in Bases, NEW n \in Bases,
             Command(u, op, x, n)
      PROVE  \/ Stays(s) \/ SpawnedFree(s)
         \/ (\E q \in requests[s] : MovePort(s, q)) \/ MoveRegistry(s)
  BY <1>6, <1>26 DEF Command, files, srv
<1>27. ASSUME NEW u \in Users,
             \/ Check(u) \/ Recheck(u) \/ AskWarm(u) \/ Claimed(u) \/ Wait(u)
             \/ Verify(u) \/ Kill(u) \/ Rename(u) \/ ListSessions(u)
      PROVE  \/ Stays(s) \/ SpawnedFree(s)
         \/ (\E q \in requests[s] : MovePort(s, q)) \/ MoveRegistry(s)
  BY <1>6, <1>27 DEF Check, files, srv, Recheck, sweep, AskWarm, Claimed, Wait,
     Verify, Kill, Rename, ListSessions
<1>28. ASSUME NEW u \in Users, NEW x \in Bases,
             ListOne(u, x)
      PROVE  \/ Stays(s) \/ SpawnedFree(s)
         \/ (\E q \in requests[s] : MovePort(s, q)) \/ MoveRegistry(s)
  BY <1>6, <1>28 DEF ListOne, files, srv
<1>. QED
  BY <1>6, <1>7, <1>8, <1>9, <1>10, <1>11, <1>12, <1>13, <1>14, <1>15, <1>16, <1>17,
     <1>18, <1>19, <1>20, <1>21, <1>22, <1>23, <1>24, <1>25, <1>26, <1>27, <1>28
    DEF Next, Bases, AllOps

-----------------------------------------------------------------------------
(* The files of a base that only its server came to.                       *)

(* While a server keeps its base, what the invariant says of the base lets *)
(* the lemmas above be used.                                               *)
LEMMA HomeKept ==
    ASSUME RegistryAssumption, RegistryInv, Next,
           NEW s \in Servers, Keeps(s)', Stays(s)
    PROVE  /\ Keeps(s) /\ Alive(s) /\ Alive(s)' /\ Proceeds(s) /\ Home(s)' = Home(s)
           /\ Home(s) \in Bases /\ WorksOn(s, Home(s))
           /\ Home(s) \notin contested /\ Home(s) \notin contested'
           /\ ~Doomed(Home(s)) /\ registry[Home(s)] \in {None, s}
           /\ port[Home(s)] \in {None, s}
           /\ port[Home(s)] = None => ~Doubted(Home(s))
           /\ port[Home(s)] = s => Open(s)
<1>1. /\ stage \in [Servers -> Stages] /\ name \in [Servers -> Bases \cup {None}]
      /\ moving \in [Servers -> Requests \cup {None}]
  BY DEF RegistryInv, RegistryTypes, ServersTyped
<1>2. None \notin Servers
  BY RegistryAssumption
<1>3. Alive(s) /\ Home(s)' = Home(s) /\ Alive(s)' /\ stage'[s] # "stopping"
  BY DEF Stays, Home, Keeps
<1>4. Proceeds(s)
  BY <1>3, StageStep DEF RegistryInv
<1>5. Home(s) \notin contested' /\ Home(s) \notin contested
  BY <1>3, ContestedStays DEF Keeps
<1>6. stage[s] # "stopping"
  BY <1>3, <1>4 DEF Proceeds, Begin, BindAndWritePort, WriteKey, WriteRegistry, Ready,
     MoveKey
<1>7. Keeps(s)
  BY <1>3, <1>5, <1>6 DEF Keeps
<1>8. Home(s) \in Bases /\ WorksOn(s, Home(s))
  BY <1>1, <1>3 DEF RegistryInv, RegistryTypes, WorkKnown, Alive, Home, WorksOn, Requests
<1>9. ~Doomed(Home(s)) /\ registry[Home(s)] \in {None, s}
  BY <1>7 DEF RegistryInv, NotDoomed, RegistryKept
<1>10. CASE stage[s] \in {"born", "sweep"}
  <2>1. port[Home(s)] = None /\ ~Doubted(Home(s))
    BY <1>7, <1>10 DEF RegistryInv, PortKept
  <2>. QED
    BY <1>2, <1>3, <1>4, <1>5, <1>7, <1>8, <1>9, <2>1
<1>11. CASE stage[s] \notin {"born", "sweep"}
  <2>1. port[Home(s)] = s /\ Open(s)
    BY <1>3, <1>7, <1>11 DEF RegistryInv, PortKept, Open
  <2>. QED
    BY <1>2, <1>3, <1>4, <1>5, <1>7, <1>8, <1>9, <2>1
<1>. QED
  BY <1>10, <1>11

(* A server that moves to a base which stays uncontested found it free,    *)
(* and left an uncontested one that nobody was about to clean up.          *)
LEMMA CleanMove ==
    ASSUME RegistryAssumption, RegistryInv, NEW s \in Servers, NEW r \in requests[s],
           MovePort(s, r), Keeps(s)'
    PROVE  /\ Keeps(s) /\ stage[s] = "running" /\ Home(s) = name[s]
           /\ stage'[s] = "move_key" /\ moving'[s] = r /\ name'[s] = name[s]
           /\ Home(s)' = r.to /\ r.to \in Bases /\ name[s] \in Bases /\ name[s] # r.to
           /\ Free(r.to, s) /\ Undisturbed(name[s], s) /\ name[s] \notin contested
           /\ port' = [port EXCEPT ![name[s]] = None, ![r.to] = s]
           /\ UNCHANGED <<key, registry, usr, sweep>>
<1>. DEFINE clean == /\ Free(r.to, s) /\ Undisturbed(name[s], s)
                     /\ name[s] \notin contested
<1>1. /\ stage \in [Servers -> Stages] /\ moving \in [Servers -> Requests \cup {None}]
      /\ requests \in [Servers -> SUBSET Requests]
  BY DEF RegistryInv, RegistryTypes, ServersTyped
<1>2. None \notin Servers /\ None \notin Requests
  BY RegistryAssumption
<1>3. /\ stage[s] = "running" /\ stage' = [stage EXCEPT ![s] = "move_key"]
      /\ moving' = [moving EXCEPT ![s] = r] /\ name' = name /\ Contest(r.to, clean)
      /\ port' = [port EXCEPT ![name[s]] = None, ![r.to] = s]
      /\ UNCHANGED <<key, registry, usr, sweep>>
  BY DEF MovePort, Goes
<1>. HIDE DEF clean
<1>4. moving'[s] = r /\ r # None /\ r.to \in Bases
  BY <1>1, <1>2, <1>3 DEF Requests
<1>5. Home(s)' = r.to
  BY <1>4 DEF Home
<1>6. r.to \notin contested'
  BY <1>5 DEF Keeps
<1>7. clean
  BY <1>3, <1>6 DEF Contest, Spoiled
<1>8. Free(r.to, s) /\ Undisturbed(name[s], s) /\ name[s] \notin contested
  BY <1>7 DEF clean
<1>9. moving[s] = None /\ name[s] \in Bases /\ Alive(s)
  BY <1>3 DEF RegistryInv, RegistryTypes, WorkKnown, Alive
<1>10. Keeps(s) /\ Home(s) = name[s]
  BY <1>3, <1>8, <1>9 DEF Keeps, Home
<1>11. port[name[s]] = s /\ port[r.to] = None
  BY <1>3, <1>8, <1>10 DEF RegistryInv, PortKept, Free
<1>. QED
  BY <1>1, <1>2, <1>3, <1>4, <1>5, <1>8, <1>9, <1>10, <1>11

(* Nothing but the registry and the names change as a move ends.           *)
LEMMA MoveEnds ==
    ASSUME RegistryAssumption, RegistryInv, NEW s \in Servers, MoveRegistry(s), Keeps(s)'
    PROVE  /\ Keeps(s) /\ stage[s] = "move_registry" /\ Home(s)' = Home(s)
           /\ Home(s) = moving[s].to /\ moving[s].to \in Bases
           /\ stage'[s] \in {"replenish", "running"}
           /\ registry' = [registry EXCEPT ![name[s]] = None, ![moving[s].to] = s]
           /\ UNCHANGED <<port, key, sweep, pc, cmd>>
<1>1. /\ stage \in [Servers -> Stages] /\ moving \in [Servers -> Requests \cup {None}]
      /\ name \in [Servers -> Bases \cup {None}]
  BY DEF RegistryInv, RegistryTypes, ServersTyped
<1>2. stage[s] = "move_registry" /\ moving[s] \in Requests /\ moving[s] # None
  BY <1>1 DEF MoveRegistry, RegistryInv, RegistryTypes, WorkKnown
<1>3. /\ name'[s] = moving[s].to /\ moving'[s] = None /\ contested' = contested
      /\ stage'[s] \in {"replenish", "running"}
      /\ registry' = [registry EXCEPT ![name[s]] = None, ![moving[s].to] = s]
      /\ UNCHANGED <<port, key, sweep, pc, cmd>>
  BY <1>1 DEF MoveRegistry, Goes
<1>4. Home(s) = moving[s].to /\ Home(s)' = moving[s].to /\ moving[s].to \in Bases
  BY <1>2, <1>3 DEF Home, Requests
<1>5. Keeps(s)
  BY <1>2, <1>3, <1>4 DEF Keeps, Alive
<1>. QED
  BY <1>2, <1>3, <1>4, <1>5

(* The port file of a base that only its server came to stays its own.     *)
LEMMA PortStep ==
    ASSUME RegistryAssumption, RegistryInv, Next
    PROVE  PortKept'
<1>. SUFFICES ASSUME NEW s \in Servers, Keeps(s)'
              PROVE  IF stage'[s] \in {"born", "sweep"}
                     THEN port'[Home(s)'] = None /\ ~Doubted(Home(s))'
                     ELSE port'[Home(s)'] = s
  BY DEF PortKept
<1>1. /\ stage \in [Servers -> Stages] /\ port \in [Bases -> Servers \cup {None}]
      /\ RegistryTypes /\ SweepsInTurn /\ Exclusive /\ None \notin Servers
  BY RegistryAssumption DEF RegistryInv, RegistryTypes, ServersTyped, FilesTyped
<1>2. CASE Stays(s)
  <2>1. /\ Keeps(s) /\ Alive(s) /\ Proceeds(s) /\ Home(s)' = Home(s)
        /\ Home(s) \in Bases /\ WorksOn(s, Home(s)) /\ ~Doomed(Home(s))
        /\ Home(s) \notin contested /\ Home(s) \notin contested'
    BY <1>2, HomeKept
  <2>2. \/ port'[Home(s)] = port[Home(s)]
        \/ BindAndWritePort(s)
        \/ \E q \in requests[s] : MovePort(s, q)
    BY <1>1, <2>1, OthersPort
  <2>3. CASE stage[s] \in {"born", "sweep"} /\ ~BindAndWritePort(s)
    <3>1. port[Home(s)] = None /\ ~Doubted(Home(s))
      BY <2>1, <2>3 DEF RegistryInv, PortKept
    <3>2. stage'[s] \in {"born", "sweep"}
      BY <1>1, <2>1, <2>3 DEF Proceeds, Begin, Goes, WriteKey, WriteRegistry, Ready,
         MoveKey
    <3>3. port'[Home(s)] = None
      BY <2>2, <2>3, <3>1 DEF MovePort
    <3>4. ~Doubted(Home(s))'
      BY <1>1, <2>1, <3>1, DoubtStep DEF Doubted
    <3>. QED
      BY <2>1, <3>2, <3>3, <3>4
  <2>4. CASE BindAndWritePort(s)
    <3>1. moving[s] = None
      BY <1>1, <2>4 DEF BindAndWritePort, RegistryTypes, WorkKnown
    <3>. QED
      BY <1>1, <2>1, <2>4, <3>1 DEF BindAndWritePort, Goes, Home
  <2>5. CASE stage[s] \notin {"born", "sweep"}
    <3>1. port[Home(s)] = s
      BY <2>1, <2>5 DEF RegistryInv, PortKept
    <3>2. stage'[s] \notin {"born", "sweep"}
      BY <1>1, <2>1, <2>5 DEF Proceeds, Begin, BindAndWritePort, Goes, WriteKey,
         WriteRegistry, Ready, MoveKey
    <3>3. ASSUME NEW q \in requests[s], MovePort(s, q) PROVE FALSE
      <4>1. moving'[s] = q /\ moving[s] = None /\ q # None
        BY <3>3, RegistryAssumption DEF MovePort, RegistryInv, RegistryTypes, WorkKnown,
           ServersTyped
      <4>. QED
        BY <1>2, <4>1 DEF Stays
    <3>. QED
      BY <2>1, <2>2, <2>5, <3>1, <3>2, <3>3 DEF BindAndWritePort
  <2>. QED
    BY <2>3, <2>4, <2>5
<1>3. CASE SpawnedFree(s)
  <2>1. stage'[s] = "born" /\ Home(s)' = name'[s] /\ name'[s] \in Bases /\ port' = port
    BY <1>3 DEF SpawnedFree, Home
  <2>2. port[name'[s]] = None /\ ~Doubted(name'[s])
    BY <1>3 DEF SpawnedFree, Free, Undisturbed, Sweeps, Doubted
  <2>3. ASSUME NEW b \in Bases, b = name'[s] PROVE ~Doubted(b)'
    BY <1>1, <2>2, <2>3, DoubtStep
  <2>. QED
    BY <2>1, <2>2, <2>3 DEF Doubted
<1>4. ASSUME NEW q \in requests[s], MovePort(s, q)
      PROVE  port'[Home(s)'] = s /\ stage'[s] = "move_key"
  BY <1>1, <1>4, CleanMove
<1>5. CASE MoveRegistry(s)
  BY <1>5, MoveEnds DEF RegistryInv, PortKept
<1>. QED
  BY <1>1, <1>2, <1>3, <1>4, <1>5, BaseStep

(* So does the key file, also while it is moved, ...                       *)
LEMMA KeyStep ==
    ASSUME RegistryAssumption, RegistryInv, Next, CleanMoves'
    PROVE  KeyKept'
<1>. SUFFICES ASSUME NEW s \in Servers, Keeps(s)',
                     stage'[s] \notin {"born", "sweep", "key"}
              PROVE  key'[IF stage'[s] = "move_key" THEN name'[s] ELSE Home(s)'] = s
  BY DEF KeyKept
<1>1. /\ stage \in [Servers -> Stages] /\ key \in [Bases -> Servers \cup {None}]
      /\ RegistryTypes /\ SweepsInTurn /\ Exclusive /\ None \notin Servers
  BY RegistryAssumption DEF RegistryInv, RegistryTypes, ServersTyped, FilesTyped
<1>2. CASE Stays(s)
  <2>1. /\ Keeps(s) /\ Alive(s) /\ Proceeds(s) /\ Home(s)' = Home(s)
        /\ Home(s) \in Bases /\ WorksOn(s, Home(s)) /\ ~Doomed(Home(s))
        /\ Home(s) \notin contested /\ Home(s) \notin contested'
    BY <1>2, HomeKept
  <2>2. name'[s] = name[s] /\ moving'[s] = moving[s]
    BY <1>2 DEF Stays
  <2>3. CASE stage'[s] = "move_key"
    <3>1. stage[s] = "move_key" /\ moving[s] # None /\ name[s] \in Bases
      BY <1>1, <2>1, <2>3 DEF Proceeds, Begin, BindAndWritePort, Goes, WriteKey,
         WriteRegistry, Ready, MoveKey, RegistryTypes, WorkKnown
    <3>2. key[name[s]] = s
      BY <2>1, <3>1 DEF RegistryInv, KeyKept
    <3>3. ~Doomed(name[s])
      BY <2>1, <3>1 DEF RegistryInv, LeftInPeace
    <3>4. Home(s) = moving[s].to
      BY <3>1 DEF Home
    <3>5. name[s] \notin contested' /\ name[s] \notin contested
      BY <2>1, <2>2, <3>1, <3>4, ContestedStays DEF CleanMoves
    <3>6. WorksOn(s, name[s])
      BY DEF WorksOn
    <3>7. \/ key'[name[s]] = key[name[s]]
          \/ WriteKey(s) \/ WriteRegistry(s) \/ MoveKey(s)
      BY <1>1, <2>1, <3>1, <3>3, <3>5, <3>6, OthersKey
    <3>. QED
      BY <1>1, <2>2, <2>3, <3>1, <3>2, <3>7 DEF WriteKey, WriteRegistry, MoveKey, Goes
  <2>4. CASE stage'[s] # "move_key"
    <3>1. \/ key'[Home(s)] = key[Home(s)]
          \/ WriteKey(s) \/ WriteRegistry(s) \/ MoveKey(s)
      BY <1>1, <2>1, OthersKey
    <3>2. CASE WriteKey(s) \/ WriteRegistry(s)
      <4>1. moving[s] = None
        BY <1>1, <3>2 DEF WriteKey, WriteRegistry, RegistryTypes, WorkKnown
      <4>. QED
        BY <1>1, <2>1, <2>4, <3>2, <4>1 DEF WriteKey, WriteRegistry, Home
    <3>3. CASE MoveKey(s)
      <4>1. stage[s] = "move_key" /\ moving[s] # None /\ name[s] \in Bases
        BY <1>1, <3>3 DEF MoveKey, RegistryTypes, WorkKnown
      <4>2. key[name[s]] = s /\ Home(s) = moving[s].to
        BY <2>1, <4>1 DEF RegistryInv, KeyKept, Home
      <4>. QED
        BY <1>1, <2>1, <2>4, <3>3, <4>1, <4>2 DEF MoveKey
    <3>4. CASE /\ key'[Home(s)] = key[Home(s)]
               /\ ~WriteKey(s) /\ ~WriteRegistry(s) /\ ~MoveKey(s)
      <4>1. stage[s] \notin {"born", "sweep", "key", "move_key"}
        BY <1>1, <2>1, <2>4, <3>4 DEF Proceeds, Begin, BindAndWritePort, Goes, Ready
      <4>. QED
        BY <2>1, <2>4, <3>4, <4>1 DEF RegistryInv, KeyKept
    <3>. QED
      BY <3>1, <3>2, <3>3, <3>4
  <2>. QED
    BY <2>3, <2>4
<1>3. CASE SpawnedFree(s)
  BY <1>3 DEF SpawnedFree
<1>4. ASSUME NEW q \in requests[s], MovePort(s, q)
      PROVE  key'[name'[s]] = s /\ stage'[s] = "move_key"
  <2>1. /\ Keeps(s) /\ stage[s] = "running" /\ Home(s) = name[s]
        /\ stage'[s] = "move_key" /\ name'[s] = name[s] /\ key' = key
    BY <1>4, CleanMove
  <2>. QED
    BY <2>1 DEF RegistryInv, KeyKept
<1>5. CASE MoveRegistry(s)
  <2>1. /\ Keeps(s) /\ stage[s] = "move_registry" /\ Home(s)' = Home(s)
        /\ stage'[s] \in {"replenish", "running"} /\ key' = key
    BY <1>5, MoveEnds
  <2>. QED
    BY <2>1 DEF RegistryInv, KeyKept
<1>. QED
  BY <1>1, <1>2, <1>3, <1>4, <1>5, BaseStep

(* ... and the registry.                                                   *)
LEMMA RegistryStep ==
    ASSUME RegistryAssumption, RegistryInv, Next
    PROVE  RegistryKept'
<1>. SUFFICES ASSUME NEW s \in Servers, Keeps(s)'
              PROVE  /\ registry'[Home(s)'] = (IF Published(s)' THEN s ELSE None)
                     /\ \A p \in Procs : seen'[p] # None /\ seen'[p].base = Home(s)'
                                         => ~seen'[p].registered
  BY DEF RegistryKept
<1>1. /\ stage \in [Servers -> Stages] /\ registry \in [Bases -> Servers \cup {None}]
      /\ RegistryTypes /\ SweepsInTurn /\ Exclusive /\ None \notin Servers
  BY RegistryAssumption DEF RegistryInv, RegistryTypes, ServersTyped, FilesTyped
<1>2. CASE Stays(s)
  <2>1. /\ Keeps(s) /\ Alive(s) /\ Proceeds(s) /\ Home(s)' = Home(s)
        /\ Home(s) \in Bases /\ WorksOn(s, Home(s)) /\ ~Doomed(Home(s))
        /\ Home(s) \notin contested /\ Home(s) \notin contested'
        /\ registry[Home(s)] \in {None, s}
    BY <1>2, HomeKept
  <2>2. /\ registry[Home(s)] = (IF Published(s) THEN s ELSE None)
        /\ \A q \in Procs : seen[q] # None /\ seen[q].base = Home(s)
                            => ~seen[q].registered
    BY <2>1 DEF RegistryInv, RegistryKept
  <2>3. \A q \in Procs :
           seen'[q] # None /\ seen'[q].base = Home(s) => ~seen'[q].registered
    BY <1>1, <2>1, <2>2, SeenStep
  <2>4. \/ registry'[Home(s)] = registry[Home(s)]
        \/ WriteRegistry(s) \/ Ready(s) \/ RefreshRegistry(s) \/ MoveRegistry(s)
    BY <1>1, <2>1, OthersRegistry
  <2>5. CASE WriteRegistry(s) \/ Ready(s) \/ RefreshRegistry(s)
    <3>1. moving[s] = None
      BY <1>1, <2>5 DEF WriteRegistry, Ready, RefreshRegistry, RegistryTypes, WorkKnown
    <3>2. Home(s) = name[s]
      BY <3>1 DEF Home
    <3>3. registry'[name[s]] = s
      BY <1>1, <2>1, <2>5, <3>2 DEF WriteRegistry, Ready, RefreshRegistry
    <3>4. Published(s)'
      BY <1>1, <2>5 DEF WriteRegistry, Ready, RefreshRegistry, Goes, Published, srv
    <3>. QED
      BY <2>1, <2>3, <3>2, <3>3, <3>4
  <2>6. CASE MoveRegistry(s)
    <3>1. moving'[s] = None /\ moving[s] # None
      BY <1>1, <2>6 DEF MoveRegistry, RegistryTypes, WorkKnown, ServersTyped
    <3>. QED
      BY <1>2, <3>1 DEF Stays
  <2>7. CASE /\ registry'[Home(s)] = registry[Home(s)]
             /\ ~WriteRegistry(s) /\ ~Ready(s)
    <3>1. Published(s)' = Published(s)
      BY <1>1, <2>1, <2>7 DEF Proceeds, Begin, BindAndWritePort, Goes, WriteKey, MoveKey,
         Published
    <3>. QED
      BY <2>1, <2>2, <2>3, <2>7, <3>1
  <2>. QED
    BY <2>4, <2>5, <2>6, <2>7
<1>3. CASE SpawnedFree(s)
  <2>1. /\ stage'[s] = "born" /\ Home(s)' = name'[s] /\ registry' = registry
        /\ seen' = seen /\ registry[name'[s]] = None
    BY <1>3 DEF SpawnedFree, Home, Free
  <2>2. \A p \in Procs : ~(seen[p] # None /\ seen[p].base = name'[s])
    BY <1>3 DEF SpawnedFree, Free, Undisturbed, Sweeps
  <2>. QED
    BY <2>1, <2>2 DEF Published
<1>4. ASSUME NEW q \in requests[s], MovePort(s, q)
      PROVE  /\ registry'[Home(s)'] = (IF Published(s)' THEN s ELSE None)
             /\ \A p \in Procs : seen'[p] # None /\ seen'[p].base = Home(s)'
                                 => ~seen'[p].registered
  <2>1. /\ stage'[s] = "move_key" /\ Home(s)' = q.to /\ registry' = registry
        /\ seen' = seen /\ registry[q.to] = None
    BY <1>4, CleanMove DEF sweep, Free
  <2>2. \A p \in Procs : ~(seen[p] # None /\ seen[p].base = q.to)
    BY <1>4, CleanMove DEF Free, Undisturbed, Sweeps
  <2>. QED
    BY <2>1, <2>2 DEF Published
<1>5. CASE MoveRegistry(s)
  <2>1. /\ Keeps(s) /\ Home(s)' = Home(s) /\ Home(s) = moving[s].to
        /\ moving[s].to \in Bases /\ stage'[s] \in {"replenish", "running"}
        /\ registry' = [registry EXCEPT ![name[s]] = None, ![moving[s].to] = s]
        /\ seen' = seen
    BY <1>5, MoveEnds DEF sweep
  <2>. QED
    BY <1>1, <2>1 DEF RegistryInv, RegistryKept, Published
<1>. QED
  BY <1>1, <1>2, <1>3, <1>4, <1>5, BaseStep

(* No sweep is about to remove them, ...                                   *)
LEMMA NotDoomedStep ==
    ASSUME RegistryAssumption, RegistryInv, Next
    PROVE  NotDoomed'
<1>. SUFFICES ASSUME NEW s \in Servers, Keeps(s)'
              PROVE  ~\E p \in Procs : doomed'[p] = Home(s)'
  BY DEF NotDoomed, Doomed
<1>1. /\ stage \in [Servers -> Stages]
      /\ RegistryTypes /\ SweepsInTurn /\ Exclusive
  BY DEF RegistryInv, RegistryTypes, ServersTyped
<1>2. CASE Stays(s)
  <2>1. /\ Keeps(s) /\ Alive(s) /\ Home(s)' = Home(s)
        /\ Home(s) \in Bases /\ WorksOn(s, Home(s)) /\ ~Doomed(Home(s))
        /\ Home(s) \notin contested /\ Home(s) \notin contested'
        /\ port[Home(s)] \in {None, s}
        /\ port[Home(s)] = None => ~Doubted(Home(s))
        /\ port[Home(s)] = s => Open(s)
    BY <1>2, HomeKept
  <2>2. \A q \in Procs : seen[q] # None /\ seen[q].base = Home(s) => ~seen[q].registered
    BY <2>1 DEF RegistryInv, RegistryKept
  <2>3. ASSUME Doomed(Home(s))' PROVE Stop(s)
    <3>1. ASSUME NEW b \in Bases, b = Home(s), Doomed(b)' PROVE Stop(s)
      BY <1>1, <2>1, <2>2, <3>1, DoomStep
    <3>. QED
      BY <2>1, <2>3, <3>1 DEF Doomed
  <2>4. ~Stop(s)
    BY <1>1 DEF Stop, Goes, Keeps
  <2>. QED
    BY <2>1, <2>3, <2>4 DEF Doomed
<1>3. CASE SpawnedFree(s)
  BY <1>3 DEF SpawnedFree, Home, Free, Undisturbed, Sweeps
<1>4. ASSUME NEW q \in requests[s], MovePort(s, q)
      PROVE  ~\E p \in Procs : doomed'[p] = Home(s)'
  <2>1. Home(s)' = q.to /\ doomed' = doomed /\ Free(q.to, s)
    BY <1>4, CleanMove DEF sweep
  <2>. QED
    BY <2>1 DEF Free, Undisturbed, Sweeps
<1>5. CASE MoveRegistry(s)
  <2>1. Keeps(s) /\ Home(s)' = Home(s) /\ doomed' = doomed
    BY <1>5, MoveEnds DEF sweep
  <2>. QED
    BY <2>1 DEF RegistryInv, NotDoomed, Doomed
<1>. QED
  BY <1>1, <1>2, <1>3, <1>4, <1>5, BaseStep

(* ... nor those that are left behind before the key file is moved.        *)
LEMMA PeaceStep ==
    ASSUME RegistryAssumption, RegistryInv, Next, CleanMoves'
    PROVE  LeftInPeace'
<1>. SUFFICES ASSUME NEW s \in Servers, Keeps(s)', stage'[s] = "move_key"
              PROVE  port'[name'[s]] = None /\ ~Doubted(name[s])' /\ ~Doomed(name[s])'
  BY DEF LeftInPeace
<1>1. /\ stage \in [Servers -> Stages] /\ port \in [Bases -> Servers \cup {None}]
      /\ moving \in [Servers -> Requests \cup {None}]
      /\ requests \in [Servers -> SUBSET Requests]
      /\ None \notin Servers /\ None \notin Requests
      /\ RegistryTypes /\ SweepsInTurn /\ Exclusive
  BY RegistryAssumption DEF RegistryInv, RegistryTypes, ServersTyped, FilesTyped
<1>2. CASE Stays(s)
  <2>1. /\ Keeps(s) /\ Alive(s) /\ Proceeds(s) /\ Home(s)' = Home(s)
        /\ Home(s) \notin contested'
    BY <1>2, HomeKept
  <2>2. name'[s] = name[s] /\ moving'[s] = moving[s]
    BY <1>2 DEF Stays
  <2>3. stage[s] = "move_key" /\ moving[s] # None /\ name[s] \in Bases
    BY <1>1, <2>1 DEF Proceeds, Begin, BindAndWritePort, Goes, WriteKey, WriteRegistry,
       Ready, MoveKey, RegistryTypes, WorkKnown
  <2>4. port[name[s]] = None /\ ~Doubted(name[s]) /\ ~Doomed(name[s])
    BY <2>1, <2>3 DEF RegistryInv, LeftInPeace
  <2>5. Home(s) = moving[s].to
    BY <2>3 DEF Home
  <2>6. name[s] \notin contested' /\ name[s] \notin contested
    BY <2>1, <2>2, <2>3, <2>5, ContestedStays DEF CleanMoves
  <2>7. WorksOn(s, name[s])
    BY DEF WorksOn
  <2>8. port'[name[s]] = None
    <3>1. \/ port'[name[s]] = port[name[s]]
          \/ BindAndWritePort(s)
          \/ \E q \in requests[s] : MovePort(s, q)
      BY <1>1, <2>1, <2>3, <2>4, <2>6, <2>7, OthersPort
    <3>. QED
      BY <2>3, <2>4, <3>1 DEF BindAndWritePort, MovePort
  <2>9. ~Stop(s)
    BY <2>3 DEF Stop
  <2>10. \A q \in Procs : seen[q] # None /\ seen[q].base = name[s] => ~seen[q].registered
    BY <2>4 DEF Doubted
  <2>11. ASSUME NEW b \in Bases, b = name[s] PROVE ~Doubted(b)' /\ ~Doomed(b)'
    <3>1. ~Doubted(b)'
      BY <1>1, <2>4, <2>11, DoubtStep
    <3>2. ~Doomed(b)'
      BY <1>1, <1>2, <2>1, <2>4, <2>6, <2>7, <2>9, <2>10, <2>11, DoomStep
    <3>. QED
      BY <3>1, <3>2
  <2>. QED
    BY <2>2, <2>3, <2>8, <2>11 DEF Doubted, Doomed
<1>3. CASE SpawnedFree(s)
  BY <1>3 DEF SpawnedFree
<1>4. ASSUME NEW q \in requests[s], MovePort(s, q)
      PROVE  port'[name'[s]] = None /\ ~Doubted(name[s])' /\ ~Doomed(name[s])'
  <2>1. /\ name'[s] = name[s] /\ q.to \in Bases /\ name[s] \in Bases /\ name[s] # q.to
        /\ Undisturbed(name[s], s)
        /\ port' = [port EXCEPT ![name[s]] = None, ![q.to] = s]
        /\ UNCHANGED <<usr, sweep>>
    BY <1>4, CleanMove
  <2>2. port'[name[s]] = None
    BY <1>1, <2>1
  <2>3. ~Doubted(name[s]) /\ ~Doomed(name[s])
    BY <2>1 DEF Undisturbed, Sweeps, Doubted, Doomed
  <2>4. /\ todo' = todo /\ seen' = seen /\ doomed' = doomed /\ pc' = pc /\ cmd' = cmd
    BY <2>1 DEF usr, sweep
  <2>. QED
    BY <2>1, <2>2, <2>3, <2>4 DEF Doubted, Doomed
<1>5. CASE MoveRegistry(s)
  BY <1>5, MoveEnds
<1>. QED
  BY <1>1, <1>2, <1>3, <1>4, <1>5, BaseStep

-----------------------------------------------------------------------------
(* The theorems.                                                           *)

(* There are no files and no servers at first.                             *)
LEMMA RegistryInit ==
    ASSUME RegistryAssumption, Init
    PROVE  RegistryInv
<1>1. /\ None \notin Bases /\ None \notin Servers /\ None \notin Users
      /\ None \notin Requests
  BY RegistryAssumption
<1>2. RegistryTypes
  <2>1. FilesTyped /\ ServersTyped
    BY DEF Init, FilesTyped, ServersTyped, Stages
  <2>2. UsersTyped /\ SweepsTyped
    BY DEF Init, UsersTyped, SweepsTyped, Steps
  <2>3. WorkKnown
    BY DEF Init, WorkKnown
  <2>. QED
    BY <2>1, <2>2, <2>3 DEF RegistryTypes
<1>3. SweepsInTurn
  BY DEF Init, SweepsInTurn, Procs
<1>4. FilesFollow /\ Exclusive /\ CleanMoves
  BY <1>1 DEF Init, FilesFollow, Exclusive, CleanMoves, Alive
<1>5. \A s \in Servers : ~Keeps(s)
  BY DEF Init, Keeps, Alive
<1>. QED
  BY <1>2, <1>3, <1>4, <1>5 DEF RegistryInv, PortKept, KeyKept, RegistryKept, NotDoomed,
     LeftInPeace

(* Every step keeps the invariant, ...                                     *)
LEMMA RegistryNext ==
    ASSUME RegistryAssumption, RegistryInv, Next
    PROVE  RegistryInv'
<1>1. RegistryTypes' /\ SweepsInTurn' /\ FilesFollow' /\ Exclusive'
  BY TypesStep, TurnStep, FollowStep, ExclusiveStep DEF RegistryInv
<1>2. CleanMoves'
  BY CleanStep DEF RegistryInv
<1>3. PortKept' /\ KeyKept' /\ RegistryKept' /\ NotDoomed' /\ LeftInPeace'
  BY <1>2, PortStep, KeyStep, RegistryStep, NotDoomedStep, PeaceStep
<1>. QED
  BY <1>1, <1>2, <1>3 DEF RegistryInv

(* ... and so does a step of something else.                               *)
LEMMA RegistryStutters ==
    ASSUME RegistryInv, UNCHANGED vars
    PROVE  RegistryInv'
<1>1. /\ port' = port /\ key' = key /\ registry' = registry /\ recent' = recent
      /\ stage' = stage /\ name' = name /\ requests' = requests /\ moving' = moving
      /\ pc' = pc /\ cmd' = cmd /\ answered' = answered /\ commands' = commands
      /\ todo' = todo /\ seen' = seen /\ doomed' = doomed /\ contested' = contested
  BY DEF vars
<1>2. RegistryTypes' /\ SweepsInTurn'
  BY <1>1 DEF RegistryInv, RegistryTypes, FilesTyped, ServersTyped, UsersTyped,
     SweepsTyped, WorkKnown, SweepsInTurn
<1>3. FilesFollow' /\ Exclusive' /\ CleanMoves'
  BY <1>1 DEF RegistryInv, FilesFollow, Exclusive, CleanMoves, Alive, WorksOn, Home
<1>4. PortKept' /\ NotDoomed' /\ LeftInPeace'
  BY <1>1 DEF RegistryInv, PortKept, NotDoomed, LeftInPeace, Keeps, Alive, Home,
     Doubted, Doomed
<1>5. KeyKept' /\ RegistryKept'
  BY <1>1 DEF RegistryInv, KeyKept, RegistryKept, Keeps, Alive, Home, Published
<1>. QED
  BY <1>2, <1>3, <1>4, <1>5 DEF RegistryInv

(* What the servers, their files and the sweeps of everybody keep true at  *)
(* every step: the types, whose files are where, and, of each base that    *)
(* only its own server came to, that no sweep gives it up.                 *)
THEOREM RegistryInvariant == Spec => []RegistryInv
<1>1. Init => RegistryInv
  BY RegistryAssumption, RegistryInit
<1>2. RegistryInv /\ [Next]_vars => RegistryInv'
  BY RegistryAssumption, RegistryNext, RegistryStutters
<1>. QED
  BY <1>1, <1>2, PTL DEF Spec

(* However many servers are started, renamed, claimed and killed, and      *)
(* whoever sweeps in between: a session whose server came to a free name   *)
(* is found under it by all three files.                                   *)
THEOREM SessionsAreFound == Spec => []SessionIsFound
<1>1. RegistryInv => SessionIsFound
  <2>. SUFFICES ASSUME RegistryInv, NEW s \in Servers, Published(s),
                       name[s] \notin contested
                PROVE  port[name[s]] = s /\ key[name[s]] = s /\ registry[name[s]] = s
    BY DEF SessionIsFound
  <2>1. /\ stage[s] \in {"starting", "replenish", "spawn", "running"} /\ Alive(s)
        /\ moving[s] = None
    BY DEF Published, Alive, RegistryInv, RegistryTypes, WorkKnown
  <2>2. Home(s) = name[s] /\ Keeps(s)
    BY <2>1 DEF Home, Keeps
  <2>. QED
    BY <2>1, <2>2 DEF RegistryInv, PortKept, KeyKept, RegistryKept
<1>. QED
  BY <1>1, RegistryInvariant, PTL

(* A server that stopped in order left no port file and no registry under  *)
(* any name it ever had.                                                   *)
THEOREM StoppedServersLeaveNothing == Spec => []StoppedLeavesNoFiles
<1>1. RegistryInv => StoppedLeavesNoFiles
  BY DEF RegistryInv, FilesFollow, StoppedLeavesNoFiles
<1>. QED
  BY <1>1, RegistryInvariant, PTL
=============================================================================
