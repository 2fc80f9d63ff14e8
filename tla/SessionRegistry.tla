--------------------------- MODULE SessionRegistry ---------------------------
(***************************************************************************)
(* How the multiplexer's sessions are found.  Each session is a server     *)
(* process of its own; all that others know of it are three files named    *)
(* after the session (its base): the port it listens on, the key it asks   *)
(* for, and the registry, which says whose process wrote it.  A server     *)
(* writes the files one after the other, moves them when the session is    *)
(* renamed, and removes them before it ends; one that is killed leaves     *)
(* them behind.  Every command of the user, and every server as it starts, *)
(* first removes the files of servers that are no more.  No lock guards    *)
(* any of this.                                                            *)
(*                                                                         *)
(* A warm server waits under a base of its own until a new session claims  *)
(* it, which renames it; each session's server sees to the next one.       *)
(***************************************************************************)
EXTENDS FiniteSets, Naturals

CONSTANTS
    Names,          \* the sessions' bases
    Warm,           \* the warm server's base
    Users,          \* shells in which the user gives commands
    Servers,        \* bound: server processes ever started
    None,
    Ops,            \* the commands given
    MaxCommands     \* bound: commands ever given

Bases == Names \cup {Warm}
Procs == Users \cup Servers

(* CtrlReq::RenameSession and CtrlReq::ClaimSession: the base to take, and *)
(* whose command asked for it.                                             *)
Requests == [op : {"rename", "claim"}, to : Bases, from : Users]

ASSUME RegistryAssumption ==
    /\ Warm \notin Names
    /\ None \notin Bases \cup Servers \cup Users \cup Requests
    /\ Users \cap Servers = {}
    /\ MaxCommands \in Nat
    /\ Ops \subseteq {"new", "kill", "rename", "warmup", "ls"}

VARIABLES
    port,       \* the port file of each base: the server it leads to
    key,        \* the key file: the server whose key it holds
    registry,   \* the registry file: the server whose process wrote it
    recent,     \* bases whose port file is younger than the grace period
    stage,      \* servers: what each is about to do, or how it ended
    name,       \* servers: the base it works under
    requests,   \* servers: requests to rename that were received
    moving,     \* servers: the request that is carried out
    pc,         \* users: the step of the command
    cmd,        \* users: the command
    answered,   \* users whose claim was answered
    commands,   \* number of commands given
    todo,       \* bases that a process has listed and not yet looked at
    seen,       \* the base it looked at, and whether there was a registry
    doomed,     \* the base whose files it removes next
    contested   \* history: bases that were not free when a server came to them

files == <<port, key, registry, recent>>
srv   == <<stage, name, requests, moving>>
usr   == <<pc, cmd, answered, commands>>
sweep == <<todo, seen, doomed>>
vars  == <<port, key, registry, recent, stage, name, requests, moving, pc, cmd, answered,
           commands, todo, seen, doomed, contested>>

Alive(s) == s \in Servers /\ stage[s] \notin {"unborn", "stopped", "killed"}

(* A server takes connections once it is bound, and answers on them once   *)
(* its accept thread runs.                                                 *)
Open(s)   == Alive(s) /\ stage[s] \notin {"born", "sweep"}
Serves(s) == Open(s) /\ stage[s] \notin {"key", "registry"}

(* authenticated_session_responds: what the port file leads to takes the   *)
(* key of the key file.                                                    *)
Answers(b) == Serves(port[b]) /\ key[b] = port[b]

Init ==
    /\ port = [b \in Bases |-> None] /\ key = port /\ registry = port /\ recent = {}
    /\ stage = [s \in Servers |-> "unborn"]
    /\ name = [s \in Servers |-> None] /\ moving = name
    /\ requests = [s \in Servers |-> {}]
    /\ pc = [u \in Users |-> "idle"] /\ cmd = [u \in Users |-> None]
    /\ answered = {} /\ commands = 0
    /\ todo = [p \in Procs |-> {}] /\ seen = [p \in Procs |-> None] /\ doomed = seen
    /\ contested = {}

-----------------------------------------------------------------------------
(* Who works on a base.                                                    *)

Sweeps(p, b) == \/ b \in todo[p]
                \/ seen[p] # None /\ seen[p].base = b
                \/ doomed[p] = b

WorksOn(s, b) == name[s] = b \/ (moving[s] # None /\ moving[s].to = b)

Taken(b, s) == \E o \in Servers \ {s} : Alive(o) /\ WorksOn(o, b)

(* No other server has this base or takes it, and nobody is about to       *)
(* remove its files.                                                       *)
Undisturbed(b, s) ==
    /\ ~Taken(b, s)
    /\ \A p \in Procs : ~Sweeps(p, b)
    /\ \A u \in Users : pc[u] = "verify" => cmd[u].base # b

(* Nothing is left of an earlier server either.                            *)
Free(b, s) == port[b] = None /\ registry[b] = None /\ Undisturbed(b, s)

(* A base that two work on at a time, and where a server takes it to.      *)
Spoiled(b) == {b} \cup {moving[o].to : o \in {s \in Servers : name[s] = b /\ moving[s] # None}}

Contest(b, clean) == contested' = contested \cup (IF clean THEN {} ELSE Spoiled(b))

(* spawn_headless_server: a process that will serve a base.                *)
Spawn(s, b) ==
    /\ stage[s] = "unborn"
    /\ name' = [name EXCEPT ![s] = b]
    /\ Contest(b, Free(b, s))

-----------------------------------------------------------------------------
(* Removing the files of servers that are no more.                         *)

Rests(p) == todo[p] = {} /\ seen[p] = None /\ doomed[p] = None

(* cleanup_stale_port_files lists the port files.                          *)
List(p) == todo' = [todo EXCEPT ![p] = {b \in Bases : port[b] # None}]

(* Files are kept while the process that the registry names lives, and,    *)
(* when there is no registry, while the port file is new.                  *)
Kept_WithoutProcess(b) == registry[b] = None /\ b \in recent

Kept(b) == \/ registry[b] = None /\ b \in recent
           \/ Alive(registry[b])

Look(p, b) ==
    /\ b \in todo[p] /\ seen[p] = None /\ doomed[p] = None
    /\ p \in Users => pc[p] # "list"
    /\ todo' = [todo EXCEPT ![p] = @ \ {b}]
    /\ seen' = IF Kept(b) THEN seen
               ELSE [seen EXCEPT ![p] = [base |-> b, registered |-> registry[b] # None]]
    /\ UNCHANGED <<files, srv, usr, doomed, contested>>

(* What the files lead to is asked before they are given up; a server may  *)
(* be too slow to answer.  One that can be connected to is spared if there *)
(* was no registry.                                                        *)
Probe(p) ==
    /\ seen[p] # None
    /\ \E in_time \in BOOLEAN :
        LET b == seen[p].base IN
        doomed' = IF \/ in_time /\ Answers(b)
                     \/ ~seen[p].registered /\ Open(port[b])
                  THEN doomed ELSE [doomed EXCEPT ![p] = b]
    /\ seen' = [seen EXCEPT ![p] = None]
    /\ UNCHANGED <<files, srv, usr, todo, contested>>

(* remove_session_state_files.  A server that stops ends with it.          *)
Remove(p) ==
    /\ doomed[p] # None
    /\ LET b == doomed[p] IN
       /\ port' = [port EXCEPT ![b] = None] /\ key' = [key EXCEPT ![b] = None]
       /\ registry' = [registry EXCEPT ![b] = None]
       /\ recent' = recent \ {b}
    /\ doomed' = [doomed EXCEPT ![p] = None]
    /\ stage' = IF p \in Servers /\ stage[p] = "stopping"
                THEN [stage EXCEPT ![p] = "stopped"] ELSE stage
    /\ UNCHANGED <<name, requests, moving, usr, todo, seen, contested>>

(* The grace period of a port file ends.                                   *)
Ages(b) ==
    /\ b \in recent
    /\ recent' = recent \ {b}
    /\ UNCHANGED <<port, key, registry, srv, usr, sweep, contested>>

-----------------------------------------------------------------------------
(* A server.                                                               *)

Goes(s, next) == stage' = [stage EXCEPT ![s] = next]

(* The process begins, like every command, by removing stale files.        *)
Begin(s) ==
    /\ stage[s] = "born"
    /\ Goes(s, "sweep")
    /\ List(s)
    /\ UNCHANGED <<files, name, requests, moving, usr, seen, doomed, contested>>

BindAndWritePort(s) ==
    /\ stage[s] = "sweep" /\ Rests(s)
    /\ Goes(s, "key")
    /\ port' = [port EXCEPT ![name[s]] = s] /\ recent' = recent \cup {name[s]}
    /\ UNCHANGED <<key, registry, name, requests, moving, usr, sweep, contested>>

WriteKey(s) ==
    /\ stage[s] = "key"
    /\ Goes(s, "registry")
    /\ key' = [key EXCEPT ![name[s]] = s]
    /\ UNCHANGED <<port, registry, recent, name, requests, moving, usr, sweep, contested>>

(* write_current_session_registry, here with state "starting".  The key    *)
(* file is then written once more, with its permissions restricted.        *)
WriteRegistry(s) ==
    /\ stage[s] = "registry"
    /\ Goes(s, "starting")
    /\ registry' = [registry EXCEPT ![name[s]] = s]
    /\ key' = [key EXCEPT ![name[s]] = s]
    /\ UNCHANGED <<port, recent, name, requests, moving, usr, sweep, contested>>

(* The first window is there: the registry says "ready".                   *)
Ready(s) ==
    /\ stage[s] = "starting"
    /\ Goes(s, "replenish")
    /\ registry' = [registry EXCEPT ![name[s]] = s]
    /\ UNCHANGED <<port, key, recent, name, requests, moving, usr, sweep, contested>>

(* spawn_warm_server does nothing if a warm server can be connected to, if *)
(* this is one, or if there shall be none.                                 *)
Replenish(s) ==
    /\ stage[s] = "replenish"
    /\ \/ Goes(s, "running") /\ UNCHANGED doomed
       \/ /\ name[s] # Warm /\ ~Open(port[Warm])
          /\ Goes(s, "spawn")
          /\ doomed' = IF port[Warm] = None THEN doomed ELSE [doomed EXCEPT ![s] = Warm]
    /\ UNCHANGED <<files, name, requests, moving, usr, todo, seen, contested>>

SpawnWarm(s) ==
    /\ stage[s] = "spawn" /\ Rests(s)
    /\ \E w \in Servers :
        /\ Spawn(w, Warm)
        /\ stage' = [stage EXCEPT ![s] = "running", ![w] = "born"]
    /\ UNCHANGED <<files, requests, moving, usr, sweep>>

(* After a change of its panes the server writes its registry again.       *)
RefreshRegistry(s) ==
    /\ stage[s] = "running"
    /\ registry[name[s]] # s
    /\ registry' = [registry EXCEPT ![name[s]] = s]
    /\ UNCHANGED <<port, key, recent, srv, usr, sweep, contested>>

(* kill-session, or the last shell has ended.                              *)
Stop(s) ==
    /\ stage[s] = "running"
    /\ Goes(s, "stopping")
    /\ doomed' = [doomed EXCEPT ![s] = name[s]]
    /\ UNCHANGED <<files, name, requests, moving, usr, todo, seen, contested>>

(* RenameSession and ClaimSession move the port file, then the key file,   *)
(* then the registry.                                                      *)
MovePort(s, r) ==
    /\ stage[s] = "running" /\ r \in requests[s]
    /\ Goes(s, "move_key")
    /\ moving' = [moving EXCEPT ![s] = r]
    /\ requests' = [requests EXCEPT ![s] = @ \ {r}]
    /\ port' = [port EXCEPT ![name[s]] = None, ![r.to] = s]
    /\ recent' = (recent \ {name[s]}) \cup {r.to}
    /\ Contest(r.to, /\ Free(r.to, s) /\ Undisturbed(name[s], s)
                     /\ name[s] \notin contested)
    /\ UNCHANGED <<key, registry, name, usr, sweep>>

MoveKey(s) ==
    /\ stage[s] = "move_key"
    /\ Goes(s, "move_registry")
    /\ key' = IF key[name[s]] = None THEN key
              ELSE [key EXCEPT ![name[s]] = None, ![moving[s].to] = key[name[s]]]
    /\ UNCHANGED <<port, registry, recent, name, requests, moving, usr, sweep, contested>>

(* A claim is answered, and the next warm server seen to.                  *)
MoveRegistry_Copies(s) ==
    /\ stage[s] = "move_registry"
    /\ LET r == moving[s] IN
       /\ registry' = [registry EXCEPT ![r.to] = s]
       /\ name' = [name EXCEPT ![s] = r.to]
       /\ Goes(s, IF r.op = "claim" THEN "replenish" ELSE "running")
       /\ answered' = IF r.op = "claim" THEN answered \cup {r.from} ELSE answered
    /\ moving' = [moving EXCEPT ![s] = None]
    /\ UNCHANGED <<port, key, recent, requests, pc, cmd, commands, sweep, contested>>

MoveRegistry(s) ==
    /\ stage[s] = "move_registry"
    /\ LET r == moving[s] IN
       /\ registry' = [registry EXCEPT ![name[s]] = None, ![r.to] = s]
       /\ name' = [name EXCEPT ![s] = r.to]
       /\ Goes(s, IF r.op = "claim" THEN "replenish" ELSE "running")
       /\ answered' = IF r.op = "claim" THEN answered \cup {r.from} ELSE answered
    /\ moving' = [moving EXCEPT ![s] = None]
    /\ UNCHANGED <<port, key, recent, requests, pc, cmd, commands, sweep, contested>>

-----------------------------------------------------------------------------
(* A command of the user.                                                  *)

At(u, step, op) == pc[u] = step /\ cmd[u].op = op /\ Rests(u)

Step(u, next) == pc' = [pc EXCEPT ![u] = next]

(* Every command begins by removing stale files.                           *)
Command(u, op, b, n) ==
    /\ pc[u] = "idle" /\ Rests(u) /\ commands < MaxCommands
    /\ op \in Ops
    /\ commands' = commands + 1
    /\ cmd' = [cmd EXCEPT ![u] = [op |-> op, base |-> b, to |-> n]]
    /\ answered' = answered \ {u}
    /\ Step(u, "begun")
    /\ List(u)
    /\ UNCHANGED <<files, srv, seen, doomed, contested>>

(* new-session: a name that is taken by a live server is left alone; what  *)
(* a dead one left is removed, and the command goes on if that worked.     *)
Check(u) ==
    /\ At(u, "begun", "new")
    /\ LET b == cmd[u].base IN
       IF port[b] = None THEN Step(u, "warm") /\ UNCHANGED todo
       ELSE IF Open(port[b]) THEN Step(u, "idle") /\ UNCHANGED todo
       ELSE Step(u, "recheck") /\ List(u)
    /\ UNCHANGED <<files, srv, cmd, answered, commands, seen, doomed, contested>>

Recheck(u) ==
    /\ At(u, "recheck", "new")
    /\ Step(u, IF port[cmd[u].base] = None THEN "warm" ELSE "idle")
    /\ UNCHANGED <<files, srv, cmd, answered, commands, sweep, contested>>

(* A warm server that can be connected to is asked to become the session;  *)
(* the files of one that cannot are removed.  A command that brings a      *)
(* program of its own, or no warm server, or one with another key, goes on *)
(* to a new server.                                                        *)
AskWarm(u) ==
    /\ At(u, "warm", "new")
    /\ LET s == port[Warm] IN
       \/ /\ Open(s) /\ key[Warm] = s
          /\ requests' = [requests EXCEPT ![s] =
                @ \cup {[op |-> "claim", to |-> cmd[u].base, from |-> u]}]
          /\ Step(u, "claim") /\ UNCHANGED doomed
       \/ /\ s # None /\ ~Open(s)
          /\ doomed' = [doomed EXCEPT ![u] = Warm]
          /\ Step(u, "spawn") /\ UNCHANGED requests
       \/ Step(u, "spawn") /\ UNCHANGED <<requests, doomed>>
    /\ UNCHANGED <<files, stage, name, moving, cmd, answered, commands, todo, seen, contested>>

(* The answer comes, or it does not come in time or at all.                *)
Claimed(u) ==
    /\ pc[u] = "claim"
    /\ \/ u \in answered /\ Step(u, "wait")
       \/ u \notin answered /\ Step(u, "spawn")
    /\ UNCHANGED <<files, srv, cmd, answered, commands, sweep, contested>>

SpawnServer(u) ==
    /\ pc[u] = "spawn" /\ Rests(u)
    /\ \E s \in Servers :
        /\ Spawn(s, cmd[u].base)
        /\ Goes(s, "born")
    /\ Step(u, IF cmd[u].op = "new" THEN "wait" ELSE "idle")
    /\ UNCHANGED <<files, requests, moving, cmd, answered, commands, sweep>>

(* new-session waits for the port file, then for the port; it removes the  *)
(* files of a session that cannot be reached in the end.                   *)
Wait(u) ==
    /\ pc[u] = "wait"
    /\ \/ port[cmd[u].base] # None /\ Step(u, "verify")
       \/ port[cmd[u].base] = None /\ Step(u, "idle")
    /\ UNCHANGED <<files, srv, cmd, answered, commands, sweep, contested>>

Verify(u) ==
    /\ At(u, "verify", "new")
    /\ LET b == cmd[u].base IN
       doomed' = IF Open(port[b]) THEN doomed ELSE [doomed EXCEPT ![u] = b]
    /\ Step(u, "idle")
    /\ UNCHANGED <<files, srv, cmd, answered, commands, todo, seen, contested>>

(* kill-session reaches the server, which may stop at any time, or removes *)
(* what is stale.                                                          *)
Kill(u) ==
    /\ At(u, "begun", "kill")
    /\ IF Open(port[cmd[u].base]) THEN UNCHANGED todo ELSE List(u)
    /\ Step(u, "idle")
    /\ UNCHANGED <<files, srv, cmd, answered, commands, seen, doomed, contested>>

Rename(u) ==
    /\ At(u, "begun", "rename")
    /\ LET s == port[cmd[u].base] IN
       requests' = IF Open(s) /\ key[cmd[u].base] = s
                   THEN [requests EXCEPT ![s] =
                            @ \cup {[op |-> "rename", to |-> cmd[u].to, from |-> u]}]
                   ELSE requests
    /\ Step(u, "idle")
    /\ UNCHANGED <<files, stage, name, moving, cmd, answered, commands, sweep, contested>>

(* start-server: unless a warm server can be connected to, its files are   *)
(* removed and one is started.                                             *)
WarmUp(u) ==
    /\ At(u, "begun", "warmup")
    /\ IF Open(port[Warm]) THEN Step(u, "idle") /\ UNCHANGED <<doomed, contested>>
       ELSE /\ Step(u, "spawn")
            /\ doomed' = [doomed EXCEPT ![u] = Warm]
            /\ Contest(Warm, ~Taken(Warm, None))
    /\ UNCHANGED <<files, srv, cmd, answered, commands, todo, seen>>

(* list-sessions removes the files of each session that it cannot connect  *)
(* to, without a look at the registry.                                     *)
ListSessions(u) ==
    /\ At(u, "begun", "ls")
    /\ Step(u, IF \A b \in Bases : port[b] = None THEN "idle" ELSE "list")
    /\ List(u)
    /\ UNCHANGED <<files, srv, cmd, answered, commands, seen, doomed, contested>>

ListOne(u, b) ==
    /\ pc[u] = "list" /\ b \in todo[u] /\ doomed[u] = None
    /\ todo' = [todo EXCEPT ![u] = @ \ {b}]
    /\ doomed' = IF b = Warm \/ port[b] = None \/ Open(port[b]) THEN doomed
                 ELSE [doomed EXCEPT ![u] = b]
    /\ Step(u, IF todo[u] = {b} THEN "idle" ELSE "list")
    /\ UNCHANGED <<files, srv, cmd, answered, commands, seen, contested>>

-----------------------------------------------------------------------------
(* A process is killed, perhaps between two of the files it removes.       *)
Killed(p) ==
    /\ IF p \in Servers THEN /\ Alive(p)
                             /\ stage' = [stage EXCEPT ![p] = "killed"]
                             /\ requests' = [requests EXCEPT ![p] = {}]
                             /\ moving' = [moving EXCEPT ![p] = None]
                             /\ UNCHANGED pc
                        ELSE /\ pc[p] # "idle" \/ ~Rests(p)
                             /\ pc' = [pc EXCEPT ![p] = "idle"]
                             /\ UNCHANGED <<stage, requests, moving>>
    /\ \/ UNCHANGED <<port, recent>>
       \/ /\ doomed[p] # None
          /\ port' = [port EXCEPT ![doomed[p]] = None]
          /\ recent' = recent \ {doomed[p]}
    /\ todo' = [todo EXCEPT ![p] = {}]
    /\ seen' = [seen EXCEPT ![p] = None] /\ doomed' = [doomed EXCEPT ![p] = None]
    /\ UNCHANGED <<key, registry, name, cmd, answered, commands, contested>>

Next ==
    \/ \E p \in Procs :
        \/ \E b \in Bases : Look(p, b)
        \/ Probe(p) \/ Remove(p) \/ Killed(p)
    \/ \E b \in Bases : Ages(b)
    \/ \E s \in Servers :
        \/ Begin(s) \/ BindAndWritePort(s) \/ WriteKey(s) \/ WriteRegistry(s) \/ Ready(s)
        \/ Replenish(s) \/ SpawnWarm(s) \/ RefreshRegistry(s) \/ Stop(s)
        \/ \E r \in requests[s] : MovePort(s, r)
        \/ MoveKey(s) \/ MoveRegistry(s)
    \/ \E u \in Users :
        \/ \E b, n \in Names : Command(u, "rename", b, n)
        \/ \E op \in {"new", "kill"}, b \in Names : Command(u, op, b, b)
        \/ \E op \in {"warmup", "ls"} : Command(u, op, Warm, Warm)
        \/ Check(u) \/ Recheck(u) \/ AskWarm(u) \/ Claimed(u) \/ SpawnServer(u)
        \/ Wait(u) \/ Verify(u) \/ Kill(u) \/ Rename(u) \/ WarmUp(u)
        \/ ListSessions(u) \/ \E b \in Bases : ListOne(u, b)

Spec == Init /\ [][Next]_vars

-----------------------------------------------------------------------------
Published(s) == stage[s] \in {"starting", "replenish", "spawn", "running"}

(* A session whose server came to a free name is found under that name as  *)
(* long as the server lives: whatever cleanup_stale_port_files, the checks *)
(* of new-session, the renames and the crashes of others do meanwhile, the *)
(* three files stay its own.  A name is not free when another server has   *)
(* it, takes it or left files there, or when somebody is about to remove   *)
(* its files (contested).                                                  *)
SessionIsFound ==
    \A s \in Servers : Published(s) /\ name[s] \notin contested =>
        port[name[s]] = s /\ key[name[s]] = s /\ registry[name[s]] = s

(* A server that stopped in order has left no port file and no registry    *)
(* under any name, however often it was renamed: remove_current_session_   *)
(* state removes those of its last name only.                              *)
StoppedLeavesNoFiles ==
    \A s \in Servers, b \in Bases : stage[s] = "stopped" => s \notin {port[b], registry[b]}
=============================================================================
