# A TLA+ development of winsmux

winsmux (`src/`) is a terminal workspace that runs coding agents: a multiplexer and operator
CLI in Rust (`core/`), a Tauri desktop application (`winsmux-app/`), PowerShell orchestration
(`winsmux-core/`), and a small Linux helper, `core/crates/winsmux-remote-helper`, that runs
agents on a remote host and survives the ssh connections it is driven through.

This project models the parts in which several threads or processes share state: the helper's
session broker and its admission, the desktop's side of remote sessions, its summary scheduler,
panes, microphone and control pipe, and the multiplexer's server with the files by which its
sessions are found. TLC checks each of them on small instances; TLAPS proves part of it for any
number of actors. Every path below is relative to `src/`; a line number without a file is of
`core/crates/winsmux-remote-helper/src/session.rs`.

## 1. Inventory

| Component | Where | State it keeps | Operations and interactions |
|---|---|---|---|
| Remote session broker | `session.rs` | `BrokerInner` (sessions, number of frontends), each connection's `controlled_session`, guardians, watchers, output readers | `pty-start`, `pty-start-ack`, `pty-attach`, `pty-detach`, `pty-stop`, `pty-input`, `pty-resize`; agent exits; disconnection |
| Broker admission and shutdown | `session.rs` | admission lock file, socket path, fork and acknowledgement pipe, wake pipe, lock waiter | `serve_brokered_stdio`, `spawn_broker`, `broker_main`, `accept_available`, `attempt_shutdown` |
| Frontend relay | `session.rs` 165-460 | two buffers, half-closed directions | copies stdio to and from the broker's socket |
| Remote protocol | `winsmux-remote-helper/src/lib.rs` | none (pure) | framing, negotiation of capabilities, base64 |
| Agent resolution | `winsmux-remote-helper/src/agent_adapter.rs` | none | finds the executable of an agent |
| Desktop remote session manager | `winsmux-app/src-tauri/src/remote_session.rs` | session records, transports, reader bindings, event slots | start, detach, reattach, shutdown; talks to the broker over ssh |
| Desktop summary scheduler | `winsmux-app/src/desktopSummaryScheduler.ts`, its users in `main.ts` | timer, flight, versions, snapshot, conversation | coalesces refreshes, drops answers of an old project |
| Control pipe | `winsmux-app/src-tauri/src/control_pipe.rs`, `lib.rs` | the named pipe, the token file, current and previous token | rotation, grace period, revocation; dispatch of methods |
| Desktop backend | `winsmux-app/src-tauri/src/lib.rs` | panes and their shells, output queues, the microphone's session and snapshot | spawn, respawn, close, output, voice capture, shutdown |
| Desktop data | `winsmux-app/src-tauri/src/desktop_backend.rs` and others | none that outlives a call | projections of files and of the output of processes |
| Desktop user interface | `winsmux-app/src` | projections | rendering |
| Multiplexer server | `core/src/server`, `tree.rs`, `window_ops.rs` | windows with their pane trees and focus, owned by one thread | requests over a local socket, in batches; reaping |
| Session registry | `core/src/session.rs`, `main.rs`, `server/mod.rs` | port, key and registry files | new, kill, rename, list, warm servers, removal of stale files |
| Multiplexer client | `core/src` | none of its own | terminal input and output |
| Operator CLI and ledger | `core/src` | files of a project | projections |
| Workflows and recipes | `core/src` | declarative files | validation |
| SSH input and transport | `core/src` | none | host profiles, start of ssh |
| Terminal emulation | `core/crates` (vendored) | screen buffers | parser and pseudoterminal bindings |
| Orchestration scripts | `winsmux-core`, `scripts` | files and panes | PowerShell control plane |
| Git graph, SDKs, packages | several | none | renderer and thin clients |

`PROJECT.json` lists each of them with its sources and status.

### What is hard here

* **Threads that meet only in one mutex.** A connection's thread, an agent's watcher and an
  agent's output reader share `BrokerInner`, but every handler leaves it in the middle: to fork,
  to write a message, to signal a group, to wait for the watcher. `controlled_session` is a
  thread's own copy of a lease that other threads end (line 1608).
* **A start that is neither delivered nor undone.** Between the fork and the client's
  `pty-start-ack` there are a release pipe, a row that is `Pending`, `Writing`, `Written` or
  `Abandoned`, a watcher that must wait for the outcome (1342) and an acknowledgement that may
  never come (1287).
* **Failure of one step of several.** The guardian, the watcher or the reader cannot be created;
  the write of `PtyStarted` fails; a group cannot be proven gone.
* **Processes that die.** A guardian process kills its group when the write end of its pipe is
  closed; whoever still holds that end decides whether it ever does.
* **Two ways to end a session.** `pty-stop` and the watcher race for the row (1878).
* **The last one out.** A broker without connections and sessions must end, but never while a
  client is in its backlog (1525), and never miss the wake that tells it to (1520).
* **One broker per user.** Frontends are killed between fork, bind, listen and acknowledgement;
  the admission lock is inherited by the child (735); a stale socket file is removed (649).
* **Two ends of a lease.** The desktop keeps its own rows of the sessions the broker leases to
  it, changes row and connection under two locks, loses connections the broker has not yet seen
  end, and shuts down with calls in flight (`remote_session.rs` 1009, 1163, 1635).
* **Awaits in the desktop.** A refresh of the summary reads a snapshot, an explanation and the
  attention center over three awaits, and the user may change the project in each of them
  (`main.ts` 18165-18238).
* **Check, work, check again.** Panes are looked up, a shell is started without the mutex, and
  the pane is looked up again (`lib.rs` 1297); microphone workers report late (884).
* **A name only one process can hold, and a file that anybody can write.** The control pipe is
  created anew for each client, so another application may take it in between and write its own
  token before the first one removes the file (`lib.rs` 1937).
* **Trees and paths.** A window's focus is a path into a tree that other requests prune, split,
  rotate and graft into; a command with a target is two requests (`server/mod.rs` 3882).
* **Files instead of a server.** Sessions are found by files that servers write one after the
  other, move and remove, while every command sweeps away what looks stale (`core/src/session.rs`
  826), and nothing is locked.

The full list, each with its line and the properties that watch it, is `hazards` in
`PROJECT.json`. Of 40, 33 are covered by a property; seven have a note instead: a client that
does not read, a failure of `pipe2` that coincides with two others, the relay, the snapshot read
before an await, `respawn-pane` of a pane that is gone, the microphone after the shutdown has
begun, and a pane write that blocks.

## 2. The modules

```
SessionLease             what the broker promises of a session (abstract)
   ^ refinement                      ^ environment (INSTANCE)
RemoteBroker                      RemoteSessionManager
   ^ EXTENDS                         ^ EXTENDS
MCRemoteBroker                    MCRemoteSessionManager, RemoteSessionManagerProofs
RemoteBrokerStarts    proof: types; a start is its handler's, an unconfirmed agent has an owner
RemoteBrokerProofs    proof: what clients are told, and who changes what; leases, guardians,
                      endings, the refinement; the theorems
RemoteSessionManagerProofs   proof: types, rows, companions; what is shown against what is leased
   ^ EXTENDS
RemoteSessionManagerStops    proof: what the shutdown does to every agent

BrokerAdmission          lock, socket, fork, handshake, main loop, shutdown
   ^ EXTENDS
MCBrokerAdmission, BrokerAdmissionProofs

SummaryScheduler         requests, timer, flights, project switches, rendering
   ^ EXTENDS
MCSummaryScheduler, SummarySchedulerProofs

PtyPanes   VoiceCapture   ControlPipe      the parts of the desktop backend
   ^ EXTENDS   ^             ^
DesktopRuntime           the three of them and the shutdown
   ^ EXTENDS
MCDesktopRuntime, DesktopRuntimeProofs

MuxTree                  pane trees: the pure functions of tree.rs
   ^ EXTENDS
MuxServer                requests, batches, focus, reaping
   ^ EXTENDS
MCMuxServer

SessionRegistry          port, key and registry files
   ^ EXTENDS
MCSessionRegistry, SessionRegistryProofs
```

The two halves of the broker meet in two places only: the number of connections and the emptiness
of the session table. `RemoteBroker` has both exactly and offers `IdleShutdown` where they are
zero; `BrokerAdmission` reduces the table to "none", "some" or "removed but not yet woken", and
has the whole of the shutdown. The broker and the desktop meet in `SessionLease`: `RemoteBroker`
implements it, and `RemoteSessionManager` takes it as all there is to know of the other side.

### RemoteBroker

One action is one critical section of `BrokerInner`'s mutex, one blocking call or one message.

| Code | Model |
|---|---|
| `BrokerInner.sessions`, `.frontends` | `sessions` (the keys), `frontends`; the fields of a row are functions (`write_phase`, `controller`, `active`, `start_confirmed`, `stop_in_flight`) that keep their last value once the row is gone |
| a connection's thread | `pc`, `arg`, `after`, `controlled_session` |
| `agent_spawn` mutex | `agent_spawn` |
| `WatcherState`, `ExitNotification`, `Completion` | `watcher`, `notify`, `completion` |
| output reader, `output_gate` | `reader` ("gated" until the gate opens), `snapshot` |
| agent, release pipe | `group`: "held" before release, "running", "exited" (leader gone, group not reaped), "killed", "gone" |
| guardian process and its pipe | `guardian`; `PipeHeld(s)` says whose `Arc` keeps the write end open |
| what the client was told | `told`, `birth`: history, read by no action |

`pty-start` is eleven steps: `PtyStart` (checks) - `SpawnFork` (under the spawn mutex) -
`SpawnRelease` - `Insert` (row) - `SpawnWatcher` - `SpawnReader` - `Claim` (`Pending` to
`Writing`) - `SendStarted` - `CommitStarted` or `CommitFailed`, with `SpawnFails`,
`ReapUnwatched` and `Unregister` for the failures. `pty-stop`, a failed start, an unconfirmed
detach and an unconfirmed disconnection all go through `Signal` (kill the group) and `Finish`
(wait for the watcher's completion). The watcher is `WatcherWaits` - `Classify`
(`remove_after_agent_exit`) - `WatcherReaps` - `SendExited` - `ReleaseGuardian` - `GuardianEnds`.
Requests that only draw a rejection change nothing and appear as the guards of the others.

`SessionLease` is what a user of the broker may rely on: six stages and a holder. A session is
confirmed only by its holder; outlives a lease only when confirmed; passes from one connection to
another only through a release; and never comes back once ended. `KeepsLease` is the refinement,
with the stage computed from the row's write phase and confirmation.

### BrokerAdmission

A broker is named by the frontend that forked it (`spawn_attempted` allows one each). `fe` is
the handshake loop of `serve_brokered_stdio`, `br` the main thread of `broker_main` from fork to
exit, `conns[b]` the connections of a broker from backlog to departure, `waiter[b]` the thread of
`arm_shutdown_lock_release_waiter`. `lock` is the kernel's record of the `flock`, including that a
killed frontend's lock lives on in a child that has not closed the inherited descriptor.
`socket` is the file at the path; it stays when its broker is lost.

### SummaryScheduler

One action is one callback of the browser's event loop, from one await to the next. `Launch` is
`refresh` up to its first await, `Settle` its finally block, `Flush` is `flushQueue`; `Request`,
`FireTimer`, `InitialRefresh` and `SwitchProject` are `request`, its timer,
`scheduleInitialDesktopRefresh` and `setActiveProjectDir`. `calls` are the refreshes under way: each
remembers the project it was for and the step it waits in. `ApplySnapshot`, `Explained` and
`Render` are the three stretches of `refreshDesktopSummaryFromScheduler`; `snapshot` and
`conversation` are reduced to the project they belong to.

### RemoteSessionManager

One action is one critical section or one message. The two maps and the counters of
`ManagerInner` are `records`, `shutting_down`, `transports` and `next_transport_id`; a transport
is `binding`, `key`, `event_sender`, `link` and `reader`. A thread that runs a command has `pc`,
`mine` (its transport), `at` (its key) and `events` (the channel it waits on). The shutdown is
`main` with `to_quiesce`, `fallback`, `to_stop`, `current` and `attach_first`, and a worker for
each detached session; `cancelled` and "timeout" are its bounded waits. The other end is the
broker: `stage` and
`holder` move by the actions of `SessionLease`, messages lie in `inbox` and `outbox`, `noticed`
are the connections whose end the broker has seen, and `notify` the one an exit is owed to.

Two variables are history. `given_up` are the sessions the shutdown knows it did not stop: the row
is unreachable, the broker refused to attach, or the time ran out. `interrupted` are those whose
connection a command took away from it (see "Noted while modelling").

### MuxServer and MuxTree

`windows` is the list of windows, each with its tree, the path of its active pane, its
most-recently-used list and its id; `active_idx`, `last_window_idx` and `last_pane_path` are the
fields of that name, `temp_focus` is `temp_focus_restore`. A connection puts requests on `queue`;
the loop takes what is queued as `pending`, with the requests to draw moved to the end, handles
the batch and reaps exited shells before the next. A command with a target is `AimAtWindow`,
`AimAtIndex` or `AimAtPane`, then `SendAimed` once the answer is there, or `GiveUp`. The request
after a temporary focus gives the saved focus back, whoever sent it.

`MuxTree` has the functions of `tree.rs` on trees of panes, with the recursion of the code; it is
used by TLC only. `astray` is history: windows whose focus one of the handlers named at
`FocusIsAPane` has put off the panes.

### SessionRegistry

`port`, `key` and `registry` are the three files of each base, `recent` the port files younger than
the grace period. A server is `stage`, `name`, `requests` and `moving` (a rename in progress,
one file at a time); a user's command is `pc`, `cmd` and `answered`; the removal of stale files
is `todo`, `seen` and `doomed`: listed, looked at, removed, with other processes in between.
`contested` is history: names that were not free when a server came to them.

### DesktopRuntime and its parts

`PtyPanes`: a generation is one shell. `panes`, `next_generation` and `alive` are fields of
`PtyManager` and `SinglePty`; a command is `call`, and takes the mutex for its first look
(`Refused`, `Admitted`), lets it go to create the shell (`Make`), and takes it again (`Put`,
`PutRefused`). Reader and flusher threads carry characters, which are numbered as they are read
and travel in sets: `pending_utf8` (one cut off at the end of a read), `sending`, `queue`, `batch`,
`shown`. `VoiceCapture`: `session` under its
mutex, whose holder while it waits is `session_lock`; `worker` is
`run_windows_voice_capture_worker`, one step for each report, device call or flag. `ControlPipe`:
applications that share the `pipe` and the `token_file`; `server` is the thread that serves, one
step per file or pipe call; `owned`, `previous` and `grace` are `ControlPipeAuthState`. Its history
variables remember which tokens were written and superseded, and whether two applications that
both rotated were alive at once (`rivalled`).

`DesktopRuntime` adds `request_desktop_runtime_shutdown`: the microphone, then the panes one after the
other, then the remote sessions (a step of `RemoteSessionManager`'s, here a stutter), then the
token, while commands still run. The parts share nothing but this shutdown, so a behaviour uses
one of them (`use`), and the application `Desk` is launched already when that is not the pipe.
The end of the process is followed with the pipe in use; panes and microphone end with it.

### What the models abstract

Broker and admission:
* Sessions are named by their ids; each id is used once and each connection is accepted once.
  The check that an id and a lease are free is merged with the entry into the start.
* `pty-input` and `pty-resize` change no state of the broker and are left out; output is one kind
  of chunk. A rejection is a stutter. Tests' gates and hooks are left out. `PeerLimit` and agent
  resolution appear as requests that may be rejected.
* A connected client reads: the broker sets no write timeout, so a client that stops reading may
  block every thread that writes to it. This is a listed hazard without a property.
* The end of `broker_main` because no thread could be created for a connection or for the lock
  waiter is covered by the loss of the broker.
* `kill(2)` fails only with ESRCH; connects fail only with ENOENT or ECONNREFUSED. The moment
  between fork and exec in which a child inherits other guardians' pipes is left out.
* `agent_exited` is not modelled: the watcher sets it together with the removal of the row, so no
  handler finds a row with it set.

Desktop:
* The manager's connections keep their messages in order; ssh, the handshake and its versions are
  one step that succeeds or is refused. Input, resize and output of a session are left out.
* `Connect` joins the start of the companion (`remote_session.rs` 939) with its registration (946).
  In between only the command's own thread knows the companion, and no shared state changes, so the
  start commutes with every step of the others. A command whose registration is refused drops the
  `Transport`, which reaps the companion (647): `CannotConnect`. `NoCompanionIsLeft` is therefore
  about companions that were registered; one that a command still holds goes with that command.
* In `SummaryScheduler` a request may come at any time: the clocks that decide whether a fallback
  request is due are left out, and so is the identity of the run it names. Whether a snapshot
  differs from the one before, and whether an explanation is fetched, is left to chance. A
  snapshot always names its project. The caches of explanations and comparisons are left out.
* Of panes, typing, resizing, capturing and the text of the history are left out; a shell of which
  the run does not follow the output (`Followed`) has no reader steps, because those of one shell
  touch nothing of another. `MakeFails` also stands for a shell that was started and whose writer or
  reader could not be had (`lib.rs` 1430-1438): the child is dropped without a kill. That it ends is an
  assumption about the external pseudoterminal, which hangs up when its handles close;
  `NoShellIsForgotten` and its theorem `ShellsAreKept` rest on it. Of the pipe, the token of the environment, the dispatch of methods
  and the checks of paths are left out. Levels of the microphone are left out.

Multiplexer:
* Split directions, sizes, zoom, dragging, names, options (but `remain-on-exit`), hooks, copy mode
  and what is drawn are left out of the tree and its requests.
* `DumpState` has two outcomes. A screen that is drawn restores a saved focus like any other request;
  one that did not change (`ScreenUnchanged`, `server/mod.rs` 1443) leaves the temporary focus as it is.
  In the code the second needs frames pushed since the focus was saved; the model leaves it to chance.
* Of the registry, `kill-server`, the claim of a bare start and the contents of the warm server are
  left out; a server may be killed at any time, and what listens on a port is the server that
  wrote it or nobody.

## 3. What TLC checks

All these systems may really stop, because a broker or an application ends, or the user asks for
nothing more: every cfg says `CHECK_DEADLOCK FALSE`, and the liveness properties are what
excludes a system that hangs.

| Run | Instance | What it shows |
|---|---|---|
| `broker_one_session` | one session, a lifecycle client and a plain client, noisy agent, all four kinds of failure, `FairSpec` | leases, confirmations, guardians, endings and output stay in step, and the count of connections is true; `KeepsLease`; handlers return, exits are announced, nothing outlives the broker |
| `broker_unproven_group` | one client, one session, "cleanup" | a finding (expected violation) |
| `admission_faults` | 2 frontends, 2 attempts, kills, crashes, refusals, `FairSpec` | one broker; nobody abandoned; every frontend is admitted or told it failed; an idle broker leaves |
| `manager_commands` | two callers, one session, two connections, lost connections, refusals, exits | rows and connections agree; no confirmed agent is lost sight of; what is shown as attached is leased |
| `manager_shutdown` | one caller, two connections, refusals, timeouts and the shutdown, `FairSpec` | the shutdown stops what it can reach, reaps every companion and publishes no row; calls return |
| `summary_switches` | 2 projects, 4 requests or switches, reads that fail or answer for another project, `FairSpec` | the snapshot on display is the active project's and never an older one; requests are served; a chosen project is shown |
| `summary_render` | 2 projects, 2 requests | a finding (expected violation) |
| `desktop_runtime` | 2 commands and 3 shells in a pane, 2 microphone calls and 3 captures, 2 applications with 2 clients | no shell is forgotten, no output lost; one microphone; the token in the file is the server's, and a superseded token stays dead |
| `pipe_tokens` | the same, with the pipe in use | a finding (expected violation) |
| `mux_panes` | one connection, all requests, 3 panes, 4 requests | a pane is in one place and reachable; the focus is on a pane; a request ends the shells it names and no other |
| `mux_targets` | two connections, 2 panes, 3 requests | a finding (expected violation) |
| `registry_sessions` | 2 names and the warm server's, 2 users, 3 servers, 2 commands | a session that came to a free name is found under it; one that stops in order leaves no files |

### Why these bounds

A lease is a relation between one session and two connections: the one that has it and the one
that wants it. One session with a lifecycle client and a plain client therefore meets every
interleaving of start, acknowledgement, detach, attach, stop, exit and disconnection, with every
failure (478,466 states). What one session cannot show is a connection whose earlier lease is
stale when it starts or takes the next one: that is part of `Inductive`, which section 4 proves
for any number of both. `HandlersReturn` and `EndIsAnnounced` excuse sessions whose group was
not proven gone: that is the finding of `broker_unproven_group`.

In the admission protocol two frontends with two attempts meet the retry, the stale file and the
second broker; its invariants are proved for any number. The run leaves
out the timeout of a handshake at a broker that lives ("slow"): it multiplies the states (1,440,103
with the three other faults) beyond what the liveness properties can be checked on in minutes. Its
invariants hold on that instance too, and the theorems include the fault; `AdmissionEnds` and
`IdleBrokerLeaves` are checked for handshakes that fail because the broker is lost. `MaxAttempts` is 3 in
the code (`HANDSHAKE_ATTEMPTS`); the second attempt already differs from the first in everything
the code distinguishes, because `spawn_attempted` is the only memory it has. The fault
"abandoned", a failed `pipe2`, is left out: after it the starting broker removes whatever file is
at the path (line 929), which with a killed frontend and a second broker in between would be the
wrong one. That needs three failures at once, and is a listed hazard; the theorem says so in its
hypothesis.

In the scheduler two projects are what a switch away and back needs, and the number of requests
bounds the number of flights: with four of them a refresh can be overtaken, resumed after a
switch back, and still find a newer request. The bound also keeps requests from postponing the
timer for ever; in the code a stream of requests faster than their delay would, and nothing
limits it.

The manager's races are about one key: two callers with two connections meet a start that
overlaps a detach, a reattach that overlaps another, and the loss of either. The shutdown opens a
third connection for a session it finds detached. With a shutdown one caller is enough to have
every command under way when it begins.

Three panes make a tree of two levels, a second window and a pane to move between them; four
requests reach a refused split followed by a graft. Batches of one and a single connection keep
`mux_panes` small, since the handlers do not depend on who sent a request; `mux_targets` has the
two connections and batches that the focus needs, and only there can a request of another connection
come between a temporary focus and its command: what `mux_panes` shows of `TargetedCommandsHit` is
that nothing else, such as a shell that exits, moves the focus away. In the registry three servers are a session,
a warm server and the one that comes to a name too soon or too late. `RemainOnExit` is off.

For the desktop, three shells are one in the pane, one that respawns it and one that a second
command makes meanwhile; a queue of one message is full as soon as one waits (128 in the code),
and that a longer queue keeps its order too is what `OutputArrives` proves for any length.
The second shell's output is followed, because a first one precedes and a third one may
replace it. Three captures are one, the one that replaces it and the one that comes while the
first still closes. Two applications suffice for a successor and a rival; the theorems of
section 4 hold for any number. The run visits about 3.5 million states, with callers, panes and
clients interchangeable.

Every property has a mutant in `PROJECT.json`: a plausible mistake in one definition under which
TLC finds the property violated.

### The properties

Of `RemoteBroker`:
* `LeaseAgreement`: the thread's `controlled_session` and the table's controller agree through
  the lock-free stretches of all handlers.
* `AttachableIsConfirmed`: nobody attaches to a start that was not acknowledged.
* `UnconfirmedDiesWithFrontend`: once a connection is over, no unacknowledged agent of its own runs.
* `GuardedWhileAlive`: no agent runs without an armed guardian; only a group proven gone disarms it.
* `EndingsAreTrue`: `PtyStopped` means gone and forgotten; `PtyDetached` of an unacknowledged
  start means not running.
* `OneEnding`: a session whose stop was accepted is never announced as exited.
* `OutputInsideLease`: output only between the message that gives a lease and the one that takes it.
* `ExitAfterStarted` (action): `PtyExited` never overtakes `PtyStarted`.
* `KeepsLease`: refinement of `SessionLease`.
* `FrontendsAreCounted`: the number that keeps the broker alive without sessions is that of the
  connections whose guard is not dropped yet; none is counted twice or left out.
* Liveness: `HandlersReturn`, `EndIsAnnounced`, `NothingOutlivesTheBroker`.

Of `BrokerAdmission`: `OneBroker`, `NobodyLeftBehind`, and under fairness `AdmissionEnds`,
`IdleBrokerLeaves`.

Of `SummaryScheduler`: `SnapshotOfActiveProject`, `NewestWins` (an older answer never replaces a
newer one, also after a switch away and back), and under fairness `RequestsAreServed`,
`SwitchIsShown`.

Of `RemoteSessionManager`:
* `RowsFollowTransports`: a row is attached exactly while a connection is bound to it, and a
  reservation belongs to a reattach that is under way.
* `ConfirmedAgentsHaveARow`: the desktop never loses sight of an agent whose start was acknowledged.
* `AttachedMeansLease`: once nothing is on its way, what is shown as attached is what the broker
  holds for that very connection.
* `ShutdownStopsAgents`, `NoCompanionIsLeft`, `NoRowAfterShutdown`: see the table; `CallsReturn`.

Of `MuxServer`: `PaneInOnePlace`, `NoOrphanShell` (whatever takes a pane out of the trees has ended
its shell), `FocusIsAPane` (but for the named handlers that lose it), `TargetedCommandsHit`, which
holds for one connection and fails for two, and `OnlyTheNamedAreKilled`, which excuses only the
handlers that work at the focus of a window that is astray (`WorkedAt`).

Of `SessionRegistry`: `SessionIsFound`, for names that were free when the server came to them (the
code has no lock that would make it true of the others), and `StoppedLeavesNoFiles`, for all.

Of the desktop: `NoShellIsForgotten` (one that runs is a pane's, a command's or the shutdown's),
`OutputIsKept` (output is shown in order and nothing twice; each character read from a current
shell is on its way or shown, and shown when both threads are over), `MicrophoneIsAccountedFor` (one open device, whose worker is the session
or was told to leave; "stopped" means given back), `TokenFileIsTheServers` and
`SupersededTokensAreRefused`.

### Fairness

Threads and guardian processes run until they block: weak fairness of each connection's handler,
each watcher, each reader's write, each guardian. The kernel wakes one of the waiters of a lock
each time it is released: strong fairness of taking the admission lock, for frontends and lock
waiters. Clients, agents, new connections, failures and the shutdown itself owe nothing; an agent
that never exits and a client that never acknowledges are behaviours of the model.

In the scheduler timers fire and the backend answers each call, with a snapshot or an error; a
call that never returns would block its project's refreshes, because nothing in the code limits
its time. In the manager every thread runs, and a broker whose connection holds answers: commands
wait with `recv` and no deadline, so a broker that is connected and silent would hold them for ever.

`IdleBrokerLeaves` holds for behaviours in which the broker does not arm its waiter for ever: the
main thread only tries the lock, and its own waiter may happen to hold it each time. That
livelock needs the scheduler to repeat the same race without end. `IdleBrokerIsWoken`, which is
proved, is unconditional. The multiplexer, the registry and the desktop's parts have safety properties only.

### Findings

`broker_unproven_group`. When a group cannot be proven gone after SIGKILL and reap, the watcher
leaves the guardian armed, drops its own share of the pipe and waits for the guardian. The
comment at line 2654 says that the guardian's "EOF path remains the fail-closed SIGKILL owner".
But if that happens while `start_session` undoes its start (`PtyStarted` could not be written,
line 2129, or the reader thread could not be created, line 2059), `start_session` itself still
holds an `Arc` of the guardian (line 2002) while it waits for the watcher's completion. The end of
the pipe never comes: guardian, watcher and handler wait for each other until the broker ends. The
run finds this state.

`summary_render`. `refreshDesktopSummaryFromScheduler` checks the active project after its first
await and not after the second and third (`main.ts` 18221, 18228). A switch in between empties the
conversation, and the refresh then fills it with the previous project's summary (18234), where
line 18172 of the same function promises "Ignoring desktop summary for a different project". The
refresh of the new project normally replaces it; it stays if that refresh fails, or if it
finished first, which the overlapping refresh at startup allows.

`mux_targets`. A command with a target is sent as two requests, and its connection waits for the
answer to the first before it sends the second. The loop gives the saved focus back after any
request that is not itself a temporary focus (`server/mod.rs` 3882-3898): when another connection's
request is handled in between, even the `DumpState` of a client that only draws, the command acts
on the pane the user is in. The comments at 931 and 1232 promise that it operates on "the correct
window/pane".

`pipe_tokens`. The shutdown removes the token file last. The comment at `lib.rs` 1934 says that this
"cannot race a successor rotate", because the pipe stays with the server's thread until the
process dies. But
the thread closes the pipe after each client, and for 250 ms after an error (`control_pipe.rs`
1393): another application may take it in between and write its own token, which the first one then
removes (247-268). Clients of the second find no token.

### Noted while modelling

Broker:
* After `pty-attach` an agent's `PtyExited` may overtake `PtyAttached`: the lease is in the table
  before the answer is written, and the watcher writes when it gets the writer. `Tell` keeps an
  exit final, as the desktop does. For `pty-start` this is excluded (`ExitAfterStarted`).
* `pty-attach`, unlike `pty-start`, is rejected while `controlled_session` names a session that is
  already gone; a client has to detach or stop first.

Summary:
* `previousSnapshot` is read before the first await (`main.ts` 18163). After a switch away and back
  during that await an unchanged snapshot is taken for one already rendered (18229), although the
  switch emptied the conversation.

Manager (what `interrupted` and `given_up` stand for; lines of `remote_session.rs`):
* A start between its acknowledgement and its publication meets the shutdown: the binding becomes
  Stopping, `publish_pending` is rejected, and the caller's `finish_transport` may reap the
  companion before the stop is written (744-746, 906-918). The confirmed agent goes on. The test at
  2767 covers the order in which the stop wins.
* `detach` takes the event slot (1009) before it checks the binding: the shutdown's `wait_for_stop`
  finds its channel closed and reaps first; of two concurrent detaches the second takes the
  first one's answer.
* A reattach answered after the shutdown has emptied the rows is closed; the shutdown's own attach
  may reach the broker before it has seen that connection end, is refused, and is not tried again.
* Rows that are unreachable are not stopped at shutdown. The bounded shutdown is not bounded when a
  write blocks.

Multiplexer (lines of `server/mod.rs` unless named):
* A refused `split-window -d` leaves the active path through a leaf and takes the pane out of the
  most-recently-used list (1068-1078); a later split or `join-pane` into that window ends a shell.
* `join-pane` and `move-pane` leave the target's active path at a split; "last" uses a path of
  another window; `rotate-window` may leave the path through a leaf; `swap-pane` never swaps.
* `kill-window -t` of an earlier window, or one reaped meanwhile, shifts the index that is restored.
* `respawn-pane` of a pane reaped in between returns its error from the loop and ends the server
  (2619-2626).

Registry (what `contested` stands for):
* Two new sessions in quick succession start two warm servers, and the second overwrites the
  first one's files; the comment at `server/mod.rs` 316 expects one.
* `rename-session` to a name in use is not refused; a claim answered after 500 ms leads to two
  servers for one name; a second claim may take the session that was just claimed; the check of
  `new-session` removes the files of a session renamed meanwhile (`main.rs` 1660).
* The registry is not compared with the port file, so a leftover one makes a starting server's
  files removable; `list-sessions` removes files without looking at it.

Desktop:
* Two applications that both rotated and are alive: the older one may take the pipe again and serve
  its own token while the file holds the newer's (`rivalled`). The previous token survives a crash
  only, because a clean exit removes the file. A shutdown before the token is published leaves it.
* A command that starts a shell after the panes were drained escapes the shutdown, which does not
  wait for it
  (the process ends with it); a batch checked before a respawn is shown after it (`lib.rs` 1576-1579).
* The shutdown waits for the microphone without its mutex: a start meanwhile opens a second
  device, and
  on timeout the old session replaces the newer one (774-799). `MicrophoneIsAccountedFor` therefore
  ends with the beginning of the shutdown.

## 4. What is proved

TLAPS checks every theorem from the assumptions of the constants alone.

| Module | Theorem | States |
|---|---|---|
| `RemoteBrokerProofs` | `InductiveInvariant` | `Spec => []Inductive` |
| | `TypeCorrect` | `Spec => []TypeOK` |
| | `LeasesAgree` | `Spec => []LeaseAgreement` |
| | `AttachableConfirmed` | `Spec => []AttachableIsConfirmed` |
| | `AlwaysGuarded` | `Spec => []GuardedWhileAlive` |
| | `ConnectionsAreCounted` | `Spec => []FrontendsAreCounted` |
| | `StopsEndOnce` | `Spec => []OneEnding` |
| | `UnconfirmedDies` | `Spec => []UnconfirmedDiesWithFrontend` |
| | `EndingsTrue` | `Spec => []EndingsAreTrue` |
| | `OutputInside` | `Spec => []OutputInsideLease` |
| | `ExitIsAfterStart` | `Spec => ExitAfterStarted` |
| | `LeaseKept` | `Spec => KeepsLease` |
| `BrokerAdmissionProofs` | `AdmissionTypeCorrect` | `Spec => []TypeOK` |
| | `LeavesNobodyBehind` | `Spec => []NobodyLeftBehind` |
| | `NoWakeIsLost` | `Spec => []IdleBrokerIsWoken` |
| | `AtMostOneBroker` | `Spec => []OneBroker`, if `"abandoned" \notin Faults` |
| `SummarySchedulerProofs` | `SchedulerConsistent` | `Spec => []Consistent` |
| | `FlightTracked` | `Spec => []FlightIsTracked` |
| | `ShowsActiveProject` | `Spec => []SnapshotOfActiveProject` |
| | `Coalesces` | `Spec => []RefreshesAreCoalesced` |
| | `NewestStays` | `Spec => NewestWins` |
| `RemoteSessionManagerProofs` | `ManagerTypeCorrect` | `Spec => []TypeOK` |
| | `RowsFollow` | `Spec => []RowsFollowTransports` |
| | `NoRowComesBack` | `Spec => []NoRowAfterShutdown` |
| | `CompanionsAreGone` | `Spec => []NoCompanionIsLeft` |
| | `ConfirmedKeepTheirRow` | `Spec => []ConfirmedAgentsHaveARow` |
| | `AttachedIsLeased` | `Spec => []AttachedMeansLease` |
| `RemoteSessionManagerStops` | `AgentsAreStopped` | `Spec => []ShutdownStopsAgents`, if `"cut" \notin Happens` |
| `SessionRegistryProofs` | `RegistryInvariant` | `Spec => []RegistryInv` |
| | `SessionsAreFound` | `Spec => []SessionIsFound` |
| | `StoppedServersLeaveNothing` | `Spec => []StoppedLeavesNoFiles` |
| `DesktopRuntimeProofs` | `ShellsAreKept` | `Spec => []NoShellIsForgotten` |
| | `OutputArrives` | `Spec => []OutputIsKept` |
| | `OneDevice` | `Spec => []MicrophoneIsAccountedFor` |
| | `FileTokenGetsIn` | `Spec => []TokenFileIsTheServers` |
| | `DeadTokensAreRefused` | `Spec => []SupersededTokensAreRefused` |

The assumptions: `ConstantsAssumption` of `RemoteBroker` (finitely many connections; lifecycle
clients are connections, noisy agents are sessions, failures are among the four named; null values
are not members), `AdmissionAssumption`, `SchedulerAssumption` (a natural bound, a null value that
is not a project), `ManagerAssumption` (finitely many sessions, a natural bound of connections,
null values that are not members), `RegistryAssumption` (users are not servers, a natural bound of
commands, a warm base and null values apart from the rest), and of the desktop `PanesAssumption`,
`CapturesAssumption`, `PipeAssumption` and `RuntimeAssumption` (natural bounds, null values that
are not members, `Desk` is an application). The numbers of sessions, connections, frontends,
projects, panes, threads, captures, callers, applications, clients, names, users and servers are
free.

`Inductive`, `FlightIsTracked`, `RefreshesAreCoalesced` and `IdleBrokerIsWoken` are proved and not among
the properties of a run.

### The broker's argument

`LeaseAgreement` is not inductive: a state that satisfies it may have a handler about to record
a lease on a row that is someone else's, or a remembered lease on an id that another connection
is about to register. What excludes these states is that a start owns its row from the insertion
to the commit, and that nobody knows an id before it is registered.

`Inductive` is the conjunction of:

* `TypeOK`, with `HandlersOwnTheirStart`: a handler in the middle of a request has a session, and a
  start has the one it was born for. Without it no step that updates a row at `arg[f]` keeps types.
* `NewSessionsAreFresh`: before `Insert`, nobody has heard of the session: no row, no watcher, no
  completion, no remembered lease, no message. This is what makes `Insert` safe for everyone else.
* `StartsKeepTheirRow`: from `Insert` to the commit the row, if it still exists, is the handler's;
  the handler remembers no lease until `PtyStarted` is out; a handler that waits for a stop still
  remembers its own.
* `EndedSessionsAreForgotten`: a watcher past `Classify` and a completion imply that the row is
  gone, so a handler that wakes up in `Finish` drops a lease nobody else can see.
* `UnfinishedStartsAreHeld`: a row that is not `Written` is in the hands of its handler; a written
  and unconfirmed one in those of a lifecycle client. With `LeaseAgreement` this gives
  `AttachableIsConfirmed`.
* `ReapedGroupsDoNotRun` carries `GuardedWhileAlive` over the failure of the watcher's thread.
* `StopsAreNotAnnounced`: while a session has a row or an accepted stop, no notice for it is
  pending and none was sent. `OneEnding` follows.

* `AgentsHaveAnOwner` says of an agent that runs unacknowledged that it is in the hands of the
  connection it was started for: in the middle of that connection's `pty-start`, under its lease,
  or about to be killed by its handler. Each step passes the agent on or ends it, and a connection
  that is over has none of the three: `UnconfirmedDiesWithFrontend`.
* `StartsAreInOrder` gives each step of a start the write phase and the watcher it finds, and
  `NewSessionsAreUnheard` extends freshness to the messages: nobody but its handler works on a
  session without a row, and no client has been told of it.
* `EndingsAreProven`: a completion is "ok" only of a group that is gone, a watcher that is not done
  has none yet, and `PtyStopped` follows an "ok". With `UnconfirmedAreReaped` (an unacknowledged
  lease is the starting connection's, and reaped before `PtyDetached`) this gives `EndingsAreTrue`.
* `LeasesAreAnnounced`: an active controller was told that it is one, and the client of a written
  row, or of a watcher that owes a notice, was told of the start. `OutputInsideLease` needs it for
  the reader's second look at the table, `ExitAfterStarted` for the watcher's message.
* `FrontendsAreCounted` is inductive by itself: only `Accept` and `Disconnect` change who is connected,
  by one connection each, and they are the ones that count (`ConnectionsChange`, `CountStep`).

Each action keeps each part. The proofs are grouped by what an action can disturb:
`RemoteBrokerStarts` has the types, and the parts about starts, endings, freshness
and owners, each split into the handler's own step and the steps of others; `RemoteBrokerProofs`
the leases, attachability, reaping, guardians and stops, then `InitInductive`, `StepInductive`
and the theorems. Its first section goes the other way round. For each variable that the
parts about messages read it says once which steps change it (`Tellers`, `GroupMovers`,
`RowMovers`, ...) and how (`ToldChanges`, `GroupChanges`, `RowChanges`, ...); a part is then
preserved because each of the few changes is harmless, and 40 actions need no mention. TLC
found `Inductive` true on the instance of `broker_one_session`.

`LeaseKept` maps every step. A step that leaves a session's row alone is a stutter of its lease
(`SameRowIsSeenSame`); the steps that move a row move one only (`OneRowMoves`) and are taken case
by case in `LeaseRefinement`: `Insert` is `Register`, `CommitStarted` is `Deliver`, `CommitFailed`
is `FailDelivery`, an acknowledgement is `Confirm`, an attachment is `Take`, a detachment or the end
of a connection is `Release` when the session is confirmed and `End` when it is not, and `Classify`
is `End`. The invariant is needed where the abstract guard says more than the
code tests: `pty-attach` tests that there is no controller and the lease wants a confirmed session
(`AttachableIsConfirmed`); a detachment tests the controller and the lease wants the start
to be over (`HeldIsSettled`).

### The admission's argument

`NobodyLeftBehind` and `IdleBrokerIsWoken` follow from who may hold the lock (`LockHolders`), and
from where the main loop is when it looks at its backlog, its connections and the wake pipe.
`OneBroker` needs the history of a start: a starting broker has a parent that waits for it or was
lost with the lock passed on (`StartsHaveParents`), the connection that will be its first one
(`StartsAreConnected`), no other broker serves while one starts (`NoneServesAtStart`), and the file
at the path is its own from bind on (`SocketOfStart`). With "abandoned" among the faults the last
of these
fails, which is the hazard at line 929.

### The scheduler's argument

`Consistent` joins the properties with `NumbersAreGiven`: no call and no applied snapshot has a
number above `refreshSequence`. `Current` asks for equality, so what it applies is at least as new
as what was applied before. `LaunchKeepsTrack` is the heart: a call may start when no other call
is current, or at startup, where every earlier call is the current one. `SettleKeepsTrack` reduces
the finally block to it: numbers are unique, so without the call that ends none is current.

### The manager's argument

`Typed` sharpens the types: an answer `PtyStarted` and a request `PtyAttach` name a session, a
binding that is used for a session has its key, and the shutdown waits on a connection that has
one. Otherwise `handle_transport_loss` or a stop could look up the row of no session.

During the shutdown two facts suffice. `NoRowAfterShutdown` is inductive, because whatever changes
a row needs a row for it or looks at the flag under the same lock. `LinksAreRegistered` (a
companion that runs is registered, and is killed in the step that removes it) and `Quiesced` (what
is registered is on the shutdown's list, in its hands, or a worker's that has not finished) give
`NoCompanionIsLeft`; the flag in `register_transport` is what keeps `Quiesced`.

Before it `Settled` holds, which joins six parts:

* `IdsAreFresh`: ids to come, and the id of a command that has not connected yet, are unused. A
  step that uses an unused id is that of its command, after it connected (`UsedByItsCommand`).
* `CommandsKeepApart`: two commands have the same connection only to detach it, and then it is one
  that was attached and is never used for anything else again (`OverStaysOver`).
* `EventsGoToTheirCaller`: a connection's events reach the command that listens to it, and what a
  command hears of a start is about the session of that connection, which it then confirms.
* `RowsAreBound`: a pending or attached row names the connection whose binding says so, and a
  connection that is bound has a row that says so. The two are changed under two locks, but each
  change of a row is made by who holds the binding.
* `ReservationsAreHeld`: each reservation is that of a reattach at one of seven steps, with a binding
  that fits the step and, once the attach is due, with the event slot and no event in it. The loss
  of the connection, whoever sees it first, takes the reservation from the row in the same step.
* `WorkersAreIdle`.

`RowsFollowTransports` is what `RowsAreBound` and `ReservationsAreHeld` say of one row. As for the
broker, it is said once per variable which steps change it (`RowMovers`, `BindingMovers`, ...) and how a
command goes on (`CallChanges`).

What the desktop shows agrees with what the brokers hold because of what is under way between
them. `InStep`, which also holds until the shutdown, joins seven parts:

* `BeginningsAreQuiet`: of a connection that was never up, or whose command does not listen to it yet,
  neither the wire nor a broker knows anything.
* `OrdersFit`: what is asked on a connection is about its session; a start is all that is asked
  before there is one; a detach is only on the wire once the binding says so.
* `OneSession`: what a broker holds, still has to tell, or has told a connection is about one session.
* `EndsAreTrue`: a session that is said to be over, or about to be, has ended.
* `Unacknowledged`: up to the confirmation, no step of a command has a binding that is confirmed.
* `AcknowledgedAreSighted`: a session that is confirmed, or whose acknowledgement is on its way, has a
  row that is published or about to be, or has ended. This is `ConfirmedAgentsHaveARow` made inductive:
  the acknowledgement is written before the row is published, and the broker takes it in between.
* `BeliefsAreLeases`: if the desktop takes a connection that is up to be one for a session, or will when
  it reads what has arrived, then the broker has the lease for it, or will have when it reads the
  acknowledgement, or has an end to tell. With nothing under way this is `AttachedMeansLease`.

For each variable of the wire and of the broker a lemma says what one step can do to it
(`NewsChanges`, `AskedChanges`, `SessionChanges`, `BindingChanges`, `LinkChanges`, `EarlyChanges`);
the parts are then kept one by one (`BeginningsStep`, `OrdersStep`, `OneSessionStep`, `EndsStep`,
`UnacknowledgedStep`, `AcknowledgedStep`, `BeliefsStep`). TLC found each part true on the instance
of `manager_commands`.

`AgentsAreStopped` carries this through the shutdown, which may meet a start, a detach, a reattach or
a worker of its own on any connection. Its hypothesis is that of the run `manager_shutdown`: no
connection is cut. When one breaks before its stop is read, the agent lives on, and the shutdown, which
takes a failed write and the end of the connection for an answer, does not count it among those
given up. Refusals, exits and timeouts are free. `StopsInv` goes beside
`ManagerInv`:

* Before the shutdown `TidyBeforeShutdown` says, by the state of a connection's binding, what can be on
  its wire: `StartTidy`, `PendingTidy`, `ReservedTidy`, `AttachTidy`, `DetachTidy`, `BegunTidy`. A start
  that is acknowledged is the next thing to be published (`OnlyPublishing`).
* From its beginning on `AgentsAreReached` says of every agent that outlives its connection (`Live`:
  confirmed, or with the acknowledgement under way), unless it was given up or taken from the shutdown,
  that the shutdown will come to it. Either its connection is `Listed`, to be quiesced; or it is `InHand`:
  the stop is to be written or on the wire, and when the broker has read what was asked before, the
  connection holds the session (`WillHold`, `EndsInStop`) or is refused it; or the session is `Awaited`, on
  the list for workers, and its worker gets on (`Progress`).
* A start that the shutdown met is still listed, and its session is held for its connection only
  (`Startable`). So a late acknowledgement makes an agent `Live` where the shutdown finds it.
* `LinksHold`, `EndingIsClosed`, `MainListens`, `IdleRows`, `FreshIsQuiet`, `WorkersApart`,
  `CancelledAreGivenUp`, `PlanHolds`, `AcksAreDue` and `LosersAreCut` say who may still use what: a worker
  begins on a connection of its own when nothing is left to quiesce, and is cancelled only for a session
  that is given up.

When the shutdown is done, no list, hand or worker is left, so no agent that would be `Reached` is.
The lemmas `StartsAtFirst` and `AgentsAtFirst` show that the first step of the shutdown finds every
agent, from the tidy wires and `InStep`; `StartableStep`, `ListedStep`, `InHandStep` and `AwaitedStep`
that each later step hands it on or ends it; `LinkSteps`, `OutboxSteps`, `InboxSteps`, `HolderSteps`
and `StageSteps` name whose step can touch a connection or a session at all. TLC found
`StopsInv` true on the instance of `manager_shutdown` and, for a part of the state space, on one with
two callers, before it was proved.

### The registry's argument

`StoppedLeavesNoFiles` follows from where a server's files can be: `FilesFollow` says that the port
file is under `Home` (the base it moves to, or else its name) and the registry under its name, and
`SweepsInTurn` that a stopping server is about to remove just these.

`SessionIsFound` has to hold against everybody who removes files, without a lock. `Exclusive`
makes a base that two servers work on contested, and `CleanMoves` passes a contest on to where
a moving server goes. Of the other bases the invariant follows the three files through the
stages of their server: the port file (`PortKept`), the key file, which during a move is still under
the old base (`KeyKept`), and the registry, which is the last to be written (`RegistryKept`). Between
the port file and the registry nothing names the process, and the grace period may be over: a sweep
may then list and look at the base (`Doubted`), but it saw no registry, finds the port open, and
spares it. So nobody dooms the base (`NotDoomed`), nor the old one of a server that moves
(`LeftInPeace`): its port file is gone, so that no new sweep lists it, and there was none when the
move began. The lemmas `OthersPort`, `OthersKey`, `OthersRegistry`, `DoubtStep`, `SeenStep` and
`DoomStep` say this of every step by others, `StageStep` and `BaseStep` what a server does to its
own base. TLC found each part of `RegistryInv` true on the instance of `registry_sessions`.

### The desktop's arguments

*Panes.* `NoShellIsForgotten` names two fields of a command that may hold a shell; the invariant
`RunningAreFound` says at which step each of them counts: the shell a command made until it is put
into a pane, the one it replaced until it is stopped. `MadeOnce` gives every generation to
one command, so that a shell about to be made is nobody else's. `BeginsOnce` makes the shutdown
start once, so that the shells it has taken out are not forgotten by a second one.

*Output.* `InOrder` needs only that no character is beyond `read` (`Numbered`). That nothing is
missing (`Kept`) rests on who leaves first: while the shell is its pane's, the flusher leaves
after the reader and an empty queue, and each of them with empty hands. The two threads look at
the pane at different times, so a shell must not become its pane's again after one of them saw that it
was not: `StartsOnce` says that the threads of a shell start once, after it was put into its pane, so
that from then on a shell can only cease to be current (`CommandsKeepOutput`, `FewerCurrent`).

*Microphone.* A capture is active from the call that makes it the session until its worker is done.
`OneActive` says that an active capture is the session, or the one that the holder of the mutex waits
for; `OneWaits` that these exclude each other. A worker's fourteen steps only ever end activity,
and `CapturesAreNew` keeps a call from reviving an old one.

*Token.* `Serving` ties each step of the serving thread to the pipe it holds: while one application
reads, writes and publishes, no other can. `OneToken`: without rivals one living application has
rotated, and what it knows is what the file says. `DeadStayDead`: no token that can still be
accepted, neither the file's nor a previous one, is superseded; when a server accepts its own
token and supersedes all others it forgets the previous one in the same step.

### Only model-checked

`MuxTree` is recursive, as the code is, so that the properties of `MuxServer` are out of the
prover's reach. The liveness properties stay with TLC: fairness and ENABLED are beyond the prover.
`AgentsAreStopped` says nothing of connections that are cut. Every other invariant of a passing run is
a theorem.

## 5. Not modelled

The models stand for the code in which state is shared: about 6,900 lines in 17 files. Most of
the repository's lines are something else, and nothing would be learned from a state machine of them:

* **Projections.** The operator CLI, the ledger, the desktop's data commands and its user interface
  read files or a snapshot and print or draw them; each call stands alone.
* **Tests**, a quarter of the Rust files and the ends of most others, which are used as a reference.
* **Text and encoding.** Terminal parsing, layouts, styles, protocol frames, base64, host profiles,
  command lines: pure functions whose correctness is about strings.
* **Vendored code**: the terminal emulator and the pseudoterminal bindings.
* **The operating system.** Process creation, installers, ssh, Windows security descriptors: they
  appear as steps that succeed or fail.
* **PowerShell orchestration.** It coordinates panes over files; its control plane has state, but
  most of each script is text handling, and it is the next candidate after the plan below.

## 6. Plan

1. `Relay` (`session.rs` 165-460): the two directions as bounded buffers with half-closes; bytes
   arrive in order, and all of them before an end of stream.
2. An abstract specification of admission (at most one serving broker, a request is served or
   refused), with `BrokerAdmission` shown to implement it.
3. The contents of summaries in `SummaryScheduler` (which change, and which were rendered), for the
   stale `previousSnapshot` and the caches of explanations.
4. Writes to panes with the mutex held (`lib.rs` 1709), and shells that stop reading.
5. Larger instances of the registry with two warm servers, and layouts and zoom in `MuxServer`.

Of the theorems those of item 2 are left, and the properties of `MuxServer` for trees given as functions.
