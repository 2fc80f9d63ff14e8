------------------------------- MODULE PtyPanes --------------------------------
(* The panes of the desktop application, each with a local shell on a      *)
(* pseudoterminal (winsmux-app/src-tauri/src/lib.rs).  Commands look a     *)
(* pane up, start a shell without the mutex and look again; a reader       *)
(* thread and a flusher thread carry the shell's output, over a bounded    *)
(* queue, to the window, as long as the pane still has this shell.         *)
(* Characters of the output are numbered as they are read, and a piece of  *)
(* it is a set of them: how it is split, cut off in the middle of one and  *)
(* put together again matters, what it says does not.                      *)
EXTENDS Naturals, Sequences

CONSTANTS
    Callers,        \* threads that run commands
    Panes,
    MaxShells,      \* bound: shells started
    Followed,       \* bound: the shells whose threads take steps
    MaxOutput,      \* bound: characters a shell writes
    QueueCapacity   \* PTY_OUTPUT_QUEUE_CAPACITY

ASSUME PanesAssumption ==
    /\ MaxShells \in Nat /\ MaxOutput \in Nat /\ QueueCapacity \in Nat \ {0}
    /\ Followed \subseteq 1 .. MaxShells

VARIABLES
    panes,            \* PtyManager.panes: pane -> generation of its shell, 0 without an entry
    next_generation,  \* PtyManager.next_generation
    shell,            \* generation -> "none", "running", "exited" or "killed"
    alive,            \* generations whose SinglePty is alive
    call,             \* caller -> [op, pane, at, made, old]
    reader,           \* generation -> where its reader is
    flusher,          \* generation -> where its flusher is
    read,             \* generation -> how many characters are read, cut ones included
    pending_utf8,     \* generation -> the character cut off at the end of a read, if any
    sending,          \* generation -> characters the reader is about to send
    queue,            \* generation -> the bounded channel
    batch,            \* generation -> characters in the flusher's batch
    shown             \* generation -> characters emitted to the window

paneRows == <<panes, next_generation, shell, alive>>
readers == <<reader, read, pending_utf8, sending>>
flushers == <<flusher, batch, shown>>
paneVars == <<paneRows, call, readers, flushers, queue>>

Gens == 1 .. MaxShells
Ops == {"spawn", "respawn", "close"}
IdleCall(p) == [op |-> "none", pane |-> p, at |-> "idle", made |-> 0, old |-> 0]

PaneInit ==
    /\ panes = [p \in Panes |-> 0] /\ next_generation = 1
    /\ shell = [g \in Gens |-> "none"] /\ alive = {}
    /\ call \in {[c \in Callers |-> IdleCall(p)] : p \in Panes}
    /\ reader = [g \in Gens |-> "off"] /\ flusher = [g \in Gens |-> "off"]
    /\ read = [g \in Gens |-> 0] /\ pending_utf8 = [g \in Gens |-> {}]
    /\ sending = [g \in Gens |-> {}] /\ queue = [g \in Gens |-> <<>>]
    /\ batch = [g \in Gens |-> {}] /\ shown = [g \in Gens |-> {}]

(* is_current_pty.                                                         *)
Current(g) == g \in alive /\ \E p \in Panes : panes[p] = g

CallTo(c, step) == call' = [call EXCEPT ![c].at = step]
CallEnds(c) == call' = [call EXCEPT ![c] = IdleCall(call[c].pane)]
ReaderTo(g, step) == reader' = [reader EXCEPT ![g] = step]
FlusherTo(g, step) == flusher' = [flusher EXCEPT ![g] = step]

(* stop_single_pty_with_wait: the flag first, then the kill.               *)
Stopped(g) ==
    /\ alive' = alive \ {g}
    /\ shell' = [shell EXCEPT ![g] = IF @ = "running" THEN "killed" ELSE @]

-----------------------------------------------------------------------------
(* Mutations: mistakes this code could make, each in place of the          *)
(* definition whose name it extends.  Nothing else refers to them.         *)

Taken_AsChecked(c) == call[c].op = "respawn"

FlusherLeaves_AtOnce(g) ==
    /\ flusher[g] = "leave"
    /\ FlusherTo(g, "done")
    /\ UNCHANGED <<paneRows, call, readers, queue, batch, shown>>

-----------------------------------------------------------------------------
(* spawn_pty, respawn_pty and close_pty. *)

Ask(c, op, p) ==
    /\ call[c].at = "idle"
    /\ call' = [call EXCEPT ![c] = [op |-> op, pane |-> p, at |-> "check", made |-> 0,
                                    old |-> 0]]
    /\ UNCHANGED <<paneRows, readers, flushers, queue>>

(* The first look: spawn wants a free pane, the others one with a shell.   *)
Refused(c) ==
    /\ call[c].at = "check"
    /\ (panes[call[c].pane] = 0) # (call[c].op = "spawn")
    /\ CallEnds(c)
    /\ UNCHANGED <<paneRows, readers, flushers, queue>>

Admitted(c) ==
    /\ call[c].at = "check"
    /\ call[c].op \in {"spawn", "respawn"}
    /\ (panes[call[c].pane] = 0) = (call[c].op = "spawn")
    /\ next_generation <= MaxShells
    /\ call' = [call EXCEPT ![c].at = "make", ![c].made = next_generation]
    /\ next_generation' = next_generation + 1
    /\ UNCHANGED <<panes, shell, alive, readers, flushers, queue>>

(* create_single_pty.                                                      *)
Make(c) ==
    /\ call[c].at = "make"
    /\ shell' = [shell EXCEPT ![call[c].made] = "running"]
    /\ alive' = alive \union {call[c].made}
    /\ CallTo(c, "put")
    /\ UNCHANGED <<panes, next_generation, readers, flushers, queue>>

(* openpty or spawn_command fails; or take_writer or try_clone_reader does, *)
(* after the shell was started, and the child is dropped without a kill.    *)
(* That such a shell ends is an assumption about the pseudoterminal, which  *)
(* closes with its handles and hangs up: the shell is never "running" here. *)
MakeFails(c) ==
    /\ call[c].at = "make"
    /\ CallEnds(c)
    /\ UNCHANGED <<paneRows, readers, flushers, queue>>

(* The second look: whether the pane has a shell.                          *)
Taken(c) == panes[call[c].pane] # 0

PutRefused(c) ==
    /\ call[c].at = "put"
    /\ Taken(c) # (call[c].op = "respawn")
    /\ Stopped(call[c].made)
    /\ CallEnds(c)
    /\ UNCHANGED <<panes, next_generation, readers, flushers, queue>>

Put(c) ==
    /\ call[c].at = "put"
    /\ Taken(c) = (call[c].op = "respawn")
    /\ panes' = [panes EXCEPT ![call[c].pane] = call[c].made]
    /\ IF call[c].op = "respawn"
       THEN call' = [call EXCEPT ![c].at = "stop_old", ![c].old = panes[call[c].pane]]
       ELSE CallTo(c, "start")
    /\ UNCHANGED <<next_generation, shell, alive, readers, flushers, queue>>

StopOld(c) ==
    /\ call[c].at = "stop_old"
    /\ Stopped(call[c].old)
    /\ CallTo(c, "start")
    /\ UNCHANGED <<panes, next_generation, readers, flushers, queue>>

(* start_pty_reader.  The startup input of spawn is typed afterwards and   *)
(* changes nothing here.                                                   *)
StartReader(c) ==
    /\ call[c].at = "start"
    /\ IF call[c].made \in Followed
       THEN ReaderTo(call[c].made, "check") /\ FlusherTo(call[c].made, "check")
       ELSE UNCHANGED <<reader, flusher>>
    /\ CallEnds(c)
    /\ UNCHANGED <<paneRows, read, pending_utf8, sending, batch, shown, queue>>

(* close_pty keeps the mutex while it stops the shell.                     *)
Close(c) ==
    /\ call[c].at = "check" /\ call[c].op = "close"
    /\ panes[call[c].pane] # 0
    /\ panes' = [panes EXCEPT ![call[c].pane] = 0]
    /\ Stopped(panes[call[c].pane])
    /\ CallEnds(c)
    /\ UNCHANGED <<next_generation, readers, flushers, queue>>

PaneCommand(c) ==
    \/ Refused(c) \/ Admitted(c) \/ Make(c) \/ MakeFails(c) \/ PutRefused(c) \/ Put(c)
    \/ StopOld(c) \/ StartReader(c) \/ Close(c)

ShellExits(g) ==
    /\ shell[g] = "running"
    /\ shell' = [shell EXCEPT ![g] = "exited"]
    /\ UNCHANGED <<panes, next_generation, alive, call, readers, flushers, queue>>

-----------------------------------------------------------------------------
(* The reader thread. *)

ReaderChecks(g) ==
    /\ reader[g] = "check"
    /\ ReaderTo(g, IF Current(g) THEN "read" ELSE "leave")
    /\ UNCHANGED <<paneRows, call, read, pending_utf8, sending, flushers, queue>>

(* decode_pty_reader_bytes: what is read completes the character that was  *)
(* cut off before, if any, and may end in one that is cut off again.       *)
ReaderReads(g, cut) ==
    LET last  == read[g] + 1
        left  == IF cut THEN {last} ELSE {}
        whole == (pending_utf8[g] \union {last}) \ left
    IN  /\ reader[g] = "read"
        /\ read[g] < MaxOutput
        /\ read' = [read EXCEPT ![g] = last]
        /\ pending_utf8' = [pending_utf8 EXCEPT ![g] = left]
        /\ sending' = [sending EXCEPT ![g] = whole]
        /\ ReaderTo(g, IF whole = {} THEN "check" ELSE "send")
        /\ UNCHANGED <<paneRows, call, flushers, queue>>

(* The end of the output, or an error.                                     *)
ReaderEnds(g) ==
    /\ reader[g] = "read"
    /\ shell[g] # "running"
    /\ ReaderTo(g, "leave")
    /\ UNCHANGED <<paneRows, call, read, pending_utf8, sending, flushers, queue>>

(* A full queue blocks; a flusher that has left is an error.               *)
ReaderSends(g) ==
    /\ reader[g] \in {"send", "send_last"}
    /\ sending' = [sending EXCEPT ![g] = {}]
    /\ \/ /\ flusher[g] = "done"
          /\ ReaderTo(g, IF reader[g] = "send" THEN "leave" ELSE "done")
          /\ UNCHANGED queue
       \/ /\ flusher[g] # "done"
          /\ Len(queue[g]) < QueueCapacity
          /\ queue' = [queue EXCEPT ![g] = Append(@, sending[g])]
          /\ ReaderTo(g, IF reader[g] = "send" THEN "check" ELSE "done")
    /\ UNCHANGED <<paneRows, call, read, pending_utf8, flushers>>

(* publish_pending_pty_utf8, for a shell that is still the pane's.         *)
ReaderLeaves(g) ==
    /\ reader[g] = "leave"
    /\ IF Current(g) /\ pending_utf8[g] # {}
       THEN /\ sending' = [sending EXCEPT ![g] = pending_utf8[g]]
            /\ pending_utf8' = [pending_utf8 EXCEPT ![g] = {}]
            /\ ReaderTo(g, "send_last")
       ELSE /\ ReaderTo(g, "done")
            /\ UNCHANGED <<pending_utf8, sending>>
    /\ UNCHANGED <<paneRows, call, read, flushers, queue>>

-----------------------------------------------------------------------------
(* The flusher thread. *)

FlusherChecks(g) ==
    /\ flusher[g] = "check"
    /\ FlusherTo(g, IF Current(g) THEN "wait" ELSE "leave")
    /\ UNCHANGED <<paneRows, call, readers, batch, shown, queue>>

(* should_flush depends on the size and the age of the batch.              *)
FlusherReceives(g) ==
    /\ flusher[g] = "wait"
    /\ queue[g] # <<>>
    /\ batch' = [batch EXCEPT ![g] = @ \union Head(queue[g])]
    /\ queue' = [queue EXCEPT ![g] = Tail(@)]
    /\ \E step \in {"check", "flush"} : FlusherTo(g, step)
    /\ UNCHANGED <<paneRows, call, readers, shown>>

(* The interval is over.                                                   *)
FlusherTimesOut(g) ==
    /\ flusher[g] = "wait"
    /\ queue[g] = <<>> /\ reader[g] # "done"
    /\ FlusherTo(g, IF batch[g] # {} THEN "flush" ELSE "check")
    /\ UNCHANGED <<paneRows, call, readers, batch, shown, queue>>

(* The reader has left and the queue is empty.                             *)
FlusherDisconnected(g) ==
    /\ flusher[g] = "wait"
    /\ queue[g] = <<>> /\ reader[g] = "done"
    /\ FlusherTo(g, "leave")
    /\ UNCHANGED <<paneRows, call, readers, batch, shown, queue>>

FlushCheck(g) ==
    /\ flusher[g] = "flush"
    /\ FlusherTo(g, IF Current(g) THEN "emit" ELSE "leave")
    /\ UNCHANGED <<paneRows, call, readers, batch, shown, queue>>

(* emit_pty_output_batch, to the pane of that name, whatever shell it has  *)
(* by now.                                                                 *)
Emit(g) ==
    /\ flusher[g] \in {"emit", "emit_last"}
    /\ shown' = [shown EXCEPT ![g] = @ \union batch[g]]
    /\ batch' = [batch EXCEPT ![g] = {}]
    /\ FlusherTo(g, IF flusher[g] = "emit" THEN "check" ELSE "done")
    /\ UNCHANGED <<paneRows, call, readers, queue>>

FlusherLeaves(g) ==
    /\ flusher[g] = "leave"
    /\ FlusherTo(g, IF Current(g) /\ batch[g] # {} THEN "emit_last" ELSE "done")
    /\ UNCHANGED <<paneRows, call, readers, batch, shown, queue>>

PaneThreads(g) ==
    \/ ReaderChecks(g) \/ ReaderEnds(g) \/ ReaderSends(g) \/ ReaderLeaves(g)
    \/ FlusherChecks(g) \/ FlusherReceives(g) \/ FlusherTimesOut(g) \/ FlusherDisconnected(g)
    \/ FlushCheck(g) \/ Emit(g) \/ FlusherLeaves(g) \/ ShellExits(g)
    \/ \E cut \in BOOLEAN : ReaderReads(g, cut)

-----------------------------------------------------------------------------
(* Properties. *)

(* What waits in the queue.                                                *)
Queued(g) == UNION {queue[g][i] : i \in DOMAIN queue[g]}

Precedes(these, those) == \A n \in these, m \in those : n < m

(* Each character is in one piece, and the pieces are in order.            *)
InOrder(g) ==
    /\ Precedes(shown[g], batch[g])
    /\ Precedes(shown[g] \union batch[g], Queued(g))
    /\ \A i, j \in DOMAIN queue[g] : i < j => Precedes(queue[g][i], queue[g][j])
    /\ Precedes(shown[g] \union batch[g] \union Queued(g), sending[g])
    /\ Precedes(shown[g] \union batch[g] \union Queued(g) \union sending[g],
                pending_utf8[g])

(* Output reaches the window: it is shown in order and nothing twice, and  *)
(* as long as a shell is its pane's each character read from it is on its  *)
(* way or shown, and none is left when its two threads are over.           *)
OutputIsKept ==
    \A g \in Followed :
        /\ InOrder(g)
        /\ Current(g) /\ reader[g] # "off" =>
            /\ 1 .. read[g] = shown[g] \union batch[g] \union Queued(g)
                                       \union sending[g] \union pending_utf8[g]
            /\ reader[g] = "done" /\ flusher[g] = "done" => shown[g] = 1 .. read[g]

(* The shells a command still has in hand.                                 *)
InHand(c) == {call[c].made, call[c].old}

(* No shell is forgotten: one that runs is some pane's, where close or the *)
(* shutdown finds it, or a command that has not ended will put it there or *)
(* stop it.                                                                *)
ShellsAreAccountedFor(stopping) ==
    \A g \in Gens :
        shell[g] = "running" =>
            \/ \E p \in Panes : panes[p] = g
            \/ \E c \in Callers : g \in InHand(c)
            \/ g \in stopping

=============================================================================
