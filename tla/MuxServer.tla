----------------------------- MODULE MuxServer -----------------------------
(* The multiplexer's session server (core/src/server/mod.rs): connection   *)
(* threads put requests on one queue, the server loop takes what is queued *)
(* as a batch and handles it request by request, and shells that exit are  *)
(* reaped between batches.  The state is the list of windows with their    *)
(* pane trees, and which window and pane has the focus.                    *)
(*                                                                         *)
(* A command with "-t" is two requests: a temporary focus on the target,   *)
(* and the command, which acts on what has the focus; the request handled  *)
(* after a temporary focus restores the focus that was saved.              *)
(*                                                                         *)
(* Left out: hooks, copy mode, layout sizes and zoom, names and options.   *)
EXTENDS MuxTree, FiniteSets

CONSTANTS
    Conns,          \* connection threads
    Plain,          \* the requests they send as they are
    Aimed,          \* the requests they send with a target
    MaxPanes,       \* bound: panes ever created
    MaxRequests,    \* bound: commands ever given
    MaxQueue,       \* bound: requests queued or in the batch
    RemainOnExit    \* the option: a pane whose shell exits stays

ASSUME BoundsAssumption ==
    /\ MaxPanes \in Nat \ {0} /\ MaxRequests \in Nat /\ MaxQueue \in Nat \ {0}
    /\ RemainOnExit \in BOOLEAN

Panes   == 1..MaxPanes
NoTemp  == [idx |-> 0, pane |-> NoPane]
NoReply == -1

VARIABLES
    windows,          \* sequence of [root, active, mru, id]
    active_idx,       \* the window with the focus
    last_window_idx,
    last_pane_path,
    temp_focus,       \* the focus to restore, or NoTemp
    next_win_id,
    proc,             \* the shell of a pane: none, running, gone, dead (kept)
    queue,            \* the requests the connections have sent
    pending,          \* the batch being handled
    up,               \* the server runs
    conn,             \* per connection: idle, or the command it aims
    reply,            \* the answer to its temporary focus
    sent,             \* counts the commands
    astray            \* history: windows whose focus a handler has put off the panes

tree_vars == <<windows, active_idx, last_window_idx, last_pane_path, next_win_id>>
id_vars == <<last_window_idx, last_pane_path, next_win_id>>
conn_vars == <<conn, reply, sent>>
vars == <<windows, active_idx, last_window_idx, last_pane_path, temp_focus,
          next_win_id, proc, queue, pending, up, conn, reply, sent, astray>>

Request(op, arg, c, target) ==
    [op |-> op, arg |-> arg, from |-> c, target |-> target]
Idle == [st |-> "idle", op |-> "none"]
Nobody == "nobody"

NewWindowOf(p, id) == [root |-> Leaf(p), active |-> <<>>, mru |-> <<p>>, id |-> id]

-----------------------------------------------------------------------------
(* What the handlers share.                                                *)

Win == windows[active_idx]
AllPanes(ws) == UNION {PanesIn(ws[i].root) : i \in DOMAIN ws}
WindowOf(p) == SelectInSeq(windows, LAMBDA w : p \in PanesIn(w.root))
Focus(ws, i) == ActivePaneId(ws[i].root, ws[i].active)
PutWin(w) == [windows EXCEPT ![active_idx] = w]
FocusOn(w, path, touched) ==
    [w EXCEPT !.active = path, !.mru = IF touched = NoPane THEN @ ELSE TouchMru(@, touched)]

Serving(op) == up /\ pending # <<>> /\ Head(pending).op = op
Arg == Head(pending).arg
Kill(killed) == proc' = [p \in Panes |-> IF p \in killed THEN "gone" ELSE proc[p]]

\* the windows whose active path does not end at a pane
Wandering(ws) ==
    {ws[i].id : i \in {j \in DOMAIN ws : ActivePane(ws[j].root, ws[j].active) = NoPane}}

\* The focus a request leaves once the saved one is restored: by window
\* position and pane, because a kill moves the paths.
Restored(ws, a, temp) ==
    IF temp = NoTemp \/ temp.idx \notin DOMAIN ws THEN [windows |-> ws, active |-> a]
    ELSE LET path == FindPath(ws[temp.idx].root, temp.pane)
         IN  [windows |-> IF path = NoPath THEN ws
                          ELSE [ws EXCEPT ![temp.idx].active = path],
              active  |-> temp.idx]

\* The request is done: the saved focus is restored and the next one is up.
\* A handler that loses the focus says so.
DoneWith(ws, a, temp, loses) ==
    LET r == Restored(ws, a, temp)
    IN  /\ windows' = r.windows
        /\ active_idx' = r.active
        /\ temp_focus' = NoTemp
        /\ pending' = Tail(pending)
        /\ astray' = IF loses \/ Win.id \in astray THEN Wandering(r.windows)
                     ELSE astray \cap Wandering(r.windows)
        /\ UNCHANGED <<queue, up, conn_vars>>

Done(ws, a) == DoneWith(ws, a, temp_focus, FALSE)
Lost(ws, a) == DoneWith(ws, a, temp_focus, TRUE)

\* The server ends: every terminal is closed and every shell with it.
Stops ==
    /\ up' = FALSE
    /\ proc' = [p \in Panes |-> IF proc[p] = "running" THEN "gone" ELSE proc[p]]
    /\ queue' = <<>> /\ pending' = <<>>
    /\ UNCHANGED <<tree_vars, temp_focus, conn_vars, astray>>

\* the pane a spawn creates; it may also fail
Unborn == {p \in Panes : proc[p] = "none"}
NextPane == CHOOSE p \in Unborn : \A q \in Unborn : p <= q

-----------------------------------------------------------------------------
(* Creating and ending panes.                                              *)

\* Arg 1: detached, the focus stays.
NewWindow ==
    /\ Serving("NewWindow")
    /\ UNCHANGED <<last_window_idx, last_pane_path>>
    /\ \/ /\ Done(windows, active_idx)                  \* no shell could be started
          /\ UNCHANGED <<next_win_id, proc>>
       \/ /\ Unborn # {}
          /\ LET ws == Append(windows, NewWindowOf(NextPane, next_win_id))
             IN  Done(ws, IF Arg = 1 THEN active_idx ELSE Len(ws))
          /\ next_win_id' = next_win_id + 1
          /\ proc' = [proc EXCEPT ![NextPane] = "running"]

\* What -d does after the split, whether or not there was one: the path of the
\* pane that was split is taken to be the first child of the new split now, and
\* the pane that has the focus is taken to be the new one.
FocusBack(w, before) ==
    [w EXCEPT !.active = Append(before, 1),
              !.mru = RemoveFromMru(@, ActivePaneId(w.root, w.active))]

\* Arg 1: detached.  A split that is not detached ends a temporary focus.
AfterSplit(w) ==
    IF Arg = 1 THEN Lost(PutWin(FocusBack(w, Win.active)), active_idx)
    ELSE DoneWith(PutWin(w), active_idx, NoTemp, FALSE)

SplitWindow ==
    /\ Serving("SplitWindow")
    /\ \/ /\ AfterSplit(Win)                            \* too small, or no shell
          /\ UNCHANGED <<last_window_idx, last_pane_path, next_win_id, proc>>
       \/ /\ Unborn # {}
          /\ LET new == NextPane
                 put == ReplaceLeafWithSplit(Win.root, Win.active, Leaf(new))
             IN  IF put.panics THEN Stops
                 ELSE /\ AfterSplit([Win EXCEPT !.root = put.root,
                                                !.active = Append(@, 2),
                                                !.mru = TouchMru(@, new)])
                      /\ proc' = [proc EXCEPT ![new] =
                                      IF put.killed = {} THEN "running" ELSE "gone"]
                      /\ UNCHANGED id_vars

\* A window after the pane at the path is killed: the focus goes to the most
\* recently used pane that is left.
WithoutPane(w, path) ==
    LET root == RemoveNode(w.root, path)
        mru  == RemoveFromMru(w.mru, ActivePaneId(w.root, path))
    IN  [w EXCEPT !.root = root, !.mru = mru, !.active = FindFirst(root, mru)]

KillPane ==
    /\ Serving("KillPane")
    /\ Kill(KilledAt(Win.root, Win.active))
    /\ Done(PutWin(WithoutPane(Win, Win.active)), active_idx)
    /\ UNCHANGED id_vars

\* The pane is looked up by its id; in another window the focus stays where
\* it is, its path found again by the pane.
KillPaneById ==
    /\ Serving("KillPaneById")
    /\ UNCHANGED id_vars
    /\ LET at == WindowOf(Arg)
       IN  IF at = 0 THEN Done(windows, active_idx) /\ UNCHANGED proc
           ELSE LET path   == FindPath(windows[at].root, Arg)
                    killed == [windows EXCEPT ![at] = WithoutPane(@, path)]
                    ws     == IF at = active_idx THEN killed
                              ELSE [killed EXCEPT ![active_idx].active =
                                        FindPath(Win.root, ActivePaneId(Win.root, @))]
                IN  /\ Kill(KilledAt(windows[at].root, path))
                    /\ Done(ws, active_idx)

InRange(a, ws) == IF a > Len(ws) THEN Len(ws) ELSE a

\* The last window keeps its panes until they are reaped.
KillWindow ==
    /\ Serving("KillWindow")
    /\ Kill(PanesIn(Win.root))
    /\ LET ws == RemoveAt(windows, active_idx)
       IN  IF ws = <<>> THEN Done(windows, active_idx) ELSE Done(ws, InRange(active_idx, ws))
    /\ UNCHANGED id_vars

UnlinkWindow ==
    /\ Serving("UnlinkWindow")
    /\ LET ws == RemoveAt(windows, active_idx)
       IN  IF ws = <<>> THEN Done(windows, active_idx) /\ UNCHANGED proc
           ELSE Done(ws, InRange(active_idx, ws)) /\ Kill(PanesIn(Win.root))
    /\ UNCHANGED id_vars

\* A new shell in a pane: of a named pane (Arg) or of the one with the focus.
\* An error, a pane that is gone or a shell that cannot be started, ends the
\* server loop.
RespawnPane ==
    /\ Serving("RespawnPane")
    /\ LET at == IF Arg # NoPane THEN WindowOf(Arg) ELSE active_idx
           p  == IF Arg # NoPane THEN Arg ELSE ActivePane(Win.root, Win.active)
       IN  IF at = 0 THEN Stops
           ELSE IF p = NoPane
           THEN Done(windows, active_idx) /\ UNCHANGED <<id_vars, proc>>
           ELSE \/ Stops
                \/ /\ Done(windows, active_idx)
                   /\ proc' = [proc EXCEPT ![p] = "running"]
                   /\ UNCHANGED id_vars

KillSession == Serving("KillSession") /\ Stops

-----------------------------------------------------------------------------
(* Moving the focus.  A temporary focus is saved once and restored by the  *)
(* next request that is not one.                                           *)

FocusPaths(w) == LeafPaths(w.root)

\* mutant: the search does not take the path of the pane it has found
FocusedOn_FirstPane(p) ==
    [windows EXCEPT ![WindowOf(p)] = FocusOn(@, FirstLeafPath(@.root), p)]

\* what focus_pane_by_id leaves: the first window that has the pane
FocusedOn(p) == [windows EXCEPT ![WindowOf(p)] = FocusOn(@, FindPath(@.root, p), p)]

FocusWindow ==
    /\ Serving("FocusWindow")
    /\ IF Arg \in DOMAIN windows /\ Arg # active_idx
       THEN last_window_idx' = active_idx /\ Done(windows, Arg)
       ELSE UNCHANGED last_window_idx /\ Done(windows, active_idx)
    /\ UNCHANGED <<last_pane_path, next_win_id, proc>>

\* the next of n around the end (Arg 1), or the one before (Arg 0)
Turned(i, n) == IF Arg = 1 THEN (i % n) + 1 ELSE ((i + n - 2) % n) + 1

NextWindow ==
    /\ Serving("NextWindow")
    /\ last_window_idx' = active_idx
    /\ Done(windows, Turned(active_idx, Len(windows)))
    /\ UNCHANGED <<last_pane_path, next_win_id, proc>>

LastWindow ==
    /\ Serving("LastWindow")
    /\ IF Len(windows) > 1 /\ last_window_idx \in DOMAIN windows
       THEN last_window_idx' = active_idx /\ Done(windows, last_window_idx)
       ELSE UNCHANGED last_window_idx /\ Done(windows, active_idx)
    /\ UNCHANGED <<last_pane_path, next_win_id, proc>>

FocusPane ==
    /\ Serving("FocusPane")
    /\ IF WindowOf(Arg) = 0 THEN Done(windows, active_idx)
       ELSE Done(FocusedOn(Arg), WindowOf(Arg))
    /\ UNCHANGED <<id_vars, proc>>

\* By its position in the window with the focus.
FocusPaneByIndex ==
    /\ Serving("FocusPaneByIndex")
    /\ IF Arg \notin DOMAIN FocusPaths(Win) THEN Done(windows, active_idx)
       ELSE LET path == FocusPaths(Win)[Arg]
            IN  Done(PutWin(FocusOn(Win, path, ActivePane(Win.root, path))), active_idx)
    /\ UNCHANGED <<id_vars, proc>>

\* A temporary focus: saves the focus if none is saved, restores none.
Saves(succeeds) ==
    temp_focus' = IF temp_focus = NoTemp /\ succeeds
                  THEN [idx |-> active_idx, pane |-> Focus(windows, active_idx)]
                  ELSE temp_focus

\* The answer reaches the connection unless it has given up.
Answers(p) ==
    LET c == Head(pending).from
    IN  reply' = IF c = Nobody THEN reply ELSE [reply EXCEPT ![c] = p]

FocusWindowTemp ==
    /\ Serving("FocusWindowTemp")
    /\ Saves(TRUE)
    /\ active_idx' = IF Arg \in DOMAIN windows THEN Arg ELSE active_idx
    /\ pending' = Tail(pending)
    /\ UNCHANGED <<windows, id_vars, proc, queue, up, conn_vars, astray>>

FocusPaneTemp ==
    /\ Serving("FocusPaneTemp")
    /\ LET found == WindowOf(Arg) # 0
       IN  /\ Saves(found)
           /\ windows' = IF found THEN FocusedOn(Arg) ELSE windows
           /\ active_idx' = IF found THEN WindowOf(Arg) ELSE active_idx
           /\ Answers(IF found THEN Arg ELSE NoPane)
    /\ pending' = Tail(pending)
    /\ astray' = astray \cap Wandering(windows')
    /\ UNCHANGED <<id_vars, proc, queue, up, conn, sent>>

FocusPaneByIndexTemp ==
    /\ Serving("FocusPaneByIndexTemp")
    /\ LET found == Arg \in DOMAIN FocusPaths(Win)
           path  == FocusPaths(Win)[Arg]
       IN  /\ Saves(found)
           /\ windows' = IF found THEN PutWin(FocusOn(Win, path, NoPane)) ELSE windows
           /\ Answers(IF found THEN ActivePane(Win.root, path) ELSE NoPane)
    /\ pending' = Tail(pending)
    /\ astray' = astray \cap Wandering(windows')
    /\ UNCHANGED <<active_idx, id_vars, proc, queue, up, conn, sent>>

\* The pane used before, in whatever window: its path is not checked.
SelectPaneLast ==
    /\ Serving("SelectPaneLast")
    /\ LET w == FocusOn(Win, last_pane_path, ActivePaneId(Win.root, last_pane_path))
       IN  IF last_pane_path \in {<<>>, Win.active}
           THEN Done(windows, active_idx) /\ UNCHANGED last_pane_path
           ELSE Lost(PutWin(w), active_idx) /\ last_pane_path' = Win.active
    /\ UNCHANGED <<last_window_idx, next_win_id, proc>>

\* The focus moves to the pane at the path, and the path it had is kept.
MovesTo(path) ==
    /\ Done(PutWin(FocusOn(Win, path, IF path = Win.active THEN NoPane
                                      ELSE ActivePane(Win.root, path))), active_idx)
    /\ UNCHANGED <<last_window_idx, next_win_id, proc>>

SelectPaneNext ==
    /\ Serving("SelectPaneNext")
    /\ LET paths == FocusPaths(Win)
           cur   == SelectInSeq(paths, LAMBDA path : path = Win.active)
       IN  IF cur = 0 THEN MovesTo(Win.active) /\ UNCHANGED last_pane_path
           ELSE /\ MovesTo(paths[Turned(cur, Len(paths))])
                /\ last_pane_path' = Win.active

\* The panes a direction may lead to: geometry is left out, so any other pane
\* or none; no pane when the focus is on none.
Beside(w) ==
    {w.active} \cup IF ActivePane(w.root, w.active) = NoPane THEN {} ELSE ToSet(FocusPaths(w))

SelectPaneDirection ==
    /\ Serving("SelectPaneDirection")
    /\ \E path \in Beside(Win) :
        /\ MovesTo(path)
        /\ last_pane_path' = IF path = Win.active THEN last_pane_path ELSE Win.active

\* Named for what it is asked for: it moves the focus and swaps nothing.
SwapPane ==
    /\ Serving("SwapPane")
    /\ \E path \in Beside(Win) : MovesTo(path)
    /\ UNCHANGED last_pane_path

MouseDown ==
    /\ Serving("MouseDown")
    /\ IF Arg \notin DOMAIN FocusPaths(Win) THEN Done(windows, active_idx)
       ELSE LET path == FocusPaths(Win)[Arg]
            IN  Done(PutWin(FocusOn(Win, path, ActivePane(Win.root, path))), active_idx)
    /\ UNCHANGED <<id_vars, proc>>

DisplayPaneSelect ==
    /\ Serving("DisplayPaneSelect")
    /\ LET path == IF Arg \in DOMAIN FocusPaths(Win) THEN FocusPaths(Win)[Arg] ELSE Win.active
       IN  /\ Done(PutWin(FocusOn(Win, path, NoPane)), active_idx)
           /\ last_pane_path' = IF path = Win.active THEN last_pane_path ELSE Win.active
    /\ UNCHANGED <<last_window_idx, next_win_id, proc>>

\* The path used before if the window has it, else the neighbour as if every
\* split had two children.
LastPane ==
    /\ Serving("LastPane")
    /\ IF last_pane_path # <<>> /\ PathExists(Win.root, last_pane_path)
       THEN /\ Lost(PutWin(FocusOn(Win, last_pane_path, NoPane)), active_idx)
            /\ last_pane_path' = Win.active
       ELSE /\ LET path == IF Win.active = <<>> THEN <<>>
                           ELSE Append(Front(Win.active), (Last(Win.active) % 2) + 1)
               IN  Lost(PutWin(FocusOn(Win, path, NoPane)), active_idx)
            /\ UNCHANGED last_pane_path
    /\ UNCHANGED <<last_window_idx, next_win_id, proc>>

-----------------------------------------------------------------------------
(* Moving panes and windows.                                               *)

\* The tree turns under the path, which may lead elsewhere or nowhere then.
RotateWindow ==
    /\ Serving("RotateWindow")
    /\ Lost(PutWin([Win EXCEPT !.root = RotatePanes(@, Arg = 1)]), active_idx)
    /\ UNCHANGED <<id_vars, proc>>

\* mutant: the window keeps the tree it had
TakenOut_Copies(ws, taken) ==
    IF taken.rest = NoTree THEN RemoveAt(ws, active_idx)
    ELSE [ws EXCEPT ![active_idx].active = FirstLeafPath(taken.rest)]

\* What taking the focused node out of its window leaves of the windows: a
\* window that keeps panes focuses its first one, an empty one is removed.
TakenOut(ws, taken) ==
    IF taken.rest = NoTree THEN RemoveAt(ws, active_idx)
    ELSE [ws EXCEPT ![active_idx] =
              [@ EXCEPT !.root = taken.rest, !.active = FirstLeafPath(taken.rest)]]

BreakPane ==
    /\ Serving("BreakPane")
    /\ UNCHANGED <<last_window_idx, last_pane_path, proc>>
    /\ LET taken == ExtractNode(Win.root, Win.active)
           new   == [root |-> taken.out, active |-> <<>>, mru |-> PaneIds(taken.out),
                     id |-> next_win_id]
           ws    == TakenOut(Append(windows, new), taken)
       IN  IF taken.out = NoTree THEN Done(windows, active_idx) /\ UNCHANGED next_win_id
           ELSE Lost(ws, Len(ws)) /\ next_win_id' = next_win_id + 1

\* join-pane and its alias move-pane, into the window at the position.  The
\* path of that window is left as it is, at the split the graft has made; the
\* orders of use of both windows are left as they are too.
JoinPane ==
    /\ Serving("JoinPane")
    /\ UNCHANGED id_vars
    /\ LET taken == ExtractNode(Win.root, Win.active)
           ws    == TakenOut(windows, taken)
           tgt   == IF taken.rest = NoTree /\ Arg > active_idx THEN Arg - 1 ELSE Arg
           put   == ReplaceLeafWithSplit(ws[tgt].root, ws[tgt].active, taken.out)
       IN  IF Arg \notin DOMAIN windows \ {active_idx} \/ taken.out = NoTree
           THEN Done(windows, active_idx) /\ UNCHANGED proc
           ELSE IF put.panics THEN Stops
           ELSE Lost([ws EXCEPT ![tgt].root = put.root], tgt) /\ Kill(put.killed)

MoveWindow ==
    /\ Serving("MoveWindow")
    /\ LET rest == RemoveAt(windows, active_idx)
           at   == IF Arg > active_idx THEN Arg - 1 ELSE Arg
       IN  IF Arg \in DOMAIN windows \ {active_idx}
           THEN Done(InsertAt(rest, at, Win), at) ELSE Done(windows, active_idx)
    /\ UNCHANGED <<id_vars, proc>>

SwapWindow ==
    /\ Serving("SwapWindow")
    /\ IF Arg \in DOMAIN windows
       THEN Done([windows EXCEPT ![active_idx] = windows[Arg], ![Arg] = Win], active_idx)
       ELSE Done(windows, active_idx)
    /\ UNCHANGED <<id_vars, proc>>

\* A new window with a shell of its own, at the position (Arg) or last; before
\* the last position the focus ends on the window that was moved up.
LinkWindow ==
    /\ Serving("LinkWindow")
    /\ UNCHANGED <<last_window_idx, last_pane_path>>
    /\ \/ Done(windows, active_idx) /\ UNCHANGED <<next_win_id, proc>>  \* no shell
       \/ /\ Unborn # {}
          /\ LET new == NewWindowOf(NextPane, next_win_id)
                 n   == Len(windows)
             IN  IF Arg \in 1..n THEN Done(InsertAt(windows, Arg, new), n)
                 ELSE Done(Append(windows, new), n + 1)
          /\ next_win_id' = next_win_id + 1
          /\ proc' = [proc EXCEPT ![NextPane] = "running"]

\* A named layout, or the next one in turn; custom layouts are left out.
SelectLayout ==
    /\ Serving("SelectLayout")
    /\ \E layout \in Layouts :
        LET root == ApplyLayout(Win.root, layout)
        IN  IF IsLeaf(Win.root) THEN Done(windows, active_idx)
            ELSE Done(PutWin([Win EXCEPT !.root = root, !.active = FirstLeafPath(root)]),
                      active_idx)
    /\ UNCHANGED <<id_vars, proc>>

\* Keys go to the pane with the focus, captures and screens are read from it.
Untouching == {"SendKeys", "CapturePane", "DumpState"}
ReadOrWritePane ==
    /\ \E op \in Untouching : Serving(op)
    /\ Done(windows, active_idx)
    /\ UNCHANGED <<id_vars, proc>>

\* A connection whose last frame is still good gets a short answer, and the
\* handler goes on with the next request before it restores a saved focus.
\* That takes frames pushed since the focus was saved, which left no change
\* behind; whether there were any is left to chance.
ScreenUnchanged ==
    /\ Serving("DumpState")
    /\ pending' = Tail(pending)
    /\ UNCHANGED <<tree_vars, temp_focus, proc, queue, up, conn_vars, astray>>

-----------------------------------------------------------------------------
(* The server loop, and the shells.                                        *)

\* What is queued becomes the batch; screens are served last.
TakeBatch ==
    /\ up /\ pending = <<>> /\ queue # <<>>
    /\ pending' = SelectSeq(queue, LAMBDA r : r.op # "DumpState")
                     \o SelectSeq(queue, LAMBDA r : r.op = "DumpState")
    /\ queue' = <<>>
    /\ UNCHANGED <<tree_vars, temp_focus, proc, up, conn_vars, astray>>

ShellExits(p) ==
    /\ up /\ proc[p] = "running"
    /\ proc' = [proc EXCEPT ![p] = "gone"]
    /\ UNCHANGED <<tree_vars, temp_focus, queue, pending, up, conn_vars, astray>>

Gone == {p \in Panes : proc[p] = "gone"}

\* mutant: the path is kept when it still names the pane, wherever it ends
PrunedWindow_ByName(w, root) ==
    LET left == SelectSeq(w.mru, LAMBDA p : p \in PanesIn(root))
        had  == ActivePaneId(w.root, w.active)
    IN  [w EXCEPT !.root = root, !.mru = left,
                  !.active = IF ActivePaneId(root, @) = had THEN @
                             ELSE FindFirst(root, <<had>> \o left)]

\* A window after its panes are pruned; the focus is found again by its pane,
\* for the path may lead to another one now.
PrunedWindow(w, root) ==
    LET left == SelectSeq(w.mru, LAMBDA p : p \in PanesIn(root))
        had  == ActivePaneId(w.root, w.active)
        kept == PathExists(root, w.active) /\ ActivePaneId(root, w.active) = had
    IN  [w EXCEPT !.root = root, !.mru = left,
                  !.active = IF kept THEN @ ELSE FindFirst(root, <<had>> \o left)]

\* A window without panes is removed; without windows the server ends.
Reap ==
    /\ up /\ pending = <<>> /\ AllPanes(windows) \cap Gone # {}
    /\ LET root  == [i \in DOMAIN windows |-> IF RemainOnExit THEN windows[i].root
                                              ELSE PruneExited(windows[i].root, Gone)]
           left  == {i \in DOMAIN windows : root[i] # NoTree}
           kept  == SelectSeq([i \in DOMAIN windows |->
                                 IF i \notin left \/ PanesIn(windows[i].root) \cap Gone = {}
                                 THEN windows[i] ELSE PrunedWindow(windows[i], root[i])],
                              LAMBDA w : PanesIn(w.root) \ (IF RemainOnExit THEN {} ELSE Gone) # {})
           below == {i \in left : i < active_idx}
       IN  IF left = {} THEN Stops
           ELSE /\ windows' = kept
                /\ active_idx' = InRange(Cardinality(below) + 1, kept)
                /\ proc' = [p \in Panes |-> IF RemainOnExit /\ p \in Gone \cap AllPanes(windows)
                                            THEN "dead" ELSE proc[p]]
                /\ astray' = astray \cap Wandering(kept)
                /\ UNCHANGED <<id_vars, temp_focus, queue, pending, up, conn_vars>>

-----------------------------------------------------------------------------
(* The connections.  A command is sent as it is; one with "-t" is sent     *)
(* after the temporary focus on its target, a window first and a pane in   *)
(* it, by id or by position, for which the answer is awaited.              *)

Windows == 1..MaxPanes + 1
Args(op) ==
    CASE op \in {"NewWindow", "SplitWindow", "NextWindow", "SelectPaneNext",
                  "RotateWindow"} -> {0, 1}
      [] op \in {"KillPaneById", "FocusPane"} -> Panes
      [] op = "RespawnPane" -> Panes \cup {NoPane}
      [] op \in {"FocusWindow", "JoinPane", "MoveWindow", "SwapWindow", "LinkWindow"} -> Windows
      [] op \in {"FocusPaneByIndex", "MouseDown", "DisplayPaneSelect"} -> Panes
      [] OTHER -> {0}

HasRoom == up /\ Len(queue) + Len(pending) < MaxQueue
Sends(c, op, arg, target) == queue' = Append(queue, Request(op, arg, c, target))
loop_vars == <<tree_vars, temp_focus, proc, pending, up, astray>>

Ask(c) ==
    /\ conn[c] = Idle /\ HasRoom /\ sent < MaxRequests
    /\ \E op \in Plain : \E arg \in Args(op) : Sends(Nobody, op, arg, NoPane)
    /\ sent' = sent + 1
    /\ UNCHANGED <<loop_vars, conn, reply>>

\* A window alone is not waited for.
AimAtWindow(c) ==
    /\ conn[c] = Idle /\ HasRoom /\ sent < MaxRequests
    /\ \E op \in Aimed, i \in Windows, st \in {"aimed", "pane"} :
        /\ Sends(Nobody, "FocusWindowTemp", i, NoPane)
        /\ conn' = [conn EXCEPT ![c] = [Idle EXCEPT !.st = st, !.op = op]]
    /\ sent' = sent + 1
    /\ UNCHANGED <<loop_vars, reply>>

AimAtIndex(c) ==
    /\ HasRoom /\ conn[c].st = "pane"
    /\ \E k \in Panes : Sends(c, "FocusPaneByIndexTemp", k, NoPane)
    /\ conn' = [conn EXCEPT ![c].st = "asked"]
    /\ UNCHANGED <<loop_vars, reply, sent>>

AimAtPane(c) ==
    /\ conn[c] = Idle /\ HasRoom /\ sent < MaxRequests
    /\ \E op \in Aimed, p \in Panes :
        /\ Sends(c, "FocusPaneTemp", p, NoPane)
        /\ conn' = [conn EXCEPT ![c] = [Idle EXCEPT !.st = "asked", !.op = op]]
    /\ sent' = sent + 1
    /\ UNCHANGED <<loop_vars, reply>>

\* The target is known: the command follows.
SendAimed(c) ==
    /\ HasRoom
    /\ conn[c].st = "aimed" \/ reply[c] > NoPane
    /\ \E arg \in Args(conn[c].op) :
        Sends(Nobody, conn[c].op, arg, IF conn[c].st = "aimed" THEN NoPane ELSE reply[c])
    /\ conn' = [conn EXCEPT ![c] = Idle]
    /\ reply' = [reply EXCEPT ![c] = NoReply]
    /\ UNCHANGED <<loop_vars, sent>>

Unheard(requests, c) ==
    [i \in DOMAIN requests |-> IF requests[i].from = c THEN [requests[i] EXCEPT !.from = Nobody]
                               ELSE requests[i]]

\* The pane was not found, or there was no answer in two seconds: the command
\* is not sent; a focus that comes later stays until the next request.
GiveUp(c) ==
    /\ conn[c].st = "asked" /\ reply[c] \in {NoReply, NoPane}
    /\ conn' = [conn EXCEPT ![c] = Idle]
    /\ reply' = [reply EXCEPT ![c] = NoReply]
    /\ queue' = Unheard(queue, c) /\ pending' = Unheard(pending, c)
    /\ UNCHANGED <<tree_vars, temp_focus, proc, up, astray, sent>>

-----------------------------------------------------------------------------
Init ==
    /\ windows = <<NewWindowOf(1, 1)>>
    /\ active_idx = 1 /\ last_window_idx = 1 /\ last_pane_path = <<>>
    /\ temp_focus = NoTemp /\ next_win_id = 2
    /\ proc = [p \in Panes |-> IF p = 1 THEN "running" ELSE "none"]
    /\ queue = <<>> /\ pending = <<>> /\ up = TRUE
    /\ conn = [c \in Conns |-> Idle] /\ reply = [c \in Conns |-> NoReply]
    /\ sent = 0 /\ astray = {}

Handle ==
    \/ NewWindow \/ SplitWindow \/ KillPane \/ KillPaneById \/ KillWindow
    \/ UnlinkWindow \/ RespawnPane \/ KillSession
    \/ FocusWindow \/ NextWindow \/ LastWindow \/ FocusPane \/ FocusPaneByIndex
    \/ FocusWindowTemp \/ FocusPaneTemp \/ FocusPaneByIndexTemp
    \/ SelectPaneLast \/ SelectPaneNext \/ SelectPaneDirection \/ SwapPane
    \/ MouseDown \/ DisplayPaneSelect \/ LastPane
    \/ RotateWindow \/ BreakPane \/ JoinPane \/ MoveWindow \/ SwapWindow
    \/ LinkWindow \/ SelectLayout \/ ReadOrWritePane
    \/ ScreenUnchanged

Next ==
    \/ Handle \/ TakeBatch \/ Reap
    \/ \E p \in Panes : ShellExits(p)
    \/ \E c \in Conns :
        Ask(c) \/ AimAtWindow(c) \/ AimAtIndex(c) \/ AimAtPane(c) \/ SendAimed(c) \/ GiveUp(c)

Spec == Init /\ [][Next]_vars

-----------------------------------------------------------------------------
(* Properties.                                                             *)

\* Moving panes between windows (break-pane, join-pane), splitting and pruning
\* never show a pane in two places: no pane is drawn, typed into or killed
\* twice.
PaneInOnePlace ==
    /\ \A i \in DOMAIN windows : IsInjective(PaneIds(windows[i].root))
    /\ \A i, j \in DOMAIN windows :
        i # j => PanesIn(windows[i].root) \cap PanesIn(windows[j].root) = {}

\* Whatever removes a pane from the trees (kill, a refused graft, a window that
\* is closed) ends its process first: a shell that runs can be reached.
NoOrphanShell == \A p \in Panes : proc[p] = "running" => up /\ p \in AllPanes(windows)

\* The focus of a window is on a pane, so that keys are written somewhere,
\* unless one of the handlers that lose it (select-pane last, last-pane,
\* rotate, join, a detached split) has put it off the panes since it was last
\* set: kills, prunes, layouts and restored focuses never do.
FocusIsAPane == up => Wandering(windows) \subseteq astray

\* A command with a target acts on that pane: when it is handled the pane has
\* the focus, or has ended (server/mod.rs 931, 1232).
TargetedCommandsHit ==
    \A p \in Panes :
        up /\ pending # <<>> /\ Head(pending).target = p /\ p \in AllPanes(windows)
            => ActivePane(Win.root, Win.active) = p

\* While the server goes on, a request ends only the shells it names: the pane
\* with the focus, the named one, those of the window; nothing else does.  Where
\* a handler works at the focus of a window (kill-pane, split, break, both of
\* join-pane's), that window must not be astray.
Named(r) ==
    CASE r.op = "KillPaneById" -> {r.arg}
      [] r.op = "KillPane" -> {ActivePane(Win.root, Win.active)}
      [] r.op \in {"KillWindow", "UnlinkWindow"} -> PanesIn(Win.root)
      [] OTHER -> {}
WorkedAt(r) ==
    CASE r.op \in {"KillPane", "SplitWindow", "BreakPane"} -> {Win.id}
      [] r.op = "JoinPane" -> {Win.id} \cup {windows[i].id : i \in {r.arg} \cap DOMAIN windows}
      [] OTHER -> {}
OnlyTheNamedAreKilled ==
    [][Len(pending') < Len(pending) /\ up' /\ astray \cap WorkedAt(Head(pending)) = {} =>
           \A p \in Panes : proc[p] = "running" /\ proc'[p] = "gone"
                                => p \in Named(Head(pending))]_vars

=============================================================================
