-------------------------- MODULE DesktopRuntimeProofs -------------------------
(***************************************************************************)
(* No shell of the desktop is forgotten, what shells write is shown, one   *)
(* microphone is open and only the token in the file is accepted, for any  *)
(* number of panes, threads, shells, captures, applications and clients.   *)
(***************************************************************************)
EXTENDS DesktopRuntime, TLAPS

-----------------------------------------------------------------------------
(* The panes.  A command holds a shell in its hands at two steps only:     *)
(* before it puts the shell it made into a pane, and before it stops the   *)
(* one it replaced.                                                        *)

CallSteps == {"idle", "check", "make", "put", "stop_old", "start"}

Calls == [op : Ops \union {"none"}, pane : Panes, at : CallSteps,
          made : 0 .. MaxShells, old : 0 .. MaxShells]

(* The types of what the panes' commands and the shutdown touch.           *)
PanesTyped ==
    /\ panes \in [Panes -> 0 .. MaxShells]
    /\ next_generation \in Nat \ {0}
    /\ shell \in [Gens -> {"none", "running", "exited", "killed"}]
    /\ call \in [Callers -> Calls]
    /\ to_stop \subseteq Gens

(* A generation is given once, so that a shell about to be made is not     *)
(* there yet and no other command makes it (next_generation.fetch_add).    *)
MadeOnce ==
    /\ \A c \in Callers : call[c].at = "make" =>
          call[c].made \in Gens /\ call[c].made < next_generation
                                /\ shell[call[c].made] = "none"
    /\ \A g \in Gens : g >= next_generation => shell[g] = "none"
    /\ \A c, d \in Callers :
          call[c].at = "make" /\ call[d].at = "make" /\ call[c].made = call[d].made => c = d

(* Where a shell that runs is found.                                       *)
Found(g) ==
    \/ \E p \in Panes : panes[p] = g
    \/ \E c \in Callers : call[c].at = "put" /\ call[c].made = g
    \/ \E c \in Callers : call[c].at = "stop_old" /\ call[c].old = g
    \/ g \in to_stop

RunningAreFound == \A g \in Gens : shell[g] = "running" => Found(g)

(* The shutdown begins by taking the application out of its running state, *)
(* so that it begins once.                                                 *)
BeginsOnce ==
    /\ life \in [Apps -> {"off", "running", "stopping", "exiting", "gone"}]
    /\ shutdown # "none" => life[Desk] \notin {"off", "running"}

PanesInv ==
    /\ PanesTyped
    /\ MadeOnce
    /\ RunningAreFound
    /\ shutdown # "drain" => to_stop = {}

LEMMA PanesInit == Init => PanesInv
<1> SUFFICES ASSUME Init PROVE PanesInv
  OBVIOUS
<1>1. call \in {[c \in Callers |-> IdleCall(p)] : p \in Panes}
  BY DEF Init, PaneInit
<1>2. \A p \in Panes : IdleCall(p) \in Calls /\ IdleCall(p).at = "idle"
  BY PanesAssumption DEF IdleCall, Calls, CallSteps
<1>a. PICK p \in Panes : call = [c \in Callers |-> IdleCall(p)]
  BY <1>1
<1>b. call \in [Callers -> Calls] /\ \A c \in Callers : call[c].at = "idle"
  BY <1>2, <1>a
<1>3. PanesTyped
  BY <1>b, PanesAssumption DEF Init, PaneInit, PanesTyped, Gens
<1>4. MadeOnce
  BY <1>b DEF Init, PaneInit, MadeOnce
<1>5. RunningAreFound
  BY DEF Init, PaneInit, RunningAreFound
<1> QED
  BY <1>3, <1>4, <1>5 DEF PanesInv, Init

(* What the two ways to move on do to a command.                           *)
LEMMA CallGoesOn ==
    ASSUME PanesTyped, NEW c \in Callers, NEW step \in CallSteps, CallTo(c, step)
    PROVE  /\ call' \in [Callers -> Calls]
           /\ \A d \in Callers : d # c => call'[d] = call[d]
           /\ call'[c].at = step
           /\ call'[c].made = call[c].made /\ call'[c].old = call[c].old
<1>1. call[c] \in Calls
  BY DEF PanesTyped
<1>2. call' = [call EXCEPT ![c] = [call[c] EXCEPT !.at = step]]
  BY DEF CallTo
<1>3. [call[c] EXCEPT !.at = step] \in Calls
  BY <1>1 DEF Calls
<1> QED
  BY <1>1, <1>2, <1>3 DEF PanesTyped, Calls

LEMMA CallIsOver ==
    ASSUME PanesTyped, NEW c \in Callers, CallEnds(c)
    PROVE  /\ call' \in [Callers -> Calls]
           /\ \A d \in Callers : d # c => call'[d] = call[d]
           /\ call'[c].at = "idle"
<1>1. call[c].pane \in Panes
  BY DEF PanesTyped, Calls
<1>2. IdleCall(call[c].pane) \in Calls
  BY <1>1, PanesAssumption DEF IdleCall, Calls, CallSteps
<1> QED
  BY <1>1, <1>2 DEF CallEnds, PanesTyped, IdleCall

(* A command that ends where it held no running shell.                     *)
LEMMA EndKeepsPanes ==
    ASSUME PanesInv, NEW c \in Callers, CallEnds(c), call[c].at \notin {"put", "stop_old"},
           UNCHANGED <<paneRows, shutdown, to_stop>>
    PROVE  PanesInv'
<1>1. PanesTyped /\ MadeOnce /\ RunningAreFound
  BY DEF PanesInv
<1>2. /\ call' \in [Callers -> Calls]
      /\ \A d \in Callers : d # c => call'[d] = call[d]
      /\ call'[c].at = "idle"
  BY <1>1, CallIsOver
<1>3. PanesTyped'
  BY <1>1, <1>2 DEF PanesTyped, paneRows
<1>4. MadeOnce'
  BY <1>1, <1>2 DEF MadeOnce, paneRows
<1>5. RunningAreFound'
  BY <1>1, <1>2 DEF RunningAreFound, Found, paneRows
<1> QED
  BY <1>3, <1>4, <1>5 DEF PanesInv

(* A shell that is stopped runs no more, and no other shell starts.        *)
LEMMA StopsOne ==
    ASSUME PanesTyped, NEW g, Stopped(g)
    PROVE  /\ shell' \in [Gens -> {"none", "running", "exited", "killed"}]
           /\ \A h \in Gens : shell'[h] = "running" => shell[h] = "running" /\ h # g
           /\ \A h \in Gens : shell[h] = "none" => shell'[h] = "none"
<1>1. \A h \in Gens : shell'[h] = IF h = g /\ shell[g] = "running" THEN "killed" ELSE shell[h]
  BY DEF PanesTyped, Stopped
<1> DEFINE after == IF shell[g] = "running" THEN "killed" ELSE shell[g]
<1>2. shell' = [shell EXCEPT ![g] = after]
  BY DEF Stopped
<1>3. g \in Gens => after \in {"none", "running", "exited", "killed"}
  BY DEF PanesTyped
<1> HIDE DEF after
<1>4. shell' \in [Gens -> {"none", "running", "exited", "killed"}]
  BY <1>2, <1>3 DEF PanesTyped
<1> QED
  BY <1>1, <1>4

(* The steps of a command, each without the shutdown.                      *)
LEMMA CommandKeepsPanes ==
    ASSUME PanesInv, NEW c \in Callers, PaneCommand(c), UNCHANGED <<shutdown, to_stop>>
    PROVE  PanesInv'
<1>0. /\ PanesTyped /\ MadeOnce /\ RunningAreFound
      /\ call[c] \in Calls
  BY DEF PanesInv, PanesTyped
<1>1. CASE Refused(c)
  BY <1>1, EndKeepsPanes DEF Refused
<1>2. CASE Admitted(c)
  <2> DEFINE new == [call[c] EXCEPT !.at = "make", !.made = next_generation]
  <2>1. next_generation \in Gens /\ next_generation \in 0 .. MaxShells
    BY <1>0, <1>2, PanesAssumption DEF Admitted, PanesTyped, Gens
  <2>2. call' = [call EXCEPT ![c] = new] /\ next_generation' = next_generation + 1
        /\ UNCHANGED <<panes, shell>>
    BY <1>2 DEF Admitted
  <2>3. new \in Calls /\ new.at = "make" /\ new.made = next_generation
    BY <1>0, <2>1 DEF Calls, CallSteps
  <2> HIDE DEF new
  <2>4. call' \in [Callers -> Calls] /\ call'[c] = new
        /\ \A d \in Callers : d # c => call'[d] = call[d]
    BY <1>0, <2>2, <2>3 DEF PanesTyped
  <2>5. PanesTyped'
    BY <1>0, <2>2, <2>4 DEF PanesTyped
  <2>6. MadeOnce'
    <3>1. \A d \in Callers : call'[d].at = "make" =>
              call'[d].made \in Gens /\ call'[d].made < next_generation'
                                     /\ shell'[call'[d].made] = "none"
      BY <1>0, <2>1, <2>2, <2>3, <2>4 DEF PanesTyped, MadeOnce, Gens
    <3>2. \A g \in Gens : g >= next_generation' => shell'[g] = "none"
      BY <1>0, <2>1, <2>2, PanesAssumption DEF PanesTyped, MadeOnce, Gens
    <3>3. \A d, e \in Callers : call'[d].at = "make" /\ call'[e].at = "make"
                                 /\ call'[d].made = call'[e].made => d = e
      <4>1. \A d \in Callers : call[d].at = "make" => call[d].made # next_generation
        BY <1>0, <2>1, PanesAssumption DEF PanesTyped, MadeOnce, Gens
      <4> QED
        BY <1>0, <2>3, <2>4, <4>1 DEF MadeOnce
    <3> QED
      BY <3>1, <3>2, <3>3 DEF MadeOnce
  <2>7. call[c].at = "check"
    BY <1>2 DEF Admitted
  <2>8. RunningAreFound'
    BY <1>0, <2>2, <2>4, <2>7 DEF RunningAreFound, Found
  <2> QED
    BY <2>5, <2>6, <2>8 DEF PanesInv
<1>3. CASE Make(c)
  <2> DEFINE made == call[c].made
  <2>1. /\ call[c].at = "make" /\ made \in Gens /\ made < next_generation
        /\ shell' = [shell EXCEPT ![made] = "running"]
        /\ UNCHANGED <<panes, next_generation>>
    BY <1>0, <1>3 DEF Make, MadeOnce
  <2>2. /\ call' \in [Callers -> Calls]
        /\ \A d \in Callers : d # c => call'[d] = call[d]
        /\ call'[c].at = "put" /\ call'[c].made = made
    BY <1>0, <1>3, CallGoesOn DEF Make, CallSteps
  <2> HIDE DEF made
  <2>3. PanesTyped'
    BY <1>0, <2>1, <2>2 DEF PanesTyped
  <2>4. \A g \in Gens : g # made => shell'[g] = shell[g]
    BY <1>0, <2>1 DEF PanesTyped
  <2>5. MadeOnce'
    <3>1. \A d \in Callers : call[d].at = "make" /\ d # c => call[d].made # made
      BY <1>0, <2>1 DEF MadeOnce, made
    <3>2. \A g \in Gens : g >= next_generation => g # made
      BY <1>0, <2>1, PanesAssumption DEF PanesTyped, Gens
    <3> QED
      BY <1>0, <2>1, <2>2, <2>4, <3>1, <3>2 DEF MadeOnce
  <2>6. RunningAreFound'
    BY <1>0, <2>1, <2>2, <2>4 DEF RunningAreFound, Found
  <2> QED
    BY <2>3, <2>5, <2>6 DEF PanesInv
<1>4. CASE MakeFails(c)
  BY <1>4, EndKeepsPanes DEF MakeFails
<1>5. CASE PutRefused(c)
  <2>1. Stopped(call[c].made) /\ UNCHANGED <<panes, next_generation>> /\ call[c].at = "put"
    BY <1>5 DEF PutRefused
  <2>2. /\ call' \in [Callers -> Calls]
        /\ \A d \in Callers : d # c => call'[d] = call[d]
        /\ call'[c].at = "idle"
    BY <1>0, <1>5, CallIsOver DEF PutRefused
  <2> QED
    BY <1>0, <2>1, <2>2, StopsOne DEF PanesInv, PanesTyped, MadeOnce, RunningAreFound, Found
<1>6. CASE Put(c)
  <2> DEFINE before == panes[call[c].pane]
  <2>1. /\ call[c].at = "put" /\ UNCHANGED <<next_generation, shell>>
        /\ panes' = [panes EXCEPT ![call[c].pane] = call[c].made]
        /\ call[c].pane \in Panes /\ call[c].made \in 0 .. MaxShells
        /\ before \in 0 .. MaxShells
    BY <1>0, <1>6 DEF Put, PanesTyped, Calls
  <2>2. /\ call' \in [Callers -> Calls]
        /\ \A d \in Callers : d # c => call'[d] = call[d]
        /\ \/ call'[c].at = "start" /\ before = 0
           \/ call'[c].at = "stop_old" /\ call'[c].old = before
    <3>1. CASE call[c].op = "respawn"
      <4> DEFINE new == [call[c] EXCEPT !.at = "stop_old", !.old = before]
      <4>1. call' = [call EXCEPT ![c] = new]
        BY <1>6, <3>1 DEF Put
      <4>2. new \in Calls /\ new.at = "stop_old" /\ new.old = before
        BY <1>0, <2>1 DEF Calls, CallSteps
      <4> HIDE DEF new
      <4> QED
        BY <1>0, <4>1, <4>2 DEF PanesTyped
    <3>2. CASE call[c].op # "respawn"
      BY <1>0, <1>6, <3>2, CallGoesOn DEF Put, Taken, CallSteps
    <3> QED
      BY <3>1, <3>2
  <2>3. PanesTyped' /\ MadeOnce'
    BY <1>0, <2>1, <2>2 DEF PanesTyped, MadeOnce
  <2>4. \A p \in Panes : panes'[p] = IF p = call[c].pane THEN call[c].made ELSE panes[p]
    BY <1>0, <2>1 DEF PanesTyped
  <2>5. RunningAreFound'
    <3> SUFFICES ASSUME NEW g \in Gens, shell[g] = "running" PROVE Found(g)'
      BY <2>1 DEF RunningAreFound
    <3>1. CASE \E p \in Panes : panes[p] = g
      <4>1. PICK p \in Panes : panes[p] = g
        BY <3>1
      <4>2. g # 0
        BY PanesAssumption DEF Gens
      <4> QED
        BY <2>2, <2>4, <4>1, <4>2 DEF Found
    <3>2. CASE g = call[c].made
      BY <2>1, <2>4, <3>2 DEF Found
    <3> QED
      BY <1>0, <2>1, <2>2, <3>1, <3>2 DEF RunningAreFound, Found
  <2> QED
    BY <2>3, <2>5 DEF PanesInv
<1>7. CASE StopOld(c)
  <2>1. Stopped(call[c].old) /\ UNCHANGED <<panes, next_generation>> /\ call[c].at = "stop_old"
    BY <1>7 DEF StopOld
  <2>2. /\ call' \in [Callers -> Calls]
        /\ \A d \in Callers : d # c => call'[d] = call[d]
        /\ call'[c].at = "start"
    BY <1>0, <1>7, CallGoesOn DEF StopOld, CallSteps
  <2> QED
    BY <1>0, <2>1, <2>2, StopsOne DEF PanesInv, PanesTyped, MadeOnce, RunningAreFound, Found
<1>8. CASE StartReader(c)
  BY <1>8, EndKeepsPanes DEF StartReader
<1>9. CASE Close(c)
  <2>1. /\ Stopped(panes[call[c].pane]) /\ UNCHANGED next_generation /\ call[c].at = "check"
        /\ panes' = [panes EXCEPT ![call[c].pane] = 0]
    BY <1>9 DEF Close
  <2>2. /\ call' \in [Callers -> Calls]
        /\ \A d \in Callers : d # c => call'[d] = call[d]
        /\ call'[c].at = "idle"
    BY <1>0, <1>9, CallIsOver DEF Close
  <2>3. /\ panes' \in [Panes -> 0 .. MaxShells]
        /\ \A p \in Panes : panes'[p] = IF p = call[c].pane THEN 0 ELSE panes[p]
    <3>1. 0 \in 0 .. MaxShells
      BY PanesAssumption
    <3> QED
      BY <1>0, <2>1, <3>1 DEF PanesTyped
  <2> QED
    BY <1>0, <2>1, <2>2, <2>3, StopsOne
    DEF PanesInv, PanesTyped, MadeOnce, RunningAreFound, Found
<1> QED
  BY <1>1, <1>2, <1>3, <1>4, <1>5, <1>6, <1>7, <1>8, <1>9 DEF PaneCommand

LEMMA BeginsInit == Init => BeginsOnce
  BY DEF Init, PipeInit, BeginsOnce

LEMMA BeginsStep == BeginsOnce /\ [Next]_vars => BeginsOnce'
<1> SUFFICES ASSUME BeginsOnce, [Next]_vars PROVE BeginsOnce'
  OBVIOUS
<1>1. CASE UNCHANGED <<life, shutdown>>
  BY <1>1 DEF BeginsOnce
<1>2. CASE UsesPanes \/ UsesMicrophone
  BY <1>1, <1>2 DEF UsesPanes, UsesMicrophone, pipeVars, shutdownVars
<1>3. CASE UsesPipe
  <2>1. UNCHANGED shutdown
    BY <1>3 DEF UsesPipe, shutdownVars
  <2>2. ASSUME NEW a \in Apps, Launch(a) PROVE BeginsOnce'
    BY <2>1, <2>2 DEF Launch, BeginsOnce
  <2>3. ASSUME NEW a \in Apps, PipeServer(a) \/ GraceEnds(a) PROVE UNCHANGED life
    BY <2>3 DEF PipeServer, GraceEnds, CreatePipe, CreateFails, ReadPrevious, WriteToken,
                WriteTokenFails, PublishToken, ServeFails, Resume, Serve, Connect
  <2>4. ASSUME NEW c \in Clients, ReadToken(c) PROVE UNCHANGED life
    BY <2>4 DEF ReadToken
  <2> QED
    BY <1>1, <1>3, <2>1, <2>2, <2>3, <2>4 DEF UsesPipe
<1>4. ASSUME NEW a \in Apps, RequestShutdown(a) PROVE BeginsOnce'
  BY <1>4, RuntimeAssumption DEF RequestShutdown, Shutdown, BeginsOnce
<1>5. ASSUME NEW a \in Apps, RevokeToken(a) \/ ProcessEnds(a) PROVE BeginsOnce'
  BY <1>5, RuntimeAssumption
  DEF RevokeToken, ProcessEnds, Revoke, Dies, BeginsOnce, shutdownVars
<1>6. CASE StopCapture \/ CaptureStopped \/ CaptureAbandoned \/ DrainPanes \/ Drained
           \/ \E g \in Gens : DrainOne(g)
  <2>1. shutdown # "none" /\ UNCHANGED life
    BY <1>6 DEF StopCapture, CaptureStopped, CaptureAbandoned, DrainPanes, Drained, DrainOne,
                pipeVars
  <2> QED
    BY <2>1 DEF BeginsOnce
<1>7. CASE UNCHANGED vars
  BY <1>1, <1>7 DEF vars, pipeVars, shutdownVars
<1> QED
  BY <1>2, <1>3, <1>4, <1>5, <1>6, <1>7 DEF Next

(* Every step of the application.                                          *)
LEMMA PanesStep == PanesInv /\ BeginsOnce /\ [Next]_vars => PanesInv'
<1> SUFFICES ASSUME PanesInv, BeginsOnce, [Next]_vars PROVE PanesInv'
  OBVIOUS
<1>0. PanesTyped /\ MadeOnce /\ RunningAreFound
  BY DEF PanesInv
<1>1. CASE UNCHANGED <<panes, next_generation, shell, call, to_stop>>
           /\ (shutdown = "drain" /\ shutdown' # "drain" => to_stop = {})
  <2>1. PanesTyped' /\ MadeOnce'
    BY <1>0, <1>1 DEF PanesTyped, MadeOnce
  <2>2. RunningAreFound'
    BY <1>0, <1>1 DEF RunningAreFound, Found
  <2>3. shutdown' # "drain" => to_stop' = {}
    <3>1. shutdown # "drain" => to_stop = {}
      BY DEF PanesInv
    <3>2. CASE shutdown = "drain"
      BY <1>1, <3>2
    <3> QED
      BY <1>1, <3>1, <3>2
  <2> QED
    BY <2>1, <2>2, <2>3 DEF PanesInv
<1>2. CASE UsesPanes
  <2>1. ASSUME NEW c \in Callers, NEW op \in Ops, NEW p \in Panes, Ask(c, op, p)
        PROVE  PanesInv'
    <3>1. [op |-> op, pane |-> p, at |-> "check", made |-> 0, old |-> 0] \in Calls
      BY PanesAssumption DEF Calls, CallSteps
    <3>2. /\ call' \in [Callers -> Calls]
          /\ \A d \in Callers : d # c => call'[d] = call[d]
          /\ call'[c].at = "check" /\ call[c].at = "idle"
      BY <1>0, <2>1, <3>1 DEF Ask, PanesTyped
    <3>3. UNCHANGED <<panes, next_generation, shell, shutdown, to_stop>>
      BY <1>2, <2>1 DEF Ask, paneRows, UsesPanes, shutdownVars
    <3> QED
      BY <1>0, <3>2, <3>3 DEF PanesInv, PanesTyped, MadeOnce, RunningAreFound, Found
  <2>2. ASSUME NEW c \in Callers, PaneCommand(c) PROVE PanesInv'
    BY <1>2, <2>2, CommandKeepsPanes DEF UsesPanes, shutdownVars
  <2>3. ASSUME NEW g \in Followed, PaneThreads(g) PROVE PanesInv'
    <3>1. CASE ShellExits(g)
      <4>1. /\ shell' \in [Gens -> {"none", "running", "exited", "killed"}]
            /\ \A h \in Gens : shell'[h] = "running" => shell[h] = "running"
            /\ \A h \in Gens : shell[h] = "none" => shell'[h] = "none"
        BY <1>0, <3>1 DEF ShellExits, PanesTyped
      <4>2. UNCHANGED <<panes, next_generation, call, shutdown, to_stop>>
        BY <1>2, <3>1 DEF ShellExits, UsesPanes, shutdownVars
      <4> QED
        BY <1>0, <4>1, <4>2 DEF PanesInv, PanesTyped, MadeOnce, RunningAreFound, Found
    <3>2. CASE ~ShellExits(g)
      BY <1>1, <1>2, <2>3, <3>2
      DEF UsesPanes, shutdownVars, PaneThreads, ReaderChecks, ReaderEnds, ReaderSends,
          ReaderLeaves, FlusherChecks, FlusherReceives, FlusherTimesOut, FlusherDisconnected,
          FlushCheck, Emit, FlusherLeaves, ReaderReads, paneRows
    <3> QED
      BY <3>1, <3>2
  <2> QED
    BY <1>2, <2>1, <2>2, <2>3 DEF UsesPanes
<1>3. CASE UsesMicrophone \/ UsesPipe
  BY <1>1, <1>3 DEF UsesMicrophone, UsesPipe, paneVars, paneRows, shutdownVars
<1>4. ASSUME NEW a \in Apps, RequestShutdown(a) \/ RevokeToken(a) \/ ProcessEnds(a)
      PROVE  PanesInv'
  <2>1. RequestShutdown(a) => shutdown' = shutdown \/ shutdown = "none"
    BY DEF RequestShutdown, Shutdown, BeginsOnce
  <2> QED
    BY <1>1, <1>4, <2>1
    DEF RequestShutdown, RevokeToken, ProcessEnds, paneVars, paneRows, shutdownVars, PanesInv
<1>5. CASE StopCapture \/ CaptureStopped \/ CaptureAbandoned \/ Drained
  BY <1>1, <1>5 DEF StopCapture, CaptureStopped, CaptureAbandoned, Drained, paneVars, paneRows
<1>6. CASE DrainPanes
  <2>1. /\ UNCHANGED <<next_generation, shell, call>> /\ shutdown' = "drain" /\ to_stop = {}
        /\ to_stop' = {panes[p] : p \in Panes} \ {0}
        /\ panes' = [p \in Panes |-> 0]
    BY <1>6 DEF DrainPanes, PanesInv
  <2>2. PanesTyped'
    BY <1>0, <2>1, PanesAssumption DEF PanesTyped, Gens
  <2>3. MadeOnce'
    BY <1>0, <2>1 DEF MadeOnce
  <2>4. RunningAreFound'
    BY <1>0, <2>1, PanesAssumption DEF RunningAreFound, Found, Gens
  <2> QED
    BY <2>1, <2>2, <2>3, <2>4 DEF PanesInv
<1>7. ASSUME NEW g \in Gens, DrainOne(g) PROVE PanesInv'
  <2>1. /\ UNCHANGED <<panes, next_generation, call, shutdown>> /\ shutdown = "drain"
        /\ Stopped(g) /\ to_stop' = to_stop \ {g}
    BY <1>7 DEF DrainOne
  <2> QED
    BY <1>0, <2>1, StopsOne DEF PanesInv, PanesTyped, MadeOnce, RunningAreFound, Found
<1>8. CASE UNCHANGED vars
  BY <1>1, <1>8 DEF vars, paneVars, paneRows, shutdownVars
<1> QED
  BY <1>2, <1>3, <1>4, <1>5, <1>6, <1>7, <1>8 DEF Next

LEMMA RunningAreAccountedFor == PanesInv => NoShellIsForgotten
  BY DEF PanesInv, RunningAreFound, Found, NoShellIsForgotten, ShellsAreAccountedFor, InHand

(* No shell is forgotten while commands, threads and the shutdown get in   *)
(* each other's way (spawn_pty, respawn_pty, close_pty, drain_all_ptys).   *)
THEOREM ShellsAreKept == Spec => []NoShellIsForgotten
<1>1. Init => PanesInv /\ BeginsOnce
  BY PanesInit, BeginsInit
<1>2. PanesInv /\ BeginsOnce /\ [Next]_vars => PanesInv' /\ BeginsOnce'
  BY PanesStep, BeginsStep
<1>3. PanesInv => NoShellIsForgotten
  BY RunningAreAccountedFor
<1> QED
  BY <1>1, <1>2, <1>3, PTL DEF Spec

-----------------------------------------------------------------------------
(* The output of the panes' shells.                                        *)

Pieces == SUBSET Nat

OutputTyped ==
    /\ reader \in [Gens -> {"off", "check", "read", "send", "send_last", "leave", "done"}]
    /\ flusher \in [Gens -> {"off", "check", "wait", "flush", "emit", "emit_last", "leave",
                             "done"}]
    /\ read \in [Gens -> Nat]
    /\ pending_utf8 \in [Gens -> Pieces] /\ sending \in [Gens -> Pieces]
    /\ queue \in [Gens -> Seq(Pieces)]
    /\ batch \in [Gens -> Pieces] /\ shown \in [Gens -> Pieces]

(* A command starts the threads of the shell it made, and nobody else      *)
(* makes that shell: the threads of a shell are started once, after it was *)
(* put into its pane.                                                      *)
Making == {"make", "put", "stop_old", "start"}

StartsOnce ==
    /\ \A c \in Callers : call[c].at \in Making =>
          call[c].made \in Gens /\ call[c].made < next_generation
                                /\ reader[call[c].made] = "off"
    /\ \A c, d \in Callers :
          call[c].at \in Making /\ call[d].at \in Making /\ call[c].made = call[d].made
              => c = d
    /\ \A g \in Gens : g >= next_generation => reader[g] = "off"

Unread(g) ==
    reader[g] = "off" =>
        /\ flusher[g] = "off" /\ read[g] = 0 /\ queue[g] = <<>>
        /\ pending_utf8[g] = {} /\ sending[g] = {} /\ batch[g] = {} /\ shown[g] = {}

(* Where characters are, all of them were read.                            *)
Numbered(g) ==
    shown[g] \union batch[g] \union Queued(g) \union sending[g] \union pending_utf8[g]
        \subseteq 1 .. read[g]

(* While a shell is its pane's, the flusher leaves after the reader only,  *)
(* and neither leaves anything behind.                                     *)
Kept(g) ==
    Current(g) /\ reader[g] # "off" =>
        /\ 1 .. read[g] \subseteq shown[g] \union batch[g] \union Queued(g)
                                  \union sending[g] \union pending_utf8[g]
        /\ flusher[g] \in {"leave", "emit_last", "done"} =>
              reader[g] = "done" /\ queue[g] = <<>>
        /\ flusher[g] = "done" => batch[g] = {}
        /\ reader[g] \in {"check", "read", "leave", "done"} => sending[g] = {}
        /\ reader[g] \in {"send_last", "done"} => pending_utf8[g] = {}

Flows(g) == Unread(g) /\ Numbered(g) /\ InOrder(g) /\ Kept(g)

OutputInv == OutputTyped /\ StartsOnce /\ \A g \in Gens : Flows(g)

LEMMA OutputInit == Init => OutputInv
<1> SUFFICES ASSUME Init PROVE OutputInv
  OBVIOUS
<1>1. PanesInv
  BY PanesInit
<1>2. OutputTyped
  BY DEF Init, PaneInit, OutputTyped, Pieces
<1>3. \A c \in Callers : call[c].at = "idle"
  BY DEF Init, PaneInit, IdleCall
<1>4. StartsOnce
  BY <1>3 DEF Init, PaneInit, StartsOnce, Making
<1>5. ASSUME NEW g \in Gens PROVE Flows(g)
  <2>1. /\ reader[g] = "off" /\ flusher[g] = "off" /\ read[g] = 0 /\ queue[g] = <<>>
        /\ pending_utf8[g] = {} /\ sending[g] = {} /\ batch[g] = {} /\ shown[g] = {}
    BY DEF Init, PaneInit
  <2>2. Queued(g) = {}
    BY <2>1 DEF Queued
  <2> QED
    BY <2>1, <2>2 DEF Flows, Unread, Numbered, InOrder, Precedes, Kept
<1> QED
  BY <1>2, <1>4, <1>5 DEF OutputInv

(* What the threads of a shell hold of its output.                         *)
Work(g) == <<reader[g], flusher[g], read[g], pending_utf8[g], sending[g], queue[g], batch[g],
             shown[g]>>

(* Of a shell whose threads do not move nothing is lost, if it does not    *)
(* become its pane's anew.                                                 *)
LEMMA OthersFlow ==
    ASSUME NEW g \in Gens, Flows(g), UNCHANGED Work(g),
           reader[g] # "off" /\ Current(g)' => Current(g)
    PROVE  Flows(g)'
<1>1. /\ reader'[g] = reader[g] /\ flusher'[g] = flusher[g] /\ read'[g] = read[g]
      /\ pending_utf8'[g] = pending_utf8[g] /\ sending'[g] = sending[g]
      /\ queue'[g] = queue[g] /\ batch'[g] = batch[g] /\ shown'[g] = shown[g]
  BY DEF Work
<1>2. Queued(g)' = Queued(g)
  BY <1>1 DEF Queued
<1>3. Unread(g)' /\ Numbered(g)'
  BY <1>1, <1>2 DEF Flows, Unread, Numbered
<1>4. InOrder(g)'
  BY <1>1, <1>2 DEF Flows, InOrder, Precedes
<1>5. Kept(g)'
  BY <1>1, <1>2 DEF Flows, Kept
<1> QED
  BY <1>3, <1>4, <1>5 DEF Flows

(* The threads of a shell start with nothing.                              *)
LEMMA StartFlows ==
    ASSUME NEW g \in Gens, Flows(g), reader[g] = "off", reader'[g] = "check",
           flusher'[g] = "check", UNCHANGED <<read, pending_utf8, sending, queue, batch, shown>>
    PROVE  Flows(g)'
<1>1. /\ read'[g] = 0 /\ queue'[g] = <<>> /\ pending_utf8'[g] = {} /\ sending'[g] = {}
      /\ batch'[g] = {} /\ shown'[g] = {}
  BY DEF Flows, Unread
<1>2. Queued(g)' = {}
  BY <1>1 DEF Queued
<1> QED
  BY <1>1, <1>2 DEF Flows, Unread, Numbered, InOrder, Precedes, Kept

(* A piece more at the end of the queue, and one less at its front.        *)
LEMMA QueueGrows ==
    ASSUME NEW q \in Seq(Pieces), NEW e \in Pieces
    PROVE  /\ Append(q, e) \in Seq(Pieces) /\ Len(q) \in Nat
           /\ DOMAIN q = 1 .. Len(q) /\ DOMAIN Append(q, e) = 1 .. (Len(q) + 1)
           /\ \A i \in 1 .. Len(q) : Append(q, e)[i] = q[i]
           /\ Append(q, e)[Len(q) + 1] = e
  OBVIOUS

LEMMA QueueShrinks ==
    ASSUME NEW q \in Seq(Pieces), q # <<>>
    PROVE  /\ Tail(q) \in Seq(Pieces) /\ Len(q) \in Nat \ {0} /\ Head(q) = q[1]
           /\ DOMAIN q = 1 .. Len(q) /\ DOMAIN Tail(q) = 1 .. (Len(q) - 1)
           /\ \A i \in 1 .. (Len(q) - 1) : Tail(q)[i] = q[i + 1]
           /\ Head(q) \in Pieces
  OBVIOUS

(* The steps of the two threads that move output.                          *)
LEMMA ReadFlows ==
    ASSUME OutputTyped, NEW g \in Gens, Flows(g), NEW cut \in BOOLEAN, ReaderReads(g, cut)
    PROVE  Flows(g)' /\ OutputTyped'
<1> DEFINE last == read[g] + 1
           left == IF cut THEN {last} ELSE {}
           whole == (pending_utf8[g] \union {last}) \ left
           next == IF whole = {} THEN "check" ELSE "send"
<1>1. /\ reader[g] = "read" /\ reader' = [reader EXCEPT ![g] = next]
      /\ read' = [read EXCEPT ![g] = last]
      /\ pending_utf8' = [pending_utf8 EXCEPT ![g] = left]
      /\ sending' = [sending EXCEPT ![g] = whole]
      /\ UNCHANGED <<flusher, batch, shown, queue, panes, alive>>
  BY DEF ReaderReads, ReaderTo, flushers, paneRows
<1>2. /\ read[g] \in Nat /\ last \in Nat /\ pending_utf8[g] \in Pieces /\ left \in Pieces
      /\ whole \in Pieces
  BY DEF OutputTyped, Pieces
<1>3. OutputTyped'
  BY <1>1, <1>2 DEF OutputTyped
<1>4. /\ reader'[g] = next /\ read'[g] = last /\ pending_utf8'[g] = left
      /\ sending'[g] = whole /\ flusher'[g] = flusher[g] /\ queue'[g] = queue[g]
      /\ batch'[g] = batch[g] /\ shown'[g] = shown[g]
  BY <1>1 DEF OutputTyped
<1>5. Queued(g)' = Queued(g) /\ (Current(g)' <=> Current(g))
  BY <1>1, <1>4 DEF Queued, Current
<1>6. /\ left \subseteq {last} /\ whole \subseteq pending_utf8[g] \union {last}
      /\ whole \union left = pending_utf8[g] \union {last}
      /\ last \notin left \/ whole \subseteq pending_utf8[g]
      /\ next \in {"check", "send"} /\ (next = "check" => whole = {})
  OBVIOUS
<1> HIDE DEF last, left, whole, next
<1>7. /\ last = read[g] + 1 /\ \A n \in 1 .. read[g] : n < last
      /\ 1 .. read'[g] = (1 .. read[g]) \union {last}
  BY <1>2, <1>4 DEF last
<1>8. Numbered(g)'
  BY <1>4, <1>5, <1>6, <1>7 DEF Flows, Numbered
<1>9. InOrder(g)'
  <2>1. \A n \in shown[g] \union batch[g] \union Queued(g) \union pending_utf8[g] : n < last
    BY <1>7 DEF Flows, Numbered
  <2>2. \A n \in shown[g] \union batch[g] \union Queued(g) : \A m \in whole : n < m
    BY <1>6, <2>1 DEF Flows, InOrder, Precedes
  <2>3. \A n \in shown[g] \union batch[g] \union Queued(g) : \A m \in left : n < m
    BY <1>6, <2>1
  <2>4. \A n \in whole : \A m \in left : n < m
    BY <1>6, <2>1
  <2> QED
    BY <1>4, <1>5, <2>2, <2>3, <2>4 DEF Flows, InOrder, Precedes
<1>10. Kept(g)'
  BY <1>1, <1>4, <1>5, <1>6, <1>7 DEF Flows, Kept
<1>11. Unread(g)'
  BY <1>4, <1>6 DEF Unread
<1> QED
  BY <1>3, <1>8, <1>9, <1>10, <1>11 DEF Flows

LEMMA SendFlows ==
    ASSUME OutputTyped, NEW g \in Gens, Flows(g), ReaderSends(g)
    PROVE  Flows(g)' /\ OutputTyped'
<1>1. /\ sending[g] \in Pieces /\ queue[g] \in Seq(Pieces) /\ {} \in Pieces
      /\ reader[g] \in {"send", "send_last"}
      /\ sending' = [sending EXCEPT ![g] = {}]
      /\ UNCHANGED <<flusher, batch, shown, read, pending_utf8, panes, alive>>
  BY DEF ReaderSends, OutputTyped, Pieces, flushers, paneRows
<1>2. Current(g)' <=> Current(g)
  BY <1>1 DEF Current
<1>3. CASE flusher[g] = "done"
  <2>1. /\ queue' = queue
        /\ \E next \in {"leave", "done"} : reader' = [reader EXCEPT ![g] = next]
    BY <1>3 DEF ReaderSends, ReaderTo
  <2>2. OutputTyped'
    BY <1>1, <2>1 DEF OutputTyped
  <2>3. /\ sending'[g] = {} /\ reader'[g] \in {"leave", "done"} /\ Queued(g)' = Queued(g)
        /\ flusher'[g] = flusher[g] /\ queue'[g] = queue[g]
        /\ batch'[g] = batch[g] /\ shown'[g] = shown[g] /\ read'[g] = read[g]
        /\ pending_utf8'[g] = pending_utf8[g]
    BY <1>1, <2>1 DEF OutputTyped, Queued
  <2>4. ~Current(g)
    BY <1>1, <1>3 DEF Flows, Kept
  <2> QED
    BY <1>2, <2>2, <2>3, <2>4 DEF Flows, Unread, Numbered, InOrder, Precedes, Kept
<1>4. CASE flusher[g] # "done"
  <2> DEFINE next == IF reader[g] = "send" THEN "check" ELSE "done"
             q == Append(queue[g], sending[g])
  <2>1. queue' = [queue EXCEPT ![g] = q] /\ reader' = [reader EXCEPT ![g] = next]
    BY <1>4 DEF ReaderSends, ReaderTo
  <2>2. /\ q \in Seq(Pieces) /\ Len(queue[g]) \in Nat
        /\ DOMAIN queue[g] = 1 .. Len(queue[g]) /\ DOMAIN q = 1 .. (Len(queue[g]) + 1)
        /\ \A i \in 1 .. Len(queue[g]) : q[i] = queue[g][i]
        /\ q[Len(queue[g]) + 1] = sending[g]
    BY <1>1, QueueGrows
  <2>a. next \in {"check", "done"} /\ (next = "check" <=> reader[g] = "send")
    OBVIOUS
  <2> HIDE DEF next, q
  <2>3. OutputTyped'
    BY <1>1, <2>1, <2>2, <2>a DEF OutputTyped
  <2>4. /\ sending'[g] = {} /\ reader'[g] = next /\ queue'[g] = q
        /\ flusher'[g] = flusher[g] /\ batch'[g] = batch[g] /\ shown'[g] = shown[g]
        /\ read'[g] = read[g] /\ pending_utf8'[g] = pending_utf8[g]
    BY <1>1, <2>1 DEF OutputTyped
  <2>5. Queued(g)' = Queued(g) \union sending[g]
    <3>1. \A n : n \in UNION {q[i] : i \in DOMAIN q}
                 <=> n \in UNION {queue[g][i] : i \in DOMAIN queue[g]} \/ n \in sending[g]
      <4>1. ASSUME NEW i \in DOMAIN q
            PROVE  (i \in DOMAIN queue[g] /\ q[i] = queue[g][i]) \/ q[i] = sending[g]
        BY <2>2
      <4>2. ASSUME NEW i \in DOMAIN queue[g] PROVE i \in DOMAIN q /\ q[i] = queue[g][i]
        BY <2>2
      <4>3. Len(queue[g]) + 1 \in DOMAIN q /\ q[Len(queue[g]) + 1] = sending[g]
        BY <2>2
      <4> QED
        BY <4>1, <4>2, <4>3
    <3> QED
      BY <2>4, <3>1 DEF Queued
  <2>6. \A i, j \in DOMAIN q : i < j => Precedes(q[i], q[j])
    <3>1. \A i \in DOMAIN queue[g] : Precedes(queue[g][i], sending[g])
      BY DEF Flows, InOrder, Precedes, Queued
    <3>2. ASSUME NEW i \in DOMAIN q, NEW j \in DOMAIN q, i < j PROVE Precedes(q[i], q[j])
      <4>1. i \in DOMAIN queue[g] /\ q[i] = queue[g][i]
        BY <2>2, <3>2
      <4>2. CASE j \in DOMAIN queue[g]
        BY <2>2, <3>2, <4>1, <4>2 DEF Flows, InOrder
      <4>3. CASE j \notin DOMAIN queue[g]
        <5>1. q[j] = sending[g]
          BY <2>2, <4>3
        <5> QED
          BY <3>1, <4>1, <5>1
      <4> QED
        BY <4>2, <4>3
    <3> QED
      BY <3>2
  <2>7. InOrder(g)'
    BY <2>4, <2>5, <2>6 DEF Flows, InOrder, Precedes
  <2>8. Kept(g)'
    BY <1>1, <1>2, <1>4, <2>4, <2>5, <2>a DEF Flows, Kept
  <2>9. Unread(g)' /\ Numbered(g)'
    BY <2>4, <2>5, <2>a DEF Flows, Unread, Numbered
  <2> QED
    BY <2>3, <2>7, <2>8, <2>9 DEF Flows
<1> QED
  BY <1>3, <1>4

LEMMA ReceiveFlows ==
    ASSUME OutputTyped, NEW g \in Gens, Flows(g), FlusherReceives(g)
    PROVE  Flows(g)' /\ OutputTyped'
<1> DEFINE front == Head(queue[g])
           q == Tail(queue[g])
<1>1. /\ flusher[g] = "wait" /\ queue[g] # <<>>
      /\ batch' = [batch EXCEPT ![g] = batch[g] \union front]
      /\ queue' = [queue EXCEPT ![g] = q]
      /\ \E step \in {"check", "flush"} : flusher' = [flusher EXCEPT ![g] = step]
      /\ UNCHANGED <<reader, read, pending_utf8, sending, shown, panes, alive>>
  BY DEF FlusherReceives, FlusherTo, readers, paneRows
<1>2. /\ q \in Seq(Pieces) /\ Len(queue[g]) \in Nat \ {0} /\ front = queue[g][1]
      /\ DOMAIN queue[g] = 1 .. Len(queue[g]) /\ DOMAIN q = 1 .. (Len(queue[g]) - 1)
      /\ \A i \in 1 .. (Len(queue[g]) - 1) : q[i] = queue[g][i + 1]
      /\ front \in Pieces
  BY <1>1, QueueShrinks DEF OutputTyped
<1> HIDE DEF front, q
<1>3. batch[g] \union front \in Pieces
  BY <1>2 DEF OutputTyped, Pieces
<1>4. OutputTyped'
  BY <1>1, <1>2, <1>3 DEF OutputTyped
<1>5. /\ batch'[g] = batch[g] \union front /\ queue'[g] = q
      /\ flusher'[g] \in {"check", "flush"} /\ reader'[g] = reader[g] /\ read'[g] = read[g]
      /\ pending_utf8'[g] = pending_utf8[g] /\ sending'[g] = sending[g]
      /\ shown'[g] = shown[g]
  BY <1>1 DEF OutputTyped
<1>6. /\ Queued(g) = front \union Queued(g)'
      /\ Precedes(front, Queued(g)')
  <2>1. ASSUME NEW i \in DOMAIN q
        PROVE  i + 1 \in DOMAIN queue[g] /\ q[i] = queue[g][i + 1] /\ 1 < i + 1
    BY <1>2
  <2>2. ASSUME NEW i \in DOMAIN queue[g], i # 1
        PROVE  \E j \in DOMAIN q : queue[g][i] = q[j]
    <3>1. i - 1 \in DOMAIN q /\ (i - 1) + 1 = i
      BY <1>2, <2>2
    <3> QED
      BY <1>2, <3>1
  <2>3. 1 \in DOMAIN queue[g] /\ queue[g][1] = front
    BY <1>2
  <2>4. \A n : n \in UNION {queue[g][i] : i \in DOMAIN queue[g]}
               <=> n \in front \/ n \in UNION {q[i] : i \in DOMAIN q}
    BY <2>1, <2>2, <2>3
  <2>5. Precedes(front, UNION {q[i] : i \in DOMAIN q})
    <3>1. \A i \in DOMAIN q : Precedes(front, q[i])
      BY <2>1, <2>3 DEF Flows, InOrder
    <3> QED
      BY <3>1 DEF Precedes
  <2> QED
    BY <1>5, <2>4, <2>5 DEF Queued
<1>7. \A i, j \in DOMAIN q : i < j => Precedes(q[i], q[j])
  <2>1. ASSUME NEW i \in DOMAIN q, NEW j \in DOMAIN q, i < j PROVE Precedes(q[i], q[j])
    <3>1. /\ i + 1 \in DOMAIN queue[g] /\ j + 1 \in DOMAIN queue[g] /\ i + 1 < j + 1
          /\ q[i] = queue[g][i + 1] /\ q[j] = queue[g][j + 1]
      BY <1>2, <2>1
    <3> QED
      BY <3>1 DEF Flows, InOrder
  <2> QED
    BY <2>1
<1>8. InOrder(g)'
  BY <1>5, <1>6, <1>7 DEF Flows, InOrder, Precedes
<1>9. Current(g)' <=> Current(g)
  BY <1>1 DEF Current
<1>10. Kept(g)'
  BY <1>5, <1>6, <1>9 DEF Flows, Kept
<1>11. Unread(g)' /\ Numbered(g)'
  BY <1>1, <1>5, <1>6 DEF Flows, Unread, Numbered
<1> QED
  BY <1>4, <1>8, <1>10, <1>11 DEF Flows

LEMMA EmitFlows ==
    ASSUME OutputTyped, NEW g \in Gens, Flows(g), Emit(g)
    PROVE  Flows(g)' /\ OutputTyped'
<1> DEFINE step == IF flusher[g] = "emit" THEN "check" ELSE "done"
<1>1. /\ flusher[g] \in {"emit", "emit_last"}
      /\ shown' = [shown EXCEPT ![g] = shown[g] \union batch[g]]
      /\ batch' = [batch EXCEPT ![g] = {}]
      /\ flusher' = [flusher EXCEPT ![g] = step]
      /\ UNCHANGED <<reader, read, pending_utf8, sending, queue, panes, alive>>
  BY DEF Emit, FlusherTo, readers, paneRows
<1>a. step \in {"check", "done"} /\ (step = "done" => flusher[g] = "emit_last")
  BY <1>1
<1> HIDE DEF step
<1>2. shown[g] \union batch[g] \in Pieces /\ {} \in Pieces
  BY DEF OutputTyped, Pieces
<1>3. OutputTyped'
  BY <1>1, <1>2, <1>a DEF OutputTyped
<1>4. /\ batch'[g] = {} /\ queue'[g] = queue[g] /\ shown'[g] = shown[g] \union batch[g]
      /\ flusher'[g] = step
      /\ reader'[g] = reader[g] /\ read'[g] = read[g]
      /\ pending_utf8'[g] = pending_utf8[g] /\ sending'[g] = sending[g]
  BY <1>1 DEF OutputTyped
<1>5. Queued(g)' = Queued(g) /\ (Current(g)' <=> Current(g))
  BY <1>1 DEF Queued, Current
<1>6. InOrder(g)'
  BY <1>4, <1>5 DEF Flows, InOrder, Precedes
<1>7. Kept(g)'
  BY <1>4, <1>5, <1>a DEF Flows, Kept
<1>8. Unread(g)' /\ Numbered(g)'
  BY <1>1, <1>4, <1>5 DEF Flows, Unread, Numbered
<1> QED
  BY <1>3, <1>6, <1>7, <1>8 DEF Flows

LEMMA ReaderLeavesFlows ==
    ASSUME OutputTyped, NEW g \in Gens, Flows(g), ReaderLeaves(g)
    PROVE  Flows(g)' /\ OutputTyped'
<1>1. /\ reader[g] = "leave"
      /\ UNCHANGED <<flusher, batch, shown, read, queue, panes, alive>>
  BY DEF ReaderLeaves, flushers, paneRows
<1>2. Queued(g)' = Queued(g) /\ (Current(g)' <=> Current(g))
  BY <1>1 DEF Queued, Current
<1>3. CASE Current(g) /\ pending_utf8[g] # {}
  <2>1. /\ sending' = [sending EXCEPT ![g] = pending_utf8[g]]
        /\ pending_utf8' = [pending_utf8 EXCEPT ![g] = {}]
        /\ reader' = [reader EXCEPT ![g] = "send_last"]
        /\ pending_utf8[g] \in Pieces /\ {} \in Pieces
    BY <1>3 DEF ReaderLeaves, ReaderTo, OutputTyped, Pieces
  <2>2. OutputTyped'
    BY <1>1, <2>1 DEF OutputTyped
  <2>3. /\ sending'[g] = pending_utf8[g] /\ pending_utf8'[g] = {} /\ reader'[g] = "send_last"
        /\ sending[g] = {}
    BY <1>1, <1>3, <2>1 DEF OutputTyped, Flows, Kept
  <2> QED
    BY <1>1, <1>2, <2>2, <2>3 DEF Flows, Unread, Numbered, InOrder, Precedes, Kept
<1>4. CASE ~(Current(g) /\ pending_utf8[g] # {})
  <2>1. reader' = [reader EXCEPT ![g] = "done"] /\ UNCHANGED <<sending, pending_utf8>>
    BY <1>4 DEF ReaderLeaves, ReaderTo
  <2>2. OutputTyped' /\ reader'[g] = "done"
    BY <1>1, <2>1 DEF OutputTyped
  <2> QED
    BY <1>1, <1>2, <1>4, <2>1, <2>2 DEF Flows, Unread, Numbered, InOrder, Precedes, Kept
<1> QED
  BY <1>3, <1>4

(* The steps that only move a thread on.                                   *)
LEMMA PointersFlow ==
    ASSUME OutputTyped, NEW g \in Gens, Flows(g),
           \/ ReaderChecks(g) \/ ReaderEnds(g) \/ FlusherChecks(g) \/ FlusherTimesOut(g)
           \/ FlusherDisconnected(g) \/ FlushCheck(g) \/ FlusherLeaves(g) \/ ShellExits(g)
    PROVE  Flows(g)' /\ OutputTyped'
<1>1. UNCHANGED <<read, pending_utf8, sending, queue, batch, shown, panes, alive>>
  BY DEF ReaderChecks, ReaderEnds, FlusherChecks, FlusherTimesOut, FlusherDisconnected,
         FlushCheck, FlusherLeaves, ShellExits, readers, flushers, paneRows
<1>2. Queued(g)' = Queued(g) /\ (Current(g)' <=> Current(g))
  BY <1>1 DEF Queued, Current
<1>3. /\ Numbered(g)' <=> Numbered(g)
      /\ InOrder(g)' <=> InOrder(g)
  BY <1>1, <1>2 DEF Numbered, InOrder, Precedes
<1>4. ASSUME UNCHANGED flusher, reader[g] \in {"check", "read"},
             NEW step \in {"read", "leave"}, reader' = [reader EXCEPT ![g] = step]
      PROVE  Flows(g)' /\ OutputTyped'
  <2>1. OutputTyped' /\ reader'[g] = step
    BY <1>1, <1>4 DEF OutputTyped
  <2> QED
    BY <1>1, <1>2, <1>3, <1>4, <2>1 DEF Flows, Unread, Kept
<1>5. ASSUME UNCHANGED reader,
             NEW step \in {"check", "wait", "flush", "emit", "emit_last", "leave", "done"},
             flusher' = [flusher EXCEPT ![g] = step], flusher[g] # "off",
             step \in {"leave", "emit_last", "done"} /\ Current(g) =>
                 flusher[g] = "leave" \/ (reader[g] = "done" /\ queue[g] = <<>>),
             step = "done" /\ Current(g) => batch[g] = {}
      PROVE  Flows(g)' /\ OutputTyped'
  <2>1. OutputTyped' /\ flusher'[g] = step
    BY <1>1, <1>5 DEF OutputTyped
  <2>2. Kept(g)'
    BY <1>1, <1>2, <1>5, <2>1 DEF Flows, Kept
  <2>3. Unread(g)'
    BY <1>1, <1>5, <2>1 DEF Flows, Unread
  <2> QED
    BY <1>3, <2>1, <2>2, <2>3 DEF Flows
<1>6. CASE ReaderChecks(g) \/ ReaderEnds(g)
  BY <1>4, <1>6 DEF ReaderChecks, ReaderEnds, ReaderTo, flushers
<1>7. CASE \/ FlusherChecks(g) \/ FlusherTimesOut(g) \/ FlusherDisconnected(g)
           \/ FlushCheck(g) \/ FlusherLeaves(g)
  BY <1>5, <1>7 DEF FlusherChecks, FlusherTimesOut, FlusherDisconnected, FlushCheck,
                    FlusherLeaves, FlusherTo, readers
<1>8. CASE ShellExits(g)
  <2>1. UNCHANGED <<reader, flusher>>
    BY <1>8 DEF ShellExits, readers, flushers
  <2> QED
    BY <1>1, <1>2, <1>3, <2>1 DEF Flows, OutputTyped, Unread, Kept
<1> QED
  BY <1>6, <1>7, <1>8

(* A step of the threads of one shell.                                     *)
LEMMA ThreadsKeepOutput ==
    ASSUME OutputInv, PanesInv, NEW g \in Gens, PaneThreads(g)
    PROVE  OutputInv'
<1>1. OutputTyped /\ Flows(g)
  BY DEF OutputInv
<1>2. OutputTyped' /\ Flows(g)'
  BY <1>1, ReadFlows, SendFlows, ReceiveFlows, EmitFlows, ReaderLeavesFlows, PointersFlow
  DEF PaneThreads
<1>3. /\ UNCHANGED <<call, next_generation, panes, alive>>
      /\ reader[g] # "off" \/ reader' = reader
  BY <1>1 DEF PaneThreads, ReaderChecks, ReaderEnds, FlusherChecks, FlusherTimesOut,
     FlusherDisconnected, FlushCheck, FlusherLeaves, ShellExits, ReaderReads, ReaderSends,
     ReaderLeaves, FlusherReceives, Emit, readers, flushers, paneRows
<1>4. ASSUME NEW h \in Gens, h # g PROVE UNCHANGED Work(h)
  <2>1. \A e : reader' = [reader EXCEPT ![g] = e] => reader'[h] = reader[h]
    BY <1>1, <1>4 DEF OutputTyped
  <2>2. \A e : flusher' = [flusher EXCEPT ![g] = e] => flusher'[h] = flusher[h]
    BY <1>1, <1>4 DEF OutputTyped
  <2>3. \A e : read' = [read EXCEPT ![g] = e] => read'[h] = read[h]
    BY <1>1, <1>4 DEF OutputTyped
  <2>4. \A e : pending_utf8' = [pending_utf8 EXCEPT ![g] = e]
                  => pending_utf8'[h] = pending_utf8[h]
    BY <1>1, <1>4 DEF OutputTyped
  <2>5. \A e : sending' = [sending EXCEPT ![g] = e] => sending'[h] = sending[h]
    BY <1>1, <1>4 DEF OutputTyped
  <2>6. \A e : queue' = [queue EXCEPT ![g] = e] => queue'[h] = queue[h]
    BY <1>1, <1>4 DEF OutputTyped
  <2>7. \A e : batch' = [batch EXCEPT ![g] = e] => batch'[h] = batch[h]
    BY <1>1, <1>4 DEF OutputTyped
  <2>8. \A e : shown' = [shown EXCEPT ![g] = e] => shown'[h] = shown[h]
    BY <1>1, <1>4 DEF OutputTyped
  <2>9. CASE \/ ReaderChecks(g) \/ ReaderEnds(g) \/ FlusherChecks(g) \/ FlusherTimesOut(g)
             \/ FlusherDisconnected(g) \/ FlushCheck(g) \/ FlusherLeaves(g) \/ ShellExits(g)
    BY <2>1, <2>2, <2>9 DEF Work, ReaderChecks, ReaderEnds, FlusherChecks, FlusherTimesOut,
       FlusherDisconnected, FlushCheck, FlusherLeaves, ShellExits, ReaderTo, FlusherTo,
       readers, flushers
  <2>10. CASE ReaderSends(g) \/ ReaderLeaves(g)
    BY <2>1, <2>4, <2>5, <2>6, <2>10
    DEF Work, ReaderSends, ReaderLeaves, ReaderTo, flushers
  <2>11. CASE FlusherReceives(g) \/ Emit(g)
    BY <2>2, <2>6, <2>7, <2>8, <2>11 DEF Work, FlusherReceives, Emit, FlusherTo, readers
  <2>12. CASE \E cut \in BOOLEAN : ReaderReads(g, cut)
    <3>1. PICK cut \in BOOLEAN : ReaderReads(g, cut)
      BY <2>12
    <3>2. /\ \E e : reader' = [reader EXCEPT ![g] = e]
          /\ \E e : read' = [read EXCEPT ![g] = e]
          /\ \E e : pending_utf8' = [pending_utf8 EXCEPT ![g] = e]
          /\ \E e : sending' = [sending EXCEPT ![g] = e]
          /\ UNCHANGED <<flusher, batch, shown, queue>>
      BY <3>1, Zenon DEF ReaderReads, ReaderTo, flushers
    <3> QED
      BY <2>1, <2>3, <2>4, <2>5, <3>2 DEF Work
  <2> QED
    BY <2>9, <2>10, <2>11, <2>12 DEF PaneThreads
<1>5. ASSUME NEW h \in Gens, h # g PROVE Flows(h)'
  <2>1. Current(h)' <=> Current(h)
    BY <1>3 DEF Current
  <2> QED
    BY <1>4, <1>5, <2>1, OthersFlow DEF OutputInv
<1>6. StartsOnce'
  <2>1. \A h \in Gens : reader[h] = "off" => reader'[h] = "off"
    BY <1>3, <1>4 DEF Work
  <2> QED
    BY <1>3, <2>1 DEF OutputInv, StartsOnce, Making
<1> QED
  BY <1>2, <1>5, <1>6 DEF OutputInv

(* A step that starts no threads and makes no shell with threads current.  *)
LEMMA QuietCommands ==
    ASSUME OutputInv, UNCHANGED <<readers, flushers, queue>>, StartsOnce',
           \A g \in Gens : reader[g] # "off" /\ Current(g)' => Current(g)
    PROVE  OutputInv'
<1>1. UNCHANGED <<reader, flusher, read, pending_utf8, sending, queue, batch, shown>>
  BY DEF readers, flushers
<1>2. OutputTyped'
  BY <1>1 DEF OutputInv, OutputTyped
<1>3. \A g \in Gens : UNCHANGED Work(g)
  BY <1>1 DEF Work
<1>4. \A g \in Gens : Flows(g)'
  BY <1>3, OthersFlow DEF OutputInv
<1> QED
  BY <1>2, <1>4 DEF OutputInv

(* What leaves fewer shells alive and in panes makes none current.         *)
LEMMA FewerCurrent ==
    ASSUME NEW g \in Gens, alive' \subseteq alive, Current(g)',
           \A p \in Panes : panes'[p] = panes[p] \/ panes'[p] = 0
    PROVE  Current(g)
<1>1. g # 0
  BY PanesAssumption DEF Gens
<1> QED
  BY <1>1 DEF Current

(* The steps of a command: the shell it makes and puts into a pane has no  *)
(* threads yet.                                                            *)
LEMMA CommandsKeepOutput ==
    ASSUME OutputInv, PanesInv, NEW c \in Callers,
           PaneCommand(c) \/ \E op \in Ops, p \in Panes : Ask(c, op, p)
    PROVE  OutputInv'
<1>0. /\ PanesTyped /\ StartsOnce /\ OutputTyped /\ call[c] \in Calls
      /\ next_generation \in Nat
  BY DEF OutputInv, PanesInv, PanesTyped
<1>1. ASSUME UNCHANGED <<readers, flushers, queue, next_generation>>,
             \A d \in Callers : d # c => call'[d] = call[d],
             call'[c].at \in Making => call[c].at \in Making /\ call'[c].made = call[c].made,
             \A g \in Gens : reader[g] # "off" /\ Current(g)' => Current(g)
      PROVE  OutputInv'
  <2>1. \A d \in Callers : call'[d].at \in Making =>
            call[d].at \in Making /\ call'[d].made = call[d].made
    BY <1>1
  <2>2. StartsOnce'
    BY <1>0, <1>1, <2>1 DEF StartsOnce, readers
  <2> QED
    BY <1>1, <2>2, QuietCommands
<1>2. CASE \E op \in Ops, p \in Panes : Ask(c, op, p)
  <2>1. PICK op \in Ops, p \in Panes : Ask(c, op, p)
    BY <1>2
  <2>2. /\ \A d \in Callers : d # c => call'[d] = call[d]
        /\ call'[c].at = "check"
        /\ UNCHANGED <<panes, alive, next_generation, readers, flushers, queue>>
    BY <1>0, <2>1 DEF Ask, PanesTyped, paneRows
  <2> QED
    BY <1>1, <2>2 DEF Making, Current
<1>3. CASE Refused(c) \/ MakeFails(c)
  <2>1. /\ UNCHANGED <<panes, alive, next_generation, readers, flushers, queue>>
        /\ \A d \in Callers : d # c => call'[d] = call[d]
        /\ call'[c].at = "idle"
    BY <1>0, <1>3, CallIsOver DEF Refused, MakeFails, paneRows
  <2> QED
    BY <1>1, <2>1 DEF Making, Current
<1>4. CASE Admitted(c)
  <2>1. /\ call[c].at = "check" /\ next_generation <= MaxShells
        /\ call' = [call EXCEPT ![c] = [call[c] EXCEPT !.at = "make", !.made = next_generation]]
        /\ next_generation' = next_generation + 1
        /\ UNCHANGED <<panes, alive, readers, flushers, queue>>
    BY <1>4 DEF Admitted
  <2>2. /\ call'[c].at = "make" /\ call'[c].made = next_generation
        /\ \A d \in Callers : d # c => call'[d] = call[d]
    BY <1>0, <2>1 DEF PanesTyped, Calls
  <2>3. next_generation \in Gens
    BY <1>0, <2>1, PanesAssumption DEF PanesTyped, Gens
  <2>4. \A g \in Gens : g \in Nat
    BY DEF Gens
  <2>5. \A d \in Callers : call[d].at \in Making => call[d].made # next_generation
    BY <1>0, <2>4 DEF StartsOnce
  <2>6. reader' = reader
    BY <2>1 DEF readers
  <2>7. \A d \in Callers : call'[d].at \in Making =>
            call'[d].made \in Gens /\ call'[d].made < next_generation'
                                   /\ reader'[call'[d].made] = "off"
    BY <1>0, <2>1, <2>2, <2>3, <2>4, <2>6 DEF StartsOnce
  <2>8. \A d, e \in Callers : call'[d].at \in Making /\ call'[e].at \in Making
                               /\ call'[d].made = call'[e].made => d = e
    BY <1>0, <2>2, <2>5 DEF StartsOnce
  <2>9. \A g \in Gens : g >= next_generation' => reader'[g] = "off"
    BY <1>0, <2>1, <2>4, <2>6 DEF StartsOnce
  <2>10. StartsOnce'
    BY <2>7, <2>8, <2>9 DEF StartsOnce
  <2> QED
    BY <2>1, <2>10, QuietCommands DEF Current
<1>5. CASE Make(c)
  <2>1. /\ call[c].at = "make" /\ alive' = alive \union {call[c].made}
        /\ UNCHANGED <<panes, next_generation, readers, flushers, queue>>
    BY <1>5 DEF Make
  <2>2. /\ \A d \in Callers : d # c => call'[d] = call[d]
        /\ call'[c].at = "put" /\ call'[c].made = call[c].made
    BY <1>0, <1>5, CallGoesOn DEF Make, CallSteps
  <2>3. reader[call[c].made] = "off"
    BY <1>0, <2>1 DEF StartsOnce, Making
  <2>4. \A g \in Gens : reader[g] # "off" /\ Current(g)' => Current(g)
    BY <2>1, <2>3 DEF Current
  <2> QED
    BY <1>1, <2>1, <2>2, <2>4 DEF Making
<1>6. CASE PutRefused(c)
  <2>1. /\ alive' \subseteq alive
        /\ UNCHANGED <<panes, next_generation, readers, flushers, queue>>
    BY <1>6 DEF PutRefused, Stopped
  <2>2. /\ \A d \in Callers : d # c => call'[d] = call[d]
        /\ call'[c].at = "idle"
    BY <1>0, <1>6, CallIsOver DEF PutRefused
  <2> QED
    BY <1>1, <2>1, <2>2, FewerCurrent DEF Making
<1>7. CASE Put(c)
  <2>1. /\ call[c].at = "put" /\ panes' = [panes EXCEPT ![call[c].pane] = call[c].made]
        /\ UNCHANGED <<alive, next_generation, readers, flushers, queue>>
    BY <1>7 DEF Put
  <2>2. /\ \A d \in Callers : d # c => call'[d] = call[d]
        /\ call'[c].at \in {"start", "stop_old"} /\ call'[c].made = call[c].made
    <3>1. CASE call[c].op = "respawn"
      <4>1. call' = [call EXCEPT ![c] = [call[c] EXCEPT !.at = "stop_old",
                                                        !.old = panes[call[c].pane]]]
        BY <1>7, <3>1 DEF Put
      <4> QED
        BY <1>0, <4>1 DEF PanesTyped, Calls
    <3>2. CASE call[c].op # "respawn"
      BY <1>0, <1>7, <3>2, CallGoesOn DEF Put, CallSteps
    <3> QED
      BY <3>1, <3>2
  <2>3. reader[call[c].made] = "off"
    BY <1>0, <2>1 DEF StartsOnce, Making
  <2>4. \A p \in Panes : panes'[p] = panes[p] \/ panes'[p] = call[c].made
    BY <1>0, <2>1 DEF PanesTyped
  <2>5. \A g \in Gens : reader[g] # "off" /\ Current(g)' => Current(g)
    BY <2>1, <2>3, <2>4 DEF Current
  <2> QED
    BY <1>1, <2>1, <2>2, <2>5 DEF Making
<1>8. CASE StopOld(c)
  <2>1. /\ alive' \subseteq alive /\ call[c].at = "stop_old"
        /\ UNCHANGED <<panes, next_generation, readers, flushers, queue>>
    BY <1>8 DEF StopOld, Stopped
  <2>2. /\ \A d \in Callers : d # c => call'[d] = call[d]
        /\ call'[c].at = "start" /\ call'[c].made = call[c].made
    BY <1>0, <1>8, CallGoesOn DEF StopOld, CallSteps
  <2> QED
    BY <1>1, <2>1, <2>2, FewerCurrent DEF Making
<1>9. CASE StartReader(c)
  <2>0. PICK made \in Gens : made = call[c].made
    BY <1>0, <1>9 DEF StartReader, StartsOnce, Making
  <2>1. /\ call[c].at = "start" /\ made \in Gens /\ reader[made] = "off"
        /\ UNCHANGED <<panes, alive, next_generation, read, pending_utf8, sending, batch,
                       shown, queue>>
    BY <1>0, <1>9, <2>0 DEF StartReader, StartsOnce, Making, paneRows
  <2>2. /\ \A d \in Callers : d # c => call'[d] = call[d]
        /\ call'[c].at = "idle"
    BY <1>0, <1>9, CallIsOver DEF StartReader
  <2>3. \A g \in Gens : Current(g)' <=> Current(g)
    BY <2>1 DEF Current
  <2>4. \/ UNCHANGED <<reader, flusher>>
        \/ /\ reader' = [reader EXCEPT ![made] = "check"]
           /\ flusher' = [flusher EXCEPT ![made] = "check"]
    BY <1>9, <2>0 DEF StartReader, ReaderTo, FlusherTo
  <2>5. CASE UNCHANGED <<reader, flusher>>
    BY <1>1, <2>1, <2>2, <2>3, <2>5 DEF Making, readers, flushers
  <2>6. CASE /\ reader' = [reader EXCEPT ![made] = "check"]
             /\ flusher' = [flusher EXCEPT ![made] = "check"]
    <3>1. OutputTyped'
      BY <1>0, <2>1, <2>6 DEF OutputTyped
    <3>2. /\ reader'[made] = "check" /\ flusher'[made] = "check"
          /\ \A g \in Gens : g # made => reader'[g] = reader[g] /\ flusher'[g] = flusher[g]
      BY <1>0, <2>1, <2>6 DEF OutputTyped
    <3>3. Flows(made) /\ UNCHANGED <<read, pending_utf8, sending, queue, batch, shown>>
      BY <2>1 DEF OutputInv
    <3>4. Flows(made)'
      BY <2>1, <3>2, <3>3, StartFlows
    <3>5. ASSUME NEW g \in Gens, g # made PROVE Flows(g)'
      <4>1. UNCHANGED Work(g)
        BY <2>1, <3>2, <3>5 DEF Work
      <4> QED
        BY <2>3, <4>1, OthersFlow DEF OutputInv
    <3>6. \A d \in Callers : call'[d].at \in Making =>
              d # c /\ call[d].at \in Making /\ call'[d] = call[d] /\ call[d].made # made
      BY <1>0, <2>0, <2>1, <2>2 DEF StartsOnce, Making
    <3>7. made < next_generation
      BY <1>0, <2>0, <2>1 DEF StartsOnce, Making
    <3>8. \A g \in Gens : g >= next_generation => g # made
      BY <1>0, <2>1, <3>7 DEF Gens
    <3>9. StartsOnce'
      BY <1>0, <2>1, <3>2, <3>6, <3>8 DEF StartsOnce
    <3>10. \A g \in Gens : Flows(g)'
      BY <3>4, <3>5
    <3> QED
      BY <3>1, <3>9, <3>10 DEF OutputInv
  <2> QED
    BY <2>4, <2>5, <2>6
<1>10. CASE Close(c)
  <2>1. /\ alive' \subseteq alive /\ panes' = [panes EXCEPT ![call[c].pane] = 0]
        /\ UNCHANGED <<next_generation, readers, flushers, queue>>
    BY <1>10 DEF Close, Stopped
  <2>2. /\ \A d \in Callers : d # c => call'[d] = call[d]
        /\ call'[c].at = "idle"
    BY <1>0, <1>10, CallIsOver DEF Close
  <2>3. \A p \in Panes : panes'[p] = panes[p] \/ panes'[p] = 0
    BY <1>0, <2>1 DEF PanesTyped
  <2> QED
    BY <1>1, <2>1, <2>2, <2>3, FewerCurrent DEF Making
<1> QED
  BY <1>2, <1>3, <1>4, <1>5, <1>6, <1>7, <1>8, <1>9, <1>10 DEF PaneCommand

(* Every step of the application.                                          *)
LEMMA OutputStep == OutputInv /\ PanesInv /\ [Next]_vars => OutputInv'
<1> SUFFICES ASSUME OutputInv, PanesInv, [Next]_vars PROVE OutputInv'
  OBVIOUS
<1>1. ASSUME UNCHANGED <<call, next_generation, readers, flushers, queue>>,
             alive' \subseteq alive,
             \A p \in Panes : panes'[p] = panes[p] \/ panes'[p] = 0
      PROVE  OutputInv'
  <2>1. StartsOnce'
    BY <1>1 DEF OutputInv, StartsOnce, readers
  <2> QED
    BY <1>1, <2>1, QuietCommands, FewerCurrent
<1>2. CASE UsesPanes
  BY <1>2, CommandsKeepOutput, ThreadsKeepOutput, PanesAssumption DEF UsesPanes, Gens
<1>3. CASE UNCHANGED paneVars
  BY <1>1, <1>3 DEF paneVars, paneRows
<1>4. CASE DrainPanes
  BY <1>1, <1>4 DEF DrainPanes
<1>5. ASSUME NEW g \in Gens, DrainOne(g) PROVE OutputInv'
  BY <1>1, <1>5 DEF DrainOne, Stopped
<1> QED
  BY <1>2, <1>3, <1>4, <1>5
  DEF Next, UsesMicrophone, UsesPipe, RequestShutdown, RevokeToken, ProcessEnds, StopCapture,
      CaptureStopped, CaptureAbandoned, Drained, vars

LEMMA NothingIsMissing == OutputInv => OutputIsKept
<1> SUFFICES ASSUME OutputInv, NEW g \in Followed
             PROVE  /\ InOrder(g)
                    /\ Current(g) /\ reader[g] # "off" =>
                        /\ 1 .. read[g] = shown[g] \union batch[g] \union Queued(g)
                                             \union sending[g] \union pending_utf8[g]
                        /\ reader[g] = "done" /\ flusher[g] = "done" => shown[g] = 1 .. read[g]
  BY DEF OutputIsKept
<1>1. Flows(g)
  BY PanesAssumption DEF OutputInv, Gens
<1>2. queue[g] = <<>> => Queued(g) = {}
  BY DEF Queued
<1> QED
  BY <1>1, <1>2 DEF Flows, Numbered, Kept

(* What a shell writes reaches the window in order and nothing twice, and, *)
(* as long as the pane is the shell's, all of it, although the reader and  *)
(* the flusher look at the pane each for itself (start_pty_reader,         *)
(* start_pty_output_flusher).                                              *)
THEOREM OutputArrives == Spec => []OutputIsKept
<1>1. Init => OutputInv /\ PanesInv /\ BeginsOnce
  BY OutputInit, PanesInit, BeginsInit
<1>2. (OutputInv /\ PanesInv /\ BeginsOnce) /\ [Next]_vars
         => (OutputInv /\ PanesInv /\ BeginsOnce)'
  BY OutputStep, PanesStep, BeginsStep
<1> QED
  BY <1>1, <1>2, NothingIsMissing, PTL DEF Spec

-----------------------------------------------------------------------------
(* The microphone.  A capture is active from the call that made it the     *)
(* session until its worker has given the device back; until then it is    *)
(* the session, or the session's mutex is held by a call that waits for it.*)

MicSteps == {"idle", "lock", "await", "snapshot", "spawn", "report"}

MicCalls == [op : {"none", "start", "stop"}, at : MicSteps, mine : 0 .. MaxCaptures,
             existing : 0 .. MaxCaptures]

WithDevice == {"opened", "queueing", "queued", "recording", "closing", "denied"}

WorkerSteps == WithDevice \union {"none", "opening", "no_device", "closed", "final", "done"}

MicTyped ==
    /\ next_capture \in Nat \ {0} /\ session \in 0 .. MaxCaptures
    /\ session_lock \in MicCallers \union {NoCaller}
    /\ snapshot \in [generation : 0 .. MaxCaptures,
                     state : {"none", "restarting", "recording", "denied", "unavailable",
                              "stopped"}]
    /\ device \in [Captures -> {"none", "open", "closed"}]
    /\ worker \in [Captures -> WorkerSteps]
    /\ stop_requested \subseteq Captures /\ cleanup_complete \subseteq Captures
    /\ mic \in [MicCallers -> MicCalls]

Devices ==
    /\ \A v \in Captures :
          /\ device[v] = "open" => worker[v] \in WithDevice
          /\ v \in cleanup_complete => worker[v] \in {"final", "done"}
          /\ worker[v] = "final" => v \in cleanup_complete
    /\ snapshot.state = "stopped" => snapshot.generation \in cleanup_complete

(* A capture is given to one call, and has no worker before that call ends.*)
CapturesAreNew ==
    /\ \A c \in MicCallers :
          /\ mic[c].op = "start" => /\ mic[c].mine \in Captures /\ mic[c].mine < next_capture
                                    /\ worker[mic[c].mine] = "none"
          /\ mic[c].op # "start" => mic[c].mine = 0 /\ mic[c].at \notin {"snapshot", "spawn"}
    /\ \A v \in Captures : v >= next_capture => worker[v] = "none"
    /\ \A c, d \in MicCallers :
          mic[c].op = "start" /\ mic[d].op = "start" /\ mic[c].mine = mic[d].mine => c = d

(* The call that waits has the mutex, and has told the old worker to stop. *)
OneWaits ==
    /\ \A c \in MicCallers :
          /\ mic[c].at = "await" => session_lock = c /\ mic[c].existing \in stop_requested
          /\ mic[c].at = "report" => mic[c].existing \in cleanup_complete
    /\ session_lock # NoCaller => session = 0 /\ mic[session_lock].at = "await"

Active(v) ==
    \/ worker[v] \notin {"none", "final", "done"}
    \/ \E c \in MicCallers : mic[c].at \in {"snapshot", "spawn"} /\ mic[c].mine = v

OneActive ==
    \A v \in Captures :
        Active(v) => session = v \/ (session_lock # NoCaller /\ mic[session_lock].existing = v)

MicParts == MicTyped /\ Devices /\ CapturesAreNew /\ OneWaits /\ OneActive

(* The shutdown lets the mutex go while it waits, and a second capture may *)
(* then begin.                                                             *)
MicInv == shutdown = "none" => MicParts

LEMMA MicStarts == Init => MicInv
<1> SUFFICES ASSUME Init PROVE MicParts
  BY DEF MicInv
<1>1. mic = [c \in MicCallers |-> IdleMic] /\ IdleMic \in MicCalls
  BY CapturesAssumption DEF Init, MicInit, IdleMic, MicCalls, MicSteps
<1>2. MicTyped
  BY <1>1, CapturesAssumption DEF Init, MicInit, MicTyped, Captures, WorkerSteps
<1>3. Devices /\ CapturesAreNew /\ OneWaits /\ OneActive
  BY <1>1 DEF Init, MicInit, Devices, CapturesAreNew, OneWaits, OneActive, Active, IdleMic
<1> QED
  BY <1>2, <1>3 DEF MicParts

(* What a worker may do to what others see.                                *)
LEMMA WorkerMoves ==
    ASSUME MicTyped, Devices, NEW v \in Captures, Worker(v)
    PROVE  /\ UNCHANGED <<next_capture, session, session_lock, stop_requested, mic>>
           /\ MicTyped' /\ Devices'
           /\ cleanup_complete \subseteq cleanup_complete'
           /\ \A w \in Captures : w # v => worker'[w] = worker[w]
           /\ worker[v] # "none"
           /\ worker[v] \in {"final", "done"} => worker'[v] \in {"final", "done"}
<1> USE DEF MicTyped, Devices, WorkerTo, WithDevice, WorkerSteps, Captures
<1>1. CASE Opens(v)
  BY <1>1 DEF Opens
<1>2. CASE OpenFails(v)
  BY <1>2 DEF OpenFails, Report
<1>3. CASE ReportsRecording(v)
  BY <1>3 DEF ReportsRecording, Report
<1>4. CASE QueueFails(v)
  BY <1>4 DEF QueueFails, Report
<1>5. CASE DeniedCloses(v)
  BY <1>5 DEF DeniedCloses
<1>6. CASE LeavesWithoutReport(v)
  BY <1>6 DEF LeavesWithoutReport
<1>7. CASE Queues(v)
  BY <1>7 DEF Queues
<1>8. CASE StartFails(v)
  BY <1>8 DEF StartFails, Report
<1>9. CASE Starts(v)
  BY <1>9 DEF Starts
<1>10. CASE Meters(v)
  BY <1>10 DEF Meters, Report
<1>11. CASE SeesStop(v)
  BY <1>11 DEF SeesStop
<1>12. CASE CloseDevice(v)
  BY <1>12 DEF CloseDevice
<1>13. CASE Completes(v)
  BY <1>13 DEF Completes
<1>14. CASE FinalReport(v)
  BY <1>14 DEF FinalReport, Report
<1> QED
  BY <1>1, <1>2, <1>3, <1>4, <1>5, <1>6, <1>7, <1>8, <1>9, <1>10, <1>11, <1>12, <1>13, <1>14
  DEF Worker

LEMMA WorkersKeepMic ==
    ASSUME MicParts, NEW v \in Captures, Worker(v)
    PROVE  MicParts'
<1>0. MicTyped /\ Devices /\ CapturesAreNew /\ OneWaits /\ OneActive
  BY DEF MicParts
<1>1. /\ UNCHANGED <<next_capture, session, session_lock, stop_requested, mic>>
      /\ MicTyped' /\ Devices'
      /\ cleanup_complete \subseteq cleanup_complete'
      /\ \A w \in Captures : w # v => worker'[w] = worker[w]
      /\ worker[v] # "none"
      /\ worker[v] \in {"final", "done"} => worker'[v] \in {"final", "done"}
  BY <1>0, WorkerMoves
<1>2. CapturesAreNew'
  BY <1>0, <1>1 DEF CapturesAreNew
<1>3. OneWaits'
  BY <1>0, <1>1 DEF OneWaits
<1>4. OneActive'
  BY <1>0, <1>1 DEF OneActive, Active
<1> QED
  BY <1>1, <1>2, <1>3, <1>4 DEF MicParts

(* The record of a call, after one of its steps.                           *)
LEMMA MicGoesOn ==
    ASSUME MicTyped, NEW c \in MicCallers, NEW new \in MicCalls, mic' = [mic EXCEPT ![c] = new]
    PROVE  /\ mic' \in [MicCallers -> MicCalls] /\ mic'[c] = new
           /\ \A d \in MicCallers : d # c => mic'[d] = mic[d]
  BY DEF MicTyped

LEMMA CommandsKeepMic ==
    ASSUME MicParts, NEW c \in MicCallers, AskStart(c) \/ AskStop(c) \/ Command(c)
    PROVE  MicParts'
<1>0. /\ MicTyped /\ Devices /\ CapturesAreNew /\ OneWaits /\ OneActive
      /\ mic[c] \in MicCalls
  BY DEF MicParts, MicTyped
<1>i. IdleMic \in MicCalls /\ IdleMic.op = "none" /\ IdleMic.at = "idle" /\ IdleMic.mine = 0
  BY CapturesAssumption DEF IdleMic, MicCalls, MicSteps
<1> USE CapturesAssumption DEF Captures
<1>1. CASE AskStart(c)
  <2> DEFINE new == [op |-> "start", at |-> "lock", mine |-> next_capture, existing |-> 0]
  <2>1. /\ mic' = [mic EXCEPT ![c] = new]
        /\ next_capture <= MaxCaptures /\ next_capture' = next_capture + 1
        /\ mic[c].at = "idle"
        /\ UNCHANGED <<session, session_lock, snapshot, device, worker, stop_requested,
                      cleanup_complete>>
    BY <1>1 DEF AskStart, MicTo
  <2>2. /\ new \in MicCalls /\ new.op = "start" /\ new.at = "lock"
        /\ new.mine = next_capture /\ next_capture \in Captures
    BY <1>0, <1>i, <2>1 DEF MicCalls, MicSteps, CapturesAreNew, MicTyped
  <2> HIDE DEF new
  <2>3. /\ mic' \in [MicCallers -> MicCalls] /\ mic'[c] = new
        /\ \A d \in MicCallers : d # c => mic'[d] = mic[d]
    BY <1>0, <2>1, <2>2, MicGoesOn
  <2>4. MicTyped' /\ Devices'
    BY <1>0, <2>1, <2>2, <2>3 DEF MicTyped, Devices, WorkerSteps, MicCalls
  <2>5. CapturesAreNew'
    BY <1>0, <2>1, <2>2, <2>3 DEF CapturesAreNew, MicTyped
  <2>6. OneWaits'
    BY <1>0, <2>1, <2>2, <2>3 DEF OneWaits, MicTyped
  <2>7. OneActive'
    BY <1>0, <2>1, <2>2, <2>3 DEF OneActive, Active, OneWaits, Devices, CapturesAreNew, MicTyped
  <2> QED
    BY <2>4, <2>5, <2>6, <2>7 DEF MicParts
<1>2. CASE AskStop(c)
  <2> DEFINE new == [op |-> "stop", at |-> "lock", mine |-> 0, existing |-> 0]
  <2>1. /\ mic' = [mic EXCEPT ![c] = new]
        /\ mic[c].at = "idle"
        /\ UNCHANGED <<next_capture, session, session_lock, snapshot, device, worker,
                      stop_requested, cleanup_complete>>
    BY <1>2 DEF AskStop, MicTo
  <2>2. new \in MicCalls /\ new.op = "stop" /\ new.at = "lock" /\ new.mine = 0
    BY <1>0, <1>i, <2>1 DEF MicCalls, MicSteps, CapturesAreNew, MicTyped
  <2> HIDE DEF new
  <2>3. /\ mic' \in [MicCallers -> MicCalls] /\ mic'[c] = new
        /\ \A d \in MicCallers : d # c => mic'[d] = mic[d]
    BY <1>0, <2>1, <2>2, MicGoesOn
  <2>4. MicTyped' /\ Devices'
    BY <1>0, <2>1, <2>2, <2>3 DEF MicTyped, Devices, WorkerSteps, MicCalls
  <2>5. CapturesAreNew'
    BY <1>0, <2>1, <2>2, <2>3 DEF CapturesAreNew, MicTyped
  <2>6. OneWaits'
    BY <1>0, <2>1, <2>2, <2>3 DEF OneWaits, MicTyped
  <2>7. OneActive'
    BY <1>0, <2>1, <2>2, <2>3 DEF OneActive, Active, OneWaits, Devices, CapturesAreNew, MicTyped
  <2> QED
    BY <2>4, <2>5, <2>6, <2>7 DEF MicParts
<1>3. CASE NoSession(c)
  <2> DEFINE new == IF mic[c].op = "start" THEN [mic[c] EXCEPT !.at = "snapshot"] ELSE IdleMic
  <2>1. /\ mic' = [mic EXCEPT ![c] = new]
        /\ mic[c].at = "lock" /\ session_lock = NoCaller /\ session = 0
        /\ session' = mic[c].mine
        /\ UNCHANGED <<next_capture, session_lock, snapshot, device, worker, stop_requested,
                      cleanup_complete>>
    BY <1>3 DEF NoSession, MicTo
  <2>2. /\ new \in MicCalls /\ new.at \in {"snapshot", "idle"}
        /\ new.op = "start" => new = [mic[c] EXCEPT !.at = "snapshot"] /\ mic[c].op = "start"
        /\ new.op # "start" => new.mine = 0 /\ mic[c].mine = 0 /\ new.at = "idle"
        /\ new.op = "start" => new.mine = mic[c].mine /\ new.at = "snapshot"
    BY <1>0, <1>i, <2>1 DEF MicCalls, MicSteps, CapturesAreNew, MicTyped
  <2> HIDE DEF new
  <2>3. /\ mic' \in [MicCallers -> MicCalls] /\ mic'[c] = new
        /\ \A d \in MicCallers : d # c => mic'[d] = mic[d]
    BY <1>0, <2>1, <2>2, MicGoesOn
  <2>4. MicTyped' /\ Devices'
    BY <1>0, <2>1, <2>2, <2>3 DEF MicTyped, Devices, WorkerSteps, MicCalls
  <2>5. CapturesAreNew'
    BY <1>0, <2>1, <2>2, <2>3 DEF CapturesAreNew, MicTyped
  <2>6. OneWaits'
    BY <1>0, <2>1, <2>2, <2>3 DEF OneWaits, MicTyped
  <2>7. OneActive'
    BY <1>0, <2>1, <2>2, <2>3 DEF OneActive, Active, OneWaits, Devices, CapturesAreNew, MicTyped
  <2> QED
    BY <2>4, <2>5, <2>6, <2>7 DEF MicParts
<1>4. CASE TakeSession(c)
  <2> DEFINE new == [mic[c] EXCEPT !.existing = session, !.at = "await"]
  <2>1. /\ mic' = [mic EXCEPT ![c] = new]
        /\ mic[c].at = "lock" /\ session_lock = NoCaller /\ session # 0
        /\ session' = 0 /\ session_lock' = c
        /\ stop_requested' = stop_requested \union {session}
        /\ UNCHANGED <<next_capture, snapshot, device, worker, cleanup_complete>>
    BY <1>4 DEF TakeSession, MicTo
  <2>0. session \in Captures /\ session \in 0 .. MaxCaptures
    BY <1>0, <2>1 DEF MicTyped
  <2>2. /\ new \in MicCalls /\ new.at = "await" /\ new.existing = session
        /\ new.op = mic[c].op /\ new.mine = mic[c].mine /\ session \in Captures
    BY <1>0, <2>0 DEF MicCalls, MicSteps
  <2> HIDE DEF new
  <2>3. /\ mic' \in [MicCallers -> MicCalls] /\ mic'[c] = new
        /\ \A d \in MicCallers : d # c => mic'[d] = mic[d]
    BY <1>0, <2>1, <2>2, MicGoesOn
  <2>4. MicTyped' /\ Devices'
    BY <1>0, <2>1, <2>2, <2>3 DEF MicTyped, Devices, WorkerSteps, MicCalls
  <2>5. CapturesAreNew'
    BY <1>0, <2>1, <2>2, <2>3 DEF CapturesAreNew, MicTyped
  <2>6. OneWaits'
    BY <1>0, <2>1, <2>2, <2>3 DEF OneWaits, MicTyped
  <2>7. OneActive'
    BY <1>0, <2>1, <2>2, <2>3 DEF OneActive, Active, OneWaits, Devices, CapturesAreNew, MicTyped
  <2> QED
    BY <2>4, <2>5, <2>6, <2>7 DEF MicParts
<1>5. CASE CleanedUp(c)
  <2> DEFINE new == [mic[c] EXCEPT !.at = IF mic[c].op = "start" THEN "snapshot" ELSE "report"]
  <2>1. /\ mic' = [mic EXCEPT ![c] = new]
        /\ mic[c].at = "await" /\ mic[c].existing \in cleanup_complete
        /\ session' = mic[c].mine /\ session_lock' = NoCaller
        /\ UNCHANGED <<next_capture, snapshot, device, worker, stop_requested,
                      cleanup_complete>>
    BY <1>5 DEF CleanedUp, MicTo
  <2>2. /\ new \in MicCalls /\ new.at = IF mic[c].op = "start" THEN "snapshot" ELSE "report"
        /\ new.op = mic[c].op /\ new.mine = mic[c].mine /\ new.existing = mic[c].existing
    BY <1>0, <1>i, <2>1 DEF MicCalls, MicSteps, CapturesAreNew, MicTyped
  <2> HIDE DEF new
  <2>3. /\ mic' \in [MicCallers -> MicCalls] /\ mic'[c] = new
        /\ \A d \in MicCallers : d # c => mic'[d] = mic[d]
    BY <1>0, <2>1, <2>2, MicGoesOn
  <2>4. MicTyped' /\ Devices'
    BY <1>0, <2>1, <2>2, <2>3 DEF MicTyped, Devices, WorkerSteps, MicCalls
  <2>5. CapturesAreNew'
    BY <1>0, <2>1, <2>2, <2>3 DEF CapturesAreNew, MicTyped
  <2>6. OneWaits'
    BY <1>0, <2>1, <2>2, <2>3 DEF OneWaits, MicTyped
  <2>7. OneActive'
    BY <1>0, <2>1, <2>2, <2>3 DEF OneActive, Active, OneWaits, Devices, CapturesAreNew, MicTyped
  <2> QED
    BY <2>4, <2>5, <2>6, <2>7 DEF MicParts
<1>6. CASE CleanupTimesOut(c)
  <2> DEFINE new == IdleMic
  <2>1. /\ mic' = [mic EXCEPT ![c] = new]
        /\ mic[c].at = "await" /\ mic[c].existing \notin cleanup_complete
        /\ session' = mic[c].existing /\ session_lock' = NoCaller
        /\ UNCHANGED <<next_capture, snapshot, device, worker, stop_requested,
                      cleanup_complete>>
    BY <1>6 DEF CleanupTimesOut, MicTo
  <2>2. new \in MicCalls /\ new.at = "idle" /\ new.op = "none" /\ new.mine = 0
    BY <1>0, <1>i, <2>1 DEF MicCalls, MicSteps, CapturesAreNew, MicTyped
  <2> HIDE DEF new
  <2>3. /\ mic' \in [MicCallers -> MicCalls] /\ mic'[c] = new
        /\ \A d \in MicCallers : d # c => mic'[d] = mic[d]
    BY <1>0, <2>1, <2>2, MicGoesOn
  <2>4. MicTyped' /\ Devices'
    BY <1>0, <2>1, <2>2, <2>3 DEF MicTyped, Devices, WorkerSteps, MicCalls
  <2>5. CapturesAreNew'
    BY <1>0, <2>1, <2>2, <2>3 DEF CapturesAreNew, MicTyped
  <2>6. OneWaits'
    BY <1>0, <2>1, <2>2, <2>3 DEF OneWaits, MicTyped
  <2>7. OneActive'
    BY <1>0, <2>1, <2>2, <2>3 DEF OneActive, Active, OneWaits, Devices, CapturesAreNew, MicTyped
  <2> QED
    BY <2>4, <2>5, <2>6, <2>7 DEF MicParts
<1>7. CASE SetSnapshot(c)
  <2> DEFINE new == [mic[c] EXCEPT !.at = "spawn"]
  <2>1. /\ mic' = [mic EXCEPT ![c] = new]
        /\ mic[c].at = "snapshot"
        /\ snapshot' = [generation |-> mic[c].mine, state |-> "restarting"]
        /\ UNCHANGED <<next_capture, session, session_lock, device, worker, stop_requested,
                      cleanup_complete>>
    BY <1>7 DEF SetSnapshot, MicTo
  <2>2. /\ new \in MicCalls /\ new.at = "spawn"
        /\ new.op = mic[c].op /\ new.mine = mic[c].mine /\ mic[c].mine \in Captures
    BY <1>0, <1>i, <2>1 DEF MicCalls, MicSteps, CapturesAreNew, MicTyped
  <2> HIDE DEF new
  <2>3. /\ mic' \in [MicCallers -> MicCalls] /\ mic'[c] = new
        /\ \A d \in MicCallers : d # c => mic'[d] = mic[d]
    BY <1>0, <2>1, <2>2, MicGoesOn
  <2>4. MicTyped' /\ Devices'
    BY <1>0, <2>1, <2>2, <2>3 DEF MicTyped, Devices, WorkerSteps, MicCalls
  <2>5. CapturesAreNew'
    BY <1>0, <2>1, <2>2, <2>3 DEF CapturesAreNew, MicTyped
  <2>6. OneWaits'
    BY <1>0, <2>1, <2>2, <2>3 DEF OneWaits, MicTyped
  <2>7. OneActive'
    BY <1>0, <2>1, <2>2, <2>3 DEF OneActive, Active, OneWaits, Devices, CapturesAreNew, MicTyped
  <2> QED
    BY <2>4, <2>5, <2>6, <2>7 DEF MicParts
<1>8. CASE SpawnWorker(c)
  <2> DEFINE new == IdleMic
  <2>1. /\ mic' = [mic EXCEPT ![c] = new]
        /\ mic[c].at = "spawn"
        /\ worker' = [worker EXCEPT ![mic[c].mine] = "opening"]
        /\ UNCHANGED <<next_capture, session, session_lock, snapshot, device, stop_requested,
                      cleanup_complete>>
    BY <1>8 DEF SpawnWorker, WorkerTo
  <2>2. /\ new \in MicCalls /\ new.at = "idle" /\ new.op = "none" /\ new.mine = 0
        /\ mic[c].op = "start" /\ mic[c].mine \in Captures
    BY <1>0, <1>i, <2>1 DEF MicCalls, MicSteps, CapturesAreNew, MicTyped
  <2> HIDE DEF new
  <2>3. /\ mic' \in [MicCallers -> MicCalls] /\ mic'[c] = new
        /\ \A d \in MicCallers : d # c => mic'[d] = mic[d]
    BY <1>0, <2>1, <2>2, MicGoesOn
  <2>4. MicTyped' /\ Devices'
    BY <1>0, <2>1, <2>2, <2>3 DEF MicTyped, Devices, WorkerSteps, WithDevice, CapturesAreNew
  <2>5. CapturesAreNew'
    BY <1>0, <2>1, <2>2, <2>3 DEF CapturesAreNew, MicTyped
  <2>6. OneWaits'
    BY <1>0, <2>1, <2>2, <2>3 DEF OneWaits, MicTyped
  <2>7. OneActive'
    BY <1>0, <2>1, <2>2, <2>3 DEF OneActive, Active, OneWaits, Devices, CapturesAreNew, MicTyped
  <2> QED
    BY <2>4, <2>5, <2>6, <2>7 DEF MicParts
<1>9. CASE ReportStopped(c)
  <2> DEFINE new == IdleMic
  <2>1. /\ mic' = [mic EXCEPT ![c] = new]
        /\ mic[c].at = "report" /\ Report(mic[c].existing, "stopped")
        /\ UNCHANGED <<next_capture, session, session_lock, device, worker, stop_requested,
                      cleanup_complete>>
    BY <1>9 DEF ReportStopped, MicTo
  <2>2. new \in MicCalls /\ new.at = "idle" /\ new.op = "none" /\ new.mine = 0
    BY <1>0, <1>i, <2>1 DEF MicCalls, MicSteps, CapturesAreNew, MicTyped
  <2> HIDE DEF new
  <2>3. /\ mic' \in [MicCallers -> MicCalls] /\ mic'[c] = new
        /\ \A d \in MicCallers : d # c => mic'[d] = mic[d]
    BY <1>0, <2>1, <2>2, MicGoesOn
  <2>4. MicTyped' /\ Devices'
    BY <1>0, <2>1, <2>2, <2>3 DEF MicTyped, Devices, WorkerSteps, MicCalls, Report, OneWaits
  <2>5. CapturesAreNew'
    BY <1>0, <2>1, <2>2, <2>3 DEF CapturesAreNew, MicTyped, Report, OneWaits
  <2>6. OneWaits'
    BY <1>0, <2>1, <2>2, <2>3 DEF OneWaits, MicTyped, Report, OneWaits
  <2>7. OneActive'
    BY <1>0, <2>1, <2>2, <2>3
    DEF OneActive, Active, OneWaits, Devices, CapturesAreNew, MicTyped, Report
  <2> QED
    BY <2>4, <2>5, <2>6, <2>7 DEF MicParts
<1> QED
  BY <1>1, <1>2, <1>3, <1>4, <1>5, <1>6, <1>7, <1>8, <1>9 DEF Command

LEMMA MicStep == MicInv /\ [Next]_vars => MicInv'
<1> SUFFICES ASSUME MicInv, [Next]_vars, shutdown' = "none" PROVE MicParts'
  BY DEF MicInv
<1>1. CASE shutdown = "none" /\ UNCHANGED micVars
  BY <1>1 DEF micVars, MicInv, MicParts, MicTyped, Devices, CapturesAreNew, OneWaits, OneActive,
              Active
<1>2. CASE UsesMicrophone
  BY <1>2, CommandsKeepMic, WorkersKeepMic DEF UsesMicrophone, shutdownVars, MicInv
<1>3. CASE UsesPanes \/ UsesPipe
  BY <1>1, <1>3 DEF UsesPanes, UsesPipe, shutdownVars
<1>4. ASSUME NEW a \in Apps, RequestShutdown(a) \/ RevokeToken(a) \/ ProcessEnds(a)
      PROVE  MicParts'
  BY <1>1, <1>4 DEF RequestShutdown, RevokeToken, ProcessEnds, shutdownVars
<1>5. CASE StopCapture \/ CaptureStopped \/ CaptureAbandoned \/ DrainPanes \/ Drained
           \/ \E g \in Gens : DrainOne(g)
  BY <1>5 DEF StopCapture, CaptureStopped, CaptureAbandoned, DrainPanes, Drained, DrainOne
<1>6. CASE UNCHANGED vars
  BY <1>1, <1>6 DEF vars, shutdownVars
<1> QED
  BY <1>2, <1>3, <1>4, <1>5, <1>6 DEF Next

LEMMA PartsGiveOne == MicInv => MicrophoneIsAccountedFor
<1> SUFFICES ASSUME MicParts PROVE OneMicrophone
  BY DEF MicInv, MicrophoneIsAccountedFor
<1>1. \A v \in Captures : device[v] = "open" => Active(v)
  BY DEF MicParts, Devices, Active, WithDevice
<1>2. session_lock # NoCaller => session = 0 /\ mic[session_lock].existing \in stop_requested
  BY DEF MicParts, OneWaits, MicTyped
<1>3. \A v \in Captures : device[v] = "open" => session = v \/ v \in stop_requested
  BY <1>1, <1>2 DEF MicParts, OneActive
<1>4. \A v, w \in Captures : device[v] = "open" /\ device[w] = "open" => v = w
  BY <1>1, <1>2, CapturesAssumption DEF MicParts, OneActive, Captures
<1>5. snapshot.state = "stopped" => device[snapshot.generation] # "open"
  BY DEF MicParts, MicTyped, Devices, WithDevice
<1> QED
  BY <1>3, <1>4, <1>5 DEF OneMicrophone

(* There is one microphone: no two workers have the device, and the call   *)
(* that takes the session's place has told the old one to leave            *)
(* (desktop_voice_capture_start, run_windows_voice_capture_worker).        *)
THEOREM OneDevice == Spec => []MicrophoneIsAccountedFor
<1>1. Init => MicInv
  BY MicStarts
<1>2. MicInv /\ [Next]_vars => MicInv'
  BY MicStep
<1>3. MicInv => MicrophoneIsAccountedFor
  BY PartsGiveOne
<1> QED
  BY <1>1, <1>2, <1>3, PTL DEF Spec

-----------------------------------------------------------------------------
(* The token of the control pipe.  The argument is about who has written a *)
(* token: while the name of the pipe keeps the others out, and no two      *)
(* applications that rotated live at once, only the one whose token is in  *)
(* the file can accept any.                                                *)

Lives == {"off", "running", "stopping", "exiting", "gone"}

ServerSteps == {"off", "disabled", "create", "previous", "write", "publish", "listen", "serve",
                "sleep"}

Tokens == Apps \union {None}

PipeTyped ==
    /\ life \in [Apps -> Lives] /\ server \in [Apps -> ServerSteps]
    /\ pipe \in Tokens /\ token_file \in Tokens /\ accepted \in Tokens
    /\ owned \in [Apps -> BOOLEAN] /\ grace \in [Apps -> BOOLEAN]
    /\ bootstrapped \in [Apps -> BOOLEAN]
    /\ previous \in [Apps -> Tokens] /\ asked \in [Apps -> Tokens]
    /\ holds \in [Clients -> Tokens]
    /\ rotations \subseteq Apps /\ superseded \subseteq rotations
    /\ rivalled \in BOOLEAN

(* The thread that serves runs in a process that lives, holds the pipe     *)
(* from creating it to closing it, and rotates its token once.             *)
Serving ==
    \A a \in Apps :
        /\ server[a] # "off" => Alive(a)
        /\ server[a] \in {"previous", "write", "publish", "listen", "serve"} => pipe = a
        /\ server[a] \in {"previous", "write", "publish"} => ~bootstrapped[a]
        /\ server[a] \in {"listen", "serve"} => bootstrapped[a]
        /\ life[a] = "off" => ~bootstrapped[a]
        /\ owned[a] => bootstrapped[a] /\ Alive(a)
        /\ bootstrapped[a] /\ life[a] \in {"running", "stopping"} => owned[a]
        /\ a \in rotations => bootstrapped[a] \/ server[a] = "publish" \/ life[a] = "gone"

Rotated(a) == Alive(a) /\ (bootstrapped[a] \/ server[a] = "publish")

(* Without rivals one living application has rotated, and as long as it    *)
(* knows its token that token is in the file.                              *)
OneToken ==
    ~rivalled =>
        /\ \A a, b \in Apps : Rotated(a) /\ Rotated(b) => a = b
        /\ \A a \in Apps : owned[a] \/ server[a] = "publish" => token_file = a

(* No token that can still be accepted is superseded.                      *)
DeadStayDead ==
    ~rivalled =>
        /\ accepted \notin superseded /\ token_file \notin superseded
        /\ \A a \in Apps : owned[a] \/ server[a] \in {"write", "publish"}
              => previous[a] \notin superseded

PipeInv == PipeTyped /\ Serving /\ OneToken /\ DeadStayDead

LEMMA PipeStarts == Init => PipeInv
<1> SUFFICES ASSUME Init PROVE PipeInv
  OBVIOUS
<1>1. PipeTyped /\ Serving
  BY RuntimeAssumption DEF Init, PipeInit, PipeTyped, Serving, Lives, ServerSteps, Tokens, Alive
<1>2. OneToken /\ DeadStayDead
  BY RuntimeAssumption DEF Init, PipeInit, OneToken, DeadStayDead, Rotated, Alive
<1> QED
  BY <1>1, <1>2 DEF PipeInv

(* What an application does, with the pipe and at its end.                 *)
PipeMove(a) == Launch(a) \/ PipeServer(a) \/ GraceEnds(a) \/ Shutdown(a) \/ Revoke(a) \/ Dies(a)

(* Types. *)
LEMMA MovesKeepTypes ==
    ASSUME PipeInv, NEW a \in Apps, PipeMove(a) PROVE PipeTyped'
<1> USE PipeAssumption DEF PipeInv, PipeTyped, Tokens, Alive, ServerAt, ServerTo, auth, history,
        Lives, ServerSteps
<1>1. CASE Launch(a)
  BY <1>1 DEF Launch
<1>2. CASE CreatePipe(a)
  BY <1>2 DEF CreatePipe
<1>3. CASE CreateFails(a)
  BY <1>3 DEF CreateFails
<1>4. CASE ReadPrevious(a)
  BY <1>4 DEF ReadPrevious
<1>5. CASE WriteToken(a)
  BY <1>5 DEF WriteToken
<1>6. CASE WriteTokenFails(a)
  BY <1>6 DEF WriteTokenFails, Released
<1>7. CASE PublishToken(a)
  BY <1>7 DEF PublishToken
<1>8. CASE ServeFails(a)
  BY <1>8 DEF ServeFails, Released
<1>9. CASE Resume(a)
  BY <1>9 DEF Resume
<1>10. CASE Serve(a)
  BY <1>10 DEF Serve, Authorized, PreviousAfter, AfterUse, Released
<1>11. CASE \E c \in Clients : Connect(a, c)
  BY <1>11 DEF Connect
<1>12. CASE GraceEnds(a)
  BY <1>12 DEF GraceEnds
<1>13. CASE Shutdown(a)
  BY <1>13 DEF Shutdown
<1>14. CASE Revoke(a)
  BY <1>14 DEF Revoke, Revokes
<1>15. CASE Dies(a)
  BY <1>15 DEF Dies, Released
<1> QED
  BY <1>1, <1>2, <1>3, <1>4, <1>5, <1>6, <1>7, <1>8, <1>9, <1>10, <1>11, <1>12, <1>13, <1>14,
     <1>15
  DEF PipeMove, PipeServer

(* The thread that serves. *)
LEMMA MovesKeepServing ==
    ASSUME PipeInv, NEW a \in Apps, PipeMove(a) PROVE Serving'
<1> USE PipeAssumption DEF PipeInv, PipeTyped, Tokens, Alive, ServerAt, ServerTo, auth, history,
        Serving
<1>1. CASE Launch(a)
  BY <1>1 DEF Launch
<1>2. CASE CreatePipe(a)
  BY <1>2 DEF CreatePipe
<1>3. CASE CreateFails(a)
  BY <1>3 DEF CreateFails
<1>4. CASE ReadPrevious(a)
  BY <1>4 DEF ReadPrevious
<1>5. CASE WriteToken(a)
  BY <1>5 DEF WriteToken
<1>6. CASE WriteTokenFails(a)
  BY <1>6 DEF WriteTokenFails, Released
<1>7. CASE PublishToken(a)
  BY <1>7 DEF PublishToken
<1>8. CASE ServeFails(a)
  BY <1>8 DEF ServeFails, Released
<1>9. CASE Resume(a)
  BY <1>9 DEF Resume
<1>10. CASE Serve(a)
  BY <1>10 DEF Serve, Authorized, PreviousAfter, AfterUse, Released
<1>11. CASE \E c \in Clients : Connect(a, c)
  BY <1>11 DEF Connect
<1>12. CASE GraceEnds(a)
  BY <1>12 DEF GraceEnds
<1>13. CASE Shutdown(a)
  BY <1>13 DEF Shutdown
<1>14. CASE Revoke(a)
  BY <1>14 DEF Revoke, Revokes
<1>15. CASE Dies(a)
  BY <1>15 DEF Dies, Released
<1> QED
  BY <1>1, <1>2, <1>3, <1>4, <1>5, <1>6, <1>7, <1>8, <1>9, <1>10, <1>11, <1>12, <1>13, <1>14,
     <1>15
  DEF PipeMove, PipeServer

(* A token is written while every other server is out of the pipe.         *)
LEMMA MovesKeepOneToken ==
    ASSUME PipeInv, NEW a \in Apps, PipeMove(a) PROVE OneToken'
<1> USE PipeAssumption DEF PipeInv, PipeTyped, Tokens, Alive, ServerAt, ServerTo, auth, history,
        Serving, OneToken, Rotated
<1>1. CASE Launch(a)
  BY <1>1 DEF Launch
<1>2. CASE CreatePipe(a)
  BY <1>2 DEF CreatePipe
<1>3. CASE CreateFails(a)
  BY <1>3 DEF CreateFails
<1>4. CASE ReadPrevious(a)
  BY <1>4 DEF ReadPrevious
<1>5. CASE WriteToken(a)
  BY <1>5 DEF WriteToken
<1>6. CASE WriteTokenFails(a)
  BY <1>6 DEF WriteTokenFails, Released
<1>7. CASE PublishToken(a)
  BY <1>7 DEF PublishToken
<1>8. CASE ServeFails(a)
  BY <1>8 DEF ServeFails, Released
<1>9. CASE Resume(a)
  BY <1>9 DEF Resume
<1>10. CASE Serve(a)
  BY <1>10 DEF Serve, Authorized, PreviousAfter, AfterUse, Released
<1>11. CASE \E c \in Clients : Connect(a, c)
  BY <1>11 DEF Connect
<1>12. CASE GraceEnds(a)
  BY <1>12 DEF GraceEnds
<1>13. CASE Shutdown(a)
  BY <1>13 DEF Shutdown
<1>14. CASE Revoke(a)
  BY <1>14 DEF Revoke, Revokes
<1>15. CASE Dies(a)
  BY <1>15 DEF Dies, Released
<1> QED
  BY <1>1, <1>2, <1>3, <1>4, <1>5, <1>6, <1>7, <1>8, <1>9, <1>10, <1>11, <1>12, <1>13, <1>14,
     <1>15
  DEF PipeMove, PipeServer

(* The previous token is read from the file, and forgotten when the server *)
(* accepts its own.                                                        *)
LEMMA MovesKeepDead ==
    ASSUME PipeInv, NEW a \in Apps, PipeMove(a) PROVE DeadStayDead'
<1> USE PipeAssumption DEF PipeInv, PipeTyped, Tokens, Alive, ServerAt, ServerTo, auth, history,
        Serving, OneToken, DeadStayDead, Rotated
<1>1. CASE Launch(a)
  BY <1>1 DEF Launch
<1>2. CASE CreatePipe(a)
  BY <1>2 DEF CreatePipe
<1>3. CASE CreateFails(a)
  BY <1>3 DEF CreateFails
<1>4. CASE ReadPrevious(a)
  BY <1>4 DEF ReadPrevious
<1>5. CASE WriteToken(a)
  BY <1>5 DEF WriteToken
<1>6. CASE WriteTokenFails(a)
  BY <1>6 DEF WriteTokenFails, Released
<1>7. CASE PublishToken(a)
  BY <1>7 DEF PublishToken
<1>8. CASE ServeFails(a)
  BY <1>8 DEF ServeFails, Released
<1>9. CASE Resume(a)
  BY <1>9 DEF Resume
<1>10. CASE Serve(a)
  BY <1>10 DEF Serve, Authorized, PreviousAfter, AfterUse, Released
<1>11. CASE \E c \in Clients : Connect(a, c)
  BY <1>11 DEF Connect
<1>12. CASE GraceEnds(a)
  BY <1>12 DEF GraceEnds
<1>13. CASE Shutdown(a)
  BY <1>13 DEF Shutdown
<1>14. CASE Revoke(a)
  BY <1>14 DEF Revoke, Revokes
<1>15. CASE Dies(a)
  BY <1>15 DEF Dies, Released
<1> QED
  BY <1>1, <1>2, <1>3, <1>4, <1>5, <1>6, <1>7, <1>8, <1>9, <1>10, <1>11, <1>12, <1>13, <1>14,
     <1>15
  DEF PipeMove, PipeServer

(* Every step of the desktop.                                              *)
LEMMA PipeStep == PipeInv /\ [Next]_vars => PipeInv'
<1> SUFFICES ASSUME PipeInv, [Next]_vars PROVE PipeInv'
  OBVIOUS
<1>1. ASSUME NEW a \in Apps, PipeMove(a) PROVE PipeInv'
  BY <1>1, MovesKeepTypes, MovesKeepServing, MovesKeepOneToken, MovesKeepDead DEF PipeInv
<1>2. CASE UNCHANGED pipeVars
  BY <1>2 DEF pipeVars, auth, history, PipeInv, PipeTyped, Serving, OneToken, DeadStayDead,
              Rotated, Alive
<1>3. ASSUME NEW c \in Clients, ReadToken(c) PROVE PipeInv'
  BY <1>3 DEF ReadToken, auth, history, PipeInv, PipeTyped, Serving, OneToken, DeadStayDead,
              Rotated, Alive, Tokens
<1>4. CASE UsesPanes \/ UsesMicrophone
  BY <1>2, <1>4 DEF UsesPanes, UsesMicrophone
<1>5. CASE UsesPipe
  BY <1>1, <1>3, <1>5 DEF UsesPipe, PipeMove
<1>6. ASSUME NEW a \in Apps, RequestShutdown(a) \/ RevokeToken(a) \/ ProcessEnds(a)
      PROVE  PipeInv'
  BY <1>1, <1>6 DEF RequestShutdown, RevokeToken, ProcessEnds, PipeMove
<1>7. CASE StopCapture \/ CaptureStopped \/ CaptureAbandoned \/ DrainPanes \/ Drained
           \/ \E g \in Gens : DrainOne(g)
  BY <1>2, <1>7 DEF StopCapture, CaptureStopped, CaptureAbandoned, DrainPanes, Drained, DrainOne
<1>8. CASE UNCHANGED vars
  BY <1>2, <1>8 DEF vars
<1> QED
  BY <1>4, <1>5, <1>6, <1>7, <1>8 DEF Next

LEMMA PipeAlways == Spec => []PipeInv
<1>1. Init => PipeInv
  BY PipeStarts
<1>2. PipeInv /\ [Next]_vars => PipeInv'
  BY PipeStep
<1> QED
  BY <1>1, <1>2, PTL DEF Spec

(* Whoever serves the pipe serves the token in the file                    *)
(* (bootstrap_control_pipe_token, revoke_control_pipe_token_on_exit).      *)
THEOREM FileTokenGetsIn == Spec => []TokenFileIsTheServers
<1>1. PipeInv => TokenFileIsTheServers
  BY DEF PipeInv, Serving, OneToken, TokenFileIsTheServers
<1> QED
  BY <1>1, PipeAlways, PTL

(* A superseded token is not accepted again, by the application that wrote *)
(* it or by a later one (authorize_rotated_or_file_token).                 *)
THEOREM DeadTokensAreRefused == Spec => []SupersededTokensAreRefused
<1>1. PipeInv => SupersededTokensAreRefused
  BY DEF PipeInv, DeadStayDead, SupersededTokensAreRefused
<1> QED
  BY <1>1, PipeAlways, PTL
=============================================================================
