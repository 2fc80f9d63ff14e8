------------------------ MODULE SummarySchedulerProofs ------------------------
(***************************************************************************)
(* The safety of SummaryScheduler for any projects and any number of       *)
(* requests.  One lemma says what starting a call does, one what ending a  *)
(* call does; the steps of the desktop follow from them.                   *)
(***************************************************************************)
EXTENDS SummaryScheduler, TLAPS

(* The call that Launch adds.                                              *)
Launched(run) ==
    [seq |-> refreshSequence + 1, key |-> project, run |-> run,
     previous |-> snapshot # Unset, step |-> "snapshot", of |-> Unset, quiet |-> FALSE]

(* What a step does to the calls and the flight: what every step of the    *)
(* scheduler has to preserve, apart from what the desktop shows.           *)
Tracked ==
    /\ NumbersAreGiven
    /\ FlightIsTracked
    /\ RefreshesAreCoalesced

(* Starting a call keeps the scheduler's book in order if no other current *)
(* call remains, or if this is the refresh at startup.                     *)
LEMMA LaunchKeepsTrack ==
    ASSUME TypeOK, Tracked, NEW run \in BOOLEAN, NEW others \in SUBSET calls,
           Launch(run, others), UNCHANGED newest,
           \/ (\A d \in others : d.seq # refreshSequence) /\ initial' = initial
           \/ initial /\ ~initial'
    PROVE  /\ Tracked'
           /\ calls' \subseteq Calls
           /\ refreshSequence' \in Nat
           /\ refreshInFlight' \in BOOLEAN
           /\ refreshInFlightProjectKey' \in Keys
<1> DEFINE new == Launched(run)
<1>1. /\ calls' = others \union {new}
      /\ refreshSequence' = refreshSequence + 1
      /\ refreshInFlight' = TRUE
      /\ refreshInFlightProjectKey' = project
  BY DEF Launch, Launched
<1>2. new.seq = refreshSequence + 1 /\ new.key = project
  BY DEF Launched
<1>3. new \in Calls
  BY DEF Launched, Calls, TypeOK, Keys
<1>4. /\ refreshSequence \in Nat
      /\ newest \in Nat
      /\ \A c \in calls : c.seq \in Nat
  BY DEF TypeOK, Calls
<1>5. \A c \in others : c.seq <= refreshSequence /\ c.seq \in Nat
  BY <1>4 DEF Tracked, NumbersAreGiven
<1>6. NumbersAreGiven'
  BY <1>1, <1>2, <1>4, <1>5 DEF Tracked, NumbersAreGiven
<1>7. FlightIsTracked'
  <2>1. \A c \in others : c.seq # refreshSequence + 1
    BY <1>4, <1>5
  <2>2. new \in calls' /\ new.seq = refreshSequence'
    BY <1>1, <1>2
  <2>3. \A c \in calls' : c.seq = refreshSequence' => c = new
    BY <1>1, <2>1
  <2>4. \A c, d \in calls' : c.seq = d.seq => c = d
    BY <1>1, <1>2, <2>1 DEF Tracked, FlightIsTracked
  <2> QED
    BY <1>1, <1>2, <2>2, <2>3, <2>4 DEF FlightIsTracked
<1>8. RefreshesAreCoalesced'
  <2> HIDE DEF new
  <2> SUFFICES ASSUME NEW c \in calls', c.seq # refreshSequence'
               PROVE  ~initial' /\ \A d \in calls' : d.seq \in {c.seq, refreshSequence'}
    BY DEF RefreshesAreCoalesced
  <2>1. c \in others
    BY <1>1, <1>2
  <2>2. CASE (\A d \in others : d.seq # refreshSequence) /\ initial' = initial
    <3>1. ~initial /\ \A d \in others : d.seq = c.seq
      BY <2>1, <2>2 DEF Tracked, RefreshesAreCoalesced
    <3> QED
      BY <1>1, <1>2, <2>2, <3>1
  <2>3. CASE initial /\ ~initial'
    <3>1. \A d \in others : d.seq = refreshSequence
      BY <2>3 DEF Tracked, RefreshesAreCoalesced
    <3> QED
      BY <1>1, <1>2, <2>1, <2>3, <3>1
  <2> QED
    BY <2>2, <2>3
<1> QED
  BY <1>1, <1>3, <1>4, <1>6, <1>7, <1>8 DEF Tracked, TypeOK

(* Ending a call keeps the book in order: what follows it in its flight is *)
(* the next call or nothing.                                               *)
LEMMA SettleKeepsTrack ==
    ASSUME TypeOK, Tracked, NEW c \in calls, Settle(c), UNCHANGED <<newest, initial>>
    PROVE  /\ Tracked'
           /\ calls' \subseteq Calls
           /\ refreshSequence' \in Nat
           /\ refreshInFlight' \in BOOLEAN
           /\ refreshInFlightProjectKey' \in Keys
           /\ queuedRunId' \in BOOLEAN
           /\ runningVersion' \in 0..requestedVersion
<1>1. CASE Superseded(c) /\ calls' = calls \ {c} /\ UNCHANGED scheduler
  BY <1>1 DEF TypeOK, Tracked, NumbersAreGiven, FlightIsTracked, RefreshesAreCoalesced, scheduler,
              Superseded
<1>2. CASE ~Superseded(c) /\ Behind /\ Flush(calls \ {c})
  <2>1. \A d \in calls \ {c} : d.seq # refreshSequence
    BY <1>2 DEF Superseded, Tracked, FlightIsTracked
  <2>2. Launch(queuedRunId, calls \ {c}) /\ queuedRunId \in BOOLEAN
    BY <1>2 DEF Flush, TypeOK
  <2>3. /\ queuedRunId' \in BOOLEAN
        /\ runningVersion' \in 0..requestedVersion
    <3>1. queuedRunId' = FALSE /\ runningVersion' = requestedVersion
      BY <1>2 DEF Flush, Claimed
    <3>2. requestedVersion \in 0..MaxRequests
      BY DEF TypeOK
    <3>3. runningVersion' \in 0..requestedVersion
      BY <3>1, <3>2, SchedulerAssumption DEF SchedulerAssumption
    <3> QED
      BY <3>1, <3>3
  <2> QED
    BY <2>1, <2>2, <2>3, LaunchKeepsTrack
<1>3. CASE /\ ~Superseded(c)
           /\ calls' = calls \ {c}
           /\ refreshInFlight' = FALSE
           /\ refreshInFlightProjectKey' = Unset
           /\ UNCHANGED <<refreshSequence, queuedRunId, runningVersion>>
  <2>1. \A d \in calls \ {c} : d.seq # refreshSequence
    BY <1>3 DEF Superseded, Tracked, FlightIsTracked
  <2> QED
    BY <1>3, <2>1 DEF TypeOK, Tracked, NumbersAreGiven, FlightIsTracked, RefreshesAreCoalesced,
                      Keys
<1> QED
  BY <1>1, <1>2, <1>3 DEF Settle

(* A call that goes on to its next await keeps its number and its key.     *)
LEMMA AdvanceKeepsTrack ==
    ASSUME TypeOK, Tracked, NEW c \in calls, NEW d \in Calls,
           d.seq = c.seq, d.key = c.key, calls' = (calls \ {c}) \union {d},
           UNCHANGED <<scheduler, initial>>, newest' \in {newest, c.seq}
    PROVE  Tracked' /\ calls' \subseteq Calls
<1>1. c.seq \in Nat /\ newest \in Nat /\ refreshSequence \in Nat
  BY DEF TypeOK, Calls
<1>2. NumbersAreGiven'
  BY <1>1 DEF Tracked, NumbersAreGiven, scheduler
<1>3. FlightIsTracked'
  BY DEF Tracked, FlightIsTracked, scheduler
<1>4. RefreshesAreCoalesced'
  BY DEF Tracked, RefreshesAreCoalesced, scheduler
<1> QED
  BY <1>2, <1>3, <1>4 DEF Tracked, TypeOK

(* The initial states satisfy the invariant.                               *)
LEMMA InitConsistent == Init => Consistent
<1> SUFFICES ASSUME Init
             PROVE  Consistent
  OBVIOUS
<1>1. TypeOK
  <2>1. /\ refreshInFlight \in BOOLEAN
        /\ refreshTimeout \in BOOLEAN
        /\ queuedRunId \in BOOLEAN
        /\ initial \in BOOLEAN
    BY DEF Init
  <2>2. /\ requestedVersion \in 0..MaxRequests
        /\ runningVersion \in 0..requestedVersion
        /\ refreshSequence \in Nat
        /\ newest \in Nat
    BY SchedulerAssumption DEF SchedulerAssumption, Init
  <2> QED
    BY <2>1, <2>2 DEF Init, TypeOK, Keys
<1>2. NumbersAreGiven /\ RefreshesAreCoalesced /\ SnapshotOfActiveProject
  BY DEF Init, NumbersAreGiven, RefreshesAreCoalesced, SnapshotOfActiveProject
<1>3. FlightIsTracked
  BY DEF Init, FlightIsTracked
<1> QED
  BY <1>1, <1>2, <1>3 DEF Consistent

(* A step that touches neither calls nor projects keeps the invariant.     *)
LEMMA IdleKeepsConsistent ==
    ASSUME Consistent, UNCHANGED <<calls, scheduler, newest>>,
           UNCHANGED <<project, snapshot, conversation, requestedVersion>>,
           refreshTimeout' \in BOOLEAN, initial' = FALSE \/ UNCHANGED initial, UNCHANGED failed
    PROVE  Consistent'
<1>1. TypeOK'
  <2>1. initial' \in BOOLEAN
    BY DEF Consistent, TypeOK
  <2> QED
    BY <2>1 DEF Consistent, TypeOK, scheduler
<1>2. NumbersAreGiven' /\ FlightIsTracked' /\ SnapshotOfActiveProject'
  BY DEF Consistent, NumbersAreGiven, FlightIsTracked, SnapshotOfActiveProject, scheduler
<1>3. RefreshesAreCoalesced'
  BY DEF Consistent, RefreshesAreCoalesced, scheduler
<1> QED
  BY <1>1, <1>2, <1>3 DEF Consistent

(* Every callback of the event loop keeps the invariant.                   *)
LEMMA StepConsistent == Consistent /\ [Next]_vars => Consistent'
<1> SUFFICES ASSUME Consistent, [Next]_vars
             PROVE  Consistent'
  OBVIOUS
<1> USE SchedulerAssumption DEF SchedulerAssumption
<1>t. TypeOK /\ Tracked /\ SnapshotOfActiveProject
  BY DEF Consistent, Tracked
<1>s. Tracked' /\ TypeOK' /\ SnapshotOfActiveProject' => Consistent'
  BY DEF Consistent, Tracked
<1>1. ASSUME NEW run \in BOOLEAN, Request(run)
      PROVE  Consistent'
  BY <1>1, <1>s, <1>t
     DEF Request, Ask, TypeOK, Tracked, NumbersAreGiven, FlightIsTracked, RefreshesAreCoalesced,
         SnapshotOfActiveProject
<1>2. ASSUME NEW p \in Projects, SwitchProject(p)
      PROVE  Consistent'
  <2>1. failed' \in BOOLEAN /\ refreshTimeout' \in BOOLEAN /\ queuedRunId' \in BOOLEAN
    <3>1. failed' = FALSE /\ refreshTimeout' = TRUE /\ queuedRunId' \in {queuedRunId, FALSE}
      BY <1>2 DEF SwitchProject, Ask
    <3> QED
      BY <1>t, <3>1 DEF TypeOK
  <2>2. Tracked' /\ SnapshotOfActiveProject'
    BY <1>2, <1>t DEF SwitchProject, Ask, Tracked, NumbersAreGiven, FlightIsTracked,
                      RefreshesAreCoalesced, SnapshotOfActiveProject
  <2>3. /\ requestedVersion' \in 0..MaxRequests
        /\ runningVersion' \in 0..requestedVersion'
    BY <1>2, <1>t DEF SwitchProject, Ask, TypeOK
  <2>4. /\ project' \in Keys
        /\ snapshot' \in Keys
        /\ conversation' \in Keys
        /\ UNCHANGED <<calls, refreshInFlight, refreshInFlightProjectKey, refreshSequence,
                       initial, newest>>
    BY <1>2, <1>t DEF SwitchProject, TypeOK, Keys
  <2>5. TypeOK'
    BY <1>t, <2>1, <2>3, <2>4 DEF TypeOK
  <2> QED
    BY <1>s, <2>2, <2>5
<1>3. CASE FireTimer
  <2>1. CASE ~refreshInFlight /\ Behind
    <3>1. /\ Launch(queuedRunId, calls)
          /\ queuedRunId' = FALSE
          /\ runningVersion' = requestedVersion
          /\ UNCHANGED <<project, snapshot, conversation, requestedVersion, initial, newest,
                         failed>>
          /\ refreshTimeout' = FALSE
      BY <1>3, <2>1 DEF FireTimer, Flush, Claimed
    <3>2. \A d \in calls : d.seq # refreshSequence
      BY <1>t, <2>1 DEF Tracked, FlightIsTracked
    <3>3. queuedRunId \in BOOLEAN /\ calls \in SUBSET calls
      BY <1>t DEF TypeOK
    <3>4. /\ Tracked'
          /\ calls' \subseteq Calls
          /\ refreshSequence' \in Nat
          /\ refreshInFlight' \in BOOLEAN
          /\ refreshInFlightProjectKey' \in Keys
      BY <1>t, <3>1, <3>2, <3>3, LaunchKeepsTrack
    <3>5. queuedRunId' \in BOOLEAN /\ refreshTimeout' \in BOOLEAN
      BY <3>1
    <3>6. runningVersion' \in 0..requestedVersion'
      BY <1>t, <3>1 DEF TypeOK
    <3> QED
      BY <1>s, <1>t, <3>1, <3>4, <3>5, <3>6 DEF TypeOK, SnapshotOfActiveProject
  <2>2. CASE ~(~refreshInFlight /\ Behind)
    <3>1. /\ UNCHANGED <<calls, scheduler, initial, newest, failed>>
          /\ UNCHANGED <<project, snapshot, conversation, requestedVersion>>
          /\ refreshTimeout' \in BOOLEAN
      BY <1>3, <2>2 DEF FireTimer
    <3> QED
      BY <1>t, <3>1, IdleKeepsConsistent
  <2> QED
    BY <2>1, <2>2
<1>4. CASE InitialRefresh
  <2>1. CASE refreshInFlight /\ refreshInFlightProjectKey = project
    <3>1. /\ UNCHANGED <<calls, scheduler, newest, failed>>
          /\ UNCHANGED <<project, snapshot, conversation, requestedVersion>>
          /\ refreshTimeout' \in BOOLEAN
          /\ initial' = FALSE
      BY <1>4, <1>t, <2>1 DEF InitialRefresh, TypeOK
    <3> QED
      BY <1>t, <3>1, IdleKeepsConsistent
  <2>2. CASE ~(refreshInFlight /\ refreshInFlightProjectKey = project)
    <3>1. /\ Launch(FALSE, calls)
          /\ UNCHANGED <<queuedRunId, runningVersion, project, snapshot, conversation,
                         refreshTimeout, requestedVersion, newest, failed>>
          /\ initial /\ ~initial' /\ initial' \in BOOLEAN
      BY <1>4, <2>2 DEF InitialRefresh
    <3>2. /\ Tracked'
          /\ calls' \subseteq Calls
          /\ refreshSequence' \in Nat
          /\ refreshInFlight' \in BOOLEAN
          /\ refreshInFlightProjectKey' \in Keys
      BY <1>t, <3>1, LaunchKeepsTrack
    <3> QED
      BY <1>s, <1>t, <3>1, <3>2 DEF TypeOK, SnapshotOfActiveProject
  <2> QED
    BY <2>1, <2>2
<1>5. ASSUME NEW c \in calls, NEW of \in Answers(c), ApplySnapshot(c, of)
      PROVE  Consistent'
  <2>1. c \in Calls /\ of \in Keys /\ c.key \in Keys /\ c.seq \in Nat
    BY <1>t DEF TypeOK, Calls, Answers, Keys
  <2>2. PICK prefetch \in BOOLEAN, quiet \in BOOLEAN :
          calls' = (calls \ {c}) \union
                     {[c EXCEPT !.step = IF prefetch THEN "explain" ELSE "attention",
                                !.of = of, !.quiet = quiet]}
    BY <1>5 DEF ApplySnapshot
  <2> DEFINE d == [c EXCEPT !.step = IF prefetch THEN "explain" ELSE "attention",
                            !.of = of, !.quiet = quiet]
  <2>3. d \in Calls /\ d.seq = c.seq /\ d.key = c.key
    BY <2>1 DEF Calls
  <2>4. Tracked' /\ calls' \subseteq Calls
    <3> HIDE DEF d
    <3>1. /\ newest' \in {newest, c.seq}
          /\ UNCHANGED <<scheduler, initial>>
      BY <1>5 DEF ApplySnapshot
    <3>2. calls' = (calls \ {c}) \union {d}
      BY <2>2 DEF d
    <3> QED
      BY <1>t, <2>3, <3>1, <3>2, AdvanceKeepsTrack
  <2>5. project' \in Keys /\ project' = of /\ snapshot' = of
    BY <1>5, <2>1 DEF ApplySnapshot, Current
  <2>6. TypeOK'
    BY <1>5, <1>t, <2>1, <2>4, <2>5 DEF ApplySnapshot, TypeOK, scheduler
  <2> QED
    BY <1>s, <2>4, <2>5, <2>6 DEF SnapshotOfActiveProject
<1>6. ASSUME NEW c \in calls,
             Settle(c),
             UNCHANGED <<project, snapshot, refreshTimeout, requestedVersion, initial, newest>>,
             conversation' \in Keys,
             failed' \in BOOLEAN
      PROVE  Consistent'
  <2>1. /\ Tracked'
        /\ calls' \subseteq Calls
        /\ refreshSequence' \in Nat
        /\ refreshInFlight' \in BOOLEAN
        /\ refreshInFlightProjectKey' \in Keys
        /\ queuedRunId' \in BOOLEAN
        /\ runningVersion' \in 0..requestedVersion
    BY <1>6, <1>t, SettleKeepsTrack
  <2> QED
    BY <1>6, <1>s, <1>t, <2>1 DEF TypeOK, SnapshotOfActiveProject
<1>7. ASSUME NEW c \in calls, NEW of \in Answers(c), IgnoreSnapshot(c, of)
      PROVE  Consistent'
  <2>1. failed' \in BOOLEAN
    BY <1>7 DEF IgnoreSnapshot
  <2>2. conversation' \in Keys
    BY <1>7, <1>t DEF IgnoreSnapshot, TypeOK
  <2> QED
    BY <1>6, <1>7, <2>1, <2>2 DEF IgnoreSnapshot
<1>8. ASSUME NEW c \in calls, Fail(c)
      PROVE  Consistent'
  <2>1. failed' \in BOOLEAN
    BY <1>8 DEF Fail
  <2>2. conversation' \in Keys
    BY <1>8, <1>t DEF Fail, TypeOK
  <2> QED
    BY <1>6, <1>8, <2>1, <2>2 DEF Fail
<1>9. ASSUME NEW c \in calls, Explained(c)
      PROVE  Consistent'
  <2> DEFINE d == [c EXCEPT !.step = "attention"]
  <2>1. c \in Calls
    BY <1>t DEF TypeOK
  <2>2. d \in Calls /\ d.seq = c.seq /\ d.key = c.key
    BY <2>1 DEF Calls
  <2>3. calls' = (calls \ {c}) \union {d}
    BY <1>9 DEF Explained
  <2> HIDE DEF d
  <2>4. UNCHANGED <<scheduler, initial>> /\ newest' \in {newest, c.seq}
    BY <1>9 DEF Explained
  <2>5. Tracked' /\ calls' \subseteq Calls
    BY <1>t, <2>2, <2>3, <2>4, AdvanceKeepsTrack
  <2> QED
    BY <1>9, <1>s, <1>t, <2>5 DEF Explained, TypeOK, SnapshotOfActiveProject, scheduler
<1>10. ASSUME NEW c \in calls, Render(c)
       PROVE  Consistent'
  <2>1. conversation' \in Keys
    BY <1>10, <1>t DEF Render, TypeOK, Calls
  <2>2. failed' = failed /\ failed \in BOOLEAN
    BY <1>10, <1>t DEF Render, TypeOK
  <2> QED
    BY <1>6, <1>10, <2>1, <2>2 DEF Render
<1>11. CASE UNCHANGED vars
  BY <1>11, <1>s, <1>t
     DEF vars, scheduler, TypeOK, Tracked, NumbersAreGiven, FlightIsTracked,
         RefreshesAreCoalesced, SnapshotOfActiveProject
<1> QED
  BY <1>1, <1>2, <1>3, <1>4, <1>5, <1>7, <1>8, <1>9, <1>10, <1>11 DEF Next, Go, Goes

(* The invariant that carries the other theorems of the scheduler.         *)
THEOREM SchedulerConsistent == Spec => []Consistent
<1>1. Init => Consistent
  BY InitConsistent
<1>2. Consistent /\ [Next]_vars => Consistent'
  BY StepConsistent
<1> QED
  BY <1>1, <1>2, PTL DEF Spec

(* The flight that refresh hands to its next caller is the one call under  *)
(* way that nothing superseded (refresh, its finally block, flushQueue).   *)
THEOREM FlightTracked == Spec => []FlightIsTracked
<1>1. Consistent => FlightIsTracked
  BY DEF Consistent
<1> QED
  BY <1>1, SchedulerConsistent, PTL

(* The snapshot on display is the active project's, for any number of      *)
(* projects, switches and requests (isCurrent, setActiveProjectDir).       *)
THEOREM ShowsActiveProject == Spec => []SnapshotOfActiveProject
<1>1. Consistent => SnapshotOfActiveProject
  BY DEF Consistent
<1> QED
  BY <1>1, SchedulerConsistent, PTL

(* Refreshes overlap only at startup (refresh, flushQueue, request).       *)
THEOREM Coalesces == Spec => []RefreshesAreCoalesced
<1>1. Consistent => RefreshesAreCoalesced
  BY DEF Consistent
<1> QED
  BY <1>1, SchedulerConsistent, PTL

(* A snapshot never replaces one that was asked for later (isCurrent).     *)
THEOREM NewestStays == Spec => NewestWins
<1>1. Consistent /\ [Next]_vars => [newest' >= newest]_vars
  <2> SUFFICES ASSUME Consistent, Next
               PROVE  newest' >= newest
    BY DEF vars
  <2>1. newest \in Nat /\ refreshSequence \in Nat /\ newest <= refreshSequence
    BY DEF Consistent, TypeOK, NumbersAreGiven
  <2>2. ASSUME NEW c \in calls, NEW of \in Answers(c), ApplySnapshot(c, of)
        PROVE  newest' = refreshSequence
    BY <2>2 DEF ApplySnapshot, Current
  <2>3. \/ newest' = newest
        \/ \E c \in calls : \E of \in Answers(c) : ApplySnapshot(c, of)
    BY DEF Next, Go, Goes, Request, SwitchProject, FireTimer, InitialRefresh, IgnoreSnapshot, Fail,
           Explained, Render
  <2> QED
    BY <2>1, <2>2, <2>3
<1> QED
  BY <1>1, SchedulerConsistent, PTL DEF Spec, NewestWins

=============================================================================
