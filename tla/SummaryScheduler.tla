--------------------------- MODULE SummaryScheduler ---------------------------
(***************************************************************************)
(* How the desktop keeps its summary up to date                            *)
(* (winsmux-app/src/desktopSummaryScheduler.ts and its use in main.ts):    *)
(* requests are coalesced by a timer, one refresh at a time reads a        *)
(* snapshot and renders it over several awaits, and the user may switch    *)
(* to another project between any two of them.                             *)
(*                                                                         *)
(* One action is one callback of the event loop, from one await to the     *)
(* next.  Live events and the fallback timers of the scheduler are         *)
(* requests at any time; a run id is only told apart from none.            *)
(***************************************************************************)
EXTENDS Integers

CONSTANTS
    Projects,
    Unset,                \* no project, and what belongs to none
    MaxRequests,          \* bound on requestedVersion
    Faults                \* failures of the backend that may happen

(* "read": the snapshot cannot be read; "mismatch": it is another          *)
(* project's.                                                              *)
ASSUME SchedulerAssumption == /\ MaxRequests \in Nat
                              /\ Unset \notin Projects
                              /\ Faults \subseteq {"read", "mismatch"}

VARIABLES
    project,                    \* activeProjectDir
    snapshot,                   \* the project of desktopSummarySnapshot
    conversation,               \* the project backendConversation was built for
    calls,                      \* the calls of refresh that are under way
    refreshInFlight,            \* is there a promise that refresh returns again
    refreshInFlightProjectKey,
    refreshSequence,
    refreshTimeout,             \* is a timer set
    queuedRunId,                \* is a run id queued
    requestedVersion, runningVersion,
    initial,                    \* the refresh at startup is still due
    newest,                     \* history: the sequence of the last applied snapshot
    failed                      \* history: no snapshot came of a read since the switch

scheduler == <<refreshInFlight, refreshInFlightProjectKey, refreshSequence, queuedRunId,
               runningVersion>>
vars == <<project, snapshot, conversation, calls, scheduler, refreshTimeout, requestedVersion,
          initial, newest, failed>>

Keys == Projects \union {Unset}

(* A call remembers what it read before its awaits: the request, and       *)
(* whether there was a snapshot to compare with (previousSnapshot).  "of"  *)
(* is the project of what it read; a quiet one found no change to render.  *)
Calls == [seq : Nat, key : Keys, run : BOOLEAN, previous : BOOLEAN,
          step : {"snapshot", "explain", "attention"}, of : Keys, quiet : BOOLEAN]

TypeOK ==
    /\ project \in Keys
    /\ snapshot \in Keys
    /\ conversation \in Keys
    /\ calls \subseteq Calls
    /\ refreshInFlight \in BOOLEAN
    /\ refreshInFlightProjectKey \in Keys
    /\ refreshSequence \in Nat
    /\ refreshTimeout \in BOOLEAN
    /\ queuedRunId \in BOOLEAN
    /\ requestedVersion \in 0..MaxRequests
    /\ runningVersion \in 0..requestedVersion
    /\ initial \in BOOLEAN
    /\ newest \in Nat
    /\ failed \in BOOLEAN

(* The project of the last session may be stored (main.ts).                *)
Init ==
    /\ project \in Keys
    /\ snapshot = Unset
    /\ conversation = Unset
    /\ calls = {}
    /\ refreshInFlight = FALSE
    /\ refreshInFlightProjectKey = Unset
    /\ refreshSequence = 0
    /\ refreshTimeout = FALSE
    /\ queuedRunId = FALSE
    /\ requestedVersion = 0
    /\ runningVersion = 0
    /\ initial = TRUE
    /\ newest = 0
    /\ failed = FALSE

-----------------------------------------------------------------------------
(* Helpers. *)

(* A call of refresh up to its first await.                                *)
Launch(run, others) ==
    /\ refreshSequence' = refreshSequence + 1
    /\ refreshInFlight' = TRUE
    /\ refreshInFlightProjectKey' = project
    /\ calls' = others \union
          {[seq |-> refreshSequence + 1, key |-> project, run |-> run,
            previous |-> snapshot # Unset, step |-> "snapshot", of |-> Unset, quiet |-> FALSE]}

Behind == runningVersion < requestedVersion

(* flushQueue, when no refresh is in flight: the call it starts answers    *)
(* every request so far.                                                   *)
Claimed == requestedVersion

Flush(others) ==
    /\ queuedRunId' = FALSE
    /\ runningVersion' = Claimed
    /\ Launch(queuedRunId, others)

-----------------------------------------------------------------------------
(* Mutations: mistakes this code could make, each in place of the          *)
(* definition whose name it extends.  Nothing else refers to them.         *)

Current_OfAnyProject(c) == c.seq = refreshSequence

Current_OfAnySequence(c) == project = c.key

Settle_WithoutFlush(c) ==
    /\ calls' = calls \ {c}
    /\ refreshInFlight' = (refreshInFlight /\ c.seq # refreshSequence)
    /\ refreshInFlightProjectKey' =
          IF c.seq # refreshSequence THEN refreshInFlightProjectKey ELSE Unset
    /\ UNCHANGED <<refreshSequence, queuedRunId, runningVersion>>

SwitchProject_Silently(p) ==
    /\ project # p
    /\ project' = p
    /\ snapshot' = Unset
    /\ conversation' = Unset
    /\ failed' = FALSE
    /\ requestedVersion < MaxRequests
    /\ UNCHANGED <<calls, scheduler, refreshTimeout, requestedVersion, initial, newest>>

-----------------------------------------------------------------------------
(* The scheduler. *)

(* A later call took over: this one is neither applied nor accounted for.  *)
Superseded(c) == c.seq # refreshSequence

(* isCurrent.                                                              *)
Current(c) == c.seq = refreshSequence /\ project = c.key

(* The finally block of refresh: the last call to start clears the flight  *)
(* and goes on with what was requested meanwhile.                          *)
Settle(c) ==
    \/ /\ Superseded(c)
       /\ calls' = calls \ {c}
       /\ UNCHANGED scheduler
    \/ /\ ~Superseded(c)
       /\ Behind
       /\ Flush(calls \ {c})
    \/ /\ ~Superseded(c)
       /\ ~Behind
       /\ calls' = calls \ {c}
       /\ refreshInFlight' = FALSE
       /\ refreshInFlightProjectKey' = Unset
       /\ UNCHANGED <<refreshSequence, queuedRunId, runningVersion>>

(* request: the version counts, the newest run id wins, the timer restarts. *)
Ask(run) ==
    /\ requestedVersion < MaxRequests
    /\ requestedVersion' = requestedVersion + 1
    /\ queuedRunId' = (queuedRunId \/ run)
    /\ refreshTimeout' = TRUE

Request(run) ==
    /\ Ask(run)
    /\ UNCHANGED <<project, snapshot, conversation, calls, refreshInFlight,
                   refreshInFlightProjectKey, refreshSequence, runningVersion, initial, newest,
                   failed>>

(* A timer that fires during a refresh leaves the request to its end.      *)
FireTimer ==
    /\ refreshTimeout
    /\ refreshTimeout' = FALSE
    /\ IF ~refreshInFlight /\ Behind
       THEN Flush(calls)
       ELSE UNCHANGED <<calls, scheduler>>
    /\ UNCHANGED <<project, snapshot, conversation, requestedVersion, initial, newest, failed>>

-----------------------------------------------------------------------------
(* The desktop. *)

(* scheduleInitialDesktopRefresh calls refresh itself, which joins a       *)
(* flight for the same project and supersedes any other.                   *)
InitialRefresh ==
    /\ initial
    /\ initial' = FALSE
    /\ IF refreshInFlight /\ refreshInFlightProjectKey = project
       THEN UNCHANGED <<calls, scheduler>>
       ELSE Launch(FALSE, calls) /\ UNCHANGED <<queuedRunId, runningVersion>>
    /\ UNCHANGED <<project, snapshot, conversation, refreshTimeout, requestedVersion, newest,
                   failed>>

(* setActiveProjectDir: resetDesktopProjectState, and a request.           *)
SwitchProject(p) ==
    /\ project # p
    /\ project' = p
    /\ snapshot' = Unset
    /\ conversation' = Unset
    /\ failed' = FALSE
    /\ Ask(FALSE)
    /\ UNCHANGED <<calls, refreshInFlight, refreshInFlightProjectKey, refreshSequence,
                   runningVersion, initial, newest>>

(* What the backend answers: without a project, that of its own choice.    *)
Answers(c) == IF c.key = Unset \/ "mismatch" \in Faults THEN Projects ELSE {c.key}

(* refreshDesktopSummaryFromScheduler after its first await: a snapshot is *)
(* applied if the call is current and the project is the one it asked for; *)
(* the first snapshot chooses the project when there is none.  Whether an  *)
(* explanation is fetched next, and whether anything worth rendering       *)
(* changed, depends on the data.                                           *)
ApplySnapshot(c, of) ==
    /\ c.step = "snapshot"
    /\ Current(c)
    /\ c.key = Unset \/ c.key = of
    /\ project' = IF project = Unset THEN of ELSE project
    /\ snapshot' = of
    /\ newest' = c.seq
    /\ \E prefetch, quiet \in BOOLEAN :
          /\ quiet => c.previous /\ ~c.run /\ ~prefetch
          /\ calls' = (calls \ {c}) \union
                {[c EXCEPT !.step = IF prefetch THEN "explain" ELSE "attention",
                           !.of = of, !.quiet = quiet]}
    /\ UNCHANGED <<conversation, scheduler, refreshTimeout, requestedVersion, initial, failed>>

IgnoreSnapshot(c, of) ==
    /\ c.step = "snapshot"
    /\ ~Current(c) \/ (c.key # Unset /\ c.key # of)
    /\ Settle(c)
    /\ failed' = (failed \/ Current(c))
    /\ UNCHANGED <<project, snapshot, conversation, refreshTimeout, requestedVersion, initial,
                   newest>>

(* An error is logged and ends the call.                                   *)
Fail(c) ==
    /\ "read" \in Faults
    /\ c.step = "snapshot"
    /\ Settle(c)
    /\ failed' = (failed \/ Current(c))
    /\ UNCHANGED <<project, snapshot, conversation, refreshTimeout, requestedVersion, initial,
                   newest>>

(* The explanation arrives, or its error is logged; the attention center   *)
(* handles its own errors.                                                 *)
Explained(c) ==
    /\ c.step = "explain"
    /\ calls' = (calls \ {c}) \union {[c EXCEPT !.step = "attention"]}
    /\ UNCHANGED <<project, snapshot, conversation, scheduler, refreshTimeout, requestedVersion,
                   initial, newest, failed>>

(* After the last await the conversation is built from the snapshot that   *)
(* this call read.                                                         *)
Render(c) ==
    /\ c.step = "attention"
    /\ conversation' = IF c.quiet THEN conversation ELSE c.of
    /\ Settle(c)
    /\ UNCHANGED <<project, snapshot, refreshTimeout, requestedVersion, initial, newest, failed>>

-----------------------------------------------------------------------------
Goes(c) == \/ \E of \in Answers(c) : ApplySnapshot(c, of) \/ IgnoreSnapshot(c, of)
           \/ Fail(c) \/ Explained(c) \/ Render(c)

Go == \E c \in calls : Goes(c)

Next == \/ \E run \in BOOLEAN : Request(run)
        \/ \E p \in Projects : SwitchProject(p)
        \/ FireTimer \/ InitialRefresh \/ Go

(* Timers fire and the backend answers.                                    *)
Fairness == WF_vars(FireTimer) /\ WF_vars(InitialRefresh) /\ WF_vars(Go)

Spec == Init /\ [][Next]_vars

FairSpec == Spec /\ Fairness

-----------------------------------------------------------------------------
(* Properties. *)

(* The snapshot on display is the active project's, whenever it was asked  *)
(* for and however often the user switched since                           *)
(* (refreshDesktopSummaryFromScheduler, setActiveProjectDir).              *)
SnapshotOfActiveProject == snapshot # Unset => snapshot = project

(* A snapshot never replaces one that was asked for later, even after the  *)
(* user left the project and came back (isCurrent).                        *)
NewestWins == [][newest' >= newest]_vars

(* The scheduler's idea of the refresh in flight is true: exactly one call *)
(* that nothing superseded is under way, for the recorded project, and     *)
(* none is forgotten (refresh, its finally block, flushQueue).             *)
FlightIsTracked ==
    /\ refreshInFlight <=> \E c \in calls : c.seq = refreshSequence
    /\ \A c \in calls : c.seq = refreshSequence => c.key = refreshInFlightProjectKey
    /\ \A c, d \in calls : c.seq = d.seq => c = d

(* The sequence numbers behind both: calls and the last applied snapshot   *)
(* are no newer than the last call.  With the properties above this is     *)
(* what every step preserves.                                              *)
NumbersAreGiven == newest <= refreshSequence /\ \A c \in calls : c.seq <= refreshSequence

(* Requests are coalesced: refreshes overlap only when the one at startup  *)
(* overtook one for another project (refresh, FireTimer's guard).          *)
RefreshesAreCoalesced ==
    \A c \in calls : c.seq # refreshSequence =>
        ~initial /\ \A d \in calls : d.seq \in {c.seq, refreshSequence}

(* The inductive invariant of the proofs.                                  *)
Consistent ==
    /\ TypeOK
    /\ NumbersAreGiven
    /\ FlightIsTracked
    /\ SnapshotOfActiveProject
    /\ RefreshesAreCoalesced

(* A request is followed by a refresh that starts after it, also when its  *)
(* timer fired during another one (request, the finally block).            *)
RequestsAreServed ==
    \A v \in 1..MaxRequests : requestedVersion = v ~> runningVersion >= v

(* Once a project is chosen, its snapshot is shown, also when requests and *)
(* switches overlap and earlier reads fail, unless the read that counts    *)
(* fails or answers for another project (setActiveProjectDir): that one is *)
(* not repeated.                                                           *)
SwitchIsShown == snapshot = Unset ~> (snapshot # Unset \/ failed)

(* "Ignoring desktop summary for a different project": what the desktop    *)
(* says it does with one.                                                  *)
RendersActiveProject == conversation # Unset => conversation = project

=============================================================================
