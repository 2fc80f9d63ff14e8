---------------------------- MODULE SessionLease ----------------------------
(***************************************************************************)
(* What the remote session broker (core/crates/winsmux-remote-helper/      *)
(* src/session.rs) promises about agent sessions, seen through their       *)
(* controller leases: who may drive an agent, when a session can be taken  *)
(* over by another connection, and when it is over.  RemoteBroker          *)
(* implements this specification.                                          *)
(*                                                                         *)
(*   unborn       no row was ever registered                               *)
(*   starting     registered; PtyStarted has not been delivered            *)
(*   unconfirmed  PtyStarted delivered to a session-lifecycle-v1 client    *)
(*                that has not acknowledged it                             *)
(*   confirmed    acknowledged, or started by a client without the         *)
(*                capability                                               *)
(*   failed       PtyStarted could not be delivered                        *)
(*   ended        the row is gone for good                                 *)
(***************************************************************************)

CONSTANTS Sessions, Frontends, LifecycleFrontends, NoFrontend

VARIABLES stage, holder

vars == <<stage, holder>>

Stages == {"unborn", "starting", "unconfirmed", "confirmed", "failed", "ended"}

TypeOK == /\ stage \in [Sessions -> Stages]
          /\ holder \in [Sessions -> Frontends \union {NoFrontend}]

Init == /\ stage = [s \in Sessions |-> "unborn"]
        /\ holder = [s \in Sessions |-> NoFrontend]

Move(s, from, to, by) == /\ stage[s] = from
                         /\ holder[s] = by
                         /\ stage' = [stage EXCEPT ![s] = to]
                         /\ UNCHANGED holder

(* A connection registers the session it asked for and holds its lease.    *)
Register(s, f) == /\ stage[s] = "unborn"
                  /\ stage' = [stage EXCEPT ![s] = "starting"]
                  /\ holder' = [holder EXCEPT ![s] = f]

(* Its PtyStarted reaches the client: only a client that will not          *)
(* acknowledge it makes the session attachable at once.                    *)
Deliver(s, f) == Move(s, "starting",
                      IF f \in LifecycleFrontends THEN "unconfirmed" ELSE "confirmed", f)

FailDelivery(s, f) == Move(s, "starting", "failed", f)

(* PtyStartAck, by the holder itself.                                      *)
Confirm(s, f) == Move(s, "unconfirmed", "confirmed", f)

(* Only a confirmed session outlives its holder's lease ...                *)
Release(s, f) == /\ stage[s] = "confirmed"
                 /\ holder[s] = f
                 /\ holder' = [holder EXCEPT ![s] = NoFrontend]
                 /\ UNCHANGED stage

(* ... and only a session nobody holds can be taken.                       *)
Take(s, f) == /\ stage[s] = "confirmed"
              /\ holder[s] = NoFrontend
              /\ holder' = [holder EXCEPT ![s] = f]
              /\ UNCHANGED stage

(* The agent exits, is stopped, or is reaped with its unconfirmed start.   *)
End(s) == /\ stage[s] \notin {"unborn", "ended"}
          /\ stage' = [stage EXCEPT ![s] = "ended"]
          /\ holder' = [holder EXCEPT ![s] = NoFrontend]

Next == \E s \in Sessions :
          \/ End(s)
          \/ \E f \in Frontends : \/ Register(s, f) \/ Deliver(s, f) \/ FailDelivery(s, f)
                                  \/ Confirm(s, f) \/ Release(s, f) \/ Take(s, f)

Spec == Init /\ [][Next]_vars
=============================================================================
