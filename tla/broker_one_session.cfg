CONSTANTS
  f1 = f1
  f2 = f2
  s1 = s1
  NoFrontend = NoFrontend
  NoSession = NoSession
  Frontends = {f1, f2}
  LifecycleFrontends = {f1}
  Sessions = {s1}
  NoisyAgents = {s1}
  Faults = {"spawn", "thread", "cleanup", "crash"}
SPECIFICATION FairSpec
CHECK_DEADLOCK FALSE
INVARIANTS
  LeaseAgreement AttachableIsConfirmed UnconfirmedDiesWithFrontend
  GuardedWhileAlive EndingsAreTrue OneEnding OutputInsideLease FrontendsAreCounted
PROPERTIES
  ExitAfterStarted KeepsLease
  HandlersReturn EndIsAnnounced NothingOutlivesTheBroker
