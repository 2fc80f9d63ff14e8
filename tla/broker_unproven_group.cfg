CONSTANTS
  f1 = f1
  f2 = f2
  s1 = s1
  NoFrontend = NoFrontend
  NoSession = NoSession
  Frontends = {f1}
  LifecycleFrontends = {f1}
  Sessions = {s1}
  NoisyAgents = {}
  Faults = {"cleanup"}
SPECIFICATION FairSpec
CHECK_DEADLOCK FALSE
PROPERTIES UnprovenGroupIsKilledByGuardian
