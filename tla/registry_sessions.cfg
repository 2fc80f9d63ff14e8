CONSTANTS
  n1 = n1
  n2 = n2
  u1 = u1
  u2 = u2
  s1 = s1
  s2 = s2
  s3 = s3
  Warm = Warm
  None = None
  Names = {n1, n2}
  Users = {u1, u2}
  Servers = {s1, s2, s3}
  Ops = {"new", "kill", "rename", "warmup", "ls"}
  MaxCommands = 2
SPECIFICATION Spec
CHECK_DEADLOCK FALSE
SYMMETRY Symmetric
INVARIANTS SessionIsFound StoppedLeavesNoFiles
