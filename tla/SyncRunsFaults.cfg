\* One user with one connection; restarts, and failures that cannot be recorded.
SPECIFICATION Spec
CONSTANTS
  None = None
  u1 = u1  u2 = u2
  Scheduler = scheduler
  Users <- OnlyOneUser
  Runners = {scheduler, request}
  Callers = {scheduler, request}
  Connections = {c1}
  Identities = {i1, i2}
  RunIds = {1, 2}
  References = {1}
  Orders = 1
  Faults = {"restart", "recordFails"}
SYMMETRY TheIdentities
PROPERTY LogSpec
