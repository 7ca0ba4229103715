\* Two users, each with one connection, whose runs get the same ids; fairness.
SPECIFICATION FairSpec
CONSTANTS
  None = None
  u1 = u1  u2 = u2
  Scheduler = scheduler
  Users <- BothUsers
  Runners = {scheduler, request}
  Callers = {scheduler, request}
  Connections = {c1}
  Identities = {i1}
  RunIds = {1}
  References = {1}
  Orders = 1
  Faults = {}
PROPERTY TanWaitEnds
