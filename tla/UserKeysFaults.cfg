\* One user, two jobs, every fault but a switch of databases; fairness.
SPECIFICATION FairSpec
CONSTANTS
  u1 = u1
  d1 = d1
  None = None
  Users <- OneUser
  Jobs = {j1, j2}
  Owner <- OneOwner
  Keys = {k1, k2}
  Connections = {c1}
  Databases = {d1}
  Home <- OneHome
  Faults = {"restart", "lostAck", "restoreFails", "setup"}
PROPERTIES AccessSpec EveryJobEnds
