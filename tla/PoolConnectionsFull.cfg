\* As many runs as connections.
SPECIFICATION FairSpec
CONSTANTS
  None = None
  Slots = {c1, c2, c3}
  Runs = {r1, r2, r3}
  Requests = {q1}
PROPERTY TanRequiredEnds
CHECK_DEADLOCK FALSE
