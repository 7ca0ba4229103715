\* Fewer runs than connections: three connections, two runs, two other requests.
SPECIFICATION FairSpec
CONSTANTS
  None = None
  Slots = {c1, c2, c3}
  Runs = {r1, r2}
  Requests = {q1, q2}
INVARIANTS TypeOK QueueFits NoneKept NeverStuck
PROPERTY EveryTaskEnds
