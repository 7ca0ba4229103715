\* One user with one connection; the scheduler and one request; every error the code handles.
SPECIFICATION FairSpec
CONSTANTS
  None = None
  u1 = u1  u2 = u2
  Scheduler = scheduler
  Users <- OnlyOneUser
  Runners = {scheduler, request}
  Callers = {scheduler, request}
  Connections = {c1}
  Identities = {i1}
  RunIds = {1, 2}
  References = {1, 2}
  Orders = 2
  Faults = {}
INVARIANTS TypeOK RunKeepsItsRows ChallengeReachesRun RowShowsTheWait EndedRunsAreFinished OutcomeShown PauseFits
PROPERTY EveryRunEnds
