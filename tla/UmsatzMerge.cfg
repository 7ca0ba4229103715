\* One text, two overlapping syncs, five days, pending bookings of the fourth.
SPECIFICATION Spec
CONSTANTS
  None = None
  Texts = {t1}
  LastDay = 5
  Copies = 3
  Posts = 3
  PendingDays = {4}
  Overlap = 1
  Initial = 2
  Delay = 1
  Syncs = {s1, s2}
SYMMETRY TheSyncs
INVARIANTS TypeOK NeverMoreThanBank OneMissingAtMost NoGaps
PROPERTY PendingFits
