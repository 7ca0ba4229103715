SPECIFICATION TabsAlone
CONSTANTS
  Tabs = {t1}
  Categories = {c1}
  Codes = {A, B}
  Names = {n1}
  Lists = {"sections", "tags"}
  Slots = {s1}
  None = None
  MaxUses = 2
INVARIANT TagsResolve
CHECK_DEADLOCK FALSE
