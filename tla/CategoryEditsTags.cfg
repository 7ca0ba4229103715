SPECIFICATION Spec
CONSTANTS
  Tabs = {t1}
  Ids = {1}
  First = {1}
  Names = {n1}
  Codes = {code}
  Slots = {s1, s2}
  None = None
  Unknown = Unknown
  MaxUses = 2
PROPERTY TagsStayCurrent
CHECK_DEADLOCK FALSE
