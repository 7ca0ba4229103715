SPECIFICATION Spec
CONSTANTS
  Tabs = {t1, t2}
  Rows = {1, 2}
  Pending = {2}
  Categories = {c1}
  Comments = {x}
  Blank = Blank
  TreeTabs = {tab}
  Ids = {1, 2, 3}
  First = {1, 2}
  Names = {n1}
  Codes = {code}
  Unknown = Unknown
  Slots = {s1, s2}
  MaxTreeUses = 2
  TaxTabs = {tab}
  TaxCodes = {A, B}
  TaxLists = {"sections"}
  TaxSlots = {s1, s2}
  MaxTaxUses = 2
  Lookups = {l1, l2}
  Databases = {d1, d2, d3}
  Allowed = {d1, d2}
  OldSchema = {d2}
  MaxPools = 2
  MaxSaves = 1
  MaxFaults = 1
  Identities = {"b1", "b2"}
  Labels = {"l1"}
  Methods = {"push", "photo"}
  Media = {"phone", "tablet"}
  Required = {"photo"}
  Offered <- OfferedByBanks
  Accounts = {"a1"}
  Kontos = {k1}
  MaxDialogUses = 3
  MaxOthers = 1
  None = None
  MaxUses = 2
INVARIANTS
  TypeOK
  ScreensFit
  LocksSuffice
  DialogsSound
  PoolsSound
PROPERTIES
  NoLostEdit
  AssignAllOrNothing
SYMMETRY Symmetry
CHECK_DEADLOCK FALSE
