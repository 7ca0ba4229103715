\* A restart between the two databases.
SPECIFICATION Spec
CONSTANTS
  u1 = u1
  d1 = d1
  None = None
  Users <- OneUser
  Jobs = {j1}
  Owner <- OneOwner
  Keys = {k1, k2}
  Connections = {c1}
  Databases = {d1}
  Home <- OneHome
  Faults = {"restart"}
INVARIANT PinsFitCheck
