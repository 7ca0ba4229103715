\* One user, three jobs, every error the code handles.
SPECIFICATION Spec
CONSTANTS
  u1 = u1
  d1 = d1
  None = None
  Users <- OneUser
  Jobs = {j1, j2, j3}
  Owner <- OneOwner
  Keys = {k1, k2}
  Connections = {c1, c2}
  Databases = {d1}
  Home <- OneHome
  Faults = {}
SYMMETRY Interchangeable
INVARIANTS TypeOK PinsFitCheck KeyInHandIsCurrent RunsDecrypt KeptKeysFit
