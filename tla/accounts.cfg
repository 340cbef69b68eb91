SPECIFICATION Spec
CONSTANTS
  FirstPort = 30100
  LastPort = 30102
  Users = {root, a}
  RootUser = root
  Servers = {s, t}
  None = None
  Slots = {h1, h2}
  Ops <- AnyRequest
SYMMETRY Interchangeable
INVARIANTS
  AccountsTypeOK
  OneRoot
  ResetWipes
PROPERTIES
  RootStaysPut
  StatementsAreAtomic
  PortsSharedByRacesOnly
