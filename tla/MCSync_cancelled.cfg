SPECIFICATION Spec
CONSTANTS
  ws = ws
  u1 = u1
  u2 = u2
  g1 = g1
  admin = admin
  reader = reader
  s1 = s1
  w1 = w1
  p1 = p1
  f1 = f1
  f2 = f2
  NoToken = NoToken
  None = None
  Workspace = ws
  Pages <- SmallPages
  MemberPages <- SmallMembers
  Holds <- RolesHeld
  NamesKind <- SmallNames
  Changing <- NoOne
  Ailments <- NoOne
  MaxAilments = 0
  MaxStops = 1
  Cancels = TRUE
  Deletable <- NoOne
  Newcomers <- NoOne
INVARIANTS CompleteHasAll
