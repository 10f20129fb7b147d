SPECIFICATION Spec
CONSTANTS
  ws = ws
  u1 = u1
  u2 = u2
  g1 = g1
  admin = admin
  reader = reader
  s1 = s1
  w1 = w1
  p1 = p1
  f1 = f1
  f2 = f2
  NoToken = NoToken
  None = None
  Workspace = ws
  Pages <- SmallPages
  MemberPages <- SmallMembers
  Holds <- ReaderHeld
  NamesKind <- SmallNames
  Changing <- LateChanges
  Ailments <- AllIlls
  MaxAilments = 1
  MaxStops = 2
  Cancels = FALSE
  Deletable = {u2, g1}
  Newcomers = {u1, admin}
INVARIANTS NothingForgotten CompleteHasAll GrantsResolve CompleteHasGrants CompleteHasEntitlements
