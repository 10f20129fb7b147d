SPECIFICATION Spec
CONSTANTS
  ws = ws
  u1 = u1
  g1 = g1
  admin = admin
  reader = reader
  s1 = s1
  f1 = f1
  Role = {admin, reader}
  Resource = {ws, s1, f1}
  NoRole = NoRole
  NoToken = NoToken
  None = None
  Workspace = ws
  Pages <- SmallPages
  MemberPages <- SmallMembers
  NamesKind <- SmallNames
  InitialLists <- Lists
  MaxLength <- SmallLength
INVARIANTS TypeOK
PROPERTIES CommandShows ListsActAsSets SeenIsRevocable StopTakesNothing
