SPECIFICATION FairSpec
CONSTANTS
  u1 = u1
  u2 = u2
  g1 = g1
  x1 = x1
  admin = admin
  reader = reader
  ws = ws
  s1 = s1
  s2 = s2
  t1 = t1
  t2 = t2
  t3 = t3
  Role = {admin, reader}
  Resource = {ws, s1, s2}
  NoRole = NoRole
  None = None
  User = {u1, u2}
  Group = {g1}
  Stranger = {x1}
  Task = {t1, t2}
  Request <- AllRequests
  MaxWorkers = 1
  InitialAccess <- NoAccess
  AdminAccess <- NoAccess
  BlankAnswers = TRUE
  LateWrites = TRUE
INVARIANTS TypeOK SlotsBalance
PROPERTIES AtomicSpec EveryTaskIsOver
