SPECIFICATION AppSpec
CONSTANTS
  u1 = u1
  u2 = u2
  p1 = p1
  g1 = g1
  n1 = n1
  n2 = n2
  s1 = s1
  d1 = d1
  None = None
  User = {u1, u2}
  Phone = {p1}
  Greenhouse = {g1}
  Name = {n1, n2}
  Sessions = 4
  Calls = 2
  Sensor = {s1}
  Device = {d1}
  Fetches = 1
  SessionWorld <- SomeSessions
  MapWorld <- SomeMaps
INVARIANTS HomeIsTheUsers EditsAreExact
PROPERTY ScreensSettle
CHECK_DEADLOCK FALSE
