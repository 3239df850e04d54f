SPECIFICATION BothSpec
CONSTANTS
  g1 = g1
  s1 = s1
  d1 = d1
  r1 = r1
  r2 = r2
  User = {u1, u2}
  Greenhouse = {g1}
  Zone = {1, 2}
  Board = {b1}
  Sensor = {s1}
  Device = {d1}
  Request = {r1, r2}
  Null = Null
  Absent = Absent
  World <- TwoWorlds
INVARIANTS NodesCanBeFound NothingLeftBehind ChecksStayTrue
PROPERTY ControllersAreInCustody
SYMMETRY Symmetry
