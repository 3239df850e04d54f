SPECIFICATION FairSpec
CONSTANTS
  s1 = s1
  d1 = d1
  d2 = d2
  Sensor = {s1}
  Device = {d1, d2}
  Gateway = g
  Nobody = nobody
  World <- FourWorlds
INVARIANTS BuffersInStep UplinkInOrder
PROPERTIES PinsObeyInOrder  RadiosRecover
CHECK_DEADLOCK FALSE
