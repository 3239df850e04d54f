SPECIFICATION FairSpec
CONSTANTS
  Board = {b1, b2}
  Sensor = {s1}
  Device = {d1}
  MaxPosts = 2
INVARIANT AllOrNothing
PROPERTY FirstComeFirstServed
PROPERTY EveryPostEnds
CHECK_DEADLOCK FALSE
