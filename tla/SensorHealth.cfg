SPECIFICATION HealthFairSpec
CONSTANTS
  Sensors = {s1, s2}
  Sweeps = {w1, w2}
  MaxAge = 2
PROPERTIES OnePushPerSilence MarksSettle
