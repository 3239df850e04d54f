SPECIFICATION FairSpec
CONSTANTS
  Checks = {c1, c2}
  Metrics <- TwoMetrics
  Delay <- TwoDelays
  MaxDelay = 1
INVARIANTS TracksReadings RaisedIsAnnounced
PROPERTIES OnePushPerAlarm AlarmsHeal LastingBreakIsRaised
