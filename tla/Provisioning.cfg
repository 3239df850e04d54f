SPECIFICATION AnswerSpec
CONSTANTS
  Zone = {z1, z2}
  Sensor = {s1, s2}
  Device = {d1}
  Quantity = {temp}
  Value = {1}
  Null = null
  NoZone = nozone
  MaxWrites = 3
INVARIANT UntouchedIsExact
