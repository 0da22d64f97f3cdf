SPECIFICATION Spec
CONSTANTS
  Tasks = {t1, t2}
  Null = Null
  MaxFaults = 1
PROPERTY ExpiredIsForgotten
