SPECIFICATION Spec
CONSTANTS
  Tasks = {t1, t2}
  Null = Null
  MaxFaults = 0
INVARIANT NoNonceReused
