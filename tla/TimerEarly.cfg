SPECIFICATION Spec
CONSTANTS
  Req = {r1, r2}
  EXPIRE = EXPIRE
  MSEC = 2
INVARIANT
  NotEarly
