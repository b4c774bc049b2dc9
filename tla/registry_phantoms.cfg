SPECIFICATION Spec
CONSTANTS
  Companies = {c1, c2, c3}
  Monitor = monitor
  Uppers = {u1, u2}
  Slots = 2
  Free = free
  MaxSoil = 2
INVARIANTS
  NoPhantoms
CHECK_DEADLOCK FALSE
