\* expected to fail: the leap seconds are subtracted twice
SPECIFICATION TimesSpec
CONSTANTS
  Resources = {r1}
  Threads = {t1}
  LeapSeconds = 1
  Horizon = 3
  GarbageKeys = {0}
  Delays = {0, 1, 2}
  None = None
INVARIANTS NotBeforeDue
CHECK_DEADLOCK FALSE
