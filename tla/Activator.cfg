\* two threads, two resources, three activation times
SPECIFICATION FairSpec
CONSTANTS
  Resources = {r1, r2}
  Threads = {t1, t2}
  LeapSeconds = 0
  Horizon = 2
  GarbageKeys = {0, 2}
  None = None
INVARIANTS TypeOK NoOversleep
PROPERTIES ErasesWhatItRan ImplementsQueue QueueEverythingRuns
\* after ~Activator() nothing is left to do
CHECK_DEADLOCK FALSE
