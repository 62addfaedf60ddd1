\* expected to fail: a second sender scheduled for a time that is taken
SPECIFICATION Spec
CONSTANTS
  Senders = {s1, s2}
  Receivers = {}
  Tai = {1, 2}
  Early = 1
  Late = 2
  Between = 1
  TimesOf <- SharedTimes
  Params = {p1}
  HasPoster = TRUE
  Past = Past
  Garbage = {1, 2, Past}
  None = None
INVARIANTS LockedMeansPending
