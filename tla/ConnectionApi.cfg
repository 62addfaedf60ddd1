\* a sender and a receiver, the receiver's time between the sender's two
SPECIFICATION FairSpec
CONSTANTS
  Senders = {s1}
  Receivers = {r1}
  Tai = {1, 2, 3}
  Early = 1
  Late = 3
  Between = 2
  TimesOf <- SenderTimes
  Params = {p1}
  HasPoster = TRUE
  Past = Past
  Garbage = {2, Past}
  None = None
INVARIANTS TypeOK SendersHaveNoGhosts LockedMeansPending Settled
PROPERTIES PatchIsAnswered
