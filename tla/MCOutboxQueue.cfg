\* Two dispatchers, two workers, two events: every interleaving and one crash.
CONSTANTS
  d1 = d1  d2 = d2  w1 = w1  w2 = w2
  Events <- MCEvents
  Mapped <- MCOneMapped
  Dispatchers = {d1, d2}
  Workers = {w1, w2}
  JobIds <- MCJobIds
  MaxAttempts = 2
  BatchSize = 2
  MaxFaults = 1
SPECIFICATION FairSpec
INVARIANTS
  TypeOK
  NoLostEvent
  ExclusiveClaim
  AckedOrExhausted
  RetriesBounded
PROPERTIES
  ImplementsDelivery
  EventuallySettled
