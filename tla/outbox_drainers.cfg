\* Two replicas drain two events; every kind of fault, two at most;
\* the drainers are fair.
SPECIFICATION FairSpec
CONSTANTS
  BackoffBase = 1
  BackoffCap = 3
  MaxExponent = 2
  Events = {1, 2}
  Drainers = {d1, d2}
  Limit = 2
  FaultKinds = {"publish_rejected", "publish_reply_lost", "db_rejected", "db_reply_lost", "crash"}
  MaxFaults = 2
INVARIANTS
  TypeOK
  SentWasPublished
  DuplicatesBounded
PROPERTIES
  SentIsFinal
  ImplementsReliableDelivery
