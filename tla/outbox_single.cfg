\* One fair drainer, three events, batches of two; publications fail up to
\* four times: the delays 1, 2, 3 by the cap, and 3 by the clamp.
SPECIFICATION FairHSpec
CONSTANTS
  BackoffBase = 1
  BackoffCap = 3
  MaxExponent = 2
  Events = {1, 2, 3}
  Drainers = {d1}
  Limit = 2
  FaultKinds = {"publish_rejected", "publish_reply_lost"}
  MaxFaults = 4
INVARIANTS
  AttemptsExact
PROPERTIES
  SentNotRepublished
  RetriesBackOff
  OldestFirst
  EventuallySent
