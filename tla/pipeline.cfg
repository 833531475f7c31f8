\* Two replicas on each side, one event, one fault of any kind on either side;
\* drainers and consumers are fair.
SPECIFICATION FairSpec
CONSTANTS
  BackoffBase = 1
  BackoffCap = 2
  MaxExponent = 1
  Events = {1}
  Drainers = {d1, d2}
  Limit = 1
  Consumers = {c1, c2}
  Count = 2
  DrainFaults = {"publish_rejected", "publish_reply_lost", "db_rejected", "db_reply_lost", "crash"}
  GroupFaults = {"read_reply_lost", "ack_reply_lost", "handler_failed", "crash"}
  MaxDrainFaults = 1
  MaxGroupFaults = 1
INVARIANTS
  HandledBounded
  SentIsAccountedFor
PROPERTIES
  EndToEnd
