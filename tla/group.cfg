\* Two fair consumers, two streams with broken entries among the others, every
\* kind of fault, two at most.
SPECIFICATION FairSpec
CONSTANTS
  Streams = {task, doc}
  Consumers = {c1, c2}
  Messages = {event, foreign}
  Broken = {foreign}
  Count = 2
  MaxEntries = 2
  FaultKinds = {"read_reply_lost", "ack_reply_lost", "handler_failed", "crash"}
  MaxFaults = 2
INVARIANTS
  TypeOK
  NothingLost
  HandledOnce
PROPERTIES
  OrphansStay
  EventuallySettled
  EventuallyHandled
CHECK_DEADLOCK FALSE
