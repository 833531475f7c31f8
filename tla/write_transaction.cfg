\* One request.
SPECIFICATION Spec
CONSTANTS
  Requests = {r1}
INVARIANTS
  SameTransaction
CHECK_DEADLOCK FALSE
