\* One client, a key that is a prefix of the other, no fault.
SPECIFICATION Spec
CONSTANTS
  c1 = c1
  c2 = c2
  Keys <- NestedKeys
  Clients = {c1}
  Size <- OneSize
  MaxFaults = 0
INVARIANTS
  DeleteAbsentSucceeds
