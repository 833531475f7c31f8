\* Half seconds; clocks a second apart; integers up to 15.
SPECIFICATION Spec
CONSTANTS
  Calls = {"call1", "call2"}
  Keys = {"key1", "key2"}
  MaxLifetime = 3
  Asked = {0, 3, 9}
  MaxPresign = 4
  Leeway = 2
  Second = 2
  MaxSkew = 2
  MaxI64 = 15
  MaxTime = 13
  None = None
INVARIANTS
  AcceptedWasSigned
  InTimeIsAccepted
  LinksEnd
CHECK_DEADLOCK FALSE
