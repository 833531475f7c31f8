\* Two readers that block for two units of time and another caller;
\* the connection breaks once.
SPECIFICATION FairSpec
CONSTANTS
  Readers = {r1, r2}
  Callers = {p1}
  Block = 2
  MaxUnread = 2
  MaxWait = 6
  MaxBreaks = 1
INVARIANTS
  DelayBounded
  NothingMissed
PROPERTIES
  EveryCallReturns
