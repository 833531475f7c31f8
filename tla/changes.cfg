\* Two handlers of one entity, three changes, one fault; lists of two at most,
\* asked for with a limit of none and of many.
SPECIFICATION Spec
CONSTANTS
  Writers = {w1, w2}
  MaxList = 2
  Limits = {0, 5}
  MaxChanges = 3
  MaxTime = 3
  MaxFaults = 1
INVARIANTS
  TypeOK
  MissingHasACause
PROPERTIES
  UndoTakesBackTheLast
CHECK_DEADLOCK FALSE
