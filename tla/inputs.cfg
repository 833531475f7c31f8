\* Every text of up to seven symbols; lengths and limits to match.
SPECIFICATION InputsSpec
CONSTANTS
  EMAIL_MAX_LEN = 6
  LocalMax = 2
  PASSWORD_MIN_LEN = 2
  PASSWORD_MAX_LEN = 4
  USERNAME_MIN_LEN = 2
  USERNAME_MAX_LEN = 4
  MaxKey = 5
  DEFAULT_LIMIT = 3
  MAX_LIMIT = 10
  U32Max = 63
  MaxLength = 7
INVARIANTS
  AccountRules
  KeysNameObjects
  EventsFindTheirReaders
  PagesLieSideBySide
CHECK_DEADLOCK FALSE
