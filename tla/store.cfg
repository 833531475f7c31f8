\* Either backend; two clients, two nested keys and one apart, one fault.
SPECIFICATION StorageSpec
CONSTANTS
  c1 = c1
  c2 = c2
  Keys <- SomeKeys
  Clients = {c1, c2}
  Size <- TwoSizes
  MaxFaults = 1
  NoObject = NoObject
  InPieces = InPieces
  NoKey = NoKey
INVARIANTS
  PiecesHaveACause
  AnswersAgree
  PutsFailForACause
PROPERTIES
  ImplementsObjectStore
