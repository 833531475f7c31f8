\* One account that is a bot or a person, with three rights; three keys.
SPECIFICATION Spec
CONSTANTS
  Accounts = {a1}
  Rights = {"read", "write", "admin"}
  Keys = {k1, k2, k3}
  Lifetime = 1
  Leeway = 1
  NoToken = NoToken
  NoKid = NoKid
INVARIANTS
  TypeOK
  StaleRightsBounded
  GoodTokenAccepted
