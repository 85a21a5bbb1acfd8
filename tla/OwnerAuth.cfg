\* Setup, login, exchange and revocation by two requests at a time.
SPECIFICATION FairSpec
CONSTANTS
  Client = {c1, c2}
  Email = {m1}
  Password = {p1, p2}
  Agent = {a1}
  OtpLife = 1
  AccessLife = 1
  RefreshLife = 2
INVARIANTS
  TypeOK
  OneOwner
  TokensNameTheirHolder
PROPERTIES
  LockedOutForGood
  RevokedIsLockedOut
