CONSTANTS
  r1 = r1
  r2 = r2
  front = front
  realm = realm
  Registry = {r1, r2}
  Settings <- SomeSettings
  Host = {front, realm}
  Sites <- SomeSites
  Dir = {1, 2}
  Store = {desktop}
  Faults = {"kill", "fail"}
  Modes = {"auto", "browser", "device"}
  Wait = 2
  Lifetime = 6
  Announced = {0, 2}
  None = None
SPECIFICATION LSpec
INVARIANTS
  LoginTellsTheTruth
  HelperBehindEntry
PROPERTIES
  NeverHammers
  SignInEnds
  KeepsOtherKeys
CHECK_DEADLOCK FALSE
