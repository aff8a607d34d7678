CONSTANTS
  None = None
  alice = alice
  bob = bob
  app = app
  lib = lib
  tools = tools
  s1 = s1
  s2 = s2
  Proc = {p1}
  Server = {s1, s2}
  Settings <- SomeSettings
  MaxKeys = 3
  Credential = {c1}
  Namespace = {alice, bob}
  Repo <- Repos
  OwnerOf <- Owners
  Grants <- SomeGrants
  Scopes <- SomeScopes
  TTL = 2
  Leeway = 1
  MaxTime = 5
  MaxTokens = 1
SPECIFICATION TSpec
SYMMETRY Symmetric
INVARIANTS
  AccessExpires
  ChallengeLeadsIn
  KeySurvives
