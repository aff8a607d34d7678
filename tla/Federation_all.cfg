CONSTANTS
  p1 = p1
  p2 = p2
  first = first
  second = second
  Proc = {p1, p2}
  Binding = {1, 2}
  Kind = {"github", "user", "group", "azure"}
  Name = {acme}
  Identity = {first, second}
  Env = {prod}
  Settings <- AllSettings
  None = None
SPECIFICATION FSpec
SYMMETRY Symmetric
INVARIANTS
  OneHolder
  AcceptedOnRecord
