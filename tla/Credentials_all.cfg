SPECIFICATION KSpec
CONSTANTS
  p1 = p1
  p2 = p2
  s1 = s1
  s2 = s2
  i1 = i1
  i2 = i2
  i3 = i3
  Proc = {p1, p2}
  Session = {s1, s2}
  MaxRotation = 1
  Rotates = TRUE
  Inode = {i1, i2, i3}
  Settings <- AllSettings
  None = None
SYMMETRY Symmetric
INVARIANTS NeverHalfWritten LoggedOutStaysOut
PROPERTIES SignInKept SessionKeepsWorking
