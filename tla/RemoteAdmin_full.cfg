CONSTANTS
  p1 = p1
  p2 = p2
  c1 = c1
  c2 = c2
  old = old
  new = new
  Proc = {p1, p2}
  Client = {c1, c2}
  Password = {old, new}
  Perms = {nothing, push}
  NoAccess = nothing
  Settings <- FullSettings
  None = None
SPECIFICATION RSpec
SYMMETRY Symmetric
INVARIANT
  FullRestoresFullAccess
