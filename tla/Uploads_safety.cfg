CONSTANTS
  p1 = p1
  p2 = p2
  i1 = i1
  i2 = i2
  p3 = p3
  a = a
  None = None
  Proc = {p1, p2}
  Id = {i1, i2}
  Stripe = {1}
  StripeOf <- OneStripe
  Byte = {a}
  Bodies <- OneByte
  Digest <- UpToTwo
  Hash <- MCHash
  MaxSize = 2
SPECIFICATION Spec
SYMMETRY Symmetric
INVARIANTS
  TypeOK
  BlobIntegrity
  SidecarSound
  GetServesDigest
  OnlyCrashLeaks
PROPERTIES
  ClosedNeverWritten
  ImplementsContentStore
