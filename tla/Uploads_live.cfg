CONSTANTS
  p1 = p1
  p2 = p2
  i1 = i1
  i2 = i2
  p3 = p3
  a = a
  None = None
  Proc = {p1, p2, p3}
  Id = {i1}
  Stripe = {1}
  StripeOf <- OneStripe
  Byte = {a}
  Bodies <- OneByte
  Digest <- UpToOne
  Hash <- MCHash
  MaxSize = 1
SPECIFICATION FairSpec
PROPERTIES
  RequestsAnswered
