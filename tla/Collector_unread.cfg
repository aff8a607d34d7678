CONSTANTS
  img = img
  att = att
  base = base
  app = app
  g1 = g1
  g2 = g2
  Manifest <- ImageAndAttestation
  Subject <- NoSubject
  MediaType = {oci}
  Blob <- Layers
  Needs <- SharedBase
  Proc = {p1}
  Tag = {latest}
  Gc = {g1, g2}
  Settings <- Unreadable
  None = None
SPECIFICATION CSpec
INVARIANT SettledImagesKeepBlobs
