CONSTANTS
  img = img
  att = att
  p1 = p1
  p2 = p2
  Proc = {p1, p2}
  Manifest <- ImageAndAttestation
  Subject <- Attached
  Tag = {latest}
  MediaType = {oci, docker}
  Settings <- AllSettings
  None = None
SPECIFICATION MSpec
SYMMETRY Symmetric
INVARIANTS
  TagsNameCompleteManifests
  AckedStaysComplete
  IndexMatchesStore
PROPERTIES
  ImplementsManifestStore
