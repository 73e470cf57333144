SPECIFICATION Spec
CONSTANTS
  r1 = r1
  r2 = r2
  Requests = {r1, r2}
  MaxVersions = 3
CHECK_DEADLOCK FALSE
SYMMETRY Symmetry
INVARIANTS
  VersionsSound
  CallIsOneVersion
PROPERTIES
  PublishedImmutable
  NothingInvalidGoesLive
