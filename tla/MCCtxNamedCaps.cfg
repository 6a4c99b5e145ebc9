SPECIFICATION Spec
CONSTANTS
  A = a
  B = b
  Bogus = bogus
  Names = {a, b}
  NoRule = NoRule
  NoString = NoString
  Malformed = Malformed
  Profiles <- NamedCapability
  Hosts <- AllHosts
  BuildFaults = {}
INVARIANTS
  HeldCapabilitiesCount
