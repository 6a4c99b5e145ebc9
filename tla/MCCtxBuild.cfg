SPECIFICATION Spec
CONSTANTS
  A = a
  B = b
  Bogus = bogus
  Names = {a, b}
  NoRule = NoRule
  NoString = NoString
  Malformed = Malformed
  Profiles <- AllProfiles
  Hosts <- AllHosts
  BuildFaults = {"runtime", "init", "alloc"}
INVARIANTS
  CtxTypeOK
  FilterMatchesProfile
  TracerPolicy
  ContextOwned
