SPECIFICATION Spec
CONSTANTS
  Roles <- MCRoles
  Regions <- MCRegions
  Names <- MCNames
  TRUSTED_ROOT <- MCRoot
  REVOKED = {"UNKNOWN_CA"}
INVARIANTS AcceptedBytesAllowed AcceptsExactly ChainValidExactly
