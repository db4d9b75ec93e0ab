SPECIFICATION Spec
CONSTANTS
  None = None
  Roles <- MCRoles
  Regions <- MCRegions
  Requests <- MCRequests
  Bytes = {"x", "y"}
  Blocks <- OneBlock
  Images <- OneImage
  Seqs = {1}
  Versions = {1, 2, 3}
  MaxBytes = 1
  MaxKeyGen = 3
PROPERTIES NoCommitAfterAbort
