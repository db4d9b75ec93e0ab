SPECIFICATION DCMSpec
CONSTANTS
  None = None
  Garbage = Garbage
  Roles <- MCRoles
  Regions <- MCRegions
  Requests <- ProtectedRequests
  Bytes = {"x"}
  Blocks <- OneByteBlock
  Images <- BothImages
  Seqs = {1}
  Versions = {1}
  MaxBytes = 1
  MaxKeyGen = 2
  MaxAuthRetries = 2
  MaxChallenges = 2
  Timeout = 1
  CounterMax = 2
PROPERTY ExitCommitsTransferred
