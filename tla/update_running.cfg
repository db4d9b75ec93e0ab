SPECIFICATION SpecRunning
CONSTANTS
  None = None
  Roles <- MCRoles
  Regions <- MCRegions
  Requests <- MCRequests
  Bytes = {"x", "y"}
  Blocks <- TwoBlocks
  Images <- TwoImages
  Seqs = {1, 2}
  Versions = {1, 2, 3}
  MaxBytes = 2
  MaxKeyGen = 1
INVARIANTS ActiveIsCurrent PendingMeansInFlight
PROPERTIES ImplementsABUpdate CommitTakesEffect
