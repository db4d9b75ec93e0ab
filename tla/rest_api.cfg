SPECIFICATION RestSpec
CONSTANTS
  None = None
  Garbage = Garbage
  Roles <- MCRoles
  TesterRoles = {"manufacturing"}
  Tester = "manufacturing"
  Regions <- MCRegions
  Requests <- MCRequests
  Open <- MCOpen
  Closed <- MCClosed
  Bytes = {"x", "y"}
  Blocks <- MCBlocks
  Images <- MCImages
  Good <- MCGood
  Bad <- MCBad
  Seqs = {1}
  Versions = {2, 3}
  MaxBytes = 1
  MaxKeyGen = 1
  MaxAuthRetries = 1
  MaxChallenges = 2
  Slots = {s1, s2}
SYMMETRY SlotSymmetry
INVARIANTS RestTypeOK ScenariosPass StoredImagesVerify
PROPERTIES RollbackNeedsScenario AnswerIsCurrent
