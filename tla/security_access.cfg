SPECIFICATION SecurityAccessSpec
CONSTANTS
  Roles = {service, manufacturing}
  None = None
  Garbage = Garbage
  MaxAuthRetries = 3
  MaxChallenges = 4
  MaxPowerCycles = 2
INVARIANTS SecurityAccessTypeOK LockedNotAuthenticated AuthenticatedHasRole LockoutBudget
PROPERTIES ChallengeSingleUse
