---------------------------- MODULE SecurityAccess ----------------------------
(***************************************************************************)
(* sim/security_access.py: challenge and response, retry counter, lockout. *)
(* The lockout flag and the authentication live in the process; the retry  *)
(* counter lives in NvM.  Nonces are numbered in the order the HSM draws   *)
(* them (a 32-byte random value does not repeat).  A signature is the role *)
(* whose key made it and the nonce it covers; Garbage verifies never.      *)
(***************************************************************************)
EXTENDS Integers

CONSTANTS
  Roles,           \* FlashRole; each role has a key of its own
  None,
  Garbage,         \* a response that is no signature of any role key
  MaxAuthRetries,  \* config.MAX_AUTH_RETRIES
  MaxChallenges,   \* bound: nonces drawn
  MaxPowerCycles   \* bound: process restarts

ASSUME SecurityAccessAssumption ==
  /\ MaxAuthRetries \in Nat \ {0}
  /\ MaxChallenges \in Nat
  /\ MaxPowerCycles \in Nat
  /\ None \notin Roles
  /\ None \notin Nat

VARIABLES
  pendingChallenge,  \* _pending_challenge
  pendingRole,       \* _pending_role: recorded, never read
  authenticated,     \* _authenticated
  role,              \* _role
  locked,            \* _locked
  retryCount,        \* NvM AUTH_RETRY_KEY
  hsmDown,           \* HSM._fail_mode
  \* history, for the bounds and the properties
  issued,            \* nonces drawn so far
  spent,             \* nonces a response to which was accepted
  powerCycles,       \* restarts so far
  streakCycles       \* restarts since retryCount was last zeroed

authVars == <<pendingChallenge, pendingRole, authenticated, role, locked,
              retryCount, issued, spent, streakCycles>>
saVars == <<authVars, hsmDown, powerCycles>>

Nonces == 1..issued
Responses == [key : Roles, over : Nonces] \cup {Garbage}

SecurityAccessTypeOK ==
  /\ issued \in 0..MaxChallenges
  /\ pendingChallenge \in Nonces \cup {None}
  /\ pendingRole \in Roles \cup {None}
  /\ authenticated \in BOOLEAN
  /\ role \in Roles \cup {None}
  /\ locked \in BOOLEAN
  /\ retryCount \in 0..(MaxAuthRetries + MaxPowerCycles)
  /\ hsmDown \in BOOLEAN
  /\ spent \subseteq Nonces
  /\ powerCycles \in 0..MaxPowerCycles
  /\ streakCycles \in 0..powerCycles

SecurityAccessInit ==
  /\ pendingChallenge = None
  /\ pendingRole = None
  /\ authenticated = FALSE
  /\ role = None
  /\ locked = FALSE
  /\ retryCount = 0
  /\ hsmDown = FALSE
  /\ issued = 0
  /\ spent = {}
  /\ powerCycles = 0
  /\ streakCycles = 0

-----------------------------------------------------------------------------
\* Mutant of GetChallenge: an earlier authentication stands.
GetChallengeKeepsAuth(r) ==
  /\ ~locked
  /\ ~hsmDown
  /\ issued < MaxChallenges
  /\ issued' = issued + 1
  /\ pendingChallenge' = issued + 1
  /\ pendingRole' = r
  /\ UNCHANGED <<authenticated, role, locked, retryCount, hsmDown, spent,
                 powerCycles, streakCycles>>

\* get_challenge.  AuthError("locked") and an unavailable HSM leave everything
\* as it is; an earlier role stays in _role.
GetChallenge(r) ==
  /\ ~locked
  /\ ~hsmDown
  /\ issued < MaxChallenges
  /\ issued' = issued + 1
  /\ pendingChallenge' = issued + 1
  /\ pendingRole' = r
  /\ authenticated' = FALSE
  /\ UNCHANGED <<role, locked, retryCount, hsmDown, spent, powerCycles,
                 streakCycles>>

\* CSM.verify_signature of the pending challenge under the claimed role's key.
ResponseValid(r, response) ==
  response = [key |-> r, over |-> pendingChallenge]

\* Mutant of CanVerify: the lockout is not looked at.
CanVerifyLocked == pendingChallenge # None /\ ~hsmDown

\* verify_response gets as far as the signature check.
CanVerify == ~locked /\ pendingChallenge # None /\ ~hsmDown

\* Mutant of VerifyAccepted: the challenge is not dropped.
VerifyAcceptedKeepsChallenge(r, response) ==
  /\ CanVerify
  /\ ResponseValid(r, response)
  /\ retryCount' = 0
  /\ streakCycles' = 0
  /\ authenticated' = TRUE
  /\ role' = r
  /\ spent' = spent \cup {pendingChallenge}
  /\ UNCHANGED <<pendingChallenge, pendingRole, locked, hsmDown, issued,
                 powerCycles>>

\* verify_response, signature valid.  The claimed role counts, not the role
\* the challenge was asked for.
VerifyAccepted(r, response) ==
  /\ CanVerify
  /\ ResponseValid(r, response)
  /\ retryCount' = 0
  /\ streakCycles' = 0
  /\ authenticated' = TRUE
  /\ role' = r
  /\ spent' = spent \cup {pendingChallenge}
  /\ pendingChallenge' = None
  /\ UNCHANGED <<pendingRole, locked, hsmDown, issued, powerCycles>>

\* The last retry locks.
LocksAt(count) == count >= MaxAuthRetries

\* Mutant of VerifyRejected: the count before this guess decides.
VerifyRejectedLate(r, response) ==
  /\ CanVerify
  /\ ~ResponseValid(r, response)
  /\ retryCount' = retryCount + 1
  /\ locked' = LocksAt(retryCount)
  /\ UNCHANGED <<pendingChallenge, pendingRole, authenticated, role, hsmDown,
                 issued, spent, powerCycles, streakCycles>>

\* verify_response, signature invalid: the challenge stays open.
VerifyRejected(r, response) ==
  /\ CanVerify
  /\ ~ResponseValid(r, response)
  /\ retryCount' = retryCount + 1
  /\ locked' = LocksAt(retryCount + 1)
  /\ UNCHANGED <<pendingChallenge, pendingRole, authenticated, role, hsmDown,
                 issued, spent, powerCycles, streakCycles>>

\* Mutant of ResetAuth: the flag of the authentication is not cleared.
ResetAuthKeepsFlag ==
  /\ role' = None
  /\ locked' = FALSE
  /\ pendingChallenge' = None
  /\ pendingRole' = None
  /\ retryCount' = 0
  /\ streakCycles' = 0
  /\ UNCHANGED <<authenticated, hsmDown, issued, spent, powerCycles>>

\* reset: part of every ECU reset, whoever asks for it.
ResetAuth ==
  /\ authenticated' = FALSE
  /\ role' = None
  /\ locked' = FALSE
  /\ pendingChallenge' = None
  /\ pendingRole' = None
  /\ retryCount' = 0
  /\ streakCycles' = 0
  /\ UNCHANGED <<hsmDown, issued, spent, powerCycles>>

\* HSM.simulate_failure
ToggleHsm == hsmDown' = ~hsmDown /\ UNCHANGED <<authVars, powerCycles>>

\* The process is started again: the attributes are what __init__ sets, the
\* retry counter is what NvM holds.
PowerCycle ==
  /\ powerCycles < MaxPowerCycles
  /\ powerCycles' = powerCycles + 1
  /\ streakCycles' = streakCycles + 1
  /\ pendingChallenge' = None
  /\ pendingRole' = None
  /\ authenticated' = FALSE
  /\ role' = None
  /\ locked' = FALSE
  /\ hsmDown' = FALSE
  /\ UNCHANGED <<retryCount, issued, spent>>

SecurityAccessNext ==
  \/ \E r \in Roles : GetChallenge(r)
  \/ \E r \in Roles, response \in Responses :
       VerifyAccepted(r, response) \/ VerifyRejected(r, response)
  \/ ResetAuth
  \/ ToggleHsm
  \/ PowerCycle

SecurityAccessSpec == SecurityAccessInit /\ [][SecurityAccessNext]_saVars

-----------------------------------------------------------------------------
\* A locked ECU is not authenticated: a lockout reached while a challenge is
\* open cannot leave an earlier authentication standing (get_challenge drops
\* it before the first guess is possible).
LockedNotAuthenticated == locked => ~authenticated

\* The routers and the DCM take the role "manufacturing", the most powerful
\* one, when get_role() is None; an authenticated ECU always has a role.
AuthenticatedHasRole == authenticated => role # None

\* No challenge authenticates twice, whatever failures, new challenges, resets
\* and restarts lie between the two responses.
ChallengeSingleUse ==
  [][\A r \in Roles, response \in Responses :
       VerifyAccepted(r, response) => pendingChallenge \notin spent]_saVars

\* Since the counter was last zeroed there were at most MaxAuthRetries guesses
\* and one more for every restart, which forgets the lockout but not the count;
\* without a restart the lockout is in force once the count reaches the limit.
LockoutBudget ==
  /\ retryCount <= MaxAuthRetries + streakCycles
  /\ streakCycles = 0 => (LocksAt(retryCount) <=> locked)
=============================================================================
