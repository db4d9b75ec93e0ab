------------------------- MODULE SecurityAccessProofs -------------------------
(***************************************************************************)
(* The invariants of SecurityAccess for every set of roles, every retry    *)
(* limit and every bound on nonces and restarts.                           *)
(***************************************************************************)
EXTENDS SecurityAccess, TLAPS

\* An open challenge excludes an authentication and is not yet spent: what
\* makes LockedNotAuthenticated and ChallengeSingleUse inductive.
OpenChallenge ==
  pendingChallenge # None => ~authenticated /\ pendingChallenge \notin spent

\* An unlocked ECU has a guess left in the budget.
GuessLeft == ~locked => retryCount < MaxAuthRetries + streakCycles

IInv ==
  /\ SecurityAccessTypeOK
  /\ OpenChallenge
  /\ LockedNotAuthenticated
  /\ AuthenticatedHasRole
  /\ GuessLeft
  /\ LockoutBudget

\* The type invariant by the theories its conjuncts belong to.
BooleansOK == authenticated \in BOOLEAN /\ locked \in BOOLEAN /\ hsmDown \in BOOLEAN
CountersOK ==
  /\ issued \in 0..MaxChallenges
  /\ retryCount \in 0..(MaxAuthRetries + MaxPowerCycles)
  /\ powerCycles \in 0..MaxPowerCycles
  /\ streakCycles \in 0..powerCycles
ReferencesOK ==
  /\ pendingChallenge \in Nonces \cup {None}
  /\ pendingRole \in Roles \cup {None}
  /\ role \in Roles \cup {None}
  /\ spent \subseteq Nonces

\* The parts make up the type invariant.
LEMMA TypeParts == SecurityAccessTypeOK <=> BooleansOK /\ CountersOK /\ ReferencesOK
  BY DEF SecurityAccessTypeOK, BooleansOK, CountersOK, ReferencesOK

\* The initial state satisfies the inductive invariant (SecurityAccess.__init__).
LEMMA InitIInv == SecurityAccessInit => IInv
<1> SUFFICES ASSUME SecurityAccessInit PROVE IInv
  OBVIOUS
<1> USE SecurityAccessAssumption DEF SecurityAccessAssumption, SecurityAccessInit
<1>1. SecurityAccessTypeOK
  <2>1. BooleansOK
    BY DEF BooleansOK
  <2>2. CountersOK
    BY DEF CountersOK
  <2>3. ReferencesOK
    BY DEF ReferencesOK, Nonces
  <2> QED BY <2>1, <2>2, <2>3, TypeParts
<1>2. OpenChallenge /\ LockedNotAuthenticated /\ AuthenticatedHasRole
  BY DEF OpenChallenge, LockedNotAuthenticated, AuthenticatedHasRole
<1>3. GuessLeft
  BY DEF GuessLeft
<1>4. LockoutBudget
  BY DEF LockoutBudget, LocksAt
<1> QED BY <1>1, <1>2, <1>3, <1>4 DEF IInv

\* Every call, reset, HSM failure and restart preserves it.
LEMMA StepIInv == IInv /\ [SecurityAccessNext]_saVars => IInv'
<1> SUFFICES ASSUME IInv, [SecurityAccessNext]_saVars PROVE IInv'
  OBVIOUS
<1>t. BooleansOK /\ CountersOK /\ ReferencesOK
  BY TypeParts DEF IInv
<1>q. ASSUME BooleansOK', CountersOK', ReferencesOK', OpenChallenge',
             LockedNotAuthenticated', AuthenticatedHasRole', GuessLeft', LockoutBudget'
      PROVE  IInv'
  BY <1>q DEF IInv, SecurityAccessTypeOK, BooleansOK, CountersOK, ReferencesOK
<1> USE <1>t, SecurityAccessAssumption
        DEF IInv, BooleansOK, CountersOK, ReferencesOK, OpenChallenge, GuessLeft,
            Nonces, LockedNotAuthenticated, AuthenticatedHasRole, LockoutBudget,
            LocksAt, SecurityAccessAssumption
<1>1. ASSUME NEW r \in Roles, GetChallenge(r) PROVE IInv'
  <2> USE <1>1 DEF GetChallenge
  <2>1. BooleansOK'    OBVIOUS
  <2>2. CountersOK'    OBVIOUS
  <2>3. ReferencesOK'  OBVIOUS
  <2>4. OpenChallenge' OBVIOUS
  <2>5. LockedNotAuthenticated' /\ AuthenticatedHasRole' OBVIOUS
  <2>6. GuessLeft' /\ LockoutBudget' OBVIOUS
  <2> QED BY <1>q, <2>1, <2>2, <2>3, <2>4, <2>5, <2>6
<1>2. ASSUME NEW r \in Roles, NEW response \in Responses,
             VerifyAccepted(r, response)
      PROVE  IInv'
  <2> USE <1>2 DEF VerifyAccepted, CanVerify
  <2>1. BooleansOK'    OBVIOUS
  <2>2. CountersOK'    OBVIOUS
  <2>3. ReferencesOK'  OBVIOUS
  <2>4. OpenChallenge' OBVIOUS
  <2>5. LockedNotAuthenticated' /\ AuthenticatedHasRole' OBVIOUS
  <2>6. GuessLeft' /\ LockoutBudget' OBVIOUS
  <2> QED BY <1>q, <2>1, <2>2, <2>3, <2>4, <2>5, <2>6
<1>3. ASSUME NEW r \in Roles, NEW response \in Responses,
             VerifyRejected(r, response)
      PROVE  IInv'
  <2> USE <1>3 DEF VerifyRejected, CanVerify
  <2>1. BooleansOK'    OBVIOUS
  <2>2. CountersOK'    OBVIOUS
  <2>3. ReferencesOK'  OBVIOUS
  <2>4. OpenChallenge' OBVIOUS
  <2>5. LockedNotAuthenticated' /\ AuthenticatedHasRole' OBVIOUS
  <2>6. GuessLeft' /\ LockoutBudget'
    <3>1. retryCount < MaxAuthRetries + streakCycles
      OBVIOUS
    <3>2. retryCount' = retryCount + 1 /\ streakCycles' = streakCycles
      OBVIOUS
    <3>3. locked' <=> retryCount' >= MaxAuthRetries
      OBVIOUS
    <3>4. LockoutBudget'
      BY <3>1, <3>2, <3>3
    <3>5. GuessLeft'
      BY <3>2, <3>3
    <3> QED BY <3>4, <3>5
  <2> QED BY <1>q, <2>1, <2>2, <2>3, <2>4, <2>5, <2>6
<1>4. CASE ResetAuth
  <2> USE <1>4 DEF ResetAuth
  <2>1. BooleansOK'    OBVIOUS
  <2>2. CountersOK'    OBVIOUS
  <2>3. ReferencesOK'  OBVIOUS
  <2>4. OpenChallenge' OBVIOUS
  <2>5. LockedNotAuthenticated' /\ AuthenticatedHasRole' OBVIOUS
  <2>6. GuessLeft' /\ LockoutBudget' OBVIOUS
  <2> QED BY <1>q, <2>1, <2>2, <2>3, <2>4, <2>5, <2>6
<1>5. CASE ToggleHsm
  <2> USE <1>5 DEF ToggleHsm, authVars
  <2>1. BooleansOK'   OBVIOUS
  <2>2. CountersOK' /\ ReferencesOK' OBVIOUS
  <2>3. OpenChallenge' /\ LockedNotAuthenticated' /\ AuthenticatedHasRole' OBVIOUS
  <2>4. GuessLeft' /\ LockoutBudget' OBVIOUS
  <2> QED BY <1>q, <2>1, <2>2, <2>3, <2>4
<1>6. CASE PowerCycle
  <2> USE <1>6 DEF PowerCycle
  <2>1. BooleansOK'    OBVIOUS
  <2>2. CountersOK'    OBVIOUS
  <2>3. ReferencesOK'  OBVIOUS
  <2>4. OpenChallenge' OBVIOUS
  <2>5. LockedNotAuthenticated' /\ AuthenticatedHasRole' OBVIOUS
  <2>6. GuessLeft' /\ LockoutBudget' OBVIOUS
  <2> QED BY <1>q, <2>1, <2>2, <2>3, <2>4, <2>5, <2>6
<1>7. CASE UNCHANGED saVars
  BY <1>7 DEF saVars, authVars, SecurityAccessTypeOK
<1> QED BY <1>1, <1>2, <1>3, <1>4, <1>5, <1>6, <1>7 DEF SecurityAccessNext

\* Every reachable state satisfies the inductive invariant.
THEOREM Invariance == SecurityAccessSpec => []IInv
  BY InitIInv, StepIInv, PTL DEF SecurityAccessSpec

\* All attributes keep their types and the counters their bounds: the retry
\* counter of NvM exceeds the limit by no more than the restarts.
THEOREM TypeCorrect == SecurityAccessSpec => []SecurityAccessTypeOK
<1>1. IInv => SecurityAccessTypeOK
  BY DEF IInv
<1> QED BY <1>1, Invariance, PTL

\* verify_response, get_challenge: a locked ECU is never authenticated.
THEOREM LockoutExcludesAuthentication == SecurityAccessSpec => []LockedNotAuthenticated
<1>1. IInv => LockedNotAuthenticated
  BY DEF IInv
<1> QED BY <1>1, Invariance, PTL

\* The "manufacturing" default of the routers and the DCM is never taken by an
\* authenticated ECU.
THEOREM RoleOfAuthenticated == SecurityAccessSpec => []AuthenticatedHasRole
<1>1. IInv => AuthenticatedHasRole
  BY DEF IInv
<1> QED BY <1>1, Invariance, PTL

\* The guesses since the counter was zeroed are bounded by the limit plus one
\* for each restart, and without a restart reaching the limit is being locked.
THEOREM LockoutBudgetHolds == SecurityAccessSpec => []LockoutBudget
<1>1. IInv => LockoutBudget
  BY DEF IInv
<1> QED BY <1>1, Invariance, PTL

\* A challenge that was answered once is never accepted again.
THEOREM SingleUse == SecurityAccessSpec => ChallengeSingleUse
<1>1. IInv => \A r \in Roles, response \in Responses :
                VerifyAccepted(r, response) => pendingChallenge \notin spent
  BY DEF IInv, OpenChallenge, VerifyAccepted, CanVerify
<1>2. IInv /\ [SecurityAccessNext]_saVars =>
        [\A r \in Roles, response \in Responses :
           VerifyAccepted(r, response) => pendingChallenge \notin spent]_saVars
  BY <1>1
<1> QED BY <1>2, Invariance, PTL DEF SecurityAccessSpec, ChallengeSingleUse
=============================================================================
