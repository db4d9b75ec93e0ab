------------------------------- MODULE DCMProofs -------------------------------
(***************************************************************************)
(* The dispatcher for every choice of the constants.  Each of its steps is *)
(* a step of the update path and one of security access, so what is proved *)
(* of the two holds of the composition; from there on mode, role and       *)
(* lockout, which three objects keep, are shown to agree.                  *)
(***************************************************************************)
EXTENDS DCM, UpdateProofs

Access == INSTANCE SecurityAccessProofs WITH
  hsmDown <- hsmFail, powerCycles <- keyGen - 1, MaxPowerCycles <- MaxKeyGen - 1

\* The constants of the composition are constants of security access.
LEMMA AccessAssumption == Access!SecurityAccessAssumption
  BY DCMAssumption, EcuStoreAssumption
  DEF DCMAssumption, EcuStoreAssumption, Access!SecurityAccessAssumption

\* A step that leaves security access alone.
LEMMA AccessKept ==
  UNCHANGED <<accessVars, hsmVars>> => UNCHANGED Access!saVars
  BY DEF accessVars, hsmVars, Access!saVars, Access!authVars

\* Every request is made of calls the update path and security access have.
LEMMA DispatcherStep ==
  ASSUME TypeOK, [DCMNext]_dcmVars
  PROVE  [Next]_vars /\ [Access!SecurityAccessNext]_(Access!saVars)
<1> USE DEF Next, NextRunning, Access!SecurityAccessNext
<1>1. ASSUME UNCHANGED vars, UNCHANGED accessVars
      PROVE  [Next]_vars /\ [Access!SecurityAccessNext]_(Access!saVars)
  BY <1>1, HsmKept, AccessKept
<1>2. ASSUME FlashManagerNext \/ (BootloaderNext /\ UNCHANGED <<ramVars, job>>),
             UNCHANGED accessVars
      PROVE  [Next]_vars /\ [Access!SecurityAccessNext]_(Access!saVars)
  BY <1>2, HsmKept, AccessKept
<1>3. CASE DefaultSession \/ ProgrammingSession \/ DownloadRefused \/ Refused
           \/ AccessLocked \/ AccessFails \/ TimePasses \/ UNCHANGED dcmVars
  BY <1>1, <1>3 DEF DefaultSession, ProgrammingSession, DownloadRefused, Refused,
     AccessLocked, AccessFails, TimePasses, dcmVars
<1>4. ASSUME NEW r \in Roles, RequestSeed(r)
      PROVE  [Next]_vars /\ [Access!SecurityAccessNext]_(Access!saVars)
  <2>1. Access!GetChallenge(r)
    BY <1>4 DEF RequestSeed, SA!GetChallenge, Access!GetChallenge
  <2> QED BY <1>4, <2>1 DEF RequestSeed
<1>5. ASSUME NEW r \in Roles, NEW response \in SA!Responses,
             SendKeyAccepted(r, response) \/ SendKeyRejected(r, response)
      PROVE  [Next]_vars /\ [Access!SecurityAccessNext]_(Access!saVars)
  <2>1. response \in Access!Responses
    BY DEF SA!Responses, Access!Responses, SA!Nonces, Access!Nonces
  <2>2. Access!VerifyAccepted(r, response) \/ Access!VerifyRejected(r, response)
    BY <1>5 DEF SendKeyAccepted, SendKeyRejected, SA!VerifyAccepted,
       Access!VerifyAccepted, SA!VerifyRejected, Access!VerifyRejected,
       SA!CanVerify, Access!CanVerify, SA!ResponseValid, Access!ResponseValid,
       SA!LocksAt, Access!LocksAt
  <2> QED BY <1>5, <2>1, <2>2 DEF SendKeyAccepted, SendKeyRejected
<1>6. ASSUME NEW request \in Requests, NEW version \in Versions,
             RequestDownload(request, version)
      PROVE  [Next]_vars /\ [Access!SecurityAccessNext]_(Access!saVars)
  BY <1>2, <1>6 DEF RequestDownload, FlashManagerNext
<1>7. ASSUME NEW seq \in Seqs, NEW data \in Blocks, TransferData(seq, data)
      PROVE  [Next]_vars /\ [Access!SecurityAccessNext]_(Access!saVars)
  BY <1>2, <1>7 DEF TransferData, FlashManagerNext
<1>8. ASSUME NEW gen \in Signatures, NEW over \in Images, TransferExit(gen, over)
      PROVE  [Next]_vars /\ [Access!SecurityAccessNext]_(Access!saVars)
  <2> DEFINE sig == SignatureOverFullImage(gen, over)
  <2>1. FullImage \in Images
    BY DCMAssumption DEF DCMAssumption, FullImage
  <2>2. sig \in Signatures
    BY EcuStoreAssumption DEF SignatureOverFullImage, Signatures, TypeOK,
       EcuStoreTypeOK, EcuStoreAssumption
  <2>3. UNCHANGED accessVars
        /\ \/ FinalizeRejected(FullImage, sig) \/ FinalizeMismatch(FullImage, sig)
           \/ FinalizeNoContext(FullImage, sig) \/ FinalizeAccepted(FullImage, sig)
    BY <1>8 DEF TransferExit
  <2> HIDE DEF sig
  <2>4. FlashManagerNext
    BY <2>1, <2>2, <2>3 DEF FlashManagerNext
  <2> QED BY <1>2, <2>3, <2>4
<1>9. CASE TransferExitCommit \/ EcuReset \/ EcuResetBoot
  BY <1>2, <1>9 DEF TransferExitCommit, EcuReset, EcuResetBoot, FlashManagerNext,
     Commit, BootloaderNext, BootStep
<1>10. CASE EcuResetDone
  <2>1. Access!ResetAuth
    BY <1>10 DEF EcuResetDone, SA!ResetAuth, Access!ResetAuth
  <2> QED BY <1>10, <2>1 DEF EcuResetDone
<1>11. CASE HsmToggles
  <2>1. Access!ToggleHsm
    BY <1>11 DEF HsmToggles, SimulateFailure, accessVars, Access!ToggleHsm,
       Access!authVars
  <2> QED BY <1>11, <2>1 DEF HsmToggles
<1>12. CASE EcuPowerLoss
  <2>1. Access!PowerCycle
    BY <1>12 DEF EcuPowerLoss, SA!PowerCycle, Access!PowerCycle
  <2> QED BY <1>12, <2>1 DEF EcuPowerLoss
<1> QED
  BY <1>3, <1>4, <1>5, <1>6, <1>7, <1>8, <1>9, <1>10, <1>11, <1>12
  DEF DCMNext, RunningRequest

-----------------------------------------------------------------------------
\* What three objects say of one ECU: mode, role and lockout agree, and no
\* commit is about to begin under a lockout.
Agreement ==
  /\ LockedModeIsLocked
  /\ RoleAgrees
  /\ pc = "commitActive" => ~locked

\* The dispatcher's own attributes and the session's.
OwnTypes ==
  /\ SM!SessionManagerTypeOK
  /\ mode \in Modes
  /\ activeRole \in Roles \cup {None}
  /\ call \in {"none", "exit", "reset"}
  /\ reply \in {"none", "positive", "negative", "exception"}

DCMInv == IInv /\ Access!IInv /\ OwnTypes /\ Agreement

\* The dispatcher as it is built.
LEMMA InitDCM == DCMInit => DCMInv
<1> SUFFICES ASSUME DCMInit PROVE DCMInv
  OBVIOUS
<1>1. IInv
  BY InitTypeOK, InitSafe DEF DCMInit, IInv
<1>2. Access!SecurityAccessInit
  BY DEF DCMInit, Init, EcuStoreInit, SA!SecurityAccessInit,
     Access!SecurityAccessInit
<1>3. Access!IInv
  BY <1>2, AccessAssumption, Access!InitIInv
<1>4. OwnTypes
  BY DCMAssumption DEF DCMInit, OwnTypes, Modes, SM!SessionManagerInit,
     SM!SessionManagerTypeOK, DCMAssumption
<1>5. Agreement
  BY DEF DCMInit, Init, EcuStoreInit, Agreement, LockedModeIsLocked, RoleAgrees
<1> QED BY <1>1, <1>3, <1>4, <1>5 DEF DCMInv

\* Each service keeps the types of its own objects.
LEMMA OwnTypesStep ==
  ASSUME OwnTypes, [DCMNext]_dcmVars
  PROVE  OwnTypes'
<1> USE DCMAssumption DEF OwnTypes, SM!SessionManagerTypeOK, Modes, Transition,
                          Answer, ecuVars, sessionVars, DCMAssumption
<1>1. CASE DefaultSession
  BY <1>1 DEF DefaultSession, SM!Destroy
<1>2. CASE ProgrammingSession
  BY <1>2 DEF ProgrammingSession, SM!CreateSession, SM!CounterFull
<1>3. CASE Refused \/ DownloadRefused \/ AccessLocked \/ AccessFails
  BY <1>3 DEF Refused, DownloadRefused, AccessLocked, AccessFails
<1>4. ASSUME NEW r \in Roles, RequestSeed(r) PROVE OwnTypes'
  BY <1>4 DEF RequestSeed
<1>5. ASSUME NEW r \in Roles, NEW response \in SA!Responses,
             SendKeyAccepted(r, response) \/ SendKeyRejected(r, response)
      PROVE  OwnTypes'
  BY <1>5 DEF SendKeyAccepted, SendKeyRejected
<1>6. ASSUME NEW request \in Requests, NEW version \in Versions,
             RequestDownload(request, version)
      PROVE  OwnTypes'
  BY <1>6 DEF RequestDownload
<1>7. ASSUME NEW seq \in Seqs, NEW data \in Blocks, TransferData(seq, data)
      PROVE  OwnTypes'
  BY <1>7 DEF TransferData
<1>8. ASSUME NEW gen \in Signatures, NEW over \in Images, TransferExit(gen, over)
      PROVE  OwnTypes'
  BY <1>8 DEF TransferExit
<1>9. CASE TransferExitCommit \/ EcuReset \/ EcuResetBoot
  BY <1>9 DEF TransferExitCommit, EcuReset, EcuResetBoot
<1>10. CASE EcuResetDone
  BY <1>10 DEF EcuResetDone, SM!Destroy
<1>11. CASE TimePasses
  BY <1>11 DEF TimePasses, SM!Tick, SM!IsActive
<1>12. CASE HsmToggles
  BY <1>12 DEF HsmToggles
<1>13. CASE EcuPowerLoss
  BY <1>13 DEF EcuPowerLoss, SM!Destroy
<1>14. CASE UNCHANGED dcmVars
  BY <1>14 DEF dcmVars
<1> QED
  BY <1>1, <1>2, <1>3, <1>4, <1>5, <1>6, <1>7, <1>8, <1>9, <1>10, <1>11, <1>12,
     <1>13, <1>14
  DEF DCMNext, RunningRequest

\* Only an accepted finalize begins a commit.
LEMMA CommitBegins ==
  ASSUME [DCMNext]_dcmVars, pc' = "commitActive", pc # "commitActive"
  PROVE  \E gen \in Signatures, over \in Images : TransferExit(gen, over)
<1> USE DEF nvmVars, vars, dcmVars
<1>1. ~UNCHANGED vars
  OBVIOUS
<1>2. \A request \in Requests, version \in Versions :
        ~RequestDownload(request, version)
  BY DEF RequestDownload, BeginDownload
<1>3. \A seq \in Seqs, data \in Blocks : ~TransferData(seq, data)
  BY DEF TransferData, TransferBlock
<1>4. ~TransferExitCommit /\ ~EcuReset /\ ~EcuResetBoot
  BY DEF TransferExitCommit, CommitActive, CommitLastValid, CommitBank,
     CommitVersion, CommitClear, EcuReset, BootRecover, BootDirect, EcuResetBoot,
     BootClear, BootSucceeds, BootFails, BootErrs
<1>5. ~HsmToggles /\ ~EcuPowerLoss
  BY DEF HsmToggles, SimulateFailure, EcuPowerLoss, PowerLoss
<1> QED
  BY <1>1, <1>2, <1>3, <1>4, <1>5
  DEF DCMNext, RunningRequest, DefaultSession, ProgrammingSession, DownloadRefused,
      Refused, AccessLocked, AccessFails, RequestSeed, SendKeyAccepted,
      SendKeyRejected, EcuResetDone, TimePasses

\* A lockout excludes an authentication, and TransferExit asks for one.
LEMMA AgreementStep ==
  ASSUME DCMInv, [DCMNext]_dcmVars
  PROVE  Agreement'
<1>1. locked => ~authenticated
  BY DEF DCMInv, Access!IInv, Access!LockedNotAuthenticated
<1>2. (pc = "commitActive" => ~locked)'
  <2>1. CASE pc' = "commitActive" /\ pc # "commitActive"
    BY <1>1, <2>1, CommitBegins DEF TransferExit, accessVars
  <2>2. CASE pc = "commitActive"
    BY <2>2
    DEF DCMInv, Agreement, DCMNext, RunningRequest, dcmVars, accessVars, Ready,
        DefaultSession, ProgrammingSession, DownloadRefused, Refused, AccessLocked,
        AccessFails, RequestSeed, SendKeyAccepted, SendKeyRejected,
        RequestDownload, TransferData, TransferExit, TransferExitCommit, EcuReset,
        EcuResetBoot, EcuResetDone, TimePasses, HsmToggles, EcuPowerLoss,
        SA!PowerCycle
  <2> QED BY <2>1, <2>2
<1> DEFINE ModeAgrees == LockedModeIsLocked /\ RoleAgrees
<1>3. ModeAgrees'
  <2> USE DCMAssumption DEF DCMInv, Agreement, LockedModeIsLocked, RoleAgrees,
          Transition, ecuVars, accessVars, DCMAssumption
  <2>1. CASE DefaultSession \/ ProgrammingSession \/ AccessLocked
    BY <2>1 DEF DefaultSession, ProgrammingSession, AccessLocked
  <2>2. CASE UNCHANGED <<accessVars, ecuVars>>
    BY <2>2
  <2>3. ASSUME NEW r \in Roles, RequestSeed(r) PROVE ModeAgrees'
    BY <2>3 DEF RequestSeed, SA!GetChallenge
  <2>4. ASSUME NEW r \in Roles, NEW response \in SA!Responses,
               SendKeyAccepted(r, response)
        PROVE  ModeAgrees'
    BY <2>4 DEF SendKeyAccepted, SA!VerifyAccepted
  <2>5. ASSUME NEW r \in Roles, NEW response \in SA!Responses,
               SendKeyRejected(r, response)
        PROVE  ModeAgrees'
    BY <2>5 DEF SendKeyRejected, SA!VerifyRejected, SA!CanVerify
  <2>6. CASE EcuResetDone \/ EcuPowerLoss
    BY <2>6 DEF EcuResetDone, EcuPowerLoss
  <2> QED
    BY <2>1, <2>2, <2>3, <2>4, <2>5, <2>6
    DEF DCMNext, RunningRequest, Refused, DownloadRefused, AccessFails,
        RequestDownload, TransferData, TransferExit, TransferExitCommit, EcuReset,
        EcuResetBoot, TimePasses, HsmToggles, dcmVars
<1> QED BY <1>2, <1>3 DEF Agreement

\* What the theorems are read off.
LEMMA DCMInvariance == DCMSpec => []DCMInv
<1>1. DCMInv /\ [DCMNext]_dcmVars => DCMInv'
  <2> SUFFICES ASSUME DCMInv, [DCMNext]_dcmVars PROVE DCMInv'
    OBVIOUS
  <2>1. [Next]_vars /\ [Access!SecurityAccessNext]_(Access!saVars)
    BY DispatcherStep DEF DCMInv, IInv
  <2>2. IInv'
    BY <2>1, StepTypeOK, StepSafe DEF DCMInv, IInv
  <2>3. Access!IInv'
    BY <2>1, AccessAssumption, Access!StepIInv DEF DCMInv
  <2>4. OwnTypes' /\ Agreement'
    BY OwnTypesStep, AgreementStep DEF DCMInv
  <2> QED BY <2>2, <2>3, <2>4 DEF DCMInv
<1> QED BY InitDCM, <1>1, PTL DEF DCMSpec

-----------------------------------------------------------------------------
\* All objects of the ECU keep their types under the six services.
THEOREM DispatcherTypes == DCMSpec => []DCMTypeOK
<1>1. DCMInv => DCMTypeOK
  BY DEF DCMInv, IInv, OwnTypes, DCMTypeOK, Access!IInv,
     Access!SecurityAccessTypeOK, SA!SecurityAccessTypeOK, Access!Nonces, SA!Nonces
<1> QED BY <1>1, DCMInvariance, PTL

\* The ECU state never shows a lockout that is not in force.
THEOREM LockedModeAgrees == DCMSpec => []LockedModeIsLocked
<1>1. DCMInv => LockedModeIsLocked
  BY DEF DCMInv, Agreement
<1> QED BY <1>1, DCMInvariance, PTL

\* The role the ECU state shows is the authenticated one.
THEOREM RoleShownAgrees == DCMSpec => []RoleAgrees
<1>1. DCMInv => RoleAgrees
  BY DEF DCMInv, Agreement
<1> QED BY <1>1, DCMInvariance, PTL

\* A lockout reached in the middle of a download stops it.
THEOREM LockoutStops == DCMSpec => LockoutStopsFlash
<1>1. DCMInv /\ DCMInv' /\ [DCMNext]_dcmVars =>
        [locked => /\ hashAcc' \in {hashAcc, None}
                   /\ pc' # "commitActive"]_dcmVars
  <2> SUFFICES ASSUME DCMInv, [DCMNext]_dcmVars, locked
               PROVE  hashAcc' \in {hashAcc, None} /\ pc' # "commitActive"
    OBVIOUS
  <2>1. ~authenticated /\ pc # "commitActive"
    BY DEF DCMInv, Agreement, Access!IInv, Access!LockedNotAuthenticated
  <2>2. pc' # "commitActive"
    BY <2>1, CommitBegins DEF TransferExit
  <2>3. hashAcc' \in {hashAcc, None}
    BY <2>1
    DEF DCMNext, RunningRequest, dcmVars, vars, ramVars, DefaultSession,
        ProgrammingSession, DownloadRefused, Refused, AccessLocked, AccessFails,
        RequestSeed, SendKeyAccepted, SendKeyRejected, RequestDownload,
        TransferData, TransferExit, TransferExitCommit, CommitActive,
        CommitLastValid, CommitBank, CommitVersion, CommitClear, EcuReset,
        EcuResetBoot, EcuResetDone, TimePasses, HsmToggles, SimulateFailure,
        EcuPowerLoss, PowerLoss, FlashManagerLost
  <2> QED BY <2>2, <2>3
<1> QED BY <1>1, DCMInvariance, PTL DEF DCMSpec, LockoutStopsFlash

\* Over UDS as well the anti-rollback counter only rises and is backed by a
\* bank: the dispatcher adds nothing to the update path that could break it.
THEOREM DispatcherKeepsCounter == DCMSpec => VersionMonotonic /\ []CounterBacked
<1>1. DCMInv /\ [DCMNext]_dcmVars =>
        [swVersion' # swVersion => swVersion' > swVersion]_vars
  BY DispatcherStep, CounterStep DEF DCMInv, IInv
<1>2. DCMInv => CounterBacked
  BY DEF DCMInv, IInv, Safe
<1> QED BY <1>1, <1>2, DCMInvariance, PTL DEF DCMSpec, VersionMonotonic

\* The six services use the update path and security access as they are meant
\* to be used: every run of the dispatcher is one of each of the two.
THEOREM DispatcherIsBoth ==
  DCMSpec => (Init /\ [][Next]_vars) /\ Access!SecurityAccessSpec
<1>1. DCMInv /\ [DCMNext]_dcmVars => [Next]_vars
  BY DispatcherStep DEF DCMInv, IInv
<1>2. DCMInv /\ [DCMNext]_dcmVars => [Access!SecurityAccessNext]_(Access!saVars)
  BY DispatcherStep DEF DCMInv, IInv
<1>3. DCMInit => Init /\ Access!SecurityAccessInit
  BY DEF DCMInit, SA!SecurityAccessInit, Access!SecurityAccessInit
<1> QED BY <1>1, <1>2, <1>3, DCMInvariance, PTL DEF DCMSpec, Access!SecurityAccessSpec

\* So the lockout budget and the single use of a challenge hold over UDS, too.
THEOREM DispatcherKeepsLockout ==
  DCMSpec => []Access!LockoutBudget /\ Access!ChallengeSingleUse
  BY DispatcherIsBoth, AccessAssumption, Access!LockoutBudgetHolds, Access!SingleUse, PTL
=============================================================================
