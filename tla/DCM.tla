--------------------------------- MODULE DCM ---------------------------------
(***************************************************************************)
(* sim/dcm.py and sim/ecu_state.py: the UDS dispatcher over security       *)
(* access, the session manager, the flash manager and the bootloader.      *)
(* Requests come one at a time.  A request that runs into several NvM      *)
(* writes (TransferExit, ECUReset) stays in call until it has answered.    *)
(***************************************************************************)
EXTENDS UpdateSystem

CONSTANTS Garbage, MaxAuthRetries, MaxChallenges, Timeout, CounterMax

ASSUME DCMAssumption ==
  /\ <<>> \in Images   \* what TransferExit hands to finalize
  /\ MaxAuthRetries \in Nat \ {0}
  /\ {MaxChallenges, CounterMax} \subseteq Nat
  /\ Timeout \in Nat \ {0}
  /\ None \notin Roles \cup Int

VARIABLES
  \* SecurityAccess and SessionManager, see there
  pendingChallenge, pendingRole, authenticated, role, locked, retryCount,
  issued, spent, streakCycles,
  idle, txCounter,
  \* ECUState
  mode,        \* _mode
  activeRole,  \* _active_role
  \* the dispatcher
  call,        \* the request in progress, "none" between requests
  reply        \* the last answer: positive, negative, or an exception

SA == INSTANCE SecurityAccess WITH
  hsmDown <- hsmFail, powerCycles <- keyGen - 1, MaxPowerCycles <- MaxKeyGen - 1
SM == INSTANCE SessionManager

ecuVars == <<mode, activeRole>>
accessVars == <<pendingChallenge, pendingRole, authenticated, role, locked,
                retryCount, issued, spent, streakCycles>>
sessionVars == <<idle, txCounter>>
dcmVars == <<vars, accessVars, sessionVars, ecuVars, call, reply>>

\* BOOTING, RUNNING and SAFE_MODE are declared in ECUMode and never entered.
Modes == {"DEFAULT_SESSION", "PROGRAMMING_SESSION", "AUTHENTICATED", "LOCKED"}

DCMTypeOK ==
  /\ TypeOK
  /\ SA!SecurityAccessTypeOK
  /\ SM!SessionManagerTypeOK
  /\ mode \in Modes
  /\ activeRole \in Roles \cup {None}
  /\ call \in {"none", "exit", "reset"}
  /\ reply \in {"none", "positive", "negative", "exception"}

DCMInit ==
  /\ Init
  /\ SA!SecurityAccessInit
  /\ SM!SessionManagerInit
  /\ mode = "DEFAULT_SESSION"
  /\ activeRole = None
  /\ call = "none"
  /\ reply = "none"

-----------------------------------------------------------------------------
\* Mutant of Transition: a lockout is shown as SAFE_MODE.
TransitionToSafeMode(newMode, newRole) ==
  /\ mode' = IF newMode = "LOCKED" THEN "SAFE_MODE" ELSE newMode
  /\ activeRole' = IF newMode \in {"DEFAULT_SESSION", "LOCKED"} THEN None
                   ELSE IF newRole # None THEN newRole ELSE activeRole

\* ECUState.transition; a role is given with AUTHENTICATED only.
Transition(newMode, newRole) ==
  /\ mode' = newMode
  /\ activeRole' = IF newMode \in {"DEFAULT_SESSION", "LOCKED"} THEN None
                   ELSE IF newRole # None THEN newRole ELSE activeRole

Ready == call = "none" /\ pc = "idle"

Answer(kind) == reply' = kind /\ call' = "none"

\* DiagnosticSessionControl 0x01.  The authentication is not touched.
DefaultSession ==
  /\ Ready
  /\ Transition("DEFAULT_SESSION", None)
  /\ SM!Destroy
  /\ Answer("positive")
  /\ UNCHANGED <<vars, accessVars>>

\* DiagnosticSessionControl 0x02.  NvMError at a full counter leaves
\* create_session, and with it the dispatcher, before the mode has changed.
ProgrammingSession ==
  /\ Ready
  /\ SM!CreateSession
  /\ \/ /\ ~SM!CounterFull
        /\ Transition("PROGRAMMING_SESSION", None)
        /\ Answer("positive")
     \/ /\ SM!CounterFull
        /\ UNCHANGED ecuVars
        /\ Answer("exception")
  /\ UNCHANGED <<vars, accessVars>>

-----------------------------------------------------------------------------
SecurityAccessAllowed == mode \in {"PROGRAMMING_SESSION", "AUTHENTICATED"}

\* SecurityAccess in another mode, or an unknown service or sub-function:
\* answered without a call.
Refused ==
  /\ Ready
  /\ Answer("negative")
  /\ UNCHANGED <<vars, accessVars, sessionVars, ecuVars>>

\* Either sub-function of SecurityAccess finds the lockout in force.
AccessLocked ==
  /\ Ready
  /\ SecurityAccessAllowed
  /\ locked
  /\ Transition("LOCKED", None)
  /\ Answer("negative")
  /\ UNCHANGED <<vars, accessVars, sessionVars>>

\* Odd sub-function: the role follows from its number (_role_from_sub).
RequestSeed(r) ==
  /\ Ready
  /\ SecurityAccessAllowed
  /\ UNCHANGED <<vars, sessionVars, ecuVars>>
  /\ SA!GetChallenge(r)
  /\ Answer("positive")

\* Mutant of SendKeyAccepted: the mode takes the role of the challenge.
SendKeyShowsPendingRole(r, response) ==
  /\ Ready
  /\ SecurityAccessAllowed
  /\ UNCHANGED <<vars, sessionVars>>
  /\ SA!VerifyAccepted(r, response)
  /\ Transition("AUTHENTICATED", pendingRole)
  /\ Answer("positive")

\* Even sub-function, right and wrong response.
SendKeyAccepted(r, response) ==
  /\ Ready
  /\ SecurityAccessAllowed
  /\ UNCHANGED <<vars, sessionVars>>
  /\ SA!VerifyAccepted(r, response)
  /\ Transition("AUTHENTICATED", r)
  /\ Answer("positive")

SendKeyRejected(r, response) ==
  /\ Ready
  /\ SecurityAccessAllowed
  /\ UNCHANGED <<vars, sessionVars, ecuVars>>
  /\ SA!VerifyRejected(r, response)
  /\ Answer("negative")

\* Either sub-function with the HSM unavailable (the key only once a seed was
\* asked for): HSMError and CSMError are no AuthError and pass the handler.
AccessFails ==
  /\ Ready
  /\ SecurityAccessAllowed
  /\ ~locked
  /\ hsmFail
  /\ Answer("exception")
  /\ UNCHANGED <<vars, accessVars, sessionVars, ecuVars>>

-----------------------------------------------------------------------------
\* The role a download is judged by.
EffectiveRole == IF role = None THEN "manufacturing" ELSE role

RequestDownload(request, version) ==
  /\ Ready
  /\ authenticated
  /\ request.role = EffectiveRole
  /\ BeginDownload(request, version)
  /\ Answer("positive")
  /\ UNCHANGED <<accessVars, sessionVars, ecuVars>>

TransferData(seq, data) ==
  /\ Ready
  /\ authenticated
  /\ TransferBlock(seq, data)
  /\ Answer("positive")
  /\ UNCHANGED <<accessVars, sessionVars, ecuVars>>

\* FlashError from begin_download or transfer_block, or no authentication.
DownloadRefused ==
  /\ Ready
  /\ \/ ~authenticated
     \/ state # "DOWNLOADING"
     \/ \E request \in Requests, version \in Versions :
          /\ request.role = EffectiveRole
          /\ ~(/\ ValidateAddress(request.addr, request.size, request.role)
               /\ CheckVersion(version))
  /\ Answer("negative")
  /\ UNCHANGED <<vars, accessVars, sessionVars, ecuVars>>

\* The handler hands finalize the empty image, whatever was transferred: a
\* signature counts only if it is one over the empty image.
FullImage == <<>>
SignatureOverFullImage(gen, over) == IF over = FullImage THEN gen ELSE 0

TransferExit(gen, over) ==
  LET sig == SignatureOverFullImage(gen, over) IN
  /\ Ready
  /\ authenticated
  /\ \/ /\ FinalizeRejected(FullImage, sig) \/ FinalizeMismatch(FullImage, sig)
        /\ Answer("negative")
     \/ FinalizeNoContext(FullImage, sig) /\ Answer("exception")
     \/ /\ FinalizeAccepted(FullImage, sig)
        /\ call' = "exit"
        /\ UNCHANGED <<reply>>
  /\ UNCHANGED <<accessVars, sessionVars, ecuVars>>

\* The commit goes on; its last write lets the handler answer.
TransferExitCommit ==
  /\ call = "exit"
  /\ \/ /\ CommitActive \/ CommitLastValid \/ CommitBank \/ CommitVersion
        /\ UNCHANGED <<call, reply>>
     \/ CommitClear /\ Answer("positive")
  /\ UNCHANGED <<accessVars, sessionVars, ecuVars>>

-----------------------------------------------------------------------------
\* ECUReset: trigger_reset, then the dispatcher's own reset.
EcuReset ==
  /\ Ready
  /\ BootRecover \/ BootDirect
  /\ call' = "reset"
  /\ UNCHANGED <<ramVars, job, accessVars, sessionVars, ecuVars, reply>>

EcuResetBoot ==
  /\ call = "reset"
  /\ \/ (BootClear \/ BootSucceeds \/ BootFails) /\ UNCHANGED <<call, reply>>
     \/ BootErrs /\ Answer("exception")
  /\ UNCHANGED <<ramVars, job, accessVars, sessionVars, ecuVars>>

\* Mutants of EcuResetDone: the mode is not reset; the answer is never given.
EcuResetKeepsMode ==
  /\ call = "reset"
  /\ pc = "idle"
  /\ UNCHANGED <<vars, ecuVars>>
  /\ SA!ResetAuth
  /\ SM!Destroy
  /\ Answer("positive")

EcuResetUnanswered ==
  /\ call = "reset"
  /\ pc = "idle"
  /\ UNCHANGED <<vars, call>>
  /\ SA!ResetAuth
  /\ SM!Destroy
  /\ mode' = "DEFAULT_SESSION"
  /\ activeRole' = None
  /\ reply' = "positive"

\* DCM.reset: authentication, session and mode; not the flash manager.
EcuResetDone ==
  /\ call = "reset"
  /\ pc = "idle"
  /\ UNCHANGED vars
  /\ SA!ResetAuth
  /\ SM!Destroy
  /\ mode' = "DEFAULT_SESSION"
  /\ activeRole' = None
  /\ Answer("positive")

-----------------------------------------------------------------------------
TimePasses ==
  /\ SM!Tick
  /\ UNCHANGED <<vars, accessVars, ecuVars, call, reply>>

HsmToggles ==
  /\ call = "none"
  /\ SimulateFailure
  /\ UNCHANGED <<accessVars, sessionVars, ecuVars, call, reply>>

EcuPowerLoss ==
  /\ PowerLoss
  /\ SA!PowerCycle
  /\ SM!Destroy
  /\ mode' = "DEFAULT_SESSION"
  /\ activeRole' = None
  /\ call' = "none"
  /\ reply' = "none"

\* A dispatched request runs to its answer.
RunningRequest == TransferExitCommit \/ EcuResetBoot \/ EcuResetDone

DCMNext ==
  \/ DefaultSession \/ ProgrammingSession
  \/ DownloadRefused \/ Refused \/ AccessLocked \/ AccessFails
  \/ \E r \in Roles : RequestSeed(r)
  \/ \E r \in Roles, response \in SA!Responses :
       SendKeyAccepted(r, response) \/ SendKeyRejected(r, response)
  \/ \E request \in Requests, version \in Versions : RequestDownload(request, version)
  \/ \E seq \in Seqs, data \in Blocks : TransferData(seq, data)
  \/ \E gen \in Signatures, over \in Images : TransferExit(gen, over)
  \/ EcuReset
  \/ RunningRequest
  \/ TimePasses \/ HsmToggles \/ EcuPowerLoss

DCMSpec == DCMInit /\ [][DCMNext]_dcmVars /\ WF_dcmVars(RunningRequest)

-----------------------------------------------------------------------------
\* The mode LOCKED is shown only while the lockout is in force (_locked and
\* _mode are changed by different objects, resets and restarts clear both).
LockedModeIsLocked == mode = "LOCKED" => locked

\* The role the ECU state shows is the one SecurityAccess holds, and an ECU in
\* mode AUTHENTICATED shows one.
RoleAgrees ==
  /\ activeRole # None => activeRole = role
  /\ mode = "AUTHENTICATED" => activeRole # None

\* A lockout reached in the middle of a download stops it: no byte is accepted
\* and no commit begins while it is in force.
LockoutStopsFlash ==
  [][locked => /\ hashAcc' \in {hashAcc, None}
               /\ pc' # "commitActive"]_dcmVars

\* Every request that was begun is answered (or lost with the process).
RequestsComplete == call # "none" ~> call = "none"

-----------------------------------------------------------------------------
(* What the repository says and the code does not do.                      *)

\* A transfer exit with the OEM's signature over the transferred image commits.
ExitCommitsTransferred ==
  [][hashAcc # None /\ TransferExit(keyGen, hashAcc)
       /\ state = "DOWNLOADING" /\ ~hsmFail => pc' = "commitActive"]_dcmVars
=============================================================================
