------------------------------- MODULE RestApi -------------------------------
(***************************************************************************)
(* api/routers: the REST handlers over security access, flash manager and  *)
(* bootloader, and the runner of the VTC scenarios.  A handler runs to its *)
(* first broadcast without giving up the thread; there it is suspended and *)
(* other requests are handled before it resumes and answers.  The process  *)
(* does not die here, and what only changes the session (SessionStore) or  *)
(* the event log (DemMonitor) is left out.                                 *)
(***************************************************************************)
EXTENDS UpdateSystem

CONSTANTS
  Garbage, MaxAuthRetries, MaxChallenges,   \* see SecurityAccess
  TesterRoles,   \* roles the clients authenticate as
  Slots,         \* requests that can be under way at the same time
  Tester,        \* the role the scenarios use, FlashRole.MANUFACTURING
  Good, Bad,     \* the scenarios' image_data and its tampered copies
  Open, Closed   \* the scenarios' download, and VTC-06's, which the map refuses

\* The routes whose handlers are suspended somewhere; what is kept of one that
\* is: its outcome, and that no other handler has acted since.
Routes == {"challenge", "response", "start", "finalize", "abort", "reset", "run"}
Suspended == [what : Routes, done : BOOLEAN, alone : BOOLEAN]

\* The calls that write the store more than once, and so keep the thread.
OnThread == [slot : Slots, what : {"finalize", "reset", "run"}]

ScenarioVersion == 2   \* image_version of every scenario's download

ASSUME RestApiAssumption ==
  /\ MaxAuthRetries \in Nat \ {0}
  /\ MaxChallenges \in Nat
  /\ None \notin Roles \cup Int \cup Suspended \cup OnThread
  \* The scenarios ask for what a client may ask for ...
  /\ TesterRoles \subseteq Roles
  /\ Tester \in TesterRoles
  /\ 1 \in Seqs
  /\ {Good, Bad} \subseteq Blocks
  /\ Good \in Images
  /\ {Open, Closed} \subseteq Requests
  /\ ScenarioVersion \in Versions
  \* ... and are written for this memory map and this image.
  /\ ValidateAddress(Open.addr, Open.size, Open.role)
  /\ ~ValidateAddress(Closed.addr, Closed.size, Closed.role)
  /\ Good # Bad
  /\ Len(Good) <= MaxBytes /\ Len(Bad) <= MaxBytes

VARIABLES
  pendingChallenge, pendingRole, authenticated, role, locked, retryCount,
  issued, spent, streakCycles,   \* see SecurityAccess
  requests,   \* suspended handlers: None, or what they did and whether another
              \* handler has acted since
  running,    \* the handler that has the thread: None, or its slot and route
  scenario,   \* the scenario that runs, or None
  position,   \* which call of its script comes next
  failed,     \* a scenario was answered with passed = False
  overtaken   \* history: a scenario wrote the version counter after the last
              \* begin_download

SA == INSTANCE SecurityAccess WITH
  Roles <- TesterRoles,
  hsmDown <- hsmFail, powerCycles <- keyGen - 1, MaxPowerCycles <- MaxKeyGen - 1

accessVars == <<pendingChallenge, pendingRole, authenticated, role, locked,
                retryCount, issued, spent, streakCycles>>
scriptVars == <<scenario, position>>
loopVars == <<requests, running, scenario, position, failed>>
restVars == <<vars, accessVars, loopVars, overtaken>>

\* test_scenarios.py: what each scenario calls, and what it takes for granted
\* about the outcome.  Three of them only use the session manager or the PKI
\* (PkiChain) after the preamble.
Guesses == [i \in 1..(2 * MaxAuthRetries + 1) |->
              IF i > 2 * MaxAuthRetries THEN "locked"
              ELSE IF i % 2 = 1 THEN "challenge" ELSE "guess"]

Scripts == [
  VTC_01 |-> <<"challenge", "respond", "begin", "block", "finalize">>,
  VTC_02 |-> <<"challenge", "guess", "unauthenticated">>,
  VTC_04 |-> <<"begin", "block", "finalize">>,
  VTC_05 |-> <<"begin", "badBlock", "refuseBad">>,
  VTC_06 |-> <<"refuseClosed">>,
  VTC_07 |-> <<"begin", "pending", "abort", "notPending">>,
  VTC_08 |-> <<"break", "recover", "bankA">>,
  VTC_09 |-> <<"raise", "refuseOld">>,
  VTC_10 |-> <<"install", "boot", "booted">>,
  VTC_11 |-> <<"begin", "block", "hsm", "refuse", "hsm", "notPending">>,
  VTC_13 |-> Guesses,
  VTC_14 |-> <<"begin", "badBlock", "mismatch">>,
  VTC_15 |-> <<"begin", "block", "abort", "empty">>,
  VTC_03_12_16 |-> <<>> ]

RestTypeOK ==
  /\ TypeOK
  /\ SA!SecurityAccessTypeOK
  /\ requests \in [Slots -> Suspended \cup {None}]
  /\ running \in OnThread \cup {None}
  /\ scenario \in DOMAIN Scripts \cup {None}
  /\ position \in Nat
  /\ {failed, overtaken} \subseteq BOOLEAN

RestInit ==
  /\ Init
  /\ SA!SecurityAccessInit
  /\ requests = [s \in Slots |-> None]
  /\ running = None
  /\ scenario = None
  /\ position = 0
  /\ failed = FALSE
  /\ overtaken = FALSE

-----------------------------------------------------------------------------
\* A request arrives and is handled while the thread is free.
Handles(slot) == running = None /\ requests[slot] = None

\* Every suspended handler sees that another one has acted.
Disturbed == [s \in Slots |-> IF requests[s] = None THEN None
                              ELSE [requests[s] EXCEPT !.alone = FALSE]]

\* The handler has acted and answers without a broadcast ...
AnswerAtOnce == requests' = Disturbed /\ running' = None

\* ... or is suspended in its broadcasts.
Suspend(slot, what, done) ==
  /\ requests' = [Disturbed EXCEPT ![slot] =
                    [what |-> what, done |-> done, alone |-> TRUE]]
  /\ running' = None

\* It goes on to its next NvM write instead (a call of several of them).
Run(slot, what) == running' = [slot |-> slot, what |-> what] /\ UNCHANGED requests

\* The broadcasts are over and it answers, or one of them raised (EventBus).
Answer(slot) ==
  /\ running = None
  /\ requests[slot] # None
  /\ requests' = [requests EXCEPT ![slot] = None]
  /\ UNCHANGED <<vars, accessVars, running, scriptVars, failed, overtaken>>

-----------------------------------------------------------------------------
\* POST /auth/challenge and /auth/response.  AuthError answers 403 at once and
\* changes nothing.
PostChallenge(slot, r) ==
  /\ Handles(slot)
  /\ UNCHANGED <<vars, scriptVars, failed, overtaken>>
  /\ SA!GetChallenge(r)
  /\ Suspend(slot, "challenge", TRUE)

PostResponse(slot, r, response) ==
  /\ Handles(slot)
  /\ UNCHANGED <<vars, scriptVars, failed, overtaken>>
  /\ \/ SA!VerifyAccepted(r, response) /\ Suspend(slot, "response", TRUE)
     \/ SA!VerifyRejected(r, response) /\ Suspend(slot, "response", FALSE)

\* POST /flash/start asks for the authentication; block, finalize and abort do
\* not.  FlashError of start and block answers 400 at once.
EffectiveRole == IF role = None THEN "manufacturing" ELSE role

FlashStart(slot, request, version) ==
  /\ Handles(slot)
  /\ authenticated
  /\ request.role = EffectiveRole
  /\ BeginDownload(request, version)
  /\ overtaken' = FALSE
  /\ Suspend(slot, "start", TRUE)
  /\ UNCHANGED <<accessVars, scriptVars, failed>>

\* /flash/block awaits nothing and answers at once.
FlashBlock(slot, seq, data) ==
  /\ Handles(slot)
  /\ TransferBlock(seq, data)
  /\ AnswerAtOnce
  /\ UNCHANGED <<accessVars, scriptVars, failed, overtaken>>

\* A FlashError is broadcast before it answers 400, the CSMError of a missing
\* context is not caught.
FlashFinalize(slot, image, sig) ==
  /\ Handles(slot)
  /\ UNCHANGED <<accessVars, scriptVars, failed, overtaken>>
  /\ \/ /\ FinalizeRejected(image, sig) \/ FinalizeMismatch(image, sig)
        /\ Suspend(slot, "finalize", FALSE)
     \/ FinalizeNoContext(image, sig) /\ AnswerAtOnce
     \/ FinalizeAccepted(image, sig) /\ Run(slot, "finalize")

FlashAbort(slot) ==
  /\ Handles(slot)
  /\ Abort
  /\ Suspend(slot, "abort", TRUE)
  /\ UNCHANGED <<accessVars, scriptVars, failed, overtaken>>

\* GET /ecu/reset: trigger_reset ...
GetReset(slot) ==
  /\ Handles(slot)
  /\ BootRecover \/ BootDirect
  /\ Run(slot, "reset")
  /\ UNCHANGED <<ramVars, job, accessVars, scriptVars, failed, overtaken>>

\* ... and, once it has answered, DCM.reset.
ResetReturns ==
  /\ running # None /\ running.what = "reset"
  /\ pc = "idle"
  /\ UNCHANGED <<vars, scriptVars, failed, overtaken>>
  /\ SA!ResetAuth
  /\ Suspend(running.slot, "reset", bootResult = "ok")

\* finalize has written its last key.
FinalizeReturns ==
  /\ running # None /\ running.what = "finalize"
  /\ pc = "idle"
  /\ Suspend(running.slot, "finalize", TRUE)
  /\ UNCHANGED <<vars, accessVars, scriptVars, failed, overtaken>>

\* The NvM writes of the call in progress.
CallGoesOn ==
  /\ running # None
  /\ RunningCall
  /\ UNCHANGED <<accessVars, loopVars, overtaken>>

-----------------------------------------------------------------------------
(* The scenarios.                                                          *)

\* Mutant of ResetEcu: the scenario keeps the lockout it finds.
ResetEcuKeepsLockout == UNCHANGED accessVars

\* The preamble's sa.reset().
ResetEcu == SA!ResetAuth

\* POST /test/{vtc_id}/run: the preamble overwrites four keys, whatever is
\* under way, and leaves the flash manager as it is.
RunVtc(slot, vtc) ==
  /\ Handles(slot)
  /\ issued + MaxAuthRetries <= MaxChallenges
  /\ swVersion' = 1
  /\ flashPending' = FALSE
  /\ activeBank' = "A"
  /\ lastValid' = "A"
  /\ UNCHANGED <<ramVars, job, bank, hsmVars, pc, bootResult>>
  /\ ResetEcu
  /\ Run(slot, "run")
  /\ scenario' = vtc
  /\ position' = 1
  /\ overtaken' = TRUE
  /\ UNCHANGED failed

AccessCall(step) ==
  \/ step = "challenge" /\ SA!GetChallenge(Tester)
  \/ step = "respond"
       /\ SA!VerifyAccepted(Tester, [key |-> Tester, over |-> pendingChallenge])
  \/ step = "guess" /\ SA!VerifyRejected(Tester, Garbage)

\* The keys a scenario writes by itself.
StoreCall(step) ==
  /\ \/ step = "raise" /\ swVersion' = 3
        /\ UNCHANGED <<flashPending, activeBank, lastValid, bank>>
     \/ step = "break" /\ flashPending' = TRUE /\ lastValid' = "A"
        /\ activeBank' = "B" /\ UNCHANGED <<swVersion, bank>>
     \/ step = "install" /\ flashPending' = FALSE /\ activeBank' = "A"
        /\ bank' = [bank EXCEPT !["A"] = [image |-> Good, sig |-> keyGen,
                                          version |-> ScenarioVersion]]
        /\ UNCHANGED <<swVersion, lastValid>>
  /\ UNCHANGED <<ramVars, job, hsmVars, pc, bootResult>>

\* Its calls, with the outcome it expects of them.
FlashCall(step) ==
  \/ step = "begin"      /\ BeginDownload(Open, ScenarioVersion)
  \/ step = "block"      /\ TransferBlock(1, Good)
  \/ step = "badBlock"  /\ TransferBlock(1, Bad)
  \/ step = "finalize"   /\ FinalizeAccepted(Good, keyGen)
  \/ step = "refuse"     /\ FinalizeRejected(Good, keyGen)
  \/ step = "refuseBad" /\ FinalizeRejected(Bad, 0)
  \/ step = "mismatch"   /\ FinalizeMismatch(Good, keyGen)
  \/ step = "abort"      /\ Abort
  \/ step = "hsm"        /\ SimulateFailure
  \/ /\ \/ step = "recover" /\ Recover
        \/ step = "boot" /\ BootDirect
     /\ UNCHANGED <<ramVars, job>>

\* Its refused downloads and its assertions, which change nothing.
Holds(step) ==
  \/ step = "refuseClosed"
       /\ ~ValidateAddress(Closed.addr, Closed.size, Closed.role)
  \/ step = "refuseOld" /\ ~CheckVersion(ScenarioVersion)
  \/ step = "pending" /\ flashPending
  \/ step = "notPending" /\ ~flashPending
  \/ step = "bankA" /\ activeBank = "A"
  \/ step = "booted" /\ bootResult = "ok"
  \/ step = "empty" /\ staging = NoBlocks
  \/ step = "locked" /\ locked
  \/ step = "unauthenticated" /\ ~authenticated

\* What a call needs to have the outcome the scenario expects of it.
Expects(step) ==
  \/ step \in {"abort", "hsm", "raise", "break", "install"}
  \/ step = "challenge" /\ ~locked /\ ~hsmFail /\ issued < MaxChallenges
  \/ step \in {"respond", "guess"} /\ SA!CanVerify
  \/ step = "begin" /\ ValidateAddress(Open.addr, Open.size, Open.role)
                    /\ CheckVersion(ScenarioVersion)
  \/ step \in {"block", "badBlock"} /\ state = "DOWNLOADING"
  \/ step = "finalize" /\ SigValid(keyGen) /\ HashMatches(Good)
  \/ step = "refuse" /\ ~SigValid(keyGen)
  \/ step = "refuseBad" /\ ~SigValid(0)
  \/ step = "mismatch" /\ SigValid(keyGen) /\ hashAcc # None /\ ~HashMatches(Good)
  \/ step = "recover" /\ flashPending
  \/ step = "boot" /\ ~flashPending
  \/ Holds(step)

AsExpected(step) ==
  \/ UNCHANGED vars /\ AccessCall(step)
  \/ (StoreCall(step) \/ FlashCall(step)) /\ UNCHANGED accessVars
  \/ Holds(step) /\ UNCHANGED <<vars, accessVars>>

InScenario == running # None /\ running.what = "run" /\ pc = "idle"

\* The scenario is over and answers.
VtcReturns(passed) ==
  /\ Suspend(running.slot, "run", passed)
  /\ scenario' = None
  /\ position' = 0
  /\ UNCHANGED <<vars, accessVars, overtaken>>

\* The next call of the scenario; one that raises, or an assertion that fails,
\* ends it with passed = False.
VtcStep ==
  /\ InScenario
  /\ position <= Len(Scripts[scenario])
  /\ LET step == Scripts[scenario][position] IN
     IF Expects(step)
     THEN /\ AsExpected(step)
          /\ position' = position + 1
          /\ overtaken' = CASE step = "begin" -> FALSE
                            [] step = "raise" -> TRUE
                            [] OTHER -> overtaken
          /\ UNCHANGED <<requests, running, scenario, failed>>
     ELSE failed' = TRUE /\ VtcReturns(FALSE)

VtcPasses ==
  /\ InScenario
  /\ position > Len(Scripts[scenario])
  /\ VtcReturns(TRUE)
  /\ UNCHANGED failed

-----------------------------------------------------------------------------
RestNext ==
  \/ \E slot \in Slots :
       \/ Answer(slot) \/ FlashAbort(slot) \/ GetReset(slot)
       \/ \E r \in TesterRoles : PostChallenge(slot, r)
       \/ \E r \in TesterRoles, response \in SA!Responses :
            PostResponse(slot, r, response)
       \/ \E request \in Requests, version \in Versions :
            FlashStart(slot, request, version)
       \/ \E seq \in Seqs, data \in Blocks : FlashBlock(slot, seq, data)
       \/ \E image \in Images, sig \in Signatures :
            FlashFinalize(slot, image, sig)
       \/ \E vtc \in DOMAIN Scripts : RunVtc(slot, vtc)
  \/ CallGoesOn \/ ResetReturns \/ FinalizeReturns
  \/ VtcStep \/ VtcPasses

RestSpec == RestInit /\ [][RestNext]_restVars

-----------------------------------------------------------------------------
\* Every scenario passes, whatever downloads, guesses, lockouts, resets and
\* earlier scenarios it comes after, and hands the HSM back available
\* (UserInfo.md: "16 / 16 passed"; _run_vtc).
ScenariosPass == ~failed /\ (running = None => ~hsmFail)

\* Requests and scenarios interleaved never leave an image in a bank that the
\* current key does not verify, so no boot fails on it.
StoredImagesVerify == \A b \in Banks : bank[b] # None => bank[b].sig = keyGen

\* The version counter of live requests falls only where a scenario has
\* overwritten it since their download was begun: two clients sharing the
\* pending version cannot lower it between them.
RollbackNeedsScenario == [][swVersion' < swVersion => overtaken']_restVars

UndisturbedCommit == [what |-> "finalize", done |-> TRUE, alone |-> TRUE]

\* The answer of a finalize that committed shows its own outcome, an idle flash
\* manager and an empty buffer, unless another handler acted during its
\* broadcasts (flash_finalize reads get_status after both awaits).
AnswerIsCurrent ==
  [][\A slot \in Slots :
       (Answer(slot) /\ requests[slot] = UndisturbedCommit)
         => state = "IDLE" /\ staging = NoBlocks /\ swVersion = pendingVersion]_restVars
=============================================================================
