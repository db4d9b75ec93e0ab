----------------------------- MODULE RestApiProofs -----------------------------
(***************************************************************************)
(* The REST handlers and the scenarios for every set of slots, roles,      *)
(* images and versions, every memory map and every retry limit.  The       *)
(* invariant of UpdateProofs does not survive a scenario, which writes the *)
(* keys of the store by itself; what is left of it is SharedInv.           *)
(***************************************************************************)
EXTENDS RestApi, UpdateProofs, SequenceTheorems

Access == INSTANCE SecurityAccessProofs WITH
  Roles <- TesterRoles,
  hsmDown <- hsmFail, powerCycles <- keyGen - 1, MaxPowerCycles <- MaxKeyGen - 1

\* The last write of a commit but one was the counter.
CounterWritten == pc = "commitClear" => swVersion = pendingVersion

\* The pending version is ahead of the counter unless a scenario has overtaken it.
AheadOrOvertaken == overtaken \/ VersionAhead

SharedInv == CommitState /\ AllFresh /\ CounterWritten /\ AheadOrOvertaken

\* What the answer of a commit is to show.
Current == state = "IDLE" /\ staging = NoBlocks /\ swVersion = pendingVersion

\* Whoever has the thread is in a call of its own.
ThreadInv ==
  /\ running = None => pc = "idle"
  /\ running # None /\ running.what = "finalize" =>
       pc \in CommitSteps \/ (pc = "idle" /\ Current)

\* As long as the thread is free, nothing has happened since the last commit
\* that is still alone with its answer.
AnswerInv ==
  running = None =>
    \A slot \in Slots : requests[slot] = UndisturbedCommit => Current

-----------------------------------------------------------------------------
(* Where a scenario stands and what it has achieved by then.               *)
Running == running # None /\ running.what = "run"
At(vtc, positions) == scenario = vtc /\ position \in positions

\* So many challenges can still be asked for.
Challenges(n) == ~locked /\ issued + n <= MaxChallenges
Begun == state = "DOWNLOADING" /\ hashAcc = None

\* Between two calls of the scenario: what the next ones need.
BeforeCall ==
  /\ At("VTC_01", 1..3) \/ At("VTC_04", {1}) \/ At("VTC_05", {1}) \/ At("VTC_07", {1})
     \/ At("VTC_11", {1}) \/ At("VTC_14", {1}) \/ At("VTC_15", {1})
       => swVersion = 1
  /\ At("VTC_01", {4}) \/ At("VTC_04", {2}) \/ At("VTC_05", {2}) \/ At("VTC_11", {2})
     \/ At("VTC_14", {2}) \/ At("VTC_15", {2})
       => Begun
  /\ At("VTC_01", {5}) \/ At("VTC_04", {3}) => hashAcc = Good
  /\ At("VTC_14", {3}) => hashAcc = Bad
  /\ At("VTC_01", {1}) \/ At("VTC_02", {1}) => Challenges(1)
  /\ At("VTC_01", {2}) \/ At("VTC_02", {2}) => SA!CanVerify
  /\ At("VTC_02", {2, 3}) => ~authenticated
  /\ At("VTC_07", {2}) \/ At("VTC_08", {2}) => flashPending
  /\ At("VTC_07", {4}) \/ At("VTC_10", {2}) \/ At("VTC_11", {5, 6}) => ~flashPending
  /\ At("VTC_08", {2}) => lastValid = "A"
  /\ At("VTC_08", {3}) => activeBank = "A"
  /\ At("VTC_09", {2}) => swVersion = 3
  /\ At("VTC_10", {2}) => activeBank = "A" /\ Fresh("A")
  /\ At("VTC_10", {3}) => bootResult = "ok"
  /\ At("VTC_15", {4}) => staging = NoBlocks

\* VTC-13 guesses wrong until the last retry locks.
Guessing ==
  scenario = "VTC_13" =>
    /\ \A k \in 0..(MaxAuthRetries - 1) :
         /\ position = 2 * k + 1 => retryCount = k /\ Challenges(MaxAuthRetries - k)
         /\ position = 2 * k + 2 => /\ retryCount = k /\ SA!CanVerify
                                    /\ Challenges(MaxAuthRetries - (k + 1))
    /\ position = 2 * MaxAuthRetries + 1 => locked

\* Inside a call of the scenario that writes more than once.
InCall ==
  /\ pc \in CommitSteps => At("VTC_01", {6}) \/ At("VTC_04", {4})
  /\ pc = "recoverClear" => At("VTC_08", {3}) /\ activeBank = "A"
  /\ pc = "bootVerify" => At("VTC_10", {3}) /\ Fresh(activeBank)
  /\ pc # "bootClear"

\* What the invariant says of a scenario that runs.
OnTrack ==
  /\ hsmFail <=> At("VTC_11", {4, 5})
  /\ pc = "idle" => BeforeCall /\ Guessing
  /\ InCall

ScenarioInv ==
  /\ ~failed
  /\ ~Running => ~hsmFail
  /\ Running => /\ scenario \in DOMAIN Scripts
                /\ position \in 1..(Len(Scripts[scenario]) + 1)
                /\ OnTrack

-----------------------------------------------------------------------------
(* Steps of the handlers as steps of the update path and security access.  *)

\* The constants of the composition are constants of security access.
LEMMA AccessAssumption == Access!SecurityAccessAssumption
  BY RestApiAssumption, EcuStoreAssumption
  DEF RestApiAssumption, EcuStoreAssumption, Access!SecurityAccessAssumption

\* A scenario writes keys of the store by itself, between two calls.
Rewrites ==
  /\ pc = "idle"
  /\ UNCHANGED <<ramVars, job, hsmVars, pc, bootResult>>
  /\ swVersion' \in Int /\ flashPending' \in BOOLEAN
  /\ activeBank' \in Banks /\ lastValid' \in Banks
  /\ \/ bank' = bank
     \/ bank' = [bank EXCEPT !["A"] = [image |-> Good, sig |-> keyGen,
                                       version |-> ScenarioVersion]]

Begins == \E request \in Requests, version \in Versions :
            BeginDownload(request, version)

\* Every handler is a step of the update path or a write of a scenario, and the
\* history of the counter tells the two apart.
UpdateStep ==
  \/ [NextRunning]_vars /\ overtaken' = overtaken
  \/ Begins
  \/ Rewrites /\ (overtaken' = TRUE \/ UNCHANGED <<overtaken, swVersion>>)

\* The keys a scenario writes, in its preamble or later.
LEMMA StoreCallRewrites ==
  ASSUME TypeOK, pc = "idle", NEW step, StoreCall(step)
  PROVE  Rewrites
<1>1. flashPending \in BOOLEAN /\ swVersion \in Int /\ activeBank \in Banks
      /\ lastValid \in Banks
  BY DEF TypeOK, EcuStoreTypeOK
<1>2. UNCHANGED <<ramVars, job, hsmVars, pc, bootResult>>
  BY DEF StoreCall
<1>3. \/ UNCHANGED <<flashPending, activeBank, lastValid, bank>> /\ swVersion' = 3
      \/ UNCHANGED <<swVersion, bank>> /\ flashPending' = TRUE /\ activeBank' = "B"
         /\ lastValid' = "A"
      \/ UNCHANGED <<swVersion, lastValid>> /\ flashPending' = FALSE
         /\ activeBank' = "A"
         /\ bank' = [bank EXCEPT !["A"] = [image |-> Good, sig |-> keyGen,
                                          version |-> ScenarioVersion]]
  BY DEF StoreCall
<1>4. flashPending' \in BOOLEAN
  BY <1>1, <1>3
<1>5. swVersion' \in Int /\ activeBank' \in Banks /\ lastValid' \in Banks
  BY <1>1, <1>3 DEF Banks
<1>6. \/ bank' = bank
      \/ bank' = [bank EXCEPT !["A"] = [image |-> Good, sig |-> keyGen,
                                       version |-> ScenarioVersion]]
  BY <1>3
<1> QED BY <1>2, <1>4, <1>5, <1>6 DEF Rewrites

\* The keys its preamble overwrites.
LEMMA PreambleRewrites ==
  ASSUME NEW slot, NEW vtc, ThreadInv, RunVtc(slot, vtc)
  PROVE  Rewrites
<1>1. pc = "idle"
  BY DEF RunVtc, Handles, ThreadInv
<1>2. UNCHANGED <<ramVars, job, bank, hsmVars, pc, bootResult>>
  BY DEF RunVtc
<1>3. swVersion' = 1 /\ flashPending' = FALSE /\ activeBank' = "A" /\ lastValid' = "A"
  BY DEF RunVtc
<1>4. flashPending' \in BOOLEAN
  BY <1>3
<1>5. swVersion' \in Int /\ activeBank' \in Banks /\ lastValid' \in Banks
  BY <1>3 DEF Banks
<1>6. bank' = bank
  BY <1>2
<1> QED BY <1>1, <1>2, <1>4, <1>5, <1>6 DEF Rewrites

\* Every call of a scenario that is no such write is one a client may make.
LEMMA FlashCallStep ==
  ASSUME TypeOK, NEW step, FlashCall(step)
  PROVE  NextRunning
<1> USE RestApiAssumption DEF RestApiAssumption, NextRunning, FlashManagerNext
<1>1. 0 \in Signatures /\ keyGen \in Signatures
  BY EcuStoreAssumption DEF Signatures, TypeOK, EcuStoreTypeOK, EcuStoreAssumption
<1>2. CASE BeginDownload(Open, ScenarioVersion)
  BY <1>2
<1>3. CASE TransferBlock(1, Good) \/ TransferBlock(1, Bad)
  BY <1>3
<1>4. CASE FinalizeAccepted(Good, keyGen) \/ FinalizeRejected(Good, keyGen)
           \/ FinalizeMismatch(Good, keyGen)
  BY <1>1, <1>4
<1>5. CASE FinalizeRejected(Bad, 0)
  <2>1. FinalizeRejected(Good, 0)
    BY <1>5 DEF FinalizeRejected
  <2> QED BY <1>1, <2>1
<1>6. CASE Abort \/ SimulateFailure
  BY <1>6
<1>7. CASE (Recover \/ BootDirect) /\ UNCHANGED <<ramVars, job>>
  BY <1>7 DEF BootloaderNext, BootStep
<1> QED BY <1>2, <1>3, <1>4, <1>5, <1>6, <1>7 DEF FlashCall

\* What a scenario does between two of its calls, as a step of the update path.
LEMMA ScenarioStep ==
  ASSUME TypeOK, pc = "idle", NEW step, AsExpected(step),
         overtaken' = CASE step = "begin" -> FALSE
                        [] step = "raise" -> TRUE
                        [] OTHER -> overtaken
  PROVE  UpdateStep
<1>1. CASE step = "begin"
  <2>1. BeginDownload(Open, ScenarioVersion)
    BY <1>1 DEF AsExpected, AccessCall, StoreCall, FlashCall, Holds
  <2> QED BY <2>1, RestApiAssumption DEF UpdateStep, Begins, RestApiAssumption
<1>2. CASE step = "raise"
  <2>1. StoreCall(step)
    BY <1>2 DEF AsExpected, AccessCall, FlashCall, Holds
  <2> QED BY <1>2, <2>1, StoreCallRewrites DEF UpdateStep
<1>3. CASE step # "begin" /\ step # "raise"
  <2>1. overtaken' = overtaken
    BY <1>3
  <2>2. CASE UNCHANGED vars
    BY <2>1, <2>2 DEF UpdateStep
  <2>3. CASE StoreCall(step)
    <3>1. swVersion' = swVersion
      BY <1>3, <2>3 DEF StoreCall
    <3> QED BY <2>1, <2>3, <3>1, StoreCallRewrites DEF UpdateStep
  <2>4. CASE FlashCall(step)
    BY <2>1, <2>4, FlashCallStep DEF UpdateStep
  <2> QED BY <2>2, <2>3, <2>4 DEF AsExpected
<1> QED BY <1>1, <1>2, <1>3

\* The one argument about the routers that everything below rests on: no handler
\* and no scenario does anything else to the update path.
LEMMA RestStep ==
  ASSUME TypeOK, ThreadInv, [RestNext]_restVars
  PROVE  UpdateStep
<1>1. CASE UNCHANGED vars /\ overtaken' = overtaken
  BY <1>1 DEF UpdateStep
<1>2. CASE NextRunning /\ overtaken' = overtaken
  BY <1>2 DEF UpdateStep
<1>3. ASSUME NEW slot \in Slots,
             Answer(slot) \/ FlashAbort(slot) \/ GetReset(slot)
             \/ (\E r \in TesterRoles : PostChallenge(slot, r))
             \/ (\E r \in TesterRoles, response \in SA!Responses :
                   PostResponse(slot, r, response))
      PROVE  UpdateStep
  <2>1. CASE FlashAbort(slot)
    BY <1>2, <2>1 DEF FlashAbort, NextRunning, FlashManagerNext
  <2>2. CASE GetReset(slot)
    BY <1>2, <2>2 DEF GetReset, NextRunning, BootloaderNext, BootStep
  <2>3. CASE Answer(slot) \/ (\E r \in TesterRoles : PostChallenge(slot, r))
             \/ (\E r \in TesterRoles, response \in SA!Responses :
                   PostResponse(slot, r, response))
    BY <1>1, <2>3 DEF Answer, PostChallenge, PostResponse
  <2> QED BY <1>3, <2>1, <2>2, <2>3
<1>4. ASSUME NEW slot \in Slots, NEW request \in Requests, NEW version \in Versions,
             FlashStart(slot, request, version)
      PROVE  UpdateStep
  BY <1>4 DEF FlashStart, UpdateStep, Begins
<1>5. ASSUME NEW slot \in Slots, NEW seq \in Seqs, NEW data \in Blocks,
             FlashBlock(slot, seq, data)
      PROVE  UpdateStep
  BY <1>2, <1>5 DEF FlashBlock, NextRunning, FlashManagerNext
<1>6. ASSUME NEW slot \in Slots, NEW image \in Images, NEW sig \in Signatures,
             FlashFinalize(slot, image, sig)
      PROVE  UpdateStep
  BY <1>2, <1>6 DEF FlashFinalize, NextRunning, FlashManagerNext
<1>7. ASSUME NEW slot \in Slots, NEW vtc \in DOMAIN Scripts, RunVtc(slot, vtc)
      PROVE  UpdateStep
  BY <1>7, PreambleRewrites DEF RunVtc, UpdateStep
<1>8. CASE CallGoesOn
  BY <1>2, <1>8 DEF CallGoesOn, RunningCall, NextRunning, FlashManagerNext,
     BootloaderNext, BootStep
<1>9. CASE ResetReturns \/ FinalizeReturns \/ VtcPasses
  BY <1>1, <1>9 DEF ResetReturns, FinalizeReturns, VtcPasses, VtcReturns
<1>10. CASE VtcStep
  <2> DEFINE step == Scripts[scenario][position]
  <2>1. CASE Expects(step)
    <3>1. /\ pc = "idle" /\ AsExpected(step)
          /\ overtaken' = CASE step = "begin" -> FALSE
                            [] step = "raise" -> TRUE
                            [] OTHER -> overtaken
      BY <1>10, <2>1 DEF VtcStep, InScenario
    <3> HIDE DEF step
    <3> QED BY <3>1, ScenarioStep
  <2>2. CASE ~Expects(step)
    BY <1>1, <1>10, <2>2 DEF VtcStep, VtcReturns
  <2> QED BY <2>1, <2>2
<1>11. CASE UNCHANGED restVars
  BY <1>1, <1>11 DEF restVars
<1> QED
  BY <1>3, <1>4, <1>5, <1>6, <1>7, <1>8, <1>9, <1>10, <1>11 DEF RestNext

-----------------------------------------------------------------------------
\* A step that leaves security access alone.
LEMMA AccessKept ==
  UNCHANGED <<accessVars, hsmVars>> => UNCHANGED Access!saVars
  BY DEF accessVars, hsmVars, Access!saVars, Access!authVars

\* The authentication a scenario asks for, as a client would.
LEMMA AccessCallStep ==
  ASSUME SA!SecurityAccessTypeOK, NEW step, UNCHANGED vars, AccessCall(step)
  PROVE  Access!SecurityAccessNext
<1> USE RestApiAssumption DEF RestApiAssumption, Access!SecurityAccessNext
<1>1. CASE SA!GetChallenge(Tester)
  <2>1. Access!GetChallenge(Tester)
    BY <1>1 DEF SA!GetChallenge, Access!GetChallenge
  <2> QED BY <2>1
<1>2. ASSUME NEW response \in Access!Responses,
             SA!VerifyAccepted(Tester, response) \/ SA!VerifyRejected(Tester, response)
      PROVE  Access!SecurityAccessNext
  <2>1. Access!VerifyAccepted(Tester, response) \/ Access!VerifyRejected(Tester, response)
    BY <1>2 DEF SA!VerifyAccepted, Access!VerifyAccepted, SA!VerifyRejected,
       Access!VerifyRejected, SA!CanVerify, Access!CanVerify, SA!ResponseValid,
       Access!ResponseValid, SA!LocksAt, Access!LocksAt
  <2> QED BY <2>1
<1>3. CASE SA!VerifyAccepted(Tester, [key |-> Tester, over |-> pendingChallenge])
  <2>1. pendingChallenge \in Access!Nonces
    BY <1>3 DEF SA!VerifyAccepted, SA!CanVerify, SA!SecurityAccessTypeOK, SA!Nonces,
       Access!Nonces
  <2>2. [key |-> Tester, over |-> pendingChallenge] \in Access!Responses
    BY <2>1 DEF Access!Responses
  <2> QED BY <1>2, <1>3, <2>2
<1>4. CASE SA!VerifyRejected(Tester, Garbage)
  <2>1. Garbage \in Access!Responses
    BY DEF Access!Responses
  <2> QED BY <1>2, <1>4, <2>1
<1> QED BY <1>1, <1>3, <1>4 DEF AccessCall

\* Every handler is a step of security access, too.
LEMMA AccessStep ==
  ASSUME SA!SecurityAccessTypeOK, [RestNext]_restVars
  PROVE  [Access!SecurityAccessNext]_(Access!saVars)
<1> USE DEF Access!SecurityAccessNext
<1>1. CASE UNCHANGED <<accessVars, hsmVars>>
  BY <1>1, AccessKept
<1>2. ASSUME FlashManagerNext \/ BootloaderNext \/ UNCHANGED vars, UNCHANGED accessVars
      PROVE  [Access!SecurityAccessNext]_(Access!saVars)
  BY <1>1, <1>2, HsmKept
<1>3. CASE SimulateFailure /\ UNCHANGED accessVars
  <2>1. Access!ToggleHsm
    BY <1>3 DEF SimulateFailure, accessVars, Access!ToggleHsm, Access!authVars
  <2> QED BY <2>1
<1>4. ASSUME SA!ResetAuth, UNCHANGED hsmVars
      PROVE  [Access!SecurityAccessNext]_(Access!saVars)
  <2>1. Access!ResetAuth
    BY <1>4 DEF SA!ResetAuth, Access!ResetAuth
  <2> QED BY <2>1
<1>5. ASSUME NEW slot \in Slots, NEW r \in TesterRoles, PostChallenge(slot, r)
      PROVE  [Access!SecurityAccessNext]_(Access!saVars)
  <2>1. Access!GetChallenge(r)
    BY <1>5 DEF PostChallenge, SA!GetChallenge, Access!GetChallenge
  <2> QED BY <2>1
<1>6. ASSUME NEW slot \in Slots, NEW r \in TesterRoles, NEW response \in SA!Responses,
             PostResponse(slot, r, response)
      PROVE  [Access!SecurityAccessNext]_(Access!saVars)
  <2>1. response \in Access!Responses
    BY DEF SA!Responses, Access!Responses, SA!Nonces, Access!Nonces
  <2>2. Access!VerifyAccepted(r, response) \/ Access!VerifyRejected(r, response)
    BY <1>6 DEF PostResponse, SA!VerifyAccepted, Access!VerifyAccepted,
       SA!VerifyRejected, Access!VerifyRejected, SA!CanVerify, Access!CanVerify,
       SA!ResponseValid, Access!ResponseValid, SA!LocksAt, Access!LocksAt
  <2> QED BY <2>1, <2>2
<1>7. ASSUME NEW slot \in Slots, Answer(slot) \/ FlashAbort(slot) \/ GetReset(slot)
      PROVE  [Access!SecurityAccessNext]_(Access!saVars)
  BY <1>2, <1>7 DEF Answer, FlashAbort, GetReset, FlashManagerNext, BootloaderNext,
     BootStep
<1>8. ASSUME NEW slot \in Slots, NEW request \in Requests, NEW version \in Versions,
             FlashStart(slot, request, version)
      PROVE  [Access!SecurityAccessNext]_(Access!saVars)
  BY <1>2, <1>8 DEF FlashStart, FlashManagerNext
<1>9. ASSUME NEW slot \in Slots, NEW seq \in Seqs, NEW data \in Blocks,
             FlashBlock(slot, seq, data)
      PROVE  [Access!SecurityAccessNext]_(Access!saVars)
  BY <1>2, <1>9 DEF FlashBlock, FlashManagerNext
<1>10. ASSUME NEW slot \in Slots, NEW image \in Images, NEW sig \in Signatures,
              FlashFinalize(slot, image, sig)
       PROVE  [Access!SecurityAccessNext]_(Access!saVars)
  BY <1>2, <1>10 DEF FlashFinalize, FlashManagerNext
<1>11. ASSUME NEW slot \in Slots, NEW vtc \in DOMAIN Scripts, RunVtc(slot, vtc)
       PROVE  [Access!SecurityAccessNext]_(Access!saVars)
  BY <1>4, <1>11 DEF RunVtc, ResetEcu
<1>12. CASE CallGoesOn
  BY <1>2, <1>12 DEF CallGoesOn, RunningCall, FlashManagerNext, BootloaderNext, BootStep
<1>13. CASE ResetReturns
  BY <1>4, <1>13 DEF ResetReturns, vars
<1>14. CASE FinalizeReturns \/ VtcPasses
  BY <1>2, <1>14 DEF FinalizeReturns, VtcPasses, VtcReturns
<1>15. CASE VtcStep
  <2> DEFINE step == Scripts[scenario][position]
  <2>1. CASE Expects(step)
    <3>1. AsExpected(step)
      BY <1>15, <2>1 DEF VtcStep
    <3> HIDE DEF step
    <3>2. CASE UNCHANGED vars /\ AccessCall(step)
      BY <3>2, AccessCallStep
    <3>3. CASE StoreCall(step) /\ UNCHANGED accessVars
      BY <1>1, <3>3 DEF StoreCall
    <3>4. CASE FlashCall(step) /\ UNCHANGED accessVars
      <4>1. CASE SimulateFailure
        BY <1>3, <3>4, <4>1
      <4>2. CASE UNCHANGED hsmVars
        BY <1>1, <3>4, <4>2
      <4>3. SimulateFailure \/ UNCHANGED hsmVars
        BY <3>4 DEF FlashCall, BeginDownload, TransferBlock, FinalizeAccepted,
           FinalizeRejected, FinalizeMismatch, Abort, Recover, BootDirect
      <4> QED BY <4>1, <4>2, <4>3
    <3>5. CASE UNCHANGED <<vars, accessVars>>
      BY <1>2, <3>5
    <3> QED BY <3>1, <3>2, <3>3, <3>4, <3>5 DEF AsExpected
  <2>2. CASE ~Expects(step)
    BY <1>2, <1>15, <2>2 DEF VtcStep, VtcReturns
  <2> QED BY <2>1, <2>2
<1>16. CASE UNCHANGED restVars
  BY <1>2, <1>16 DEF restVars
<1> QED
  BY <1>5, <1>6, <1>7, <1>8, <1>9, <1>10, <1>11, <1>12, <1>13, <1>14, <1>15, <1>16
  DEF RestNext

-----------------------------------------------------------------------------
(* What the steps do to the invariant of the update path.                  *)

Preserved == /\ CommitState' /\ AllFresh' /\ CounterWritten'
             /\ VersionAhead => VersionAhead'

\* Calls of live requests and of scenarios preserve it.
LEMMA CallPreserves ==
  ASSUME TypeOK, CommitState, AllFresh, CounterWritten, [NextRunning]_vars
  PROVE  Preserved
<1> USE Types DEF CommitState, AllFresh, CounterWritten, VersionAhead, Preserved,
                  CommitSteps, Banks
<1>1. ASSUME NEW request \in Requests, NEW version \in Versions,
             BeginDownload(request, version)
      PROVE  Preserved
  BY <1>1 DEF BeginDownload, CheckVersion, hsmVars
<1>2. ASSUME NEW seq \in Seqs, NEW data \in Blocks, TransferBlock(seq, data)
      PROVE  Preserved
  BY <1>2 DEF TransferBlock, hsmVars, nvmVars
<1>3. ASSUME NEW image \in Images, NEW sig \in Signatures,
             FinalizeRejected(image, sig)
      PROVE  Preserved
  BY <1>3 DEF FinalizeRejected, AbortAndSanitize, hsmVars
<1>4. ASSUME NEW image \in Images, NEW sig \in Signatures,
             FinalizeNoContext(image, sig)
      PROVE  Preserved
  BY <1>4 DEF FinalizeNoContext, hsmVars, nvmVars
<1>5. ASSUME NEW image \in Images, NEW sig \in Signatures,
             FinalizeMismatch(image, sig)
      PROVE  Preserved
  BY <1>5 DEF FinalizeMismatch, AbortAndSanitize, hsmVars
<1>6. ASSUME NEW image \in Images, NEW sig \in Signatures,
             FinalizeAccepted(image, sig)
      PROVE  Preserved
  BY <1>6 DEF FinalizeAccepted, HashMatches, SigValid, hsmVars, nvmVars
<1>7. CASE CommitActive
  BY <1>7 DEF CommitActive, ramVars, hsmVars
<1>8. CASE CommitLastValid
  BY <1>8 DEF CommitLastValid, ramVars, hsmVars
<1>9. CASE CommitBank
  <2> DEFINE new == [image |-> job.image, sig |-> job.sig, version |-> pendingVersion]
  <2>1. /\ bank' = [bank EXCEPT ![activeBank] = new]
        /\ pc = "commitBank" /\ pc' = "commitVersion"
        /\ UNCHANGED <<state, hashAcc, pendingVersion, job, activeBank, swVersion,
                       keyGen>>
    BY <1>9 DEF CommitBank, ramVars, hsmVars
  <2>2. new.sig = keyGen
    BY <2>1
  <2>3. /\ bank'[activeBank] = new
        /\ \A b \in Banks : b # activeBank => bank'[b] = bank[b]
    BY <2>1
  <2> HIDE DEF new
  <2>4. AllFresh'
    BY <2>1, <2>2, <2>3
  <2>5. CommitState' /\ CounterWritten' /\ (VersionAhead => VersionAhead')
    BY <2>1
  <2> QED BY <2>4, <2>5
<1>10. CASE CommitVersion
  BY <1>10 DEF CommitVersion, ramVars, hsmVars
<1>11. CASE CommitClear
  BY <1>11 DEF CommitClear, hsmVars
<1>12. CASE Abort
  BY <1>12 DEF Abort, AbortAndSanitize, hsmVars
<1>13. CASE (BootRecover \/ BootClear \/ BootDirect) /\ UNCHANGED <<ramVars, job>>
  BY <1>13 DEF BootRecover, BootClear, BootDirect, FallBack, ramVars, hsmVars, nvmVars
<1>14. CASE (BootSucceeds \/ BootFails \/ BootErrs) /\ UNCHANGED <<ramVars, job>>
  BY <1>14 DEF BootSucceeds, BootFails, BootErrs, ramVars, hsmVars, nvmVars
<1>15. CASE (Recover \/ RecoverClear) /\ UNCHANGED <<ramVars, job>>
  BY <1>15 DEF Recover, RecoverClear, FallBack, ramVars, hsmVars
<1>16. CASE SimulateFailure
  BY <1>16 DEF SimulateFailure, ramVars, nvmVars
<1>17. CASE UNCHANGED vars
  BY <1>17 DEF vars, ramVars, nvmVars, hsmVars
<1> QED
  BY <1>1, <1>2, <1>3, <1>4, <1>5, <1>6, <1>7, <1>8, <1>9, <1>10, <1>11, <1>12,
     <1>13, <1>14, <1>15, <1>16, <1>17
  DEF NextRunning, FlashManagerNext, Commit, BootloaderNext, BootStep

\* So do the writes of a scenario, but for the counter they may overwrite.
LEMMA RewritePreserves ==
  ASSUME TypeOK, CommitState, AllFresh, CounterWritten, Rewrites
  PROVE  /\ CommitState' /\ AllFresh' /\ CounterWritten'
         /\ VersionAhead /\ swVersion' = swVersion => VersionAhead'
<1> USE Types DEF CommitState, AllFresh, CounterWritten, VersionAhead, Rewrites,
                  CommitSteps, Banks
<1>1. CommitState' /\ CounterWritten'
      /\ (VersionAhead /\ swVersion' = swVersion => VersionAhead')
  BY DEF ramVars, hsmVars
<1>2. AllFresh'
  <2> DEFINE new == [image |-> Good, sig |-> keyGen, version |-> ScenarioVersion]
  <2>1. keyGen' = keyGen
    BY DEF hsmVars
  <2>2. new.sig = keyGen
    OBVIOUS
  <2> HIDE DEF new
  <2>3. bank' = bank \/ bank' = [bank EXCEPT !["A"] = new]
    BY DEF new
  <2> QED BY <2>1, <2>2, <2>3
<1> QED BY <1>1, <1>2

\* And the types.
LEMMA RewriteTypeOK ==
  ASSUME TypeOK, Rewrites
  PROVE  TypeOK'
<1> USE RestApiAssumption, EcuStoreAssumption, FlashManagerAssumption
        DEF RestApiAssumption, EcuStoreAssumption, FlashManagerAssumption
<1>1. FlashManagerTypeOK'
  BY DEF Rewrites, TypeOK, FlashManagerTypeOK, ramVars
<1>2. bank' \in [Banks -> Image \cup {None}]
  <2> DEFINE new == [image |-> Good, sig |-> keyGen, version |-> ScenarioVersion]
  <2>1. new \in Image
    BY DEF TypeOK, EcuStoreTypeOK, Image, ScenarioVersion
  <2> HIDE DEF new
  <2>2. bank' = bank \/ bank' = [bank EXCEPT !["A"] = new]
    BY DEF Rewrites, new
  <2> QED BY <2>1, <2>2 DEF TypeOK, EcuStoreTypeOK
<1>3. EcuStoreTypeOK'
  <2>1. UNCHANGED <<keyGen, hsmFail, pc, bootResult>>
    BY DEF Rewrites, hsmVars
  <2> QED BY <1>2, <2>1 DEF Rewrites, TypeOK, EcuStoreTypeOK
<1> QED BY <1>1, <1>3 DEF TypeOK

\* A download is announced with a version ahead of the counter.
LEMMA BeginsAhead ==
  ASSUME TypeOK, Begins
  PROVE  VersionAhead' /\ [NextRunning]_vars /\ UNCHANGED swVersion
<1>1. PICK request \in Requests, version \in Versions : BeginDownload(request, version)
  BY DEF Begins
<1>2. VersionAhead' /\ UNCHANGED swVersion
  BY <1>1, Types DEF BeginDownload, CheckVersion, VersionAhead, CommitSteps
<1>3. NextRunning
  BY <1>1 DEF NextRunning, FlashManagerNext
<1> QED BY <1>2, <1>3

\* Together: every handler preserves types and invariant.
LEMMA UpdatePreserves ==
  ASSUME TypeOK, SharedInv, UpdateStep
  PROVE  TypeOK' /\ SharedInv'
<1> USE DEF SharedInv, AheadOrOvertaken
<1>1. CASE [NextRunning]_vars
  <2>1. TypeOK'
    BY <1>1, StepTypeOK DEF Next
  <2>2. Preserved
    BY <1>1, CallPreserves
  <2>3. AheadOrOvertaken'
    BY <2>2, BeginsAhead, RewritePreserves DEF UpdateStep, Preserved
  <2> QED BY <2>1, <2>2, <2>3 DEF Preserved
<1>2. CASE Rewrites /\ (overtaken' = TRUE \/ UNCHANGED <<overtaken, swVersion>>)
  BY <1>2, RewriteTypeOK, RewritePreserves
<1> QED BY <1>1, <1>2, BeginsAhead DEF UpdateStep

-----------------------------------------------------------------------------
(* The thread and the suspended handlers.                                  *)

OwnTypes ==
  /\ requests \in [Slots -> Suspended \cup {None}]
  /\ running \in OnThread \cup {None}
  /\ scenario \in DOMAIN Scripts \cup {None}
  /\ position \in Nat
  /\ failed \in BOOLEAN /\ overtaken \in BOOLEAN

\* A handler that is suspended has its own slot, and all others are disturbed.
LEMMA SuspendTypes ==
  ASSUME OwnTypes, NEW slot \in Slots, NEW what \in Routes, NEW done \in BOOLEAN,
         AnswerAtOnce \/ Suspend(slot, what, done)
  PROVE  requests' \in [Slots -> Suspended \cup {None}] /\ running' = None
<1>1. Disturbed \in [Slots -> Suspended \cup {None}]
  BY DEF OwnTypes, Disturbed, Suspended
<1>2. [what |-> what, done |-> done, alone |-> TRUE] \in Suspended
  BY DEF Suspended
<1> QED BY <1>1, <1>2 DEF AnswerAtOnce, Suspend

\* Each handler keeps the types of what it shares with the others.
LEMMA OwnTypesStep ==
  ASSUME OwnTypes, [RestNext]_restVars
  PROVE  OwnTypes'
<1>1. ASSUME NEW slot \in Slots, NEW what \in Routes, NEW done \in BOOLEAN,
             AnswerAtOnce \/ Suspend(slot, what, done),
             UNCHANGED scriptVars \/ (scenario' = None /\ position' = 0),
             failed' \in BOOLEAN, overtaken' \in BOOLEAN
      PROVE  OwnTypes'
  BY <1>1, SuspendTypes DEF OwnTypes, scriptVars
<1>2. ASSUME NEW slot \in Slots, NEW what \in {"finalize", "reset", "run"},
             Run(slot, what),
             UNCHANGED scriptVars \/ (scenario' \in DOMAIN Scripts /\ position' = 1),
             failed' \in BOOLEAN, overtaken' \in BOOLEAN
      PROVE  OwnTypes'
  BY <1>2 DEF OwnTypes, scriptVars, Run, OnThread
<1>3. ASSUME NEW slot \in Slots, Answer(slot) PROVE OwnTypes'
  BY <1>3 DEF Answer, OwnTypes, scriptVars
<1>4. ASSUME NEW slot \in Slots,
             FlashAbort(slot)
             \/ (\E r \in TesterRoles : PostChallenge(slot, r))
             \/ (\E r \in TesterRoles, response \in SA!Responses :
                   PostResponse(slot, r, response))
             \/ (\E request \in Requests, version \in Versions :
                   FlashStart(slot, request, version))
             \/ (\E seq \in Seqs, data \in Blocks : FlashBlock(slot, seq, data))
      PROVE  OwnTypes'
  <2>1. /\ failed' = failed /\ overtaken' \in {overtaken, FALSE}
        /\ UNCHANGED scriptVars
    BY <1>4 DEF FlashAbort, PostChallenge, PostResponse, FlashStart, FlashBlock
  <2>2. PICK what \in Routes, done \in BOOLEAN :
          AnswerAtOnce \/ Suspend(slot, what, done)
    BY <1>4 DEF FlashAbort, PostChallenge, PostResponse, FlashStart, FlashBlock, Routes
  <2> QED BY <1>1, <2>1, <2>2 DEF OwnTypes
<1>5. ASSUME NEW slot \in Slots, NEW image \in Images, NEW sig \in Signatures,
             FlashFinalize(slot, image, sig)
      PROVE  OwnTypes'
  <2>1. failed' = failed /\ overtaken' = overtaken /\ UNCHANGED scriptVars
    BY <1>5 DEF FlashFinalize
  <2>2. AnswerAtOnce \/ Suspend(slot, "finalize", FALSE) \/ Run(slot, "finalize")
    BY <1>5 DEF FlashFinalize
  <2> QED BY <1>1, <1>2, <2>1, <2>2 DEF OwnTypes, Routes
<1>6. ASSUME NEW slot \in Slots, GetReset(slot) PROVE OwnTypes'
  BY <1>2, <1>6 DEF GetReset, OwnTypes
<1>7. ASSUME NEW slot \in Slots, NEW vtc \in DOMAIN Scripts, RunVtc(slot, vtc)
      PROVE  OwnTypes'
  BY <1>2, <1>7 DEF RunVtc, OwnTypes
<1>8. ASSUME running # None PROVE running.slot \in Slots
  BY <1>8 DEF OwnTypes, OnThread
<1>9. CASE CallGoesOn
  BY <1>9 DEF CallGoesOn, loopVars, OwnTypes
<1>10. CASE ResetReturns
  <2>1. Suspend(running.slot, "reset", bootResult = "ok") /\ running.slot \in Slots
        /\ UNCHANGED <<scriptVars, failed, overtaken>>
    BY <1>8, <1>10 DEF ResetReturns
  <2> QED BY <1>1, <2>1 DEF Routes, OwnTypes
<1>11. CASE FinalizeReturns
  <2>1. Suspend(running.slot, "finalize", TRUE) /\ running.slot \in Slots
        /\ UNCHANGED <<scriptVars, failed, overtaken>>
    BY <1>8, <1>11 DEF FinalizeReturns
  <2> QED BY <1>1, <2>1 DEF Routes, OwnTypes
<1>12. ASSUME NEW passed \in BOOLEAN, InScenario, VtcReturns(passed), failed' \in BOOLEAN
       PROVE  OwnTypes'
  <2>1. Suspend(running.slot, "run", passed) /\ running.slot \in Slots
        /\ scenario' = None /\ position' = 0 /\ overtaken' = overtaken
    BY <1>8, <1>12 DEF InScenario, VtcReturns
  <2> QED BY <1>1, <1>12, <2>1 DEF Routes, OwnTypes
<1>13. CASE VtcStep
  <2> DEFINE step == Scripts[scenario][position]
  <2>1. CASE Expects(step)
    <3>1. /\ UNCHANGED <<requests, running, scenario, failed>>
          /\ position' = position + 1
          /\ overtaken' = CASE step = "begin" -> FALSE
                            [] step = "raise" -> TRUE
                            [] OTHER -> overtaken
      BY <1>13, <2>1 DEF VtcStep
    <3> HIDE DEF step
    <3>2. overtaken' = FALSE \/ overtaken' = TRUE \/ overtaken' = overtaken
      BY <3>1
    <3>3. overtaken' \in BOOLEAN
      BY <3>2 DEF OwnTypes
    <3>4. position' \in Nat
      BY <3>1 DEF OwnTypes
    <3>5. requests' = requests /\ running' = running /\ scenario' = scenario
          /\ failed' = failed
      BY <3>1
    <3>6. failed' \in BOOLEAN
      BY <3>5 DEF OwnTypes
    <3> QED BY <3>3, <3>4, <3>5, <3>6 DEF OwnTypes
  <2>2. CASE ~Expects(step)
    BY <1>12, <1>13, <2>2 DEF VtcStep
  <2> QED BY <2>1, <2>2
<1>14. CASE VtcPasses
  BY <1>12, <1>14 DEF VtcPasses, OwnTypes
<1>15. CASE UNCHANGED restVars
  BY <1>15 DEF restVars, loopVars, OwnTypes
<1> QED
  BY <1>3, <1>4, <1>5, <1>6, <1>7, <1>9, <1>10, <1>11, <1>13, <1>14, <1>15
  DEF RestNext

\* The thread is free between two handlers, and what a commit leaves behind is
\* there when its finalize goes on.
LEMMA ThreadStep ==
  ASSUME TypeOK, SharedInv, ThreadInv, OwnTypes, [RestNext]_restVars
  PROVE  ThreadInv'
<1> USE DEF ThreadInv, Current
<1>1. ASSUME NEW slot \in Slots, NEW what, NEW done, pc = "idle", pc' = pc,
             AnswerAtOnce \/ Suspend(slot, what, done)
      PROVE  ThreadInv'
  BY <1>1 DEF AnswerAtOnce, Suspend
<1>2. ASSUME NEW slot \in Slots, NEW what \in {"reset", "run"}, Run(slot, what)
      PROVE  ThreadInv'
  <2>1. running' \in OnThread /\ running'.what # "finalize"
    BY <1>2 DEF Run, OnThread
  <2> QED BY <2>1, RestApiAssumption DEF RestApiAssumption
<1>3. ASSUME NEW slot \in Slots, Answer(slot) PROVE ThreadInv'
  BY <1>3 DEF Answer, vars
<1>4. ASSUME NEW slot \in Slots,
             FlashAbort(slot)
             \/ (\E r \in TesterRoles : PostChallenge(slot, r))
             \/ (\E r \in TesterRoles, response \in SA!Responses :
                   PostResponse(slot, r, response))
             \/ (\E request \in Requests, version \in Versions :
                   FlashStart(slot, request, version))
             \/ (\E seq \in Seqs, data \in Blocks : FlashBlock(slot, seq, data))
      PROVE  ThreadInv'
  <2>1. pc = "idle" /\ pc' = pc
    BY <1>4 DEF FlashAbort, PostChallenge, PostResponse, FlashStart, FlashBlock, Handles,
       Abort, BeginDownload, TransferBlock, vars
  <2>2. \E what, done : AnswerAtOnce \/ Suspend(slot, what, done)
    BY <1>4 DEF FlashAbort, PostChallenge, PostResponse, FlashStart, FlashBlock
  <2> QED BY <1>1, <2>1, <2>2
<1>5. ASSUME NEW slot \in Slots, NEW image \in Images, NEW sig \in Signatures,
             FlashFinalize(slot, image, sig)
      PROVE  ThreadInv'
  <2>1. CASE FinalizeAccepted(image, sig) /\ Run(slot, "finalize")
    <3>1. pc' \in CommitSteps /\ running' \in OnThread
      BY <2>1 DEF FinalizeAccepted, CommitSteps, Run, OnThread
    <3> QED BY <3>1, RestApiAssumption DEF RestApiAssumption
  <2>2. CASE /\ AnswerAtOnce \/ Suspend(slot, "finalize", FALSE)
             /\ \/ FinalizeRejected(image, sig) \/ FinalizeMismatch(image, sig)
                \/ FinalizeNoContext(image, sig)
    <3>1. pc = "idle" /\ pc' = pc
      BY <2>2 DEF FinalizeRejected, FinalizeMismatch, FinalizeNoContext
    <3> QED BY <1>1, <2>2, <3>1
  <2> QED BY <1>5, <2>1, <2>2 DEF FlashFinalize
<1>6. ASSUME NEW slot \in Slots, GetReset(slot) PROVE ThreadInv'
  BY <1>2, <1>6 DEF GetReset
<1>7. ASSUME NEW slot \in Slots, NEW vtc \in DOMAIN Scripts, RunVtc(slot, vtc)
      PROVE  ThreadInv'
  BY <1>2, <1>7 DEF RunVtc
<1>8. CASE CallGoesOn
  <2>1. running' = running /\ running # None /\ RunningCall
    BY <1>8 DEF CallGoesOn, loopVars
  <2>2. CASE running.what = "finalize"
    <3>1. pc # "idle"
      BY <2>1 DEF RunningCall, Commit, CommitActive, CommitLastValid, CommitBank,
         CommitVersion, CommitClear, BootClear, BootSucceeds, BootFails, BootErrs,
         RecoverClear
    <3>2. pc \in CommitSteps
      BY <2>1, <2>2, <3>1
    <3>3. Commit
      BY <2>1, <3>2 DEF RunningCall, CommitSteps, BootClear, BootSucceeds, BootFails,
         BootErrs, RecoverClear
    <3>4. CASE CommitClear
      BY <2>1, <3>4 DEF CommitClear, SharedInv, CounterWritten
    <3>5. CASE CommitActive \/ CommitLastValid \/ CommitBank \/ CommitVersion
      BY <2>1, <3>5 DEF CommitActive, CommitLastValid, CommitBank, CommitVersion,
         CommitSteps
    <3> QED BY <3>3, <3>4, <3>5 DEF Commit
  <2> QED BY <2>1, <2>2
<1>9. ASSUME running # None PROVE running.slot \in Slots
  BY <1>9 DEF OwnTypes, OnThread
<1>10. CASE ResetReturns \/ FinalizeReturns
  <2>1. pc = "idle" /\ pc' = pc /\ running.slot \in Slots
    BY <1>9, <1>10 DEF ResetReturns, FinalizeReturns, vars
  <2>2. \E what, done : Suspend(running.slot, what, done)
    BY <1>10 DEF ResetReturns, FinalizeReturns
  <2> QED BY <1>1, <2>1, <2>2
<1>11. ASSUME InScenario, NEW passed, VtcReturns(passed) PROVE ThreadInv'
  <2>1. pc = "idle" /\ pc' = pc /\ running.slot \in Slots
    BY <1>9, <1>11 DEF InScenario, VtcReturns, vars
  <2> QED BY <1>1, <1>11, <2>1 DEF VtcReturns
<1>12. CASE VtcStep
  <2>1. CASE running' = running
    BY <1>12, <2>1 DEF VtcStep, InScenario
  <2> QED BY <1>11, <1>12, <2>1 DEF VtcStep
<1>13. CASE VtcPasses
  BY <1>11, <1>13 DEF VtcPasses
<1>14. CASE UNCHANGED restVars
  BY <1>14 DEF restVars, loopVars, vars, ramVars, nvmVars
<1> QED
  BY <1>3, <1>4, <1>5, <1>6, <1>7, <1>8, <1>10, <1>12, <1>13, <1>14 DEF RestNext

\* The answer AnswerIsCurrent is about is one a finalize may give.
LEMMA CommitAnswer == UndisturbedCommit \in Suspended /\ UndisturbedCommit # None
<1>1. UndisturbedCommit \in Suspended
  BY DEF UndisturbedCommit, Suspended, Routes
<1> QED BY <1>1, RestApiAssumption DEF RestApiAssumption

\* Whoever acts disturbs all answers that are still outstanding; a commit that
\* has just returned is outstanding in the state it left.
LEMMA AnswerStep ==
  ASSUME ThreadInv, AnswerInv, OwnTypes, [RestNext]_restVars
  PROVE  AnswerInv'
<1>1. \A s \in Slots : Disturbed[s] # UndisturbedCommit
  <2>1. UndisturbedCommit \in Suspended /\ UndisturbedCommit.alone = TRUE
    BY CommitAnswer DEF UndisturbedCommit
  <2>2. \A s \in Slots : Disturbed[s] = None
                         \/ Disturbed[s] = [requests[s] EXCEPT !.alone = FALSE]
    BY DEF Disturbed
  <2>3. \A s \in Slots : requests[s] # None => requests[s] \in Suspended
    BY DEF OwnTypes
  <2> QED BY <2>1, <2>2, <2>3, RestApiAssumption
          DEF RestApiAssumption, Disturbed, Suspended
<1>2. ASSUME NEW slot \in Slots, NEW what, NEW done,
             Suspend(slot, what, done) \/ AnswerAtOnce,
             what # "finalize" \/ done = FALSE
      PROVE  AnswerInv'
  <2>1. CASE AnswerAtOnce
    BY <1>1, <2>1 DEF AnswerAtOnce, AnswerInv
  <2>2. CASE Suspend(slot, what, done)
    <3> DEFINE new == [what |-> what, done |-> done, alone |-> TRUE]
    <3>1. new # UndisturbedCommit
      <4>1. new.what = what /\ new.done = done
        OBVIOUS
      <4>2. UndisturbedCommit.what = "finalize" /\ UndisturbedCommit.done = TRUE
        BY DEF UndisturbedCommit
      <4> HIDE DEF new
      <4>3. CASE what # "finalize"
        BY <4>1, <4>2, <4>3
      <4>4. CASE done = FALSE
        BY <4>1, <4>2, <4>4
      <4> QED BY <1>2, <4>3, <4>4
    <3>2. requests' = [Disturbed EXCEPT ![slot] = new]
      BY <2>2 DEF Suspend
    <3> HIDE DEF new
    <3>3. DOMAIN Disturbed = Slots
      BY DEF Disturbed
    <3> QED BY <1>1, <3>1, <3>2, <3>3 DEF AnswerInv
  <2> QED BY <1>2, <2>1, <2>2
<1>3. CASE running' # None
  BY <1>3 DEF AnswerInv
<1>4. ASSUME NEW slot \in Slots, NEW what \in {"finalize", "reset", "run"},
             Run(slot, what)
      PROVE  AnswerInv'
  <2>1. running' \in OnThread
    BY <1>4 DEF Run, OnThread
  <2> QED BY <1>3, <2>1, RestApiAssumption DEF RestApiAssumption
<1>5. ASSUME NEW slot \in Slots, Answer(slot) PROVE AnswerInv'
  <2>1. requests' = [requests EXCEPT ![slot] = None] /\ running = None
    BY <1>5 DEF Answer
  <2>2. Current' = Current
    BY <1>5 DEF Answer, Current, vars, ramVars, nvmVars
  <2>3. UndisturbedCommit # None
    BY CommitAnswer
  <2>4. DOMAIN requests = Slots
    BY DEF OwnTypes
  <2>5. ASSUME NEW s \in Slots, requests'[s] = UndisturbedCommit
        PROVE  Current
    BY <2>1, <2>3, <2>4, <2>5 DEF AnswerInv
  <2> QED BY <2>1, <2>2, <2>5 DEF AnswerInv
<1>6. ASSUME NEW slot \in Slots,
             FlashAbort(slot)
             \/ (\E r \in TesterRoles : PostChallenge(slot, r))
             \/ (\E r \in TesterRoles, response \in SA!Responses :
                   PostResponse(slot, r, response))
             \/ (\E request \in Requests, version \in Versions :
                   FlashStart(slot, request, version))
             \/ (\E seq \in Seqs, data \in Blocks : FlashBlock(slot, seq, data))
      PROVE  AnswerInv'
  BY <1>2, <1>6 DEF FlashAbort, PostChallenge, PostResponse, FlashStart, FlashBlock
<1>7. ASSUME NEW slot \in Slots, NEW image \in Images, NEW sig \in Signatures,
             FlashFinalize(slot, image, sig)
      PROVE  AnswerInv'
  <2>1. CASE Run(slot, "finalize")
    BY <1>4, <2>1
  <2>2. CASE AnswerAtOnce \/ Suspend(slot, "finalize", FALSE)
    BY <1>2, <2>2
  <2> QED BY <1>7, <2>1, <2>2 DEF FlashFinalize
<1>8. ASSUME NEW slot \in Slots, GetReset(slot) PROVE AnswerInv'
  BY <1>4, <1>8 DEF GetReset
<1>9. ASSUME NEW slot \in Slots, NEW vtc \in DOMAIN Scripts, RunVtc(slot, vtc)
      PROVE  AnswerInv'
  BY <1>4, <1>9 DEF RunVtc
<1>10. CASE CallGoesOn
  BY <1>3, <1>10 DEF CallGoesOn, loopVars
<1>11. ASSUME running # None PROVE running.slot \in Slots
  BY <1>11 DEF OwnTypes, OnThread
<1>12. CASE ResetReturns
  <2>1. PICK slot \in Slots, done \in BOOLEAN : Suspend(slot, "reset", done)
    BY <1>11, <1>12 DEF ResetReturns
  <2> QED BY <1>2, <2>1
<1>13. CASE FinalizeReturns
  <2>1. Current' = Current
    BY <1>13 DEF FinalizeReturns, Current, vars, ramVars, nvmVars
  <2>2. Current
    BY <1>13 DEF FinalizeReturns, ThreadInv, CommitSteps
  <2> QED BY <2>1, <2>2 DEF AnswerInv
<1>14. ASSUME InScenario, NEW passed, VtcReturns(passed) PROVE AnswerInv'
  <2>1. PICK slot \in Slots : Suspend(slot, "run", passed)
    BY <1>11, <1>14 DEF InScenario, VtcReturns
  <2> QED BY <1>2, <2>1
<1>15. CASE VtcStep
  <2>1. CASE UNCHANGED running
    BY <1>3, <1>15, <2>1 DEF VtcStep, InScenario
  <2> QED BY <1>14, <1>15, <2>1 DEF VtcStep
<1>16. CASE VtcPasses
  BY <1>14, <1>16 DEF VtcPasses
<1>17. CASE UNCHANGED restVars
  <2>1. Current' = Current /\ UNCHANGED <<requests, running>>
    BY <1>17 DEF Current, restVars, loopVars, vars, ramVars, nvmVars
  <2> QED BY <2>1 DEF AnswerInv
<1> QED
  BY <1>5, <1>6, <1>7, <1>8, <1>9, <1>10, <1>12, <1>13, <1>15, <1>16, <1>17
  DEF RestNext

-----------------------------------------------------------------------------
\* The inductive invariant of requests and scenarios.
RestInv == TypeOK /\ Access!IInv /\ OwnTypes /\ SharedInv /\ ThreadInv /\ AnswerInv

\* The types of security access, by its own name here.
LEMMA AccessTypes == Access!SecurityAccessTypeOK <=> SA!SecurityAccessTypeOK
  BY DEF Access!SecurityAccessTypeOK, SA!SecurityAccessTypeOK, Access!Nonces, SA!Nonces

\* The state build_simulation leaves.
LEMMA InitRest == RestInit => RestInv
<1> SUFFICES ASSUME RestInit PROVE RestInv
  OBVIOUS
<1>1. TypeOK
  BY InitTypeOK DEF RestInit
<1>2. Access!SecurityAccessInit
  BY DEF RestInit, Init, EcuStoreInit, SA!SecurityAccessInit, Access!SecurityAccessInit
<1>3. Access!IInv
  BY <1>2, AccessAssumption, Access!InitIInv
<1>4. OwnTypes
  BY DEF RestInit, OwnTypes
<1>5. SharedInv
  BY InitSafe DEF RestInit, Init, EcuStoreInit, SharedInv, Safe, CounterWritten,
     AheadOrOvertaken, AllFresh
<1>6. ThreadInv
  BY DEF RestInit, Init, EcuStoreInit, ThreadInv
<1>7. AnswerInv
  BY CommitAnswer DEF RestInit, AnswerInv
<1> QED BY <1>1, <1>3, <1>4, <1>5, <1>6, <1>7 DEF RestInv

\* One handler, one write of a call, or one call of a scenario.
LEMMA StepRest == RestInv /\ [RestNext]_restVars => RestInv'
<1> SUFFICES ASSUME RestInv, [RestNext]_restVars PROVE RestInv'
  OBVIOUS
<1> USE DEF RestInv
<1>1. SA!SecurityAccessTypeOK
  BY AccessTypes DEF Access!IInv
<1>2. TypeOK' /\ SharedInv'
  BY RestStep, UpdatePreserves
<1>3. Access!IInv'
  BY <1>1, AccessStep, AccessAssumption, Access!StepIInv
<1>4. OwnTypes'
  BY OwnTypesStep
<1>5. ThreadInv' /\ AnswerInv'
  BY ThreadStep, AnswerStep
<1> QED BY <1>2, <1>3, <1>4, <1>5

\* What the theorems are read off.
LEMMA RestInvariance == RestSpec => []RestInv
  BY InitRest, StepRest, PTL DEF RestSpec

\* Every object behind the routers keeps its types under live requests and
\* scenarios; with them the retry counter of a process that is never restarted
\* stays within MAX_AUTH_RETRIES.
THEOREM RestTypes == RestSpec => []RestTypeOK
<1>1. RestInv => RestTypeOK
  BY AccessTypes DEF RestInv, RestTypeOK, OwnTypes, Access!IInv
<1> QED BY <1>1, RestInvariance, PTL

\* Every run of the routers and of the scenarios is one of security access ...
THEOREM RoutersUseAccess == RestSpec => Access!SecurityAccessSpec
<1>1. RestInv /\ [RestNext]_restVars => [Access!SecurityAccessNext]_(Access!saVars)
  BY AccessStep, AccessTypes DEF RestInv, Access!IInv
<1>2. RestInit => Access!SecurityAccessInit
  BY DEF RestInit, SA!SecurityAccessInit, Access!SecurityAccessInit, Init, EcuStoreInit
<1> QED BY <1>1, <1>2, RestInvariance, PTL DEF RestSpec, Access!SecurityAccessSpec

\* ... so however clients share the one object, a challenge authenticates once
\* and the guesses stay within the limit.
THEOREM RoutersKeepLockout ==
  RestSpec => []Access!LockoutBudget /\ Access!ChallengeSingleUse
  BY RoutersUseAccess, AccessAssumption, Access!LockoutBudgetHolds, Access!SingleUse, PTL

\* Whatever requests and scenarios are interleaved, no bank ever holds an image
\* the current key does not verify (finalize, VTC-10).
THEOREM StoredVerify == RestSpec => []StoredImagesVerify
<1>1. RestInv => StoredImagesVerify
  BY DEF RestInv, SharedInv, AllFresh, StoredImagesVerify
<1> QED BY <1>1, RestInvariance, PTL

\* The counter falls only by the hand of a scenario, or by a commit whose
\* download a scenario has overtaken.
LEMMA FallNeedsScenario ==
  ASSUME RestInv, [RestNext]_restVars, swVersion' < swVersion
  PROVE  overtaken'
<1>1. UpdateStep
  BY RestStep DEF RestInv
<1>2. swVersion \in Int
  BY Types DEF RestInv
<1>3. CASE [NextRunning]_vars /\ overtaken' = overtaken
  <2>1. CommitVersion
    BY <1>2, <1>3
    DEF NextRunning, FlashManagerNext, Commit, BootloaderNext, BootStep,
        BeginDownload, TransferBlock, FinalizeRejected, FinalizeNoContext,
        FinalizeMismatch, FinalizeAccepted, CommitActive, CommitLastValid,
        CommitBank, CommitClear, Abort, BootRecover, BootClear, BootDirect,
        BootSucceeds, BootFails, BootErrs, Recover, RecoverClear,
        SimulateFailure, nvmVars, vars
  <2>2. ~VersionAhead
    BY <1>2, <2>1, Types DEF CommitVersion, VersionAhead, CommitSteps, RestInv
  <2> QED BY <1>3, <2>2 DEF RestInv, SharedInv, AheadOrOvertaken
<1>4. CASE Begins
  BY <1>2, <1>4, BeginsAhead DEF RestInv
<1>5. CASE Rewrites /\ (overtaken' = TRUE \/ UNCHANGED <<overtaken, swVersion>>)
  BY <1>2, <1>5
<1> QED BY <1>1, <1>3, <1>4, <1>5 DEF UpdateStep

\* The version counter of live requests falls only where a scenario has written
\* it since their download was begun.
THEOREM RollbackOnlyByScenario == RestSpec => RollbackNeedsScenario
<1>1. RestInv /\ [RestNext]_restVars => [swVersion' < swVersion => overtaken']_restVars
  BY FallNeedsScenario
<1> QED BY <1>1, RestInvariance, PTL DEF RestSpec, RollbackNeedsScenario

\* The answer of an undisturbed commit shows the state that commit left, though
\* it is read after the broadcasts.
THEOREM AnswersCurrent == RestSpec => AnswerIsCurrent
<1>1. RestInv => \A slot \in Slots :
        Answer(slot) /\ requests[slot] = UndisturbedCommit =>
          state = "IDLE" /\ staging = NoBlocks /\ swVersion = pendingVersion
  BY DEF RestInv, AnswerInv, Answer, Current
<1>2. RestInv /\ [RestNext]_restVars =>
        [\A slot \in Slots :
           (Answer(slot) /\ requests[slot] = UndisturbedCommit)
             => state = "IDLE" /\ staging = NoBlocks /\ swVersion = pendingVersion]_restVars
  BY <1>1
<1> QED BY <1>2, RestInvariance, PTL DEF RestSpec, AnswerIsCurrent

-----------------------------------------------------------------------------
(* The scenarios: where each call stands, that what it needs is there, and *)
(* what it leaves to the calls after it.                                   *)

\* VTC-13 asks for a challenge and guesses wrong, MAX_AUTH_RETRIES times.
LEMMA GuessesShape ==
  /\ Len(Guesses) = 2 * MaxAuthRetries + 1
  /\ \A k \in 0..(MaxAuthRetries - 1) :
       Guesses[2 * k + 1] = "challenge" /\ Guesses[2 * k + 2] = "guess"
  /\ Guesses[2 * MaxAuthRetries + 1] = "locked"
<1>1. MaxAuthRetries \in Nat /\ 2 * MaxAuthRetries + 1 \in Nat
  BY RestApiAssumption DEF RestApiAssumption
<1>2. Len(Guesses) = 2 * MaxAuthRetries + 1
  <2> DEFINE Words == {"locked", "challenge", "guess"}
  <2>1. Guesses \in [1..(2 * MaxAuthRetries + 1) -> Words]
    BY DEF Guesses
  <2>2. Guesses \in Seq(Words)
    <3>1. Guesses \in UNION {[1..n -> Words] : n \in Nat}
      BY <1>1, <2>1
    <3> HIDE DEF Words
    <3>2. Seq(Words) = UNION {[1..n -> Words] : n \in Nat}
      BY SeqDef
    <3> QED BY <3>1, <3>2
  <2>3. Len(Guesses) \in Nat /\ DOMAIN Guesses = 1..Len(Guesses)
    BY <2>2, LenProperties
  <2>4. DOMAIN Guesses = 1..(2 * MaxAuthRetries + 1)
    BY <2>1
  <2>5. 2 * MaxAuthRetries + 1 \in 1..Len(Guesses)
    BY <1>1, <2>3, <2>4
  <2>6. Len(Guesses) \in 1..(2 * MaxAuthRetries + 1)
    BY <2>3, <2>4, <2>5
  <2> QED BY <1>1, <2>5, <2>6
<1>3. ASSUME NEW k \in 0..(MaxAuthRetries - 1)
      PROVE  Guesses[2 * k + 1] = "challenge" /\ Guesses[2 * k + 2] = "guess"
  <2>1. 2 * k + 1 \in 1..(2 * MaxAuthRetries) /\ 2 * k + 2 \in 1..(2 * MaxAuthRetries)
    BY <1>1
  <2>2. (2 * k + 1) % 2 = 1 /\ (2 * k + 2) % 2 = 0
    BY <1>1
  <2> QED BY <1>1, <2>1, <2>2 DEF Guesses
<1>4. Guesses[2 * MaxAuthRetries + 1] = "locked"
  BY <1>1 DEF Guesses
<1> QED BY <1>2, <1>3, <1>4

\* Guess number k of VTC-13.
GuessAt(k, offset) == scenario = "VTC_13" /\ position = 2 * k + offset
Tries == 0..(MaxAuthRetries - 1)

\* Which call comes next, by the place the scenario has reached.
NextIs(step) ==
  \/ step = "challenge" /\ \/ At("VTC_01", {1}) \/ At("VTC_02", {1})
                           \/ \E k \in Tries : GuessAt(k, 1)
  \/ step = "respond" /\ At("VTC_01", {2})
  \/ step = "guess" /\ (At("VTC_02", {2}) \/ \E k \in Tries : GuessAt(k, 2))
  \/ step = "unauthenticated" /\ At("VTC_02", {3})
  \/ step = "locked" /\ GuessAt(MaxAuthRetries, 1)
  \/ step = "begin" /\ \/ At("VTC_01", {3}) \/ At("VTC_04", {1}) \/ At("VTC_05", {1})
                       \/ At("VTC_07", {1}) \/ At("VTC_11", {1}) \/ At("VTC_14", {1})
                       \/ At("VTC_15", {1})
  \/ step = "block" /\ \/ At("VTC_01", {4}) \/ At("VTC_04", {2}) \/ At("VTC_11", {2})
                       \/ At("VTC_15", {2})
  \/ step = "badBlock" /\ (At("VTC_05", {2}) \/ At("VTC_14", {2}))
  \/ step = "finalize" /\ (At("VTC_01", {5}) \/ At("VTC_04", {3}))
  \/ step = "refuseBad" /\ At("VTC_05", {3})
  \/ step = "refuseClosed" /\ At("VTC_06", {1})
  \/ step = "pending" /\ At("VTC_07", {2})
  \/ step = "abort" /\ (At("VTC_07", {3}) \/ At("VTC_15", {3}))
  \/ step = "notPending" /\ (At("VTC_07", {4}) \/ At("VTC_11", {6}))
  \/ step = "break" /\ At("VTC_08", {1})
  \/ step = "recover" /\ At("VTC_08", {2})
  \/ step = "bankA" /\ At("VTC_08", {3})
  \/ step = "raise" /\ At("VTC_09", {1})
  \/ step = "refuseOld" /\ At("VTC_09", {2})
  \/ step = "install" /\ At("VTC_10", {1})
  \/ step = "boot" /\ At("VTC_10", {2})
  \/ step = "booted" /\ At("VTC_10", {3})
  \/ step = "hsm" /\ At("VTC_11", {3, 5})
  \/ step = "refuse" /\ At("VTC_11", {4})
  \/ step = "mismatch" /\ At("VTC_14", {3})
  \/ step = "empty" /\ At("VTC_15", {4})

Vtcs == {"VTC_01", "VTC_02", "VTC_04", "VTC_05", "VTC_06", "VTC_07", "VTC_08",
         "VTC_09", "VTC_10", "VTC_11", "VTC_13", "VTC_14", "VTC_15", "VTC_03_12_16"}

\* The scenarios have these lengths; VTC-11 ends with the HSM available again.
LEMMA Lengths ==
  /\ DOMAIN Scripts = Vtcs
  /\ \A vtc \in DOMAIN Scripts : Len(Scripts[vtc]) \in Nat
  /\ Len(Scripts["VTC_11"]) = 6
<1>1. DOMAIN Scripts = Vtcs
  BY DEF Scripts, Vtcs
<1>2. Len(Scripts["VTC_13"]) \in Nat
  BY GuessesShape, RestApiAssumption DEF Scripts, RestApiAssumption
<1>3. /\ Len(Scripts["VTC_01"]) = 5 /\ Len(Scripts["VTC_02"]) = 3
      /\ Len(Scripts["VTC_04"]) = 3 /\ Len(Scripts["VTC_05"]) = 3
      /\ Len(Scripts["VTC_06"]) = 1 /\ Len(Scripts["VTC_07"]) = 4
      /\ Len(Scripts["VTC_08"]) = 3 /\ Len(Scripts["VTC_09"]) = 2
      /\ Len(Scripts["VTC_10"]) = 3 /\ Len(Scripts["VTC_14"]) = 3
      /\ Len(Scripts["VTC_15"]) = 4 /\ Len(Scripts["VTC_03_12_16"]) = 0
  BY DEF Scripts
<1>4. Len(Scripts["VTC_11"]) = 6
  BY DEF Scripts
<1> QED BY <1>1, <1>2, <1>3, <1>4 DEF Vtcs

\* What stands where (test_scenarios.py).
LEMMA Calls13 == Scripts["VTC_13"] = Guesses /\ Scripts["VTC_03_12_16"] = <<>>
  BY DEF Scripts

\* The call that comes next is the one its place says.
LEMMA NextCall ==
  ASSUME scenario \in DOMAIN Scripts, position \in 1..Len(Scripts[scenario]),
         NEW step, step = Scripts[scenario][position]
  PROVE  NextIs(step)
<1>1. CASE scenario = "VTC_01"
  BY <1>1 DEF Scripts, NextIs, At
<1>2. CASE scenario = "VTC_02"
  BY <1>2 DEF Scripts, NextIs, At
<1>3. CASE scenario = "VTC_04"
  BY <1>3 DEF Scripts, NextIs, At
<1>4. CASE scenario = "VTC_05"
  BY <1>4 DEF Scripts, NextIs, At
<1>5. CASE scenario = "VTC_06"
  BY <1>5 DEF Scripts, NextIs, At
<1>6. CASE scenario = "VTC_07"
  BY <1>6 DEF Scripts, NextIs, At
<1>7. CASE scenario = "VTC_08"
  BY <1>7 DEF Scripts, NextIs, At
<1>8. CASE scenario = "VTC_09"
  BY <1>8 DEF Scripts, NextIs, At
<1>9. CASE scenario = "VTC_10"
  BY <1>9 DEF Scripts, NextIs, At
<1>10. CASE scenario = "VTC_11"
  BY <1>10 DEF Scripts, NextIs, At
<1>11. CASE scenario = "VTC_14"
  BY <1>11 DEF Scripts, NextIs, At
<1>12. CASE scenario = "VTC_15"
  BY <1>12 DEF Scripts, NextIs, At
<1>13. CASE scenario = "VTC_13"
  <2>1. MaxAuthRetries \in Nat
    BY RestApiAssumption DEF RestApiAssumption
  <2>2. position \in 1..(2 * MaxAuthRetries + 1) /\ step = Guesses[position]
    BY <1>13, GuessesShape, Calls13
  <2>3. position = 2 * MaxAuthRetries + 1
        \/ \E k \in Tries : position = 2 * k + 1 \/ position = 2 * k + 2
    <3> DEFINE k == (position - 1) \div 2
    <3>1. k \in Int /\ (position = 2 * k + 1 \/ position = 2 * k + 2)
      BY <2>1, <2>2
    <3>2. position # 2 * MaxAuthRetries + 1 => k \in Tries
      BY <2>1, <2>2, <3>1 DEF Tries
    <3> QED BY <3>1, <3>2
  <2>4. CASE position = 2 * MaxAuthRetries + 1
    BY <1>13, <2>2, <2>4, GuessesShape DEF GuessAt, NextIs
  <2>5. ASSUME NEW k \in Tries, position = 2 * k + 1
        PROVE  NextIs(step)
    <3>1. step = "challenge" /\ GuessAt(k, 1)
      BY <1>13, <2>2, <2>5, GuessesShape DEF Tries, GuessAt
    <3> QED BY <3>1 DEF NextIs
  <2>6. ASSUME NEW k \in Tries, position = 2 * k + 2
        PROVE  NextIs(step)
    <3>1. step = "guess" /\ GuessAt(k, 2)
      BY <1>13, <2>2, <2>6, GuessesShape DEF Tries, GuessAt
    <3> QED BY <3>1 DEF NextIs
  <2> QED BY <2>3, <2>4, <2>5, <2>6
<1>14. scenario # "VTC_03_12_16"
  BY Calls13
<1> QED
  BY <1>1, <1>2, <1>3, <1>4, <1>5, <1>6, <1>7, <1>8, <1>9, <1>10, <1>11, <1>12,
     <1>13, <1>14, Lengths DEF Vtcs

\* What the next call needs is there.
LEMMA CallExpected ==
  ASSUME RestInv, ScenarioInv, InScenario, NEW step, NextIs(step)
  PROVE  Expects(step)
<1>1. BeforeCall /\ Guessing /\ (hsmFail <=> At("VTC_11", {4, 5}))
  BY DEF ScenarioInv, OnTrack, InScenario, Running
<1>2. /\ issued \in Nat /\ MaxChallenges \in Nat /\ MaxAuthRetries \in Nat \ {0}
      /\ keyGen \in Nat \ {0} /\ swVersion \in Int
  BY RestApiAssumption, EcuStoreAssumption
  DEF RestApiAssumption, EcuStoreAssumption, RestInv, Access!IInv,
      Access!SecurityAccessTypeOK, TypeOK, EcuStoreTypeOK
<1>3. /\ Good \in Seq(Bytes) /\ Good # None /\ Good # Bad /\ Bad # None
      /\ ValidateAddress(Open.addr, Open.size, Open.role)
      /\ ~ValidateAddress(Closed.addr, Closed.size, Closed.role)
  BY RestApiAssumption, FlashManagerAssumption, EcuStoreAssumption
  DEF RestApiAssumption, FlashManagerAssumption, EcuStoreAssumption
<1>4. CASE step = "challenge"
  <2>1. CASE At("VTC_01", {1}) \/ At("VTC_02", {1})
    <3>1. Challenges(1) /\ ~hsmFail
      BY <1>1, <2>1 DEF BeforeCall, At
    <3> QED BY <1>2, <1>4, <3>1 DEF Expects, Challenges
  <2>2. ASSUME NEW k \in Tries, GuessAt(k, 1) PROVE Expects(step)
    <3>1. Challenges(MaxAuthRetries - k) /\ ~hsmFail
      BY <1>1, <2>2 DEF Guessing, GuessAt, Tries, At
    <3> QED BY <1>2, <1>4, <2>2, <3>1 DEF Expects, Challenges, Tries
  <2> QED BY <1>4, <2>1, <2>2 DEF NextIs
<1>5. CASE step \in {"respond", "guess"}
  <2>1. SA!CanVerify
    BY <1>1, <1>2, <1>5 DEF NextIs, BeforeCall, Guessing, GuessAt, Tries, At
  <2> QED BY <1>5, <2>1 DEF Expects
<1>6. CASE step = "begin"
  <2>1. swVersion = 1
    BY <1>1, <1>6 DEF NextIs, BeforeCall, At
  <2> QED BY <1>3, <1>6, <2>1 DEF Expects, CheckVersion, ScenarioVersion
<1>7. CASE step \in {"block", "badBlock"}
  <2>1. state = "DOWNLOADING"
    BY <1>1, <1>7 DEF NextIs, BeforeCall, Begun, At
  <2> QED BY <1>7, <2>1 DEF Expects
<1>8. CASE step = "finalize"
  <2>1. hashAcc = Good /\ ~hsmFail
    BY <1>1, <1>8 DEF NextIs, BeforeCall, At
  <2> QED BY <1>3, <1>8, <2>1 DEF Expects, SigValid, HashMatches
<1>9. CASE step \in {"refuse", "refuseBad"}
  <2>1. step = "refuse" => hsmFail
    BY <1>1, <1>9 DEF NextIs, At
  <2> QED BY <1>2, <1>9, <2>1 DEF Expects, SigValid
<1>10. CASE step = "mismatch"
  <2>1. hashAcc = Bad /\ ~hsmFail
    BY <1>1, <1>10 DEF NextIs, BeforeCall, At
  <2> QED BY <1>3, <1>10, <2>1 DEF Expects, SigValid, HashMatches
<1>11. CASE step \in {"recover", "pending"}
  <2>1. flashPending
    BY <1>1, <1>11 DEF NextIs, BeforeCall, At
  <2> QED BY <1>11, <2>1 DEF Expects, Holds
<1>12. CASE step \in {"boot", "notPending"}
  <2>1. ~flashPending
    BY <1>1, <1>12 DEF NextIs, BeforeCall, At
  <2> QED BY <1>12, <2>1 DEF Expects, Holds
<1>13. CASE step \in {"abort", "hsm", "raise", "break", "install"}
  BY <1>13 DEF Expects
<1>14. CASE step = "refuseClosed"
  BY <1>3, <1>14 DEF Expects, Holds
<1>15. CASE step = "refuseOld"
  <2>1. swVersion = 3
    BY <1>1, <1>15 DEF NextIs, BeforeCall, At
  <2> QED BY <1>15, <2>1 DEF Expects, Holds, CheckVersion, ScenarioVersion
<1>16. CASE step = "bankA"
  <2>1. activeBank = "A"
    BY <1>1, <1>16 DEF NextIs, BeforeCall, At
  <2> QED BY <1>16, <2>1 DEF Expects, Holds
<1>17. CASE step = "booted"
  <2>1. bootResult = "ok"
    BY <1>1, <1>17 DEF NextIs, BeforeCall, At
  <2> QED BY <1>17, <2>1 DEF Expects, Holds
<1>18. CASE step = "empty"
  <2>1. staging = NoBlocks
    BY <1>1, <1>18 DEF NextIs, BeforeCall, At
  <2> QED BY <1>18, <2>1 DEF Expects, Holds
<1>19. CASE step = "locked"
  <2>1. locked
    BY <1>1, <1>2, <1>19 DEF NextIs, Guessing, GuessAt, At
  <2> QED BY <1>19, <2>1 DEF Expects, Holds
<1>20. CASE step = "unauthenticated"
  <2>1. ~authenticated
    BY <1>1, <1>20 DEF NextIs, BeforeCall, At
  <2> QED BY <1>20, <2>1 DEF Expects, Holds
<1> QED
  BY <1>4, <1>5, <1>6, <1>7, <1>8, <1>9, <1>10, <1>11, <1>12, <1>13, <1>14, <1>15,
     <1>16, <1>17, <1>18, <1>19, <1>20
  DEF NextIs

\* The call leaves behind what the calls after it need.
LEMMA CallAchieves ==
  ASSUME RestInv, ScenarioInv, InScenario, NEW step, NextIs(step), AsExpected(step),
         scenario' = scenario, position' = position + 1
  PROVE  OnTrack'
<1>1. BeforeCall /\ Guessing /\ (hsmFail <=> At("VTC_11", {4, 5})) /\ pc = "idle"
  BY DEF ScenarioInv, OnTrack, InScenario, Running
<1>2. /\ issued \in Nat /\ MaxChallenges \in Nat /\ MaxAuthRetries \in Nat \ {0}
      /\ retryCount \in Nat /\ position \in Nat /\ pendingChallenge \in Nat \cup {None}
  BY RestApiAssumption
  DEF RestApiAssumption, RestInv, OwnTypes, Access!IInv, Access!SecurityAccessTypeOK,
      Access!Nonces
<1>3. Good \in Seq(Bytes) /\ Bad \in Seq(Bytes) /\ None \notin Int
  BY RestApiAssumption, FlashManagerAssumption
  DEF RestApiAssumption, FlashManagerAssumption
<1>4. ASSUME pc' = "idle", hsmFail' <=> At("VTC_11", {4, 5})', BeforeCall', Guessing'
      PROVE  OnTrack'
  BY <1>4 DEF OnTrack, InCall, CommitSteps
<1>5. scenario # "VTC_13" => Guessing'
  BY DEF Guessing
<1>6. CASE step = "challenge"
  <2>1. /\ UNCHANGED vars /\ ~locked /\ ~locked' /\ issued' = issued + 1 /\ ~hsmFail
        /\ pendingChallenge' = issued + 1 /\ ~authenticated' /\ retryCount' = retryCount
    BY <1>6 DEF AsExpected, AccessCall, StoreCall, FlashCall, Holds, SA!GetChallenge
  <2>2. UNCHANGED <<pc, hsmFail, swVersion>>
    BY <2>1 DEF vars, nvmVars, hsmVars
  <2>3. SA!CanVerify'
    BY <1>2, <1>3, <2>1, <2>2 DEF SA!CanVerify
  <2>4. CASE At("VTC_01", {1}) \/ At("VTC_02", {1})
    <3>1. BeforeCall'
      BY <1>1, <1>2, <2>1, <2>2, <2>3, <2>4 DEF BeforeCall, At
    <3> QED BY <1>1, <1>4, <1>5, <2>2, <2>4, <3>1 DEF At
  <2>5. ASSUME NEW k \in Tries, GuessAt(k, 1) PROVE OnTrack'
    <3>1. BeforeCall'
      BY <2>5 DEF BeforeCall, GuessAt, At
    <3>2. retryCount = k /\ Challenges(MaxAuthRetries - k)
      BY <1>1, <2>5 DEF Guessing, GuessAt, Tries
    <3>3. Guessing'
      BY <1>2, <2>1, <2>3, <2>5, <3>2 DEF Guessing, GuessAt, Tries, Challenges
    <3> QED BY <1>1, <1>4, <2>2, <2>5, <3>1, <3>3 DEF At, GuessAt
  <2> QED BY <1>6, <2>4, <2>5 DEF NextIs
<1>7. CASE step = "respond"
  <2>1. UNCHANGED vars
    BY <1>7 DEF AsExpected, AccessCall, StoreCall, FlashCall, Holds
  <2>2. UNCHANGED <<pc, hsmFail, swVersion>>
    BY <2>1 DEF vars, nvmVars, hsmVars
  <2> QED BY <1>1, <1>4, <1>5, <1>7, <2>2 DEF NextIs, BeforeCall, At
<1>8. CASE step = "guess"
  <2>1. /\ UNCHANGED vars /\ UNCHANGED <<pendingChallenge, issued, authenticated>>
        /\ retryCount' = retryCount + 1
        /\ locked' <=> retryCount + 1 >= MaxAuthRetries
    BY <1>8 DEF AsExpected, AccessCall, StoreCall, FlashCall, Holds, SA!VerifyRejected,
       SA!LocksAt
  <2>2. UNCHANGED <<pc, hsmFail>>
    BY <2>1 DEF vars, hsmVars
  <2>3. CASE At("VTC_02", {2})
    <3>1. BeforeCall'
      BY <1>1, <2>1, <2>3 DEF BeforeCall, At
    <3> QED BY <1>1, <1>4, <1>5, <2>2, <2>3, <3>1 DEF At
  <2>4. ASSUME NEW k \in Tries, GuessAt(k, 2) PROVE OnTrack'
    <3>1. BeforeCall'
      BY <2>4 DEF BeforeCall, GuessAt, At
    <3>2. retryCount = k /\ SA!CanVerify /\ Challenges(MaxAuthRetries - (k + 1))
      BY <1>1, <2>4 DEF Guessing, GuessAt, Tries
    <3>3. Guessing'
      BY <1>2, <2>1, <2>2, <2>4, <3>2 DEF Guessing, GuessAt, Tries, Challenges
    <3> QED BY <1>1, <1>4, <2>2, <2>4, <3>1, <3>3 DEF At, GuessAt
  <2> QED BY <1>8, <2>3, <2>4 DEF NextIs
<1>9. CASE step = "begin"
  <2>1. /\ state' = "DOWNLOADING" /\ hashAcc' = None /\ flashPending' = TRUE
        /\ UNCHANGED <<pc, hsmFail>>
    BY <1>9 DEF AsExpected, AccessCall, StoreCall, FlashCall, Holds, BeginDownload, hsmVars
  <2>2. BeforeCall'
    BY <1>9, <2>1 DEF NextIs, BeforeCall, Begun, At
  <2> QED BY <1>1, <1>4, <1>5, <1>9, <2>1, <2>2 DEF NextIs, At
<1>10. CASE step \in {"block", "badBlock"}
  <2>1. /\ hashAcc' = HashUpdate(IF step = "block" THEN Good ELSE Bad)
        /\ UNCHANGED <<pc, hsmFail>>
    BY <1>10 DEF AsExpected, AccessCall, StoreCall, FlashCall, Holds, TransferBlock, hsmVars
  <2>2. hashAcc = None
    BY <1>1, <1>10 DEF NextIs, BeforeCall, Begun, At
  <2>3. hashAcc' = IF step = "block" THEN Good ELSE Bad
    BY <1>3, <2>1, <2>2 DEF HashUpdate
  <2>4. BeforeCall'
    BY <1>10, <2>3 DEF NextIs, BeforeCall, At
  <2> QED BY <1>1, <1>4, <1>5, <1>10, <2>1, <2>4 DEF NextIs, At
<1>11. CASE step = "finalize"
  <2>1. pc' = "commitActive" /\ UNCHANGED hsmFail
    BY <1>11 DEF AsExpected, AccessCall, StoreCall, FlashCall, Holds, FinalizeAccepted,
       hsmVars
  <2>2. InCall'
    BY <1>11, <2>1 DEF NextIs, InCall, At
  <2> QED BY <1>1, <1>11, <2>1, <2>2 DEF NextIs, OnTrack, At
<1>12. CASE step \in {"refuse", "refuseBad", "mismatch"}
  <2>1. ~flashPending' /\ UNCHANGED <<pc, hsmFail>>
    BY <1>12 DEF AsExpected, AccessCall, StoreCall, FlashCall, Holds, FinalizeRejected,
       FinalizeMismatch, AbortAndSanitize, hsmVars
  <2>2. BeforeCall'
    BY <1>12, <2>1 DEF NextIs, BeforeCall, At
  <2> QED BY <1>1, <1>4, <1>5, <1>12, <2>1, <2>2 DEF NextIs, At
<1>13. CASE step = "abort"
  <2>1. ~flashPending' /\ staging' = NoBlocks /\ UNCHANGED <<pc, hsmFail>>
    BY <1>13 DEF AsExpected, AccessCall, StoreCall, FlashCall, Holds, Abort,
       AbortAndSanitize, hsmVars
  <2>2. BeforeCall'
    BY <1>13, <2>1 DEF NextIs, BeforeCall, At
  <2> QED BY <1>1, <1>4, <1>5, <1>13, <2>1, <2>2 DEF NextIs, At
<1>14. CASE step = "hsm"
  <2>1. hsmFail' = ~hsmFail /\ UNCHANGED <<pc, nvmVars>>
    BY <1>14 DEF AsExpected, AccessCall, StoreCall, FlashCall, Holds, SimulateFailure
  <2>2. BeforeCall'
    BY <1>1, <1>14, <2>1 DEF NextIs, BeforeCall, At, nvmVars
  <2>3. hsmFail' <=> At("VTC_11", {4, 5})'
    <3>1. scenario = "VTC_11" /\ (position = 3 \/ position = 5)
      BY <1>14 DEF NextIs, At
    <3>2. position = 3 => ~hsmFail /\ At("VTC_11", {4, 5})'
      BY <1>1, <3>1 DEF At
    <3>3. position = 5 => hsmFail /\ ~At("VTC_11", {4, 5})'
      BY <1>1, <3>1 DEF At
    <3> QED BY <2>1, <3>1, <3>2, <3>3
  <2> QED BY <1>1, <1>4, <1>5, <1>14, <2>1, <2>2, <2>3 DEF NextIs, At
<1>15. CASE step \in {"raise", "break", "install"}
  <2>1. UNCHANGED <<pc, hsmVars>> /\ StoreCall(step)
    BY <1>15 DEF AsExpected, AccessCall, StoreCall, FlashCall, Holds
  <2>2. /\ step = "raise" => swVersion' = 3
        /\ step = "break" => flashPending' = TRUE /\ lastValid' = "A"
        /\ step = "install" => /\ flashPending' = FALSE /\ activeBank' = "A"
                               /\ Fresh("A")'
    <3> DEFINE new == [image |-> Good, sig |-> keyGen, version |-> ScenarioVersion]
    <3>1. step = "install" => bank' = [bank EXCEPT !["A"] = new]
      BY <2>1 DEF StoreCall
    <3>2. new # None /\ new.sig = keyGen
      BY <1>3, Types DEF RestInv, ScenarioVersion
    <3> HIDE DEF new
    <3>3. DOMAIN bank = Banks /\ keyGen' = keyGen
      BY <2>1, Types DEF RestInv, hsmVars
    <3>4. step = "install" => Fresh("A")'
      BY <3>1, <3>2, <3>3 DEF Fresh, Banks
    <3> QED BY <2>1, <3>4 DEF StoreCall
  <2>3. BeforeCall'
    BY <1>15, <2>2 DEF NextIs, BeforeCall, At
  <2> QED BY <1>1, <1>4, <1>5, <1>15, <2>1, <2>3 DEF NextIs, At, hsmVars
<1>16. CASE step = "recover"
  <2>1. activeBank' = lastValid /\ pc' = "recoverClear" /\ UNCHANGED hsmVars
    BY <1>16 DEF AsExpected, AccessCall, StoreCall, FlashCall, Holds, Recover, FallBack
  <2>2. lastValid = "A"
    BY <1>1, <1>16 DEF NextIs, BeforeCall, At
  <2> QED BY <1>1, <1>16, <2>1, <2>2 DEF NextIs, OnTrack, InCall, At, CommitSteps, hsmVars
<1>17. CASE step = "boot"
  <2>1. pc' = "bootVerify" /\ UNCHANGED <<nvmVars, hsmVars>>
    BY <1>17 DEF AsExpected, AccessCall, StoreCall, FlashCall, Holds, BootDirect
  <2>2. activeBank = "A" /\ Fresh("A")
    BY <1>1, <1>17 DEF NextIs, BeforeCall, At
  <2>3. Fresh(activeBank)'
    BY <2>1, <2>2 DEF Fresh, nvmVars, hsmVars
  <2> QED BY <1>1, <1>17, <2>1, <2>3 DEF NextIs, OnTrack, InCall, At, CommitSteps, hsmVars
<1>18. CASE step \in {"refuseClosed", "refuseOld", "pending", "notPending", "bankA",
                      "booted", "empty", "locked", "unauthenticated"}
  <2>1. UNCHANGED vars
    BY <1>18 DEF AsExpected, AccessCall, StoreCall, FlashCall
  <2>2. UNCHANGED <<pc, hsmFail, flashPending, activeBank>>
    BY <2>1 DEF vars, nvmVars, hsmVars
  <2>3. BeforeCall'
    BY <1>1, <1>18, <2>2 DEF NextIs, BeforeCall, At, GuessAt
  <2>4. Guessing'
    BY <1>2, <1>18 DEF NextIs, Guessing, GuessAt, At
  <2> QED BY <1>1, <1>4, <1>18, <2>2, <2>3, <2>4 DEF NextIs, At, GuessAt
<1> QED
  BY <1>6, <1>7, <1>8, <1>9, <1>10, <1>11, <1>12, <1>13, <1>14, <1>15, <1>16, <1>17,
     <1>18
  DEF NextIs

-----------------------------------------------------------------------------
\* Inside a call of several writes the scenario stays on track.
LEMMA CallStaysOnTrack ==
  ASSUME RestInv, ScenarioInv, Running, CallGoesOn
  PROVE  OnTrack'
<1>1. OnTrack /\ scenario \in DOMAIN Scripts
  BY DEF ScenarioInv
<1>2. /\ UNCHANGED <<scenario, position, retryCount, locked, issued, authenticated,
                     pendingChallenge>>
      /\ RunningCall
  BY DEF CallGoesOn, loopVars, accessVars
<1>3. At("VTC_11", {4, 5})' <=> At("VTC_11", {4, 5})
  BY <1>2 DEF At
<1>4. CASE pc \in CommitSteps
  <2>1. At("VTC_01", {6}) \/ At("VTC_04", {4})
    BY <1>1, <1>4 DEF OnTrack, InCall
  <2>2. (pc' \in CommitSteps \/ pc' = "idle") /\ UNCHANGED hsmFail
    BY <1>2, <1>4 DEF RunningCall, Commit, CommitActive, CommitLastValid, CommitBank,
       CommitVersion, CommitClear, CommitSteps, BootClear, BootSucceeds, BootFails,
       BootErrs, RecoverClear, hsmVars
  <2>3. BeforeCall' /\ Guessing'
    BY <1>2, <2>1 DEF BeforeCall, Guessing, At
  <2> QED BY <1>1, <1>2, <1>3, <2>1, <2>2, <2>3 DEF OnTrack, InCall, At, CommitSteps
<1>5. CASE pc = "recoverClear"
  <2>1. At("VTC_08", {3}) /\ activeBank = "A"
    BY <1>1, <1>5 DEF OnTrack, InCall
  <2>2. pc' = "idle" /\ UNCHANGED <<hsmFail, activeBank>>
    BY <1>2, <1>5 DEF RunningCall, Commit, CommitActive, CommitLastValid, CommitBank,
       CommitVersion, CommitClear, BootClear, BootSucceeds, BootFails, BootErrs,
       RecoverClear, hsmVars
  <2>3. BeforeCall' /\ Guessing'
    BY <1>2, <2>1, <2>2 DEF BeforeCall, Guessing, At
  <2> QED BY <1>1, <1>2, <1>3, <2>1, <2>2, <2>3 DEF OnTrack, InCall, At, CommitSteps
<1>6. CASE pc = "bootVerify"
  <2>1. At("VTC_10", {3}) /\ Fresh(activeBank)
    BY <1>1, <1>6 DEF OnTrack, InCall
  <2>2. Bootable(activeBank)
    BY <1>1, <2>1 DEF OnTrack, At, Fresh, Bootable, SigValid
  <2>3. bootResult' = "ok" /\ pc' = "idle" /\ UNCHANGED hsmFail
    BY <1>2, <1>6, <2>2 DEF RunningCall, Commit, CommitActive, CommitLastValid,
       CommitBank, CommitVersion, CommitClear, BootClear, BootSucceeds, BootFails,
       BootErrs, RecoverClear, Bootable, SigValid, hsmVars
  <2>4. BeforeCall' /\ Guessing'
    BY <1>2, <2>1, <2>3 DEF BeforeCall, Guessing, At
  <2> QED BY <1>1, <1>2, <1>3, <2>1, <2>3, <2>4 DEF OnTrack, InCall, At, CommitSteps
<1>7. pc \in CommitSteps \cup {"recoverClear", "bootVerify"}
  BY <1>1, <1>2 DEF OnTrack, InCall, RunningCall, Commit, CommitActive, CommitLastValid,
     CommitBank, CommitVersion, CommitClear, BootClear, BootSucceeds, BootFails,
     BootErrs, RecoverClear, CommitSteps
<1> QED BY <1>4, <1>5, <1>6, <1>7

\* The preamble puts every scenario on its track, whatever it finds.
LEMMA PreambleAchieves ==
  ASSUME RestInv, ScenarioInv, NEW slot \in Slots, NEW vtc \in DOMAIN Scripts,
         RunVtc(slot, vtc)
  PROVE  OnTrack'
<1>1. /\ scenario' = vtc /\ position' = 1 /\ swVersion' = 1 /\ pc' = pc /\ ~locked'
      /\ retryCount' = 0 /\ issued' = issued /\ issued + MaxAuthRetries <= MaxChallenges
      /\ UNCHANGED hsmVars
  BY DEF RunVtc, ResetEcu, SA!ResetAuth
<1>2. pc = "idle" /\ ~hsmFail
  BY RestApiAssumption
  DEF RunVtc, Handles, RestInv, ThreadInv, ScenarioInv, Running
<1>3. issued \in Nat /\ MaxChallenges \in Nat /\ MaxAuthRetries \in Nat \ {0}
  BY RestApiAssumption
  DEF RestApiAssumption, RestInv, Access!IInv, Access!SecurityAccessTypeOK
<1>4. BeforeCall' /\ Guessing'
  BY <1>1, <1>3 DEF BeforeCall, Guessing, Challenges, At
<1> QED BY <1>1, <1>2, <1>4 DEF OnTrack, InCall, At, CommitSteps, hsmVars

\* No step fails a scenario, and the HSM is available whenever none is running.
LEMMA StepScenario ==
  ASSUME RestInv, ScenarioInv, [RestNext]_restVars
  PROVE  ScenarioInv'
<1> USE DEF ScenarioInv, Running
<1>1. ASSUME ~Running, UNCHANGED <<failed, hsmFail>>, ~Running'
      PROVE  ScenarioInv'
  BY <1>1
<1>2. ASSUME NEW slot, NEW what, NEW done, AnswerAtOnce \/ Suspend(slot, what, done)
      PROVE  ~Running'
  BY <1>2 DEF AnswerAtOnce, Suspend
<1>3. ASSUME NEW slot \in Slots, NEW what \in {"finalize", "reset"}, Run(slot, what)
      PROVE  ~Running'
  BY <1>3 DEF Run
<1>4. ASSUME NEW slot \in Slots,
             Answer(slot) \/ FlashAbort(slot) \/ GetReset(slot)
             \/ (\E r \in TesterRoles : PostChallenge(slot, r))
             \/ (\E r \in TesterRoles, response \in SA!Responses :
                   PostResponse(slot, r, response))
             \/ (\E request \in Requests, version \in Versions :
                   FlashStart(slot, request, version))
             \/ (\E seq \in Seqs, data \in Blocks : FlashBlock(slot, seq, data))
             \/ (\E image \in Images, sig \in Signatures :
                   FlashFinalize(slot, image, sig))
      PROVE  ScenarioInv'
  <2>1. ~Running
    BY <1>4 DEF Answer, FlashAbort, GetReset, PostChallenge, PostResponse, FlashStart,
       FlashBlock, FlashFinalize, Handles
  <2>2. UNCHANGED <<failed, hsmFail>>
    BY <1>4, HsmKept
    DEF Answer, FlashAbort, GetReset, PostChallenge, PostResponse, FlashStart,
        FlashBlock, FlashFinalize, FlashManagerNext, BootloaderNext, BootStep, hsmVars
  <2>3. ~Running'
    BY <1>2, <1>3, <1>4 DEF Answer, FlashAbort, GetReset, PostChallenge, PostResponse,
       FlashStart, FlashBlock, FlashFinalize
  <2> QED BY <1>1, <2>1, <2>2, <2>3
<1>5. ASSUME NEW slot \in Slots, NEW vtc \in DOMAIN Scripts, RunVtc(slot, vtc)
      PROVE  ScenarioInv'
  <2>1. OnTrack'
    BY <1>5, PreambleAchieves
  <2>2. Running' /\ failed' = failed /\ scenario' = vtc /\ position' = 1
    BY <1>5, RestApiAssumption DEF RunVtc, Run, RestApiAssumption, OnThread
  <2>3. 1 \in 1..(Len(Scripts[vtc]) + 1)
    BY Lengths
  <2> QED BY <2>1, <2>2, <2>3
<1>6. CASE CallGoesOn
  <2>1. UNCHANGED <<running, failed, scenario, position>>
    BY <1>6 DEF CallGoesOn, loopVars
  <2>2. CASE Running
    BY <1>6, <2>1, <2>2, CallStaysOnTrack
  <2>3. CASE ~Running
    <3>1. UNCHANGED hsmFail
      BY <1>6, HsmKept DEF CallGoesOn, RunningCall, FlashManagerNext, BootloaderNext,
         BootStep, hsmVars
    <3> QED BY <1>1, <2>1, <2>3, <3>1
  <2> QED BY <2>2, <2>3
<1>7. CASE ResetReturns \/ FinalizeReturns
  <2>1. ~Running /\ UNCHANGED <<failed, hsmFail>>
    BY <1>7 DEF ResetReturns, FinalizeReturns, vars, hsmVars
  <2>2. ~Running'
    BY <1>2, <1>7 DEF ResetReturns, FinalizeReturns
  <2> QED BY <1>1, <2>1, <2>2
<1>8. CASE VtcStep
  <2> DEFINE step == Scripts[scenario][position]
  <2>1. InScenario /\ Running /\ scenario \in DOMAIN Scripts
        /\ position \in 1..Len(Scripts[scenario])
    BY <1>8, Lengths DEF VtcStep, InScenario
  <2>2. NextIs(step)
    BY <2>1, NextCall
  <2>3. Expects(step)
    <3> HIDE DEF step
    <3> QED BY <2>1, <2>2, CallExpected
  <2>4. /\ AsExpected(step) /\ position' = position + 1
        /\ UNCHANGED <<running, scenario, failed>>
    BY <1>8, <2>3 DEF VtcStep
  <2> HIDE DEF step
  <2>5. OnTrack'
    BY <2>1, <2>2, <2>4, CallAchieves
  <2>6. position' \in 1..(Len(Scripts[scenario]) + 1)
    BY <2>1, <2>4, Lengths
  <2> QED BY <2>1, <2>4, <2>5, <2>6
<1>9. CASE VtcPasses
  <2>1. Running /\ position > Len(Scripts[scenario]) /\ UNCHANGED <<failed, hsmFail>>
    BY <1>9 DEF VtcPasses, InScenario, VtcReturns, vars, hsmVars
  <2>2. ~hsmFail
    <3>1. Running /\ position > Len(Scripts[scenario]) /\ OnTrack
      BY <2>1
    <3>2. ASSUME scenario = "VTC_11", position \in {4, 5}
          PROVE  FALSE
      <4>1. Len(Scripts[scenario]) = 6
        BY <3>2, Lengths
      <4>2. position > 6
        BY <3>1, <4>1, Zenon
      <4> QED BY <3>2, <4>2
    <3>3. ~At("VTC_11", {4, 5})
      BY <3>2 DEF At
    <3> QED BY <3>1, <3>3, Zenon DEF OnTrack
  <2>3. ~Running'
    BY <1>2, <1>9 DEF VtcPasses, VtcReturns
  <2> QED BY <2>1, <2>2, <2>3
<1>10. CASE UNCHANGED restVars
  BY <1>10 DEF restVars, loopVars, accessVars, vars, ramVars, nvmVars, hsmVars, OnTrack,
     InCall, BeforeCall, Guessing, Begun, Challenges, Fresh, At, SA!CanVerify
<1> QED BY <1>4, <1>5, <1>6, <1>7, <1>8, <1>9, <1>10 DEF RestNext

\* Every scenario passes whatever it comes after, for every retry limit, image
\* and memory map, and hands the HSM back available.
THEOREM AllScenariosPass == RestSpec => []ScenariosPass
<1>1. RestInit => ScenarioInv
  BY DEF RestInit, Init, EcuStoreInit, ScenarioInv, Running
<1>2. ScenarioInv => ScenariosPass
  BY DEF ScenarioInv, ScenariosPass, Running
<1> QED BY <1>1, <1>2, StepScenario, RestInvariance, PTL DEF RestSpec
=============================================================================
