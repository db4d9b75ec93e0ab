----------------------------- MODULE UpdateSystem -----------------------------
(***************************************************************************)
(* The update path of the ECU: flash manager, bootloader and recovery      *)
(* manager over one NvM store, with an HSM that may become unavailable and *)
(* a process that may die between any two NvM writes.                      *)
(***************************************************************************)
EXTENDS FlashManager, Bootloader

vars == <<ramVars, job, nvmVars, hsmVars, pc, bootResult>>

Init == EcuStoreInit /\ FlashManagerInit

TypeOK == EcuStoreTypeOK /\ FlashManagerTypeOK

\* HSM.simulate_failure, between two calls.
SimulateFailure ==
  /\ pc = "idle"
  /\ hsmFail' = ~hsmFail
  /\ UNCHANGED <<ramVars, job, nvmVars, keyGen, pc, bootResult>>

(* The process dies and is started again: NvM is reloaded from its file,   *)
(* every object is built anew and build_simulation generates new keys.     *)
(* The start itself does not boot the ECU: that takes a reset request.     *)
PowerLoss ==
  /\ keyGen < MaxKeyGen
  /\ FlashManagerLost
  /\ keyGen' = keyGen + 1
  /\ hsmFail' = FALSE
  /\ pc' = "idle"
  /\ bootResult' = "none"
  /\ UNCHANGED nvmVars

NextRunning ==
  \/ FlashManagerNext
  \/ BootloaderNext /\ UNCHANGED <<ramVars, job>>
  \/ SimulateFailure

Next == NextRunning \/ PowerLoss

\* A synchronous call that has started runs to its end.
RunningCall ==
  \/ Commit
  \/ (BootClear \/ BootSucceeds \/ BootFails \/ BootErrs \/ RecoverClear)
       /\ UNCHANGED <<ramVars, job>>

Spec == Init /\ [][Next]_vars /\ WF_vars(RunningCall)

\* The same without a power loss: what the calls achieve when none is cut.
SpecRunning == Init /\ [][NextRunning]_vars /\ WF_vars(RunningCall)

-----------------------------------------------------------------------------
(* Safety, power losses included.                                          *)

\* A staged block is a stretch of the bytes the streaming hash has seen, so
\* what a commit programs was part of what it verified (transfer_block,
\* finalize): the hash is checked against the image before the commit.
Occurs(part, whole) ==
  \E i \in 0..(Len(whole) - Len(part)) :
    part = SubSeq(whole, i + 1, i + Len(part))

StagedIsVerified ==
  /\ pc = "idle" => \A s \in Seqs : staging[s] # None =>
       hashAcc # None /\ Occurs(staging[s], hashAcc)
  /\ pc \in CommitSteps => \A s \in Seqs : staging[s] # None =>
       Occurs(staging[s], job.image)

\* The anti-rollback counter only rises (check_version at the download,
\* commit_version at the end of a later finalize), whatever requests, aborts,
\* resets and power losses lie between the two.
VersionMonotonic == [][swVersion' # swVersion => swVersion' > swVersion]_vars

\* The counter never runs ahead of the firmware: some bank holds an image at
\* least as new (finalize writes the bank before commit_version), so a cut
\* between the writes cannot lock out the only version the device has.
CounterBacked ==
  swVersion # 0 => \E b \in Banks : bank[b] # None /\ bank[b].version >= swVersion

\* Secure boot starts only the newest of the images that verify now, at the
\* counter's version, whatever cut commits, fallbacks and recoveries went before
\* (boot, _recover_pending, finalize); as long as no flush fails.
BootedIsCurrent ==
  [][BootSucceeds =>
       /\ bank[activeBank].version = swVersion
       /\ \A b \in Banks : Bootable(b) => bank[b].version <= swVersion]_vars

-----------------------------------------------------------------------------
(* Safety and liveness of calls that are not cut by a power loss.          *)

\* Between calls the active bank is the last valid one, and once anything was
\* committed it boots and carries the counter's version (finalize, boot).
ActiveIsCurrent ==
  pc = "idle" =>
    /\ lastValid = activeBank
    /\ swVersion # 0 => /\ bank[activeBank] # None
                        /\ bank[activeBank].sig = keyGen
                        /\ bank[activeBank].version = swVersion

\* Between calls flash_pending is set only while a download is under way or
\* its finalize was left in VERIFYING (begin_download, abort_and_sanitize).
PendingMeansInFlight ==
  pc = "idle" /\ flashPending => state \in {"DOWNLOADING", "VERIFYING"}

\* A commit that has begun ends with its image in the active bank, the counter
\* at its version and flash_pending clear, unless a flush fails.
CommitTakesEffect ==
  \A image \in Images, v \in Versions :
    (pc = "commitActive" /\ job.image = image /\ pendingVersion = v)
      ~> (/\ pc = "idle" /\ ~flashPending /\ swVersion = v
          /\ bank[activeBank] # None /\ bank[activeBank].image = image)

\* finalize, boot and recovery together implement an atomic A/B update.  The
\* abstract update happens at the bank write: until then the flipped
\* active_bank shows as the old one, after it the counter as already raised.
ABUpdate == INSTANCE ABUpdate WITH
  active  <- IF pc \in {"commitLastValid", "commitBank"}
             THEN Other(activeBank) ELSE activeBank,
  slot    <- [b \in Banks |-> IF bank[b] = None THEN None
                              ELSE [image   |-> bank[b].image,
                                    version |-> bank[b].version]],
  version <- IF pc = "commitVersion" THEN pendingVersion ELSE swVersion

ImplementsABUpdate == ABUpdate!Spec

-----------------------------------------------------------------------------
(* What the repository says and the code does not do.                      *)

\* No commit begins after an abort: of the ways into the state IDLE (start,
\* commit, abort) only the abort can be followed by a finalize that is accepted.
NoCommitAfterAbort ==
  [][pc = "idle" /\ pc' = "commitActive" => state # "IDLE"]_vars

\* The bank a recovery has fallen back to holds an image if any bank does.
RecoveryTargetHasImage ==
  pc = "bootClear" /\ (\E b \in Banks : bank[b] # None) => bank[activeBank] # None
=============================================================================
