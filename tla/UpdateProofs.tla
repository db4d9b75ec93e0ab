----------------------------- MODULE UpdateProofs -----------------------------
(***************************************************************************)
(* The safety of UpdateSystem, power losses included, for every choice of  *)
(* the constants: the types, the anti-rollback counter that rises and is   *)
(* backed by a bank, the secure boot that starts only the newest committed *)
(* image, and the staged blocks that are part of what was hashed.  Then,   *)
(* of calls that no power loss cuts, the refinement of ABUpdate.           *)
(***************************************************************************)
EXTENDS UpdateSystem, TLAPS

\* The initial state has the types (the constructors, Bootloader.__init__).
LEMMA InitTypeOK == Init => TypeOK
<1> SUFFICES ASSUME Init PROVE TypeOK
  OBVIOUS
<1>1. EcuStoreTypeOK
  <2> USE EcuStoreAssumption DEF Init, EcuStoreInit, EcuStoreAssumption
  <2>1. flashPending \in BOOLEAN /\ hsmFail \in BOOLEAN
    OBVIOUS
  <2>2. activeBank \in Banks /\ lastValid \in Banks
    BY DEF Banks, DefaultActiveBank
  <2>3. bank \in [Banks -> Image \cup {None}]
    OBVIOUS
  <2>4. swVersion \in Int /\ keyGen \in 1..MaxKeyGen
    OBVIOUS
  <2>5. pc \in PC /\ bootResult \in {"none", "ok", "fail", "error"}
    BY DEF PC
  <2> QED BY <2>1, <2>2, <2>3, <2>4, <2>5 DEF EcuStoreTypeOK
<1>2. FlashManagerTypeOK
  BY DEF Init, EcuStoreInit, FlashManagerInit, FlashManagerTypeOK, CommitSteps,
         States, NoBlocks
<1> QED BY <1>1, <1>2 DEF TypeOK

\* Every call, boot, HSM failure and power loss preserves them.
LEMMA StepTypeOK == TypeOK /\ [Next]_vars => TypeOK'
<1> SUFFICES ASSUME TypeOK, [Next]_vars PROVE TypeOK'
  OBVIOUS
<1> USE EcuStoreAssumption, FlashManagerAssumption
        DEF TypeOK, EcuStoreTypeOK, FlashManagerTypeOK, EcuStoreAssumption,
            FlashManagerAssumption, Banks, PC, CommitSteps, BootSteps, States,
            NoBlocks
<1>1. ASSUME NEW request \in Requests, NEW version \in Versions,
             BeginDownload(request, version)
      PROVE  TypeOK'
  BY <1>1 DEF BeginDownload, hsmVars
<1>2. ASSUME NEW seq \in Seqs, NEW data \in Blocks, TransferBlock(seq, data)
      PROVE  TypeOK'
  BY <1>2 DEF TransferBlock, HashUpdate, hsmVars, nvmVars
<1>3. ASSUME NEW image \in Images, NEW sig \in Signatures,
             FinalizeRejected(image, sig)
      PROVE  TypeOK'
  BY <1>3 DEF FinalizeRejected, AbortAndSanitize, hsmVars
<1>4. ASSUME NEW image \in Images, NEW sig \in Signatures,
             FinalizeNoContext(image, sig)
      PROVE  TypeOK'
  BY <1>4 DEF FinalizeNoContext, hsmVars, nvmVars
<1>5. ASSUME NEW image \in Images, NEW sig \in Signatures,
             FinalizeMismatch(image, sig)
      PROVE  TypeOK'
  BY <1>5 DEF FinalizeMismatch, AbortAndSanitize, hsmVars
<1>6. ASSUME NEW image \in Images, NEW sig \in Signatures,
             FinalizeAccepted(image, sig)
      PROVE  TypeOK'
  <2> USE <1>6 DEF FinalizeAccepted
  <2>1. flashStore' \in [Seqs -> Seq(Bytes) \cup {None}]
    BY DEF Programmed
  <2>2. job' \in Job /\ job' # None
    <3>1. image \in Seq(Bytes) /\ sig \in Nat
      BY DEF Signatures
    <3>2. job' \in Job
      BY <3>1 DEF Job
    <3> QED BY <3>2
  <2>3. EcuStoreTypeOK'
    BY DEF nvmVars, hsmVars
  <2> QED BY <2>1, <2>2, <2>3
<1>7. CASE CommitActive
  BY <1>7 DEF CommitActive, Other, ramVars, hsmVars
<1>8. CASE CommitLastValid
  BY <1>8 DEF CommitLastValid, ramVars, hsmVars
<1>9. CASE CommitBank
  BY <1>9 DEF CommitBank, Image, Job, ramVars, hsmVars
<1>10. CASE CommitVersion
  BY <1>10 DEF CommitVersion, ramVars, hsmVars
<1>11. CASE CommitClear
  BY <1>11 DEF CommitClear, hsmVars
<1>12. CASE Abort
  BY <1>12 DEF Abort, AbortAndSanitize, hsmVars
<1>13. CASE BootStep /\ UNCHANGED <<ramVars, job>>
  <2>1. FlashManagerTypeOK'
    BY <1>13 DEF BootStep, BootRecover, BootClear, BootDirect, BootSucceeds,
                 BootFails, BootErrs, ramVars
  <2>2. CASE BootRecover
    BY <1>13, <2>1, <2>2 DEF BootRecover, FallBack, hsmVars
  <2>3. CASE BootClear
    BY <1>13, <2>1, <2>3 DEF BootClear, hsmVars
  <2>4. CASE BootDirect
    BY <1>13, <2>1, <2>4 DEF BootDirect, hsmVars, nvmVars
  <2>5. CASE BootSucceeds
    BY <1>13, <2>1, <2>5 DEF BootSucceeds, hsmVars
  <2>6. CASE BootFails \/ BootErrs
    BY <1>13, <2>1, <2>6 DEF BootFails, BootErrs, hsmVars, nvmVars
  <2> QED BY <1>13, <2>2, <2>3, <2>4, <2>5, <2>6 DEF BootStep
<1>14. CASE (Recover \/ RecoverClear) /\ UNCHANGED <<ramVars, job>>
  <2>1. FlashManagerTypeOK'
    BY <1>14 DEF Recover, RecoverClear, ramVars
  <2>2. CASE Recover
    BY <1>14, <2>1, <2>2 DEF Recover, FallBack, hsmVars
  <2>3. CASE RecoverClear
    BY <1>14, <2>1, <2>3 DEF RecoverClear, hsmVars
  <2> QED BY <1>14, <2>2, <2>3
<1>15. CASE SimulateFailure
  BY <1>15 DEF SimulateFailure, ramVars, nvmVars
<1>16. CASE PowerLoss
  <2>1. EcuStoreTypeOK'
    <3> USE <1>16 DEF PowerLoss, nvmVars
    <3>1. keyGen' \in 1..MaxKeyGen
      OBVIOUS
    <3>2. hsmFail' \in BOOLEAN /\ flashPending' \in BOOLEAN
      OBVIOUS
    <3> QED BY <3>1, <3>2
  <2>2. FlashManagerTypeOK'
    BY <1>16 DEF PowerLoss, FlashManagerLost
  <2> QED BY <2>1, <2>2
<1>17. CASE UNCHANGED vars
  BY <1>17 DEF vars, ramVars, nvmVars, hsmVars
<1> QED
  BY <1>1, <1>2, <1>3, <1>4, <1>5, <1>6, <1>7, <1>8, <1>9, <1>10, <1>11, <1>12,
     <1>13, <1>14, <1>15, <1>16, <1>17
  DEF Next, NextRunning, FlashManagerNext, Commit, BootloaderNext

\* Only simulate_failure and a restart touch the HSM.
LEMMA HsmKept ==
  FlashManagerNext \/ BootloaderNext \/ UNCHANGED vars => UNCHANGED hsmVars
  BY DEF FlashManagerNext, BeginDownload, TransferBlock, FinalizeRejected,
     FinalizeNoContext, FinalizeMismatch, FinalizeAccepted, Commit, CommitActive,
     CommitLastValid, CommitBank, CommitVersion, CommitClear, Abort, BootloaderNext,
     BootStep, BootRecover, BootClear, BootDirect, BootSucceeds, BootFails, BootErrs,
     Recover, RecoverClear, vars

\* The types hold in every reachable state.
THEOREM TypeCorrect == Spec => []TypeOK
  BY InitTypeOK, StepTypeOK, PTL DEF Spec

-----------------------------------------------------------------------------
\* While a commit runs its streaming hash is used up and its signature is by
\* the key of this process.
CommitState ==
  pc \in CommitSteps => state = "COMMITTING" /\ hashAcc = None /\ job.sig = keyGen

\* Whatever can still lead to commit_version announces a newer version.  This
\* survives an abort: the streaming hash does, and so does _pending_version.
VersionAhead ==
  (state = "DOWNLOADING" \/ hashAcc # None \/ pc \in CommitSteps \ {"commitClear"})
    => pendingVersion > swVersion

\* How far the commit has come.
Written ==
  /\ pc \in {"commitBank", "commitVersion", "commitClear"} => lastValid = activeBank
  /\ pc \in {"commitVersion", "commitClear"} =>
       /\ bank[activeBank] # None
       /\ bank[activeBank].sig = keyGen
       /\ bank[activeBank].version = pendingVersion
  /\ pc = "commitClear" => swVersion = pendingVersion

\* Signed with the key the HSM holds now: committed by this very process.
Fresh(b) == bank[b] # None /\ bank[b].sig = keyGen

\* No image is signed with a key that does not exist yet; if this process has
\* committed anything, the active bank is current and nothing is ahead of the
\* counter but the image a commit is about to count.
FreshIsCurrent ==
  /\ \A b \in Banks : bank[b] # None => bank[b].sig <= keyGen
  /\ \A b \in Banks : Fresh(b) =>
       bank[b].version <= swVersion \/ (pc = "commitVersion" /\ b = activeBank)
  /\ pc \notin CommitSteps => \A b \in Banks : Fresh(b) =>
       Fresh(activeBank) /\ bank[activeBank].version = swVersion /\ lastValid = activeBank

Safe == CommitState /\ VersionAhead /\ Written /\ FreshIsCurrent /\ CounterBacked

IInv == TypeOK /\ Safe

\* The type facts the steps below rest on.
LEMMA Types ==
  TypeOK => /\ activeBank \in Banks /\ lastValid \in Banks /\ DOMAIN bank = Banks
            /\ swVersion \in Int /\ pendingVersion \in Int
            /\ keyGen \in Nat /\ MaxKeyGen \in Nat
            /\ \A b \in Banks : bank[b] # None =>
                 bank[b].sig \in Nat /\ bank[b].version \in Int
            /\ bank \in [Banks -> Image \cup {None}]
            /\ Versions \subseteq Int
            /\ \A i \in Seq(Bytes), s \in Nat, v \in Int :
                 [image |-> i, sig |-> s, version |-> v] # None
            /\ pc \in CommitSteps => job \in Job
<1> SUFFICES ASSUME TypeOK
    PROVE  /\ activeBank \in Banks /\ lastValid \in Banks /\ DOMAIN bank = Banks
           /\ swVersion \in Int /\ pendingVersion \in Int
           /\ keyGen \in Nat /\ MaxKeyGen \in Nat
           /\ \A b \in Banks : bank[b] # None =>
                bank[b].sig \in Nat /\ bank[b].version \in Int
           /\ bank \in [Banks -> Image \cup {None}]
           /\ Versions \subseteq Int
           /\ \A i \in Seq(Bytes), s \in Nat, v \in Int :
                [image |-> i, sig |-> s, version |-> v] # None
           /\ pc \in CommitSteps => job \in Job
  OBVIOUS
<1> QED
  BY EcuStoreAssumption, FlashManagerAssumption
  DEF TypeOK, EcuStoreTypeOK, FlashManagerTypeOK, EcuStoreAssumption,
      FlashManagerAssumption, Image, Job

\* The initial state: nothing committed, nothing under way.
LEMMA InitSafe == Init => Safe
  BY EcuStoreAssumption
  DEF Init, EcuStoreInit, FlashManagerInit, Safe, CommitState, VersionAhead,
      Written, FreshIsCurrent, Fresh, CounterBacked, CommitSteps, Banks,
      EcuStoreAssumption

\* Every step preserves the invariant.
LEMMA StepSafe == IInv /\ [Next]_vars => Safe'
<1> SUFFICES ASSUME IInv, [Next]_vars PROVE Safe'
  OBVIOUS
<1> USE Types DEF IInv, Safe, CommitState, VersionAhead, Written, FreshIsCurrent,
                  Fresh, CounterBacked, CommitSteps, Banks, Other
<1>1. ASSUME NEW request \in Requests, NEW version \in Versions,
             BeginDownload(request, version)
      PROVE  Safe'
  BY <1>1 DEF BeginDownload, CheckVersion, hsmVars
<1>2. ASSUME NEW seq \in Seqs, NEW data \in Blocks, TransferBlock(seq, data)
      PROVE  Safe'
  BY <1>2 DEF TransferBlock, hsmVars, nvmVars
<1>3. ASSUME NEW image \in Images, NEW sig \in Signatures,
             FinalizeRejected(image, sig)
      PROVE  Safe'
  BY <1>3 DEF FinalizeRejected, AbortAndSanitize, hsmVars
<1>4. ASSUME NEW image \in Images, NEW sig \in Signatures,
             FinalizeNoContext(image, sig)
      PROVE  Safe'
  BY <1>4 DEF FinalizeNoContext, hsmVars, nvmVars
<1>5. ASSUME NEW image \in Images, NEW sig \in Signatures,
             FinalizeMismatch(image, sig)
      PROVE  Safe'
  BY <1>5 DEF FinalizeMismatch, AbortAndSanitize, hsmVars
<1>6. ASSUME NEW image \in Images, NEW sig \in Signatures,
             FinalizeAccepted(image, sig)
      PROVE  Safe'
  BY <1>6 DEF FinalizeAccepted, HashMatches, SigValid, hsmVars, nvmVars
<1>7. CASE CommitActive
  BY <1>7 DEF CommitActive, ramVars, hsmVars
<1>8. CASE CommitLastValid
  BY <1>8 DEF CommitLastValid, ramVars, hsmVars
<1>9. CASE CommitBank
  <2> DEFINE new == [image |-> job.image, sig |-> job.sig, version |-> pendingVersion]
  <2>1. /\ bank' = [bank EXCEPT ![activeBank] = new]
        /\ pc = "commitBank" /\ pc' = "commitVersion"
        /\ UNCHANGED <<state, hashAcc, pendingVersion, job, activeBank, lastValid,
                       swVersion, keyGen>>
    BY <1>9 DEF CommitBank, ramVars, hsmVars
  <2>2. new # None /\ new.sig = keyGen /\ new.version = pendingVersion
    BY <2>1 DEF Job
  <2>3. /\ bank'[activeBank] = new
        /\ \A b \in Banks : b # activeBank => bank'[b] = bank[b]
    BY <2>1
  <2> HIDE DEF new
  <2>4. CommitState' /\ VersionAhead' /\ Written'
    BY <2>1, <2>2, <2>3
  <2>5. FreshIsCurrent'
    BY <2>1, <2>2, <2>3
  <2>6. CounterBacked'
    BY <2>1, <2>2, <2>3
  <2> QED BY <2>4, <2>5, <2>6
<1>10. CASE CommitVersion
  BY <1>10 DEF CommitVersion, ramVars, hsmVars
<1>11. CASE CommitClear
  BY <1>11 DEF CommitClear, hsmVars
<1>12. CASE Abort
  BY <1>12 DEF Abort, AbortAndSanitize, hsmVars
<1>13. CASE BootRecover /\ UNCHANGED <<ramVars, job>>
  BY <1>13 DEF BootRecover, FallBack, ramVars, hsmVars
<1>14. CASE BootClear /\ UNCHANGED <<ramVars, job>>
  BY <1>14 DEF BootClear, ramVars, hsmVars
<1>15. CASE BootDirect /\ UNCHANGED <<ramVars, job>>
  BY <1>15 DEF BootDirect, ramVars, hsmVars, nvmVars
<1>16. CASE BootSucceeds /\ UNCHANGED <<ramVars, job>>
  BY <1>16 DEF BootSucceeds, ramVars, hsmVars
<1>17. CASE BootFails /\ UNCHANGED <<ramVars, job>>
  BY <1>17 DEF BootFails, ramVars, hsmVars, nvmVars
<1>18. CASE BootErrs /\ UNCHANGED <<ramVars, job>>
  BY <1>18 DEF BootErrs, ramVars, hsmVars, nvmVars
<1>19. CASE Recover /\ UNCHANGED <<ramVars, job>>
  BY <1>19 DEF Recover, FallBack, ramVars, hsmVars
<1>20. CASE RecoverClear /\ UNCHANGED <<ramVars, job>>
  BY <1>20 DEF RecoverClear, ramVars, hsmVars
<1>21. CASE SimulateFailure
  BY <1>21 DEF SimulateFailure, ramVars, nvmVars
<1>22. CASE PowerLoss
  BY <1>22 DEF PowerLoss, FlashManagerLost, nvmVars
<1>23. CASE UNCHANGED vars
  BY <1>23 DEF vars, ramVars, nvmVars, hsmVars
<1> QED
  BY <1>1, <1>2, <1>3, <1>4, <1>5, <1>6, <1>7, <1>8, <1>9, <1>10, <1>11,
     <1>12, <1>13, <1>14, <1>15, <1>16, <1>17, <1>18, <1>19, <1>20, <1>21,
     <1>22, <1>23
  DEF Next, NextRunning, FlashManagerNext, Commit, BootloaderNext, BootStep

\* Every reachable state satisfies the inductive invariant.
THEOREM Invariance == Spec => []IInv
<1>1. Init => IInv
  BY InitTypeOK, InitSafe DEF IInv
<1>2. IInv /\ [Next]_vars => IInv'
  BY StepTypeOK, StepSafe DEF IInv
<1> QED BY <1>1, <1>2, PTL DEF Spec

\* The one step that writes the counter has a newer version to write.
LEMMA CounterStep ==
  ASSUME IInv, [Next]_vars, swVersion' # swVersion
  PROVE  swVersion' > swVersion
<1>1. CommitVersion
  BY DEF Next, NextRunning, FlashManagerNext, Commit, BootloaderNext, BootStep,
         BeginDownload, TransferBlock, FinalizeRejected, FinalizeNoContext,
         FinalizeMismatch, FinalizeAccepted, CommitActive, CommitLastValid,
         CommitBank, CommitClear, Abort, BootRecover, BootClear, BootDirect,
         BootSucceeds, BootFails, BootErrs, Recover, RecoverClear,
         SimulateFailure, PowerLoss, nvmVars, vars
<1> QED BY <1>1 DEF CommitVersion, IInv, Safe, VersionAhead, CommitSteps

\* check_version and commit_version: the counter never falls and never repeats
\* a value, across aborts, resets and power losses.
THEOREM CounterRises == Spec => VersionMonotonic
<1>1. IInv /\ [Next]_vars => [swVersion' # swVersion => swVersion' > swVersion]_vars
  BY CounterStep
<1> QED BY <1>1, Invariance, PTL DEF Spec, VersionMonotonic

\* The bank is written before the counter: no power loss leaves a counter that
\* no image in the device satisfies.
THEOREM CounterAlwaysBacked == Spec => []CounterBacked
<1>1. IInv => CounterBacked
  BY DEF IInv, Safe
<1> QED BY <1>1, Invariance, PTL

\* boot answers True only for the newest of the images that verify, at the
\* counter's version, also after a commit, a boot or a recovery that was cut.
THEOREM BootsOnlyCurrent == Spec => BootedIsCurrent
<1> DEFINE Newest ==
      /\ bank[activeBank].version = swVersion
      /\ \A b \in Banks : Bootable(b) => bank[b].version <= swVersion
<1>1. ASSUME IInv, BootSucceeds PROVE Newest
  <2>1. FreshIsCurrent
    BY <1>1 DEF IInv, Safe
  <2>2. /\ pc \notin CommitSteps /\ pc # "commitVersion"
        /\ Bootable(activeBank) /\ activeBank \in Banks
    BY <1>1, Types DEF BootSucceeds, CommitSteps, IInv
  <2> QED BY <2>1, <2>2 DEF FreshIsCurrent, Fresh, Bootable, SigValid
<1>2. IInv /\ [Next]_vars => [BootSucceeds => Newest]_vars
  BY <1>1
<1> QED BY <1>2, Invariance, PTL DEF Spec, BootedIsCurrent

-----------------------------------------------------------------------------
\* A stretch of a sequence is one of every longer sequence that begins with it.
LEMMA OccursInConcat ==
  ASSUME NEW part \in Seq(Bytes), NEW old \in Seq(Bytes), NEW new \in Seq(Bytes),
         Occurs(part, old)
  PROVE  Occurs(part, old \o new)
<1>1. PICK i \in 0..(Len(old) - Len(part)) :
        part = SubSeq(old, i + 1, i + Len(part))
  BY DEF Occurs
<1>2. Len(old \o new) = Len(old) + Len(new) /\ Len(part) \in Nat
      /\ Len(old) \in Nat /\ Len(new) \in Nat
  OBVIOUS
<1>3. i \in 0..(Len(old \o new) - Len(part))
  BY <1>2
<1>4. SubSeq(old \o new, i + 1, i + Len(part)) = SubSeq(old, i + 1, i + Len(part))
  BY <1>2
<1> QED BY <1>1, <1>3, <1>4 DEF Occurs

\* What was appended last is a stretch of the whole.
LEMMA OccursAtEnd ==
  ASSUME NEW old \in Seq(Bytes), NEW new \in Seq(Bytes)
  PROVE  Occurs(new, old \o new)
<1>1. Len(old \o new) = Len(old) + Len(new) /\ Len(new) \in Nat /\ Len(old) \in Nat
  OBVIOUS
<1>2. new = SubSeq(old \o new, Len(old) + 1, Len(old) + Len(new))
  BY <1>1
<1>3. Len(old) \in 0..(Len(old \o new) - Len(new))
  BY <1>1
<1> QED BY <1>2, <1>3 DEF Occurs

\* StagedIsVerified between and during all calls.
Staged ==
  \A s \in Seqs : staging[s] # None =>
    IF pc \in CommitSteps THEN Occurs(staging[s], job.image)
    ELSE hashAcc # None /\ Occurs(staging[s], hashAcc)

\* transfer_block feeds to the hash what it stages.
LEMMA TransferStaged ==
  ASSUME TypeOK, Staged, NEW seq \in Seqs, NEW data \in Blocks,
         TransferBlock(seq, data)
  PROVE  Staged'
<1> USE FlashManagerAssumption DEF FlashManagerAssumption
<1>1. /\ pc = "idle" /\ pc' = "idle"
      /\ staging' = [staging EXCEPT ![seq] = data]
      /\ hashAcc' = HashUpdate(data)
  BY DEF TransferBlock
<1>2. /\ staging \in [Seqs -> Seq(Bytes) \cup {None}]
      /\ hashAcc \in Seq(Bytes) \cup {None} /\ data \in Seq(Bytes)
  BY DEF TypeOK, FlashManagerTypeOK
<1>3. hashAcc' \in Seq(Bytes) /\ hashAcc' # None
  <2>1. CASE hashAcc = None
    <3>1. hashAcc' = <<>> \o data
      BY <1>1, <2>1 DEF HashUpdate
    <3>2. <<>> \o data = data
      BY <1>2
    <3> QED BY <1>2, <3>1, <3>2, EcuStoreAssumption DEF EcuStoreAssumption
  <2>2. CASE hashAcc # None
    <3>1. hashAcc' = hashAcc \o data
      BY <1>1, <2>2 DEF HashUpdate
    <3>2. hashAcc \in Seq(Bytes)
      BY <1>2, <2>2
    <3>3. hashAcc \o data \in Seq(Bytes)
      BY <1>2, <3>2
    <3> QED BY <3>1, <3>3, EcuStoreAssumption DEF EcuStoreAssumption
  <2> QED BY <2>1, <2>2
<1>4. ASSUME NEW s \in Seqs, staging'[s] # None PROVE Occurs(staging'[s], hashAcc')
  <2>1. CASE s = seq
    <3>1. staging'[s] = data
      BY <1>1, <1>2, <2>1
    <3>2. CASE hashAcc = None
      <4>1. hashAcc' = <<>> \o data
        BY <1>1, <3>2 DEF HashUpdate
      <4>2. <<>> \in Seq(Bytes)
        OBVIOUS
      <4>3. Occurs(data, <<>> \o data)
        BY <1>2, <4>2, OccursAtEnd
      <4> QED BY <3>1, <4>1, <4>3
    <3>3. CASE hashAcc # None
      BY <1>1, <1>2, <3>1, <3>3, OccursAtEnd DEF HashUpdate
    <3> QED BY <3>2, <3>3
  <2>2. CASE s # seq
    <3>1. staging'[s] = staging[s]
      BY <1>1, <1>2, <2>2
    <3>2. hashAcc # None /\ Occurs(staging[s], hashAcc)
      BY <1>1, <1>4, <3>1 DEF Staged, CommitSteps
    <3>3. staging[s] \in Seq(Bytes) /\ hashAcc \in Seq(Bytes)
      BY <1>2, <1>4, <3>1, <3>2
    <3>4. hashAcc' = hashAcc \o data
      BY <1>1, <3>2 DEF HashUpdate
    <3> QED BY <1>2, <3>1, <3>2, <3>3, <3>4, OccursInConcat
  <2> QED BY <2>1, <2>2
<1> QED BY <1>1, <1>3, <1>4 DEF Staged, CommitSteps

\* Every other call empties the buffer, leaves buffer and hash together, or
\* hands the hashed image to the commit.
LEMMA StagedStep == TypeOK /\ Staged /\ [Next]_vars => Staged'
<1> SUFFICES ASSUME TypeOK, Staged, [Next]_vars PROVE Staged'
  OBVIOUS
<1>1. CASE staging' = NoBlocks
  BY <1>1 DEF Staged, NoBlocks
<1>2. CASE /\ UNCHANGED <<staging, hashAcc, job>>
           /\ pc \in CommitSteps <=> pc' \in CommitSteps
  BY <1>2 DEF Staged
<1>3. ASSUME NEW seq \in Seqs, NEW data \in Blocks, TransferBlock(seq, data)
      PROVE  Staged'
  BY <1>3, TransferStaged
<1>4. ASSUME NEW image \in Images, NEW sig \in Signatures,
             FinalizeAccepted(image, sig)
      PROVE  Staged'
  <2>1. /\ hashAcc = image /\ job'.image = image /\ staging' = staging
        /\ pc = "idle" /\ pc' = "commitActive"
    BY <1>4 DEF FinalizeAccepted, HashMatches
  <2> QED BY <2>1 DEF Staged, CommitSteps
<1>5. CASE CommitClear \/ Abort \/ PowerLoss
           \/ (\E request \in Requests, version \in Versions :
                 BeginDownload(request, version))
           \/ (\E image \in Images, sig \in Signatures :
                 FinalizeRejected(image, sig) \/ FinalizeMismatch(image, sig))
  BY <1>1, <1>5 DEF CommitClear, Abort, PowerLoss, FlashManagerLost, BeginDownload,
     FinalizeRejected, FinalizeMismatch, AbortAndSanitize
<1>6. CASE CommitActive \/ CommitLastValid \/ CommitBank \/ CommitVersion
           \/ (\E image \in Images, sig \in Signatures :
                 FinalizeNoContext(image, sig))
  BY <1>2, <1>6 DEF CommitActive, CommitLastValid, CommitBank, CommitVersion,
     FinalizeNoContext, CommitSteps, ramVars
<1>7. CASE (BootloaderNext /\ UNCHANGED <<ramVars, job>>) \/ SimulateFailure
           \/ UNCHANGED vars
  BY <1>2, <1>7 DEF BootloaderNext, BootStep, BootRecover, BootClear, BootDirect,
     BootSucceeds, BootFails, BootErrs, Recover, RecoverClear, SimulateFailure,
     CommitSteps, ramVars, vars
<1> QED
  BY <1>3, <1>4, <1>5, <1>6, <1>7
  DEF Next, NextRunning, FlashManagerNext, Commit

\* Nothing is programmed that the hash has not seen: whatever the order and the
\* repetition of the blocks, a staged one is a stretch of the hashed bytes, and
\* those are the image of the commit.
THEOREM StagedAlwaysVerified == Spec => []StagedIsVerified
<1>1. Init => Staged
  BY DEF Init, FlashManagerInit, Staged, NoBlocks
<1>2. TypeOK /\ Staged => StagedIsVerified
  BY DEF Staged, StagedIsVerified, CommitSteps
<1> QED BY <1>1, <1>2, StagedStep, TypeCorrect, PTL DEF Spec

-----------------------------------------------------------------------------
(* From here on no call is cut by a power loss: between two calls the      *)
(* active bank is the current one, and finalize, boot and recovery         *)
(* together implement an atomic A/B update.                                *)

\* Every image was committed by this process: its key is never replaced.
AllFresh == \A b \in Banks : bank[b] # None => bank[b].sig = keyGen

\* Only the write of active_bank separates the two bank keys.
LastIsActive == pc # "commitLastValid" => lastValid = activeBank

\* What a commit is going to install is an image and a version of a request.
Requested ==
  /\ pc \in CommitSteps => job.image \in Images
  /\ (state = "DOWNLOADING" \/ hashAcc # None \/ pc \in CommitSteps)
       => pendingVersion \in Versions

\* A boot verifies only after it has dealt with flash_pending.
PendingHandled == pc = "bootVerify" => ~flashPending

RunningInv == /\ IInv /\ AllFresh /\ LastIsActive /\ Requested
              /\ PendingHandled /\ PendingMeansInFlight

\* A fresh ECU is current.
LEMMA InitRunning == Init => RunningInv
<1> SUFFICES ASSUME Init PROVE RunningInv
  OBVIOUS
<1>1. IInv
  BY InitTypeOK, InitSafe DEF IInv
<1> QED
  BY <1>1 DEF Init, EcuStoreInit, FlashManagerInit, RunningInv, AllFresh,
              LastIsActive, Requested, PendingHandled, PendingMeansInFlight,
              CommitSteps, Banks

\* Every step of a process that is not cut preserves the invariant.
LEMMA StepRunning == RunningInv /\ [NextRunning]_vars => RunningInv'
<1> SUFFICES ASSUME RunningInv, [NextRunning]_vars PROVE RunningInv'
  OBVIOUS
<1>0. IInv'
  BY StepTypeOK, StepSafe DEF RunningInv, IInv, Next
<1> USE Types DEF RunningInv, IInv, AllFresh, LastIsActive, Requested,
                  PendingHandled, PendingMeansInFlight, CommitSteps, Banks
<1>1. ASSUME NEW request \in Requests, NEW version \in Versions,
             BeginDownload(request, version)
      PROVE  RunningInv'
  BY <1>0, <1>1 DEF BeginDownload, hsmVars
<1>2. ASSUME NEW seq \in Seqs, NEW data \in Blocks, TransferBlock(seq, data)
      PROVE  RunningInv'
  BY <1>0, <1>2 DEF TransferBlock, hsmVars, nvmVars
<1>3. ASSUME NEW image \in Images, NEW sig \in Signatures,
             FinalizeRejected(image, sig)
      PROVE  RunningInv'
  BY <1>0, <1>3 DEF FinalizeRejected, AbortAndSanitize, hsmVars
<1>4. ASSUME NEW image \in Images, NEW sig \in Signatures,
             FinalizeNoContext(image, sig)
      PROVE  RunningInv'
  BY <1>0, <1>4 DEF FinalizeNoContext, hsmVars, nvmVars
<1>5. ASSUME NEW image \in Images, NEW sig \in Signatures,
             FinalizeMismatch(image, sig)
      PROVE  RunningInv'
  BY <1>0, <1>5 DEF FinalizeMismatch, AbortAndSanitize, hsmVars
<1>6. ASSUME NEW image \in Images, NEW sig \in Signatures,
             FinalizeAccepted(image, sig)
      PROVE  RunningInv'
  BY <1>0, <1>6 DEF FinalizeAccepted, HashMatches, hsmVars, nvmVars
<1>7. CASE CommitActive
  BY <1>0, <1>7 DEF CommitActive, ramVars, hsmVars
<1>8. CASE CommitLastValid
  BY <1>0, <1>8 DEF CommitLastValid, ramVars, hsmVars
<1>9. CASE CommitBank
  <2> DEFINE new == [image |-> job.image, sig |-> job.sig, version |-> pendingVersion]
  <2>1. /\ bank' = [bank EXCEPT ![activeBank] = new]
        /\ pc = "commitBank" /\ pc' = "commitVersion"
        /\ UNCHANGED <<state, hashAcc, pendingVersion, job, activeBank, lastValid,
                       keyGen, flashPending>>
    BY <1>9 DEF CommitBank, ramVars, hsmVars
  <2>2. new.sig = keyGen
    BY <2>1 DEF Safe, CommitState
  <2>3. /\ bank'[activeBank] = new
        /\ \A b \in Banks : b # activeBank => bank'[b] = bank[b]
    BY <2>1
  <2> HIDE DEF new
  <2>4. AllFresh'
    BY <2>1, <2>2, <2>3
  <2>5. LastIsActive' /\ Requested' /\ PendingHandled' /\ PendingMeansInFlight'
    BY <2>1
  <2> QED BY <1>0, <2>4, <2>5
<1>10. CASE CommitVersion
  BY <1>0, <1>10 DEF CommitVersion, ramVars, hsmVars
<1>11. CASE CommitClear
  BY <1>0, <1>11 DEF CommitClear, hsmVars, Safe, CommitState
<1>12. CASE Abort
  BY <1>0, <1>12 DEF Abort, AbortAndSanitize, hsmVars
<1>13. CASE BootRecover /\ UNCHANGED <<ramVars, job>>
  BY <1>0, <1>13 DEF BootRecover, FallBack, ramVars, hsmVars
<1>14. CASE BootClear /\ UNCHANGED <<ramVars, job>>
  BY <1>0, <1>14 DEF BootClear, ramVars, hsmVars
<1>15. CASE BootDirect /\ UNCHANGED <<ramVars, job>>
  BY <1>0, <1>15 DEF BootDirect, ramVars, hsmVars, nvmVars
<1>16. CASE BootSucceeds /\ UNCHANGED <<ramVars, job>>
  BY <1>0, <1>16 DEF BootSucceeds, ramVars, hsmVars
<1>17. CASE BootFails /\ UNCHANGED <<ramVars, job>>
  BY <1>0, <1>17 DEF BootFails, ramVars, hsmVars, nvmVars
<1>18. CASE BootErrs /\ UNCHANGED <<ramVars, job>>
  BY <1>0, <1>18 DEF BootErrs, ramVars, hsmVars, nvmVars
<1>19. CASE Recover /\ UNCHANGED <<ramVars, job>>
  BY <1>0, <1>19 DEF Recover, FallBack, ramVars, hsmVars
<1>20. CASE RecoverClear /\ UNCHANGED <<ramVars, job>>
  BY <1>0, <1>20 DEF RecoverClear, ramVars, hsmVars
<1>21. CASE SimulateFailure
  BY <1>0, <1>21 DEF SimulateFailure, ramVars, nvmVars
<1>22. CASE UNCHANGED vars
  BY <1>0, <1>22 DEF vars, ramVars, nvmVars, hsmVars
<1> QED
  BY <1>1, <1>2, <1>3, <1>4, <1>5, <1>6, <1>7, <1>8, <1>9, <1>10, <1>11, <1>12,
     <1>13, <1>14, <1>15, <1>16, <1>17, <1>18, <1>19, <1>20, <1>21, <1>22
  DEF NextRunning, FlashManagerNext, Commit, BootloaderNext, BootStep

\* The invariant of a process that is not cut holds in every state it reaches.
LEMMA RunningInvariance == SpecRunning => []RunningInv
  BY InitRunning, StepRunning, PTL DEF SpecRunning

-----------------------------------------------------------------------------
\* Between calls the active bank is the last valid one and, once anything was
\* committed, carries the counter's version under the current key.
THEOREM ActiveStaysCurrent == SpecRunning => []ActiveIsCurrent
<1>1. RunningInv => ActiveIsCurrent
  <2> SUFFICES ASSUME RunningInv, pc = "idle"
               PROVE  /\ lastValid = activeBank
                      /\ swVersion # 0 => /\ bank[activeBank] # None
                                          /\ bank[activeBank].sig = keyGen
                                          /\ bank[activeBank].version = swVersion
    BY DEF ActiveIsCurrent
  <2>1. lastValid = activeBank
    BY DEF RunningInv, LastIsActive
  <2>2. ASSUME swVersion # 0
        PROVE  /\ bank[activeBank] # None
               /\ bank[activeBank].sig = keyGen
               /\ bank[activeBank].version = swVersion
    <3>1. PICK b \in Banks : bank[b] # None
      BY <2>2 DEF RunningInv, IInv, Safe, CounterBacked
    <3>2. Fresh(b)
      BY <3>1 DEF RunningInv, AllFresh, Fresh
    <3> QED
      BY <3>2 DEF RunningInv, IInv, Safe, FreshIsCurrent, Fresh, CommitSteps
  <2> QED BY <2>1, <2>2
<1> QED BY <1>1, RunningInvariance, PTL

\* Between calls flash_pending is set only for a download that is under way or
\* was left in VERIFYING.
THEOREM PendingOnlyInFlight == SpecRunning => []PendingMeansInFlight
<1>1. RunningInv => PendingMeansInFlight
  BY DEF RunningInv
<1> QED BY <1>1, RunningInvariance, PTL

-----------------------------------------------------------------------------
\* What the abstract update is shown of the three variables (UpdateSystem).
ShownActive == IF pc \in {"commitLastValid", "commitBank"}
               THEN Other(activeBank) ELSE activeBank
ShownSlot == [b \in Banks |-> IF bank[b] = None THEN None
                              ELSE [image   |-> bank[b].image,
                                    version |-> bank[b].version]]
ShownVersion == IF pc = "commitVersion" THEN pendingVersion ELSE swVersion
Shown == <<ShownActive, ShownSlot, ShownVersion>>

\* The write of the bank is the abstract update.
LEMMA BankWriteInstalls ==
  RunningInv /\ CommitBank => ABUpdate!Install(job.image, pendingVersion)
<1> SUFFICES ASSUME RunningInv, CommitBank
             PROVE  ABUpdate!Install(job.image, pendingVersion)
  OBVIOUS
<1> DEFINE new == [image |-> job.image, sig |-> job.sig, version |-> pendingVersion]
<1>1. /\ pc = "commitBank" /\ pc' = "commitVersion"
      /\ bank' = [bank EXCEPT ![activeBank] = new]
      /\ activeBank' = activeBank /\ pendingVersion' = pendingVersion
  BY DEF CommitBank, ramVars
<1>2. activeBank \in Banks /\ bank \in [Banks -> Image \cup {None}] /\ new # None
  BY <1>1, Types DEF RunningInv, IInv, Job, CommitSteps
<1>3. pendingVersion > ShownVersion
  BY <1>1 DEF RunningInv, IInv, Safe, VersionAhead, CommitSteps, ShownVersion
<1>4. ShownActive = Other(activeBank) /\ ShownActive' = activeBank
  BY <1>1 DEF ShownActive
<1>5. ShownVersion' = pendingVersion
  BY <1>1 DEF ShownVersion
<1>6. ShownSlot' = [ShownSlot EXCEPT ![activeBank] =
                      [image |-> job.image, version |-> pendingVersion]]
  BY <1>1, <1>2 DEF ShownSlot
<1> QED
  BY <1>2, <1>3, <1>4, <1>5, <1>6
  DEF ABUpdate!Install, ABUpdate!Inactive, Banks, Other, ShownActive, ShownSlot,
      ShownVersion

\* Every other step leaves what is shown as it is.
LEMMA OtherStepsStutter ==
  RunningInv /\ [NextRunning]_vars /\ ~CommitBank => UNCHANGED Shown
<1> SUFFICES ASSUME RunningInv, [NextRunning]_vars, ~CommitBank
             PROVE  UNCHANGED Shown
  OBVIOUS
<1>1. bank' = bank
  BY DEF NextRunning, FlashManagerNext, Commit, BootloaderNext, BootStep,
         BeginDownload, TransferBlock, FinalizeRejected, FinalizeNoContext,
         FinalizeMismatch, FinalizeAccepted, CommitActive, CommitLastValid,
         CommitVersion, CommitClear, Abort, BootRecover, BootClear, BootDirect,
         BootSucceeds, BootFails, BootErrs, Recover, RecoverClear,
         SimulateFailure, nvmVars, vars
<1>2. ShownSlot' = ShownSlot
  BY <1>1 DEF ShownSlot
<1>3. ShownActive' = ShownActive /\ ShownVersion' = ShownVersion
  BY Types
  DEF RunningInv, IInv, Safe, Written, LastIsActive, ShownActive, ShownVersion, Other,
      Banks, CommitSteps, NextRunning, FlashManagerNext, Commit, BootloaderNext,
      BootStep, BeginDownload, TransferBlock, FinalizeRejected, FinalizeNoContext,
      FinalizeMismatch, FinalizeAccepted, CommitActive, CommitLastValid,
      CommitVersion, CommitClear, Abort, BootRecover, BootClear, BootDirect,
      BootSucceeds, BootFails, BootErrs, Recover, RecoverClear, FallBack,
      SimulateFailure, ramVars, nvmVars, hsmVars, vars
<1> QED BY <1>2, <1>3 DEF Shown

\* begin_download to finalize, abort, boot and recovery implement an update
\* that happens in one step or not at all.
THEOREM UpdateIsAtomic == SpecRunning => ImplementsABUpdate
<1>1. Init => ABUpdate!Init
  BY DEF Init, EcuStoreInit, ABUpdate!Init, ABUpdate!Banks, Banks,
         DefaultActiveBank
<1>2. RunningInv /\ [NextRunning]_vars =>
        [ABUpdate!Next]_<<ShownActive, ShownSlot, ShownVersion>>
  <2> SUFFICES ASSUME RunningInv, [NextRunning]_vars
               PROVE  ABUpdate!Next \/ UNCHANGED Shown
    BY DEF Shown
  <2>1. CASE CommitBank
    <3>1. job.image \in Images /\ pendingVersion \in Versions
      BY <2>1 DEF CommitBank, RunningInv, Requested, CommitSteps
    <3> QED BY <2>1, <3>1, BankWriteInstalls DEF ABUpdate!Next, ABUpdate!Install
  <2> QED BY <2>1, OtherStepsStutter
<1> QED
  BY <1>1, <1>2, RunningInvariance, PTL
  DEF SpecRunning, ImplementsABUpdate, ABUpdate!Spec, ShownActive, ShownSlot,
      ShownVersion
=============================================================================
