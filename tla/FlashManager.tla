---------------------------- MODULE FlashManager ----------------------------
(***************************************************************************)
(* sim/flash_manager.py with the modules it drives: csm.py (the streaming  *)
(* hash), version_manager.py, failure_handler.py and the NvM keys of       *)
(* EcuStore.  begin_download, transfer_block and abort end in their only   *)
(* NvM write and are one action each.  finalize writes five keys that      *)
(* matter; its commit is split at each of them.                            *)
(***************************************************************************)
EXTENDS EcuStore, MemoryMap

CONSTANTS
  Seqs,       \* block sequence numbers a tester uses
  Blocks,     \* block payloads a tester sends
  Images,     \* images a tester asks to finalize
  Versions,   \* image versions a tester announces
  Requests,   \* the [addr, size, role] of a download request
  MaxBytes    \* bound: bytes fed to one streaming hash

ASSUME FlashManagerAssumption ==
  /\ Blocks \subseteq Seq(Bytes)
  /\ Images \subseteq Seq(Bytes)
  /\ Versions \subseteq Int
  /\ MaxBytes \in Nat
  /\ Requests \subseteq [addr : Int, size : Int, role : Roles]

VARIABLES
  state,           \* FlashManager._state
  staging,         \* _staging_buffer: the block of each sequence number
  hashAcc,         \* CSM._hash_contexts[_hash_ctx]: the bytes in the order
                   \* they arrived; None when there is no such context
  pendingVersion,  \* _pending_version
  target,          \* _target_address, _target_size, _role; None before any
  flashStore,      \* _flash_store: the programmed blocks
  job              \* finalize's arguments while its commit runs

ramVars == <<state, staging, hashAcc, pendingVersion, target, flashStore>>

States == {"IDLE", "DOWNLOADING", "VERIFYING", "COMMITTING", "ABORTED"}
NoBlocks == [s \in Seqs |-> None]

FlashManagerTypeOK ==
  /\ state \in States
  /\ staging \in [Seqs -> Seq(Bytes) \cup {None}]
  /\ hashAcc \in Seq(Bytes) \cup {None}
  /\ pendingVersion \in Int
  /\ target \in Requests \cup {None}
  /\ flashStore \in [Seqs -> Seq(Bytes) \cup {None}]
  /\ job \in Job \cup {None}
  /\ pc \in CommitSteps => job # None

FlashManagerInit ==
  /\ state = "IDLE"
  /\ staging = NoBlocks
  /\ hashAcc = None
  /\ pendingVersion = 0
  /\ target = None
  /\ flashStore = NoBlocks
  /\ job = None

-----------------------------------------------------------------------------
\* Mutant of CheckVersion: any other version passes.
CheckVersionDiffers(version) == version # swVersion

\* VersionManager.check_version
CheckVersion(version) == version > swVersion

\* Mutant of BeginDownload: the staging buffer of the last download is kept.
BeginDownloadKeepsStaging(request, version) ==
  /\ pc = "idle"
  /\ ValidateAddress(request.addr, request.size, request.role)
  /\ CheckVersion(version)
  /\ target' = request
  /\ pendingVersion' = version
  /\ hashAcc' = None
  /\ state' = "DOWNLOADING"
  /\ flashPending' = TRUE
  /\ UNCHANGED <<staging, flashStore, job, activeBank, lastValid, bank,
                 swVersion, hsmVars, pc, bootResult>>

\* begin_download: a rejected request changes nothing.  A new context id is
\* drawn, so bytes of an earlier context are out of reach.
BeginDownload(request, version) ==
  /\ pc = "idle"
  /\ ValidateAddress(request.addr, request.size, request.role)
  /\ CheckVersion(version)
  /\ target' = request
  /\ pendingVersion' = version
  /\ staging' = NoBlocks
  /\ hashAcc' = None
  /\ state' = "DOWNLOADING"
  /\ flashPending' = TRUE
  /\ UNCHANGED <<flashStore, job, activeBank, lastValid, bank, swVersion,
                 hsmVars, pc, bootResult>>

\* CSM.hash_update creates the context at its first chunk.
HashUpdate(data) == (IF hashAcc = None THEN <<>> ELSE hashAcc) \o data

\* transfer_block: the sequence number is a key, not an order.
TransferBlock(seq, data) ==
  /\ pc = "idle"
  /\ state = "DOWNLOADING"
  /\ Len(HashUpdate(data)) <= MaxBytes
  /\ staging' = [staging EXCEPT ![seq] = data]
  /\ hashAcc' = HashUpdate(data)
  /\ UNCHANGED <<state, pendingVersion, target, flashStore, job, nvmVars,
                 hsmVars, pc, bootResult>>

-----------------------------------------------------------------------------
\* Mutant of AbortAndSanitize: flash_pending is left set.
AbortKeepsPending == staging' = NoBlocks /\ UNCHANGED flashPending

\* What every failed verification and a manual abort have in common:
\* FailureHandler.abort_and_sanitize and the caller's cleared buffer.
AbortAndSanitize ==
  /\ staging' = NoBlocks
  /\ flashPending' = FALSE

\* finalize, signature refused or HSM unavailable.
FinalizeRejected(image, sig) ==
  /\ pc = "idle"
  /\ ~SigValid(sig)
  /\ state' = "ABORTED"
  /\ AbortAndSanitize
  /\ UNCHANGED <<hashAcc, pendingVersion, target, flashStore, job, activeBank,
                 lastValid, bank, swVersion, hsmVars, pc, bootResult>>

\* finalize, signature good but no streaming hash: CSMError("no_context")
\* leaves finalize before anything but the state has changed.
FinalizeNoContext(image, sig) ==
  /\ pc = "idle"
  /\ SigValid(sig)
  /\ hashAcc = None
  /\ state' = "VERIFYING"
  /\ UNCHANGED <<staging, hashAcc, pendingVersion, target, flashStore, job,
                 nvmVars, hsmVars, pc, bootResult>>

\* CSM.hash_finish against CSM.compute_hash(full_image): SHA-256 is taken to
\* be injective.
HashMatches(image) == hashAcc # None /\ hashAcc = image

\* finalize, signature good, hash wrong.
FinalizeMismatch(image, sig) ==
  /\ pc = "idle"
  /\ SigValid(sig)
  /\ hashAcc # None
  /\ ~HashMatches(image)
  /\ hashAcc' = None
  /\ state' = "ABORTED"
  /\ AbortAndSanitize
  /\ UNCHANGED <<pendingVersion, target, flashStore, job, activeBank,
                 lastValid, bank, swVersion, hsmVars, pc, bootResult>>

\* _flash_store after the programming loop: staged blocks over what an earlier
\* download left there.
Programmed == [s \in Seqs |-> IF staging[s] = None THEN flashStore[s]
                              ELSE staging[s]]

\* Mutant of FinalizeAccepted: the context is not popped, and the commit has
\* lost the arguments it is to write.
FinalizeForgetsJob(image, sig) ==
  /\ pc = "idle"
  /\ SigValid(sig)
  /\ HashMatches(image)
  /\ flashStore' = Programmed
  /\ state' = "COMMITTING"
  /\ pc' = "commitActive"
  /\ UNCHANGED <<staging, hashAcc, pendingVersion, target, job, nvmVars,
                 hsmVars, bootResult>>

\* finalize, both checks passed: hash_finish has popped the context, the
\* blocks are programmed, and the commit begins.  There is no test of state.
FinalizeAccepted(image, sig) ==
  /\ pc = "idle"
  /\ SigValid(sig)
  /\ HashMatches(image)
  /\ hashAcc' = None
  /\ flashStore' = Programmed
  /\ state' = "COMMITTING"
  /\ job' = [image |-> image, sig |-> sig]
  /\ pc' = "commitActive"
  /\ UNCHANGED <<staging, pendingVersion, target, nvmVars, hsmVars, bootResult>>

-----------------------------------------------------------------------------
\* The commit, one NvM write at a time (pending_bank_hash and
\* pending_bank_signature are written first and never read).
\* Mutant of CommitActive: the version is committed before the bank.
CommitActiveWithVersion ==
  /\ pc = "commitActive"
  /\ activeBank' = Other(activeBank)
  /\ swVersion' = pendingVersion
  /\ pc' = "commitLastValid"
  /\ UNCHANGED <<ramVars, job, flashPending, lastValid, bank, hsmVars,
                 bootResult>>

CommitActive ==
  /\ pc = "commitActive"
  /\ activeBank' = Other(activeBank)
  /\ pc' = "commitLastValid"
  /\ UNCHANGED <<ramVars, job, flashPending, lastValid, bank, swVersion,
                 hsmVars, bootResult>>

\* Mutant of CommitLastValid: the key is not written.
CommitLastValidSkipped ==
  /\ pc = "commitLastValid"
  /\ pc' = "commitBank"
  /\ UNCHANGED <<ramVars, job, nvmVars, hsmVars, bootResult>>

CommitLastValid ==
  /\ pc = "commitLastValid"
  /\ lastValid' = activeBank
  /\ pc' = "commitBank"
  /\ UNCHANGED <<ramVars, job, flashPending, activeBank, bank, swVersion,
                 hsmVars, bootResult>>

\* Mutant of CommitBank: the image goes to the bank that was active before.
CommitBankOther ==
  /\ pc = "commitBank"
  /\ bank' = [bank EXCEPT ![Other(activeBank)] =
                [image |-> job.image, sig |-> job.sig,
                 version |-> pendingVersion]]
  /\ pc' = "commitVersion"
  /\ UNCHANGED <<ramVars, job, flashPending, activeBank, lastValid, swVersion,
                 hsmVars, bootResult>>

CommitBank ==
  /\ pc = "commitBank"
  /\ bank' = [bank EXCEPT ![activeBank] =
                [image |-> job.image, sig |-> job.sig,
                 version |-> pendingVersion]]
  /\ pc' = "commitVersion"
  /\ UNCHANGED <<ramVars, job, flashPending, activeBank, lastValid, swVersion,
                 hsmVars, bootResult>>

\* VersionManager.commit_version: written, not compared again.
CommitVersion ==
  /\ pc = "commitVersion"
  /\ swVersion' = pendingVersion
  /\ pc' = "commitClear"
  /\ UNCHANGED <<ramVars, job, flashPending, activeBank, lastValid, bank,
                 hsmVars, bootResult>>

\* Mutant of CommitClear: the commit ends with flash_pending set.
CommitClearKeepsPending ==
  /\ pc = "commitClear"
  /\ staging' = NoBlocks
  /\ state' = "IDLE"
  /\ job' = None
  /\ pc' = "idle"
  /\ UNCHANGED <<flashPending, hashAcc, pendingVersion, target, flashStore,
                 activeBank, lastValid, bank, swVersion, hsmVars, bootResult>>

\* Another: it ends with the state as it was.
CommitClearKeepsState ==
  /\ pc = "commitClear"
  /\ flashPending' = FALSE
  /\ staging' = NoBlocks
  /\ job' = None
  /\ pc' = "idle"
  /\ UNCHANGED <<state, hashAcc, pendingVersion, target, flashStore,
                 activeBank, lastValid, bank, swVersion, hsmVars, bootResult>>

CommitClear ==
  /\ pc = "commitClear"
  /\ flashPending' = FALSE
  /\ staging' = NoBlocks
  /\ state' = "IDLE"
  /\ job' = None
  /\ pc' = "idle"
  /\ UNCHANGED <<hashAcc, pendingVersion, target, flashStore, activeBank,
                 lastValid, bank, swVersion, hsmVars, bootResult>>

Commit == \/ CommitActive \/ CommitLastValid \/ CommitBank
          \/ CommitVersion \/ CommitClear

-----------------------------------------------------------------------------
\* abort: from any state; the streaming hash is left as it is.
Abort ==
  /\ pc = "idle"
  /\ AbortAndSanitize
  /\ state' = "IDLE"
  /\ UNCHANGED <<hashAcc, pendingVersion, target, flashStore, job, activeBank,
                 lastValid, bank, swVersion, hsmVars, pc, bootResult>>

\* The process dies: every attribute of FlashManager is what __init__ sets.
FlashManagerLost ==
  /\ state' = "IDLE"
  /\ staging' = NoBlocks
  /\ hashAcc' = None
  /\ pendingVersion' = 0
  /\ target' = None
  /\ flashStore' = NoBlocks
  /\ job' = None

FlashManagerNext ==
  \/ \E request \in Requests, version \in Versions :
       BeginDownload(request, version)
  \/ \E seq \in Seqs, data \in Blocks : TransferBlock(seq, data)
  \/ \E image \in Images, sig \in Signatures :
       \/ FinalizeRejected(image, sig)
       \/ FinalizeNoContext(image, sig)
       \/ FinalizeMismatch(image, sig)
       \/ FinalizeAccepted(image, sig)
  \/ Commit
  \/ Abort
=============================================================================
