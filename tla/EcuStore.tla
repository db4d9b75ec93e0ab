------------------------------- MODULE EcuStore -------------------------------
(***************************************************************************)
(* What the flash manager, the bootloader and the recovery manager share:  *)
(* the keys of the NvM store, the HSM's signing key, and the call stack of *)
(* the single asyncio thread.  A call runs to its end without giving up    *)
(* the thread, but every NvM write is flushed on its own (sim/nvm.py,      *)
(* write), so the process can die between two writes of one call: pc names *)
(* the next NvM write of the call in progress.                             *)
(***************************************************************************)
EXTENDS Integers, Sequences

CONSTANTS
  Bytes,      \* the alphabet of firmware data
  None,       \* Python's None / an absent NvM key
  MaxKeyGen   \* bound: process starts modelled

VARIABLES
  \* NvM (nvm_store.json): survives the process
  flashPending,   \* FLASH_PENDING_KEY
  activeBank,     \* ACTIVE_BANK_KEY
  lastValid,      \* LAST_VALID_BANK_KEY
  bank,           \* "bank_A", "bank_B": None or [image, sig, version]; the
                  \* version is the model's own label, the code stores none
  swVersion,      \* SW_VERSION_KEY
  \* HSM: lives and dies with the process
  keyGen,         \* which process start generated oem_signing_key
  hsmFail,        \* HSM._fail_mode
  \* the thread
  pc,             \* "idle", or the next NvM write of the running call
  bootResult      \* what the last boot() answered, "none" before the first

nvmVars == <<flashPending, activeBank, lastValid, bank, swVersion>>
hsmVars == <<keyGen, hsmFail>>

Banks == {"A", "B"}
DefaultActiveBank == "A"
Other(b) == IF b = "A" THEN "B" ELSE "A"

\* A signature is named by the key generation under which it verifies over
\* its image; 0 is one that verifies under none.
Signatures == 0..keyGen

Image == [image : Seq(Bytes), sig : Nat, version : Int]
Job   == [image : Seq(Bytes), sig : Nat]

ASSUME EcuStoreAssumption ==
  /\ MaxKeyGen \in Nat \ {0}
  /\ None \notin Seq(Bytes) \cup Image \cup Job

\* Mutant of SigValid: any signature passes while the HSM is available.
SigPresent(sig) == ~hsmFail

\* CSM.verify_signature answers True: the HSM is available and the signature
\* was made with the key it holds now.
SigValid(sig) == ~hsmFail /\ sig = keyGen

CommitSteps == {"commitActive", "commitLastValid", "commitBank",
                "commitVersion", "commitClear"}
BootSteps   == {"bootClear", "bootVerify"}
PC          == {"idle", "recoverClear"} \cup CommitSteps \cup BootSteps

EcuStoreTypeOK ==
  /\ flashPending \in BOOLEAN
  /\ activeBank \in Banks
  /\ lastValid \in Banks
  /\ bank \in [Banks -> Image \cup {None}]
  /\ swVersion \in Int
  /\ keyGen \in 1..MaxKeyGen
  /\ hsmFail \in BOOLEAN
  /\ pc \in PC
  /\ bootResult \in {"none", "ok", "fail", "error"}

\* A fresh store: Bootloader.__init__ writes the default bank into both keys,
\* build_simulation generates the first key.
EcuStoreInit ==
  /\ flashPending = FALSE
  /\ activeBank = DefaultActiveBank
  /\ lastValid = DefaultActiveBank
  /\ bank = [b \in Banks |-> None]
  /\ swVersion = 0
  /\ keyGen = 1
  /\ hsmFail = FALSE
  /\ pc = "idle"
  /\ bootResult = "none"
=============================================================================
