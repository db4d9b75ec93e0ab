------------------------------ MODULE Bootloader ------------------------------
(***************************************************************************)
(* sim/bootloader.py (boot, reached through trigger_reset by every ECU     *)
(* reset) and sim/recovery_manager.py (recover).  Both work on the shared  *)
(* NvM keys only.  A boot is split at its NvM writes; where flash_pending  *)
(* is set, _recover_pending runs first.                                    *)
(***************************************************************************)
EXTENDS EcuStore

\* Mutant of FallBack: the other bank is taken, not the last valid one.
FallBackToOther == flashPending /\ activeBank' = Other(activeBank)

\* _recover_pending and recover: the bank the device falls back to.
FallBack ==
  /\ flashPending
  /\ activeBank' = lastValid

\* boot with flash_pending set: first write of _recover_pending.
BootRecover ==
  /\ pc = "idle"
  /\ FallBack
  /\ pc' = "bootClear"
  /\ UNCHANGED <<flashPending, lastValid, bank, swVersion, hsmVars, bootResult>>

\* Second write of _recover_pending.
BootClear ==
  /\ pc = "bootClear"
  /\ flashPending' = FALSE
  /\ pc' = "bootVerify"
  /\ UNCHANGED <<activeBank, lastValid, bank, swVersion, hsmVars, bootResult>>

\* boot without flash_pending: straight to the verification.
BootDirect ==
  /\ pc = "idle"
  /\ ~flashPending
  /\ pc' = "bootVerify"
  /\ UNCHANGED <<nvmVars, hsmVars, bootResult>>

\* The active bank holds an image whose signature verifies now.
Bootable(b) == bank[b] # None /\ SigValid(bank[b].sig)

BootSucceeds ==
  /\ pc = "bootVerify"
  /\ Bootable(activeBank)
  /\ lastValid' = activeBank
  /\ bootResult' = "ok"
  /\ pc' = "idle"
  /\ UNCHANGED <<flashPending, activeBank, bank, swVersion, hsmVars>>

\* No image, or a bad signature.  The other bank is not tried.
BootFails ==
  /\ pc = "bootVerify"
  /\ ~Bootable(activeBank)
  /\ bank[activeBank] = None \/ ~hsmFail
  /\ bootResult' = "fail"
  /\ pc' = "idle"
  /\ UNCHANGED <<nvmVars, hsmVars>>

\* The HSM is unavailable: CSMError leaves boot without an answer.
BootErrs ==
  /\ pc = "bootVerify"
  /\ bank[activeBank] # None
  /\ hsmFail
  /\ bootResult' = "error"
  /\ pc' = "idle"
  /\ UNCHANGED <<nvmVars, hsmVars>>

\* RecoveryManager.recover does nothing unless flash_pending is set.
Recover ==
  /\ pc = "idle"
  /\ FallBack
  /\ pc' = "recoverClear"
  /\ UNCHANGED <<flashPending, lastValid, bank, swVersion, hsmVars, bootResult>>

RecoverClear ==
  /\ pc = "recoverClear"
  /\ flashPending' = FALSE
  /\ pc' = "idle"
  /\ UNCHANGED <<activeBank, lastValid, bank, swVersion, hsmVars, bootResult>>

BootStep == \/ BootRecover \/ BootClear \/ BootDirect
            \/ BootSucceeds \/ BootFails \/ BootErrs

BootloaderNext == BootStep \/ Recover \/ RecoverClear
=============================================================================
