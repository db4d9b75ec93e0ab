------------------------------- MODULE ABUpdate -------------------------------
(***************************************************************************)
(* What the update path promises: an A/B update is one step.  The new      *)
(* image appears in the inactive bank, that bank becomes the active one    *)
(* and the version counter rises, all at once; nothing else ever changes.  *)
(***************************************************************************)
EXTENDS Integers

CONSTANTS Images, Versions, None

VARIABLES active, slot, version

Banks == {"A", "B"}
Inactive == IF active = "A" THEN "B" ELSE "A"

Init ==
  /\ active = "A"
  /\ slot = [b \in Banks |-> None]
  /\ version = 0

Install(image, v) ==
  /\ v > version
  /\ slot' = [slot EXCEPT ![Inactive] = [image |-> image, version |-> v]]
  /\ active' = Inactive
  /\ version' = v

Next == \E image \in Images, v \in Versions : Install(image, v)

Spec == Init /\ [][Next]_<<active, slot, version>>
=============================================================================
