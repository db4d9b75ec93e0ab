-------------------------------- MODULE MCRest --------------------------------
(***************************************************************************)
(* An instance of RestApi for TLC: one tester role, a download the memory  *)
(* map admits and the one VTC-06 expects to be refused.                    *)
(***************************************************************************)
EXTENDS RestApi, TLC

MCRoles == {"manufacturing", "service"}
MCRegions == <<
  [start |-> 0, end |-> 2, roles |-> {"manufacturing"}],
  [start |-> 2, end |-> 4, roles |-> MCRoles] >>
MCOpen   == [addr |-> 2, size |-> 1, role |-> "manufacturing"]
MCClosed == [addr |-> 0, size |-> 1, role |-> "service"]
MCRequests == {MCOpen, MCClosed}

MCGood   == <<"x">>
MCBad    == <<"y">>
MCBlocks == {MCGood, MCBad}
MCImages == {MCGood}

\* The slots are alike.
SlotSymmetry == Permutations(Slots)
=============================================================================
