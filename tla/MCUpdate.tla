------------------------------- MODULE MCUpdate -------------------------------
(***************************************************************************)
(* Instances of UpdateSystem for TLC.  The memory map keeps the regions    *)
(* and roles of sim/config.py with the addresses scaled down.              *)
(***************************************************************************)
EXTENDS UpdateSystem

MCRoles == {"manufacturing", "service", "engineering", "development"}
MCRegions == <<
  [start |-> 0, end |-> 2, roles |-> {"manufacturing"}],
  [start |-> 2, end |-> 4, roles |-> MCRoles] >>

\* One download the map admits and one it refuses (a service role aiming at
\* the bootloader).
MCRequests == {[addr |-> 2, size |-> 1, role |-> "service"],
               [addr |-> 0, size |-> 1, role |-> "service"]}

OneBlock  == {<<"x">>}
TwoBlocks == {<<"x">>, <<"y">>}
OneImage  == {<<"x">>}
TwoImages == {<<"x">>, <<"y">>}
=============================================================================
