-------------------------------- MODULE MCDCM --------------------------------
(***************************************************************************)
(* Instances of DCM for TLC: two roles, a region only one of them may      *)
(* program and one open to both.                                           *)
(***************************************************************************)
EXTENDS DCM

MCRoles == {"manufacturing", "service"}
MCRegions == <<
  [start |-> 0, end |-> 2, roles |-> {"manufacturing"}],
  [start |-> 2, end |-> 4, roles |-> MCRoles] >>

\* A download into the protected region as each role.
ProtectedRequests == {[addr |-> 0, size |-> 1, role |-> r] : r \in MCRoles}

\* Empty and non-empty payloads; the images a tester has signatures for.
MCBlocks == {<<>>, <<"x">>}
BothImages == {<<>>, <<"x">>}
OneByteBlock == {<<"x">>}
=============================================================================
