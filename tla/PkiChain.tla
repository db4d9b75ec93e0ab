------------------------------ MODULE PkiChain ------------------------------
(***************************************************************************)
(* sim/pki_manager.py: the validation of a certificate chain, from leaf to *)
(* root.  A pure operator of the chain and the clock.  valid_from, the     *)
(* signatures and the link between a certificate and the next are not      *)
(* looked at by the code and not modelled.                                 *)
(***************************************************************************)
EXTENDS Integers, Sequences

CONSTANTS
  Names,        \* subjects and issuers
  TRUSTED_ROOT, \* "OEM_ROOT_CA"
  REVOKED       \* PKIManager._REVOKED

ASSUME PkiAssumption == TRUSTED_ROOT \in Names /\ REVOKED \subseteq Names

Cert == [subject : Names, issuer : Names, until : Int,
         revoked : BOOLEAN, trusted : BOOLEAN]

IsExpired(cert, now) == cert.until < now

IsRevoked(cert) == cert.subject \in REVOKED \/ cert.revoked

\* The certificates the loop would stop at, and the one it stops at.
Bad(chain, now) == {i \in DOMAIN chain : IsExpired(chain[i], now) \/ IsRevoked(chain[i])}
FirstBad(chain, now) ==
  chain[CHOOSE i \in Bad(chain, now) : \A j \in Bad(chain, now) : i <= j]

\* Mutant of Anchored: the leaf is asked.
LeafAnchored(chain) == chain[1].trusted \/ chain[1].issuer = TRUSTED_ROOT

\* The last certificate is the trust anchor or names it as its issuer.
Anchored(chain) ==
  LET root == chain[Len(chain)] IN root.trusted \/ root.issuer = TRUSTED_ROOT

\* validate_chain: True, or the reason of the PKIError; an empty chain runs
\* into chain[-1].  Expiry is looked at before revocation.
ValidateChain(chain, now) ==
  IF Bad(chain, now) # {}
  THEN IF IsExpired(FirstBad(chain, now), now) THEN "expired" ELSE "revoked"
  ELSE IF chain = <<>> THEN "IndexError"
  ELSE IF Anchored(chain) THEN "valid" ELSE "untrusted"

\* build_test_chain, in hours: the leaf is good for one, the root for a day.
BuildTestChain(kind, now) ==
  LET root == IF kind = "untrusted" THEN "UNKNOWN_CA" ELSE TRUSTED_ROOT IN
  << [subject |-> IF kind = "revoked" THEN "REVOKED_TESTER" ELSE "TESTER_MFG",
      issuer |-> root,
      until |-> IF kind = "expired" THEN now - 1 ELSE now + 1,
      revoked |-> kind = "revoked", trusted |-> FALSE],
     [subject |-> root, issuer |-> root, until |-> now + 24, revoked |-> FALSE,
      trusted |-> kind # "untrusted"] >>

-----------------------------------------------------------------------------
\* What a chain is accepted for, stated without the loop: every certificate is
\* in force and not revoked, and the last one is anchored.
ChainGood(chain, now) ==
  /\ chain # <<>>
  /\ \A i \in DOMAIN chain : now <= chain[i].until /\ ~IsRevoked(chain[i])
  /\ \/ chain[Len(chain)].trusted
     \/ chain[Len(chain)].issuer = TRUSTED_ROOT
=============================================================================
