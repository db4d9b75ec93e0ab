----------------------------- MODULE MCValidators -----------------------------
(***************************************************************************)
(* The two pure checks of the program against their meaning.  A probe is a *)
(* download request, judged by the table of sim/config.py in units of      *)
(* 32 KiB (BOOTLOADER, APPLICATION, CALIBRATION, a gap, HSM), or a chain   *)
(* of certificates at a time; a chain is looked at again as time passes.   *)
(***************************************************************************)
EXTENDS MemoryMap, PkiChain

MCRoles == {"manufacturing", "service", "engineering", "development"}
MCRegions == <<
  [start |-> 0,  end |-> 2,  roles |-> {"manufacturing"}],
  [start |-> 2,  end |-> 34, roles |-> MCRoles],
  [start |-> 34, end |-> 36, roles |-> {"engineering", "manufacturing"}],
  [start |-> 40, end |-> 42, roles |-> {}] >>
MCNames == {"OEM_ROOT_CA", "UNKNOWN_CA", "TESTER_MFG", "REVOKED_TESTER"}
MCRoot == "OEM_ROOT_CA"
Kinds == {"valid", "expired", "revoked", "untrusted"}

\* The certificates probed and the test chains use these names.
ASSUME ProbeAssumption == MCNames \subseteq Names

VARIABLES
  request,  \* the download judged
  chain,    \* the chain judged
  now       \* time.time(), in hours

AllRequests == [addr : -1..43, size : {-1, 0, 1, 2, 3, 32, 33}, role : Roles]
FirstRequest == [addr |-> 0, size |-> 0, role |-> "service"]

Certs == [subject : {"TESTER_MFG", "UNKNOWN_CA"}, issuer : {"OEM_ROOT_CA", "UNKNOWN_CA"},
          until : {1, 3}, revoked : BOOLEAN, trusted : BOOLEAN]
Chains == {<<>>} \cup {<<c>> : c \in Certs} \cup (Certs \X Certs)
            \cup {BuildTestChain(kind, 1) : kind \in Kinds}

Init == request = FirstRequest /\ chain = <<>> /\ now = 0

PickRequest ==
  /\ chain = <<>> /\ now = 0
  /\ request' \in AllRequests
  /\ UNCHANGED <<chain, now>>

PickChain ==
  /\ request = FirstRequest
  /\ chain' \in Chains
  /\ now' = 0
  /\ UNCHANGED request

TimePasses == request = FirstRequest /\ now < 4 /\ now' = now + 1 /\ UNCHANGED <<request, chain>>

Next == PickRequest \/ PickChain \/ TimePasses
Spec == Init /\ [][Next]_<<request, chain, now>>

Accepted == ValidateAddress(request.addr, request.size, request.role)

\* _validate_address admits a range only if each of its bytes is in a region
\* open to the role (a single region decides about the whole range).
AcceptedBytesAllowed ==
  Accepted => \A a \in request.addr..(request.addr + request.size - 1) :
                ByteAllowed(a, request.role)

\* It admits exactly the ranges inside one region: stopping at the first match
\* of the table loses nothing.
AcceptsExactly ==
  Accepted <=> RangeInOneRegion(request.addr, request.size, request.role)

\* validate_chain accepts exactly the chains of which every certificate is in
\* force and not revoked and the last one is anchored: stopping at the first
\* bad certificate and asking only the root for the anchor loses nothing.
ChainValidExactly == ValidateChain(chain, now) = "valid" <=> ChainGood(chain, now)
=============================================================================
