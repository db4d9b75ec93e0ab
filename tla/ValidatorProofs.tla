---------------------------- MODULE ValidatorProofs ----------------------------
(***************************************************************************)
(* The two pure checks against their meaning: the address check for every  *)
(* memory map, the chain check for every chain and time; and from there    *)
(* what MCValidators asks of each of its probes.                           *)
(***************************************************************************)
EXTENDS MCValidators, SequenceTheorems, TLAPS

\* The entries of the table are typed.
LEMMA RegionTypes ==
  \A i \in DOMAIN Regions :
    i \in Int /\ Regions[i].start \in Int /\ Regions[i].end \in Int
<1> SUFFICES ASSUME NEW i \in DOMAIN Regions
             PROVE  i \in Int /\ Regions[i].start \in Int /\ Regions[i].end \in Int
  OBVIOUS
<1>1. Regions \in Seq([start : Int, end : Int, roles : SUBSET Roles])
  BY RegionsAssumption DEF RegionsAssumption
<1>2. i \in 1..Len(Regions) /\ Len(Regions) \in Nat
  BY <1>1
<1>3. Regions[i] \in [start : Int, end : Int, roles : SUBSET Roles]
  BY <1>1, <1>2, ElementOfSeq
<1> QED BY <1>2, <1>3

\* Since regions are disjoint the first region that contains an address is the
\* only one.
LEMMA OneRegion ==
  ASSUME NEW address \in Int,
         NEW i \in Containing(address), NEW j \in Containing(address)
  PROVE  i = j
<1>1. /\ i \in DOMAIN Regions /\ j \in DOMAIN Regions
      /\ Regions[i].start <= address /\ address < Regions[i].end
      /\ Regions[j].start <= address /\ address < Regions[j].end
  BY DEF Containing, Within
<1>2. i # j => Regions[i].end <= Regions[j].start \/ Regions[j].end <= Regions[i].start
  BY <1>1, RegionsAssumption DEF RegionsAssumption
<1> QED BY <1>1, <1>2, RegionTypes

\* The loop of _validate_address accepts exactly the ranges that lie in one
\* region open to the role.
THEOREM AcceptsOneRegion ==
  ASSUME NEW address \in Int, NEW size \in Int, NEW role
  PROVE  ValidateAddress(address, size, role)
           <=> RangeInOneRegion(address, size, role)
<1>1. ASSUME ValidateAddress(address, size, role)
      PROVE  RangeInOneRegion(address, size, role)
  BY <1>1 DEF ValidateAddress, RangeInOneRegion, Containing
<1>2. ASSUME RangeInOneRegion(address, size, role)
      PROVE  ValidateAddress(address, size, role)
  <2>1. PICK i \in Containing(address) : /\ address + size <= Regions[i].end
                                         /\ role \in Regions[i].roles
    BY <1>2 DEF RangeInOneRegion, Containing
  <2>2. \A j \in Containing(address) : i <= j
    <3>1. \A j \in Containing(address) : i = j
      BY <2>1, OneRegion
    <3>2. i \in Int
      BY RegionTypes DEF Containing
    <3> QED BY <3>1, <3>2
  <2> QED BY <2>1, <2>2 DEF ValidateAddress
<1> QED BY <1>1, <1>2

\* Every byte of an accepted range lies in a region open to the role.
THEOREM AcceptedIsAllowed ==
  ASSUME NEW address \in Int, NEW size \in Int, NEW role,
         ValidateAddress(address, size, role)
  PROVE  \A a \in address..(address + size - 1) : ByteAllowed(a, role)
<1>1. PICK i \in DOMAIN Regions : /\ Regions[i].start <= address
                                  /\ role \in Regions[i].roles
                                  /\ address + size <= Regions[i].end
  BY DEF ValidateAddress, Containing, Within
<1>2. ASSUME NEW a \in address..(address + size - 1)
      PROVE  Within(Regions[i], a)
  BY <1>1, <1>2, RegionTypes DEF Within
<1> QED BY <1>1, <1>2 DEF ByteAllowed

-----------------------------------------------------------------------------
\* The loop of validate_chain, which stops at the first bad certificate and
\* asks the last one for the anchor, accepts exactly the good chains.
THEOREM ChainAcceptedExactly ==
  ASSUME NEW certs \in Seq(Cert), NEW time \in Int
  PROVE  ValidateChain(certs, time) = "valid" <=> ChainGood(certs, time)
<1>1. \A i \in DOMAIN certs : certs[i].until \in Int
  <2> SUFFICES ASSUME NEW i \in DOMAIN certs PROVE certs[i].until \in Int
    OBVIOUS
  <2>1. i \in 1..Len(certs)
    OBVIOUS
  <2>2. certs[i] \in Cert
    BY <2>1, ElementOfSeq
  <2> QED BY <2>2 DEF Cert
<1>2. Bad(certs, time) = {} <=>
        \A i \in DOMAIN certs : time <= certs[i].until /\ ~IsRevoked(certs[i])
  BY <1>1 DEF Bad, IsExpired
<1>3. ValidateChain(certs, time) = "valid" <=>
        Bad(certs, time) = {} /\ certs # <<>> /\ Anchored(certs)
  BY DEF ValidateChain
<1> QED BY <1>2, <1>3 DEF ChainGood, Anchored

-----------------------------------------------------------------------------
\* The probes are what the two checks are made for.
ProbesTyped ==
  /\ request.addr \in Int /\ request.size \in Int
  /\ chain \in Seq(Cert)
  /\ now \in Int

\* Tuples are sequences.
LEMMA ShortSequences ==
  ASSUME NEW S, NEW c \in S, NEW d \in S
  PROVE  <<>> \in Seq(S) /\ <<c>> \in Seq(S) /\ <<c, d>> \in Seq(S)
  OBVIOUS

\* Certificates of these names, one after the other, are chains.
LEMMA ChainsTyped == Chains \subseteq Seq(Cert)
<1>1. Certs \subseteq Cert
  BY ProbeAssumption DEF ProbeAssumption, Certs, Cert, MCNames
<1>2. \A kind \in Kinds : BuildTestChain(kind, 1) \in Seq(Cert)
  <2> SUFFICES ASSUME NEW kind \in Kinds PROVE BuildTestChain(kind, 1) \in Seq(Cert)
    OBVIOUS
  <2> DEFINE root == IF kind = "untrusted" THEN "UNKNOWN_CA" ELSE TRUSTED_ROOT
             leafCert == [subject |-> IF kind = "revoked" THEN "REVOKED_TESTER"
                                      ELSE "TESTER_MFG",
                          issuer |-> root,
                          until |-> IF kind = "expired" THEN 1 - 1 ELSE 1 + 1,
                          revoked |-> kind = "revoked", trusted |-> FALSE]
             rootCert == [subject |-> root, issuer |-> root, until |-> 1 + 24,
                          revoked |-> FALSE, trusted |-> kind # "untrusted"]
  <2>1. root \in Names /\ {"TESTER_MFG", "REVOKED_TESTER"} \subseteq Names
    BY ProbeAssumption, PkiAssumption DEF ProbeAssumption, PkiAssumption, MCNames
  <2>2. leafCert \in Cert /\ rootCert \in Cert
    BY <2>1 DEF Cert
  <2>3. BuildTestChain(kind, 1) = <<leafCert, rootCert>>
    BY DEF BuildTestChain
  <2> HIDE DEF leafCert, rootCert
  <2> QED BY <2>2, <2>3, ShortSequences
<1>3. {<<c>> : c \in Certs} \subseteq Seq(Cert)
  BY <1>1, ShortSequences
<1>4. ASSUME NEW p \in Certs \X Certs PROVE p \in Seq(Cert)
  <2>1. p = <<p[1], p[2]>> /\ p[1] \in Cert /\ p[2] \in Cert
    BY <1>1
  <2> QED BY <2>1, ShortSequences
<1>5. <<>> \in Seq(Cert)
  OBVIOUS
<1> QED BY <1>2, <1>3, <1>4, <1>5 DEF Chains

\* What is probed stays in the sets it was drawn from.
LEMMA ProbesAlwaysTyped == Spec => []ProbesTyped
<1>1. Init => ProbesTyped
  BY DEF Init, ProbesTyped, FirstRequest
<1>2. ProbesTyped /\ [Next]_<<request, chain, now>> => ProbesTyped'
  <2> SUFFICES ASSUME ProbesTyped, [Next]_<<request, chain, now>> PROVE ProbesTyped'
    OBVIOUS
  <2>1. CASE PickRequest
    <3>1. \A r \in AllRequests : r.addr \in Int /\ r.size \in Int
      BY DEF AllRequests
    <3> QED BY <2>1, <3>1 DEF ProbesTyped, PickRequest
  <2>2. CASE PickChain
    BY <2>2, ChainsTyped DEF ProbesTyped, PickChain
  <2>3. CASE TimePasses
    BY <2>3 DEF ProbesTyped, TimePasses
  <2>4. CASE UNCHANGED <<request, chain, now>>
    BY <2>4 DEF ProbesTyped
  <2> QED BY <2>1, <2>2, <2>3, <2>4 DEF Next
<1> QED BY <1>1, <1>2, PTL DEF Spec

\* _validate_address admits no range of which a byte is closed to the role.
THEOREM AdmitsOnlyAllowed == Spec => []AcceptedBytesAllowed
<1>1. ProbesTyped => AcceptedBytesAllowed
  BY AcceptedIsAllowed DEF ProbesTyped, AcceptedBytesAllowed, Accepted
<1> QED BY <1>1, ProbesAlwaysTyped, PTL

\* Nor does it refuse a range that one region open to the role contains.
THEOREM AdmitsExactly == Spec => []AcceptsExactly
<1>1. ProbesTyped => AcceptsExactly
  BY AcceptsOneRegion DEF ProbesTyped, AcceptsExactly, Accepted
<1> QED BY <1>1, ProbesAlwaysTyped, PTL

\* validate_chain accepts the good chains, as time passes, and no others.
THEOREM ValidatesExactly == Spec => []ChainValidExactly
<1>1. ProbesTyped => ChainValidExactly
  BY ChainAcceptedExactly DEF ProbesTyped, ChainValidExactly
<1> QED BY <1>1, ProbesAlwaysTyped, PTL
=============================================================================
