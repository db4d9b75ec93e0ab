------------------------------ MODULE MemoryMap ------------------------------
(***************************************************************************)
(* The memory boundary check of the flash manager                          *)
(* (sim/flash_manager.py, _validate_address; the table is                  *)
(* sim/config.py, MEMORY_MAP).  A pure operator: no state of its own.      *)
(***************************************************************************)
EXTENDS Integers, Sequences

CONSTANTS
  Regions,   \* MEMORY_MAP in its iteration order: a sequence of
             \* [start, end, roles]; end is exclusive
  Roles      \* the values of FlashRole

ASSUME RegionsAssumption ==
  /\ Regions \in Seq([start : Int, end : Int, roles : SUBSET Roles])
  \* No address lies in two regions, so the order of the table is immaterial.
  /\ \A i, j \in DOMAIN Regions :
       i # j => \/ Regions[i].end <= Regions[j].start
                \/ Regions[j].end <= Regions[i].start

Within(region, address) == region.start <= address /\ address < region.end

\* The regions whose span contains the address.
Containing(address) == {i \in DOMAIN Regions : Within(Regions[i], address)}

\* Mutants of ValidateAddress: the end is off by one; the size is not added.
ValidateAddressOffByOne(address, size, role) ==
  \E i \in Containing(address) :
    /\ \A j \in Containing(address) : i <= j
    /\ role \in Regions[i].roles
    /\ address + size <= Regions[i].end + 1

ValidateStartOnly(address, size, role) ==
  \E i \in Containing(address) : role \in Regions[i].roles

(* _validate_address: the loop stops at the first region of the table that *)
(* contains the start address and judges the whole range by that region.   *)
ValidateAddress(address, size, role) ==
  \E i \in Containing(address) :
    /\ \A j \in Containing(address) : i <= j
    /\ role \in Regions[i].roles
    /\ address + size <= Regions[i].end

-----------------------------------------------------------------------------
\* What the table means, stated without the loop: one byte, and a whole range
\* inside one region.  The check below compares the algorithm with these.
ByteAllowed(address, role) ==
  \E i \in DOMAIN Regions :
    Within(Regions[i], address) /\ role \in Regions[i].roles

RangeInOneRegion(address, size, role) ==
  \E i \in DOMAIN Regions :
    /\ Within(Regions[i], address)
    /\ address + size <= Regions[i].end
    /\ role \in Regions[i].roles
=============================================================================
