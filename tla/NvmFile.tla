------------------------------- MODULE NvmFile -------------------------------
(***************************************************************************)
(* sim/nvm.py: the store in memory and its JSON file.  write changes the   *)
(* memory, writes the whole store to a .tmp file and renames it over the   *)
(* old one.  Each of the steps can fail with an OSError, and the process   *)
(* can die before, between and inside them.                                *)
(***************************************************************************)
EXTENDS Integers

CONSTANTS
  Blank,      \* the contents of an empty store
  Contents,   \* what can be written
  MaxStarts   \* bound: starts of the process

VARIABLES
  mem,      \* _store
  file,     \* nvm_store.json: absent, torn (not JSON) or whole, and its data
  tmp,      \* nvm_store.tmp, the same
  flush,    \* where the running write is
  starts,   \* starts of the process
  intact    \* history: no start has taken a file with data for an empty one

fileVars == <<mem, file, tmp, flush, starts, intact>>

Absent   == [is |-> "absent", data |-> Blank]
Torn     == [is |-> "torn", data |-> Blank]
Whole(m) == [is |-> "whole", data |-> m]

NvmInit ==
  /\ mem = Blank
  /\ file = Absent
  /\ tmp = Absent
  /\ flush = "none"
  /\ starts = 1
  /\ intact = TRUE

\* write, increment_counter and reset_to_defaults: the memory comes first.
Put(contents) ==
  /\ flush = "none"
  /\ mem' = contents
  /\ flush' = "write"
  /\ UNCHANGED <<file, tmp, starts, intact>>

\* Mutant of WriteTmp: the store is written in place, truncating the file.
WriteInPlace ==
  /\ flush = "write"
  /\ file' = Torn
  /\ tmp' = Whole(mem)
  /\ flush' = "replace"
  /\ UNCHANGED <<mem, starts, intact>>

WriteTmp ==
  /\ flush = "write"
  /\ tmp' = Whole(mem)
  /\ flush' = "replace"
  /\ UNCHANGED <<mem, file, starts, intact>>

\* os.replace
Replace ==
  /\ flush = "replace"
  /\ file' = tmp
  /\ tmp' = Absent
  /\ flush' = "done"
  /\ UNCHANGED <<mem, starts, intact>>

\* A write that is cut leaves the old .tmp or a torn one.
LeftOver == IF flush = "write" THEN {tmp, Torn} ELSE {tmp}

\* Mutant of FlushFails: flush swallows the OSError.
FlushFailsSilently ==
  /\ flush \in {"write", "replace"}
  /\ tmp' \in LeftOver
  /\ flush' = "done"
  /\ UNCHANGED <<mem, file, starts, intact>>

\* OSError: the exception leaves write; the memory keeps the new value.
FlushFails ==
  /\ flush \in {"write", "replace"}
  /\ tmp' \in LeftOver
  /\ flush' = "failed"
  /\ UNCHANGED <<mem, file, starts, intact>>

\* write returns, or raises, to its caller.
Return(outcome) ==
  /\ flush = outcome
  /\ flush' = "none"
  /\ UNCHANGED <<mem, file, tmp, starts, intact>>

\* _load: an absent file, and one that is not JSON, is an empty store.
Loaded == file.data

\* The process dies, at any step, and is started again.  readable: _load could
\* read the file; an OSError is swallowed and makes an empty store.
Restart(readable) ==
  /\ starts < MaxStarts
  /\ starts' = starts + 1
  /\ mem' = IF readable THEN Loaded ELSE Blank
  /\ intact' = (intact /\ (readable \/ file.is = "absent"))
  /\ flush' = "none"
  /\ tmp' \in LeftOver
  /\ UNCHANGED file

Flushing == WriteTmp \/ Replace \/ FlushFails

NvmNext ==
  \/ \E contents \in Contents : Put(contents)
  \/ Flushing
  \/ \E outcome \in {"done", "failed"} : Return(outcome)
  \/ \E readable \in BOOLEAN : Restart(readable)

NvmSpec == NvmInit /\ [][NvmNext]_fileVars

-----------------------------------------------------------------------------
\* The store implements AtomicStore, wherever the process dies and whichever
\* write fails: the file takes a complete state at the rename, or none.
Store == INSTANCE AtomicStore WITH memory <- mem, durable <- file.data

ImplementsAtomicStore == Store!Spec
=============================================================================
