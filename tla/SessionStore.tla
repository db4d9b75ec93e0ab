----------------------------- MODULE SessionStore -----------------------------
(***************************************************************************)
(* The session manager over the NvM file: its counter is a key of a store  *)
(* whose flush can fail and whose process can die at any step.  A call     *)
(* that writes stays in call until its write has returned.  Every start    *)
(* builds the bootloader, which writes the two bank keys if they are not   *)
(* there (api/main.py, build_simulation).                                  *)
(***************************************************************************)
EXTENDS SessionManager

CONSTANTS
  Received,   \* counter values of incoming messages
  MaxStarts   \* bound: starts of the process

ASSUME SessionStoreAssumption == Received \subseteq Int

VARIABLES
  bankKeys,  \* how many of ACTIVE_BANK_KEY, LAST_VALID_BANK_KEY are written
  file, tmp, flush, starts, intact,   \* see NvmFile
  call,      \* the method in progress
  received,  \* the argument of validate_freshness
  fresh      \* history: counters of the calls that returned normally

Nvm == INSTANCE NvmFile WITH
  mem <- [tx |-> txCounter, banks |-> bankKeys],
  Blank <- [tx |-> 0, banks |-> 0],
  Contents <- [tx : Nat, banks : 0..2]

ssVars == <<smVars, bankKeys, file, tmp, flush, starts, intact, call,
            received, fresh>>

Copy == [is : {"absent", "whole", "torn"}, data : [tx : Nat, banks : 0..2]]

SessionStoreTypeOK ==
  /\ SessionManagerTypeOK
  /\ bankKeys \in 0..2
  /\ file \in Copy
  /\ tmp \in Copy
  /\ flush \in {"none", "write", "replace", "done", "failed"}
  /\ starts \in Nat
  /\ intact \in BOOLEAN
  /\ call \in {"down", "start", "none", "create", "validate"}
  /\ received \in Received \cup {None}
  /\ fresh \subseteq Int

SessionStoreInit ==
  /\ SessionManagerInit
  /\ bankKeys = 0
  /\ Nvm!NvmInit
  /\ call = "start"
  /\ received = None
  /\ fresh = {}

Mem(tx, banks) == [tx |-> tx, banks |-> banks]

-----------------------------------------------------------------------------
\* Bootloader.__init__, one missing key after the other ...
WriteBankKey ==
  /\ call = "start"
  /\ bankKeys < 2
  /\ bankKeys' = bankKeys + 1
  /\ UNCHANGED <<smVars, call, received, fresh>>
  /\ Nvm!Put(Mem(txCounter, bankKeys + 1))

\* ... until both are there and the server takes calls ...
Started ==
  /\ call = "start"
  /\ bankKeys = 2
  /\ flush = "none"
  /\ call' = "none"
  /\ UNCHANGED <<smVars, bankKeys, file, tmp, flush, starts, intact, received,
                 fresh>>

\* Mutant of BankKeyWritten: a write that raises does not stop the start.
BankKeyTried ==
  /\ call = "start"
  /\ UNCHANGED <<smVars, bankKeys, received, fresh, call>>
  /\ Nvm!Return("done") \/ Nvm!Return("failed")

\* ... or a write raises out of build_simulation: there is no server.
BankKeyWritten ==
  /\ call = "start"
  /\ UNCHANGED <<smVars, bankKeys, received, fresh>>
  /\ \/ Nvm!Return("done") /\ UNCHANGED call
     \/ Nvm!Return("failed") /\ call' = "down"

-----------------------------------------------------------------------------
\* create_session, up to its write; a full counter raises before any.
CreateCalled ==
  /\ call = "none"
  /\ CreateSession
  /\ UNCHANGED <<bankKeys, received, fresh>>
  /\ \/ /\ ~CounterFull
        /\ Nvm!Put(Mem(txCounter + 1, bankKeys))
        /\ call' = "create"
     \/ /\ CounterFull
        /\ UNCHANGED <<file, tmp, flush, starts, intact, call>>

\* It returns; an OSError leaves the session running as well.
CreateReturns ==
  /\ call = "create"
  /\ call' = "none"
  /\ UNCHANGED <<smVars, bankKeys, received>>
  /\ \/ Nvm!Return("done") /\ fresh' = fresh \cup {txCounter}
     \/ Nvm!Return("failed") /\ UNCHANGED fresh

\* validate_freshness, up to its write.
ValidateCalled(counter) ==
  /\ call = "none"
  /\ StoreCounter(counter)
  /\ UNCHANGED <<bankKeys, fresh>>
  /\ Nvm!Put(Mem(counter, bankKeys))
  /\ call' = "validate"
  /\ received' = counter

\* The message is accepted once the write has returned.
ValidateAccepts ==
  /\ call = "validate"
  /\ idle' = Renewed
  /\ UNCHANGED <<txCounter, bankKeys>>
  /\ Nvm!Return("done")
  /\ fresh' = fresh \cup {received}
  /\ call' = "none"
  /\ received' = None

\* An OSError refuses it; the counter in memory has moved all the same.
ValidateRaises ==
  /\ call = "validate"
  /\ UNCHANGED <<smVars, bankKeys, fresh>>
  /\ Nvm!Return("failed")
  /\ call' = "none"
  /\ received' = None

\* touch, destroy and the clock, between calls.
InMemory ==
  /\ call = "none"
  /\ Touch \/ Destroy \/ Tick
  /\ UNCHANGED <<bankKeys, file, tmp, flush, starts, intact, call, received,
                 fresh>>

\* The tmp file and the rename of the write in progress.
StoreWorks ==
  /\ UNCHANGED <<smVars, bankKeys, call, received, fresh>>
  /\ Nvm!Flushing

\* The process dies and is started again.
ProcessRestart(readable) ==
  LET loaded == IF readable THEN Nvm!Loaded ELSE Mem(0, 0) IN
  /\ idle' = None
  /\ txCounter' = loaded.tx
  /\ bankKeys' = loaded.banks
  /\ Nvm!Restart(readable)
  /\ call' = "start"
  /\ received' = None
  /\ UNCHANGED fresh

SessionStoreNext ==
  \/ WriteBankKey \/ Started \/ BankKeyWritten
  \/ CreateCalled \/ CreateReturns
  \/ \E counter \in Received : ValidateCalled(counter)
  \/ ValidateAccepts \/ ValidateRaises
  \/ InMemory
  \/ StoreWorks
  \/ \E readable \in BOOLEAN : ProcessRestart(readable)

SessionStoreSpec == SessionStoreInit /\ [][SessionStoreNext]_ssVars

-----------------------------------------------------------------------------
\* A counter is accepted once, and only above every counter that a returned
\* validate_freshness or create_session has used, whatever writes fail and
\* wherever the process dies, unless a start took an unreadable file for an
\* empty store.
NoReplay ==
  [][intact /\ ValidateAccepts => \A old \in fresh : old < received]_ssVars

\* What a caller was told is on disk: no counter of a call that returned is
\* above the one the next start would find, even between a memory that has
\* moved and a file that has not.
GrantedIsDurable == intact => \A old \in fresh : old <= file.data.tx

\* The keys of a started server are both on disk as well as in memory, though
\* a start may have been cut between the two writes of Bootloader.__init__.
BankKeysDurable ==
  call \in {"none", "create", "validate"} =>
    bankKeys = 2 /\ file.data.banks = 2

\* The file and the memory under these calls implement AtomicStore.
ImplementsAtomicStore == Nvm!ImplementsAtomicStore
=============================================================================
