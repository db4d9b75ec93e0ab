-------------------------- MODULE SessionStoreProofs --------------------------
(***************************************************************************)
(* The replay protection over the NvM file, for every timeout, counter     *)
(* limit, set of received counters and number of starts; and the file      *)
(* under it, for every set of contents and any number of starts.           *)
(***************************************************************************)
EXTENDS SessionStore, TLAPS

\* NoReplay is not inductive: between the acceptance of one counter and the
\* comparison of the next lie failed writes and restarts.  What carries it is
\* that the file is never behind an acceptance and never ahead of the memory.
FileFollows ==
  /\ flush = "replace" => tmp.data.tx = txCounter
  /\ flush = "done" => file.data.tx = txCounter
  /\ file.is = "absent" => file.data = Mem(0, 0)
  /\ flush = "replace" => tmp.is = "whole"
  /\ intact => file.data.tx <= txCounter

\* A call that writes is in its write, with a counter above all before.
CallInWrite ==
  /\ call \in {"create", "validate"} => flush # "none"
  /\ call \in {"none", "down"} => flush = "none"
  /\ call = "validate" => /\ received = txCounter
                          /\ intact => \A old \in fresh : old < received

Inv == SessionStoreTypeOK /\ FileFollows /\ GrantedIsDurable /\ CallInWrite

USE SessionManagerAssumption, SessionStoreAssumption

\* An ECU that was never switched on has granted nothing.
LEMMA InitInv == SessionStoreInit => Inv
  BY DEF SessionStoreInit, SessionManagerInit, Inv, SessionStoreTypeOK,
     SessionManagerTypeOK, FileFollows, GrantedIsDurable, CallInWrite, Copy, Mem,
     Nvm!NvmInit, Nvm!Absent

\* Every step keeps the type.
LEMMA TypeStep == Inv /\ [SessionStoreNext]_ssVars => SessionStoreTypeOK'
<1> SUFFICES ASSUME Inv, [SessionStoreNext]_ssVars PROVE SessionStoreTypeOK'
  OBVIOUS
<1> USE DEF Inv, SessionStoreTypeOK, SessionManagerTypeOK, Copy, Mem
<1>1. CASE WriteBankKey
  BY <1>1 DEF WriteBankKey, Nvm!Put, smVars
<1>2. CASE Started
  BY <1>2 DEF Started, smVars
<1>3. CASE BankKeyWritten
  BY <1>3 DEF BankKeyWritten, Nvm!Return, smVars
<1>4. CASE CreateCalled
  BY <1>4 DEF CreateCalled, CreateSession, CounterFull, Nvm!Put
<1>5. CASE CreateReturns
  <2>1. fresh' \subseteq Int
    <3>1. fresh' = fresh \/ fresh' = fresh \cup {txCounter}
      BY <1>5 DEF CreateReturns
    <3>2. txCounter \in Int /\ fresh \subseteq Int
      OBVIOUS
    <3> HIDE DEF Inv
    <3> QED BY <3>1, <3>2
  <2>2. /\ UNCHANGED <<smVars, bankKeys, received, file, tmp, starts, intact>>
        /\ flush' = "none" /\ call' = "none"
    BY <1>5 DEF CreateReturns, Nvm!Return
  <2> QED BY <2>1, <2>2 DEF smVars
<1>6. ASSUME NEW counter \in Received, ValidateCalled(counter)
      PROVE SessionStoreTypeOK'
  BY <1>6 DEF ValidateCalled, StoreCounter, IsFresh, Nvm!Put
<1>7. CASE ValidateAccepts
  BY <1>7 DEF ValidateAccepts, Renewed, Nvm!Return, CallInWrite
<1>8. CASE ValidateRaises
  BY <1>8 DEF ValidateRaises, Nvm!Return, smVars
<1>9. CASE InMemory
  BY <1>9 DEF InMemory, Touch, Destroy, Tick, IsActive
<1>10. CASE StoreWorks
  <2>1. UNCHANGED <<smVars, bankKeys, call, received, fresh, starts, intact>>
    BY <1>10 DEF StoreWorks, Nvm!Flushing, Nvm!WriteTmp, Nvm!Replace,
       Nvm!FlushFails
  <2>2. CASE Nvm!WriteTmp
    <3>1. Nvm!Whole(Mem(txCounter, bankKeys)) \in Copy
      BY DEF Nvm!Whole
    <3> QED BY <2>1, <2>2, <3>1 DEF Nvm!WriteTmp, smVars
  <2>3. CASE Nvm!Replace
    <3>1. Nvm!Absent \in Copy
      BY DEF Nvm!Absent
    <3> QED BY <2>1, <2>3, <3>1 DEF Nvm!Replace, smVars
  <2>4. CASE Nvm!FlushFails
    <3>1. Nvm!Torn \in Copy
      BY DEF Nvm!Torn
    <3> QED BY <2>1, <2>4, <3>1 DEF Nvm!FlushFails, Nvm!LeftOver, smVars
  <2> QED BY <1>10, <2>2, <2>3, <2>4 DEF StoreWorks, Nvm!Flushing
<1>11. ASSUME NEW readable \in BOOLEAN, ProcessRestart(readable)
       PROVE SessionStoreTypeOK'
  BY <1>11 DEF ProcessRestart, Nvm!Restart, Nvm!Loaded, Nvm!LeftOver, Nvm!Torn
<1>12. CASE UNCHANGED ssVars
  BY <1>12 DEF ssVars, smVars
<1> QED
  BY <1>1, <1>2, <1>3, <1>4, <1>5, <1>6, <1>7, <1>8, <1>9, <1>10, <1>11, <1>12
  DEF SessionStoreNext

\* Every step keeps the file between the acceptances and the memory.
LEMMA FileStep == Inv /\ [SessionStoreNext]_ssVars => FileFollows'
<1> SUFFICES ASSUME Inv, [SessionStoreNext]_ssVars PROVE FileFollows'
  OBVIOUS
<1>t. /\ txCounter \in Nat /\ file.data.tx \in Nat
      /\ FileFollows
  BY DEF Inv, SessionStoreTypeOK, SessionManagerTypeOK, Copy
<1> USE <1>t DEF FileFollows
<1>1. CASE WriteBankKey
  BY <1>1 DEF WriteBankKey, Nvm!Put, smVars
<1>2. CASE Started
  BY <1>2 DEF Started, smVars
<1>3. CASE BankKeyWritten
  BY <1>3 DEF BankKeyWritten, Nvm!Return, smVars
<1>4. CASE CreateCalled
  <2>1. CASE CounterFull
    BY <1>4, <2>1 DEF CreateCalled, CreateSession
  <2>2. CASE ~CounterFull
    BY <1>4, <2>2 DEF CreateCalled, CreateSession, Nvm!Put
  <2> QED BY <2>1, <2>2
<1>5. CASE CreateReturns
  BY <1>5 DEF CreateReturns, Nvm!Return, smVars
<1>6. ASSUME NEW counter \in Received, ValidateCalled(counter)
      PROVE FileFollows'
  <2>1. /\ counter > txCounter /\ counter \in Int /\ txCounter' = counter
        /\ UNCHANGED <<file, tmp, intact>> /\ flush' = "write"
    BY <1>6 DEF ValidateCalled, StoreCounter, IsFresh, Nvm!Put
  <2> QED BY <2>1
<1>7. CASE ValidateAccepts
  BY <1>7 DEF ValidateAccepts, Nvm!Return
<1>8. CASE ValidateRaises
  BY <1>8 DEF ValidateRaises, Nvm!Return, smVars
<1>9. CASE InMemory
  BY <1>9 DEF InMemory, Touch, Destroy, Tick
<1>10. CASE StoreWorks
  <2>1. CASE Nvm!WriteTmp
    BY <1>10, <2>1 DEF StoreWorks, Nvm!WriteTmp, Nvm!Whole, smVars
  <2>2. CASE Nvm!Replace
    BY <1>10, <2>2 DEF StoreWorks, Nvm!Replace, smVars
  <2>3. CASE Nvm!FlushFails
    BY <1>10, <2>3 DEF StoreWorks, Nvm!FlushFails, smVars
  <2> QED BY <1>10, <2>1, <2>2, <2>3 DEF StoreWorks, Nvm!Flushing
<1>11. ASSUME NEW readable \in BOOLEAN, ProcessRestart(readable)
       PROVE FileFollows'
  <2>1. flush' = "none" /\ file' = file
    BY <1>11 DEF ProcessRestart, Nvm!Restart
  <2>2. CASE readable
    <3>1. txCounter' = file.data.tx
      BY <1>11, <2>2 DEF ProcessRestart, Nvm!Loaded
    <3> QED BY <2>1, <3>1
  <2>3. CASE ~readable
    <3>1. file.is = "absent" => file.data.tx = 0
      BY DEF Mem
    <3>2. txCounter' = 0 /\ (intact' => file.is = "absent")
      BY <1>11, <2>3 DEF ProcessRestart, Nvm!Restart, Mem
    <3> QED BY <2>1, <3>1, <3>2
  <2> QED BY <2>2, <2>3
<1>12. CASE UNCHANGED ssVars
  BY <1>12 DEF ssVars, smVars
<1> QED
  BY <1>1, <1>2, <1>3, <1>4, <1>5, <1>6, <1>7, <1>8, <1>9, <1>10, <1>11, <1>12
  DEF SessionStoreNext

\* Every step keeps what was granted on disk: it is only there that a call
\* returns, and the file only moves up to the memory.
LEMMA GrantStep == Inv /\ [SessionStoreNext]_ssVars => GrantedIsDurable'
<1> SUFFICES ASSUME Inv, [SessionStoreNext]_ssVars, intact',
                    NEW old \in fresh'
             PROVE old <= (file.data.tx)'
  BY DEF GrantedIsDurable
<1>t. /\ txCounter \in Nat /\ file.data.tx \in Nat /\ fresh \subseteq Int
      /\ FileFollows /\ CallInWrite
      /\ intact => \A c \in fresh : c <= file.data.tx
  BY DEF Inv, SessionStoreTypeOK, SessionManagerTypeOK, Copy, GrantedIsDurable
<1>1. CASE fresh' = fresh /\ file' = file /\ (intact' => intact)
  BY <1>t, <1>1
<1>2. CASE CreateReturns
  BY <1>t, <1>1, <1>2 DEF CreateReturns, Nvm!Return, FileFollows
<1>3. CASE ValidateAccepts
  BY <1>t, <1>3 DEF ValidateAccepts, Nvm!Return, FileFollows, CallInWrite
<1>4. CASE StoreWorks
  <2>1. CASE Nvm!Replace
    <3>1. fresh' = fresh /\ file' = tmp /\ intact' = intact /\ flush = "replace"
      BY <1>4, <2>1 DEF StoreWorks, Nvm!Replace
    <3> QED BY <1>t, <3>1 DEF FileFollows
  <2>2. CASE ~Nvm!Replace
    BY <1>4, <2>2, <1>1 DEF StoreWorks, Nvm!Flushing, Nvm!WriteTmp, Nvm!FlushFails
  <2> QED BY <2>1, <2>2
<1>5. ASSUME NEW readable \in BOOLEAN, ProcessRestart(readable)
      PROVE fresh' = fresh /\ file' = file /\ (intact' => intact)
  BY <1>5 DEF ProcessRestart, Nvm!Restart
<1>6. CASE \/ WriteBankKey \/ Started \/ BankKeyWritten \/ CreateCalled
           \/ ValidateRaises \/ InMemory \/ UNCHANGED ssVars
           \/ \E counter \in Received : ValidateCalled(counter)
  BY <1>1, <1>6 DEF WriteBankKey, Started, BankKeyWritten, CreateCalled,
     ValidateRaises, InMemory, ValidateCalled, Nvm!Put, Nvm!Return, ssVars
<1> QED
  BY <1>1, <1>2, <1>3, <1>4, <1>5, <1>6 DEF SessionStoreNext

\* Every step keeps the calls in their writes.
LEMMA CallStep == Inv /\ [SessionStoreNext]_ssVars => CallInWrite'
<1> SUFFICES ASSUME Inv, [SessionStoreNext]_ssVars PROVE CallInWrite'
  OBVIOUS
<1> USE DEF Inv, SessionStoreTypeOK, SessionManagerTypeOK, CallInWrite
<1>1. CASE WriteBankKey
  BY <1>1 DEF WriteBankKey, smVars
<1>2. CASE Started
  BY <1>2 DEF Started, smVars
<1>3. CASE BankKeyWritten
  BY <1>3 DEF BankKeyWritten, Nvm!Return, smVars
<1>4. CASE CreateCalled
  BY <1>4 DEF CreateCalled, Nvm!Put
<1>5. CASE CreateReturns
  BY <1>5 DEF CreateReturns, Nvm!Return, smVars
<1>6. ASSUME NEW counter \in Received, ValidateCalled(counter)
      PROVE CallInWrite'
  BY <1>6 DEF ValidateCalled, StoreCounter, IsFresh, Nvm!Put, FileFollows,
     GrantedIsDurable, Copy
<1>7. CASE ValidateAccepts
  BY <1>7 DEF ValidateAccepts, Nvm!Return
<1>8. CASE ValidateRaises
  BY <1>8 DEF ValidateRaises, Nvm!Return, smVars
<1>9. CASE InMemory
  BY <1>9 DEF InMemory, Touch, Destroy, Tick
<1>10. CASE StoreWorks
  BY <1>10 DEF StoreWorks, Nvm!Flushing, Nvm!WriteTmp, Nvm!Replace,
     Nvm!FlushFails, smVars
<1>11. ASSUME NEW readable \in BOOLEAN, ProcessRestart(readable)
       PROVE CallInWrite'
  BY <1>11 DEF ProcessRestart
<1>12. CASE UNCHANGED ssVars
  BY <1>12 DEF ssVars, smVars
<1> QED
  BY <1>1, <1>2, <1>3, <1>4, <1>5, <1>6, <1>7, <1>8, <1>9, <1>10, <1>11, <1>12
  DEF SessionStoreNext

\* What the theorems on the session are read off.
LEMMA AlwaysInv == SessionStoreSpec => []Inv
<1>1. Inv /\ [SessionStoreNext]_ssVars => Inv'
  BY TypeStep, FileStep, GrantStep, CallStep DEF Inv
<1> QED
  BY InitInv, <1>1, PTL DEF SessionStoreSpec

\* The variables of the session, the store and the call keep their types.
THEOREM SessionTypes == SessionStoreSpec => []SessionStoreTypeOK
<1>1. Inv => SessionStoreTypeOK
  BY DEF Inv
<1> QED
  BY AlwaysInv, <1>1, PTL

\* What a caller of the session manager was told is never lost by a restart,
\* unless the file could not be read.
THEOREM GrantsAreDurable == SessionStoreSpec => []GrantedIsDurable
<1>1. Inv => GrantedIsDurable
  BY DEF Inv
<1> QED
  BY AlwaysInv, <1>1, PTL

\* validate_freshness accepts no counter twice, across failed writes, crashes
\* and restarts, unless the file could not be read.
THEOREM ReplayRefused == SessionStoreSpec => NoReplay
<1>1. Inv /\ [SessionStoreNext]_ssVars
        => [intact /\ ValidateAccepts => \A old \in fresh : old < received]_ssVars
  BY DEF Inv, CallInWrite, ValidateAccepts
<1> QED
  BY AlwaysInv, <1>1, PTL DEF SessionStoreSpec, NoReplay

-----------------------------------------------------------------------------
\* A .tmp that is about to be renamed holds the memory as it is.
TmpIsCurrent ==
  flush = "replace" => tmp = Nvm!Whole(Mem(txCounter, bankKeys))

\* One step of the file that is written: the copy stays what the caller has.
LEMMA TmpStep ==
  Inv /\ TmpIsCurrent /\ [SessionStoreNext]_ssVars => TmpIsCurrent'
<1> SUFFICES ASSUME Inv, TmpIsCurrent, [SessionStoreNext]_ssVars
             PROVE TmpIsCurrent'
  OBVIOUS
<1> USE DEF TmpIsCurrent, Mem, Nvm!Whole
<1>1. CASE \/ WriteBankKey \/ BankKeyWritten \/ CreateReturns
           \/ \E counter \in Received : ValidateCalled(counter)
           \/ ValidateAccepts \/ ValidateRaises
           \/ \E readable \in BOOLEAN : ProcessRestart(readable)
  BY <1>1 DEF WriteBankKey, BankKeyWritten, CreateReturns, ValidateCalled,
     ValidateAccepts, ValidateRaises, ProcessRestart, Nvm!Put, Nvm!Return,
     Nvm!Restart
<1>2. CASE CreateCalled
  BY <1>2 DEF CreateCalled, CreateSession, Nvm!Put
<1>3. CASE StoreWorks
  BY <1>3 DEF StoreWorks, Nvm!Flushing, Nvm!WriteTmp, Nvm!Replace, Nvm!FlushFails,
     smVars
<1>4. CASE InMemory
  BY <1>4 DEF InMemory, Touch, Destroy, Tick, Inv, CallInWrite
<1>5. CASE Started \/ UNCHANGED ssVars
  BY <1>5 DEF Started, ssVars, smVars
<1> QED
  BY <1>1, <1>2, <1>3, <1>4, <1>5 DEF SessionStoreNext

\* Every step of the calls is one of the abstract store, or none.
LEMMA StoreStep ==
  Inv /\ TmpIsCurrent /\ [SessionStoreNext]_ssVars
    => [Nvm!Store!Next]_(Nvm!Store!storeVars)
<1> SUFFICES ASSUME Inv, TmpIsCurrent, [SessionStoreNext]_ssVars
             PROVE Nvm!Store!Next \/ UNCHANGED Nvm!Store!storeVars
  OBVIOUS
<1> USE DEF TmpIsCurrent, Mem, Nvm!Store!Next, Nvm!Store!storeVars
<1>1. CASE \/ WriteBankKey \/ BankKeyWritten \/ CreateCalled \/ CreateReturns
           \/ \E counter \in Received : ValidateCalled(counter)
           \/ ValidateAccepts \/ ValidateRaises \/ Started \/ InMemory
           \/ UNCHANGED ssVars
  <2>1. UNCHANGED <<file, starts, intact>>
    BY <1>1 DEF WriteBankKey, Started, BankKeyWritten, CreateCalled, CreateReturns,
       ValidateCalled, ValidateAccepts, ValidateRaises, InMemory, Nvm!Put,
       Nvm!Return, ssVars
  <2> QED BY <2>1 DEF Nvm!Store!Assign
<1>2. CASE StoreWorks
  BY <1>2 DEF StoreWorks, Nvm!Flushing, Nvm!WriteTmp, Nvm!Replace, Nvm!FlushFails,
     Nvm!Whole, Nvm!Store!Save, smVars
<1>3. ASSUME NEW readable \in BOOLEAN, ProcessRestart(readable)
      PROVE Nvm!Store!Start \/ Nvm!Store!StartUnread
  <2>1. /\ file' = file /\ starts' = starts + 1
        /\ intact' = (intact /\ (readable \/ file.is = "absent"))
    BY <1>3 DEF ProcessRestart, Nvm!Restart
  <2>2. file.data = [tx |-> file.data.tx, banks |-> file.data.banks]
    BY DEF Inv, SessionStoreTypeOK, Copy
  <2>3. file.is = "absent" => file.data = [tx |-> 0, banks |-> 0]
    BY DEF Inv, FileFollows
  <2>4. intact \in BOOLEAN
    BY DEF Inv, SessionStoreTypeOK
  <2>5. CASE readable
    BY <1>3, <2>1, <2>2, <2>4, <2>5 DEF ProcessRestart, Nvm!Loaded, Nvm!Store!Start
  <2>6. CASE ~readable
    <3>1. txCounter' = 0 /\ bankKeys' = 0
      BY <1>3, <2>6 DEF ProcessRestart
    <3>2. CASE file.is = "absent"
      BY <2>1, <2>3, <2>4, <2>6, <3>1, <3>2 DEF Nvm!Store!Start
    <3>3. CASE file.is # "absent"
      BY <2>1, <2>6, <3>1, <3>3 DEF Nvm!Store!StartUnread
    <3> QED BY <3>2, <3>3
  <2> QED BY <2>5, <2>6
<1> QED
  BY <1>1, <1>2, <1>3 DEF SessionStoreNext

\* Under the session manager's calls and the start's, too, the file always
\* holds a complete state the memory has had.
THEOREM CallsKeepStoreAtomic == SessionStoreSpec => ImplementsAtomicStore
<1>1. SessionStoreInit => TmpIsCurrent /\ Nvm!Store!Init
  BY DEF SessionStoreInit, SessionManagerInit, TmpIsCurrent, Nvm!NvmInit,
     Nvm!Absent, Nvm!Store!Init
<1>2. SessionStoreSpec => []TmpIsCurrent
  BY <1>1, AlwaysInv, TmpStep, PTL DEF SessionStoreSpec
<1> QED
  BY <1>1, <1>2, AlwaysInv, StoreStep, PTL
  DEF SessionStoreSpec, ImplementsAtomicStore, Nvm!ImplementsAtomicStore,
      Nvm!Store!Spec

-----------------------------------------------------------------------------
\* The default keys reach the file one write after the other: a start that has
\* both in memory and no write under way has both on disk.
BanksFollow ==
  /\ flush = "replace" => tmp.data.banks = bankKeys
  /\ flush = "done" => file.data.banks = bankKeys
  /\ call = "start" /\ flush = "none" /\ bankKeys = 2 => file.data.banks = 2
  /\ BankKeysDurable

\* One step of session and store.
LEMMA BanksStep == BanksFollow /\ [SessionStoreNext]_ssVars => BanksFollow'
<1> SUFFICES ASSUME BanksFollow, [SessionStoreNext]_ssVars PROVE BanksFollow'
  OBVIOUS
<1> USE DEF BanksFollow, BankKeysDurable
<1>1. CASE WriteBankKey
  BY <1>1 DEF WriteBankKey, Nvm!Put
<1>2. CASE Started
  BY <1>2 DEF Started
<1>3. CASE BankKeyWritten
  BY <1>3 DEF BankKeyWritten, Nvm!Return
<1>4. CASE CreateCalled
  BY <1>4 DEF CreateCalled, Nvm!Put
<1>5. CASE CreateReturns
  BY <1>5 DEF CreateReturns, Nvm!Return
<1>6. ASSUME NEW counter \in Received, ValidateCalled(counter)
      PROVE BanksFollow'
  BY <1>6 DEF ValidateCalled, Nvm!Put
<1>7. CASE ValidateAccepts \/ ValidateRaises
  BY <1>7 DEF ValidateAccepts, ValidateRaises, Nvm!Return
<1>8. CASE InMemory
  BY <1>8 DEF InMemory
<1>9. CASE StoreWorks
  BY <1>9 DEF StoreWorks, Nvm!Flushing, Nvm!WriteTmp, Nvm!Replace, Nvm!FlushFails,
     Nvm!Whole, Mem
<1>10. ASSUME NEW readable \in BOOLEAN, ProcessRestart(readable)
       PROVE BanksFollow'
  BY <1>10 DEF ProcessRestart, Nvm!Restart, Nvm!Loaded, Mem
<1>11. CASE UNCHANGED ssVars
  BY <1>11 DEF ssVars
<1> QED
  BY <1>1, <1>2, <1>3, <1>4, <1>5, <1>6, <1>7, <1>8, <1>9, <1>10, <1>11
  DEF SessionStoreNext

\* A server that takes calls has both bank keys on disk, wherever earlier
\* starts were cut and whichever of their writes failed.
THEOREM BankKeysAlwaysDurable == SessionStoreSpec => []BankKeysDurable
<1>1. SessionStoreInit => BanksFollow
  BY DEF SessionStoreInit, BanksFollow, BankKeysDurable, Nvm!NvmInit
<1>2. BanksFollow => BankKeysDurable
  BY DEF BanksFollow
<1> QED BY <1>1, <1>2, BanksStep, PTL DEF SessionStoreSpec

-----------------------------------------------------------------------------
(* The file by itself, whoever calls nvm.py and whatever it writes: mem is *)
(* its memory, the other variables are those of the module above.          *)
CONSTANTS Blank, Contents
VARIABLE mem

File == INSTANCE NvmFile

\* What carries the refinement: a file that is not whole holds nothing, and a
\* .tmp that is about to be renamed is complete and current.
CopyIsCurrent ==
  /\ flush = "replace" => tmp = File!Whole(mem)
  /\ file.is = "absent" => file.data = Blank
  /\ intact \in BOOLEAN

\* The same of the file by itself, at the start ...
LEMMA InitTmp == File!NvmInit => CopyIsCurrent
  BY DEF File!NvmInit, CopyIsCurrent, File!Absent

\* ... and in one step.
LEMMA NextTmp == CopyIsCurrent /\ [File!NvmNext]_(File!fileVars) => CopyIsCurrent'
<1> SUFFICES ASSUME CopyIsCurrent, [File!NvmNext]_(File!fileVars) PROVE CopyIsCurrent'
  OBVIOUS
<1> USE DEF CopyIsCurrent
<1>1. ASSUME NEW contents, File!Put(contents) PROVE CopyIsCurrent'
  BY <1>1 DEF File!Put
<1>2. CASE File!WriteTmp
  BY <1>2 DEF File!WriteTmp, File!Whole
<1>3. CASE File!Replace
  BY <1>3 DEF File!Replace, File!Whole
<1>4. CASE File!FlushFails
  BY <1>4 DEF File!FlushFails
<1>5. ASSUME NEW outcome \in {"done", "failed"}, File!Return(outcome)
      PROVE CopyIsCurrent'
  BY <1>5 DEF File!Return
<1>6. ASSUME NEW readable \in BOOLEAN, File!Restart(readable) PROVE CopyIsCurrent'
  BY <1>6 DEF File!Restart
<1>7. CASE UNCHANGED File!fileVars
  BY <1>7 DEF File!fileVars, File!Whole
<1> QED
  BY <1>1, <1>2, <1>3, <1>4, <1>5, <1>6, <1>7 DEF File!NvmNext, File!Flushing

\* The file starts as an empty atomic store ...
LEMMA InitRefines == File!NvmInit => File!Store!Init
  BY DEF File!NvmInit, File!Store!Init, File!Absent

\* ... and each of its steps is one of the atomic store or invisible.
LEMMA StepRefines ==
  CopyIsCurrent /\ [File!NvmNext]_(File!fileVars)
    => [File!Store!Next]_(File!Store!storeVars)
<1> SUFFICES ASSUME CopyIsCurrent, [File!NvmNext]_(File!fileVars)
             PROVE File!Store!Next \/ UNCHANGED File!Store!storeVars
  OBVIOUS
<1> USE DEF CopyIsCurrent, File!Store!storeVars
<1>1. ASSUME NEW contents, File!Put(contents) PROVE File!Store!Assign
  BY <1>1 DEF File!Put, File!Store!Assign
<1>2. CASE File!WriteTmp
  BY <1>2 DEF File!WriteTmp
<1>3. CASE File!Replace
  BY <1>3 DEF File!Replace, File!Whole, File!Store!Next, File!Store!Save
<1>4. CASE File!FlushFails
  BY <1>4 DEF File!FlushFails
<1>5. ASSUME NEW outcome \in {"done", "failed"}, File!Return(outcome)
      PROVE UNCHANGED File!Store!storeVars
  BY <1>5 DEF File!Return
<1>6. ASSUME NEW readable \in BOOLEAN, File!Restart(readable)
      PROVE File!Store!Start \/ File!Store!StartUnread
  <2>1. CASE readable \/ file.is = "absent"
    BY <1>6, <2>1 DEF File!Restart, File!Loaded, File!Store!Start
  <2>2. CASE ~(readable \/ file.is = "absent")
    BY <1>6, <2>2 DEF File!Restart, File!Store!StartUnread
  <2> QED BY <2>1, <2>2
<1>7. CASE UNCHANGED File!fileVars
  BY <1>7 DEF File!fileVars
<1> QED
  BY <1>1, <1>2, <1>3, <1>4, <1>5, <1>6, <1>7
  DEF File!NvmNext, File!Flushing, File!Store!Next

\* nvm.py keeps what its docstring promises: whichever write fails and wherever
\* the process dies, the file holds a complete state the memory has had, and a
\* start reads back that state or, when it cannot, an empty one.
THEOREM FileIsAtomicStore == File!NvmSpec => File!ImplementsAtomicStore
<1>1. File!NvmSpec => []CopyIsCurrent
  BY InitTmp, NextTmp, PTL DEF File!NvmSpec
<1> QED
  BY <1>1, InitRefines, StepRefines, PTL
  DEF File!NvmSpec, File!ImplementsAtomicStore, File!Store!Spec
=============================================================================
