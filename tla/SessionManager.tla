---------------------------- MODULE SessionManager ----------------------------
(***************************************************************************)
(* sim/session_manager.py: one diagnostic session with an inactivity       *)
(* timeout, and the transaction counter that guards against replays.  The  *)
(* session lives in the process, the counter in NvM.  Time is counted in   *)
(* ticks; Timeout ticks make SESSION_TIMEOUT_S.  A method changes the      *)
(* memory of the NvM store only; SessionStore adds the file.               *)
(***************************************************************************)
EXTENDS Integers

CONSTANTS
  None,
  Timeout,    \* SESSION_TIMEOUT_S in ticks
  CounterMax  \* 2^63 - 1, the limit of nvm.increment_counter

ASSUME SessionManagerAssumption ==
  /\ Timeout \in Nat \ {0}
  /\ CounterMax \in Nat
  /\ None \notin Int

VARIABLES
  idle,      \* ticks since _last_activity, up to Timeout; None: no session
  txCounter  \* NvM TX_COUNTER_KEY

smVars == <<idle, txCounter>>

SessionManagerTypeOK ==
  /\ idle \in 0..Timeout \cup {None}
  /\ txCounter \in Nat

SessionManagerInit == idle = None /\ txCounter = 0

\* Mutant of IsActive: a session never expires.
IsActiveForever == idle # None

\* is_active, and the answer of validate_active.
IsActive == idle # None /\ idle < Timeout

-----------------------------------------------------------------------------
\* increment_counter: refuses at the limit, raising NvMError.
CounterFull == txCounter >= CounterMax

\* create_session: the timestamps are set before the counter is tried, so a
\* refused increment leaves a running session behind.
CreateSession ==
  /\ idle' = 0
  /\ txCounter' = IF CounterFull THEN txCounter ELSE txCounter + 1

\* Mutant of IsFresh: the stored counter itself passes.
IsFreshOrEqual(counter) == counter >= txCounter

IsFresh(counter) == counter > txCounter

\* validate_freshness: the received counter is stored as it is ...
StoreCounter(counter) ==
  /\ IsFresh(counter)
  /\ txCounter' = counter
  /\ UNCHANGED idle

\* ... and an existing session, expired or not, counts as active again.
Renewed == IF idle = None THEN None ELSE 0

\* touch makes a session out of none.
Touch == idle' = 0 /\ UNCHANGED txCounter

Destroy == idle' = None /\ UNCHANGED txCounter

\* Time passes.
Tick ==
  /\ IsActive
  /\ idle' = idle + 1
  /\ UNCHANGED txCounter
=============================================================================
