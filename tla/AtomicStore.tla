----------------------------- MODULE AtomicStore -----------------------------
(***************************************************************************)
(* What sim/nvm.py promises ("atomic write semantics"): the file always    *)
(* holds a complete state the memory has had, a start reads it back, and   *)
(* only a file that cannot be read makes the store an empty one.           *)
(***************************************************************************)
EXTENDS Integers

CONSTANT Blank   \* the contents of an empty store

VARIABLES
  memory,    \* what read() answers
  durable,   \* what the next start finds
  starts,    \* starts of the process
  intact     \* no start has lost the file's contents

storeVars == <<memory, durable, starts, intact>>

Init == memory = Blank /\ durable = Blank /\ starts = 1 /\ intact = TRUE

Assign == UNCHANGED <<durable, starts, intact>>

Save == durable' = memory /\ UNCHANGED <<memory, starts, intact>>

Start ==
  /\ memory' = durable
  /\ starts' = starts + 1
  /\ UNCHANGED <<durable, intact>>

StartUnread ==
  /\ memory' = Blank
  /\ starts' = starts + 1
  /\ intact' = FALSE
  /\ UNCHANGED durable

Next == Assign \/ Save \/ Start \/ StartUnread

Spec == Init /\ [][Next]_storeVars
=============================================================================
