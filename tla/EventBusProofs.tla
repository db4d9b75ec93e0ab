---------------------------- MODULE EventBusProofs ----------------------------
(***************************************************************************)
(* The broadcasts of the event bus for every number of clients and of      *)
(* requests.                                                               *)
(***************************************************************************)
EXTENDS EventBus, FiniteSetTheorems, WellFoundedInduction, TLAPS

-----------------------------------------------------------------------------
(* Induction, over a set of naturals instead of a predicate.               *)

\* A set of naturals with 0 and with every successor is the set of all of them.
LEMMA SetInduction ==
  ASSUME NEW T \in SUBSET Nat, 0 \in T, \A n \in Nat : n \in T => n + 1 \in T
  PROVE  T = Nat
<1> DEFINE Below == OpToRel(<, Nat)
<1> SUFFICES ASSUME Nat \ T # {} PROVE FALSE
  OBVIOUS
<1>1. IsWellFoundedOn(Below, Nat)
  BY NatLessThanWellFounded
<1>2. PICK n \in Nat \ T : \A m \in Nat \ T : <<m, n>> \notin Below
  <2> HIDE DEF Below
  <2> QED BY <1>1, WFMin
<1>3. \A m \in Nat : m < n => <<m, n>> \in Below
  BY DEF OpToRel
<1>4. n # 0
  OBVIOUS
<1>5. n - 1 \in Nat /\ n - 1 < n /\ (n - 1) + 1 = n
  BY <1>4
<1>6. n - 1 \in T
  BY <1>2, <1>3, <1>5
<1> QED BY <1>2, <1>5, <1>6

-----------------------------------------------------------------------------
(* What list.remove leaves of the list.                                    *)

\* One entry more of the list that is filtered.
Keep(shorter, entry, clients) ==
  IF entry \in clients THEN shorter ELSE Append(shorter, entry)

\* f[n] is what is kept of the first n entries.
Keeps(f, clients, n) ==
  f = [i \in 0..n |-> IF i = 0 THEN <<>>
                      ELSE Keep(f[i - 1], connections[i], clients)]

\* The recursion of Without has a solution.
LEMMA KeepsExists ==
  ASSUME NEW clients, NEW n \in Nat
  PROVE  \E f : Keeps(f, clients, n)
<1> DEFINE T == {m \in Nat : \E f : Keeps(f, clients, m)}
<1>1. 0 \in T
  <2> DEFINE f == [i \in 0..0 |-> <<>>]
  <2>1. f = [i \in 0..0 |-> IF i = 0 THEN <<>>
                            ELSE Keep(f[i - 1], connections[i], clients)]
    OBVIOUS
  <2> HIDE DEF f
  <2>2. Keeps(f, clients, 0)
    BY <2>1 DEF Keeps
  <2> QED BY <2>2
<1>2. ASSUME NEW m \in Nat, m \in T PROVE m + 1 \in T
  <2>1. PICK f : Keeps(f, clients, m)
    BY <1>2
  <2> DEFINE g == [i \in 0..(m + 1) |->
                     IF i <= m THEN f[i]
                     ELSE Keep(f[m], connections[m + 1], clients)]
  <2>2. ASSUME NEW i \in 0..(m + 1)
        PROVE  g[i] = IF i = 0 THEN <<>>
                      ELSE Keep(g[i - 1], connections[i], clients)
    <3>1. CASE i = 0
      BY <2>1, <3>1 DEF Keeps
    <3>2. CASE i \in 1..m
      <4>1. f[i] = Keep(f[i - 1], connections[i], clients)
        BY <2>1, <3>2 DEF Keeps
      <4>2. g[i] = f[i] /\ g[i - 1] = f[i - 1]
        BY <3>2
      <4> QED BY <3>2, <4>1, <4>2
    <3>3. CASE i = m + 1
      <4>1. g[i] = Keep(f[m], connections[m + 1], clients)
        BY <3>3
      <4>2. g[i - 1] = f[m]
        BY <3>3
      <4> QED BY <3>3, <4>1, <4>2
    <3> QED BY <3>1, <3>2, <3>3
  <2>3. g = [i \in 0..(m + 1) |-> g[i]]
    OBVIOUS
  <2> HIDE DEF g
  <2>4. Keeps(g, clients, m + 1)
    BY <2>2, <2>3 DEF Keeps
  <2> QED BY <2>4
<1>3. T = Nat
  <2> HIDE DEF T
  <2>1. T \in SUBSET Nat
    BY DEF T
  <2> QED BY <1>1, <1>2, <2>1, SetInduction
<1> QED BY <1>3

\* Without is what is kept of all entries.
LEMMA WithoutKeeps ==
  ASSUME NEW clients, connections \in Seq(Clients)
  PROVE  \E f : Keeps(f, clients, Len(connections))
                /\ Without(clients) = f[Len(connections)]
<1> DEFINE f == CHOOSE f : Keeps(f, clients, Len(connections))
<1>1. Keeps(f, clients, Len(connections))
  BY KeepsExists
<1>2. Without(clients) = f[Len(connections)]
  BY DEF Without, Keeps, Keep
<1> QED BY <1>1, <1>2

Distinct(s) == \A i, j \in DOMAIN s : s[i] = s[j] => i = j

\* kept is what remains of the first n entries: entries only move to the front,
\* exactly the given clients are missing, and nobody is there twice.
Remains(kept, n, clients) ==
  /\ kept \in Seq(Clients)
  /\ Len(kept) <= n
  /\ \A j \in DOMAIN kept :
       \E i \in j..n : connections[i] = kept[j] /\ connections[i] \notin clients
  /\ \A i \in 1..n :
       connections[i] \notin clients => \E j \in DOMAIN kept : kept[j] = connections[i]
  /\ Distinct(connections) => Distinct(kept)
  /\ (\A i \in 1..n : connections[i] \notin clients)
       => Len(kept) = n /\ \A i \in 1..n : kept[i] = connections[i]

\* It is so for one entry more.
LEMMA RemainsStep ==
  ASSUME connections \in Seq(Clients), NEW clients, NEW kept, NEW n \in Nat,
         n + 1 <= Len(connections), Remains(kept, n, clients)
  PROVE  Remains(Keep(kept, connections[n + 1], clients), n + 1, clients)
<1> DEFINE entry == connections[n + 1]
           more == Keep(kept, entry, clients)
<1>1. kept \in Seq(Clients) /\ Len(kept) \in Nat /\ Len(kept) <= n
      /\ DOMAIN kept = 1..Len(kept) /\ entry \in Clients
      /\ DOMAIN connections = 1..Len(connections) /\ n + 1 \in DOMAIN connections
      /\ Len(connections) \in Nat
  BY DEF Remains
<1>2. CASE entry \in clients
  <2>1. more = kept
    BY <1>2 DEF Keep
  <2>2. \A j \in DOMAIN kept : j..n \subseteq j..(n + 1)
    BY <1>1
  <2>3. \A j \in DOMAIN kept : \E i \in j..(n + 1) :
          connections[i] = kept[j] /\ connections[i] \notin clients
    BY <2>2 DEF Remains
  <2>4. \A i \in 1..(n + 1) : connections[i] \notin clients => i \in 1..n
    BY <1>2
  <2>5. ~\A i \in 1..(n + 1) : connections[i] \notin clients
    BY <1>2
  <2>6. Len(kept) <= n + 1
    BY <1>1
  <2>7. \A i \in 1..(n + 1) : connections[i] \notin clients =>
          \E j \in DOMAIN kept : kept[j] = connections[i]
    BY <2>4 DEF Remains
  <2>8. Distinct(connections) => Distinct(kept)
    BY DEF Remains
  <2>9. Remains(kept, n + 1, clients)
    BY <1>1, <2>3, <2>5, <2>6, <2>7, <2>8 DEF Remains
  <2> QED BY <2>1, <2>9
<1>3. CASE entry \notin clients
  <2>1. more = Append(kept, entry)
    BY <1>3 DEF Keep
  <2> DEFINE last == Len(kept) + 1
  <2>2. /\ more \in Seq(Clients) /\ Len(more) = last /\ last <= n + 1
        /\ DOMAIN more = 1..last
        /\ \A j \in DOMAIN kept : more[j] = kept[j]
        /\ more[last] = entry
    BY <1>1, <2>1
  <2> HIDE DEF entry, more
  <2>3. ASSUME NEW j \in DOMAIN more
        PROVE  \E i \in j..(n + 1) :
                 connections[i] = more[j] /\ connections[i] \notin clients
    <3>1. CASE j = last
      <4>1. n + 1 \in j..(n + 1)
        BY <1>1, <2>2, <3>1
      <4> QED BY <1>3, <2>2, <3>1, <4>1 DEF entry
    <3>2. CASE j \in DOMAIN kept
      <4>1. PICK i \in j..n : connections[i] = kept[j] /\ connections[i] \notin clients
        BY <3>2 DEF Remains
      <4>2. i \in j..(n + 1)
        BY <1>1, <3>2, <4>1
      <4> QED BY <2>2, <3>2, <4>1, <4>2
    <3> QED BY <1>1, <2>2, <3>1, <3>2
  <2>4. ASSUME NEW i \in 1..(n + 1), connections[i] \notin clients
        PROVE  \E j \in DOMAIN more : more[j] = connections[i]
    <3>1. CASE i = n + 1
      <4>1. last \in DOMAIN more
        BY <1>1, <2>2
      <4> QED BY <2>2, <3>1, <4>1 DEF entry
    <3>2. CASE i \in 1..n
      <4>1. PICK j \in DOMAIN kept : kept[j] = connections[i]
        BY <2>4, <3>2 DEF Remains
      <4> QED BY <1>1, <2>2, <4>1
    <3> QED BY <3>1, <3>2
  <2>5. ASSUME Distinct(connections) PROVE Distinct(more)
    <3>1. \A j \in DOMAIN kept : kept[j] # entry
      <4> SUFFICES ASSUME NEW j \in DOMAIN kept PROVE kept[j] # entry
        OBVIOUS
      <4>1. PICK i \in j..n : connections[i] = kept[j]
        BY DEF Remains
      <4>2. i \in DOMAIN connections /\ i # n + 1
        BY <1>1
      <4> QED BY <1>1, <2>5, <4>1, <4>2 DEF Distinct, entry
    <3>2. Distinct(kept)
      BY <2>5 DEF Remains
    <3>3. DOMAIN more = DOMAIN kept \cup {last}
      BY <1>1, <2>2
    <3> QED BY <2>2, <3>1, <3>2, <3>3 DEF Distinct
  <2>6. ASSUME \A i \in 1..(n + 1) : connections[i] \notin clients
        PROVE  Len(more) = n + 1 /\ \A i \in 1..(n + 1) : more[i] = connections[i]
    <3>1. Len(kept) = n /\ \A i \in 1..n : kept[i] = connections[i]
      BY <2>6 DEF Remains
    <3> QED BY <1>1, <2>2, <3>1 DEF entry
  <2>7. Remains(more, n + 1, clients)
    BY <2>2, <2>3, <2>4, <2>5, <2>6 DEF Remains
  <2> QED BY <2>7 DEF more, entry
<1> QED BY <1>2, <1>3

\* list.remove for a set of entries: what broadcast leaves of the list.
LEMMA WithoutRemains ==
  ASSUME connections \in Seq(Clients), NEW clients
  PROVE  Remains(Without(clients), Len(connections), clients)
<1>1. PICK f : Keeps(f, clients, Len(connections))
               /\ Without(clients) = f[Len(connections)]
  BY WithoutKeeps
<1> DEFINE T == {n \in Nat : n <= Len(connections) => Remains(f[n], n, clients)}
<1>2. 0 \in T
  <2>1. f[0] = <<>>
    BY <1>1 DEF Keeps
  <2>2. f[0] \in Seq(Clients) /\ Len(f[0]) = 0 /\ DOMAIN f[0] = {}
    BY <2>1
  <2> QED BY <2>2 DEF Remains, Distinct
<1>3. ASSUME NEW n \in Nat, n \in T PROVE n + 1 \in T
  <2> SUFFICES ASSUME n + 1 <= Len(connections)
               PROVE  Remains(f[n + 1], n + 1, clients)
    OBVIOUS
  <2>1. Remains(f[n], n, clients)
    BY <1>3
  <2>2. f[n + 1] = Keep(f[n], connections[n + 1], clients)
    BY <1>1 DEF Keeps
  <2> QED BY <2>1, <2>2, RemainsStep
<1>4. T = Nat
  <2> HIDE DEF T
  <2>1. T \in SUBSET Nat
    BY DEF T
  <2> QED BY <1>2, <1>3, <2>1, SetInduction
<1> QED BY <1>1, <1>4

-----------------------------------------------------------------------------
(* The invariant.                                                          *)

DeadOf(t) == {walk[t].dead[i] : i \in DOMAIN walk[t].dead}

\* A client whose endpoint has not begun is in no list and was sent nothing.
NewUnknown ==
  \A c \in Clients :
    at[c] = "new" => c \notin Connected /\ \A t \in Tasks : c \notin reached[t]

\* What a walk still has before it was not sent to.
NotYetSent ==
  \A t \in Tasks : \A i \in DOMAIN connections :
    i >= walk[t].next => connections[i] \notin reached[t]

\* What an undisturbed walk has behind it was tried.
BehindTried ==
  \A t \in Tasks : at[t] \in Sending /\ ~shifted[t] =>
    /\ walk[t].next <= Len(connections) + 1
    /\ \A i \in DOMAIN connections :
         i < walk[t].next => connections[i] \in reached[t] \cup DeadOf(t)

BusInv ==
  /\ EventBusTypeOK
  /\ Distinct(connections)
  /\ NewUnknown
  /\ NotYetSent
  /\ BehindTried

\* A list without repetitions is as long as the set of its entries.
LEMMA DistinctLength ==
  ASSUME NEW s \in Seq(Clients), Distinct(s)
  PROVE  Len(s) = Cardinality({s[i] : i \in DOMAIN s})
<1> DEFINE entries == {s[i] : i \in DOMAIN s}
<1>1. IsFiniteSet(DOMAIN s) /\ Cardinality(DOMAIN s) = Len(s)
  <2>1. DOMAIN s = 1..Len(s) /\ Len(s) \in Nat
    OBVIOUS
  <2> QED BY <2>1, FS_Interval
<1>2. s \in Bijection(DOMAIN s, entries)
  <2>1. s \in [DOMAIN s -> entries]
    OBVIOUS
  <2>2. s \in Injection(DOMAIN s, entries)
    BY <2>1 DEF Injection, IsInjective, Distinct
  <2>3. s \in Surjection(DOMAIN s, entries)
    BY <2>1 DEF Surjection
  <2> QED BY <2>2, <2>3 DEF Bijection
<1> QED BY <1>1, <1>2, FS_Bijection DEF ExistsBijection

\* Nobody is in the list twice, so it is no longer than there are clients.
LEMMA ListLength ==
  ASSUME connections \in Seq(Clients), Distinct(connections)
  PROVE  Len(connections) \in 0..Cardinality(Clients)
         /\ Cardinality(Clients) \in Nat
<1>1. Len(connections) = Cardinality(Connected)
  BY DistinctLength DEF Connected
<1>2. Connected \subseteq Clients
  BY DEF Connected
<1>3. IsFiniteSet(Clients)
  BY EventBusAssumption DEF EventBusAssumption
<1>4. Cardinality(Connected) \in Nat /\ Cardinality(Clients) \in Nat
      /\ Cardinality(Connected) <= Cardinality(Clients)
  BY <1>2, <1>3, FS_Subset, FS_CardinalityType
<1> QED BY <1>1, <1>4

\* Removing clients keeps the list free of repetitions and moves entries only to
\* the front.
LEMMA RemoveKeeps ==
  ASSUME BusInv, NEW clients, connections' = Without(clients)
  PROVE  /\ connections' \in Seq(Clients)
         /\ Distinct(connections')
         /\ Connected' = Connected \ clients
         /\ \A j \in DOMAIN connections' :
              \E i \in DOMAIN connections : i >= j /\ connections[i] = connections'[j]
         /\ clients \cap Connected = {} => connections' = connections
<1>1. connections \in Seq(Clients) /\ Distinct(connections)
  BY DEF BusInv, EventBusTypeOK
<1>2. Len(connections) \in Nat /\ DOMAIN connections = 1..Len(connections)
  BY <1>1
<1>3. Remains(connections', Len(connections), clients)
  BY <1>1, WithoutRemains
<1>4. connections' \in Seq(Clients) /\ Len(connections') \in Nat
      /\ DOMAIN connections' = 1..Len(connections')
  BY <1>3 DEF Remains
<1>5. Distinct(connections')
  BY <1>1, <1>3 DEF Remains
<1>6. ASSUME NEW j \in DOMAIN connections'
      PROVE  \E i \in DOMAIN connections :
               i >= j /\ connections[i] = connections'[j] /\ connections[i] \notin clients
  <2>1. PICK i \in j..Len(connections) :
          connections[i] = connections'[j] /\ connections[i] \notin clients
    BY <1>3, <1>6 DEF Remains
  <2> QED BY <1>2, <1>4, <2>1
<1>7. Connected' = Connected \ clients
  <2>1. Connected' \subseteq Connected \ clients
    BY <1>6 DEF Connected
  <2>2. Connected \ clients \subseteq Connected'
    <3> SUFFICES ASSUME NEW i \in DOMAIN connections, connections[i] \notin clients
                 PROVE  connections[i] \in Connected'
      BY DEF Connected
    <3>1. \E j \in DOMAIN connections' : connections'[j] = connections[i]
      BY <1>2, <1>3 DEF Remains
    <3> QED BY <3>1 DEF Connected
  <2> QED BY <2>1, <2>2
<1>8. ASSUME clients \cap Connected = {} PROVE connections' = connections
  <2>1. \A i \in 1..Len(connections) : connections[i] \notin clients
    BY <1>2, <1>8 DEF Connected
  <2>2. Len(connections') = Len(connections)
        /\ \A i \in 1..Len(connections) : connections'[i] = connections[i]
    BY <1>3, <2>1 DEF Remains
  <2> QED BY <1>1, <1>4, <2>2
<1> QED BY <1>4, <1>5, <1>6, <1>7, <1>8

\* The end of a broadcast, whoever is removed.
LEMMA PurgeKeeps ==
  ASSUME BusInv, NEW t \in Tasks, NEW clients, Purgeable(t), Remove(t, clients),
         \/ \E place \in {"asleep", "ended"} : Leave(t, place)
         \/ Broadcast(t, "state", ecu),
         gone \subseteq gone', gone' \subseteq Clients, UNCHANGED <<ecu, view>>,
         answer' \in [Requests -> {"none", "ok", "error"}]
  PROVE  BusInv'
<1> USE DEF BusInv
<1>1. connections' = Without(clients)
  BY DEF Remove
<1>2. /\ connections' \in Seq(Clients)
      /\ Distinct(connections')
      /\ Connected' = Connected \ clients
      /\ \A j \in DOMAIN connections' :
           \E i \in DOMAIN connections : i >= j /\ connections[i] = connections'[j]
      /\ clients \cap Connected = {} => connections' = connections
  BY <1>1, RemoveKeeps
<1>3. PICK place, payload :
        /\ place \in {"asleep", "ended", "state"} /\ payload \in {None, ecu}
        /\ at' = [at EXCEPT ![t] = place]
        /\ walk' = [walk EXCEPT ![t] = [next |-> 1, dead |-> <<>>, payload |-> payload]]
        /\ reached' = [reached EXCEPT ![t] = {}]
  <2>1. [NoWalk EXCEPT !.payload = ecu] = [next |-> 1, dead |-> <<>>, payload |-> ecu]
    BY DEF NoWalk
  <2>2. CASE \E place \in {"asleep", "ended"} : Leave(t, place)
    BY <2>2 DEF Leave, NoWalk
  <2>3. CASE Broadcast(t, "state", ecu)
    BY <2>1, <2>3 DEF Broadcast
  <2> QED BY <2>2, <2>3
<1>4. Cardinality(Clients) \in Nat
  BY ListLength DEF EventBusTypeOK
<1>5. EventBusTypeOK'
  <2>1. Len(connections') = Cardinality(Connected')
    <3>1. \A s \in Seq(Clients) : Distinct(s) =>
            Len(s) = Cardinality({s[i] : i \in DOMAIN s})
      BY DistinctLength
    <3> QED BY <1>2, <3>1 DEF Connected
  <2>2. at' \in [Tasks -> {"new", "asleep", "ended"} \cup Sending]
    BY <1>3 DEF EventBusTypeOK, Sending
  <2>3. [next |-> 1, dead |-> <<>>, payload |-> payload]
          \in [next : 1..(Cardinality(Clients) + 1), dead : Seq(gone'),
               payload : 0..ecu \cup {None}]
    BY <1>3, <1>4 DEF EventBusTypeOK
  <2>4. walk' \in [Tasks -> [next : 1..(Cardinality(Clients) + 1), dead : Seq(gone'),
                            payload : 0..ecu \cup {None}]]
    BY <1>3, <2>3 DEF EventBusTypeOK
  <2>5. reached' \in [Tasks -> SUBSET Clients]
    BY <1>3 DEF EventBusTypeOK
  <2>6. shifted' \in [Tasks -> BOOLEAN]
    BY DEF Remove, EventBusTypeOK
  <2> QED BY <1>2, <2>1, <2>2, <2>4, <2>5, <2>6 DEF EventBusTypeOK
<1>6. NewUnknown'
  BY <1>2, <1>3 DEF NewUnknown, EventBusTypeOK
<1>7. NotYetSent'
  BY <1>2, <1>3 DEF NotYetSent, EventBusTypeOK
<1>8. BehindTried'
  <2> SUFFICES ASSUME NEW u \in Tasks, at'[u] \in Sending, ~shifted'[u]
               PROVE  /\ walk'[u].next <= Len(connections') + 1
                      /\ \A i \in DOMAIN connections' : i < walk'[u].next =>
                           connections'[i] \in reached'[u] \cup DeadOf(u)'
    BY DEF BehindTried
  <2>1. CASE u = t
    <3>1. walk'[u].next = 1
      BY <1>3, <2>1 DEF EventBusTypeOK
    <3> QED BY <1>2, <3>1
  <2>2. CASE u # t
    <3>1. at'[u] = at[u] /\ walk'[u] = walk[u] /\ reached'[u] = reached[u]
      BY <1>3, <2>2 DEF EventBusTypeOK
    <3>2. ~shifted[u] /\ clients \cap Connected = {}
      BY <2>2, <3>1 DEF Remove
    <3>3. connections' = connections
      BY <1>2, <3>2
    <3> QED BY <3>1, <3>2, <3>3 DEF BehindTried, DeadOf
  <2> QED BY <2>1, <2>2
<1> QED BY <1>2, <1>5, <1>6, <1>7, <1>8

-----------------------------------------------------------------------------
\* A broadcast begins: its coroutine has sent to nobody and has all before it.
LEMMA BroadcastTypes ==
  ASSUME EventBusTypeOK, NEW t \in Tasks, NEW which \in Sending, NEW payload,
         Broadcast(t, which, payload), ecu' \in Nat, ecu <= ecu',
         payload \in 0..ecu' \cup {None}, Cardinality(Clients) \in Nat,
         UNCHANGED gone
  PROVE  /\ at' \in [Tasks -> {"new", "asleep", "ended"} \cup Sending]
         /\ walk' \in [Tasks -> [next    : 1..(Cardinality(Clients) + 1),
                                 dead    : Seq(gone'),
                                 payload : 0..ecu' \cup {None}]]
         /\ reached' \in [Tasks -> SUBSET Clients]
         /\ walk'[t].next = 1 /\ reached'[t] = {} /\ at'[t] = which
         /\ \A u \in Tasks \ {t} :
              walk'[u] = walk[u] /\ reached'[u] = reached[u] /\ at'[u] = at[u]
<1>1. [NoWalk EXCEPT !.payload = payload]
        = [next |-> 1, dead |-> <<>>, payload |-> payload]
  BY DEF NoWalk
<1>2. walk' = [walk EXCEPT ![t] = [next |-> 1, dead |-> <<>>, payload |-> payload]]
  BY <1>1 DEF Broadcast
<1>3. 0..ecu \subseteq 0..ecu'
  BY DEF EventBusTypeOK
<1>4. walk \in [Tasks -> [next    : 1..(Cardinality(Clients) + 1),
                         dead    : Seq(gone'),
                         payload : 0..ecu' \cup {None}]]
  BY <1>3 DEF EventBusTypeOK
<1>5. [next |-> 1, dead |-> <<>>, payload |-> payload]
        \in [next : 1..(Cardinality(Clients) + 1), dead : Seq(gone'),
             payload : 0..ecu' \cup {None}]
  OBVIOUS
<1>6. walk' \in [Tasks -> [next    : 1..(Cardinality(Clients) + 1),
                          dead    : Seq(gone'),
                          payload : 0..ecu' \cup {None}]]
  BY <1>2, <1>4, <1>5
<1>7. at' \in [Tasks -> {"new", "asleep", "ended"} \cup Sending]
      /\ reached' \in [Tasks -> SUBSET Clients]
  BY DEF Broadcast, EventBusTypeOK
<1> QED BY <1>2, <1>4, <1>6, <1>7 DEF Broadcast, EventBusTypeOK

\* ... under the list as it is.
LEMMA BroadcastKeeps ==
  ASSUME BusInv, NEW t \in Tasks, NEW which \in Sending, NEW payload,
         Broadcast(t, which, payload), ecu' \in {ecu, ecu + 1},
         payload \in {None, ecu'},
         UNCHANGED <<connections, gone, view, answer, shifted>>
  PROVE  BusInv'
<1> USE DEF BusInv
<1>1. connections \in Seq(Clients) /\ Cardinality(Clients) \in Nat
      /\ Len(connections) \in Nat /\ ecu \in Nat
      /\ DOMAIN connections = 1..Len(connections)
  BY ListLength DEF EventBusTypeOK
<1>2. ecu' \in Nat /\ ecu <= ecu' /\ payload \in 0..ecu' \cup {None}
  BY <1>1
<1>3. /\ at' \in [Tasks -> {"new", "asleep", "ended"} \cup Sending]
      /\ walk' \in [Tasks -> [next    : 1..(Cardinality(Clients) + 1),
                              dead    : Seq(gone'),
                              payload : 0..ecu' \cup {None}]]
      /\ reached' \in [Tasks -> SUBSET Clients]
      /\ walk'[t].next = 1 /\ reached'[t] = {} /\ at'[t] = which
      /\ \A u \in Tasks \ {t} :
           walk'[u] = walk[u] /\ reached'[u] = reached[u] /\ at'[u] = at[u]
  BY <1>1, <1>2, BroadcastTypes
<1>4. EventBusTypeOK'
  <2>1. 0..ecu \subseteq 0..ecu'
    BY <1>1, <1>2
  <2>2. view' \in [Clients -> 0..ecu' \cup {None}]
    BY <2>1 DEF EventBusTypeOK
  <2> QED BY <1>2, <1>3, <2>2 DEF EventBusTypeOK, Connected
<1>5. NewUnknown'
  <2> SUFFICES ASSUME NEW c \in Clients, at'[c] = "new"
               PROVE  c \notin Connected /\ \A u \in Tasks : c \notin reached'[u]
    BY DEF NewUnknown, Connected
  <2>1. c # t /\ c \in Tasks
    BY <1>3 DEF Sending, Tasks
  <2>2. c \notin Connected /\ \A u \in Tasks : c \notin reached[u]
    BY <1>3, <2>1 DEF NewUnknown
  <2> QED BY <1>3, <2>2
<1>6. NotYetSent'
  BY <1>3 DEF NotYetSent
<1>7. BehindTried'
  <2> SUFFICES ASSUME NEW u \in Tasks, at'[u] \in Sending, ~shifted'[u]
               PROVE  /\ walk'[u].next <= Len(connections') + 1
                      /\ \A i \in DOMAIN connections' : i < walk'[u].next =>
                           connections'[i] \in reached'[u] \cup DeadOf(u)'
    BY DEF BehindTried
  <2>1. CASE u = t
    <3>1. walk'[u].next = 1 /\ ~(\E i \in DOMAIN connections' : i < 1)
      BY <1>1, <1>3, <2>1
    <3> QED BY <1>1, <3>1
  <2>2. CASE u # t
    <3>1. at'[u] = at[u] /\ walk'[u] = walk[u] /\ reached'[u] = reached[u]
      BY <1>3, <2>2
    <3> QED BY <3>1 DEF BehindTried, DeadOf
  <2> QED BY <2>1, <2>2
<1>8. Distinct(connections')
  BY DEF Distinct
<1> QED BY <1>4, <1>5, <1>6, <1>7, <1>8

\* A walk has these fields and no others.
LEMMA RecordShape ==
  ASSUME EventBusTypeOK, NEW t \in Tasks
  PROVE  /\ [walk[t] EXCEPT !.next = @ + 1]
              = [next |-> walk[t].next + 1, dead |-> walk[t].dead,
                 payload |-> walk[t].payload]
         /\ \A c : [walk[t] EXCEPT !.next = @ + 1, !.dead = Append(@, c)]
                     = [next |-> walk[t].next + 1, dead |-> Append(walk[t].dead, c),
                        payload |-> walk[t].payload]
<1>1. walk[t] \in [next    : 1..(Cardinality(Clients) + 1),
                  dead    : Seq(gone),
                  payload : 0..ecu \cup {None}]
  BY DEF EventBusTypeOK
<1>2. PICK n \in 1..(Cardinality(Clients) + 1), d \in Seq(gone),
           p \in 0..ecu \cup {None} :
        walk[t] = [next |-> n, dead |-> d, payload |-> p]
  BY <1>1
<1>3. walk[t].next = n /\ walk[t].dead = d /\ walk[t].payload = p
  BY <1>2
<1>4. [walk[t] EXCEPT !.next = n + 1] = [next |-> n + 1, dead |-> d, payload |-> p]
  BY <1>2
<1>5. ASSUME NEW e
      PROVE  [walk[t] EXCEPT !.next = n + 1, !.dead = e]
               = [next |-> n + 1, dead |-> e, payload |-> p]
  <2> DEFINE moved == [next |-> n + 1, dead |-> d, payload |-> p]
  <2>1. [moved EXCEPT !.dead = e] = [next |-> n + 1, dead |-> e, payload |-> p]
    OBVIOUS
  <2>2. [walk[t] EXCEPT !.next = n + 1] = moved
    BY <1>4
  <2> HIDE DEF moved
  <2> QED BY <2>1, <2>2, Zenon
<1> QED BY <1>3, <1>4, <1>5

\* One send: the walk has one entry more behind it and has tried it.
LEMMA SendKeeps ==
  ASSUME BusInv, NEW t \in Tasks, Walking(t),
         \/ /\ walk' = [walk EXCEPT ![t].next = @ + 1]
            /\ reached' = [reached EXCEPT ![t] = @ \cup {connections[walk[t].next]}]
         \/ /\ connections[walk[t].next] \in gone
            /\ walk' = [walk EXCEPT ![t].next = @ + 1,
                                    ![t].dead = Append(@, connections[walk[t].next])]
            /\ reached' = reached,
         view' \in [Clients -> 0..ecu \cup {None}],
         UNCHANGED <<connections, gone, at, ecu, answer, shifted>>
  PROVE  BusInv'
<1> USE DEF BusInv
<1> DEFINE c == connections[walk[t].next]
<1>1. connections \in Seq(Clients) /\ Len(connections) \in 0..Cardinality(Clients)
      /\ Cardinality(Clients) \in Nat /\ DOMAIN connections = 1..Len(connections)
  BY ListLength DEF EventBusTypeOK
<1>2. /\ walk[t].next \in 1..Len(connections) /\ walk[t].dead \in Seq(gone)
      /\ walk[t].next + 1 \in 1..(Cardinality(Clients) + 1)
      /\ walk[t].payload \in 0..ecu \cup {None}
      /\ at[t] \in Sending
  BY <1>1 DEF Walking, EventBusTypeOK
<1>3. c \in Connected /\ c \in Clients
  BY <1>1, <1>2 DEF Connected
<1> HIDE DEF c
<1>4. PICK dead :
        /\ walk' = [walk EXCEPT ![t] = [next    |-> walk[t].next + 1,
                                        dead    |-> dead,
                                        payload |-> walk[t].payload]]
        /\ dead \in Seq(gone)
        /\ DeadOf(t) \subseteq {dead[i] : i \in DOMAIN dead}
        /\ c \in reached'[t] \cup {dead[i] : i \in DOMAIN dead}
  <2>1. CASE /\ walk' = [walk EXCEPT ![t].next = @ + 1]
             /\ reached' = [reached EXCEPT ![t] = @ \cup {c}]
    <3>1. walk' = [walk EXCEPT ![t] = [next    |-> walk[t].next + 1,
                                       dead    |-> walk[t].dead,
                                       payload |-> walk[t].payload]]
      <4>1. [walk[t] EXCEPT !.next = @ + 1]
              = [next |-> walk[t].next + 1, dead |-> walk[t].dead,
                 payload |-> walk[t].payload]
        BY RecordShape
      <4>2. walk' = [walk EXCEPT ![t] = [walk[t] EXCEPT !.next = @ + 1]]
        BY <2>1
      <4> QED BY <4>1, <4>2
    <3>2. c \in reached'[t]
      BY <2>1 DEF EventBusTypeOK
    <3> QED BY <1>2, <3>1, <3>2 DEF DeadOf
  <2>2. CASE /\ c \in gone
             /\ walk' = [walk EXCEPT ![t].next = @ + 1, ![t].dead = Append(@, c)]
    <3> DEFINE dead == Append(walk[t].dead, c)
    <3>1. walk' = [walk EXCEPT ![t] = [next    |-> walk[t].next + 1,
                                       dead    |-> dead,
                                       payload |-> walk[t].payload]]
      <4>1. [walk[t] EXCEPT !.next = @ + 1, !.dead = Append(@, c)]
              = [next |-> walk[t].next + 1, dead |-> dead, payload |-> walk[t].payload]
        BY RecordShape
      <4>2. walk' = [walk EXCEPT ![t] = [walk[t] EXCEPT !.next = @ + 1,
                                                        !.dead = Append(@, c)]]
        BY <2>2
      <4> QED BY <4>1, <4>2
    <3>2. /\ dead \in Seq(gone) /\ DOMAIN dead = 1..(Len(walk[t].dead) + 1)
          /\ dead[Len(walk[t].dead) + 1] = c
          /\ \A i \in DOMAIN walk[t].dead : i \in DOMAIN dead /\ dead[i] = walk[t].dead[i]
          /\ Len(walk[t].dead) + 1 \in DOMAIN dead
      BY <1>2, <2>2
    <3> HIDE DEF dead
    <3>3. DeadOf(t) \subseteq {dead[i] : i \in DOMAIN dead}
      BY <3>2 DEF DeadOf
    <3>4. c \in {dead[i] : i \in DOMAIN dead}
      BY <3>2
    <3> QED BY <3>1, <3>2, <3>3, <3>4
  <2> QED BY <2>1, <2>2 DEF c
<1>5. /\ walk'[t].next = walk[t].next + 1
      /\ DeadOf(t) \subseteq DeadOf(t)' /\ c \in reached'[t] \cup DeadOf(t)'
      /\ \A u \in Tasks \ {t} : walk'[u] = walk[u] /\ reached'[u] = reached[u]
      /\ reached[t] \subseteq reached'[t] /\ reached'[t] \subseteq reached[t] \cup {c}
      /\ reached' \in [Tasks -> SUBSET Clients]
  <2>1. walk'[t] = [next |-> walk[t].next + 1, dead |-> dead,
                    payload |-> walk[t].payload]
        /\ \A u \in Tasks \ {t} : walk'[u] = walk[u]
    BY <1>4 DEF EventBusTypeOK
  <2>2. DeadOf(t)' = {dead[i] : i \in DOMAIN dead}
    BY <2>1 DEF DeadOf
  <2>3. /\ \A u \in Tasks \ {t} : reached'[u] = reached[u]
        /\ reached[t] \subseteq reached'[t] /\ reached'[t] \subseteq reached[t] \cup {c}
        /\ reached' \in [Tasks -> SUBSET Clients]
    <3>1. reached' = reached \/ reached' = [reached EXCEPT ![t] = @ \cup {c}]
      BY DEF c
    <3>2. CASE reached' = reached
      BY <3>2 DEF EventBusTypeOK
    <3>3. CASE reached' = [reached EXCEPT ![t] = @ \cup {c}]
      BY <1>3, <3>3 DEF EventBusTypeOK
    <3> QED BY <3>1, <3>2, <3>3
  <2> QED BY <1>4, <2>1, <2>2, <2>3
<1>6. EventBusTypeOK'
  <2>1. [next |-> walk[t].next + 1, dead |-> dead, payload |-> walk[t].payload]
          \in [next : 1..(Cardinality(Clients) + 1), dead : Seq(gone),
               payload : 0..ecu \cup {None}]
    BY <1>2, <1>4
  <2>2. walk' \in [Tasks -> [next    : 1..(Cardinality(Clients) + 1),
                             dead    : Seq(gone),
                             payload : 0..ecu \cup {None}]]
    BY <1>4, <2>1 DEF EventBusTypeOK
  <2> QED BY <1>5, <2>2 DEF EventBusTypeOK, Connected
<1>7. NewUnknown'
  <2>1. at[c] = "new" => FALSE
    BY <1>3 DEF NewUnknown
  <2> QED BY <1>5, <2>1 DEF NewUnknown, Connected
<1>8. NotYetSent'
  <2> SUFFICES ASSUME NEW u \in Tasks, NEW i \in DOMAIN connections,
                      i >= walk'[u].next
               PROVE  connections[i] \notin reached'[u]
    BY DEF NotYetSent
  <2>1. CASE u # t
    BY <1>5, <2>1 DEF NotYetSent
  <2>2. CASE u = t
    <3>1. i >= walk[t].next /\ i # walk[t].next
      BY <1>1, <1>2, <1>5, <2>2
    <3>2. connections[i] # c
      BY <1>1, <1>2, <3>1 DEF Distinct, c
    <3>3. connections[i] \notin reached[t]
      BY <3>1 DEF NotYetSent
    <3> QED BY <1>5, <2>2, <3>2, <3>3
  <2> QED BY <2>1, <2>2
<1>9. BehindTried'
  <2> SUFFICES ASSUME NEW u \in Tasks, at[u] \in Sending, ~shifted[u]
               PROVE  /\ walk'[u].next <= Len(connections) + 1
                      /\ \A i \in DOMAIN connections : i < walk'[u].next =>
                           connections[i] \in reached'[u] \cup DeadOf(u)'
    BY DEF BehindTried
  <2>1. CASE u # t
    BY <1>5, <2>1 DEF BehindTried, DeadOf
  <2>2. CASE u = t
    <3>1. walk'[u].next <= Len(connections) + 1
      BY <1>1, <1>2, <1>5, <2>2
    <3>2. ASSUME NEW i \in DOMAIN connections, i < walk'[u].next
          PROVE  connections[i] \in reached'[u] \cup DeadOf(u)'
      <4>1. CASE i = walk[t].next
        BY <1>5, <2>2, <4>1 DEF c
      <4>2. CASE i < walk[t].next
        <5>1. connections[i] \in reached[t] \cup DeadOf(t)
          BY <2>2, <4>2 DEF BehindTried
        <5> QED BY <1>5, <2>2, <5>1
      <4> QED BY <1>1, <1>2, <1>5, <2>2, <3>2, <4>1, <4>2
    <3> QED BY <3>1, <3>2
  <2> QED BY <2>1, <2>2
<1>10. Distinct(connections')
  BY DEF Distinct
<1> QED BY <1>6, <1>7, <1>8, <1>9, <1>10

\* Nobody is connected at first.
LEMMA InitBus == EventBusInit => BusInv
<1> SUFFICES ASSUME EventBusInit PROVE BusInv
  OBVIOUS
<1>1. Connected = {} /\ DOMAIN connections = {}
  BY DEF EventBusInit, Connected
<1>2. Cardinality({}) = 0
  BY FS_EmptySet
<1>3. Cardinality(Clients) \in Nat
  BY EventBusAssumption, FS_CardinalityType DEF EventBusAssumption
<1>4. NoWalk \in [next : 1..(Cardinality(Clients) + 1), dead : Seq(gone),
                  payload : 0..ecu \cup {None}]
  BY <1>3 DEF NoWalk, EventBusInit
<1>5. EventBusTypeOK
  BY <1>1, <1>2, <1>3, <1>4 DEF EventBusInit, EventBusTypeOK
<1> QED BY <1>1, <1>5
    DEF BusInv, EventBusInit, Distinct, NewUnknown, NotYetSent, BehindTried, Sending

\* One step of one coroutine.
LEMMA StepBus == BusInv /\ [EventBusNext]_busVars => BusInv'
<1> SUFFICES ASSUME BusInv, [EventBusNext]_busVars PROVE BusInv'
  OBVIOUS
<1> USE DEF BusInv
<1>1. connections \in Seq(Clients) /\ Cardinality(Clients) \in Nat /\ gone \subseteq Clients
      /\ Len(connections) \in 0..Cardinality(Clients)
      /\ DOMAIN connections = 1..Len(connections)
  BY ListLength DEF EventBusTypeOK
<1>2. ASSUME NEW c \in Clients, Connect(c)
      PROVE  BusInv'
  <2>1. c \in Tasks /\ at[c] = "new" /\ c \notin Connected
        /\ \A u \in Tasks : c \notin reached[u]
    BY <1>2 DEF Connect, NewUnknown, Tasks
  <2>2. /\ connections' = Append(connections, c) /\ Broadcast(c, "greeting", ecu)
        /\ UNCHANGED <<gone, ecu, view, answer, shifted>>
    BY <1>2 DEF Connect
  <2> DEFINE last == Len(connections) + 1
  <2>3. /\ connections' \in Seq(Clients) /\ Len(connections') = last
        /\ DOMAIN connections' = DOMAIN connections \cup {last}
        /\ \A i \in DOMAIN connections : connections'[i] = connections[i]
        /\ connections'[last] = c /\ last \in Nat
        /\ \A i \in DOMAIN connections : i < last
    BY <1>1, <2>2
  <2> HIDE DEF last
  <2>4. Distinct(connections') /\ Connected' = Connected \cup {c}
    BY <2>1, <2>3 DEF Distinct, Connected
  <2>5. Len(connections') = Cardinality(Connected')
    BY <2>3, <2>4, DistinctLength DEF Connected
  <2>6. /\ at' \in [Tasks -> {"new", "asleep", "ended"} \cup Sending]
        /\ walk' \in [Tasks -> [next    : 1..(Cardinality(Clients) + 1),
                                dead    : Seq(gone'),
                                payload : 0..ecu' \cup {None}]]
        /\ reached' \in [Tasks -> SUBSET Clients]
        /\ walk'[c].next = 1 /\ reached'[c] = {} /\ at'[c] = "greeting"
        /\ \A u \in Tasks \ {c} :
             walk'[u] = walk[u] /\ reached'[u] = reached[u] /\ at'[u] = at[u]
    <3>1. "greeting" \in Sending /\ ecu \in Nat /\ ecu <= ecu /\ ecu \in 0..ecu
      BY DEF Sending, EventBusTypeOK
    <3>2. ecu' \in Nat /\ ecu <= ecu' /\ ecu \in 0..ecu' \cup {None}
      BY <2>2, <3>1
    <3> QED BY <1>1, <2>1, <2>2, <3>1, <3>2, BroadcastTypes
  <2>7. EventBusTypeOK'
    BY <2>2, <2>3, <2>5, <2>6 DEF EventBusTypeOK
  <2>8. NewUnknown'
    BY <2>1, <2>4, <2>6 DEF NewUnknown, Tasks
  <2>9. NotYetSent'
    <3> SUFFICES ASSUME NEW u \in Tasks, NEW i \in DOMAIN connections',
                        i >= walk'[u].next
                 PROVE  connections'[i] \notin reached'[u]
      BY DEF NotYetSent
    <3>1. CASE u = c
      BY <2>6, <3>1
    <3>2. CASE u # c
      <4>1. walk'[u] = walk[u] /\ reached'[u] = reached[u]
        BY <2>6, <3>2
      <4>2. CASE i = last
        BY <2>1, <2>3, <4>1, <4>2
      <4>3. CASE i \in DOMAIN connections
        BY <2>3, <4>1, <4>3 DEF NotYetSent
      <4> QED BY <2>3, <4>2, <4>3
    <3> QED BY <3>1, <3>2
  <2>10. BehindTried'
    <3> SUFFICES ASSUME NEW u \in Tasks, at'[u] \in Sending, ~shifted'[u]
                 PROVE  /\ walk'[u].next <= Len(connections') + 1
                        /\ \A i \in DOMAIN connections' : i < walk'[u].next =>
                             connections'[i] \in reached'[u] \cup DeadOf(u)'
      BY DEF BehindTried
    <3>1. CASE u = c
      <4>1. walk'[u].next = 1 /\ ~(\E i \in DOMAIN connections' : i < 1)
        BY <1>1, <2>3, <2>6, <3>1 DEF last
      <4> QED BY <2>3, <4>1
    <3>2. CASE u # c
      <4>1. /\ walk[u].next <= Len(connections) + 1 /\ walk'[u] = walk[u]
            /\ reached'[u] = reached[u]
            /\ \A i \in DOMAIN connections :
                 i < walk[u].next => connections[i] \in reached[u] \cup DeadOf(u)
        BY <2>2, <2>6, <3>2 DEF BehindTried
      <4>2. DeadOf(u)' = DeadOf(u) /\ walk[u].next \in Nat
        BY <4>1 DEF DeadOf, EventBusTypeOK
      <4>3. ~(last < walk[u].next)
        BY <1>1, <4>1, <4>2 DEF last
      <4> QED BY <1>1, <2>3, <4>1, <4>2, <4>3
    <3> QED BY <3>1, <3>2
  <2> QED BY <2>4, <2>7, <2>8, <2>9, <2>10
<1>3. ASSUME NEW c \in Clients, Wake(c)
      PROVE  BusInv'
  BY <1>3, BroadcastKeeps DEF Wake, Sending, EventBusTypeOK, Tasks
<1>4. ASSUME NEW r \in Requests, Arrive(r)
      PROVE  BusInv'
  BY <1>4, BroadcastKeeps DEF Arrive, Sending, EventBusTypeOK, Tasks
<1>5. ASSUME NEW c \in Clients, SocketBreaks(c)
      PROVE  BusInv'
  <2>1. gone \subseteq gone' /\ gone' \subseteq Clients
        /\ UNCHANGED <<connections, at, walk, ecu, view, answer, reached, shifted>>
    BY <1>1, <1>5 DEF SocketBreaks
  <2>2. EventBusTypeOK'
    <3>1. Seq(gone) \subseteq Seq(gone')
      BY <2>1
    <3> QED BY <2>1, <3>1 DEF EventBusTypeOK, Connected
  <2> QED BY <2>1, <2>2 DEF Distinct, NewUnknown, Connected, NotYetSent, BehindTried,
             DeadOf
<1>6. ASSUME NEW t \in Tasks, SendSucceeds(t)
      PROVE  BusInv'
  <2> DEFINE c == connections[walk[t].next]
  <2>1. /\ Walking(t) /\ reached' = [reached EXCEPT ![t] = @ \cup {c}]
        /\ view' = [view EXCEPT ![c] =
                      IF walk[t].payload = None THEN view[c] ELSE walk[t].payload]
        /\ walk' = [walk EXCEPT ![t].next = @ + 1]
        /\ UNCHANGED <<connections, gone, at, ecu, answer, shifted>>
    BY <1>6 DEF SendSucceeds
  <2>2. view' \in [Clients -> 0..ecu \cup {None}]
    BY <2>1 DEF EventBusTypeOK
  <2> QED BY <1>6, <2>1, <2>2, SendKeeps
<1>7. ASSUME NEW t \in Tasks, SendFails(t)
      PROVE  BusInv'
  <2> DEFINE c == connections[walk[t].next]
  <2>1. /\ Walking(t) /\ c \in gone
        /\ walk' = [walk EXCEPT ![t].next = @ + 1, ![t].dead = Append(@, c)]
        /\ UNCHANGED <<connections, gone, at, ecu, view, answer, reached, shifted>>
    BY <1>7 DEF SendFails
  <2> QED BY <2>1, SendKeeps DEF EventBusTypeOK
<1>8. ASSUME NEW t \in Tasks, Purge(t)
      PROVE  BusInv'
  <2>1. ASSUME NEW c \in Clients, c = t,
               EndpointSleeps(c) \/ GreetingRaises(c) \/ LoopRaises(c)
        PROVE  BusInv'
    <3>1. CASE EndpointSleeps(c)
      BY <1>1, <2>1, <3>1, PurgeKeeps DEF EndpointSleeps, EventBusTypeOK
    <3>2. CASE GreetingRaises(c)
      BY <1>1, <2>1, <3>2, PurgeKeeps DEF GreetingRaises, EventBusTypeOK
    <3>3. CASE LoopRaises(c)
      BY <1>1, <2>1, <3>3, PurgeKeeps DEF LoopRaises, EventBusTypeOK
    <3> QED BY <2>1, <3>1, <3>2, <3>3
  <2>2. ASSUME NEW r \in Requests, r = t, EventOut(r)
        PROVE  BusInv'
    BY <1>1, <2>2, PurgeKeeps DEF EventOut, EventBusTypeOK
  <2>3. ASSUME NEW r \in Requests, r = t, RequestAnswered(r)
        PROVE  BusInv'
    <3>1. answer' \in [Requests -> {"none", "ok", "error"}]
      BY <2>3 DEF RequestAnswered, EventBusTypeOK
    <3> QED BY <1>1, <2>3, <3>1, PurgeKeeps DEF RequestAnswered
  <2> QED BY <1>8, <2>1, <2>2, <2>3 DEF Purge
<1>9. CASE UNCHANGED busVars
  BY <1>9 DEF busVars, EventBusTypeOK, Connected, Distinct, NewUnknown, NotYetSent,
     BehindTried, DeadOf
<1> QED BY <1>2, <1>3, <1>4, <1>5, <1>6, <1>7, <1>8, <1>9 DEF EventBusNext, Runs, Tasks

\* What the theorems are read off.
LEMMA BusInvariance == EventBusSpec => []BusInv
  BY InitBus, StepBus, PTL DEF EventBusSpec

-----------------------------------------------------------------------------
\* The list holds no connection twice, so remove() finds the only entry, and a
\* walk's dead list holds broken sockets only (ConnectionManager).
THEOREM EventBusTypes == EventBusSpec => []EventBusTypeOK
<1>1. BusInv => EventBusTypeOK
  BY DEF BusInv
<1> QED BY <1>1, BusInvariance, PTL

\* broadcast sends to no client twice, whatever connects, breaks and is removed
\* while it is suspended in its sends.
THEOREM SentAtMostOnce == EventBusSpec => AtMostOnce
<1>1. BusInv /\ [EventBusNext]_busVars =>
        \A t \in Tasks : SendSucceeds(t) => connections[walk[t].next] \notin reached[t]
  <2> SUFFICES ASSUME BusInv, NEW t \in Tasks, SendSucceeds(t)
               PROVE  connections[walk[t].next] \notin reached[t]
    OBVIOUS
  <2>1. connections \in Seq(Clients) /\ walk[t].next \in 1..Len(connections)
    BY DEF BusInv, EventBusTypeOK, SendSucceeds, Walking
  <2>2. walk[t].next \in DOMAIN connections
    BY <2>1
  <2> QED BY <2>1, <2>2 DEF BusInv, NotYetSent
<1> QED BY <1>1, BusInvariance, PTL DEF EventBusSpec, AtMostOnce

\* A broadcast during which nobody else removed a connection has tried every
\* client that is connected when it ends.
THEOREM UndisturbedTriesAll == EventBusSpec => UndisturbedReachesAll
<1>1. BusInv /\ [EventBusNext]_busVars =>
        \A t \in Tasks : Purge(t) /\ ~shifted[t] =>
          Connected \subseteq
            reached[t] \cup {walk[t].dead[i] : i \in DOMAIN walk[t].dead}
  <2> SUFFICES ASSUME BusInv, NEW t \in Tasks, Purge(t), ~shifted[t],
                      NEW i \in DOMAIN connections
               PROVE  connections[i] \in reached[t] \cup DeadOf(t)
    BY DEF Connected, DeadOf
  <2>1. Purgeable(t)
    BY DEF Purge, EndpointSleeps, GreetingRaises, LoopRaises, EventOut, RequestAnswered
  <2>2. connections \in Seq(Clients) /\ walk[t].next \in Int
    BY DEF BusInv, EventBusTypeOK
  <2>3. i < walk[t].next /\ at[t] \in Sending
    BY <2>1, <2>2 DEF Purgeable
  <2> QED BY <2>3 DEF BusInv, BehindTried
<1> QED BY <1>1, BusInvariance, PTL DEF EventBusSpec, UndisturbedReachesAll

\* Only the connection of a broken socket or of an endpoint that ends is removed.
THEOREM RemovesOnlyDead == EventBusSpec => OnlyDeadRemoved
<1>1. BusInv /\ [EventBusNext]_busVars =>
        (\A c \in Connected :
          c \in {connections'[i] : i \in DOMAIN connections'}
            \/ c \in gone \/ at'[c] = "ended") \/ UNCHANGED busVars
  <2> SUFFICES ASSUME BusInv, EventBusNext, NEW c \in Connected
               PROVE  c \in Connected' \/ c \in gone \/ at'[c] = "ended"
    BY DEF Connected
  <2>1. CASE UNCHANGED connections
    BY <2>1 DEF Connected
  <2>2. ASSUME NEW d \in Clients, Connect(d) PROVE c \in Connected'
    <3>1. connections \in Seq(Clients) /\ connections' = Append(connections, d)
      BY <2>2 DEF BusInv, EventBusTypeOK, Connect
    <3>2. \A i \in DOMAIN connections :
            i \in DOMAIN connections' /\ connections'[i] = connections[i]
      BY <3>1
    <3> QED BY <3>2 DEF Connected
  <2>3. ASSUME NEW t \in Tasks, Purge(t)
        PROVE  c \in Connected' \/ c \in gone \/ at'[c] = "ended"
    <3>1. Removed(walk[t].dead) \subseteq gone
      <4>1. walk[t].dead \in Seq(gone)
        BY DEF BusInv, EventBusTypeOK
      <4> QED BY <4>1 DEF Removed
    <3>2. CASE connections' = Without(Removed(walk[t].dead))
      BY <3>1, <3>2, RemoveKeeps
    <3>3. CASE LoopRaises(t) /\ t \in Clients
      <4>1. connections' = Without(Removed(walk[t].dead) \cup {t})
        BY <3>3 DEF LoopRaises, Remove
      <4>2. c \in Connected' \/ c \in gone \/ c = t
        BY <3>1, <4>1, RemoveKeeps
      <4>3. at'[t] = "ended"
        BY <3>3 DEF LoopRaises, Leave, BusInv, EventBusTypeOK, Tasks
      <4> QED BY <4>2, <4>3
    <3> QED BY <2>3, <3>2, <3>3
        DEF Purge, EndpointSleeps, GreetingRaises, EventOut, RequestAnswered, Remove
  <2> QED BY <2>1, <2>2, <2>3
      DEF EventBusNext, Runs, Wake, Arrive, SocketBreaks, SendSucceeds, SendFails
<1> QED BY <1>1, BusInvariance, PTL DEF EventBusSpec, OnlyDeadRemoved
=============================================================================
