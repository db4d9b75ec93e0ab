---------------------------- MODULE DemMonitorProofs ----------------------------
(***************************************************************************)
(* The monitor's view of the event log has no gap and no repetition, for   *)
(* any number of fetches under way and any bounds.                         *)
(***************************************************************************)
EXTENDS DemMonitor, TLAPS

\* A response is a log from its first event on.
WholeLogs ==
  \A p \in Polls : responses[p] # None =>
    \E r \in 0..MaxRuns, n \in 0..MaxEvents : responses[p] = EventsOf(r, n)

MonitorInv == MonitorTypeOK /\ WholeLogs /\ GaplessView

\* What DEM.get_events returns: n events, numbered from 1.
LEMMA LogOf ==
  ASSUME NEW r \in 0..MaxRuns, NEW n \in 0..MaxEvents
  PROVE  /\ EventsOf(r, n) \in Seq(Events)
         /\ EventsOf(r, n) # None
         /\ Len(EventsOf(r, n)) = n
         /\ \A i \in 1..n : EventsOf(r, n)[i] = <<r, i>>
<1> USE DemMonitorAssumption DEF DemMonitorAssumption
<1>1. \A i \in 1..n : <<r, i>> \in Events
  BY DEF Events
<1>2. /\ EventsOf(r, n) \in [1..n -> Events]
      /\ \A i \in 1..n : EventsOf(r, n)[i] = <<r, i>>
  BY <1>1 DEF EventsOf
<1>3. EventsOf(r, n) \in Seq(Events) /\ Len(EventsOf(r, n)) = n
  BY <1>2
<1>4. EventsOf(r, n) \in Seq(Nat \X Nat)
  <2>1. \A i \in 1..n : <<r, i>> \in Nat \X Nat
    OBVIOUS
  <2> QED BY <2>1 DEF EventsOf
<1> QED BY <1>2, <1>3, <1>4

\* A monitor that has fetched nothing.
LEMMA InitMonitor == MonitorInit => MonitorInv
  BY DemMonitorAssumption
  DEF MonitorInit, MonitorInv, MonitorTypeOK, WholeLogs, GaplessView,
      DemMonitorAssumption

\* refreshEvents on a whole log: slice and cursor go together.
LEMMA RenderStep ==
  ASSUME MonitorInv, NEW p \in Polls, Arrive(p)
  PROVE  /\ demLog' \in Seq(Events)
         /\ lastEventCount' \in 0..MaxEvents
         /\ GaplessView'
<1> USE DemMonitorAssumption DEF DemMonitorAssumption
<1>1. PICK r \in 0..MaxRuns, n \in 0..MaxEvents : responses[p] = EventsOf(r, n)
  BY DEF MonitorInv, WholeLogs, Arrive
<1> DEFINE events == responses[p]
<1>2. /\ events \in Seq(Events) /\ Len(events) = n
      /\ \A i \in 1..n : events[i][2] = i
  BY <1>1, LogOf
<1>3. /\ demLog \in Seq(Events) /\ lastEventCount \in 0..MaxEvents
      /\ \A i \in 1..Len(demLog) :
           demLog[i][2] = lastEventCount - Len(demLog) + i
  BY DEF MonitorInv, MonitorTypeOK, GaplessView
<1>4. lastEventCount' = n /\ demLog' = Rendered(events)
  BY <1>2 DEF Arrive, Counted
<1> HIDE DEF events
<1>5. CASE n > lastEventCount
  <2> DEFINE added == NewEntries(events)
  <2>1. /\ added \in Seq(Events) /\ Len(added) = n - lastEventCount
        /\ \A j \in 1..Len(added) : added[j] = events[lastEventCount + j]
    BY <1>2, <1>3, <1>5 DEF NewEntries
  <2>2. demLog' = demLog \o added
    BY <1>2, <1>4, <1>5 DEF Rendered
  <2> HIDE DEF added
  <2>3. demLog' \in Seq(Events) /\ Len(demLog') = Len(demLog) + Len(added)
    <3>1. demLog \in Seq(Events) /\ added \in Seq(Events)
      BY <1>3, <2>1
    <3> QED BY <2>2, <3>1
  <2>4. ASSUME NEW i \in 1..Len(demLog')
        PROVE  demLog'[i][2] = n - Len(demLog') + i
    <3>1. CASE i <= Len(demLog)
      <4>1. demLog'[i] = demLog[i]
        BY <1>3, <2>1, <2>2, <2>3, <3>1
      <4> QED BY <1>3, <2>1, <2>3, <3>1, <4>1
    <3>2. CASE i > Len(demLog)
      <4>1. demLog'[i] = added[i - Len(demLog)]
        BY <1>3, <2>1, <2>2, <2>3, <3>2
      <4>2. i - Len(demLog) \in 1..Len(added)
        BY <1>3, <2>1, <2>3, <3>2
      <4>3. demLog'[i][2] = lastEventCount + (i - Len(demLog))
        BY <1>2, <1>3, <2>1, <4>1, <4>2
      <4> QED BY <1>3, <2>1, <2>3, <4>3
    <3> QED BY <1>3, <2>3, <3>1, <3>2
  <2>5. DOMAIN demLog' = 1..Len(demLog')
    BY <2>3
  <2>6. GaplessView'
    BY <1>4, <2>4, <2>5 DEF GaplessView
  <2> QED BY <1>4, <2>3, <2>6
<1>6. CASE n < lastEventCount
  <2>1. demLog' = events
    BY <1>2, <1>3, <1>4, <1>6 DEF Rendered
  <2> QED BY <1>2, <1>4, <2>1 DEF GaplessView
<1>7. CASE n = lastEventCount
  <2>1. demLog' = demLog
    BY <1>2, <1>3, <1>4, <1>7 DEF Rendered
  <2> QED BY <1>3, <1>4, <1>7, <2>1 DEF GaplessView
<1> QED BY <1>3, <1>5, <1>6, <1>7

\* Every step of the backend, the network and the page keeps the invariant.
LEMMA MonitorStep == MonitorInv /\ [MonitorNext]_monitorVars => MonitorInv'
<1> SUFFICES ASSUME MonitorInv, [MonitorNext]_monitorVars PROVE MonitorInv'
  OBVIOUS
<1> USE DemMonitorAssumption
    DEF DemMonitorAssumption, MonitorInv, MonitorTypeOK, WholeLogs
<1>1. CASE Log \/ \E logged \in 0..MaxEvents : ClearByScenario(logged)
  BY <1>1 DEF Log, ClearByScenario, GaplessView
<1>2. CASE ServerRestart
  BY <1>2 DEF ServerRestart, GaplessView
<1>3. CASE ClearView
  <2>1. demLog' = <<>> /\ UNCHANGED <<run, length, responses, lastEventCount>>
    BY <1>3 DEF ClearView
  <2> QED BY <2>1 DEF GaplessView
<1>4. ASSUME NEW p \in Polls, Serve(p) PROVE MonitorInv'
  <2>1. EventsOf(run, length) \in Seq(Events)
    BY LogOf
  <2>2. /\ responses' = [responses EXCEPT ![p] = EventsOf(run, length)]
        /\ UNCHANGED <<run, length, lastEventCount, demLog>>
    BY <1>4 DEF Serve
  <2>3. WholeLogs'
    BY <2>2
  <2>4. MonitorTypeOK'
    BY <2>1, <2>2
  <2> QED BY <2>2, <2>3, <2>4 DEF GaplessView
<1>5. ASSUME NEW p \in Polls, Arrive(p) PROVE MonitorInv'
  <2>1. /\ responses' = [responses EXCEPT ![p] = None]
        /\ UNCHANGED <<run, length>>
    BY <1>5 DEF Arrive
  <2> QED BY <1>5, <2>1, RenderStep
<1>6. ASSUME NEW p \in Polls, Fail(p) PROVE MonitorInv'
  BY <1>6 DEF Fail, GaplessView
<1>7. CASE UNCHANGED monitorVars
  BY <1>7 DEF monitorVars, GaplessView
<1> QED
  BY <1>1, <1>2, <1>3, <1>4, <1>5, <1>6, <1>7 DEF MonitorNext

\* What the theorems are read off.
LEMMA MonitorInvariance == MonitorSpec => []MonitorInv
  BY InitMonitor, MonitorStep, PTL DEF MonitorSpec

\* The backend's log, the snapshots and the page keep their types.
THEOREM MonitorTypes == MonitorSpec => []MonitorTypeOK
<1>1. MonitorInv => MonitorTypeOK
  BY DEF MonitorInv
<1> QED BY <1>1, MonitorInvariance, PTL

\* refreshEvents shows the log without a gap or a repetition up to its cursor,
\* however many of its fetches overtake each other.
THEOREM ViewIsGapless == MonitorSpec => []GaplessView
<1>1. MonitorInv => GaplessView
  BY DEF MonitorInv
<1> QED BY <1>1, MonitorInvariance, PTL
=============================================================================
