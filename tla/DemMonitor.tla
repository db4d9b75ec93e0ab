------------------------------ MODULE DemMonitor ------------------------------
(***************************************************************************)
(* The event log (sim/dem.py), GET /ecu/events and the live monitor's view *)
(* of it (docs/secure_flashing_classic_monitor.html, refreshEvents).  The  *)
(* monitor fetches the whole log on every message and every three seconds, *)
(* so several responses can be under way and overtake each other; it       *)
(* renders by comparing lengths with the one it rendered last.             *)
(***************************************************************************)
EXTENDS Integers, Sequences

CONSTANTS
  Polls,      \* fetches that can be under way at the same time
  MaxEvents,  \* bound: length of the log
  MaxRuns,    \* bound: times the log is emptied
  None

ASSUME DemMonitorAssumption ==
  MaxEvents \in Nat /\ MaxRuns \in Nat /\ None \notin Seq(Nat \X Nat)

VARIABLES
  run,            \* times the log has been emptied: the numbers start again
  length,         \* events in DEM._events; the last one's number is _counter
  responses,      \* snapshots on their way to the monitor
  lastEventCount, \* the monitor's cursor
  demLog          \* the entries it shows, oldest first

monitorVars == <<run, length, responses, lastEventCount, demLog>>

\* Mutant of EventsOf: the counter is raised after the identifier is made.
EventsFromZero(r, n) == [i \in 1..n |-> <<r, i - 1>>]

\* The number in event_id repeats after a clear; the run tells events apart.
EventsOf(r, n) == [i \in 1..n |-> <<r, i>>]
Events == (0..MaxRuns) \X (1..MaxEvents)

MonitorTypeOK ==
  /\ run \in 0..MaxRuns
  /\ length \in 0..MaxEvents
  /\ responses \in [Polls -> Seq(Events) \cup {None}]
  /\ lastEventCount \in 0..MaxEvents
  /\ demLog \in Seq(Events)

MonitorInit ==
  /\ run = 0
  /\ length = 0
  /\ responses = [p \in Polls |-> None]
  /\ lastEventCount = 0
  /\ demLog = <<>>

-----------------------------------------------------------------------------
\* DEM.log, from whatever handler.
Log ==
  /\ length < MaxEvents
  /\ length' = length + 1
  /\ UNCHANGED <<run, responses, lastEventCount, demLog>>

\* DEM.clear, in one step with what the scenario that cleared it logs.
ClearByScenario(logged) ==
  /\ run < MaxRuns
  /\ run' = run + 1
  /\ length' = logged
  /\ UNCHANGED <<responses, lastEventCount, demLog>>

\* A new process has a new DEM; fetches under way fail.
ServerRestart ==
  /\ run < MaxRuns
  /\ run' = run + 1
  /\ length' = 0
  /\ responses' = [p \in Polls |-> None]
  /\ UNCHANGED <<lastEventCount, demLog>>

\* GET /ecu/events is handled: the response is a copy of the log.
Serve(p) ==
  /\ responses[p] = None
  /\ responses' = [responses EXCEPT ![p] = EventsOf(run, length)]
  /\ UNCHANGED <<run, length, lastEventCount, demLog>>

\* Mutant of NewEntries: the entry at the cursor again.
NewEntriesAgain(events) ==
  SubSeq(events, IF lastEventCount = 0 THEN 1 ELSE lastEventCount, Len(events))

\* events.slice(lastEventCount)
NewEntries(events) == SubSeq(events, lastEventCount + 1, Len(events))

\* Longer: the new entries are added; shorter: taken for a cleared log and
\* rendered from scratch; as long as the last one: taken for the same log.
Rendered(events) ==
  IF Len(events) > lastEventCount THEN demLog \o NewEntries(events)
  ELSE IF Len(events) < lastEventCount THEN events
  ELSE demLog

\* Mutant of Counted: the cursor never goes back.
CountedUp(events) ==
  IF Len(events) > lastEventCount THEN Len(events) ELSE lastEventCount

Counted(events) == Len(events)

\* A response reaches refreshEvents.
Arrive(p) ==
  /\ responses[p] # None
  /\ demLog' = Rendered(responses[p])
  /\ lastEventCount' = Counted(responses[p])
  /\ responses' = [responses EXCEPT ![p] = None]
  /\ UNCHANGED <<run, length>>

\* The fetch fails: the catch leaves everything as it is.
Fail(p) ==
  /\ responses[p] # None
  /\ responses' = [responses EXCEPT ![p] = None]
  /\ UNCHANGED <<run, length, lastEventCount, demLog>>

\* clearDem empties the view and leaves the cursor.
ClearView ==
  /\ demLog' = <<>>
  /\ UNCHANGED <<run, length, responses, lastEventCount>>

MonitorNext ==
  \/ Log \/ ServerRestart \/ ClearView
  \/ \E logged \in 0..MaxEvents : ClearByScenario(logged)
  \/ \E p \in Polls : Serve(p) \/ Arrive(p) \/ Fail(p)

\* setInterval goes on fetching, and a backend that can be reached answers in
\* the end: not every fetch of a slot fails.
MonitorSpec ==
  /\ MonitorInit
  /\ [][MonitorNext]_monitorVars
  /\ \A p \in Polls : WF_monitorVars(Serve(p)) /\ SF_monitorVars(Arrive(p))

-----------------------------------------------------------------------------
\* The entries shown are numbered without a gap or a repetition up to the
\* cursor, however responses overtake each other and the log is emptied: the
\* slice and the cursor of refreshEvents stay together across its await.
GaplessView ==
  \A i \in DOMAIN demLog : demLog[i][2] = lastEventCount - Len(demLog) + i

\* A log that has come to rest is counted: an old response that arrives after a
\* newer one sets the view back only until the next.
CatchesUp ==
  \A n \in 0..MaxEvents, r \in 0..MaxRuns :
    (run = r /\ length = n)
      ~> (lastEventCount = n \/ length # n \/ run # r)
=============================================================================
