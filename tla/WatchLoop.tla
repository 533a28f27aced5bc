----------------------------- MODULE WatchLoop -----------------------------
(***************************************************************************)
(* watch/loop.py over watch/baseline.py: `watch` daemons that scan a list  *)
(* of targets round after round, record each report in a SQLite file they  *)
(* may share, and hand the diff with the previous snapshot to a callback.  *)
(* SIGINT and SIGTERM set a daemon's stop event; a daemon may be killed at *)
(* any point and started again on the file it left.                        *)
(*                                                                         *)
(* A scan is taken by what the orchestrator promises of it (ScanContract): *)
(* it ends, with a report or with an exception.  recorded_at is read from  *)
(* the wall clock, which advances while a daemon scans and may be set back.*)
(*                                                                         *)
(* Definitions named Bug_... are mutated forms used to test properties.    *)
(***************************************************************************)
EXTENDS BaselineStore, Sequences

CONSTANTS
  Daemons,        \* the `watch` processes on one database file
  Targets,        \* the sequence of targets each of them watches
  Setups,         \* what a daemon may be started with: a configuration of the
                  \* scans, and max_iterations (0 stands for None)
  Observations,   \* what the analyzers may come to, under each configuration
  RoundCap,       \* bound: rounds are counted up to RoundCap
  MaxReturned,    \* bound: how many scans return a report in all
  MaxStarts,      \* bound: how often each daemon is started
  MaxSetBacks     \* bound: how often the clock is set back

ASSUME WatchAssumption ==
  /\ Targets \in Seq(STRING) /\ Targets # <<>>
  /\ \A s \in Setups : s.config \in DOMAIN Observations
  /\ \A s \in Setups : s.max_iterations \in 0..RoundCap
  /\ MaxReturned \in Nat /\ MaxStarts \in Nat
  /\ MaxSetBacks \in Nat
  /\ RoundCap \in Nat

VARIABLES
  pc,             \* where each daemon is
  next,           \* the index of the target it is at
  iterations,     \* rounds it completed (counted up to RoundCap)
  roundsWithDiff, \* its rounds_with_diff
  stop,           \* whether its stop event is set
  setup,          \* what it was started with
  starts,         \* how often it was started
  report,         \* the report of its last scan
  diff,           \* the diff of its last scan
  rows,           \* the snapshots table
  clock,          \* the wall clock
  setBacks,       \* how often the clock was set back
  returned,       \* how many scans have returned a report
  snapshots,      \* history: every report recorded, in the order of commits
  entry,          \* history: which of them each daemon recorded last
  told,           \* history: those whose meaningful diff reached the callback
  lost            \* history: those whose daemon failed before the callback

counters == <<iterations, roundsWithDiff>>
locals   == <<report, diff>>
time     == <<clock, setBacks, returned>>
database == <<rows, time>>
history  == <<snapshots, entry, told, lost>>
run      == <<stop, setup, starts>>
vars     == <<pc, next, counters, run, locals, database, history>>

Down == "down"         \* not started, or killed
Ended == {"done", "died", Down}
Places == Ended \cup {"round", "target", "scanning", "recording", "diffing", "reporting",
                     "sleeping"}

NoReport == [target |-> "", config |-> "", analyzers |-> <<>>]

Init ==
  /\ pc = [d \in Daemons |-> Down]
  /\ next = [d \in Daemons |-> 1]
  /\ iterations = [d \in Daemons |-> 0]
  /\ roundsWithDiff = [d \in Daemons |-> 0]
  /\ stop = [d \in Daemons |-> FALSE]
  /\ setup \in [Daemons -> Setups]
  /\ starts = [d \in Daemons |-> 0]
  /\ report = [d \in Daemons |-> NoReport]
  /\ diff = [d \in Daemons |-> NoDiff]
  /\ rows = {}
  /\ clock = 0
  /\ setBacks = 0
  /\ returned = 0
  /\ snapshots = <<>>
  /\ entry = [d \in Daemons |-> 0]
  /\ told = {}
  /\ lost = {}

Goto(d, place) == pc' = [pc EXCEPT ![d] = place]

\* The `watch` command is started, possibly with other options than last time.
StartDaemon(d, s) ==
  /\ pc[d] \in Ended
  /\ starts[d] < MaxStarts
  /\ starts' = [starts EXCEPT ![d] = @ + 1]
  /\ setup' = [setup EXCEPT ![d] = s]
  /\ stop' = [stop EXCEPT ![d] = FALSE]
  /\ iterations' = [iterations EXCEPT ![d] = 0]
  /\ roundsWithDiff' = [roundsWithDiff EXCEPT ![d] = 0]
  /\ Goto(d, "round")
  /\ UNCHANGED <<next, locals, database, history>>

\* while not stop.is_set(): a round begins with the first target.
BeginRound(d) ==
  /\ pc[d] = "round"
  /\ IF stop[d] THEN Goto(d, "done") /\ UNCHANGED next
     ELSE Goto(d, "target") /\ next' = [next EXCEPT ![d] = 1]
  /\ UNCHANGED <<counters, run, locals, database, history>>

\* The next target of the round, unless the stop event is set.
BeginTarget(d) ==
  /\ pc[d] = "target"
  /\ next[d] <= Len(Targets)
  /\ Goto(d, IF stop[d] THEN "done" ELSE "scanning")
  /\ UNCHANGED <<next, counters, run, locals, database, history>>

LastRound(d, rounds) ==
  setup[d].max_iterations > 0 /\ rounds >= setup[d].max_iterations

Bug_CheckBeforeCount(d) ==
  /\ pc[d] = "target"
  /\ next[d] > Len(Targets)
  /\ iterations' = [iterations EXCEPT ![d] = IF @ < RoundCap THEN @ + 1 ELSE @]
  /\ Goto(d, IF LastRound(d, iterations[d]) THEN "done" ELSE "sleeping")
  /\ UNCHANGED <<next, roundsWithDiff, run, locals, database, history>>

\* Every target had its turn: the round counts, and may be the last.
EndRound(d) ==
  /\ pc[d] = "target"
  /\ next[d] > Len(Targets)
  /\ iterations' = [iterations EXCEPT ![d] = IF @ < RoundCap THEN @ + 1 ELSE @]
  /\ Goto(d, IF LastRound(d, iterations[d] + 1) THEN "done" ELSE "sleeping")
  /\ UNCHANGED <<next, roundsWithDiff, run, locals, database, history>>

Bug_WakeClearsStop(d) ==
  /\ pc[d] = "sleeping"
  /\ Goto(d, "round")
  /\ stop' = [stop EXCEPT ![d] = FALSE]
  /\ UNCHANGED <<next, counters, setup, starts, locals, database, history>>

\* The interval is over, or the stop event was set.
Wake(d) ==
  /\ pc[d] = "sleeping"
  /\ Goto(d, "round")
  /\ UNCHANGED <<next, counters, run, locals, database, history>>

\* await scan(target) returns: time has passed.
ScanReturns(d) ==
  /\ pc[d] = "scanning"
  /\ returned < MaxReturned
  /\ returned' = returned + 1
  /\ \E found \in Observations[setup[d].config] :
       report' = [report EXCEPT ![d] = [target |-> Targets[next[d]],
                                        config |-> setup[d].config,
                                        analyzers |-> found]]
  /\ clock' = clock + 2
  /\ Goto(d, "recording")
  /\ UNCHANGED <<next, counters, run, diff, rows, setBacks, history>>

Bug_NoCommit(d) ==
  /\ pc[d] = "recording"
  /\ snapshots' = Append(snapshots, report[d])
  /\ entry' = [entry EXCEPT ![d] = Len(snapshots) + 1]
  /\ Goto(d, "diffing")
  /\ UNCHANGED <<next, counters, run, locals, rows, time, told, lost>>

\* BaselineStore.record commits the report.
RecordReport(d) ==
  /\ pc[d] = "recording"
  /\ rows' = Record(rows, report[d], clock)
  /\ snapshots' = Append(snapshots, report[d])
  /\ entry' = [entry EXCEPT ![d] = Len(snapshots) + 1]
  /\ Goto(d, "diffing")
  /\ UNCHANGED <<next, counters, run, locals, time, told, lost>>

\* BaselineStore.diff_against_previous, in a transaction of its own.
ComputeDiff(d) ==
  /\ pc[d] = "diffing"
  /\ diff' = [diff EXCEPT ![d] = DiffAgainstPrevious(rows, report[d])]
  /\ Goto(d, "reporting")
  /\ UNCHANGED <<next, counters, run, report, database, history>>

LoseEntry(d) ==
  lost' = IF pc[d] \in {"diffing", "reporting"} THEN lost \cup {entry[d]} ELSE lost

Bug_FailureEndsRound(d) ==
  /\ pc[d] \in {"scanning", "recording", "diffing"}
  /\ next' = [next EXCEPT ![d] = Len(Targets) + 1]
  /\ Goto(d, "target")
  /\ LoseEntry(d)
  /\ UNCHANGED <<counters, run, locals, database, snapshots, entry, told>>

Bug_RetryTarget(d) ==
  /\ pc[d] \in {"scanning", "recording", "diffing"}
  /\ Goto(d, "target")
  /\ LoseEntry(d)
  /\ UNCHANGED <<next, counters, run, locals, database, snapshots, entry, told>>

\* The scan or one of the two store calls raises: logged, and on to the next
\* target.  A failure after the commit leaves the snapshot in the table.
FailTarget(d) ==
  /\ pc[d] \in {"scanning", "recording", "diffing"}
  /\ next' = [next EXCEPT ![d] = @ + 1]
  /\ Goto(d, "target")
  /\ LoseEntry(d)
  /\ UNCHANGED <<counters, run, locals, database, snapshots, entry, told>>

CountDiff(d) ==
  roundsWithDiff' = [roundsWithDiff EXCEPT ![d] = IF Meaningful(diff[d]) THEN @ + 1 ELSE @]

\* on_iteration is handed the report and its diff.
CallBack(d) ==
  /\ pc[d] = "reporting"
  /\ CountDiff(d)
  /\ told' = IF Meaningful(diff[d]) THEN told \cup {entry[d]} ELSE told
  /\ next' = [next EXCEPT ![d] = @ + 1]
  /\ Goto(d, "target")
  /\ UNCHANGED <<iterations, run, locals, database, snapshots, entry, lost>>

\* on_iteration raises (a closed terminal): it is called outside the try, so
\* the exception leaves watch_loop and ends the command.
CallBackRaises(d) ==
  /\ pc[d] = "reporting"
  /\ CountDiff(d)
  /\ LoseEntry(d)
  /\ Goto(d, "died")
  /\ UNCHANGED <<next, iterations, run, locals, database, snapshots, entry, told>>

\* The signal handler runs when the loop does, that is during an await.
StopSignal(d) ==
  /\ pc[d] \in {"scanning", "sleeping"}
  /\ ~stop[d]
  /\ stop' = [stop EXCEPT ![d] = TRUE]
  /\ UNCHANGED <<pc, next, counters, setup, starts, locals, database, history>>

\* The process is killed; what it has committed stays.
Kill(d) ==
  /\ pc[d] \notin Ended
  /\ Goto(d, Down)
  /\ LoseEntry(d)
  /\ UNCHANGED <<next, counters, run, locals, database, snapshots, entry, told>>

\* The wall clock is set back, between the times of earlier records or to the
\* very microsecond of one.
SetClockBack ==
  /\ setBacks < MaxSetBacks
  /\ setBacks' = setBacks + 1
  /\ \E earlier \in 0..(clock - 1) : clock' = earlier
  /\ UNCHANGED <<pc, next, counters, run, locals, rows, returned, history>>

AllEnded == \A d \in Daemons : pc[d] \in Ended /\ starts[d] = MaxStarts

Terminated == AllEnded /\ UNCHANGED vars

\* The daemon's own steps: as long as it lives it has one to take.
DaemonStep(d) ==
  \/ BeginRound(d) \/ BeginTarget(d) \/ EndRound(d) \/ Wake(d)
  \/ ScanReturns(d) \/ RecordReport(d) \/ ComputeDiff(d) \/ FailTarget(d)
  \/ CallBack(d) \/ CallBackRaises(d)

Next ==
  \/ \E d \in Daemons : DaemonStep(d) \/ StopSignal(d) \/ Kill(d)
  \/ \E d \in Daemons, s \in Setups : StartDaemon(d, s)
  \/ SetClockBack
  \/ Terminated

\* A live daemon keeps going: scans end (ScanContract), the interval passes,
\* SQLite calls return.  Whether they end well is left open.
Spec == Init /\ [][Next]_vars /\ \A d \in Daemons : WF_vars(DaemonStep(d))

-----------------------------------------------------------------------------
(* What the daemon is to guarantee                                         *)

TypeOK ==
  /\ pc \in [Daemons -> Places]
  /\ next \in [Daemons -> 1..(Len(Targets) + 1)]
  /\ iterations \in [Daemons -> 0..RoundCap]
  /\ roundsWithDiff \in [Daemons -> 0..MaxReturned]
  /\ stop \in [Daemons -> BOOLEAN]
  /\ setup \in [Daemons -> Setups]
  /\ starts \in [Daemons -> 0..MaxStarts]
  /\ entry \in [Daemons -> 0..Len(snapshots)]
  /\ clock \in Nat /\ setBacks \in 0..MaxSetBacks
  /\ returned \in 0..MaxReturned
  /\ told \cup lost \subseteq 1..Len(snapshots)
  /\ \A r, q \in rows : r.target = q.target /\ r.at = q.at => r = q

\* The snapshots of the same target recorded before the i-th one.
Earlier(i) == {j \in 1..(i - 1) : snapshots[j].target = snapshots[i].target}

\* The diff the i-th snapshot should give: against the one before it.
DriftOf(i) ==
  IF Earlier(i) = {} THEN NoDiff
  ELSE DiffOf(snapshots[CHOOSE j \in Earlier(i) : \A k \in Earlier(i) : k <= j],
              snapshots[i])

\* The diff a daemon is about to report is the one between the snapshot it
\* recorded and the target's snapshot before it, however many rounds, restarts
\* and failures lie between the two.
DiffIsAgainstPrevious ==
  \A d \in Daemons : pc[d] = "reporting" => diff[d] = DriftOf(entry[d])

\* Drift between two consecutive snapshots of a target reaches the callback
\* exactly once, unless a failure or a kill came between the commit of the
\* later one and the callback - then it is gone, for no later scan sees it.
DriftIsTold ==
  \A i \in 1..Len(snapshots) :
    \/ i \in lost
    \/ \E d \in Daemons : entry[d] = i /\ pc[d] \in {"diffing", "reporting"}
    \/ i \in told <=> Meaningful(DriftOf(i))

\* Whatever shares the table, a diff compares the daemon's own report with
\* some snapshot of the same target.
DiffIsOfSameTarget ==
  \A d \in Daemons :
    pc[d] = "reporting" /\ diff[d].exists =>
      \E i \in 1..Len(snapshots) : /\ snapshots[i].target = report[d].target
                                   /\ diff[d] = DiffOf(snapshots[i], report[d])

\* A daemon that ends of its own accord without a stop has completed its
\* max_iterations rounds, however many of its scans failed.
EndsAfterAllRounds ==
  \A d \in Daemons :
    pc[d] = "done" /\ ~stop[d] => /\ setup[d].max_iterations > 0
                                  /\ iterations[d] = setup[d].max_iterations

\* A failure costs one target of one round: however often the scans of others
\* fail, the turn of each target comes again and again, until the daemon is
\* stopped or ends.
NoTargetStarves ==
  \A d \in Daemons, i \in DOMAIN Targets :
    []<>(\/ pc[d] = "scanning" /\ next[d] = i
         \/ stop[d]
         \/ pc[d] \in Ended)

\* A daemon told to stop ends, even when every scan from then on fails.
StopEnds == \A d \in Daemons : stop[d] ~> pc[d] \in Ended

\* A daemon with max_iterations (watch --once) ends, even when no scan of it
\* ever succeeds.
BoundedRunEnds ==
  \A d \in Daemons :
    pc[d] = "round" /\ setup[d].max_iterations > 0 ~> pc[d] \in Ended

\* The reports a daemon may make of its targets.
PossibleReports ==
  UNION { {[target |-> Targets[i], config |-> c, analyzers |-> found] :
             i \in DOMAIN Targets, found \in Observations[c]} : c \in DOMAIN Observations }

\* What is committed and has not come to the callback.
Open == {entry[d] : d \in {e \in Daemons : pc[e] \in {"diffing", "reporting"}}}

Monitor == INSTANCE DriftMonitor WITH
  Reports <- PossibleReports,
  Drifts <- LAMBDA before, after : Meaningful(DiffOf(before, after)),
  log <- snapshots, pending <- Open, told <- told, lost <- lost

\* A daemon that has the table to itself and a steady clock is a drift monitor:
\* what it does with rounds, two transactions, failures, kills and restarts
\* shows nothing but reports that come in and are told of, or lost, in turn.
ImplementsMonitor == Monitor!Spec

-----------------------------------------------------------------------------
(* What the repository's text says and the code does not always do         *)

\* watch/baseline.py: snapshots are "keyed by target and config_hash".
DiffIsWithinOneConfig ==
  \A d \in Daemons :
    pc[d] = "diffing" =>
      \A r \in Previous(rows, report[d].target) : r.payload.config = report[d].config

\* README.md: watch "reports drift ... against the previous snapshot".
DriftReachesSomeone ==
  \A i \in 1..Len(snapshots) :
    \/ i \in lost \cup told
    \/ \E d \in Daemons : entry[d] = i /\ pc[d] \in {"diffing", "reporting"}
    \/ ~Meaningful(DriftOf(i))
=============================================================================
