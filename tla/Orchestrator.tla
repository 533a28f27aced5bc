---------------------------- MODULE Orchestrator ----------------------------
(***************************************************************************)
(* core/orchestrator.py: one event loop on which Orchestrator.run() is     *)
(* called again and again (once by `scan`, once per target and round by    *)
(* `watch`).  A call opens an HTTP client, creates one task per enabled    *)
(* analyzer and awaits asyncio.gather over them; each task passes the      *)
(* gate, awaits analyze() under wait_for, and turns its end into a record. *)
(* gather gives up at the first task that raises and leaves the others     *)
(* running, so tasks of an aborted scan may still run during later scans.  *)
(*                                                                         *)
(* A step is what the loop runs between two awaits, or the firing of a     *)
(* timer.  Time is not modelled: a deadline may pass at any moment.        *)
(*                                                                         *)
(* Definitions named Bug_... are mutated forms used to test properties.    *)
(***************************************************************************)
EXTENDS AuthorizationGate

CONSTANTS
  Analyzers,      \* the registered analyzers
  LegalClassOf,   \* the legal class each is registered with
  HttpAnalyzers,  \* those that send requests over the shared client
  Configs,        \* the configurations run() is called with
  Outcomes,       \* the ways analyze() may end
  ClockRetreats,  \* whether the wall clock may be set back during a scan
  MaxScans        \* bound: how many times run() is called

\* The exceptions _run_one tells apart, and the report of a normal end.
AllOutcomes == {"report", "timeout_error", "network_error", "analyzer_error",
                "other_error"}

ASSUME OrchestratorAssumption ==
  /\ LegalClassOf \in [Analyzers -> LegalClasses]
  /\ HttpAnalyzers \subseteq Analyzers
  /\ \A c \in Configs : c.enabled \subseteq Analyzers
  /\ Outcomes \subseteq AllOutcomes
  /\ ClockRetreats \in BOOLEAN
  /\ MaxScans \in Nat

VARIABLES
  loop,     \* the event loop: "open", "closing" (asyncio.run cancels), "closed"
  scan,     \* how many times run() has been called; the last one is current
  config,   \* the configuration of each call
  phase,    \* what each call came to: "none", "gathering", "returned", "aborted"
  client,   \* the HTTP client of each call: "none", "open", "closed"
  task,     \* the state of the task of each analyzer in each call
  report,   \* the ScanReport each call returned
  starved   \* history: the tasks that found their HTTP client closed

vars == <<loop, scan, config, phase, client, task, report, starved>>

Scans == 1..MaxScans

\* A task's life.  "expiring": wait_for has cancelled analyze(), which is
\* still unwinding; "cancelling": the task itself has been cancelled.
Active == {"created", "running", "expiring", "cancelling"}
\* Ends that carry an AnalyzerResult: status "ok" or "denied", or status
\* "error" under its error_kind.
Results == {"ok", "denied", "timeout", "network", "analyzer"}
Failures == {"raised", "cancelled"}
TaskStates == {"absent"} \cup Active \cup Results \cup Failures

NoConfig == [target |-> <<>>, enabled |-> {}, authorization |-> NoAuthorization,
             allowIntrusive |-> FALSE]

\* What the except clauses of _run_one make of the end of analyze().
Classified ==
  [report |-> "ok", timeout_error |-> "timeout", network_error |-> "network",
   analyzer_error |-> "analyzer", other_error |-> "raised"]

\* What config_hash distinguishes; the authorization is not hashed.
ConfigHash(c) == [c EXCEPT !.authorization = NoAuthorization]

NoResults == [a \in {} |-> "absent"]
NoReport == [hash |-> ConfigHash(NoConfig), results |-> NoResults]

GateAdmits(s, a) ==
  Admits(config[s].authorization, config[s].allowIntrusive, config[s].target,
         LegalClassOf[a])

Gathering(s) == s \in Scans /\ phase[s] = "gathering"

-----------------------------------------------------------------------------
Init ==
  /\ loop = "open"
  /\ scan = 0
  /\ config = [s \in Scans |-> NoConfig]
  /\ phase = [s \in Scans |-> "none"]
  /\ client = [s \in Scans |-> "none"]
  /\ task = [s \in Scans |-> [a \in Analyzers |-> "absent"]]
  /\ report = [s \in Scans |-> NoReport]
  /\ starved = {}

\* run(): open the client, create the tasks of the enabled analyzers, await
\* them.  The caller awaits run(), so no other call of it is under way.
Start(c) ==
  /\ loop = "open"
  /\ scan < MaxScans
  /\ ~Gathering(scan)
  /\ scan' = scan + 1
  /\ config' = [config EXCEPT ![scan + 1] = c]
  /\ phase' = [phase EXCEPT ![scan + 1] = "gathering"]
  /\ client' = [client EXCEPT ![scan + 1] = "open"]
  /\ task' = [task EXCEPT ![scan + 1] =
                [a \in Analyzers |-> IF a \in c.enabled THEN "created" ELSE "absent"]]
  /\ UNCHANGED <<loop, report, starved>>

Conclude(s, a, end) == task' = [task EXCEPT ![s][a] = end]

Bug_LaunchUnchecked(s, a) ==
  /\ task[s][a] = "created"
  /\ Conclude(s, a, "running")
  /\ UNCHANGED <<loop, scan, config, phase, client, report, starved>>

\* The first step of _run_one: the gate, then the analyzer or its denial.
Dispatch(s, a) ==
  /\ task[s][a] = "created"
  /\ Conclude(s, a, IF GateAdmits(s, a) THEN "running" ELSE "denied")
  /\ UNCHANGED <<loop, scan, config, phase, client, report, starved>>

\* analyze() ends in time.
Answer(s, a) ==
  /\ task[s][a] = "running"
  /\ \E o \in Outcomes : Conclude(s, a, Classified[o])
  /\ UNCHANGED <<loop, scan, config, phase, client, report, starved>>

\* analyze() sends a request over a client its scan has closed: httpx raises
\* RuntimeError, which no clause of _run_one catches.
SendOnClosedClient(s, a) ==
  /\ a \in HttpAnalyzers
  /\ task[s][a] = "running"
  /\ client[s] = "closed"
  /\ Conclude(s, a, Classified["other_error"])
  /\ starved' = starved \cup {<<s, a>>}
  /\ UNCHANGED <<loop, scan, config, phase, client, report>>

Bug_NoDeadline(s, a) == FALSE /\ task' = task

\* wait_for's deadline passes and analyze() is cancelled.
Expire(s, a) ==
  /\ task[s][a] = "running"
  /\ Conclude(s, a, "expiring")
  /\ UNCHANGED <<loop, scan, config, phase, client, report, starved>>

\* The cancelled analyze() has unwound.  Usually its CancelledError becomes
\* TimeoutError; a late answer or a failing clean-up wins over it.
Unwind(s, a) ==
  /\ \/ /\ task[s][a] = "expiring"
        /\ \E o \in Outcomes \cup {"timeout_error"} : Conclude(s, a, Classified[o])
     \/ /\ task[s][a] = "cancelling"
        /\ \E end \in {"cancelled"} \cup {Classified[o] : o \in Outcomes} :
             Conclude(s, a, end)
  /\ UNCHANGED <<loop, scan, config, phase, client, report, starved>>

Report(s) ==
  [hash |-> ConfigHash(config[s]),
   results |-> [a \in {b \in Analyzers : task[s][b] # "absent"} |-> task[s][a]]]

\* The scan is over: "async with make_client" closes the client.
End(s, how) ==
  /\ phase' = [phase EXCEPT ![s] = how]
  /\ client' = [client EXCEPT ![s] = "closed"]

Bug_ReturnFirstResult(s) ==
  /\ loop = "open" /\ Gathering(s)
  /\ \A a \in Analyzers : task[s][a] \notin Failures
  /\ \E a \in Analyzers : task[s][a] \in Results
  /\ End(s, "returned")
  /\ report' = [report EXCEPT ![s] = Report(s)]
  /\ UNCHANGED <<loop, scan, config, task, starved>>

Bug_AbortedReturns(s) ==
  /\ loop = "open" /\ Gathering(s)
  /\ \/ \A a \in Analyzers : task[s][a] \in {"absent"} \cup Results
     \/ \E a \in Analyzers : task[s][a] \in Failures
  /\ End(s, "returned")
  /\ report' = [report EXCEPT ![s] = Report(s)]
  /\ UNCHANGED <<loop, scan, config, task, starved>>

\* gather delivers: every task ended with a record, and run() returns the
\* report composed of them.
Return(s) ==
  /\ loop = "open" /\ Gathering(s)
  /\ \A a \in Analyzers : task[s][a] \in {"absent"} \cup Results
  /\ End(s, "returned")
  /\ report' = [report EXCEPT ![s] = Report(s)]
  /\ UNCHANGED <<loop, scan, config, task, starved>>

Bug_LateCancelIsLost(s) ==
  /\ Gathering(s)
  /\ \E a \in Analyzers : task[s][a] \in Failures
  /\ End(s, "aborted")
  /\ UNCHANGED <<loop, scan, config, task, report, starved>>

\* gather raises at the first task that did, without waiting for the others;
\* or run() itself was cancelled while it awaited gather.
Abort(s) ==
  /\ Gathering(s)
  /\ \/ \E a \in Analyzers : task[s][a] \in Failures
     \/ /\ loop = "closing"
        /\ \A a \in Analyzers : task[s][a] \in {"absent"} \cup Results
  /\ End(s, "aborted")
  /\ UNCHANGED <<loop, scan, config, task, report, starved>>

\* Every task ended with a record, but by the wall clock the scan took less
\* than no time: ScanReport refuses a negative duration_ms and run() raises.
RejectReport(s) ==
  /\ ClockRetreats
  /\ loop = "open" /\ Gathering(s)
  /\ \A a \in Analyzers : task[s][a] \in {"absent"} \cup Results
  /\ End(s, "aborted")
  /\ UNCHANGED <<loop, scan, config, task, report, starved>>

\* The command ends - asyncio.run's main coroutine has finished, or Ctrl-C
\* cancels it in the middle of a scan - and asyncio.run cancels every task
\* left.  One that has not taken its first step never will.
CloseLoop ==
  /\ loop = "open"
  /\ loop' = "closing"
  /\ task' = [s \in Scans |-> [a \in Analyzers |->
                CASE task[s][a] = "created" -> "cancelled"
                  [] task[s][a] \in {"running", "expiring"} -> "cancelling"
                  [] OTHER -> task[s][a]]]
  /\ UNCHANGED <<scan, config, phase, client, report, starved>>

\* asyncio.run returns when nothing is left to run.
LoopClosed ==
  /\ loop = "closing"
  /\ ~Gathering(scan)
  /\ \A s \in Scans, a \in Analyzers : task[s][a] \notin Active
  /\ loop' = "closed"
  /\ UNCHANGED <<scan, config, phase, client, task, report, starved>>

Terminated == loop = "closed" /\ UNCHANGED vars

TaskStep(s, a) ==
  \/ Dispatch(s, a)
  \/ Answer(s, a)
  \/ SendOnClosedClient(s, a)
  \/ Expire(s, a)
  \/ Unwind(s, a)

Next ==
  \/ \E c \in Configs : Start(c)
  \/ \E s \in Scans, a \in Analyzers : TaskStep(s, a)
  \/ \E s \in Scans : Return(s) \/ Abort(s) \/ RejectReport(s)
  \/ CloseLoop
  \/ LoopClosed
  \/ Terminated

\* The loop runs what is ready, timers fire, and a cancelled coroutine
\* unwinds.  Nothing promises that analyze() ends by itself, that run() is
\* called again, or that the command ends.
Fairness ==
  /\ \A s \in Scans, a \in Analyzers :
       /\ WF_vars(Dispatch(s, a))
       /\ WF_vars(Expire(s, a))
       /\ WF_vars(Unwind(s, a))
  /\ \A s \in Scans : WF_vars(Return(s) \/ RejectReport(s)) /\ WF_vars(Abort(s))
  /\ WF_vars(LoopClosed)

Spec == Init /\ [][Next]_vars /\ Fairness

-----------------------------------------------------------------------------
(* What the orchestrator is to guarantee                                   *)

\* Every variable holds a value the code can give it.
TypeOK ==
  /\ loop \in {"open", "closing", "closed"}
  /\ scan \in 0..MaxScans
  /\ config \in [Scans -> Configs \cup {NoConfig}]
  /\ phase \in [Scans -> {"none", "gathering", "returned", "aborted"}]
  /\ client \in [Scans -> {"none", "open", "closed"}]
  /\ task \in [Scans -> [Analyzers -> TaskStates]]
  /\ report \in [Scans -> [hash : {ConfigHash(c) : c \in Configs \cup {NoConfig}},
                          results : UNION {[names -> Results] :
                                             names \in SUBSET Analyzers}]]
  /\ starved \subseteq Scans \X Analyzers

Launched == {"running", "expiring", "ok", "timeout", "network", "analyzer", "raised"}

\* However the tasks of however many scans interleave, an analyzer that was
\* ever launched by _run_one was admitted by the gate of its own scan, for
\* that scan's target and authorization.
LaunchedOnlyIfAdmitted ==
  \A s \in Scans, a \in Analyzers : task[s][a] \in Launched => GateAdmits(s, a)

\* A report run() returned has one result for every enabled analyzer and for
\* no other, and says "denied" of exactly those the gate of that scan refuses.
ReportIsComplete ==
  \A s \in Scans : phase[s] = "returned" =>
    LET results == report[s].results
    IN  /\ DOMAIN results = config[s].enabled
        /\ \A a \in DOMAIN results :
             /\ results[a] \in Results
             /\ results[a] = "denied" <=> ~GateAdmits(s, a)

\* An analyzer still active outside the scan being gathered is a straggler of
\* an aborted scan: a scan that returned a report has left nothing running.
StragglersAreAborted ==
  \A s \in Scans, a \in Analyzers :
    task[s][a] \in Active /\ phase[s] # "gathering" => phase[s] = "aborted"

\* An analyzer finds its shared HTTP client closed only when its own scan was
\* aborted by another task; and the client of a scan being gathered is open.
ClientServesItsScan ==
  /\ \A s \in Scans : phase[s] = "gathering" <=> client[s] = "open"
  /\ \A w \in starved : phase[w[1]] = "aborted"

\* What a step leaves alone of the scans that returned.
ReportsUntouched ==
  \A s \in Scans : phase[s] = "returned" =>
    /\ report'[s] = report[s]
    /\ phase'[s] = "returned"
    /\ task'[s] = task[s]

\* A returned report is final: no late answer, timeout or straggler of any
\* scan changes it or the task ends it was composed of.
ReportIsFinal == [][ReportsUntouched]_vars

\* Every scan ends, even when no analyzer ever answers: wait_for bounds each
\* analyzer and gather waits for nothing else.
ScanEnds == \A s \in Scans : phase[s] = "gathering" ~> phase[s] # "gathering"

\* Once the command ends, asyncio.run comes to its end: no straggler of any
\* earlier scan keeps the process alive.
LoopCloses == loop = "closing" ~> loop = "closed"

\* The orchestrator keeps the contract its callers count on.
Contract == INSTANCE ScanContract WITH
  accepting <- loop = "open",
  calls <- [s \in 1..scan |-> [config |-> config[s], how |-> phase[s],
                               results |-> report[s].results]],
  Refused <- LAMBDA c, a : ~Admits(c.authorization, c.allowIntrusive, c.target,
                                   LegalClassOf[a])

\* run() implements ScanContract: the tasks, deadlines, stragglers and clients
\* of all scans together show a caller nothing the contract does not allow.
ImplementsContract == Contract!Spec

-----------------------------------------------------------------------------
(* What the repository's comments say and the code does not do             *)

\* core/schema.py, AnalyzerResult: "Wraps an analyzer outcome with status -
\* never raise across the boundary".
NeverRaisesAcrossBoundary ==
  \A s \in Scans : phase[s] = "aborted" => loop # "open"
=============================================================================
