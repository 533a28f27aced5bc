-------------------------- MODULE OrchestratorProofs --------------------------
(***************************************************************************)
(* Proofs about the orchestrator, for any analyzers, configurations and    *)
(* number of scans.                                                        *)
(*                                                                         *)
(* The properties of Orchestrator are not inductive: that a returned       *)
(* report is complete rests on which tasks a scan creates (TasksAreEnabled)*)
(* and on a returned scan having only concluded tasks (ReturnedIsDone);    *)
(* that an analyzer was admitted must also be known of a cancelled task    *)
(* that may still deliver its answer; and that a straggler's scan was      *)
(* aborted rests on only the last scan ever being gathered.                *)
(***************************************************************************)
EXTENDS Orchestrator, TLAPS

\* Scans are begun in order, and only the last one may be under way.
ScansInOrder ==
  \A s \in Scans : /\ phase[s] = "none" <=> s > scan
                   /\ phase[s] = "gathering" => s = scan

\* A scan has a task for every enabled analyzer, and for no other.
TasksAreEnabled ==
  \A s \in Scans, a \in Analyzers :
    task[s][a] # "absent" <=> phase[s] # "none" /\ a \in config[s].enabled

\* Tasks past the gate were admitted by it, and denied ones refused.
GateObeyed ==
  \A s \in Scans, a \in Analyzers :
    /\ task[s][a] \in Launched \cup {"cancelling"} => GateAdmits(s, a)
    /\ task[s][a] = "denied" => ~GateAdmits(s, a)

\* A returned scan has only concluded tasks, and its report is theirs.
ReturnedIsDone ==
  \A s \in Scans : phase[s] = "returned" =>
    /\ \A a \in Analyzers : task[s][a] \in {"absent"} \cup Results
    /\ report[s] = Report(s)

\* The client of a scan is open while it gathers and closed ever after.
ClientFollowsPhase ==
  \A s \in Scans : /\ phase[s] = "gathering" <=> client[s] = "open"
                   /\ phase[s] \in {"returned", "aborted"} <=> client[s] = "closed"

StarvedWasAborted == \A w \in starved : phase[w[1]] = "aborted"

IInv ==
  /\ TypeOK
  /\ ScansInOrder
  /\ TasksAreEnabled
  /\ GateObeyed
  /\ ReturnedIsDone
  /\ ClientFollowsPhase
  /\ StarvedWasAborted

-----------------------------------------------------------------------------
(* Facts about the operators                                               *)

Ends == {"ok", "timeout", "network", "analyzer", "raised"}

\* Every end of analyze() is classified as a result or as a raise, and never
\* as a denial.
LEMMA ClassifiedIsEnd == \A o \in AllOutcomes : Classified[o] \in Ends
BY DEF AllOutcomes, Classified, Ends

\* The report composed of a scan's tasks, when each of them concluded with a
\* result or was never created, maps some analyzers to results.
LEMMA ReportIsTyped ==
  ASSUME TypeOK, NEW s \in Scans,
         \A a \in Analyzers : task[s][a] \in {"absent"} \cup Results
  PROVE  Report(s) \in [hash : {ConfigHash(c) : c \in Configs \cup {NoConfig}},
                        results : UNION {[names -> Results] :
                                           names \in SUBSET Analyzers}]
<1> DEFINE names == {b \in Analyzers : task[s][b] # "absent"}
           results == [a \in names |-> task[s][a]]
<1>1. ConfigHash(config[s]) \in {ConfigHash(c) : c \in Configs \cup {NoConfig}}
  BY DEF TypeOK
<1>2. names \in SUBSET Analyzers
  OBVIOUS
<1>3. results \in [names -> Results]
  OBVIOUS
<1>4. results \in UNION {[n -> Results] : n \in SUBSET Analyzers}
  BY <1>2, <1>3
<1> QED BY <1>1, <1>4 DEF Report

-----------------------------------------------------------------------------
(* The steps of a task                                                     *)

\* What any step of the task of analyzer a in scan s comes to: the task moves
\* from an active state to one the gate allows it, and nothing else changes
\* but the history of tasks that found their client closed.
TaskEffect(s, a) ==
  /\ UNCHANGED <<loop, scan, config, phase, client, report>>
  /\ task[s][a] \in Active
  /\ \E end \in TaskStates \ {"absent"} :
       /\ Conclude(s, a, end)
       /\ end \in Launched \cup {"cancelling"} => GateAdmits(s, a)
       /\ end = "denied" => ~GateAdmits(s, a)
  /\ \/ starved' = starved
     \/ starved' = starved \cup {<<s, a>>} /\ client[s] = "closed"

LEMMA TaskStepEffect ==
  ASSUME TypeOK, GateObeyed, NEW s \in Scans, NEW a \in Analyzers, TaskStep(s, a)
  PROVE  TaskEffect(s, a)
<1> USE DEF TaskEffect, Active
<1>a. \A o \in Outcomes \cup {"timeout_error", "other_error"} : Classified[o] \in Ends
  BY ClassifiedIsEnd, OrchestratorAssumption DEF AllOutcomes
<1>b. Ends \subseteq TaskStates \ {"absent", "denied"}
  BY DEF Ends, TaskStates, Results, Failures
<1>c. ASSUME task[s][a] \in {"running", "expiring", "cancelling"}
      PROVE  GateAdmits(s, a)
  BY <1>c DEF GateObeyed, Launched
<1>1. CASE Dispatch(s, a)
  BY <1>1 DEF Dispatch, TaskStates, Results, Launched
<1>2. CASE Answer(s, a)
  <2>1. PICK o \in Outcomes : Conclude(s, a, Classified[o])
    BY <1>2 DEF Answer
  <2>2. GateAdmits(s, a)
    BY <1>2, <1>c DEF Answer
  <2> QED BY <1>2, <2>1, <2>2, <1>a, <1>b DEF Answer
<1>3. CASE SendOnClosedClient(s, a)
  <2>1. GateAdmits(s, a)
    BY <1>3, <1>c DEF SendOnClosedClient
  <2> QED BY <1>3, <2>1, <1>a, <1>b DEF SendOnClosedClient
<1>4. CASE Expire(s, a)
  <2>1. GateAdmits(s, a)
    BY <1>4, <1>c DEF Expire
  <2> QED BY <1>4, <2>1 DEF Expire, TaskStates
<1>5. CASE Unwind(s, a)
  <2>1. GateAdmits(s, a)
    BY <1>5, <1>c DEF Unwind
  <2>2. PICK end \in TaskStates \ {"absent", "denied"} : Conclude(s, a, end)
    <3>1. CASE \E o \in Outcomes \cup {"timeout_error"} : Conclude(s, a, Classified[o])
      BY <3>1, <1>a, <1>b
    <3>2. CASE \E end \in {"cancelled"} \cup {Classified[o] : o \in Outcomes} :
                 Conclude(s, a, end)
      BY <3>2, <1>a, <1>b DEF TaskStates, Failures
    <3> QED BY <1>5, <3>1, <3>2 DEF Unwind
  <2> QED BY <1>5, <2>1, <2>2 DEF Unwind
<1> QED BY <1>1, <1>2, <1>3, <1>4, <1>5 DEF TaskStep

-----------------------------------------------------------------------------
(* The invariant is inductive: one lemma per kind of step                  *)

\* Before the first call the invariant holds.
LEMMA InitEstablishes == Init => IInv
<1> SUFFICES ASSUME Init PROVE IInv
  OBVIOUS
<1> USE OrchestratorAssumption DEF Init, Scans
<1>1. TypeOK
  <2>1. NoReport \in [hash : {ConfigHash(c) : c \in Configs \cup {NoConfig}},
                      results : UNION {[names -> Results] : names \in SUBSET Analyzers}]
    <3>1. ConfigHash(NoConfig) \in {ConfigHash(c) : c \in Configs \cup {NoConfig}}
      OBVIOUS
    <3>2. NoResults \in [{} -> Results] /\ {} \in SUBSET Analyzers
      BY DEF NoResults
    <3>3. NoResults \in UNION {[names -> Results] : names \in SUBSET Analyzers}
      BY <3>2
    <3> QED BY <3>1, <3>3 DEF NoReport
  <2> QED BY <2>1 DEF TypeOK, TaskStates
<1>2. ScansInOrder /\ TasksAreEnabled /\ ReturnedIsDone /\ ClientFollowsPhase
  BY DEF ScansInOrder, TasksAreEnabled, ReturnedIsDone, ClientFollowsPhase
<1>3. GateObeyed /\ StarvedWasAborted
  BY DEF GateObeyed, Launched, StarvedWasAborted
<1> QED BY <1>1, <1>2, <1>3 DEF IInv

\* A new call of run() has only tasks that were not launched yet, and touches
\* none of the tasks, clients and reports of earlier calls.
LEMMA StartPreserves ==
  ASSUME IInv, NEW c \in Configs, Start(c)
  PROVE  IInv'
<1> USE OrchestratorAssumption DEF Scans
<1> DEFINE n == scan + 1
<1>1. /\ n \in Scans
      /\ scan' = n
      /\ config' = [config EXCEPT ![n] = c]
      /\ phase' = [phase EXCEPT ![n] = "gathering"]
      /\ client' = [client EXCEPT ![n] = "open"]
      /\ task' = [task EXCEPT ![n] =
                   [a \in Analyzers |-> IF a \in c.enabled THEN "created" ELSE "absent"]]
      /\ UNCHANGED <<loop, report, starved>>
  BY DEF Start, IInv, TypeOK
<1>2. TypeOK'
  BY <1>1 DEF IInv, TypeOK, TaskStates, Active
<1>3. ASSUME NEW s \in Scans, s # n
      PROVE  /\ config'[s] = config[s] /\ phase'[s] = phase[s]
             /\ client'[s] = client[s] /\ task'[s] = task[s] /\ report'[s] = report[s]
  BY <1>1, <1>3 DEF IInv, TypeOK
<1>4. /\ config'[n] = c /\ phase'[n] = "gathering" /\ client'[n] = "open"
      /\ \A a \in Analyzers :
           task'[n][a] = IF a \in c.enabled THEN "created" ELSE "absent"
  BY <1>1 DEF IInv, TypeOK
<1>5. phase[n] = "none"
  BY <1>1 DEF IInv, ScansInOrder, TypeOK
<1>6. ScansInOrder'
  <2>1. \A s \in Scans : phase[s] # "gathering"
    BY DEF Start, Gathering, IInv, ScansInOrder
  <2> QED BY <1>1, <1>3, <1>4, <2>1 DEF IInv, ScansInOrder, TypeOK
<1>7. TasksAreEnabled'
  BY <1>3, <1>4 DEF IInv, TasksAreEnabled
<1>8. GateObeyed'
  <2> SUFFICES ASSUME NEW s \in Scans, NEW a \in Analyzers
               PROVE  /\ task'[s][a] \in Launched \cup {"cancelling"} => GateAdmits(s, a)'
                      /\ task'[s][a] = "denied" => ~GateAdmits(s, a)'
    BY DEF GateObeyed
  <2>1. CASE s = n
    BY <2>1, <1>4 DEF Launched
  <2>2. CASE s # n
    <3>1. GateAdmits(s, a)' <=> GateAdmits(s, a)
      BY <1>3, <2>2 DEF GateAdmits
    <3> QED BY <1>3, <2>2, <3>1 DEF IInv, GateObeyed
  <2> QED BY <2>1, <2>2
<1>9. ReturnedIsDone'
  <2> SUFFICES ASSUME NEW s \in Scans, phase'[s] = "returned"
               PROVE  /\ \A a \in Analyzers : task'[s][a] \in {"absent"} \cup Results
                      /\ report'[s] = Report(s)'
    BY DEF ReturnedIsDone
  <2>1. s # n
    BY <1>4
  <2>2. Report(s)' = Report(s)
    BY <1>3, <2>1 DEF Report, ConfigHash
  <2> QED BY <1>3, <2>1, <2>2 DEF IInv, ReturnedIsDone
<1>10. ClientFollowsPhase'
  BY <1>3, <1>4 DEF IInv, ClientFollowsPhase
<1>11. StarvedWasAborted'
  <2> SUFFICES ASSUME NEW w \in starved PROVE phase'[w[1]] = "aborted"
    BY <1>1 DEF StarvedWasAborted
  <2>1. w[1] \in Scans /\ phase[w[1]] = "aborted"
    BY DEF IInv, StarvedWasAborted, TypeOK
  <2> QED BY <1>3, <1>5, <2>1
<1> QED BY <1>2, <1>6, <1>7, <1>8, <1>9, <1>10, <1>11 DEF IInv

\* A step of a task leaves its scan's report alone: a scan that returned has
\* no active task.
LEMMA TaskEffectPreserves ==
  ASSUME IInv, NEW s \in Scans, NEW a \in Analyzers, TaskEffect(s, a)
  PROVE  IInv'
<1>0. PICK end \in TaskStates \ {"absent"} :
        /\ task' = [task EXCEPT ![s][a] = end]
        /\ end \in Launched \cup {"cancelling"} => GateAdmits(s, a)
        /\ end = "denied" => ~GateAdmits(s, a)
  BY DEF TaskEffect, Conclude
<1>1. UNCHANGED <<loop, scan, config, phase, client, report>> /\ task[s][a] \in Active
  BY DEF TaskEffect
<1>2. task \in [Scans -> [Analyzers -> TaskStates]]
  BY DEF IInv, TypeOK
<1>3. /\ task'[s][a] = end
      /\ \A t \in Scans, b \in Analyzers :
           <<t, b>> # <<s, a>> => task'[t][b] = task[t][b]
  BY <1>0, <1>2
<1>4. phase[s] # "returned" /\ task[s][a] # "absent"
  BY <1>1 DEF IInv, ReturnedIsDone, Active, Results
<1>5. TypeOK'
  <2>1. task' \in [Scans -> [Analyzers -> TaskStates]]
    BY <1>0, <1>2
  <2>2. starved' \subseteq Scans \X Analyzers
    BY DEF TaskEffect, IInv, TypeOK
  <2> QED BY <1>1, <2>1, <2>2 DEF IInv, TypeOK
<1>6. ScansInOrder' /\ ClientFollowsPhase'
  BY <1>1 DEF IInv, ScansInOrder, ClientFollowsPhase
<1>7. TasksAreEnabled'
  <2> SUFFICES ASSUME NEW t \in Scans, NEW b \in Analyzers
               PROVE  task'[t][b] # "absent" <=> phase[t] # "none" /\ b \in config[t].enabled
    BY <1>1 DEF TasksAreEnabled
  <2>1. task'[t][b] # "absent" <=> task[t][b] # "absent"
    BY <1>3, <1>4
  <2> QED BY <2>1 DEF IInv, TasksAreEnabled
<1>8. GateObeyed'
  <2> SUFFICES ASSUME NEW t \in Scans, NEW b \in Analyzers
               PROVE  /\ task'[t][b] \in Launched \cup {"cancelling"} => GateAdmits(t, b)'
                      /\ task'[t][b] = "denied" => ~GateAdmits(t, b)'
    BY DEF GateObeyed
  <2>1. GateAdmits(t, b)' <=> GateAdmits(t, b)
    BY <1>1 DEF GateAdmits
  <2>2. CASE <<t, b>> = <<s, a>>
    BY <1>0, <1>3, <2>1, <2>2
  <2>3. CASE <<t, b>> # <<s, a>>
    BY <1>3, <2>1, <2>3 DEF IInv, GateObeyed
  <2> QED BY <2>2, <2>3
<1>9. ReturnedIsDone'
  <2> SUFFICES ASSUME NEW t \in Scans, phase[t] = "returned"
               PROVE  /\ \A b \in Analyzers : task'[t][b] \in {"absent"} \cup Results
                      /\ report[t] = Report(t)'
    BY <1>1 DEF ReturnedIsDone
  <2>1. task'[t] = task[t]
    BY <1>0, <1>2, <1>4
  <2>2. Report(t)' = Report(t)
    BY <1>1, <2>1 DEF Report, ConfigHash
  <2> QED BY <2>1, <2>2 DEF IInv, ReturnedIsDone
<1>10. StarvedWasAborted'
  <2>1. CASE starved' = starved
    BY <1>1, <2>1 DEF IInv, StarvedWasAborted
  <2>2. CASE starved' = starved \cup {<<s, a>>} /\ client[s] = "closed"
    <3>1. phase[s] = "aborted"
      BY <1>4, <2>2 DEF IInv, ClientFollowsPhase
    <3> QED BY <1>1, <2>2, <3>1 DEF IInv, StarvedWasAborted
  <2> QED BY <2>1, <2>2 DEF TaskEffect
<1> QED BY <1>5, <1>6, <1>7, <1>8, <1>9, <1>10 DEF IInv

\* Ending a scan, with or without a report, leaves its tasks as they are.
LEMMA EndPreserves ==
  ASSUME IInv, NEW s \in Scans, Gathering(s), NEW how \in {"returned", "aborted"},
         End(s, how), UNCHANGED <<loop, scan, config, task, starved>>,
         \/ how = "aborted" /\ report' = report
         \/ /\ how = "returned"
            /\ \A a \in Analyzers : task[s][a] \in {"absent"} \cup Results
            /\ report' = [report EXCEPT ![s] = Report(s)]
  PROVE  IInv'
<1>1. /\ phase' = [phase EXCEPT ![s] = how]
      /\ client' = [client EXCEPT ![s] = "closed"]
  BY DEF End
<1>2. /\ phase[s] = "gathering" /\ phase'[s] = how /\ client'[s] = "closed"
      /\ \A t \in Scans : t # s => /\ phase'[t] = phase[t] /\ client'[t] = client[t]
                                   /\ report'[t] = report[t]
  BY <1>1 DEF Gathering, IInv, TypeOK
<1>3. TypeOK'
  <2>1. Report(s) \in [hash : {ConfigHash(c) : c \in Configs \cup {NoConfig}},
                       results : UNION {[names -> Results] : names \in SUBSET Analyzers}]
        \/ report' = report
    BY ReportIsTyped DEF IInv
  <2>2. report' \in [Scans -> [hash : {ConfigHash(c) : c \in Configs \cup {NoConfig}},
                               results : UNION {[names -> Results] :
                                                  names \in SUBSET Analyzers}]]
    BY <2>1 DEF IInv, TypeOK
  <2>3. {ConfigHash(c) : c \in Configs \cup {NoConfig}}'
          = {ConfigHash(c) : c \in Configs \cup {NoConfig}}
    OBVIOUS
  <2> QED BY <1>1, <2>2, <2>3 DEF IInv, TypeOK
<1>4. ScansInOrder' /\ ClientFollowsPhase' /\ TasksAreEnabled'
  BY <1>2 DEF IInv, ScansInOrder, ClientFollowsPhase, TasksAreEnabled
<1>5. \A t \in Scans, a \in Analyzers : GateAdmits(t, a)' <=> GateAdmits(t, a)
  BY DEF GateAdmits
<1>6. GateObeyed'
  BY <1>5 DEF IInv, GateObeyed
<1>7. ReturnedIsDone'
  <2> SUFFICES ASSUME NEW t \in Scans, phase'[t] = "returned"
               PROVE  /\ \A a \in Analyzers : task[t][a] \in {"absent"} \cup Results
                      /\ report'[t] = Report(t)'
    BY DEF ReturnedIsDone
  <2>1. Report(t)' = Report(t)
    BY DEF Report, ConfigHash
  <2>2. CASE t = s
    BY <1>2, <2>1, <2>2 DEF IInv, TypeOK
  <2>3. CASE t # s
    BY <1>2, <2>1, <2>3 DEF IInv, ReturnedIsDone
  <2> QED BY <2>2, <2>3
<1>8. StarvedWasAborted'
  <2> SUFFICES ASSUME NEW w \in starved PROVE phase'[w[1]] = "aborted"
    BY DEF StarvedWasAborted
  <2>1. w[1] \in Scans /\ phase[w[1]] = "aborted"
    BY DEF IInv, StarvedWasAborted, TypeOK
  <2> QED BY <1>2, <2>1
<1> QED BY <1>3, <1>4, <1>6, <1>7, <1>8 DEF IInv

\* Closing the loop cancels only tasks that are active, and so none of a scan
\* that returned.
LEMMA CloseLoopPreserves ==
  ASSUME IInv, CloseLoop
  PROVE  IInv'
<1> DEFINE Cancelled(end) == CASE end = "created" -> "cancelled"
                               [] end \in {"running", "expiring"} -> "cancelling"
                               [] OTHER -> end
<1>1. /\ UNCHANGED <<scan, config, phase, client, report, starved>>
      /\ loop' = "closing"
      /\ task' = [s \in Scans |-> [a \in Analyzers |-> Cancelled(task[s][a])]]
  BY DEF CloseLoop
<1>2. \A s \in Scans, a \in Analyzers : task'[s][a] = Cancelled(task[s][a])
  BY <1>1
<1>3. TypeOK'
  <2>1. \A end \in TaskStates : Cancelled(end) \in TaskStates
    BY DEF TaskStates, Active, Failures
  <2>2. task' \in [Scans -> [Analyzers -> TaskStates]]
    BY <1>1, <2>1 DEF IInv, TypeOK
  <2>3. loop' \in {"open", "closing", "closed"}
    BY <1>1
  <2> HIDE DEF Cancelled
  <2> QED BY <1>1, <2>2, <2>3 DEF IInv, TypeOK
<1>4. ScansInOrder' /\ ClientFollowsPhase' /\ StarvedWasAborted'
  BY <1>1 DEF IInv, ScansInOrder, ClientFollowsPhase, StarvedWasAborted
<1>5. TasksAreEnabled'
  BY <1>1, <1>2 DEF IInv, TasksAreEnabled
<1>6. \A s \in Scans, a \in Analyzers : GateAdmits(s, a)' <=> GateAdmits(s, a)
  BY <1>1 DEF GateAdmits
<1>7. GateObeyed'
  BY <1>2, <1>6 DEF IInv, GateObeyed, Launched
<1>8. ReturnedIsDone'
  <2> SUFFICES ASSUME NEW s \in Scans, phase[s] = "returned"
               PROVE  /\ \A a \in Analyzers : task'[s][a] \in {"absent"} \cup Results
                      /\ report[s] = Report(s)'
    BY <1>1 DEF ReturnedIsDone
  <2>1. \A a \in Analyzers : task'[s][a] = task[s][a]
    BY <1>2 DEF IInv, ReturnedIsDone, Results
  <2>2. task'[s] = task[s]
    BY <1>1, <2>1 DEF IInv, TypeOK
  <2>3. Report(s)' = Report(s)
    BY <1>1, <2>2 DEF Report, ConfigHash
  <2> QED BY <1>1, <2>1, <2>3 DEF IInv, ReturnedIsDone
<1> QED BY <1>3, <1>4, <1>5, <1>7, <1>8 DEF IInv

\* A step that changes nothing but perhaps the state of the loop.
LEMMA LoopPreserves ==
  ASSUME IInv, UNCHANGED <<scan, config, phase, client, task, report, starved>>,
         loop' \in {"open", "closing", "closed"}
  PROVE  IInv'
<1>1. TypeOK'
  BY DEF IInv, TypeOK
<1>2. \A s \in Scans : Report(s)' = Report(s)
  BY DEF Report, ConfigHash
<1>3. \A s \in Scans, a \in Analyzers : GateAdmits(s, a)' <=> GateAdmits(s, a)
  BY DEF GateAdmits
<1>4. GateObeyed' /\ ReturnedIsDone'
  BY <1>2, <1>3 DEF IInv, GateObeyed, ReturnedIsDone
<1>5. ScansInOrder' /\ TasksAreEnabled' /\ ClientFollowsPhase' /\ StarvedWasAborted'
  BY DEF IInv, ScansInOrder, TasksAreEnabled, ClientFollowsPhase, StarvedWasAborted
<1> QED BY <1>1, <1>4, <1>5 DEF IInv

\* Every step of the specification preserves the invariant.
LEMMA NextPreserves == IInv /\ [Next]_vars => IInv'
<1> SUFFICES ASSUME IInv, [Next]_vars PROVE IInv'
  OBVIOUS
<1>1. ASSUME NEW c \in Configs, Start(c) PROVE IInv'
  BY <1>1, StartPreserves
<1>2. ASSUME NEW s \in Scans, NEW a \in Analyzers, TaskStep(s, a) PROVE IInv'
  BY <1>2, TaskStepEffect, TaskEffectPreserves DEF IInv
<1>3. ASSUME NEW s \in Scans, Return(s) PROVE IInv'
  BY <1>3, EndPreserves DEF Return
<1>4. ASSUME NEW s \in Scans, Abort(s) \/ RejectReport(s) PROVE IInv'
  BY <1>4, EndPreserves DEF Abort, RejectReport
<1>5. CASE CloseLoop
  BY <1>5, CloseLoopPreserves
<1>6. CASE LoopClosed
  BY <1>6, LoopPreserves DEF LoopClosed
<1>7. CASE UNCHANGED vars
  BY <1>7, LoopPreserves DEF vars, IInv, TypeOK
<1> QED BY <1>1, <1>2, <1>3, <1>4, <1>5, <1>6, <1>7 DEF Next, Terminated

\* The report of a returned scan covers its enabled analyzers, and denies
\* those the gate refuses.
LEMMA CompleteReports == IInv => ReportIsComplete
<1> SUFFICES ASSUME IInv, NEW s \in Scans, phase[s] = "returned"
             PROVE  LET results == report[s].results
                    IN  /\ DOMAIN results = config[s].enabled
                        /\ \A a \in DOMAIN results :
                             /\ results[a] \in Results
                             /\ results[a] = "denied" <=> ~GateAdmits(s, a)
  BY DEF ReportIsComplete
<1> DEFINE names == {b \in Analyzers : task[s][b] # "absent"}
<1>1. report[s].results = [a \in names |-> task[s][a]]
  <2>1. report[s] = Report(s)
    BY DEF IInv, ReturnedIsDone
  <2>2. Report(s).results = [a \in names |-> task[s][a]]
    BY DEF Report
  <2> QED BY <2>1, <2>2
<1>2. config[s].enabled \subseteq Analyzers
  <2>1. config[s] \in Configs \cup {NoConfig}
    BY DEF IInv, TypeOK
  <2> QED BY <2>1, OrchestratorAssumption DEF NoConfig
<1>3. names = config[s].enabled
  BY <1>2 DEF IInv, TasksAreEnabled
<1>4. \A a \in names : /\ task[s][a] \in Results
                       /\ task[s][a] = "denied" <=> ~GateAdmits(s, a)
  BY DEF IInv, ReturnedIsDone, GateObeyed, Results, Launched
<1> QED BY <1>1, <1>3, <1>4

-----------------------------------------------------------------------------
(* The theorems                                                            *)

\* The strengthened invariant holds of every reachable state, for whatever
\* analyzers, configurations and outcomes, and however many scans.
THEOREM InductiveInvariant == Spec => []IInv
BY InitEstablishes, NextPreserves, PTL DEF Spec

\* Type correctness: in particular a report never holds anything but results.
THEOREM TypeCorrect == Spec => []TypeOK
<1>1. IInv => TypeOK
  BY DEF IInv
<1> QED BY <1>1, InductiveInvariant, PTL

\* _run_one launches no analyzer the gate of its own scan refuses.
THEOREM GateIsObeyed == Spec => []LaunchedOnlyIfAdmitted
<1>1. IInv => LaunchedOnlyIfAdmitted
  BY DEF IInv, GateObeyed, LaunchedOnlyIfAdmitted
<1> QED BY <1>1, InductiveInvariant, PTL

\* Every report run() returns has one result for each enabled analyzer, and
\* "denied" for exactly those the gate refuses.
THEOREM ReportsAreComplete == Spec => []ReportIsComplete
BY CompleteReports, InductiveInvariant, PTL

\* Only an aborted scan leaves analyzers running behind it.
THEOREM OnlyAbortedLeaveStragglers == Spec => []StragglersAreAborted
<1>1. IInv => StragglersAreAborted
  BY DEF IInv, TypeOK, TasksAreEnabled, ReturnedIsDone, StragglersAreAborted,
         Active, Results
<1> QED BY <1>1, InductiveInvariant, PTL

\* The HTTP client is open exactly while its scan is gathered, and only a
\* straggler of an aborted scan ever finds it closed.
THEOREM ClientServes == Spec => []ClientServesItsScan
<1>1. IInv => ClientServesItsScan
  BY DEF IInv, ClientFollowsPhase, StarvedWasAborted, ClientServesItsScan
<1> QED BY <1>1, InductiveInvariant, PTL

\* A report, once returned, and the task ends it was composed of, never
\* change again.
THEOREM ReportsAreFinal == Spec => ReportIsFinal
<1>1. ASSUME IInv, Next PROVE ReportsUntouched
  <2>1. ASSUME NEW c \in Configs, Start(c) PROVE ReportsUntouched
    <3>1. \A t \in Scans : phase[t] = "returned" => t # scan + 1
      BY <1>1, <2>1 DEF Start, IInv, TypeOK, ScansInOrder, Scans
    <3> QED BY <1>1, <2>1, <3>1 DEF Start, IInv, TypeOK, ReportsUntouched
  <2>2. ASSUME NEW t \in Scans, NEW a \in Analyzers, TaskStep(t, a) PROVE ReportsUntouched
    <3>1. TaskEffect(t, a)
      BY <1>1, <2>2, TaskStepEffect DEF IInv
    <3>2. phase[t] # "returned"
      BY <1>1, <3>1 DEF TaskEffect, IInv, ReturnedIsDone, Active, Results
    <3> QED BY <1>1, <3>1, <3>2 DEF TaskEffect, Conclude, IInv, TypeOK, ReportsUntouched
  <2>3. ASSUME NEW t \in Scans, Return(t) \/ Abort(t) \/ RejectReport(t)
        PROVE  ReportsUntouched
    BY <1>1, <2>3 DEF Return, Abort, RejectReport, Gathering, End, IInv, TypeOK, ReportsUntouched
  <2>4. CASE CloseLoop
    <3> SUFFICES ASSUME NEW s \in Scans, phase[s] = "returned"
                 PROVE  task'[s] = task[s]
      BY <2>4 DEF CloseLoop, ReportsUntouched
    <3>1. \A a \in Analyzers : task[s][a] \in {"absent"} \cup Results
      BY <1>1 DEF IInv, ReturnedIsDone
    <3>2. \A a \in Analyzers : task'[s][a] = task[s][a]
      BY <2>4, <3>1 DEF CloseLoop, Results
    <3> QED BY <1>1, <2>4, <3>2 DEF CloseLoop, IInv, TypeOK
  <2>5. CASE LoopClosed \/ Terminated
    BY <2>5 DEF LoopClosed, Terminated, vars, ReportsUntouched
  <2> QED BY <1>1, <2>1, <2>2, <2>3, <2>4, <2>5 DEF Next
<1>2. IInv /\ [Next]_vars => [ReportsUntouched]_vars
  BY <1>1
<1> QED BY <1>2, InductiveInvariant, PTL DEF Spec, ReportIsFinal
=============================================================================
