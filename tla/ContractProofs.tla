---------------------------- MODULE ContractProofs ----------------------------
(***************************************************************************)
(* The orchestrator keeps the contract of ScanContract, for any analyzers, *)
(* configurations and number of scans: the steps that end, begin or stop a *)
(* scan are steps of the contract, and everything tasks, timers and        *)
(* stragglers do is invisible to a caller.  That every call is answered is *)
(* checked by TLC.                                                         *)
(***************************************************************************)
EXTENDS OrchestratorProofs, SequenceTheorems

\* A call that did not return has no report.
OnlyReturnedReport ==
  \A s \in Scans : phase[s] # "returned" => report[s] = NoReport

CInv == IInv /\ OnlyReturnedReport

\* What the caller sees of call s, and of all calls so far.
Seen(s) == [config |-> config[s], how |-> phase[s], results |-> report[s].results]
Calls == [s \in 1..scan |-> Seen(s)]

\* What the caller sees of call s after a step.
After(s) == [config |-> config'[s], how |-> phase'[s], results |-> report'[s].results]

LEMMA CallsAfter == Calls' = [s \in 1..scan' |-> After(s)]
BY DEF Calls, Seen, After

\* The step of a task is a stutter for report, phase and config alike.
LEMMA TaskStepIsHidden ==
  ASSUME NEW s, NEW a, TaskStep(s, a)
  PROVE  UNCHANGED <<loop, scan, config, phase, report>>
BY DEF TaskStep, Dispatch, Answer, SendOnClosedClient, Expire, Unwind

\* Only Return writes a report, and it marks the scan returned.
LEMMA ReportOnlyOnReturn ==
  ASSUME CInv, [Next]_vars
  PROVE  OnlyReturnedReport'
<1> USE DEF CInv, OnlyReturnedReport
<1>1. ASSUME NEW c \in Configs, Start(c) PROVE OnlyReturnedReport'
  BY <1>1 DEF Start, IInv, TypeOK, ScansInOrder, Scans, NoReport, NoResults, ConfigHash
<1>2. ASSUME NEW s \in Scans, NEW a \in Analyzers, TaskStep(s, a)
      PROVE  OnlyReturnedReport'
  BY <1>2, TaskStepIsHidden
<1>3. ASSUME NEW s \in Scans, Return(s) PROVE OnlyReturnedReport'
  BY <1>3 DEF Return, End, IInv, TypeOK
<1>4. ASSUME NEW s \in Scans, Abort(s) \/ RejectReport(s) PROVE OnlyReturnedReport'
  BY <1>4 DEF Abort, RejectReport, Gathering, End, IInv, TypeOK
<1>5. CASE CloseLoop \/ LoopClosed \/ UNCHANGED vars
  BY <1>5 DEF CloseLoop, LoopClosed, vars
<1> QED BY <1>1, <1>2, <1>3, <1>4, <1>5 DEF Next, Terminated

\* The calls a caller sees are one record per scan begun.
LEMMA CallsAreSequence ==
  ASSUME IInv
  PROVE  /\ scan \in Nat /\ scan <= MaxScans
         /\ Calls \in Seq({Seen(s) : s \in 1..scan})
         /\ Len(Calls) = scan
         /\ \A s \in 1..scan : s \in Scans /\ Calls[s] = Seen(s)
<1>1. scan \in 0..MaxScans
  BY DEF IInv, TypeOK
<1>2. scan \in Nat /\ scan <= MaxScans /\ 1..scan \subseteq Scans
  BY <1>1, OrchestratorAssumption DEF Scans
<1>3. Calls \in [1..scan -> {Seen(s) : s \in 1..scan}]
  BY DEF Calls
<1>4. Calls \in Seq({Seen(s) : s \in 1..scan})
  BY <1>2, <1>3, SeqDef
<1>5. Len(Calls) = scan
  BY <1>2, <1>4 DEF Calls
<1> QED BY <1>2, <1>4, <1>5 DEF Calls

\* The scan under way is the last call, and unanswered.
LEMMA GatheringIsUnanswered ==
  ASSUME IInv
  PROVE  Contract!Unanswered(Len(Calls)) <=> Gathering(scan)
<1>1. Contract!Unanswered(Len(Calls))
        <=> scan \in 1..scan /\ Calls[scan].how = "gathering"
  BY CallsAreSequence DEF Contract!Unanswered, Calls, Seen
<1>2. scan \in 1..scan <=> scan \in Scans
  BY CallsAreSequence DEF Scans
<1> QED BY <1>1, <1>2, CallsAreSequence DEF Gathering, Seen

\* Before the first call a caller has seen nothing.
LEMMA InitMaps == ASSUME Init PROVE Contract!Init
BY DEF Init, Contract!Init, Seen

\* Starting a scan is beginning a call.
LEMMA StartMaps ==
  ASSUME CInv, NEW c \in Configs, Start(c)
  PROVE  Contract!Begin(c)
<1> USE DEF CInv
<1> DEFINE n == scan + 1
           begun == [config |-> c, how |-> "gathering", results |-> [a \in {} |-> "absent"]]
<1>1. /\ loop = "open" /\ loop' = loop /\ scan < MaxScans /\ ~Gathering(scan)
      /\ scan' = n
      /\ report' = report
  BY DEF Start
<1>2. scan \in Nat /\ n \in Scans
  BY <1>1, CallsAreSequence, OrchestratorAssumption DEF Scans
<1>3. /\ config'[n] = c /\ phase'[n] = "gathering"
      /\ \A s \in Scans : s # n => config'[s] = config[s] /\ phase'[s] = phase[s]
  BY <1>2 DEF Start, IInv, TypeOK
<1>4. report'[n].results = [a \in {} |-> "absent"]
  <2>1. phase[n] # "returned"
    BY <1>2 DEF IInv, ScansInOrder
  <2>2. report[n] = NoReport
    BY <1>2, <2>1 DEF OnlyReturnedReport
  <2> QED BY <1>1, <2>2 DEF NoReport, NoResults
<1>5. After(n) = begun
  BY <1>3, <1>4 DEF After
<1>6. \A s \in 1..scan : After(s) = Seen(s)
  BY <1>1, <1>2, <1>3, CallsAreSequence DEF After, Seen
<1>7. Calls' = Append(Calls, begun)
  <2>1. Calls' = [s \in 1..n |-> IF s = n THEN begun ELSE Calls[s]]
    BY <1>1, <1>2, <1>5, <1>6, CallsAfter DEF Calls
  <2>2. Append(Calls, begun) = [s \in 1..n |-> IF s = n THEN begun ELSE Calls[s]]
    BY <1>2, CallsAreSequence
  <2> QED BY <2>1, <2>2
<1> HIDE DEF begun
<1>8. ~Contract!Unanswered(Len(Calls))
  BY <1>1, GatheringIsUnanswered
<1>9. Len(Calls) < MaxScans
  BY <1>1, CallsAreSequence
<1> QED BY <1>1, <1>7, <1>8, <1>9 DEF Contract!Begin, Contract!Nothing, Calls, Seen, begun

\* A step that shows in no call and leaves the loop open or not as it was is
\* a stutter.
LEMMA HiddenStepMaps ==
  ASSUME IInv, UNCHANGED <<scan, config, phase, report>>,
         (loop = "open")' = (loop = "open")
  PROVE  UNCHANGED Contract!cvars
<1>1. Calls' = Calls
  BY DEF Calls, Seen
<1> QED BY <1>1 DEF Contract!cvars, Calls, Seen

\* Ending scan s changes what a caller sees of s, the last call, alone.
LEMMA EndShows ==
  ASSUME IInv, NEW s \in Scans, Gathering(s), NEW how, End(s, how),
         UNCHANGED <<scan, config>>,
         \A t \in Scans : t # s => report'[t] = report[t],
         (loop = "open")' = (loop = "open")
  PROVE  /\ s = scan /\ Contract!Unanswered(Len(Calls))
         /\ Contract!Answer(how, report'[s].results)
<1>1. s = scan /\ s \in 1..scan
  BY DEF Gathering, IInv, ScansInOrder, Scans
<1>2. Contract!Unanswered(Len(Calls))
  BY <1>1, GatheringIsUnanswered
<1>3. \A t \in 1..scan : t # s => After(t) = Seen(t)
  BY CallsAreSequence DEF End, IInv, TypeOK, After, Seen
<1>4. After(s) = [config |-> Seen(s).config, how |-> how, results |-> report'[s].results]
  BY DEF End, IInv, TypeOK, After, Seen
<1>5. Calls' = [Calls EXCEPT ![s] = [config |-> Calls[s].config, how |-> how,
                                     results |-> report'[s].results]]
  <2> DEFINE ended == [config |-> Seen(s).config, how |-> how, results |-> report'[s].results]
  <2>1. Calls' = [t \in 1..scan |-> IF t = s THEN ended ELSE Seen(t)]
    BY <1>3, <1>4, CallsAfter
  <2>2. Calls[s] = Seen(s)
    BY <1>1 DEF Calls
  <2> HIDE DEF ended
  <2>3. Calls' = [Calls EXCEPT ![s] = ended]
    BY <2>1 DEF Calls
  <2> QED
    BY <2>2, <2>3 DEF ended
<1>6. Len(Calls) = s
  BY <1>1, CallsAreSequence
<1> QED BY <1>1, <1>2, <1>5, <1>6 DEF Contract!Answer, Calls, Seen

\* A report is what the contract allows to be delivered.
LEMMA ReturnMaps ==
  ASSUME CInv, NEW s \in Scans, Return(s)
  PROVE  Contract!Deliver
<1> USE DEF CInv
<1> DEFINE c == config[s]
           results == report'[s].results
<1>1. /\ loop = "open" /\ loop' = loop /\ Gathering(s) /\ End(s, "returned")
      /\ UNCHANGED <<scan, config>>
      /\ \A t \in Scans : t # s => report'[t] = report[t]
  BY DEF Return, IInv, TypeOK
<1>2. /\ s = scan /\ Contract!Unanswered(Len(Calls))
      /\ Contract!Answer("returned", results)
  BY <1>1, EndShows
<1>3. Calls[Len(Calls)].config = c
  BY <1>1, <1>2, CallsAreSequence DEF Gathering, Scans, Seen
<1>4. /\ DOMAIN results = c.enabled
      /\ \A a \in c.enabled : /\ results[a] \in Results
                              /\ results[a] = "denied" <=> ~GateAdmits(s, a)
  <2>1. ReportIsComplete'
    <3>1. IInv'
      BY NextPreserves DEF Next
    <3>2. IInv' => ReportIsComplete'
      BY CompleteReports, PTL
    <3> QED BY <3>1, <3>2
  <2>2. phase'[s] = "returned" /\ config'[s] = c
    BY <1>1 DEF End, IInv, TypeOK
  <2>3. \A a : GateAdmits(s, a)' <=> GateAdmits(s, a)
    BY <1>1 DEF GateAdmits
  <2> QED BY <2>1, <2>2, <2>3 DEF ReportIsComplete
<1>5. results \in [c.enabled -> Results]
  <2>1. results = [a \in DOMAIN results |-> results[a]]
    <3>1. results = [a \in {b \in Analyzers : task[s][b] # "absent"} |-> task[s][a]]
      BY DEF Return, IInv, TypeOK, Report
    <3> QED BY <3>1
  <2> QED BY <1>4, <2>1
<1>6. \A a \in c.enabled :
        results[a] = "denied" <=> ~Admits(c.authorization, c.allowIntrusive, c.target,
                                          LegalClassOf[a])
  BY <1>4 DEF GateAdmits
<1> HIDE DEF c, results
<1>7. \E r \in [c.enabled -> Results] :
        /\ \A a \in c.enabled :
             r[a] = "denied" <=> ~Admits(c.authorization, c.allowIntrusive, c.target,
                                         LegalClassOf[a])
        /\ Contract!Answer("returned", r)
  BY <1>2, <1>5, <1>6 DEF Contract!Answer
<1>8. \E r \in [Calls[Len(Calls)].config.enabled -> Results] :
        /\ \A a \in Calls[Len(Calls)].config.enabled :
             r[a] = "denied" <=> ~Admits(Calls[Len(Calls)].config.authorization,
                                         Calls[Len(Calls)].config.allowIntrusive,
                                         Calls[Len(Calls)].config.target,
                                         LegalClassOf[a])
        /\ Contract!Answer("returned", r)
  BY <1>3, <1>7
<1> QED BY <1>1, <1>2, <1>8, Zenon DEF Contract!Deliver, Calls, Seen

\* An exception is what the contract calls giving up: no report was kept.
LEMMA AbortMaps ==
  ASSUME CInv, NEW s \in Scans, Abort(s) \/ RejectReport(s)
  PROVE  Contract!GiveUp
<1>1. /\ loop' = loop /\ Gathering(s) /\ End(s, "aborted")
      /\ UNCHANGED <<scan, config, report>>
  BY DEF Abort, RejectReport
<1>2. report'[s].results = Contract!Nothing
  <2>1. report'[s] = NoReport
    BY <1>1 DEF CInv, OnlyReturnedReport, Gathering
  <2> QED BY <2>1 DEF NoReport, NoResults, Contract!Nothing
<1>3. /\ Contract!Unanswered(Len(Calls))
      /\ Contract!Answer("aborted", report'[s].results)
  BY <1>1, EndShows DEF CInv
<1> QED BY <1>2, <1>3 DEF Contract!GiveUp, Contract!Answer, Contract!Unanswered, Calls, Seen

\* Every step is a step of the contract or shows nothing to a caller.
LEMMA NextMaps ==
  ASSUME CInv, [Next]_vars
  PROVE  [Contract!Next]_(Contract!cvars)
<1> USE DEF CInv
<1>1. ASSUME NEW c \in Configs, Start(c) PROVE Contract!Next
  BY <1>1, StartMaps DEF Contract!Next
<1>2. ASSUME NEW s \in Scans, NEW a \in Analyzers, TaskStep(s, a)
      PROVE  UNCHANGED Contract!cvars
  BY <1>2, TaskStepIsHidden, HiddenStepMaps
<1>3. ASSUME NEW s \in Scans, Return(s) PROVE Contract!Next
  BY <1>3, ReturnMaps DEF Contract!Next
<1>4. ASSUME NEW s \in Scans, Abort(s) \/ RejectReport(s) PROVE Contract!Next
  BY <1>4, AbortMaps DEF Contract!Next
<1>5. CASE CloseLoop
  <2>1. /\ loop = "open" /\ loop' = "closing"
        /\ UNCHANGED <<scan, config, phase, report>>
    BY <1>5 DEF CloseLoop
  <2>2. Calls' = Calls
    BY <2>1 DEF Calls, Seen
  <2>3. Contract!Stop
    BY <2>1, <2>2 DEF Contract!Stop, Calls, Seen
  <2> QED BY <2>3 DEF Contract!Next
<1>6. CASE LoopClosed \/ UNCHANGED vars
  BY <1>6, HiddenStepMaps DEF LoopClosed, vars
<1> QED BY <1>1, <1>2, <1>3, <1>4, <1>5, <1>6 DEF Next, Terminated

\* Calls of run() are answered one at a time, with complete results or an
\* exception, and an answer stays: whatever tasks, timers and stragglers do,
\* the orchestrator takes only steps its contract allows.
THEOREM ContractIsKept == Spec => Contract!Safely
<1>1. Init => OnlyReturnedReport
  BY DEF Init, OnlyReturnedReport
<1>2. Init => Contract!Init
  BY InitMaps
<1>3. CInv /\ [Next]_vars => CInv'
  BY ReportOnlyOnReturn, NextPreserves DEF CInv
<1>4. CInv /\ [Next]_vars => [Contract!Next]_(Contract!cvars)
  BY NextMaps
<1>5. Init => CInv
  BY <1>1, InitEstablishes DEF CInv
<1> QED BY <1>2, <1>3, <1>4, <1>5, PTL DEF Spec, Contract!Safely
=============================================================================
