------------------------------- MODULE Command -------------------------------
(***************************************************************************)
(* A `scan` - or the first scan of a `watch` - from its options to the end *)
(* of its event loop, composed of the modules of its parts:                *)
(*                                                                         *)
(*   Proof   the authorizations are obtained (ProofVerification)           *)
(*   Orch    Orchestrator.run() runs the analyzers, among them             *)
(*   Scan      ports, with its probes (PortScan), and                      *)
(*   Http      headers, over the scan's HTTP client (HttpClient)           *)
(*                                                                         *)
(* What Orchestrator leaves open - how analyze() ends, and what a cancelled *)
(* analyze() still does - is what PortScan and HttpClient do: a step of    *)
(* the task of such an analyzer is a joint step.  Both run on the loop of  *)
(* the scan, so closing it cancels their tasks too.                        *)
(***************************************************************************)
EXTENDS Integers, Sequences, FiniteSets

CONSTANTS
  Typed, Available, CommandLines, Version, Key, TxtAnswers, SiteAnswers, Manifests,
  LegalClassOf, Ports, Capacity, Hosts, Blacklist, MaxRedirects

VARIABLES
  \* obtaining the authorizations
  proving, options, manifest, at, authorizations, witnessed,
  \* the orchestrator
  loop, scan, config, phase, client, task, report, starved,
  \* the probes of the ports analyzer
  stage, probe, permits, results, accepted,
  \* the exchange of the headers analyzer
  exchange, request, hops, contacted

proofVars == <<proving, options, manifest, at, authorizations, witnessed>>
orchVars  == <<loop, scan, config, phase, client, task, report, starved>>
scanVars  == <<stage, probe, permits, results, accepted>>
httpVars  == <<exchange, request, hops, contacted>>
vars == <<proofVars, orchVars, scanVars, httpVars>>

Proof == INSTANCE ProofVerification
Scan == INSTANCE PortScan
Http == INSTANCE HttpClient

\* Host names are sequences of characters, and those of the blacklist are in
\* lower case and not empty; ports is an active analyzer.
ASSUME CommandAssumption ==
  /\ Typed \in Seq(Seq([text : STRING, upper : BOOLEAN])) /\ Typed # <<>>
  /\ {"ports", "headers"} \subseteq Available
  /\ LegalClassOf \in [Available -> Proof!LegalClasses]
  /\ LegalClassOf["ports"] = "active"
  /\ Scan!PortScanAssumption
  /\ Hosts \subseteq Seq([text : STRING, upper : BOOLEAN])
  /\ Blacklist \subseteq Seq(STRING) \ {<<>>}
  /\ MaxRedirects \in Nat

\* The OrchestratorConfig the command makes for the i-th target.
ConfigFor(o, i, authorization) ==
  [target |-> Proof!Target(i), enabled |-> Proof!ResolveEnabled(o),
   authorization |-> authorization, allowIntrusive |-> o.allow_intrusive]

PossibleConfigs ==
  {ConfigFor(o, i, a) : o \in {p \in CommandLines : p.enable \subseteq Available},
                        i \in DOMAIN Typed,
                        a \in {Proof!NoAuthorization} \cup
                              {Proof!AuthorizationFor(Proof!Target(j)) : j \in DOMAIN Typed}}

Orch == INSTANCE Orchestrator WITH
  Analyzers <- Available,
  HttpAnalyzers <- {"headers"},
  Configs <- PossibleConfigs,
  Outcomes <- {"report", "network_error", "analyzer_error", "timeout_error", "other_error"},
  ClockRetreats <- TRUE,
  MaxScans <- 1

-----------------------------------------------------------------------------
Init == Proof!Init /\ Orch!Init /\ Scan!Init /\ Http!Init

ObtainAuthorizations == Proof!ProofStep /\ UNCHANGED <<orchVars, scanVars, httpVars>>

\* The targets are scanned in turn; this is the scan of any one of them.
BeginScan ==
  /\ Proof!Proved
  /\ \E i \in DOMAIN Typed : Orch!Start(ConfigFor(options, i, authorizations[i]))
  /\ UNCHANGED <<proofVars, scanVars, httpVars>>

\* An analyzer none of whose inner steps is modelled here.
OtherAnalyzer(a) ==
  /\ a \notin {"ports", "headers"}
  /\ Orch!TaskStep(1, a)
  /\ UNCHANGED <<proofVars, scanVars, httpVars>>

-----------------------------------------------------------------------------
(* The ports analyzer                                                      *)

ProbeActive == \E i \in DOMAIN Ports : probe[i] \in Scan!ActiveProbe

DispatchPorts ==
  /\ Orch!Dispatch(1, "ports")
  /\ IF Orch!GateAdmits(1, "ports") THEN Scan!BeginProbes ELSE UNCHANGED scanVars
  /\ UNCHANGED <<proofVars, httpVars>>

ProbesRun ==
  /\ Scan!GatherStep \/ \E i \in DOMAIN Ports : Scan!ProbeStep(i)
  /\ UNCHANGED <<proofVars, orchVars, httpVars>>

\* analyze() has come to its end, and how: a report is refused when the clock
\* was set back meanwhile (duration_ms).
PortsEnds ==
  CASE stage = "reported"  -> {"ok", "raised"}
    [] stage = "raised"    -> {"raised"}
    [] stage = "cancelled" -> {"timeout", "cancelled"}
    [] OTHER               -> {}

PortsAnswers ==
  /\ Orch!Answer(1, "ports")
  /\ task'[1]["ports"] \in PortsEnds
  /\ UNCHANGED <<proofVars, scanVars, httpVars>>

PortsExpires ==
  /\ Orch!Expire(1, "ports")
  /\ Scan!CancelProbes
  /\ UNCHANGED <<proofVars, httpVars>>

\* A cancellation that comes when analyze() has already ended is lost on it.
PortsUnwinds ==
  /\ PortsEnds # {}
  /\ Orch!Unwind(1, "ports")
  /\ task'[1]["ports"] \in PortsEnds \cup {"timeout", "cancelled"}
  /\ UNCHANGED <<proofVars, scanVars, httpVars>>

-----------------------------------------------------------------------------
(* The headers analyzer                                                    *)

DispatchHeaders ==
  /\ Orch!Dispatch(1, "headers")
  /\ IF Orch!GateAdmits(1, "headers") THEN Http!BeginGet(config[1].target)
     ELSE UNCHANGED httpVars
  /\ UNCHANGED <<proofVars, scanVars>>

\* A client that is closed sends nothing.
ExchangeRuns ==
  /\ Http!HttpStep
  /\ exchange = "ready" /\ hops = 0 => client[1] = "open"
  /\ UNCHANGED <<proofVars, orchVars, scanVars>>

HeadersEnds ==
  CASE exchange = "answered"              -> {"ok", "raised"}
    [] exchange \in {"blocked", "failed"} -> {"network"}
    [] exchange = "cancelled"             -> {"timeout", "cancelled"}
    [] OTHER                              -> {}

HeadersAnswers ==
  /\ Orch!Answer(1, "headers")
  /\ task'[1]["headers"] \in HeadersEnds
  /\ UNCHANGED <<proofVars, scanVars, httpVars>>

HeadersFindClosedClient ==
  /\ exchange = "ready" /\ hops = 0
  /\ Orch!SendOnClosedClient(1, "headers")
  /\ exchange' = "failed"
  /\ UNCHANGED <<request, hops, contacted, proofVars, scanVars>>

HeadersExpire ==
  /\ Orch!Expire(1, "headers")
  /\ Http!CancelGet
  /\ UNCHANGED <<proofVars, scanVars>>

HeadersUnwind ==
  /\ Orch!Unwind(1, "headers")
  /\ task'[1]["headers"] \in HeadersEnds \cup {"timeout", "cancelled"}
  /\ UNCHANGED <<proofVars, scanVars, httpVars>>

-----------------------------------------------------------------------------
(* The end of the scan and of the command                                  *)

EndScan ==
  /\ Orch!Return(1) \/ Orch!Abort(1) \/ Orch!RejectReport(1)
  /\ UNCHANGED <<proofVars, scanVars, httpVars>>

\* asyncio.run cancels every task of the loop: analyzers, probes, exchange.
CloseLoop ==
  /\ scan = 1
  /\ Orch!CloseLoop
  /\ Scan!CancelProbes
  /\ Http!CancelGet
  /\ UNCHANGED proofVars

LoopClosed ==
  /\ ~ProbeActive
  /\ Orch!LoopClosed
  /\ UNCHANGED <<proofVars, scanVars, httpVars>>

Ended == proving = "refused" \/ loop = "closed"

Terminated == Ended /\ UNCHANGED vars

PortsStep == DispatchPorts \/ ProbesRun \/ PortsAnswers \/ PortsExpires \/ PortsUnwinds

HeadersStep ==
  \/ DispatchHeaders \/ ExchangeRuns \/ HeadersAnswers \/ HeadersFindClosedClient
  \/ HeadersExpire \/ HeadersUnwind

Next ==
  \/ ObtainAuthorizations
  \/ BeginScan
  \/ \E a \in Available : OtherAnalyzer(a)
  \/ PortsStep
  \/ HeadersStep
  \/ EndScan
  \/ CloseLoop
  \/ LoopClosed
  \/ Terminated

\* A TXT lookup has a lifetime and an attempt to connect a timeout, a deadline
\* passes, a cancelled task unwinds, and main() ends once its scan has.  An
\* analyzer need not answer in time, nor an exchange proceed, nor the GET of a
\* well-known file end: nothing bounds it as a whole.
Fairness ==
  /\ WF_vars(ObtainAuthorizations /\ proving # "fetching")
  /\ WF_vars(BeginScan)
  /\ \A a \in Available \ {"ports", "headers"} :
       /\ WF_vars(OtherAnalyzer(a) /\ Orch!Dispatch(1, a))
       /\ WF_vars(OtherAnalyzer(a) /\ Orch!Expire(1, a))
       /\ WF_vars(OtherAnalyzer(a) /\ Orch!Unwind(1, a))
  /\ WF_vars(DispatchPorts) /\ WF_vars(PortsExpires) /\ WF_vars(PortsUnwinds)
  /\ WF_vars(ProbesRun)
  /\ WF_vars(DispatchHeaders) /\ WF_vars(HeadersExpire) /\ WF_vars(HeadersUnwind)
  /\ WF_vars(EndScan)
  /\ WF_vars(CloseLoop /\ phase[1] \in {"returned", "aborted"})
  /\ WF_vars(LoopClosed)

Spec == Init /\ [][Next]_vars /\ Fairness

-----------------------------------------------------------------------------
(* What the parts guarantee together                                       *)

TypeOK == Proof!TypeOK /\ Orch!TypeOK /\ Scan!TypeOK /\ Http!TypeOK

\* No scan begins before a declaration was read from every target's own source,
\* when the options name a proof; and no port of a host is ever probed unless
\* one was from that host's.  (What a declaration need not say: Proof!Declares.)
ScansRestOnProofs ==
  /\ phase[1] # "none" /\ Proof!Mode(options) # "none" =>
       \A i \in DOMAIN Typed : Proof!Target(i) \in witnessed
  /\ stage # "idle" => config[1].target \in witnessed

\* A report that says "ok" of ports is made of every probe's answer, and of
\* nothing but the answers.
PortsReportIsExact ==
  /\ Scan!ReportIsExact
  /\ phase[1] = "returned" /\ "ports" \in DOMAIN report[1].results =>
       (report[1].results["ports"] = "ok" => stage = "reported")

\* However the analyzer is cut short, and while its probes unwind, the semaphore
\* loses no permit and hands out none twice.
PermitsAreKept == Scan!PermitsAreKept

\* Once the analyzer has ended, its probes are at work only when it raised; when
\* it was cut short they are ending too.  Nothing outlives the loop.
NothingIsLeftBehind ==
  /\ (\E i \in DOMAIN Ports : probe[i] \in Scan!AtWork) =>
       task[1]["ports"] \in {"running", "raised"}
  /\ exchange \in Http!ActiveExchange => task[1]["headers"] = "running"
  /\ loop = "closed" => ~ProbeActive /\ exchange \notin Http!ActiveExchange

\* Whatever it is redirected to, the scan's client speaks to no blacklisted host.
NeverSpeaksToTelemetry == Http!NeverSpeaksToTelemetry

\* The command comes to its end, whatever hangs - an analyzer, a port, a server
\* that redirects for ever - unless it is held by the fetch of a well-known file
\* for good.
CommandEnds == <>[](Ended \/ proving = "fetching")
=============================================================================
