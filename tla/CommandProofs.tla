---------------------------- MODULE CommandProofs ----------------------------
(***************************************************************************)
(* For any targets, options, answers from outside, analyzers, ports, hosts *)
(* and redirects: what is proved of the parts of a command - orchestrator, *)
(* port scan, proofs of authorization - holds of their composition; the    *)
(* analyzers' inner steps and the tasks that run them stay together; and   *)
(* what is left of them when the event loop is closed, and whom the client *)
(* speaks to.                                                              *)
(***************************************************************************)
EXTENDS Command, TLAPS

ScanProofs == INSTANCE PortScanProofs

\* Every step of a command is a step of the port scan or none of its business.
LEMMA StepsOfPortScan == [Next]_vars => [ScanProofs!Next]_(ScanProofs!scanVars)
<1> SUFFICES ASSUME [Next]_vars
             PROVE  ScanProofs!Next \/ UNCHANGED scanVars
  BY DEF scanVars, ScanProofs!scanVars
<1>1. ASSUME \/ ObtainAuthorizations \/ BeginScan \/ HeadersStep \/ EndScan \/ LoopClosed
             \/ Terminated \/ UNCHANGED vars
             \/ \E a \in Available : OtherAnalyzer(a)
      PROVE  UNCHANGED scanVars
  BY <1>1 DEF ObtainAuthorizations, BeginScan, HeadersStep, EndScan, LoopClosed, Terminated,
              OtherAnalyzer, DispatchHeaders, ExchangeRuns, HeadersAnswers,
              HeadersFindClosedClient, HeadersExpire, HeadersUnwind, vars
<1>2. ASSUME PortsStep \/ CloseLoop
      PROVE  ScanProofs!Next \/ UNCHANGED scanVars
  <2>1. CASE DispatchPorts
    BY <2>1 DEF DispatchPorts, Scan!BeginProbes, ScanProofs!BeginProbes, ScanProofs!Next,
                Scan!Probes, ScanProofs!Probes
  <2>2. CASE ProbesRun
    <3>1. Scan!GatherStep => ScanProofs!GatherStep
      BY DEF Scan!GatherStep, Scan!ReportPorts, Scan!RaiseFromProbe, Scan!Cancelled,
             ScanProofs!GatherStep, ScanProofs!ReportPorts, ScanProofs!RaiseFromProbe,
             ScanProofs!Cancelled, Scan!Probes, ScanProofs!Probes, Scan!ActiveProbe,
             Scan!AtWork, Scan!Holding, ScanProofs!ActiveProbe, ScanProofs!AtWork,
             ScanProofs!Holding
    <3>2. ASSUME NEW i \in DOMAIN Ports, Scan!ProbeStep(i)
          PROVE  ScanProofs!ProbeStep(i)
      BY <3>2 DEF Scan!ProbeStep, Scan!Acquire, Scan!Accept, Scan!Refuse, Scan!Closed,
             Scan!Fail, Scan!LeaveQueue, Scan!Unwound, Scan!AnswerLate, Scan!Answered,
             Scan!Become,
             ScanProofs!ProbeStep, ScanProofs!Acquire, ScanProofs!Accept, ScanProofs!Refuse,
             ScanProofs!Closed, ScanProofs!Fail, ScanProofs!LeaveQueue, ScanProofs!Unwound,
             ScanProofs!AnswerLate, ScanProofs!Answered, ScanProofs!Become
    <3> QED
      BY <2>2, <3>1, <3>2 DEF ProbesRun, ScanProofs!Next, ScanProofs!Probes
  <2>3. CASE PortsAnswers \/ PortsUnwinds
    BY <2>3 DEF PortsAnswers, PortsUnwinds
  <2>4. CASE PortsExpires \/ CloseLoop
    <3>1. Scan!CancelProbes
      BY <2>4 DEF PortsExpires, CloseLoop
    <3>2. Scan!CancelProbes => ScanProofs!CancelProbes
      BY DEF Scan!CancelProbes, ScanProofs!CancelProbes, Scan!Probes, ScanProofs!Probes,
             Scan!ActiveProbe, Scan!AtWork, Scan!Holding, ScanProofs!ActiveProbe,
             ScanProofs!AtWork, ScanProofs!Holding
    <3> QED
      BY <3>1, <3>2 DEF ScanProofs!Next
  <2> QED
    BY <1>2, <2>1, <2>2, <2>3, <2>4 DEF PortsStep
<1> QED
  BY <1>1, <1>2 DEF Next, scanVars

LEMMA PortScanRuns == Spec => ScanProofs!Spec
<1>1. Init => ScanProofs!Init
  BY DEF Init, Scan!Init, ScanProofs!Init, Scan!Probes, ScanProofs!Probes
<1> QED
  BY <1>1, StepsOfPortScan, PTL DEF Spec, ScanProofs!Spec

\* Whatever deadlines, other analyzers and the end of the loop do to the port
\* scan of a command: a probe gives back the permit it took, also when it is
\* cancelled, and its semaphore hands out none twice.
THEOREM PermitsKept == Spec => []PermitsAreKept
<1>1. ScanProofs!PortScanAssumption
  BY CommandAssumption DEF Scan!PortScanAssumption, ScanProofs!PortScanAssumption
<1>2. ScanProofs!Spec => []ScanProofs!PermitsAreKept
  BY <1>1, ScanProofs!PermitsKept
<1>3. ScanProofs!PermitsAreKept => PermitsAreKept
  <2>1. /\ Scan!Probes = ScanProofs!Probes /\ Scan!Holding = ScanProofs!Holding
    BY DEF Scan!Probes, Scan!Holding, ScanProofs!Probes, ScanProofs!Holding
  <2>2. \A S : Scan!Cardinality(S) = ScanProofs!Cardinality(S)
    BY DEF Scan!Cardinality, ScanProofs!Cardinality
  <2> QED
    BY <2>1, <2>2 DEF PermitsAreKept, Scan!PermitsAreKept, ScanProofs!PermitsAreKept
<1> QED
  BY <1>2, <1>3, PortScanRuns, PTL

-----------------------------------------------------------------------------
(* Scans rest on proofs                                                    *)

\* Of the targets passed so far every source was seen to hold a declaration, and
\* without a proof named there is no authorization.
ProofsSoFar ==
  /\ at \in Nat
  /\ DOMAIN authorizations = DOMAIN Typed
  /\ proving = "proved" => at = Len(Typed) + 1
  /\ proving = "fetching" => Proof!Mode(options) # "none"
  /\ Proof!Mode(options) # "none" =>
       \A k \in DOMAIN Typed : k < at => Proof!Target(k) \in witnessed
  /\ Proof!Mode(options) = "none" =>
       \A k \in DOMAIN Typed : authorizations[k] = Proof!NoAuthorization

\* The scan is of one of the targets, under the authorization obtained for it,
\* and its ports are probed under an authorization only.
ScanHasItsConfig ==
  /\ scan \in {0, 1} /\ DOMAIN config = {1} /\ DOMAIN phase = {1}
  /\ scan = 0 => phase[1] = "none" /\ ~config[1].authorization.held
  /\ scan = 1 =>
       /\ proving = "proved"
       /\ \E i \in DOMAIN Typed : config[1] = ConfigFor(options, i, authorizations[i])
  /\ stage # "idle" => scan = 1 /\ config[1].authorization.held

LEMMA TargetsInOrder == Len(Typed) \in Nat \ {0} /\ DOMAIN Typed = 1..Len(Typed)
  BY CommandAssumption

LEMMA ProofsKept == ProofsSoFar /\ [Next]_vars => ProofsSoFar'
<1> SUFFICES ASSUME ProofsSoFar, [Next]_vars
             PROVE  ProofsSoFar'
  OBVIOUS
<1>1. CASE UNCHANGED proofVars
  BY <1>1 DEF ProofsSoFar, proofVars, Proof!Target, Proof!Mode
<1>2. CASE Proof!CheckOptions
  BY <1>2 DEF Proof!CheckOptions, ProofsSoFar, Proof!Target, Proof!Mode
<1>3. ASSUME NEW proof, NEW declared, Proof!Conclude(proof, declared),
             Proof!Mode(options) = "none" => proof = Proof!NoAuthorization,
             Proof!Mode(options) # "none" /\ proof.held => declared
      PROVE  ProofsSoFar'
  <2>1. /\ options' = options
        /\ \A k : Proof!Target(k)' = Proof!Target(k)
        /\ Proof!Mode(options)' = Proof!Mode(options)
        /\ witnessed \subseteq witnessed'
    BY <1>3 DEF Proof!Conclude, Proof!Target, Proof!Mode
  <2>2. CASE proof.held \/ Proof!Mode(options) = "none"
    <3>1. /\ authorizations' = [authorizations EXCEPT ![at] = proof]
          /\ at' = at + 1
          /\ proving' = "proved" => at = Len(Typed)
          /\ proving' # "fetching"
          /\ Proof!Mode(options) # "none" => Proof!Target(at) \in witnessed'
      BY <1>3, <2>2 DEF Proof!Conclude
    <3>2. Proof!Mode(options) # "none" =>
            \A k \in DOMAIN Typed : k < at' => Proof!Target(k) \in witnessed'
      <4>1. SUFFICES ASSUME Proof!Mode(options) # "none", NEW k \in DOMAIN Typed, k < at'
                     PROVE  Proof!Target(k) \in witnessed'
        OBVIOUS
      <4>2. k < at \/ k = at
        <5>1. k \in Nat /\ at \in Nat
          BY TargetsInOrder, k \in DOMAIN Typed DEF ProofsSoFar
        <5>2. k < at + 1
          BY <3>1, <4>1
        <5> QED
          BY <5>1, <5>2
      <4>3. k < at => Proof!Target(k) \in witnessed
        BY <4>1 DEF ProofsSoFar
      <4> QED
        BY <2>1, <3>1, <4>1, <4>2, <4>3
    <3>3. Proof!Mode(options) = "none" =>
            \A k \in DOMAIN Typed : authorizations'[k] = Proof!NoAuthorization
      BY <1>3, <3>1 DEF ProofsSoFar
    <3>4. at' \in Nat /\ DOMAIN authorizations' = DOMAIN Typed
      BY <3>1 DEF ProofsSoFar
    <3>5. (proving' = "proved" => at' = Len(Typed) + 1) /\ proving' # "fetching"
      BY <3>1
    <3> QED
      BY <2>1, <3>2, <3>3, <3>4, <3>5 DEF ProofsSoFar, Proof!NoAuthorization
  <2>3. CASE ~(proof.held \/ Proof!Mode(options) = "none")
    <3>1. proving' = "refused" /\ at' = at /\ authorizations' = authorizations
      BY <1>3, <2>3 DEF Proof!Conclude
    <3> QED
      BY <2>1, <3>1 DEF ProofsSoFar, Proof!NoAuthorization
  <2> QED
    BY <2>2, <2>3
<1>4. CASE Proof!NoProof
  BY <1>3, <1>4 DEF Proof!NoProof
<1>5. CASE Proof!ReadManifest
  <2>1. Proof!SelfOwnedProof(Proof!Target(at), manifest).held
          => manifest.exists /\ Proof!Listed(Proof!Target(at))
    BY DEF Proof!SelfOwnedProof, Proof!NoAuthorization, Proof!Listed
  <2> QED
    BY <1>3, <1>5, <2>1 DEF Proof!ReadManifest
<1>6. CASE Proof!LookUpTxt
  <2>1. PICK answer \in TxtAnswers :
          Proof!Conclude(Proof!DnsTxtProof(Proof!Target(at), answer),
            answer.found /\ \E txt \in answer.records : Proof!Declares(txt))
    BY <1>6 DEF Proof!LookUpTxt
  <2>2. Proof!DnsTxtProof(Proof!Target(at), answer).held
          => answer.found /\ \E txt \in answer.records : Proof!Declares(txt)
    BY DEF Proof!DnsTxtProof, Proof!ProofIf, Proof!NoAuthorization, Proof!Declares
  <2> QED
    BY <1>3, <1>6, <2>1, <2>2 DEF Proof!LookUpTxt
<1>7. CASE Proof!GetWellKnown
  <2> DEFINE Declared(answer) ==
               answer.found /\ answer.status = 200 /\ Proof!Declares(answer.body)
  <2>1. PICK answer \in SiteAnswers :
          Proof!Conclude(Proof!WellKnownProof(Proof!Target(at), answer), Declared(answer))
    BY <1>7 DEF Proof!GetWellKnown
  <2>2. Proof!WellKnownProof(Proof!Target(at), answer).held => Declared(answer)
    BY DEF Proof!WellKnownProof, Proof!ProofIf, Proof!NoAuthorization, Proof!Declares
  <2>3. Proof!Mode(options) # "none"
    BY <1>7 DEF Proof!GetWellKnown, ProofsSoFar
  <2> HIDE DEF Declared
  <2> QED
    BY <1>3, <2>1, <2>2, <2>3
<1>8. CASE Proof!AskWellKnown
  BY <1>8 DEF Proof!AskWellKnown, ProofsSoFar, Proof!Target, Proof!Mode
<1>9. Proof!ProofStep \/ UNCHANGED proofVars
  BY DEF Next, vars, ObtainAuthorizations, BeginScan, OtherAnalyzer, PortsStep, DispatchPorts,
         ProbesRun, PortsAnswers, PortsExpires, PortsUnwinds, HeadersStep, DispatchHeaders,
         ExchangeRuns, HeadersAnswers, HeadersFindClosedClient, HeadersExpire, HeadersUnwind,
         EndScan, CloseLoop, LoopClosed, Terminated
<1> QED
  BY <1>1, <1>2, <1>4, <1>5, <1>6, <1>7, <1>8, <1>9 DEF Proof!ProofStep

\* Once a target is scanned, nothing changes of what was obtained for it; and the
\* gate admits an active analyzer under an authorization only.
LEMMA ScanConfigKept == ScanHasItsConfig /\ [Next]_vars => ScanHasItsConfig'
<1> SUFFICES ASSUME ScanHasItsConfig, [Next]_vars
             PROVE  ScanHasItsConfig'
  OBVIOUS
<1>1. ASSUME UNCHANGED <<scan, config, phase>>,
             scan = 1 => UNCHANGED <<proving, options, authorizations>>,
             stage' # "idle" => scan = 1 /\ config[1].authorization.held
      PROVE  ScanHasItsConfig'
  BY <1>1 DEF ScanHasItsConfig, ConfigFor, Proof!Target
<1>2. CASE ObtainAuthorizations
  <2>1. scan # 1
    BY <1>2 DEF ScanHasItsConfig, ObtainAuthorizations, Proof!ProofStep, Proof!CheckOptions,
                Proof!NoProof, Proof!ReadManifest, Proof!LookUpTxt, Proof!AskWellKnown,
                Proof!GetWellKnown
  <2> QED
    BY <1>1, <1>2, <2>1 DEF ObtainAuthorizations, ScanHasItsConfig, orchVars, scanVars
<1>3. CASE BeginScan
  <2>1. PICK i \in DOMAIN Typed : Orch!Start(ConfigFor(options, i, authorizations[i]))
    BY <1>3 DEF BeginScan
  <2>2. /\ scan = 0 /\ scan' = 1
        /\ DOMAIN config' = {1} /\ config'[1] = ConfigFor(options, i, authorizations[i])
        /\ DOMAIN phase' = {1}
    BY <2>1 DEF Orch!Start, ScanHasItsConfig
  <2>3. proving' = "proved" /\ options' = options /\ authorizations' = authorizations
    BY <1>3 DEF BeginScan, Proof!Proved, proofVars
  <2>4. stage' = "idle"
    BY <1>3, <2>2 DEF BeginScan, ScanHasItsConfig, scanVars
  <2> QED
    BY <2>2, <2>3, <2>4 DEF ScanHasItsConfig, ConfigFor, Proof!Target
<1>4. CASE DispatchPorts
  <2>1. UNCHANGED <<scan, config, phase, proving, options, authorizations>>
    BY <1>4 DEF DispatchPorts, Orch!Dispatch, proofVars
  <2>2. Orch!GateAdmits(1, "ports") => config[1].authorization.held
    BY CommandAssumption DEF Orch!GateAdmits, Orch!Admits
  <2>3. config[1].authorization.held => scan = 1
    BY DEF ScanHasItsConfig
  <2>4. stage' # "idle" => stage # "idle" \/ Orch!GateAdmits(1, "ports")
    BY <1>4 DEF DispatchPorts, scanVars
  <2> QED
    BY <1>1, <2>1, <2>2, <2>3, <2>4 DEF ScanHasItsConfig
<1>5. ASSUME UNCHANGED <<scan, config, phase, proving, options, authorizations>>,
             stage' # "idle" => stage # "idle"
      PROVE  ScanHasItsConfig'
  BY <1>1, <1>5 DEF ScanHasItsConfig
<1>6. Scan!CancelProbes \/ Scan!GatherStep \/ (\E i \in DOMAIN Ports : Scan!ProbeStep(i))
        => (stage' # "idle" => stage # "idle")
  BY DEF Scan!CancelProbes, Scan!GatherStep, Scan!ReportPorts, Scan!RaiseFromProbe,
         Scan!Cancelled, Scan!ProbeStep, Scan!Acquire, Scan!Accept, Scan!Refuse,
         Scan!Closed, Scan!Fail, Scan!LeaveQueue, Scan!Unwound, Scan!AnswerLate
<1>7. CASE ProbesRun
  BY <1>5, <1>6, <1>7 DEF ProbesRun, proofVars, orchVars
<1>8. CASE PortsExpires \/ CloseLoop
  BY <1>5, <1>6, <1>8 DEF PortsExpires, CloseLoop, Orch!Expire, Orch!CloseLoop, proofVars
<1>9. CASE PortsAnswers \/ PortsUnwinds \/ LoopClosed \/ Terminated \/ UNCHANGED vars
  BY <1>5, <1>9 DEF PortsAnswers, PortsUnwinds, LoopClosed, Terminated, Orch!Answer,
       Orch!Unwind, Orch!LoopClosed, vars, proofVars, orchVars, scanVars
<1>10. CASE \E a \in Available : OtherAnalyzer(a)
  BY <1>5, <1>10 DEF OtherAnalyzer, Orch!TaskStep, Orch!Dispatch, Orch!Answer,
       Orch!SendOnClosedClient, Orch!Expire, Orch!Unwind, proofVars, scanVars
<1>11. CASE HeadersStep
  BY <1>5, <1>11 DEF HeadersStep, DispatchHeaders, ExchangeRuns, HeadersAnswers,
       HeadersFindClosedClient, HeadersExpire, HeadersUnwind, Orch!Dispatch, Orch!Answer,
       Orch!SendOnClosedClient, Orch!Expire, Orch!Unwind, proofVars, orchVars, scanVars
<1>12. CASE EndScan
  <2>1. /\ phase[1] = "gathering" /\ DOMAIN phase' = DOMAIN phase
        /\ UNCHANGED <<scan, config, proving, options, authorizations, stage>>
    BY <1>12 DEF EndScan, Orch!Return, Orch!Abort, Orch!RejectReport, Orch!End,
         Orch!Gathering, proofVars, scanVars
  <2>2. scan = 1
    BY <2>1 DEF ScanHasItsConfig
  <2> QED
    BY <2>1, <2>2 DEF ScanHasItsConfig, ConfigFor, Proof!Target
<1> QED
  BY <1>2, <1>3, <1>4, <1>7, <1>8, <1>9, <1>10, <1>11, <1>12 DEF Next, PortsStep

\* For any targets, options and answers of the outside: no scan begins before
\* a declaration was read from every target's own source, when the options name
\* a proof, and no port is probed of a host whose source held none.
THEOREM ScansFollowProofs == Spec => []ScansRestOnProofs
<1>1. Init => ProofsSoFar /\ ScanHasItsConfig
  <2>1. Init => ProofsSoFar
    BY TargetsInOrder DEF Init, Proof!Init, ProofsSoFar
  <2>2. Init => ScanHasItsConfig
    BY DEF Init, Orch!Init, Scan!Init, ScanHasItsConfig, Orch!Scans, Orch!NoConfig,
           Orch!NoAuthorization
  <2> QED
    BY <2>1, <2>2
<1>2. ProofsSoFar /\ ScanHasItsConfig => ScansRestOnProofs
  <2> SUFFICES ASSUME ProofsSoFar, ScanHasItsConfig
               PROVE  ScansRestOnProofs
    OBVIOUS
  <2>1. scan = 1 /\ Proof!Mode(options) # "none" =>
          \A k \in DOMAIN Typed : Proof!Target(k) \in witnessed
    <3> SUFFICES ASSUME proving = "proved", Proof!Mode(options) # "none",
                        NEW k \in DOMAIN Typed
                 PROVE  Proof!Target(k) \in witnessed
      BY DEF ScanHasItsConfig
    <3>1. k < at
      BY TargetsInOrder DEF ProofsSoFar
    <3> QED
      BY <3>1 DEF ProofsSoFar
  <2>2. stage # "idle" => config[1].target \in witnessed
    <3> SUFFICES ASSUME stage # "idle"
                 PROVE  config[1].target \in witnessed
      OBVIOUS
    <3>1. PICK i \in DOMAIN Typed : config[1] = ConfigFor(options, i, authorizations[i])
      BY DEF ScanHasItsConfig
    <3>2. config[1].target = Proof!Target(i) /\ config[1].authorization = authorizations[i]
      BY <3>1 DEF ConfigFor
    <3>3. Proof!Mode(options) # "none"
      BY <3>2 DEF ProofsSoFar, ScanHasItsConfig, Proof!NoAuthorization
    <3> QED
      BY <2>1, <3>2, <3>3 DEF ScanHasItsConfig
  <2>3. phase[1] # "none" => scan = 1
    BY DEF ScanHasItsConfig
  <2> QED
    BY <2>1, <2>2, <2>3 DEF ScansRestOnProofs
<1> QED
  BY <1>1, <1>2, ProofsKept, ScanConfigKept, PTL DEF Spec

-----------------------------------------------------------------------------
(* A command and its orchestrator                                          *)

OrchProofs == INSTANCE OrchestratorProofs WITH
  Analyzers <- Available,
  HttpAnalyzers <- {"headers"},
  Configs <- PossibleConfigs,
  Outcomes <- {"report", "network_error", "analyzer_error", "timeout_error", "other_error"},
  ClockRetreats <- TRUE,
  MaxScans <- 1

NameOf == [text : STRING, upper : BOOLEAN]

\* What an authorization of this command may be.
Obtainable ==
  {Proof!NoAuthorization} \cup {Proof!AuthorizationFor(Proof!Target(j)) : j \in DOMAIN Typed}

\* Proofs are looked up target by target, and only when the options name no
\* analyzer that is not there.
ProofsTyped ==
  /\ Proof!TypeOK
  /\ proving \in {"checking", "proving", "fetching"} => at \in DOMAIN Typed
  /\ proving \in {"proving", "fetching", "proved"} => options.enable \subseteq Available
  /\ authorizations \in [DOMAIN Typed -> Obtainable]

\* The orchestrator of a command meets what is assumed of any.
LEMMA OrchestratorAssumed == OrchProofs!OrchestratorAssumption
<1>1. \A c \in PossibleConfigs : c.enabled \subseteq Available
  BY DEF PossibleConfigs, ConfigFor, Proof!ResolveEnabled
<1>2. LegalClassOf \in [Available -> {"passive", "active", "intrusive"}]
      /\ {"headers"} \subseteq Available
  BY CommandAssumption DEF Proof!LegalClasses
<1> QED
  BY <1>1, <1>2 DEF OrchProofs!OrchestratorAssumption, OrchProofs!AllOutcomes,
                    OrchProofs!LegalClasses

LEMMA ProofsTypedKept == ProofsTyped /\ [Next]_vars => ProofsTyped'
<1> SUFFICES ASSUME ProofsTyped, [Next]_vars
             PROVE  ProofsTyped'
  OBVIOUS
<1>0. /\ \A k : Proof!Target(k)' = Proof!Target(k)
      /\ Obtainable' = Obtainable
  OBVIOUS
<1>1. CASE UNCHANGED proofVars
  BY <1>0, <1>1 DEF ProofsTyped, proofVars, Proof!TypeOK
<1>2. CASE Proof!CheckOptions
  BY <1>0, <1>2, TargetsInOrder DEF Proof!CheckOptions, ProofsTyped, Proof!TypeOK
<1>3. ASSUME NEW proof \in {Proof!NoAuthorization, Proof!AuthorizationFor(Proof!Target(at))},
             NEW declared, Proof!Conclude(proof, declared), proving \in {"proving", "fetching"}
      PROVE  ProofsTyped'
  <2>1. at \in DOMAIN Typed /\ at \in 1..Len(Typed) /\ options.enable \subseteq Available
    BY <1>3, TargetsInOrder DEF ProofsTyped
  <2>2. options' = options /\ options \in CommandLines
    BY <1>3 DEF Proof!Conclude, ProofsTyped, Proof!TypeOK
  <2>3. witnessed' \subseteq {Proof!Target(i) : i \in DOMAIN Typed}
    BY <1>3, <2>1 DEF Proof!Conclude, ProofsTyped, Proof!TypeOK
  <2>4. authorizations' \in [DOMAIN Typed -> Obtainable]
    <3>1. proof \in Obtainable
      BY <2>1 DEF Obtainable
    <3>2. authorizations' \in {authorizations, [authorizations EXCEPT ![at] = proof]}
      BY <1>3 DEF Proof!Conclude
    <3> QED
      BY <3>1, <3>2 DEF ProofsTyped
  <2>5. /\ proving' \in {"proved", "proving", "refused"} /\ at' \in 1..(Len(Typed) + 1)
        /\ proving' = "proving" => at' \in DOMAIN Typed
    <3>1. Len(Typed) \in Nat /\ DOMAIN Typed = 1..Len(Typed)
      BY TargetsInOrder
    <3>2. \/ at' = at + 1 /\ proving' = (IF at = Len(Typed) THEN "proved" ELSE "proving")
          \/ at' = at /\ proving' = "refused"
      BY <1>3 DEF Proof!Conclude
    <3> QED
      BY <2>1, <3>1, <3>2
  <2> QED
    BY <1>0, <2>1, <2>2, <2>3, <2>4, <2>5 DEF ProofsTyped, Proof!TypeOK
<1>4. CASE Proof!NoProof
  BY <1>3, <1>4 DEF Proof!NoProof
<1>5. CASE Proof!ReadManifest
  BY <1>3, <1>5 DEF Proof!ReadManifest, Proof!SelfOwnedProof
<1>6. CASE Proof!LookUpTxt
  BY <1>3, <1>6 DEF Proof!LookUpTxt, Proof!DnsTxtProof, Proof!ProofIf
<1>7. CASE Proof!GetWellKnown
  BY <1>3, <1>7 DEF Proof!GetWellKnown, Proof!WellKnownProof, Proof!ProofIf
<1>8. CASE Proof!AskWellKnown
  BY <1>0, <1>8 DEF Proof!AskWellKnown, ProofsTyped, Proof!TypeOK
<1>9. Proof!ProofStep \/ UNCHANGED proofVars
  BY DEF Next, vars, ObtainAuthorizations, BeginScan, OtherAnalyzer, PortsStep, DispatchPorts,
         ProbesRun, PortsAnswers, PortsExpires, PortsUnwinds, HeadersStep, DispatchHeaders,
         ExchangeRuns, HeadersAnswers, HeadersFindClosedClient, HeadersExpire, HeadersUnwind,
         EndScan, CloseLoop, LoopClosed, Terminated
<1> QED
  BY <1>1, <1>2, <1>4, <1>5, <1>6, <1>7, <1>8, <1>9 DEF Proof!ProofStep

LEMMA OrchestratorBegins == Init => OrchProofs!Init
  BY DEF Init, Orch!Init, OrchProofs!Init, Orch!Scans, OrchProofs!Scans, Orch!NoConfig,
         OrchProofs!NoConfig, Orch!NoAuthorization, OrchProofs!NoAuthorization,
         Orch!NoReport, OrchProofs!NoReport, Orch!ConfigHash, OrchProofs!ConfigHash,
         Orch!NoResults, OrchProofs!NoResults

\* A step of a task, in the command as in the orchestrator by itself.
LEMMA TaskStepsAgree ==
  ASSUME NEW a
  PROVE  /\ Orch!Dispatch(1, a) => OrchProofs!Dispatch(1, a)
         /\ Orch!Answer(1, a) => OrchProofs!Answer(1, a)
         /\ Orch!SendOnClosedClient(1, a) => OrchProofs!SendOnClosedClient(1, a)
         /\ Orch!Expire(1, a) => OrchProofs!Expire(1, a)
         /\ Orch!Unwind(1, a) => OrchProofs!Unwind(1, a)
<1>0. Orch!Dot = OrchProofs!Dot
  BY DEF Orch!Dot, OrchProofs!Dot
<1>1. /\ \A x : Orch!GateAdmits(1, x) <=> OrchProofs!GateAdmits(1, x)
      /\ Orch!Classified = OrchProofs!Classified
  BY <1>0 DEF Orch!GateAdmits, OrchProofs!GateAdmits, Orch!Admits, OrchProofs!Admits,
         Orch!HostsMatch, OrchProofs!HostsMatch, Orch!Normalized, OrchProofs!Normalized,
         Orch!EndsInDomain, OrchProofs!EndsInDomain, Orch!EndsWith, OrchProofs!EndsWith,
         Orch!StripDots, OrchProofs!StripDots,
         Orch!Lower, OrchProofs!Lower, Orch!Min, OrchProofs!Min, Orch!Max, OrchProofs!Max,
         Orch!Classified, OrchProofs!Classified
<1> USE DEF Orch!Conclude, OrchProofs!Conclude
<1>2. Orch!Dispatch(1, a) => OrchProofs!Dispatch(1, a)
  BY <1>1 DEF Orch!Dispatch, OrchProofs!Dispatch
<1>3. Orch!Answer(1, a) => OrchProofs!Answer(1, a)
  BY <1>1 DEF Orch!Answer, OrchProofs!Answer
<1>4. Orch!SendOnClosedClient(1, a) => OrchProofs!SendOnClosedClient(1, a)
  BY <1>1 DEF Orch!SendOnClosedClient, OrchProofs!SendOnClosedClient
<1>5. Orch!Expire(1, a) => OrchProofs!Expire(1, a)
  BY DEF Orch!Expire, OrchProofs!Expire
<1>6. Orch!Unwind(1, a) => OrchProofs!Unwind(1, a)
  BY <1>1 DEF Orch!Unwind, OrchProofs!Unwind
<1> QED
  BY <1>2, <1>3, <1>4, <1>5, <1>6

\* Every step of a command is a step of its orchestrator or none of its business.
LEMMA StepsOfOrchestrator ==
  ProofsTyped /\ [Next]_vars => [OrchProofs!Next]_(OrchProofs!vars)
<1> SUFFICES ASSUME ProofsTyped, [Next]_vars
             PROVE  OrchProofs!Next \/ UNCHANGED orchVars
  BY DEF orchVars, OrchProofs!vars
<1>0. 1 \in OrchProofs!Scans /\ Orch!Scans = OrchProofs!Scans
  BY DEF OrchProofs!Scans, Orch!Scans
<1>1. ASSUME NEW a \in Available, OrchProofs!TaskStep(1, a)
      PROVE  OrchProofs!Next
  BY <1>0, <1>1 DEF OrchProofs!Next
<1>2. "ports" \in Available /\ "headers" \in Available
  BY CommandAssumption
<1>3. CASE ObtainAuthorizations \/ ProbesRun \/ ExchangeRuns \/ Terminated \/ UNCHANGED vars
  BY <1>3 DEF ObtainAuthorizations, ProbesRun, ExchangeRuns, Terminated, vars
<1>4. CASE BeginScan
  <2>1. PICK i \in DOMAIN Typed : Orch!Start(ConfigFor(options, i, authorizations[i]))
    BY <1>4 DEF BeginScan
  <2>2. ConfigFor(options, i, authorizations[i]) \in PossibleConfigs
    <3>1. options \in {p \in CommandLines : p.enable \subseteq Available}
      BY <1>4 DEF BeginScan, ProofsTyped, Proof!Proved, Proof!TypeOK
    <3>2. authorizations[i] \in Obtainable
      BY DEF ProofsTyped
    <3> QED
      BY <3>1, <3>2 DEF PossibleConfigs, Obtainable
  <2>3. ASSUME NEW c, Orch!Start(c)
        PROVE  OrchProofs!Start(c)
    BY <2>3 DEF Orch!Start, OrchProofs!Start, Orch!Gathering, OrchProofs!Gathering,
                Orch!Scans, OrchProofs!Scans
  <2> QED
    BY <2>1, <2>2, <2>3 DEF OrchProofs!Next
<1>5. ASSUME NEW a \in Available, OtherAnalyzer(a)
      PROVE  OrchProofs!Next
  BY <1>1, <1>5, TaskStepsAgree DEF OtherAnalyzer, Orch!TaskStep, OrchProofs!TaskStep
<1>6. CASE PortsStep
  BY <1>1, <1>2, <1>3, <1>6, TaskStepsAgree
     DEF PortsStep, DispatchPorts, PortsAnswers, PortsExpires, PortsUnwinds,
         OrchProofs!TaskStep
<1>7. CASE HeadersStep
  BY <1>1, <1>2, <1>3, <1>7, TaskStepsAgree
     DEF HeadersStep, DispatchHeaders, HeadersAnswers, HeadersFindClosedClient,
         HeadersExpire, HeadersUnwind, OrchProofs!TaskStep
<1>8. CASE EndScan
  <2>1. Orch!ConfigHash(config[1]) = OrchProofs!ConfigHash(config[1])
    BY DEF Orch!ConfigHash, OrchProofs!ConfigHash, Orch!NoAuthorization,
           OrchProofs!NoAuthorization
  <2>2. Orch!Report(1) = OrchProofs!Report(1)
    BY <2>1 DEF Orch!Report, OrchProofs!Report
  <2>3. OrchProofs!Return(1) \/ OrchProofs!Abort(1) \/ OrchProofs!RejectReport(1)
    BY <1>8, <2>2 DEF EndScan, Orch!Return, OrchProofs!Return, Orch!Abort, OrchProofs!Abort,
       Orch!RejectReport, OrchProofs!RejectReport, Orch!Gathering, OrchProofs!Gathering,
       Orch!Scans, OrchProofs!Scans, Orch!Results, OrchProofs!Results, Orch!Failures,
       OrchProofs!Failures, Orch!End, OrchProofs!End
  <2> QED
    BY <1>0, <2>3 DEF OrchProofs!Next
<1>9. CASE CloseLoop \/ LoopClosed
  <2>1. Orch!CloseLoop => OrchProofs!CloseLoop
    BY DEF Orch!CloseLoop, OrchProofs!CloseLoop, Orch!Scans, OrchProofs!Scans
  <2>2. Orch!LoopClosed => OrchProofs!LoopClosed
    BY DEF Orch!LoopClosed, OrchProofs!LoopClosed, Orch!Scans, OrchProofs!Scans,
           Orch!Gathering, OrchProofs!Gathering, Orch!Active, OrchProofs!Active
  <2> QED
    BY <1>9, <2>1, <2>2 DEF CloseLoop, LoopClosed, OrchProofs!Next
<1> QED
  BY <1>3, <1>4, <1>5, <1>6, <1>7, <1>8, <1>9 DEF Next
-----------------------------------------------------------------------------
(* The analyzers and their tasks                                           *)

SomeProbeAtWork == \E i \in DOMAIN Ports : probe[i] \in Scan!AtWork

\* Probes are at work for a ports analyzer that awaits them, or has raised; its
\* task says "ok" of nothing but a report.
PortsTogether ==
  /\ SomeProbeAtWork => stage \in {"probing", "raised"}
  /\ SomeProbeAtWork => task[1]["ports"] \in {"running", "raised"}
  /\ stage = "probing" => task[1]["ports"] = "running"
  /\ task[1]["ports"] = "ok" => stage = "reported"

\* An exchange is under way for a headers analyzer that runs.
HeadersTogether ==
  /\ Http!TypeOK
  /\ exchange \in Http!ActiveExchange => task[1]["headers"] = "running"

\* Nothing runs on a loop that is closed.
ClosedIsStill ==
  loop = "closed" =>
    /\ \A a \in Available : task[1][a] \notin OrchProofs!Active
    /\ ~ProbeActive
    /\ exchange \notin Http!ActiveExchange

CommandInv ==
  /\ ProofsTyped
  /\ ScanHasItsConfig
  /\ OrchProofs!IInv
  /\ ScanProofs!IInv
  /\ PortsTogether
  /\ HeadersTogether
  /\ ClosedIsStill

\* What the inductive invariants of the parts are needed for here.
LEMMA PartsGive ==
  ASSUME CommandInv
  PROVE  /\ DOMAIN task = {1} /\ DOMAIN task[1] = Available
         /\ scan = 0 => \A a \in Available : task[1][a] = "absent"
         /\ stage = "idle" => \A i \in DOMAIN Ports : probe[i] = "none"
         /\ stage = "reported" => \A i \in DOMAIN Ports : probe[i] = "done"
         /\ DOMAIN probe = DOMAIN Ports
<1>1. OrchProofs!Scans = {1}
  BY DEF OrchProofs!Scans
<1>2. task \in [OrchProofs!Scans -> [Available -> OrchProofs!TaskStates]]
  BY DEF CommandInv, OrchProofs!IInv, OrchProofs!TypeOK
<1>3. scan = 0 => \A a \in Available : task[1][a] = "absent"
  BY <1>1 DEF CommandInv, OrchProofs!IInv, OrchProofs!TasksAreEnabled, ScanHasItsConfig
<1>4. /\ stage = "idle" => \A i \in DOMAIN Ports : probe[i] = "none"
      /\ stage = "reported" => \A i \in DOMAIN Ports : probe[i] = "done"
      /\ DOMAIN probe = DOMAIN Ports
  BY DEF CommandInv, ScanProofs!IInv, ScanProofs!StagesAgree, ScanProofs!TypeOK,
         ScanProofs!Probes
<1> QED
  BY <1>1, <1>2, <1>3, <1>4

\* A step of one task leaves the others of the scan as they are.
LEMMA OneTaskMoves ==
  ASSUME CommandInv, NEW a \in Available, OrchProofs!TaskStep(1, a)
  PROVE  /\ \A b \in Available : b # a => task'[1][b] = task[1][b]
         /\ task[1][a] \in OrchProofs!Active
         /\ UNCHANGED <<loop, scan>>
<1>1. PICK end : task' = [task EXCEPT ![1][a] = end]
  BY DEF OrchProofs!TaskStep, OrchProofs!Dispatch, OrchProofs!Answer,
         OrchProofs!SendOnClosedClient, OrchProofs!Expire, OrchProofs!Unwind,
         OrchProofs!Conclude
<1>2. UNCHANGED <<loop, scan>> /\ task[1][a] \in OrchProofs!Active
  BY DEF OrchProofs!TaskStep, OrchProofs!Dispatch, OrchProofs!Answer,
         OrchProofs!SendOnClosedClient, OrchProofs!Expire, OrchProofs!Unwind,
         OrchProofs!Active
<1> QED
  BY <1>1, <1>2, PartsGive

\* So a step of a task happens on a loop that is not closed.
LEMMA ClosedHasNoTaskStep ==
  ASSUME CommandInv, NEW a \in Available, OrchProofs!TaskStep(1, a)
  PROVE  loop' # "closed"
  BY OneTaskMoves DEF CommandInv, ClosedIsStill

LEMMA NamesOfTwo == "ports" \in Available /\ "headers" \in Available
  BY CommandAssumption

\* Probes run for the analyzer that awaits them; what is left of them when it
\* ends otherwise than by raising is being cancelled.
LEMMA PortsKept == CommandInv /\ [Next]_vars => PortsTogether'
<1> SUFFICES ASSUME CommandInv, [Next]_vars
             PROVE  PortsTogether'
  OBVIOUS
<1>0. PortsTogether
  BY DEF CommandInv
<1>1. ASSUME UNCHANGED scanVars, task'[1]["ports"] = task[1]["ports"]
      PROVE  PortsTogether'
  BY <1>0, <1>1 DEF PortsTogether, SomeProbeAtWork, scanVars
<1>2. CASE ObtainAuthorizations \/ ExchangeRuns \/ LoopClosed \/ Terminated \/ EndScan
           \/ UNCHANGED vars
  BY <1>1, <1>2 DEF ObtainAuthorizations, ExchangeRuns, LoopClosed, Terminated, EndScan,
       Orch!LoopClosed, Orch!Return, Orch!Abort, Orch!RejectReport, vars, orchVars, scanVars
<1>3. CASE BeginScan
  <2>1. PICK c : Orch!Start(c)
    BY <1>3 DEF BeginScan
  <2>2. scan = 0 /\ UNCHANGED scanVars
    BY <1>3, <2>1 DEF BeginScan, Orch!Start, CommandInv, ScanHasItsConfig
  <2>3. stage = "idle" /\ ~SomeProbeAtWork
    BY <2>2, PartsGive DEF CommandInv, ScanHasItsConfig, SomeProbeAtWork, Scan!AtWork,
                           Scan!Holding
  <2>4. task'[1]["ports"] \in {"created", "absent"}
    BY <2>1, <2>2, PartsGive, NamesOfTwo DEF Orch!Start
  <2> QED
    BY <2>2, <2>3, <2>4 DEF PortsTogether, SomeProbeAtWork, scanVars
<1>4. ASSUME NEW a \in Available, a # "ports", OrchProofs!TaskStep(1, a), UNCHANGED scanVars
      PROVE  PortsTogether'
  BY <1>1, <1>4, OneTaskMoves, NamesOfTwo
<1>5. CASE \E a \in Available : OtherAnalyzer(a)
  BY <1>4, <1>5, TaskStepsAgree DEF OtherAnalyzer, Orch!TaskStep, OrchProofs!TaskStep
<1>6. CASE HeadersStep
  BY <1>2, <1>4, <1>6, TaskStepsAgree, NamesOfTwo
     DEF HeadersStep, DispatchHeaders, HeadersAnswers, HeadersFindClosedClient,
         HeadersExpire, HeadersUnwind, OrchProofs!TaskStep
<1>7. CASE DispatchPorts
  <2>1. /\ task[1]["ports"] = "created"
        /\ task' = [task EXCEPT ![1]["ports"] =
                      IF Orch!GateAdmits(1, "ports") THEN "running" ELSE "denied"]
    BY <1>7 DEF DispatchPorts, Orch!Dispatch, Orch!Conclude
  <2>2. ~SomeProbeAtWork /\ stage # "probing"
    BY <2>1, <1>0 DEF PortsTogether
  <2>3. CASE Orch!GateAdmits(1, "ports")
    <3>1. stage' = "probing" /\ task'[1]["ports"] = "running"
      BY <1>7, <2>1, <2>3, PartsGive, NamesOfTwo DEF DispatchPorts, Scan!BeginProbes
    <3> QED
      BY <3>1 DEF PortsTogether
  <2>4. CASE ~Orch!GateAdmits(1, "ports")
    <3>1. UNCHANGED scanVars /\ task'[1]["ports"] = "denied"
      BY <1>7, <2>1, <2>4, PartsGive, NamesOfTwo DEF DispatchPorts
    <3> QED
      BY <2>2, <3>1 DEF PortsTogether, SomeProbeAtWork, scanVars
  <2> QED
    BY <2>3, <2>4
<1>8. CASE ProbesRun
  <2>1. task' = task
    BY <1>8 DEF ProbesRun, orchVars
  <2>2. CASE Scan!GatherStep
    <3>1. probe' = probe /\ stage \in {"probing", "cancelling"}
          /\ stage' \in {"reported", "raised", "cancelled"}
      BY <2>2 DEF Scan!GatherStep, Scan!ReportPorts, Scan!RaiseFromProbe, Scan!Cancelled
    <3>2. SomeProbeAtWork => stage = "probing"
      BY <3>1, <1>0 DEF PortsTogether
    <3>3. SomeProbeAtWork => stage' = "raised"
      BY <2>2, <3>2 DEF Scan!GatherStep, Scan!ReportPorts, Scan!RaiseFromProbe,
                        Scan!Cancelled, Scan!Probes, SomeProbeAtWork, Scan!AtWork, Scan!Holding
    <3>4. task[1]["ports"] # "ok"
      BY <3>1, <1>0 DEF PortsTogether
    <3> QED
      BY <1>0, <2>1, <3>1, <3>3, <3>4 DEF PortsTogether, SomeProbeAtWork
  <2>3. ASSUME NEW i \in DOMAIN Ports, Scan!ProbeStep(i)
        PROVE  PortsTogether'
    <3>1. stage' = stage
      BY <2>3 DEF Scan!ProbeStep, Scan!Acquire, Scan!Accept, Scan!Refuse, Scan!Closed,
                  Scan!Fail, Scan!LeaveQueue, Scan!Unwound, Scan!AnswerLate, Scan!Answered
    <3>2. PICK state : /\ probe' = [probe EXCEPT ![i] = state]
                       /\ state \in Scan!AtWork => probe[i] \in Scan!AtWork
      BY <2>3 DEF Scan!ProbeStep, Scan!Acquire, Scan!Accept, Scan!Refuse, Scan!Closed,
                  Scan!Fail, Scan!LeaveQueue, Scan!Unwound, Scan!AnswerLate,
                  Scan!Answered, Scan!Become, Scan!AtWork
    <3>3. SomeProbeAtWork' => SomeProbeAtWork
      BY <3>2, PartsGive DEF SomeProbeAtWork
    <3> QED
      BY <1>0, <2>1, <3>1, <3>3 DEF PortsTogether
  <2> QED
    BY <1>8, <2>2, <2>3 DEF ProbesRun
<1>9. CASE PortsAnswers
  <2>1. task'[1]["ports"] \in PortsEnds /\ UNCHANGED scanVars
    BY <1>9 DEF PortsAnswers
  <2>2. stage # "probing" /\ (stage = "raised" => task'[1]["ports"] = "raised")
        /\ (task'[1]["ports"] = "ok" => stage = "reported")
    BY <2>1 DEF PortsEnds
  <2> QED
    BY <1>0, <2>1, <2>2 DEF PortsTogether, SomeProbeAtWork, scanVars
<1>10. CASE PortsExpires \/ CloseLoop
  <2>1. Scan!CancelProbes
    BY <1>10 DEF PortsExpires, CloseLoop
  <2>2. ~SomeProbeAtWork' /\ stage' # "probing" /\ (stage = "reported" => stage' = "reported")
    BY <2>1 DEF Scan!CancelProbes, SomeProbeAtWork, Scan!Probes, Scan!AtWork, Scan!Holding,
                Scan!ActiveProbe
  <2>3. task'[1]["ports"] = "ok" => task[1]["ports"] = "ok"
    <3>1. CASE PortsExpires
      BY <3>1, PartsGive, NamesOfTwo DEF PortsExpires, Orch!Expire, Orch!Conclude
    <3>2. CASE CloseLoop
      <4>1. task'[1]["ports"] = CASE task[1]["ports"] = "created" -> "cancelled"
                                  [] task[1]["ports"] \in {"running", "expiring"} -> "cancelling"
                                  [] OTHER -> task[1]["ports"]
        BY <3>2, NamesOfTwo DEF CloseLoop, Orch!CloseLoop, Orch!Scans
      <4> QED
        BY <4>1
    <3> QED
      BY <1>10, <3>1, <3>2
  <2> QED
    BY <1>0, <2>2, <2>3 DEF PortsTogether
<1>11. CASE PortsUnwinds
  <2>1. /\ task[1]["ports"] \in {"expiring", "cancelling"}
        /\ task'[1]["ports"] \in PortsEnds \cup {"timeout", "cancelled"} /\ UNCHANGED scanVars
    BY <1>11 DEF PortsUnwinds, Orch!Unwind
  <2>2. ~SomeProbeAtWork /\ stage # "probing"
    BY <1>0, <2>1 DEF PortsTogether
  <2>3. task'[1]["ports"] = "ok" => stage = "reported"
    BY <2>1 DEF PortsEnds
  <2> QED
    BY <2>1, <2>2, <2>3 DEF PortsTogether, SomeProbeAtWork, scanVars
<1> QED
  BY <1>2, <1>3, <1>5, <1>6, <1>7, <1>8, <1>9, <1>10, <1>11 DEF Next, PortsStep
\* The exchange of an analyzer that is cut short is cancelled with it.
LEMMA HeadersKept == CommandInv /\ [Next]_vars => HeadersTogether'
<1> SUFFICES ASSUME CommandInv, [Next]_vars
             PROVE  HeadersTogether'
  OBVIOUS
<1> USE DEF Http!ActiveExchange, Http!ExchangeEnds
<1>0. HeadersTogether /\ MaxRedirects \in Nat
  BY CommandAssumption DEF CommandInv
<1>1. ASSUME UNCHANGED httpVars, task'[1]["headers"] = task[1]["headers"]
      PROVE  HeadersTogether'
  BY <1>0, <1>1 DEF HeadersTogether, Http!TypeOK, httpVars
<1>2. CASE ObtainAuthorizations \/ ProbesRun \/ LoopClosed \/ Terminated \/ EndScan
           \/ UNCHANGED vars
  BY <1>1, <1>2 DEF ObtainAuthorizations, ProbesRun, LoopClosed, Terminated, EndScan,
       Orch!LoopClosed, Orch!Return, Orch!Abort, Orch!RejectReport, vars, orchVars, httpVars
<1>3. CASE BeginScan
  <2>1. scan = 0 /\ UNCHANGED httpVars
    BY <1>3 DEF BeginScan, Orch!Start, CommandInv, ScanHasItsConfig
  <2>2. exchange \notin Http!ActiveExchange
    BY <1>0, <2>1, PartsGive, NamesOfTwo DEF HeadersTogether
  <2> QED
    BY <1>0, <2>1, <2>2 DEF HeadersTogether, Http!TypeOK, httpVars
<1>4. ASSUME NEW a \in Available, a # "headers", OrchProofs!TaskStep(1, a), UNCHANGED httpVars
      PROVE  HeadersTogether'
  BY <1>1, <1>4, OneTaskMoves, NamesOfTwo
<1>5. CASE \E a \in Available : OtherAnalyzer(a)
  BY <1>4, <1>5, TaskStepsAgree DEF OtherAnalyzer, Orch!TaskStep, OrchProofs!TaskStep
<1>6. CASE PortsStep
  BY <1>2, <1>4, <1>6, TaskStepsAgree, NamesOfTwo
     DEF PortsStep, DispatchPorts, PortsAnswers, PortsExpires, PortsUnwinds,
         OrchProofs!TaskStep
<1>7. CASE DispatchHeaders
  <2>1. /\ task[1]["headers"] = "created"
        /\ task' = [task EXCEPT ![1]["headers"] =
                      IF Orch!GateAdmits(1, "headers") THEN "running" ELSE "denied"]
    BY <1>7 DEF DispatchHeaders, Orch!Dispatch, Orch!Conclude
  <2>2. exchange \notin Http!ActiveExchange
    BY <1>0, <2>1 DEF HeadersTogether
  <2>3. CASE Orch!GateAdmits(1, "headers")
    <3>1. task'[1]["headers"] = "running" /\ exchange' = "ready" /\ UNCHANGED <<hops, contacted>>
      BY <1>7, <2>1, <2>3, PartsGive, NamesOfTwo DEF DispatchHeaders, Http!BeginGet
    <3> QED
      BY <1>0, <3>1 DEF HeadersTogether, Http!TypeOK
  <2>4. CASE ~Orch!GateAdmits(1, "headers")
    BY <1>0, <1>7, <2>2, <2>4 DEF DispatchHeaders, HeadersTogether, Http!TypeOK, httpVars
  <2> QED
    BY <2>3, <2>4
<1>8. CASE ExchangeRuns
  <2>1. task' = task /\ exchange \in Http!ActiveExchange
    BY <1>8 DEF ExchangeRuns, orchVars, Http!HttpStep, Http!Send, Http!Receive,
                Http!LoseExchange, Http!FollowRedirect
  <2>2. Http!TypeOK'
    <3>1. CASE Http!Send \/ Http!Receive \/ Http!LoseExchange
      BY <1>0, <3>1 DEF Http!Send, Http!Receive, Http!LoseExchange, HeadersTogether,
                        Http!TypeOK
    <3>2. ASSUME NEW host \in Hosts, Http!FollowRedirect(host)
          PROVE  Http!TypeOK'
      <4>1. hops \in 0..MaxRedirects /\ (hops < MaxRedirects => hops + 1 \in 0..MaxRedirects)
        BY <1>0 DEF HeadersTogether, Http!TypeOK
      <4>2. exchange' \in {"ready", "failed"} /\ hops' \in 0..MaxRedirects
        BY <3>2, <4>1 DEF Http!FollowRedirect
      <4> QED
        BY <4>2 DEF Http!TypeOK
    <3> QED
      BY <1>8, <3>1, <3>2 DEF ExchangeRuns, Http!HttpStep
  <2> QED
    BY <1>0, <2>1, <2>2 DEF HeadersTogether
<1>9. CASE HeadersAnswers \/ HeadersUnwind
  <2>1. exchange \notin Http!ActiveExchange
    BY <1>0, <1>9 DEF HeadersAnswers, HeadersUnwind, HeadersEnds, Orch!Unwind, HeadersTogether
  <2> QED
    BY <1>0, <1>9, <2>1 DEF HeadersAnswers, HeadersUnwind, HeadersTogether, Http!TypeOK,
                            httpVars
<1>10. CASE HeadersFindClosedClient
  BY <1>0, <1>10 DEF HeadersFindClosedClient, HeadersTogether, Http!TypeOK
<1>11. CASE HeadersExpire \/ CloseLoop
  BY <1>0, <1>11 DEF HeadersExpire, CloseLoop, Http!CancelGet, HeadersTogether, Http!TypeOK
<1> QED
  BY <1>2, <1>3, <1>5, <1>6, <1>7, <1>8, <1>9, <1>10, <1>11 DEF Next, HeadersStep

\* asyncio.run returns when neither a task nor a probe is left.
LEMMA ClosedKept == CommandInv /\ [Next]_vars => ClosedIsStill'
<1> SUFFICES ASSUME CommandInv, [Next]_vars, loop' = "closed"
             PROVE  /\ \A a \in Available : task'[1][a] \notin OrchProofs!Active
                    /\ ~ProbeActive'
                    /\ exchange' \notin Http!ActiveExchange
  BY DEF ClosedIsStill
<1>0. ClosedIsStill /\ HeadersTogether
  BY DEF CommandInv
<1>1. CASE LoopClosed
  <2>1. \A a \in Available : task[1][a] \notin OrchProofs!Active
    BY <1>1 DEF LoopClosed, Orch!LoopClosed, Orch!Scans, Orch!Active, OrchProofs!Active
  <2>2. exchange \notin Http!ActiveExchange
    BY <1>0, <2>1, NamesOfTwo DEF HeadersTogether, OrchProofs!Active
  <2>3. ~ProbeActive /\ UNCHANGED <<task, probe, exchange>>
    BY <1>1 DEF LoopClosed, Orch!LoopClosed, scanVars, httpVars
  <2> QED
    BY <2>1, <2>2, <2>3 DEF ProbeActive
<1>2. ASSUME loop = "closed", UNCHANGED <<task, probe, exchange>>
      PROVE  /\ \A a \in Available : task'[1][a] \notin OrchProofs!Active
             /\ ~ProbeActive'
             /\ exchange' \notin Http!ActiveExchange
  BY <1>0, <1>2 DEF ClosedIsStill, ProbeActive
<1>3. CASE ObtainAuthorizations \/ Terminated \/ EndScan \/ UNCHANGED vars
  BY <1>2, <1>3 DEF ObtainAuthorizations, Terminated, EndScan, Orch!Return, Orch!Abort,
       Orch!RejectReport, vars, orchVars, scanVars, httpVars
<1>4. ~BeginScan /\ ~CloseLoop
  BY DEF BeginScan, CloseLoop, Orch!Start, Orch!CloseLoop
<1>5. ~(\E a \in Available : OtherAnalyzer(a))
  BY ClosedHasNoTaskStep, TaskStepsAgree DEF OtherAnalyzer, Orch!TaskStep, OrchProofs!TaskStep
<1>6. ~(DispatchPorts \/ PortsAnswers \/ PortsExpires \/ PortsUnwinds)
  BY ClosedHasNoTaskStep, TaskStepsAgree, NamesOfTwo
     DEF DispatchPorts, PortsAnswers, PortsExpires, PortsUnwinds, OrchProofs!TaskStep
<1>7. ~(DispatchHeaders \/ HeadersAnswers \/ HeadersFindClosedClient \/ HeadersExpire
        \/ HeadersUnwind)
  BY ClosedHasNoTaskStep, TaskStepsAgree, NamesOfTwo
     DEF DispatchHeaders, HeadersAnswers, HeadersFindClosedClient, HeadersExpire,
         HeadersUnwind, OrchProofs!TaskStep
<1>8. CASE ProbesRun
  <2>1. loop = "closed" /\ UNCHANGED <<task, exchange>>
    BY <1>8 DEF ProbesRun, orchVars, httpVars
  <2>2. \A i \in DOMAIN Ports : ~Scan!ProbeStep(i)
    BY <1>0, <2>1 DEF ClosedIsStill, ProbeActive, Scan!ActiveProbe, Scan!AtWork,
         Scan!Holding, Scan!ProbeStep, Scan!Acquire, Scan!Accept, Scan!Refuse, Scan!Closed,
         Scan!Fail, Scan!LeaveQueue, Scan!Unwound, Scan!AnswerLate
  <2>3. probe' = probe
    BY <1>8, <2>2 DEF ProbesRun, Scan!GatherStep, Scan!ReportPorts, Scan!RaiseFromProbe,
                      Scan!Cancelled
  <2> QED
    BY <1>2, <2>1, <2>3
<1>9. ~ExchangeRuns
  BY <1>0 DEF ExchangeRuns, orchVars, ClosedIsStill, Http!ActiveExchange, Http!HttpStep,
              Http!Send, Http!Receive, Http!LoseExchange, Http!FollowRedirect
<1> QED
  BY <1>1, <1>3, <1>4, <1>5, <1>6, <1>7, <1>8, <1>9 DEF Next, PortsStep, HeadersStep

-----------------------------------------------------------------------------
(* The theorems about the composition                                      *)

\* The invariants of the parts, and what ties them together, hold throughout.
THEOREM CommandInvariant == Spec => []CommandInv
<1>1. Init => CommandInv
  <2> SUFFICES ASSUME Init
               PROVE  CommandInv
    OBVIOUS
  <2>1. ProofsTyped
    BY TargetsInOrder DEF Init, Proof!Init, ProofsTyped, Proof!TypeOK, Obtainable
  <2>2. ScanHasItsConfig
    BY DEF Init, Orch!Init, Scan!Init, ScanHasItsConfig, Orch!Scans, Orch!NoConfig,
           Orch!NoAuthorization
  <2>3. OrchProofs!IInv
    BY OrchestratorBegins, OrchProofs!InitEstablishes, OrchestratorAssumed
  <2>4. ScanProofs!IInv
    <3>1. ScanProofs!Init
      BY DEF Init, Scan!Init, ScanProofs!Init, Scan!Probes, ScanProofs!Probes
    <3>2. ScanProofs!PortScanAssumption
      BY CommandAssumption DEF Scan!PortScanAssumption, ScanProofs!PortScanAssumption
    <3> QED
      BY <3>1, <3>2, ScanProofs!Initially
  <2>5. PortsTogether
    BY NamesOfTwo DEF Init, Scan!Init, Orch!Init, Orch!Scans, PortsTogether,
       SomeProbeAtWork, Scan!AtWork, Scan!Holding, Scan!Probes
  <2>6. HeadersTogether
    BY CommandAssumption DEF Init, Http!Init, HeadersTogether, Http!TypeOK,
                             Http!ActiveExchange
  <2>7. ClosedIsStill
    BY DEF Init, Orch!Init, ClosedIsStill
  <2> QED
    BY <2>1, <2>2, <2>3, <2>4, <2>5, <2>6, <2>7 DEF CommandInv
<1>2. CommandInv /\ [Next]_vars => CommandInv'
  <2> SUFFICES ASSUME CommandInv, [Next]_vars
               PROVE  CommandInv'
    OBVIOUS
  <2>1. ProofsTyped' /\ ScanHasItsConfig'
    BY ProofsTypedKept, ScanConfigKept DEF CommandInv
  <2>2. OrchProofs!IInv'
    BY StepsOfOrchestrator, OrchProofs!NextPreserves, OrchestratorAssumed DEF CommandInv
  <2>3. ScanProofs!IInv'
    <3>1. ScanProofs!PortScanAssumption
      BY CommandAssumption DEF Scan!PortScanAssumption, ScanProofs!PortScanAssumption
    <3> QED
      BY <3>1, StepsOfPortScan, ScanProofs!Inductive DEF CommandInv
  <2> QED
    BY <2>1, <2>2, <2>3, PortsKept, HeadersKept, ClosedKept DEF CommandInv
<1> QED
  BY <1>1, <1>2, PTL DEF Spec
\* The orchestrator of a command is the orchestrator: run() is called with a
\* possible configuration, what the analyzers' own steps do to their tasks it
\* allows, and nothing else of the command touches its state.
THEOREM OrchestratorRuns == Spec => OrchProofs!Init /\ [][OrchProofs!Next]_(OrchProofs!vars)
<1>1. CommandInv => ProofsTyped
  BY DEF CommandInv
<1> QED
  BY <1>1, CommandInvariant, OrchestratorBegins, StepsOfOrchestrator, PTL DEF Spec

\* Type correctness of the composition: in particular a scan is only ever given a
\* configuration of one of the targets, under an authorization for one of them,
\* and a report holds nothing but results.
THEOREM TypeCorrect == Spec => []TypeOK
<1>1. CommandInv => TypeOK
  <2> SUFFICES ASSUME CommandInv
               PROVE  TypeOK
    OBVIOUS
  <2>1. Proof!TypeOK /\ Http!TypeOK
    BY DEF CommandInv, ProofsTyped, HeadersTogether
  <2>2. Scan!TypeOK
    BY DEF CommandInv, ScanProofs!IInv, ScanProofs!TypeOK, Scan!TypeOK, Scan!Probes,
           ScanProofs!Probes, Scan!ActiveProbe, ScanProofs!ActiveProbe, Scan!AtWork,
           ScanProofs!AtWork, Scan!Holding, ScanProofs!Holding, Scan!ProbeEnds,
           ScanProofs!ProbeEnds
  <2>3. Orch!TypeOK
    <3>1. \A c : Orch!ConfigHash(c) = OrchProofs!ConfigHash(c)
      BY DEF Orch!ConfigHash, OrchProofs!ConfigHash, Orch!NoAuthorization,
             OrchProofs!NoAuthorization
    <3>2. /\ Orch!NoConfig = OrchProofs!NoConfig /\ Orch!Scans = OrchProofs!Scans
          /\ Orch!TaskStates = OrchProofs!TaskStates /\ Orch!Results = OrchProofs!Results
      BY DEF Orch!NoConfig, OrchProofs!NoConfig, Orch!NoAuthorization,
             OrchProofs!NoAuthorization, Orch!Scans, OrchProofs!Scans, Orch!TaskStates,
             OrchProofs!TaskStates, Orch!Active, OrchProofs!Active, Orch!Results,
             OrchProofs!Results, Orch!Failures, OrchProofs!Failures
    <3>3. OrchProofs!TypeOK
      BY DEF CommandInv, OrchProofs!IInv
    <3>4. {Orch!ConfigHash(c) : c \in PossibleConfigs \cup {Orch!NoConfig}}
            = {OrchProofs!ConfigHash(c) : c \in PossibleConfigs \cup {OrchProofs!NoConfig}}
      BY <3>1, <3>2
    <3>5. report \in [Orch!Scans -> [hash : {Orch!ConfigHash(c) :
                                               c \in PossibleConfigs \cup {Orch!NoConfig}},
                                     results : UNION {[names -> Orch!Results] :
                                                        names \in SUBSET Available}]]
      <4> DEFINE Hashes == {OrchProofs!ConfigHash(c) :
                              c \in PossibleConfigs \cup {OrchProofs!NoConfig}}
      <4>1. report \in [OrchProofs!Scans -> [hash : Hashes,
                         results : UNION {[names -> OrchProofs!Results] :
                                            names \in SUBSET Available}]]
        BY <3>3 DEF OrchProofs!TypeOK
      <4>2. {Orch!ConfigHash(c) : c \in PossibleConfigs \cup {Orch!NoConfig}} = Hashes
        BY <3>4
      <4> HIDE DEF Hashes
      <4> QED
        BY <3>2, <4>1, <4>2
    <3>6. /\ config \in [Orch!Scans -> PossibleConfigs \cup {Orch!NoConfig}]
          /\ task \in [Orch!Scans -> [Available -> Orch!TaskStates]]
      BY <3>2, <3>3 DEF OrchProofs!TypeOK
    <3>7. /\ loop \in {"open", "closing", "closed"} /\ scan \in 0..1
          /\ phase \in [Orch!Scans -> {"none", "gathering", "returned", "aborted"}]
          /\ client \in [Orch!Scans -> {"none", "open", "closed"}]
          /\ starved \subseteq Orch!Scans \X Available
      BY <3>2, <3>3 DEF OrchProofs!TypeOK
    <3> QED
      BY <3>5, <3>6, <3>7 DEF Orch!TypeOK
  <2> QED
    BY <2>1, <2>2, <2>3 DEF TypeOK
<1> QED
  BY <1>1, CommandInvariant, PTL

\* Whatever cuts the port scan short, and however its probes interleave: a report
\* of ports is of exactly the ports that accepted a connection, and run() never
\* returns one that says "ok" of ports without it.
THEOREM PortsReportsAreExact == Spec => []PortsReportIsExact
<1>1. Spec => []ScanProofs!ReportIsExact
  <2>1. ScanProofs!PortScanAssumption
    BY CommandAssumption DEF Scan!PortScanAssumption, ScanProofs!PortScanAssumption
  <2>2. ScanProofs!Spec => []ScanProofs!ReportIsExact
    BY <2>1, ScanProofs!ReportExact
  <2> QED
    BY <2>2, PortScanRuns, PTL
<1>2. ScanProofs!ReportIsExact => Scan!ReportIsExact
  BY DEF ScanProofs!ReportIsExact, Scan!ReportIsExact, ScanProofs!OpenPorts, Scan!OpenPorts,
         ScanProofs!Probes, Scan!Probes
<1>3. ASSUME CommandInv, phase[1] = "returned", "ports" \in DOMAIN report[1].results,
             report[1].results["ports"] = "ok"
      PROVE  stage = "reported"
  <2>1. 1 \in OrchProofs!Scans
    BY DEF OrchProofs!Scans
  <2>2. report[1] = OrchProofs!Report(1)
    BY <1>3, <2>1 DEF CommandInv, OrchProofs!IInv, OrchProofs!ReturnedIsDone
  <2>3. task[1]["ports"] = "ok"
    BY <1>3, <2>2 DEF OrchProofs!Report
  <2> QED
    BY <1>3, <2>3 DEF CommandInv, PortsTogether
<1>4. CommandInv /\ ScanProofs!ReportIsExact => PortsReportIsExact
  BY <1>2, <1>3 DEF PortsReportIsExact
<1> QED
  BY <1>1, <1>4, CommandInvariant, PTL

\* Whichever of deadlines, failures and the end of the command come in whatever
\* order: probes work on only for an analyzer that runs or raised, an exchange only
\* for one that runs, and the loop closes over neither.
THEOREM NothingLeftBehind == Spec => []NothingIsLeftBehind
<1>1. CommandInv => NothingIsLeftBehind
  BY DEF CommandInv, PortsTogether, SomeProbeAtWork, HeadersTogether, ClosedIsStill,
         NothingIsLeftBehind
<1> QED
  BY <1>1, CommandInvariant, PTL

-----------------------------------------------------------------------------
(* Telemetry                                                               *)

HostNames == INSTANCE AuthorizationGateProofs WITH
  Characters <- {}, MaxLength <- 0, authorized <- <<>>, requested <- <<>>

\* Every host named is a sequence of characters, and each that was spoken to had
\* passed the hook.
HookPassed ==
  /\ request \in Seq(NameOf)
  /\ contacted \subseteq Seq(NameOf)
  /\ \A host \in contacted : ~Http!IsTelemetryHost(host)

\* The hook compares characters from the end of a name whose dots are trimmed at
\* the end only; the blacklist is to hold label for label of the name trimmed at
\* both ends.  The hook misses no host.
LEMMA HookMissesNone ==
  ASSUME NEW host \in Seq(NameOf), NEW bad \in Blacklist, ~Http!IsTelemetryHost(host)
  PROVE  ~Http!IsWithin(Http!Normalized(host), bad)
<1> DEFINE lowered == Http!Lower(host)
           trimmed == HostNames!StripDots(lowered)
<1>1. lowered \in Seq(STRING)
  <2>1. Len(host) \in Nat /\ DOMAIN host = 1..Len(host)
        /\ \A i \in 1..Len(host) : host[i] \in NameOf
    OBVIOUS
  <2>2. \A i \in 1..Len(host) : host[i].text \in STRING
    BY <2>1 DEF NameOf
  <2>3. lowered = [i \in 1..Len(host) |-> host[i].text]
    BY <2>1 DEF Http!Lower
  <2>4. [i \in 1..Len(host) |-> host[i].text] \in Seq(STRING)
    BY <2>1, <2>2
  <2> QED
    BY <2>3, <2>4
<1>2. bad \in Seq(STRING) /\ bad # <<>>
  BY CommandAssumption
<1>3. Http!Dot = HostNames!Dot
  BY DEF Http!Dot, HostNames!Dot
<1>4. Http!Normalized(host) = trimmed
  BY <1>3 DEF Http!Normalized, Http!StripDots, HostNames!StripDots, Http!Min, Http!Max,
              HostNames!Min, HostNames!Max
<1>5. \A r : HostNames!IsWithin(r, bad) <=> Http!IsWithin(r, bad)
  BY <1>3 DEF HostNames!IsWithin, Http!IsWithin, HostNames!PlacedLabels, Http!PlacedLabels,
              HostNames!Labels, Http!Labels, HostNames!Cuts, Http!Cuts
<1>6. \A r : HostNames!EndsInDomain(r, bad) <=> Http!EndsInDomain(r, bad)
  BY <1>3 DEF HostNames!EndsInDomain, Http!EndsInDomain, HostNames!EndsWith, Http!EndsWith
<1>7. HostNames!Named(lowered) # {} =>
        Http!RightStripDots(lowered)
          = SubSeq(lowered, 1, HostNames!Max(HostNames!Named(lowered)))
  BY <1>3 DEF HostNames!Named, HostNames!Letter, Http!RightStripDots, Http!Max, HostNames!Max
<1>8. ~(Http!RightStripDots(lowered) = bad
        \/ Http!EndsInDomain(Http!RightStripDots(lowered), bad))
  BY DEF Http!IsTelemetryHost
<1>9. trimmed \in Seq(STRING)
  BY <1>1, HostNames!StripDotsType
<1> HIDE DEF lowered
<1>10. ASSUME HostNames!IsWithin(trimmed, bad) PROVE FALSE
  <2>1. trimmed = bad \/ HostNames!EndsInDomain(trimmed, bad)
    BY <1>2, <1>9, <1>10, HostNames!ScopeByLabels
  <2>2. /\ HostNames!Named(lowered) # {}
        /\ \/ SubSeq(lowered, 1, HostNames!Max(HostNames!Named(lowered))) = bad
           \/ HostNames!EndsInDomain(
                SubSeq(lowered, 1, HostNames!Max(HostNames!Named(lowered))), bad)
    BY <1>1, <1>2, <2>1, HostNames!RightTrimEndsAlike DEF trimmed
  <2> QED
    BY <1>6, <1>7, <1>8, <2>2
<1> QED
  BY <1>4, <1>5, <1>10

\* Targets as they are scanned are host names too.
LEMMA TargetIsName == \A i \in DOMAIN Typed : Proof!Target(i) \in Seq(NameOf)
<1> SUFFICES ASSUME NEW name \in Seq(NameOf)
             PROVE  Proof!NormalizeTarget(name) \in Seq(NameOf)
  BY CommandAssumption DEF Proof!Target, NameOf
<1> DEFINE named == {i \in DOMAIN name : name[i].text # Proof!Dot}
           last == IF named = {} THEN 0 ELSE Proof!Max(named)
<1>1. Len(name) \in Nat /\ DOMAIN name = 1..Len(name)
  OBVIOUS
<1>2. named # {} => Proof!Max(named) \in 1..Len(name)
  <2>1. named \in SUBSET (1..Len(name))
    BY <1>1
  <2>2. named # {} => HostNames!Max(named) \in named
    <3>1. named \in SUBSET (0..Len(name))
      BY <1>1, <2>1
    <3> HIDE DEF named
    <3> QED
      BY <1>1, <3>1, HostNames!MaxOfNumbers
  <2> QED
    BY <2>1, <2>2 DEF Proof!Max, HostNames!Max
<1>3. last \in Nat /\ last <= Len(name)
  <2> HIDE DEF named
  <2> QED
    BY <1>1, <1>2
<1>4. \A i \in 1..last : name[i].text \in STRING
  <2>1. \A i \in 1..Len(name) : name[i] \in NameOf
    OBVIOUS
  <2>2. \A i \in 1..last : i \in 1..Len(name)
    <3> HIDE DEF last
    <3> QED
      BY <1>1, <1>3
  <2> QED
    BY <2>1, <2>2 DEF NameOf
<1> HIDE DEF last
<1>5. [i \in 1..last |-> [text |-> name[i].text, upper |-> FALSE]] \in [1..last -> NameOf]
  BY <1>4 DEF NameOf
<1>6. [i \in 1..last |-> [text |-> name[i].text, upper |-> FALSE]] \in Seq(NameOf)
  BY <1>3, <1>5
<1> QED
  BY <1>6 DEF Proof!NormalizeTarget, last

LEMMA HookKept == CommandInv /\ HookPassed /\ [Next]_vars => HookPassed'
<1> SUFFICES ASSUME CommandInv, HookPassed, [Next]_vars
             PROVE  HookPassed'
  OBVIOUS
<1>1. ASSUME UNCHANGED <<request, contacted>>
      PROVE  HookPassed'
  BY <1>1 DEF HookPassed
<1>2. ASSUME Http!BeginGet(config[1].target)
      PROVE  HookPassed'
  <2>1. config[1] \in PossibleConfigs \cup {OrchProofs!NoConfig}
    BY DEF CommandInv, OrchProofs!IInv, OrchProofs!TypeOK, OrchProofs!Scans
  <2>2. config[1].target \in Seq(NameOf)
    <3>1. CASE config[1] = OrchProofs!NoConfig
      BY <3>1 DEF OrchProofs!NoConfig
    <3>2. CASE config[1] \in PossibleConfigs
      BY <3>2, TargetIsName DEF PossibleConfigs, ConfigFor
    <3> QED
      BY <2>1, <3>1, <3>2
  <2> QED
    BY <1>2, <2>2 DEF Http!BeginGet, HookPassed
<1>3. CASE Http!HttpStep
  <2>1. CASE Http!Send
    <3>1. /\ request' = request
          /\ contacted' = contacted \/ (contacted' = contacted \cup {request}
                                        /\ ~Http!IsTelemetryHost(request))
      BY <2>1 DEF Http!Send
    <3> QED
      BY <3>1 DEF HookPassed
  <2>2. CASE Http!Receive \/ Http!LoseExchange
    BY <1>1, <2>2 DEF Http!Receive, Http!LoseExchange
  <2>3. ASSUME NEW host \in Hosts, Http!FollowRedirect(host)
        PROVE  HookPassed'
    <3>1. request' \in {request, host} /\ contacted' = contacted /\ host \in Seq(NameOf)
      BY <2>3, CommandAssumption DEF Http!FollowRedirect, NameOf
    <3> QED
      BY <3>1 DEF HookPassed
  <2> QED
    BY <1>3, <2>1, <2>2, <2>3 DEF Http!HttpStep
<1>4. \/ UNCHANGED <<request, contacted>>
      \/ Http!BeginGet(config[1].target)
      \/ Http!HttpStep
  BY DEF Next, vars, ObtainAuthorizations, BeginScan, OtherAnalyzer, PortsStep, DispatchPorts,
         ProbesRun, PortsAnswers, PortsExpires, PortsUnwinds, HeadersStep, DispatchHeaders,
         ExchangeRuns, HeadersAnswers, HeadersFindClosedClient, HeadersExpire, HeadersUnwind,
         EndScan, CloseLoop, LoopClosed, Terminated, Http!CancelGet, httpVars
<1> QED
  BY <1>1, <1>2, <1>3, <1>4

\* For any blacklist, hosts and number of redirects, and however a name is
\* written: no request of the scan's client goes to a blacklisted host or one below.
THEOREM TelemetryIsNeverSpokenTo == Spec => []NeverSpeaksToTelemetry
<1>1. Init => HookPassed
  BY DEF Init, Http!Init, HookPassed
<1>2. HookPassed => NeverSpeaksToTelemetry
  <2> SUFFICES ASSUME HookPassed, NEW host \in contacted, NEW bad \in Blacklist
               PROVE  ~Http!IsWithin(Http!Normalized(host), bad)
    BY DEF NeverSpeaksToTelemetry, Http!NeverSpeaksToTelemetry
  <2>1. host \in Seq(NameOf) /\ ~Http!IsTelemetryHost(host)
    BY DEF HookPassed
  <2> QED
    BY <2>1, HookMissesNone
<1> QED
  BY <1>1, <1>2, HookKept, CommandInvariant, PTL DEF Spec
=============================================================================
