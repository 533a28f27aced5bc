----------------------------- MODULE RiskEngine -----------------------------
(***************************************************************************)
(* risk/rules.py and risk/heuristic.py: the rules over the results of the  *)
(* analyzers, the score of those that fire, and the grade of the score.    *)
(* `results` maps analyzer names to the results of AnalyzerReports.        *)
(*                                                                         *)
(* Definitions named Bug_... are mutated forms used to test properties.    *)
(***************************************************************************)
EXTENDS AnalyzerReports

Rules == {"TLS-001", "TLS-002", "HEADERS-001", "HEADERS-002", "HEADERS-003",
          "DNS-001", "DNS-002"}

RuleSeverity ==
  [r \in Rules |-> CASE r = "TLS-002" -> "critical"
                     [] r \in {"TLS-001", "HEADERS-001"} -> "high"
                     [] r \in {"HEADERS-002", "HEADERS-003", "DNS-001"} -> "medium"
                     [] OTHER -> "low"]

RulePoints ==
  [r \in Rules |-> CASE r = "TLS-001" -> 20
                     [] r = "TLS-002" -> 25
                     [] r = "HEADERS-001" -> 12
                     [] r = "HEADERS-002" -> 8
                     [] r = "HEADERS-003" -> 5
                     [] r = "DNS-001" -> 6
                     [] r = "DNS-002" -> 3]

\* _report: only a result with status "ok" counts.
Reported(results, a) ==
  a \in DOMAIN results /\ results[a].status = "ok" /\ results[a].reported

OrderOf ==
  [g \in {"A", "B", "C", "D", "F", "N/A"} |->
     CASE g = "A" -> 5 [] g = "B" -> 4 [] g = "C" -> 3 [] g = "D" -> 2
       [] g = "F" -> 1 [] OTHER -> 0]

TlsGradeBelow(results, threshold) ==
  /\ Reported(results, "tls")
  /\ OrderOf[results["tls"].grade] < OrderOf[threshold]
  /\ results["tls"].grade # "N/A"

Bug_HeaderPresent(results, header) ==
  Reported(results, "headers") /\ header \notin results["headers"].missing

MissingSecurityHeader(results, header) ==
  Reported(results, "headers") /\ header \in results["headers"].missing

HasFinding(results, a, id) == Reported(results, a) /\ id \in results[a].findings

\* The predicates of RULE_REGISTRY.
Fires(rule, results) ==
  \/ rule = "TLS-001" /\ TlsGradeBelow(results, "B")
  \/ rule = "TLS-002" /\ HasFinding(results, "tls", Id("tls", "expiring_soon"))
  \/ rule = "HEADERS-001" /\ MissingSecurityHeader(results, "Strict-Transport-Security")
  \/ rule = "HEADERS-002" /\ MissingSecurityHeader(results, "Content-Security-Policy")
  \/ rule = "HEADERS-003" /\ MissingSecurityHeader(results, "X-Frame-Options")
  \/ rule = "DNS-001" /\ HasFinding(results, "dns_recon", Id("dns.absent", "dnssec"))
  \/ rule = "DNS-002" /\ HasFinding(results, "dns_recon", Id("dns.absent", "caa"))

RulesFired(results) == {r \in Rules : Fires(r, results)}

PointsOf(rule, fired) == IF rule \in fired THEN RulePoints[rule] ELSE 0

\* The points of the rules that fire, rule by rule, and 100 at most.
Score(fired) ==
  LET sum == PointsOf("TLS-001", fired) + PointsOf("TLS-002", fired)
             + PointsOf("HEADERS-001", fired) + PointsOf("HEADERS-002", fired)
             + PointsOf("HEADERS-003", fired)
             + PointsOf("DNS-001", fired) + PointsOf("DNS-002", fired)
  IN  IF sum < 100 THEN sum ELSE 100

BandOf(score) ==
  IF score >= 70 THEN "F" ELSE IF score >= 50 THEN "D" ELSE IF score >= 30 THEN "C"
  ELSE IF score >= 15 THEN "B" ELSE "A"

\* _score_to_grade: a critical hit lifts A, B and C to D.
RiskGrade(fired) ==
  LET base == BandOf(Score(fired))
  IN  IF (\E r \in fired : RuleSeverity[r] = "critical") /\ base \in {"A", "B", "C"}
      THEN "D" ELSE base

\* HeuristicRiskEngine.assess.
Assess(results) ==
  LET fired == RulesFired(results)
  IN  [rules_fired |-> fired, overall_score |-> Score(fired), grade |-> RiskGrade(fired)]
=============================================================================
