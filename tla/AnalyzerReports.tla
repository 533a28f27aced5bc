-------------------------- MODULE AnalyzerReports --------------------------
(***************************************************************************)
(* analyzers/*.py: what each built-in analyzer makes of what it observed,  *)
(* as an operator from an observation to its result.  A result is          *)
(* [status, reported, grade, findings, missing]: the status or error_kind  *)
(* the orchestrator records, whether there is a report, and of that report *)
(* the grade, the finding ids and the headers its metadata lists missing.  *)
(*                                                                         *)
(* Definitions named Bug_... are mutated forms used to test properties.    *)
(***************************************************************************)
EXTENDS Integers, FiniteSets

\* A finding id: "tls.cert.expired" is Id("tls.cert.expired", ""), and
\* "headers.missing.<name>" is Id("headers.missing", <name>).
Id(kind, name) == [kind |-> kind, name |-> name]

ReportOf(grade, findings, missing) ==
  [status |-> "ok", reported |-> TRUE, grade |-> grade, findings |-> findings,
   missing |-> missing]

Bug_ErrorIsAReport(errorKind) == ReportOf("N/A", {}, {})

\* What _run_one records of an analyzer that was denied, was late or raised.
NoReportFor(errorKind) ==
  [status |-> errorKind, reported |-> FALSE, grade |-> "N/A", findings |-> {},
   missing |-> {}]

-----------------------------------------------------------------------------
(* tls.py: an observation is [reachable, protocol, certificate, days,      *)
(* lapses]: whether port 443 answers, the protocol the server speaks best, *)
(* whether it sends a certificate, the whole days left on it when it is    *)
(* examined, and whether it lapsed between the handshake and that moment.  *)

ExpiryCriticalDays == 7
ExpiryWarningDays == 30
WeakProtocols == {"SSLv2", "SSLv3", "TLSv1", "TLSv1.1"}

\* External: ssl.create_default_context verifies the certificate, and
\* minimum_version refuses what is older than TLS 1.2.
Handshakes(o) ==
  /\ o.reachable
  /\ o.protocol \notin WeakProtocols
  /\ o.days >= 0 \/ o.lapses

TlsSeverity == [expired |-> "critical", expiring_soon |-> "critical",
                expiring_warning |-> "medium", weak |-> "high"]

Bug_SoonIncludesNothing(o) ==
  (IF o.days < 0 THEN {"expired"}
   ELSE IF o.days < ExpiryWarningDays THEN {"expiring_warning"} ELSE {})
  \cup (IF o.protocol \in WeakProtocols THEN {"weak"} ELSE {})

\* The findings by kind, severest expiry first and only one of the three.
TlsFindings(o) ==
  (IF o.days < 0 THEN {"expired"}
   ELSE IF o.days < ExpiryCriticalDays THEN {"expiring_soon"}
   ELSE IF o.days < ExpiryWarningDays THEN {"expiring_warning"} ELSE {})
  \cup (IF o.protocol \in WeakProtocols THEN {"weak"} ELSE {})

\* The F / C / B / A ladder tls.py and dns_recon.py grade severities with,
\* from the grade each gives for its worst severity.
Ladder(severities, ofCritical, ofHigh) ==
  IF "critical" \in severities THEN ofCritical
  ELSE IF "high" \in severities THEN ofHigh
  ELSE IF "medium" \in severities THEN "B" ELSE "A"

TlsResult(o) ==
  IF ~Handshakes(o) THEN NoReportFor("network")
  ELSE IF ~o.certificate THEN NoReportFor("analyzer")
  ELSE LET kinds == TlsFindings(o)
       IN  ReportOf(Ladder({TlsSeverity[k] : k \in kinds}, "F", "C"),
                    {Id("tls", k) : k \in kinds}, {})

-----------------------------------------------------------------------------
(* dns_recon.py: an observation maps each record type and DNSKEY to        *)
(* "some", "none" - no records, or an error for an answer -, or            *)
(* "unanswered": both errors and silence raise a DNSException, but silence *)
(* only after LookupLifetime.                                              *)

RecordTypes == {"A", "AAAA", "MX", "NS", "TXT", "SOA", "CNAME", "CAA"}

\* _lookup and _probe_dnssec turn a failure into an empty answer.
Found(o, rtype) == o[rtype] = "some"

DnsSeverity == [caa |-> "low", dnssec |-> "medium", mx |-> "info"]

DnsFindings(o) ==
  (IF Found(o, "CAA") THEN {} ELSE {"caa"})
  \cup (IF Found(o, "DNSKEY") THEN {} ELSE {"dnssec"})
  \cup (IF Found(o, "MX") THEN {} ELSE {"mx"})

\* In seconds: how long a lookup waits, and how long the orchestrator does.
LookupLifetime == 5
PerAnalyzerTimeout == 30

Bug_LookupsAtOnce(o) ==
  IF \E r \in DOMAIN o : o[r] = "unanswered" THEN LookupLifetime ELSE 0

\* The lookups are made one after the other.
TimeWaiting(o) == LookupLifetime * Cardinality({r \in DOMAIN o : o[r] = "unanswered"})

\* The lookups that are answered take time as well, so that one that has waited
\* for all of its budget is late.
DnsResult(o) ==
  LET kinds == DnsFindings(o)
  IN  IF TimeWaiting(o) >= PerAnalyzerTimeout THEN NoReportFor("timeout") ELSE
      ReportOf(IF \A r \in RecordTypes : ~Found(o, r) THEN "F"
               ELSE Ladder({DnsSeverity[k] : k \in kinds}, "C", "C"),
               {Id("dns.absent", k) : k \in kinds}, {})

-----------------------------------------------------------------------------
(* headers.py: an observation is [answered, present], the names of the     *)
(* headers of the response, the leaky ones included.                       *)

SecurityHeaders == {"Strict-Transport-Security", "Content-Security-Policy",
                    "X-Frame-Options", "X-Content-Type-Options",
                    "Referrer-Policy", "Permissions-Policy"}
LeakyHeaders == {"Server", "X-Powered-By", "X-AspNet-Version", "X-Generator"}
HeavyHitters == {"Strict-Transport-Security", "Content-Security-Policy"}

HeaderSeverity(h) ==
  CASE h = "Strict-Transport-Security" -> "high"
    [] h \in {"Content-Security-Policy", "X-Frame-Options"} -> "medium"
    [] OTHER -> "low"

HeadersGrade(missing, leaks) ==
  LET heavy == Cardinality(missing \cap HeavyHitters)
  IN  IF heavy >= 2 THEN "D"
      ELSE IF heavy = 1 /\ leaks # {} THEN "C"
      ELSE IF missing # {} \/ leaks # {} THEN "B" ELSE "A"

HeadersResult(o) ==
  IF ~o.answered THEN NoReportFor("network")
  ELSE LET missing == SecurityHeaders \ o.present
           leaks   == LeakyHeaders \cap o.present
       IN  ReportOf(HeadersGrade(missing, leaks),
                    {Id("headers.missing", h) : h \in missing}
                      \cup {Id("headers.leak", h) : h \in leaks},
                    missing)

-----------------------------------------------------------------------------
(* ports.py: an observation is [outcome, open]: "ok" or what the            *)
(* orchestrator records in place of a report - "denied" without a proof of  *)
(* authorization, "timeout" -, and the ports open among those probed.       *)

RiskyPorts == {21, 23, 3389, 5900, 6379, 9200, 27017, 1433, 3306, 5432}

PortSeverity(p) ==
  IF p \in {3389, 5900, 6379, 9200, 27017} THEN "high"
  ELSE IF p \in {21, 23, 3306, 5432, 1433} THEN "medium" ELSE "low"

Bug_OneFindingForAllPorts(o) ==
  LET risky == o.open \cap RiskyPorts
  IN  IF o.outcome # "ok" THEN NoReportFor(o.outcome)
      ELSE ReportOf(IF risky # {} THEN "C" ELSE IF o.open # {} THEN "B" ELSE "A",
                    IF risky # {} THEN {Id("ports.risky", "any")} ELSE {}, {})

PortsResult(o) ==
  LET risky == o.open \cap RiskyPorts
  IN  IF o.outcome # "ok" THEN NoReportFor(o.outcome)
      ELSE ReportOf(IF \E p \in risky : PortSeverity(p) = "critical" THEN "F"
                    ELSE IF risky # {} THEN "C" ELSE IF o.open # {} THEN "B" ELSE "A",
                    {[kind |-> "ports.risky", name |-> p] : p \in risky}, {})

\* The severity each analyzer gives a finding.
SeverityOf(id) ==
  CASE id.kind = "tls" -> TlsSeverity[id.name]
    [] id.kind = "dns.absent" -> DnsSeverity[id.name]
    [] id.kind = "headers.missing" -> HeaderSeverity(id.name)
    [] id.kind = "headers.leak" -> "low"
    [] id.kind = "ports.risky" -> PortSeverity(id.name)
=============================================================================
