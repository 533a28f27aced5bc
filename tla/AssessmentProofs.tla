--------------------------- MODULE AssessmentProofs ---------------------------
(***************************************************************************)
(* The verdict on a host of any posture: certificates of any age, any      *)
(* protocols, headers, ports and records.                                  *)
(*                                                                         *)
(* What carries the proofs is that every rule, whatever it is written to   *)
(* look at - a grade, a list in the metadata, a finding -, fires exactly   *)
(* when certain findings are in the report (RulesReadFindings).  The diff  *)
(* of two scans and the SARIF export are both made of the findings, so     *)
(* neither misses a rule.                                                  *)
(***************************************************************************)
EXTENDS Assessment, FiniteSetTheorems, TLAPS

PortOutcomes == {"ok", "denied", "timeout"}

\* The results and the verdict are those of the posture, whose records are the
\* looked up ones; and no record is found but those that are ever published.
AInv ==
  /\ results = ResultsOf(tls, dns, headers, ports)
  /\ verdict = Assess(results)
  /\ tls.days \in Int
  /\ tls = [reachable |-> tls.reachable, protocol |-> tls.protocol,
            certificate |-> tls.certificate, days |-> tls.days, lapses |-> tls.lapses]
  /\ DOMAIN dns = RecordTypes \cup {"DNSKEY"}
  /\ \A r \in DOMAIN dns : dns[r] = "some" => r \in Lookups
  /\ headers = [answered |-> headers.answered, present |-> headers.present]
  /\ ports = [outcome |-> ports.outcome, open |-> ports.open]
  /\ ports.outcome \in PortOutcomes

\* The findings the i-th rule rests on, each with its analyzer.
Grounds ==
  [r \in Rules |->
     CASE r = "TLS-001" -> {<<"tls", Id("tls", "expired")>>, <<"tls", Id("tls", "expiring_soon")>>}
       [] r = "TLS-002" -> {<<"tls", Id("tls", "expiring_soon")>>}
       [] r = "HEADERS-001" -> {<<"headers", Id("headers.missing", "Strict-Transport-Security")>>}
       [] r = "HEADERS-002" -> {<<"headers", Id("headers.missing", "Content-Security-Policy")>>}
       [] r = "HEADERS-003" -> {<<"headers", Id("headers.missing", "X-Frame-Options")>>}
       [] r = "DNS-001" -> {<<"dns_recon", Id("dns.absent", "dnssec")>>}
       [] r = "DNS-002" -> {<<"dns_recon", Id("dns.absent", "caa")>>}]

FindingsOf(found) == Store!FindingsIn(ReportWith(found))

-----------------------------------------------------------------------------
(* The invariant                                                           *)

LEMMA InvariantBegins == Init => AInv
<1> SUFFICES ASSUME Init
             PROVE  AInv
  OBVIOUS
<1>1. tls.days \in Int
  <2>1. \E d \in Days : \A e \in Days : e <= d
    BY AssessmentAssumption
  <2>2. tls.days \in Days
    BY <2>1 DEF Init
  <2> QED
    BY <2>2, AssessmentAssumption
<1>2. \A r \in DOMAIN dns : dns[r] = "some" => r \in Lookups
  BY DEF Init, Published
<1> QED
  BY <1>1, <1>2 DEF Init, AInv, Published, PortOutcomes

LEMMA InvariantKept == AInv /\ [Next]_vars => AInv'
<1> SUFFICES ASSUME AInv, [Next]_vars
             PROVE  AInv'
  OBVIOUS
<1>1. CASE UNCHANGED vars
  BY <1>1 DEF vars, AInv
<1>2. CASE Next
  <2>1. results' = ResultsOf(tls', dns', headers', ports') /\ verdict' = Assess(results')
    BY <1>2 DEF Next, Rescan
  <2>2. /\ tls'.days \in Int
        /\ tls' = [reachable |-> tls'.reachable, protocol |-> tls'.protocol,
                   certificate |-> tls'.certificate, days |-> tls'.days,
                   lapses |-> tls'.lapses]
    <3>1. CASE tls' = tls
      BY <3>1 DEF AInv
    <3>2. CASE TlsChanges
      BY <3>2, AssessmentAssumption DEF TlsChanges, AInv
    <3> QED
      BY <1>2, <3>1, <3>2 DEF Next, DnsChanges, HeadersChange, PortsChange
  <2>3. /\ DOMAIN dns' = RecordTypes \cup {"DNSKEY"}
        /\ \A r \in DOMAIN dns' : dns'[r] = "some" => r \in Lookups
    <3>1. CASE dns' = dns
      BY <3>1 DEF AInv
    <3>2. CASE DnsChanges
      BY <3>2 DEF DnsChanges, AInv, Published
    <3> QED
      BY <1>2, <3>1, <3>2 DEF Next, TlsChanges, HeadersChange, PortsChange
  <2>4. headers' = [answered |-> headers'.answered, present |-> headers'.present]
    BY <1>2 DEF Next, TlsChanges, DnsChanges, HeadersChange, PortsChange, AInv
  <2>5. /\ ports' = [outcome |-> ports'.outcome, open |-> ports'.open]
        /\ ports'.outcome \in PortOutcomes
    <3>1. CASE ports' = ports
      BY <3>1 DEF AInv
    <3>2. CASE PortsChange
      <4>1. CASE \E open \in SUBSET Ports : ports' = [outcome |-> "ok", open |-> open]
        BY <4>1 DEF PortOutcomes
      <4>2. CASE \E e \in PortFailures : ports' = [outcome |-> e, open |-> {}]
        BY <4>2, AssessmentAssumption DEF PortOutcomes
      <4> QED
        BY <3>2, <4>1, <4>2 DEF PortsChange
    <3> QED
      BY <1>2, <3>1, <3>2 DEF Next, TlsChanges, DnsChanges, HeadersChange
  <2> QED
    BY <2>1, <2>2, <2>3, <2>4, <2>5 DEF AInv
<1> QED
  BY <1>1, <1>2

LEMMA PostureInvariant == Spec => []AInv
  BY InvariantBegins, InvariantKept, PTL DEF Spec

-----------------------------------------------------------------------------
(* What the analyzers report                                               *)

\* The four results, each that of its analyzer.
LEMMA FourResults ==
  ASSUME NEW t, NEW d, NEW h, NEW p
  PROVE  /\ DOMAIN ResultsOf(t, d, h, p) = {"tls", "dns_recon", "headers", "ports"}
         /\ ResultsOf(t, d, h, p)["tls"] = TlsResult(t)
         /\ ResultsOf(t, d, h, p)["dns_recon"] = DnsResult(d)
         /\ ResultsOf(t, d, h, p)["headers"] = HeadersResult(h)
         /\ ResultsOf(t, d, h, p)["ports"] = PortsResult(p)
  BY DEF ResultsOf

LEMMA TlsReport ==
  ASSUME NEW t, t.days \in Int
  PROVE  \/ ~(Handshakes(t) /\ t.certificate) /\ \E k \in {"network", "analyzer"} : TlsResult(t) = NoReportFor(k)
         \/ /\ Handshakes(t) /\ t.certificate
            /\ \/ t.days < 0 /\ TlsResult(t) = ReportOf("F", {Id("tls", "expired")}, {})
               \/ t.days \in 0..6 /\ TlsResult(t) = ReportOf("F", {Id("tls", "expiring_soon")}, {})
               \/ t.days \in 7..29 /\ TlsResult(t) = ReportOf("B", {Id("tls", "expiring_warning")}, {})
               \/ t.days > 29 /\ TlsResult(t) = ReportOf("A", {}, {})
<1>1. CASE ~Handshakes(t)
  BY <1>1 DEF TlsResult
<1>2. CASE Handshakes(t) /\ ~t.certificate
  BY <1>2 DEF TlsResult
<1>3. CASE Handshakes(t) /\ t.certificate
  <2> DEFINE kinds == TlsFindings(t)
             severities == {TlsSeverity[k] : k \in kinds}
             ids == {Id("tls", k) : k \in kinds}
  <2>1. TlsResult(t) = ReportOf(Ladder(severities, "F", "C"), ids, {})
    BY <1>3 DEF TlsResult
  <2>2. t.protocol \notin WeakProtocols
    BY <1>3 DEF Handshakes
  <2>3. CASE t.days < 0
    <3>1. kinds = {"expired"}
      BY <2>2, <2>3 DEF TlsFindings
    <3>2. severities = {"critical"} /\ ids = {Id("tls", "expired")}
      BY <3>1 DEF TlsSeverity
    <3> QED
      BY <1>3, <2>1, <2>3, <3>2 DEF Ladder
  <2>4. CASE t.days \in 0..6
    <3>1. kinds = {"expiring_soon"}
      BY <2>2, <2>4 DEF TlsFindings, ExpiryCriticalDays
    <3>2. severities = {"critical"} /\ ids = {Id("tls", "expiring_soon")}
      BY <3>1 DEF TlsSeverity
    <3> QED
      BY <1>3, <2>1, <2>4, <3>2 DEF Ladder
  <2>5. CASE t.days \in 7..29
    <3>1. kinds = {"expiring_warning"}
      BY <2>2, <2>5 DEF TlsFindings, ExpiryCriticalDays, ExpiryWarningDays
    <3>2. severities = {"medium"} /\ ids = {Id("tls", "expiring_warning")}
      BY <3>1 DEF TlsSeverity
    <3> QED
      BY <1>3, <2>1, <2>5, <3>2 DEF Ladder
  <2>6. CASE t.days > 29
    <3>1. kinds = {}
      BY <2>2, <2>6 DEF TlsFindings, ExpiryCriticalDays, ExpiryWarningDays
    <3>2. severities = {} /\ ids = {}
      BY <3>1
    <3> QED
      BY <1>3, <2>1, <2>6, <3>2 DEF Ladder
  <2>7. t.days < 0 \/ t.days \in 0..6 \/ t.days \in 7..29 \/ t.days > 29
    OBVIOUS
  <2> QED
    BY <2>3, <2>4, <2>5, <2>6, <2>7
<1> QED
  BY <1>1, <1>2, <1>3

LEMMA DnsReport ==
  ASSUME NEW d
  PROVE  \/ DnsResult(d) = NoReportFor("timeout")
         \/ \E grade \in {"A", "B", "C", "F"} :
              DnsResult(d) = ReportOf(grade, {Id("dns.absent", k) : k \in DnsFindings(d)}, {})
  BY DEF DnsResult, Ladder

LEMMA HeadersReport ==
  ASSUME NEW h
  PROVE  \/ ~h.answered /\ HeadersResult(h) = NoReportFor("network")
         \/ /\ h.answered
            /\ \E grade \in {"A", "B", "C", "D"} :
                 HeadersResult(h) =
                   ReportOf(grade,
                            {Id("headers.missing", n) : n \in SecurityHeaders \ h.present}
                              \cup {Id("headers.leak", n) : n \in LeakyHeaders \cap h.present},
                            SecurityHeaders \ h.present)
  BY DEF HeadersResult, HeadersGrade

LEMMA PortsReport ==
  ASSUME NEW p
  PROVE  \/ p.outcome # "ok" /\ PortsResult(p) = NoReportFor(p.outcome)
         \/ /\ p.outcome = "ok"
            /\ \E grade \in {"A", "B", "C", "F"} :
                 PortsResult(p) =
                   ReportOf(grade,
                            {[kind |-> "ports.risky", name |-> q] : q \in p.open \cap RiskyPorts},
                            {})
  BY DEF PortsResult

\* Which findings a report is made of, analyzer by analyzer.
LEMMA FindingsByAnalyzer ==
  ASSUME NEW t, NEW d, NEW h, NEW p,
         NEW a \in {"tls", "dns_recon", "headers", "ports"}, NEW id
  PROVE  <<a, id>> \in FindingsOf(ResultsOf(t, d, h, p))
           <=> ResultsOf(t, d, h, p)[a].reported /\ id \in ResultsOf(t, d, h, p)[a].findings
<1> DEFINE found == ResultsOf(t, d, h, p)
<1>1. DOMAIN found = {"tls", "dns_recon", "headers", "ports"}
  BY FourResults
<1> HIDE DEF found
<1>2. FindingsOf(found) = UNION { {<<b, f>> : f \in found[b].findings} :
                                  b \in {c \in DOMAIN found : found[c].reported} }
  BY DEF FindingsOf, Store!FindingsIn, ReportWith
<1> QED
  BY <1>1, <1>2 DEF found

LEMMA IdsDiffer ==
  ASSUME NEW k, NEW n, NEW l, NEW m
  PROVE  Id(k, n) = Id(l, m) <=> k = l /\ n = m
  BY DEF Id

\* A result counts for the rules when there is a report.
LEMMA ReportedIs ==
  ASSUME NEW t, t.days \in Int, NEW d, NEW h, NEW p, p.outcome \in PortOutcomes,
         NEW a \in {"tls", "dns_recon", "headers", "ports"}
  PROVE  LET found == ResultsOf(t, d, h, p)
         IN  /\ Reported(found, a) <=> found[a].reported
             /\ found[a].status \in {"ok", "denied", "network", "analyzer", "timeout"}
             /\ found[a].reported <=> found[a].status = "ok"
             /\ found[a].reported \in BOOLEAN
             /\ found[a].grade \in (IF found[a].status = "ok" THEN {"A", "B", "C", "D", "F"}
                                    ELSE {"N/A"})
<1> DEFINE found == ResultsOf(t, d, h, p)
           Known(r) == \/ \E kind \in {"denied", "network", "analyzer", "timeout"} : r = NoReportFor(kind)
                       \/ \E grade \in {"A", "B", "C", "D", "F"} : \E findings, missing :
                            r = ReportOf(grade, findings, missing)
<1>1. Known(TlsResult(t))
  BY TlsReport
<1>2. Known(DnsResult(d))
  BY DnsReport
<1>3. Known(HeadersResult(h))
  BY HeadersReport
<1>4. Known(PortsResult(p))
  BY PortsReport DEF PortOutcomes
<1>5. Known(found[a]) /\ a \in DOMAIN found
  <2> HIDE DEF Known
  <2> QED
    BY <1>1, <1>2, <1>3, <1>4, FourResults
<1>6. /\ found[a].status \in {"ok", "denied", "network", "analyzer", "timeout"}
      /\ found[a].reported <=> found[a].status = "ok"
      /\ found[a].reported \in BOOLEAN
      /\ found[a].grade \in (IF found[a].status = "ok" THEN {"A", "B", "C", "D", "F"}
                             ELSE {"N/A"})
  <2> HIDE DEF found
  <2>1. CASE \E kind \in {"denied", "network", "analyzer", "timeout"} : found[a] = NoReportFor(kind)
    BY <2>1 DEF NoReportFor
  <2>2. CASE \E grade \in {"A", "B", "C", "D", "F"} : \E findings, missing :
               found[a] = ReportOf(grade, findings, missing)
    BY <2>2 DEF ReportOf
  <2> QED
    BY <1>5, <2>1, <2>2
<1> HIDE DEF found
<1>7. Reported(found, a) <=> found[a].reported
  BY <1>5, <1>6 DEF Reported
<1> QED
  BY <1>6, <1>7 DEF found

\* Every rule, whatever it looks at, fires exactly on findings of its analyzer.
LEMMA RulesReadFindings ==
  ASSUME NEW t, t.days \in Int, NEW d, NEW h, NEW p, p.outcome \in PortOutcomes,
         NEW rule \in Rules
  PROVE  Fires(rule, ResultsOf(t, d, h, p))
           <=> \E g \in Grounds[rule] : g \in FindingsOf(ResultsOf(t, d, h, p))
<1> DEFINE found == ResultsOf(t, d, h, p)
<1> SUFFICES Fires(rule, found) <=> \E g \in Grounds[rule] : g \in FindingsOf(found)
  OBVIOUS
<1>1. /\ found["tls"] = TlsResult(t) /\ found["dns_recon"] = DnsResult(d)
      /\ found["headers"] = HeadersResult(h)
  BY FourResults
<1>2. \A a \in {"tls", "dns_recon", "headers", "ports"} :
        /\ Reported(found, a) <=> found[a].reported
        /\ \A id : <<a, id>> \in FindingsOf(found)
                     <=> found[a].reported /\ id \in found[a].findings
  BY ReportedIs, FindingsByAnalyzer
<1> HIDE DEF found
<1>3. \A id : HasFinding(found, "tls", id) <=> <<"tls", id>> \in FindingsOf(found)
  BY <1>2 DEF HasFinding
<1>4. \A id : HasFinding(found, "dns_recon", id) <=> <<"dns_recon", id>> \in FindingsOf(found)
  BY <1>2 DEF HasFinding
<1>5. ASSUME NEW n \in SecurityHeaders
      PROVE  MissingSecurityHeader(found, n)
               <=> <<"headers", Id("headers.missing", n)>> \in FindingsOf(found)
  <2>1. CASE ~h.answered
    <3>1. HeadersResult(h) = NoReportFor("network")
      BY <2>1, HeadersReport
    <3> QED
      BY <1>1, <1>2, <3>1 DEF NoReportFor, MissingSecurityHeader
  <2>2. CASE h.answered
    <3> DEFINE ids == {Id("headers.missing", m) : m \in SecurityHeaders \ h.present}
                        \cup {Id("headers.leak", m) : m \in LeakyHeaders \cap h.present}
    <3>1. /\ found["headers"].reported = TRUE /\ found["headers"].findings = ids
          /\ found["headers"].missing = SecurityHeaders \ h.present
      <4>1. PICK grade : HeadersResult(h) = ReportOf(grade, ids, SecurityHeaders \ h.present)
        BY <2>2, HeadersReport
      <4> HIDE DEF ids
      <4> QED
        BY <1>1, <4>1 DEF ReportOf
    <3>2. Id("headers.missing", n) \in ids <=> n \in SecurityHeaders \ h.present
      BY IdsDiffer
    <3> HIDE DEF ids
    <3> QED
      BY <1>2, <3>1, <3>2 DEF MissingSecurityHeader
  <2> QED
    BY <2>1, <2>2
<1>6. TlsGradeBelow(found, "B")
        <=> \/ <<"tls", Id("tls", "expired")>> \in FindingsOf(found)
            \/ <<"tls", Id("tls", "expiring_soon")>> \in FindingsOf(found)
  <2>1. OrderOf["F"] = 1 /\ OrderOf["B"] = 4 /\ OrderOf["A"] = 5
    BY DEF OrderOf
  <2>2. TlsGradeBelow(found, "B")
          <=> found["tls"].reported /\ OrderOf[found["tls"].grade] < 4
              /\ found["tls"].grade # "N/A"
    BY <1>2, <2>1 DEF TlsGradeBelow
  <2>3. \A k : /\ Id("tls", "expired") \in {Id("tls", k)} <=> k = "expired"
               /\ Id("tls", "expiring_soon") \in {Id("tls", k)} <=> k = "expiring_soon"
    BY IdsDiffer
  <2>4. CASE \E k \in {"network", "analyzer"} : TlsResult(t) = NoReportFor(k)
    <3>1. found["tls"].reported = FALSE
      BY <1>1, <2>4 DEF NoReportFor
    <3> QED
      BY <1>2, <2>2, <3>1
  <2>5. CASE \E k \in {"expired", "expiring_soon"} : TlsResult(t) = ReportOf("F", {Id("tls", k)}, {})
    <3>1. PICK k \in {"expired", "expiring_soon"} :
            TlsResult(t) = ReportOf("F", {Id("tls", k)}, {})
      BY <2>5
    <3>2. /\ found["tls"].reported = TRUE /\ found["tls"].grade = "F"
          /\ found["tls"].findings = {Id("tls", k)}
      BY <1>1, <3>1 DEF ReportOf
    <3>3. TlsGradeBelow(found, "B")
      BY <2>1, <2>2, <3>2
    <3> QED
      BY <1>2, <3>1, <3>2, <3>3
  <2>6. CASE TlsResult(t) = ReportOf("B", {Id("tls", "expiring_warning")}, {})
    <3>1. /\ found["tls"].grade = "B"
          /\ found["tls"].findings = {Id("tls", "expiring_warning")}
      BY <1>1, <2>6 DEF ReportOf
    <3>2. ~TlsGradeBelow(found, "B")
      BY <2>1, <2>2, <3>1
    <3> QED
      BY <1>2, <2>3, <3>1, <3>2
  <2>7. CASE TlsResult(t) = ReportOf("A", {}, {})
    <3>1. found["tls"].grade = "A" /\ found["tls"].findings = {}
      BY <1>1, <2>7 DEF ReportOf
    <3>2. ~TlsGradeBelow(found, "B")
      BY <2>1, <2>2, <3>1
    <3> QED
      BY <1>2, <3>1, <3>2
  <2> QED
    BY <2>4, <2>5, <2>6, <2>7, TlsReport
<1>7. {"Strict-Transport-Security", "Content-Security-Policy", "X-Frame-Options"}
        \subseteq SecurityHeaders
  BY DEF SecurityHeaders
<1>8. CASE rule = "TLS-001"
  <2>1. Fires(rule, found) <=> TlsGradeBelow(found, "B")
    BY <1>8 DEF Fires
  <2>2. Grounds[rule] = {<<"tls", Id("tls", "expired")>>, <<"tls", Id("tls", "expiring_soon")>>}
    BY <1>8 DEF Grounds
  <2> QED
    BY <1>6, <2>1, <2>2
<1>9. CASE rule = "TLS-002"
  <2>1. Fires(rule, found) <=> HasFinding(found, "tls", Id("tls", "expiring_soon"))
    BY <1>9 DEF Fires
  <2>2. Grounds[rule] = {<<"tls", Id("tls", "expiring_soon")>>}
    BY <1>9 DEF Grounds
  <2> QED
    BY <1>3, <2>1, <2>2
<1>10. CASE rule = "HEADERS-001"
  <2>1. Fires(rule, found) <=> MissingSecurityHeader(found, "Strict-Transport-Security")
    BY <1>10 DEF Fires
  <2>2. Grounds[rule] = {<<"headers", Id("headers.missing", "Strict-Transport-Security")>>}
    BY <1>10 DEF Grounds
  <2> QED
    BY <1>5, <1>7, <2>1, <2>2
<1>11. CASE rule = "HEADERS-002"
  <2>1. Fires(rule, found) <=> MissingSecurityHeader(found, "Content-Security-Policy")
    BY <1>11 DEF Fires
  <2>2. Grounds[rule] = {<<"headers", Id("headers.missing", "Content-Security-Policy")>>}
    BY <1>11 DEF Grounds
  <2> QED
    BY <1>5, <1>7, <2>1, <2>2
<1>12. CASE rule = "HEADERS-003"
  <2>1. Fires(rule, found) <=> MissingSecurityHeader(found, "X-Frame-Options")
    BY <1>12 DEF Fires
  <2>2. Grounds[rule] = {<<"headers", Id("headers.missing", "X-Frame-Options")>>}
    BY <1>12 DEF Grounds
  <2> QED
    BY <1>5, <1>7, <2>1, <2>2
<1>13. CASE rule = "DNS-001"
  <2>1. Fires(rule, found) <=> HasFinding(found, "dns_recon", Id("dns.absent", "dnssec"))
    BY <1>13 DEF Fires
  <2>2. Grounds[rule] = {<<"dns_recon", Id("dns.absent", "dnssec")>>}
    BY <1>13 DEF Grounds
  <2> QED
    BY <1>4, <2>1, <2>2
<1>14. CASE rule = "DNS-002"
  <2>1. Fires(rule, found) <=> HasFinding(found, "dns_recon", Id("dns.absent", "caa"))
    BY <1>14 DEF Fires
  <2>2. Grounds[rule] = {<<"dns_recon", Id("dns.absent", "caa")>>}
    BY <1>14 DEF Grounds
  <2> QED
    BY <1>4, <2>1, <2>2
<1> QED
  BY <1>8, <1>9, <1>10, <1>11, <1>12, <1>13, <1>14 DEF Rules

-----------------------------------------------------------------------------
(* The score and the grade                                                 *)

\* More rules, no fewer points; and 100 at most.
LEMMA ScoreGrows ==
  ASSUME NEW fired, NEW more, fired \subseteq more
  PROVE  Score(fired) \in 0..100 /\ Score(more) \in 0..100 /\ Score(fired) <= Score(more)
<1>1. \A rule \in Rules : /\ PointsOf(rule, fired) \in 0..25 /\ PointsOf(rule, more) \in 0..25
                          /\ PointsOf(rule, fired) <= PointsOf(rule, more)
  BY DEF PointsOf, RulePoints, Rules
<1>2. /\ "TLS-001" \in Rules /\ "TLS-002" \in Rules /\ "HEADERS-001" \in Rules
      /\ "HEADERS-002" \in Rules /\ "HEADERS-003" \in Rules
      /\ "DNS-001" \in Rules /\ "DNS-002" \in Rules
  BY DEF Rules
<1> DEFINE a(rules) == PointsOf("TLS-001", rules)
           b(rules) == PointsOf("TLS-002", rules)
           c(rules) == PointsOf("HEADERS-001", rules)
           d(rules) == PointsOf("HEADERS-002", rules)
           e(rules) == PointsOf("HEADERS-003", rules)
           f(rules) == PointsOf("DNS-001", rules)
           g(rules) == PointsOf("DNS-002", rules)
           Sum(rules) == a(rules) + b(rules) + c(rules) + d(rules) + e(rules) + f(rules) + g(rules)
<1>3. \A rules : Score(rules) = IF Sum(rules) < 100 THEN Sum(rules) ELSE 100
  BY DEF Score
<1>4. a(fired) \in 0..25 /\ a(more) \in 0..25 /\ a(fired) <= a(more)
  BY <1>1, <1>2
<1>5. b(fired) \in 0..25 /\ b(more) \in 0..25 /\ b(fired) <= b(more)
  BY <1>1, <1>2
<1>6. c(fired) \in 0..25 /\ c(more) \in 0..25 /\ c(fired) <= c(more)
  BY <1>1, <1>2
<1>7. d(fired) \in 0..25 /\ d(more) \in 0..25 /\ d(fired) <= d(more)
  BY <1>1, <1>2
<1>8. e(fired) \in 0..25 /\ e(more) \in 0..25 /\ e(fired) <= e(more)
  BY <1>1, <1>2
<1>9. f(fired) \in 0..25 /\ f(more) \in 0..25 /\ f(fired) <= f(more)
  BY <1>1, <1>2
<1>10. g(fired) \in 0..25 /\ g(more) \in 0..25 /\ g(fired) <= g(more)
  BY <1>1, <1>2
<1> HIDE DEF a, b, c, d, e, f, g
<1> DEFINE to_b(rules) == a(rules) + b(rules)
           to_c(rules) == to_b(rules) + c(rules)
           to_d(rules) == to_c(rules) + d(rules)
           to_e(rules) == to_d(rules) + e(rules)
           to_f(rules) == to_e(rules) + f(rules)
           to_g(rules) == to_f(rules) + g(rules)
<1>11. to_b(fired) \in Nat /\ to_b(more) \in Nat /\ to_b(fired) <= to_b(more)
  BY <1>4, <1>5
<1> HIDE DEF to_b
<1>12. to_c(fired) \in Nat /\ to_c(more) \in Nat /\ to_c(fired) <= to_c(more)
  BY <1>11, <1>6
<1> HIDE DEF to_c
<1>13. to_d(fired) \in Nat /\ to_d(more) \in Nat /\ to_d(fired) <= to_d(more)
  BY <1>12, <1>7
<1> HIDE DEF to_d
<1>14. to_e(fired) \in Nat /\ to_e(more) \in Nat /\ to_e(fired) <= to_e(more)
  BY <1>13, <1>8
<1> HIDE DEF to_e
<1>15. to_f(fired) \in Nat /\ to_f(more) \in Nat /\ to_f(fired) <= to_f(more)
  BY <1>14, <1>9
<1> HIDE DEF to_f
<1>16. to_g(fired) \in Nat /\ to_g(more) \in Nat /\ to_g(fired) <= to_g(more)
  BY <1>15, <1>10
<1> HIDE DEF to_g
<1>17. \A rules : Sum(rules) = to_g(rules)
  BY DEF to_b, to_c, to_d, to_e, to_f, to_g
<1> HIDE DEF Sum
<1> QED
  BY <1>3, <1>16, <1>17

\* More rules, no better a grade.
LEMMA GradeFalls ==
  ASSUME NEW fired, NEW more, fired \subseteq more
  PROVE  OrderOf[RiskGrade(more)] <= OrderOf[RiskGrade(fired)]
<1> DEFINE Critical(rules) == \E r \in rules : RuleSeverity[r] = "critical"
<1>1. Score(fired) \in 0..100 /\ Score(more) \in 0..100 /\ Score(fired) <= Score(more)
  BY ScoreGrows
<1>2. Critical(fired) => Critical(more)
  OBVIOUS
<1>3. \A s, z \in 0..100 : s <= z => OrderOf[BandOf(z)] <= OrderOf[BandOf(s)]
  BY DEF BandOf, OrderOf
<1>4. OrderOf[BandOf(Score(more))] <= OrderOf[BandOf(Score(fired))]
  BY <1>1, <1>3
<1>5. \A s : BandOf(s) \in {"A", "B", "C", "D", "F"}
  BY DEF BandOf
<1>6. \A rules : RiskGrade(rules) =
        IF Critical(rules) /\ BandOf(Score(rules)) \in {"A", "B", "C"} THEN "D"
        ELSE BandOf(Score(rules))
  BY DEF RiskGrade
<1> HIDE DEF Critical
<1>7. /\ OrderOf["A"] = 5 /\ OrderOf["B"] = 4 /\ OrderOf["C"] = 3 /\ OrderOf["D"] = 2
      /\ OrderOf["F"] = 1
  BY DEF OrderOf
<1> QED
  BY <1>2, <1>4, <1>5, <1>6, <1>7

-----------------------------------------------------------------------------
(* What the grounds of the rules say of the posture                        *)

LEMMA TlsGrounds ==
  ASSUME NEW t, t.days \in Int, NEW d, NEW h, NEW p
  PROVE  LET found == ResultsOf(t, d, h, p)
         IN  /\ found["tls"].reported <=> Handshakes(t) /\ t.certificate
             /\ <<"tls", Id("tls", "expired")>> \in FindingsOf(found)
                  <=> Handshakes(t) /\ t.certificate /\ t.days < 0
             /\ <<"tls", Id("tls", "expiring_soon")>> \in FindingsOf(found)
                  <=> Handshakes(t) /\ t.certificate /\ t.days \in 0..6
<1> DEFINE found == ResultsOf(t, d, h, p)
<1> SUFFICES /\ found["tls"].reported <=> Handshakes(t) /\ t.certificate
             /\ <<"tls", Id("tls", "expired")>> \in FindingsOf(found)
                  <=> Handshakes(t) /\ t.certificate /\ t.days < 0
             /\ <<"tls", Id("tls", "expiring_soon")>> \in FindingsOf(found)
                  <=> Handshakes(t) /\ t.certificate /\ t.days \in 0..6
  OBVIOUS
<1>1. found["tls"] = TlsResult(t)
  BY FourResults
<1>2. \A id : <<"tls", id>> \in FindingsOf(found)
                <=> found["tls"].reported /\ id \in found["tls"].findings
  BY FindingsByAnalyzer
<1> HIDE DEF found
<1>3. \A k : /\ Id("tls", "expired") \in {Id("tls", k)} <=> k = "expired"
             /\ Id("tls", "expiring_soon") \in {Id("tls", k)} <=> k = "expiring_soon"
  BY IdsDiffer
<1>4. CASE ~(Handshakes(t) /\ t.certificate)
  <2>1. \E k \in {"network", "analyzer"} : TlsResult(t) = NoReportFor(k)
    BY <1>4, TlsReport
  <2>2. found["tls"].reported = FALSE
    BY <1>1, <2>1 DEF NoReportFor
  <2> QED
    BY <1>2, <1>4, <2>2
<1>5. CASE Handshakes(t) /\ t.certificate /\ t.days < 0
  <2>1. found["tls"].reported = TRUE /\ found["tls"].findings = {Id("tls", "expired")}
    <3>1. TlsResult(t) = ReportOf("F", {Id("tls", "expired")}, {})
      BY <1>5, TlsReport
    <3> QED
      BY <1>1, <3>1 DEF ReportOf
  <2> QED
    BY <1>2, <1>3, <1>5, <2>1
<1>6. CASE Handshakes(t) /\ t.certificate /\ t.days \in 0..6
  <2>1. found["tls"].reported = TRUE /\ found["tls"].findings = {Id("tls", "expiring_soon")}
    <3>1. TlsResult(t) = ReportOf("F", {Id("tls", "expiring_soon")}, {})
      BY <1>6, TlsReport
    <3> QED
      BY <1>1, <3>1 DEF ReportOf
  <2> QED
    BY <1>2, <1>3, <1>6, <2>1
<1>7. CASE Handshakes(t) /\ t.certificate /\ t.days > 6
  <2>1. /\ found["tls"].reported = TRUE
        /\ found["tls"].findings \in {{}, {Id("tls", "expiring_warning")}}
    <3>1. \/ TlsResult(t) = ReportOf("B", {Id("tls", "expiring_warning")}, {})
          \/ TlsResult(t) = ReportOf("A", {}, {})
      BY <1>7, TlsReport
    <3> QED
      BY <1>1, <3>1 DEF ReportOf
  <2> QED
    BY <1>2, <1>3, <1>7, <2>1
<1> QED
  BY <1>4, <1>5, <1>6, <1>7

LEMMA HeadersGrounds ==
  ASSUME NEW t, NEW d, NEW h, NEW p, NEW n \in SecurityHeaders
  PROVE  LET found == ResultsOf(t, d, h, p)
         IN  /\ found["headers"].reported <=> h.answered
             /\ <<"headers", Id("headers.missing", n)>> \in FindingsOf(found)
                  <=> h.answered /\ n \notin h.present
<1> DEFINE found == ResultsOf(t, d, h, p)
           ids == {Id("headers.missing", m) : m \in SecurityHeaders \ h.present}
                    \cup {Id("headers.leak", m) : m \in LeakyHeaders \cap h.present}
<1> SUFFICES /\ found["headers"].reported <=> h.answered
             /\ <<"headers", Id("headers.missing", n)>> \in FindingsOf(found)
                  <=> h.answered /\ n \notin h.present
  OBVIOUS
<1>1. found["headers"] = HeadersResult(h)
  BY FourResults
<1>2. \A id : <<"headers", id>> \in FindingsOf(found)
                <=> found["headers"].reported /\ id \in found["headers"].findings
  BY FindingsByAnalyzer
<1>3. Id("headers.missing", n) \in ids <=> n \notin h.present
  BY IdsDiffer
<1>4. \/ ~h.answered /\ HeadersResult(h) = NoReportFor("network")
      \/ h.answered /\ \E grade, missing : HeadersResult(h) = ReportOf(grade, ids, missing)
  BY HeadersReport
<1> HIDE DEF found, ids
<1>5. \/ ~h.answered /\ found["headers"].reported = FALSE
      \/ h.answered /\ found["headers"].reported = TRUE /\ found["headers"].findings = ids
  BY <1>1, <1>4 DEF ReportOf, NoReportFor
<1> QED
  BY <1>2, <1>3, <1>5

LEMMA DnsGrounds ==
  ASSUME NEW t, NEW d, NEW h, NEW p
  PROVE  LET found == ResultsOf(t, d, h, p)
         IN  /\ TimeWaiting(d) >= PerAnalyzerTimeout => ~found["dns_recon"].reported
             /\ <<"dns_recon", Id("dns.absent", "dnssec")>> \in FindingsOf(found)
                  <=> found["dns_recon"].reported /\ d["DNSKEY"] # "some"
             /\ <<"dns_recon", Id("dns.absent", "caa")>> \in FindingsOf(found)
                  <=> found["dns_recon"].reported /\ d["CAA"] # "some"
<1> DEFINE found == ResultsOf(t, d, h, p)
           ids == {Id("dns.absent", k) : k \in DnsFindings(d)}
<1> SUFFICES /\ TimeWaiting(d) >= PerAnalyzerTimeout => ~found["dns_recon"].reported
             /\ <<"dns_recon", Id("dns.absent", "dnssec")>> \in FindingsOf(found)
                  <=> found["dns_recon"].reported /\ d["DNSKEY"] # "some"
             /\ <<"dns_recon", Id("dns.absent", "caa")>> \in FindingsOf(found)
                  <=> found["dns_recon"].reported /\ d["CAA"] # "some"
  OBVIOUS
<1>1. found["dns_recon"] = DnsResult(d)
  BY FourResults
<1>2. \A id : <<"dns_recon", id>> \in FindingsOf(found)
                <=> found["dns_recon"].reported /\ id \in found["dns_recon"].findings
  BY FindingsByAnalyzer
<1>3. \A k : Id("dns.absent", k) \in ids <=> k \in DnsFindings(d)
  BY IdsDiffer
<1>4. /\ "dnssec" \in DnsFindings(d) <=> d["DNSKEY"] # "some"
      /\ "caa" \in DnsFindings(d) <=> d["CAA"] # "some"
  BY DEF DnsFindings, Found
<1>5. \/ DnsResult(d) = NoReportFor("timeout")
      \/ \E grade : DnsResult(d) = ReportOf(grade, ids, {})
  BY DnsReport
<1> HIDE DEF found, ids
<1>6. \/ found["dns_recon"].reported = FALSE
      \/ found["dns_recon"].reported = TRUE /\ found["dns_recon"].findings = ids
  BY <1>1, <1>5 DEF ReportOf, NoReportFor
<1>7. TimeWaiting(d) >= PerAnalyzerTimeout => found["dns_recon"].reported = FALSE
  BY <1>1 DEF DnsResult, NoReportFor
<1> QED
  BY <1>2, <1>3, <1>4, <1>6, <1>7

LEMMA PortsGrounds ==
  ASSUME NEW t, NEW d, NEW h, NEW p, NEW q \in RiskyPorts
  PROVE  <<"ports", [kind |-> "ports.risky", name |-> q]>> \in FindingsOf(ResultsOf(t, d, h, p))
           <=> p.outcome = "ok" /\ q \in p.open
<1> DEFINE found == ResultsOf(t, d, h, p)
           ids == {[kind |-> "ports.risky", name |-> r] : r \in p.open \cap RiskyPorts}
           id == [kind |-> "ports.risky", name |-> q]
<1> SUFFICES <<"ports", id>> \in FindingsOf(found)
                         <=> p.outcome = "ok" /\ q \in p.open
  OBVIOUS
<1>1. <<"ports", id>> \in FindingsOf(found)
        <=> found["ports"].reported /\ id \in found["ports"].findings
  BY FindingsByAnalyzer
<1>2. found["ports"] = PortsResult(p)
  BY FourResults
<1>3. \/ p.outcome # "ok" /\ PortsResult(p) = NoReportFor(p.outcome)
      \/ p.outcome = "ok" /\ \E grade : PortsResult(p) = ReportOf(grade, ids, {})
  BY PortsReport
<1>4. id \in ids <=> q \in p.open
  <2>1. \A r : id = [kind |-> "ports.risky", name |-> r] <=> r = q
    OBVIOUS
  <2> HIDE DEF id
  <2> QED
    BY <2>1
<1> HIDE DEF found, ids, id
<1>5. \/ p.outcome # "ok" /\ found["ports"].reported = FALSE
      \/ /\ p.outcome = "ok"
         /\ found["ports"].reported = TRUE /\ found["ports"].findings = ids
  BY <1>2, <1>3 DEF ReportOf, NoReportFor
<1> QED
  BY <1>1, <1>4, <1>5

-----------------------------------------------------------------------------
(* The theorems                                                            *)

\* The rules that fired, by the findings, and what the verdict makes of them.
LEMMA FiredBy ==
  ASSUME AInv
  PROVE  /\ \A rule \in Rules :
              rule \in verdict.rules_fired
                <=> \E g \in Grounds[rule] : g \in FindingsOf(results)
         /\ verdict.rules_fired = RulesFired(results) /\ verdict.rules_fired \subseteq Rules
         /\ verdict.overall_score = Score(verdict.rules_fired)
         /\ verdict.grade = RiskGrade(verdict.rules_fired)
<1>1. /\ verdict.rules_fired = RulesFired(results)
      /\ verdict.overall_score = Score(verdict.rules_fired)
      /\ verdict.grade = RiskGrade(verdict.rules_fired)
  BY DEF AInv, Assess
<1>2. \A rule \in Rules :
        Fires(rule, results) <=> \E g \in Grounds[rule] : g \in FindingsOf(results)
  BY RulesReadFindings DEF AInv
<1> QED
  BY <1>1, <1>2 DEF RulesFired

\* For a host of any posture: results are well-formed reports and errors, and the
\* score is one the grade table covers.
THEOREM TypeCorrect == Spec => []TypeOK
<1>1. ASSUME AInv
      PROVE  TypeOK
  <2>1. DOMAIN results = {"tls", "dns_recon", "headers", "ports"}
    BY <1>1, FourResults DEF AInv
  <2>2. ASSUME NEW a \in DOMAIN results
        PROVE  /\ results[a].status \in {"ok", "denied", "network", "analyzer", "timeout"}
               /\ results[a].reported <=> results[a].status = "ok"
               /\ results[a].grade \in (IF results[a].status = "ok"
                                        THEN {"A", "B", "C", "D", "F"} ELSE {"N/A"})
    BY <1>1, <2>1, ReportedIs DEF AInv
  <2>3. verdict.overall_score \in 0..100
    BY <1>1, FiredBy, ScoreGrows
  <2> QED
    BY <2>2, <2>3 DEF TypeOK
<1> QED
  BY <1>1, PostureInvariant, PTL

\* A critical rule alone makes the grade D or F, whatever else fired or did not: a
\* certificate with less than a week left is never graded better.
THEOREM ExpiringIsGradedDown == Spec => []ExpiringIsDOrWorse
<1>1. ASSUME AInv, Handshakes(tls), tls.certificate, tls.days \in 0..6
      PROVE  verdict.grade \in {"D", "F"}
  <2>1. <<"tls", Id("tls", "expiring_soon")>> \in FindingsOf(results)
    BY <1>1, TlsGrounds DEF AInv
  <2>2. "TLS-002" \in Rules /\ RuleSeverity["TLS-002"] = "critical"
    BY DEF Rules, RuleSeverity
  <2>3. Grounds["TLS-002"] = {<<"tls", Id("tls", "expiring_soon")>>}
    BY <2>2 DEF Grounds
  <2>4. "TLS-002" \in verdict.rules_fired
    BY <1>1, <2>1, <2>2, <2>3, FiredBy
  <2>5. BandOf(Score(verdict.rules_fired)) \in {"A", "B", "C", "D", "F"}
    BY DEF BandOf
  <2>6. RiskGrade(verdict.rules_fired) \in {"D", "F"}
    BY <2>2, <2>4, <2>5 DEF RiskGrade
  <2> QED
    BY <1>1, <2>6, FiredBy
<1>2. AInv => ExpiringIsDOrWorse
  BY <1>1 DEF ExpiringIsDOrWorse
<1> QED
  BY <1>2, PostureInvariant, PTL

\* The resolver's silence costs the analyzer its budget: nine lookups of five
\* seconds are more than thirty, however many records are ever published.
THEOREM SilenceIsNoAbsence == Spec => []SilenceIsNotAbsence
<1>1. ASSUME AInv, \A r \in DOMAIN dns : dns[r] = "unanswered"
      PROVE  /\ ~results["dns_recon"].reported
             /\ verdict.rules_fired \cap {"DNS-001", "DNS-002"} = {}
  <2> DEFINE silent == {r \in DOMAIN dns : dns[r] = "unanswered"}
  <2>1. silent = {"A", "AAAA", "MX", "NS", "TXT", "SOA", "CNAME", "CAA", "DNSKEY"}
    BY <1>1 DEF AInv, RecordTypes
  <2>2. IsFiniteSet({"A"}) /\ Cardinality({"A"}) = 1
    BY FS_Singleton
  <2>3. IsFiniteSet({"A"} \cup {"AAAA"}) /\ Cardinality({"A"} \cup {"AAAA"}) = 2
    BY <2>2, FS_AddElement
  <2>4. /\ IsFiniteSet({"A"} \cup {"AAAA"} \cup {"MX"})
        /\ Cardinality({"A"} \cup {"AAAA"} \cup {"MX"}) = 3
    BY <2>3, FS_AddElement
  <2>5. /\ IsFiniteSet({"A"} \cup {"AAAA"} \cup {"MX"} \cup {"NS"})
        /\ Cardinality({"A"} \cup {"AAAA"} \cup {"MX"} \cup {"NS"}) = 4
    BY <2>4, FS_AddElement
  <2>6. /\ IsFiniteSet({"A"} \cup {"AAAA"} \cup {"MX"} \cup {"NS"} \cup {"TXT"})
        /\ Cardinality({"A"} \cup {"AAAA"} \cup {"MX"} \cup {"NS"} \cup {"TXT"}) = 5
    BY <2>5, FS_AddElement
  <2> DEFINE six == {"A"} \cup {"AAAA"} \cup {"MX"} \cup {"NS"} \cup {"TXT"} \cup {"SOA"}
  <2>7. IsFiniteSet(six) /\ Cardinality(six) = 6
    BY <2>6, FS_AddElement
  <2>8. IsFiniteSet(silent)
    <3>1. silent = six \cup {"CNAME"} \cup {"CAA"} \cup {"DNSKEY"}
      BY <2>1
    <3> HIDE DEF silent, six
    <3> QED
      BY <2>7, <3>1, FS_AddElement
  <2>9. six \subseteq silent
    BY <2>1
  <2> HIDE DEF six
  <2>10. Cardinality(silent) \in Nat /\ 6 <= Cardinality(silent)
    <3> HIDE DEF silent
    <3> QED
      BY <2>7, <2>8, <2>9, FS_Subset, FS_CardinalityType
  <2>11. TimeWaiting(dns) = 5 * Cardinality(silent) /\ PerAnalyzerTimeout = 30
    BY DEF TimeWaiting, LookupLifetime, PerAnalyzerTimeout
  <2> HIDE DEF silent
  <2>12. TimeWaiting(dns) >= PerAnalyzerTimeout
    BY <2>10, <2>11
  <2>13. /\ ~results["dns_recon"].reported
         /\ <<"dns_recon", Id("dns.absent", "dnssec")>> \notin FindingsOf(results)
         /\ <<"dns_recon", Id("dns.absent", "caa")>> \notin FindingsOf(results)
    BY <1>1, <2>12, DnsGrounds DEF AInv
  <2>14. /\ "DNS-001" \in Rules /\ Grounds["DNS-001"] = {<<"dns_recon", Id("dns.absent", "dnssec")>>}
         /\ "DNS-002" \in Rules /\ Grounds["DNS-002"] = {<<"dns_recon", Id("dns.absent", "caa")>>}
    BY DEF Rules, Grounds
  <2> QED
    BY <1>1, <2>13, <2>14, FiredBy
<1>2. AInv => SilenceIsNotAbsence
  BY <1>1 DEF SilenceIsNotAbsence
<1> QED
  BY <1>2, PostureInvariant, PTL

\* What the ground of a rule is exported as: a result of the rule's analyzer, of a
\* level no lower than the rule's severity calls for.
LEMMA GroundsAreShown ==
  ASSUME NEW rule \in Rules, NEW g \in Grounds[rule]
  PROVE  \E id : /\ g = <<SubjectOf(rule), id>>
                 /\ SubjectOf(rule) \in {"tls", "dns_recon", "headers", "ports"}
                 /\ RuleSeverity[rule] \in {"critical", "high"}
                      => LevelOf(SeverityOf(id)) = "error"
                 /\ RuleSeverity[rule] = "medium"
                      => LevelOf(SeverityOf(id)) \in {"error", "warning"}
<1>1. /\ LevelOf("critical") = "error" /\ LevelOf("high") = "error"
      /\ LevelOf("medium") = "warning"
  BY DEF LevelOf
<1>2. /\ SeverityOf(Id("tls", "expired")) = "critical"
      /\ SeverityOf(Id("tls", "expiring_soon")) = "critical"
      /\ SeverityOf(Id("headers.missing", "Strict-Transport-Security")) = "high"
      /\ SeverityOf(Id("headers.missing", "Content-Security-Policy")) = "medium"
      /\ SeverityOf(Id("headers.missing", "X-Frame-Options")) = "medium"
      /\ SeverityOf(Id("dns.absent", "dnssec")) = "medium"
  BY DEF SeverityOf, Id, TlsSeverity, HeaderSeverity, DnsSeverity
<1>3. CASE rule \in {"TLS-001", "TLS-002"}
  <2>1. SubjectOf(rule) = "tls"
    BY <1>3 DEF SubjectOf
  <2>2. g \in {<<"tls", Id("tls", "expired")>>, <<"tls", Id("tls", "expiring_soon")>>}
    BY <1>3 DEF Grounds
  <2> QED
    BY <1>1, <1>2, <2>1, <2>2
<1>4. CASE rule = "HEADERS-001"
  <2>1. SubjectOf(rule) = "headers"
    BY <1>4 DEF SubjectOf
  <2>2. g = <<"headers", Id("headers.missing", "Strict-Transport-Security")>>
    BY <1>4 DEF Grounds
  <2> QED
    BY <1>1, <1>2, <2>1, <2>2
<1>5. CASE rule \in {"HEADERS-002", "HEADERS-003"}
  <2>1. SubjectOf(rule) = "headers" /\ RuleSeverity[rule] = "medium"
    BY <1>5 DEF SubjectOf, RuleSeverity
  <2>2. g \in {<<"headers", Id("headers.missing", "Content-Security-Policy")>>,
               <<"headers", Id("headers.missing", "X-Frame-Options")>>}
    BY <1>5 DEF Grounds
  <2> QED
    BY <1>1, <1>2, <2>1, <2>2
<1>6. CASE rule = "DNS-001"
  <2>1. SubjectOf(rule) = "dns_recon" /\ RuleSeverity[rule] = "medium"
    BY <1>6 DEF SubjectOf, RuleSeverity
  <2>2. g = <<"dns_recon", Id("dns.absent", "dnssec")>>
    BY <1>6 DEF Grounds
  <2> QED
    BY <1>1, <1>2, <2>1, <2>2
<1>7. CASE rule = "DNS-002"
  <2>1. SubjectOf(rule) = "dns_recon" /\ RuleSeverity[rule] = "low"
    BY <1>7 DEF SubjectOf, RuleSeverity
  <2>2. g = <<"dns_recon", Id("dns.absent", "caa")>>
    BY <1>7 DEF Grounds
  <2> QED
    BY <2>1, <2>2
<1> QED
  BY <1>3, <1>4, <1>5, <1>6, <1>7 DEF Rules

\* Rules and findings are graded apart, by other tables in other modules, and yet
\* every rule that fires shows in the SARIF export at a level that fits it.
THEOREM SarifShowsTheVerdict == Spec => []VerdictShowsInSarif
<1>1. ASSUME AInv, NEW rule \in verdict.rules_fired
      PROVE  \E r \in SarifResults(results) :
               /\ r.analyzer = SubjectOf(rule)
               /\ RuleSeverity[rule] \in {"critical", "high"} => r.level = "error"
               /\ RuleSeverity[rule] = "medium" => r.level \in {"error", "warning"}
  <2>1. rule \in Rules
    BY <1>1, FiredBy
  <2>2. PICK g \in Grounds[rule] : g \in FindingsOf(results)
    BY <1>1, <2>1, FiredBy
  <2>3. PICK id :
          /\ g = <<SubjectOf(rule), id>>
          /\ SubjectOf(rule) \in {"tls", "dns_recon", "headers", "ports"}
          /\ RuleSeverity[rule] \in {"critical", "high"} => LevelOf(SeverityOf(id)) = "error"
          /\ RuleSeverity[rule] = "medium" => LevelOf(SeverityOf(id)) \in {"error", "warning"}
    BY <2>1, GroundsAreShown
  <2> DEFINE shown == ResultFor(id, SubjectOf(rule))
  <2>4. shown.analyzer = SubjectOf(rule) /\ shown.level = LevelOf(SeverityOf(id))
    BY DEF ResultFor
  <2>5. shown \in SarifResults(results)
    <3>1. /\ SubjectOf(rule) \in DOMAIN results
          /\ results[SubjectOf(rule)].reported
          /\ id \in results[SubjectOf(rule)].findings
      BY <1>1, <2>2, <2>3, FourResults, FindingsByAnalyzer DEF AInv
    <3> QED
      BY <3>1 DEF SarifResults
  <2> HIDE DEF shown
  <2> QED
    BY <2>3, <2>4, <2>5
<1>2. AInv => VerdictShowsInSarif
  BY <1>1 DEF VerdictShowsInSarif
<1> QED
  BY <1>2, PostureInvariant, PTL

\* Without drift the findings are the same.
LEMMA DriftIsOfFindings ==
  ASSUME NEW before, NEW after, ~Drift(before, after)
  PROVE  FindingsOf(before) = FindingsOf(after)
<1>1. /\ FindingsOf(after) \ FindingsOf(before) = {}
      /\ FindingsOf(before) \ FindingsOf(after) = {}
  BY DEF Drift, Store!Meaningful, Store!DiffOf, FindingsOf
<1> QED
  BY <1>1

\* The diff, which never looks at the verdict, hides no change of it.
THEOREM VerdictChangesAreDrift == Spec => VerdictChangeIsDrift
<1>1. ASSUME AInv, AInv', ~Drift(results, results')
      PROVE  verdict' = verdict
  <2>1. FindingsOf(results) = FindingsOf(results')
    BY <1>1, DriftIsOfFindings
  <2>2. \A rule \in Rules : Fires(rule, results) <=> Fires(rule, results')
    <3>1. \A rule \in Rules :
            Fires(rule, results) <=> \E g \in Grounds[rule] : g \in FindingsOf(results)
      BY <1>1, RulesReadFindings DEF AInv
    <3>2. \A rule \in Rules :
            Fires(rule, results') <=> \E g \in Grounds[rule] : g \in FindingsOf(results')
      BY <1>1, RulesReadFindings DEF AInv
    <3> QED
      BY <2>1, <3>1, <3>2
  <2>3. RulesFired(results) = RulesFired(results')
    BY <2>2 DEF RulesFired
  <2> QED
    BY <1>1, <2>3 DEF AInv, Assess
<1>2. AInv /\ [Next]_vars => [verdict' # verdict => Drift(results, results')]_vars
  BY <1>1, InvariantKept
<1> QED
  BY <1>2, PostureInvariant, PTL DEF Spec, VerdictChangeIsDrift

\* A risky port that opens or closes shows in the diff by its own finding, whatever
\* else is open and whatever that does to the grade.
THEOREM RiskyPortsAreDrift == Spec => RiskyPortIsDrift
<1>1. ASSUME AInv, AInv', ~Drift(results, results'),
             results["ports"].reported, results'["ports"].reported
      PROVE  ports'.open \cap RiskyPorts = ports.open \cap RiskyPorts
  <2>1. FindingsOf(results) = FindingsOf(results')
    BY <1>1, DriftIsOfFindings
  <2>2. ports.outcome = "ok" /\ ports'.outcome = "ok"
    <3>1. results["ports"] = PortsResult(ports) /\ results'["ports"] = PortsResult(ports')
      BY <1>1, FourResults DEF AInv
    <3>2. PortsResult(ports).reported /\ PortsResult(ports').reported
      BY <1>1, <3>1
    <3>3. ASSUME NEW p, PortsResult(p).reported
          PROVE  p.outcome = "ok"
      <4>1. NoReportFor(p.outcome).reported = FALSE
        BY DEF NoReportFor
      <4> QED
        BY <3>3, <4>1, PortsReport
    <3> QED
      BY <3>2, <3>3
  <2>3. ASSUME NEW q \in RiskyPorts
        PROVE  q \in ports.open <=> q \in ports'.open
    <3>1. <<"ports", [kind |-> "ports.risky", name |-> q]>> \in FindingsOf(results)
            <=> q \in ports.open
      BY <1>1, <2>2, PortsGrounds DEF AInv
    <3>2. <<"ports", [kind |-> "ports.risky", name |-> q]>> \in FindingsOf(results')
            <=> q \in ports'.open
      BY <1>1, <2>2, PortsGrounds DEF AInv
    <3> QED
      BY <2>1, <3>1, <3>2
  <2> QED
    BY <2>3
<1>2. AInv /\ [Next]_vars
        => [results["ports"].reported /\ results'["ports"].reported =>
              (ports'.open \cap RiskyPorts # ports.open \cap RiskyPorts
                 => Drift(results, results'))]_vars
  BY <1>1, InvariantKept
<1> QED
  BY <1>2, PostureInvariant, PTL DEF Spec, RiskyPortIsDrift

\* On a host that only got worse, every rule that fired still fires, so that
\* neither the score nor the grade can get better.
THEOREM WorseIsNoBetter == Spec => WorseIsNeverBetter
<1>1. ASSUME AInv, AInv', Worsens
      PROVE  /\ verdict'.overall_score >= verdict.overall_score
             /\ OrderOf[verdict'.grade] <= OrderOf[verdict.grade]
  <2>1. /\ results = ResultsOf(tls, dns, headers, ports) /\ tls.days \in Int
        /\ results' = ResultsOf(tls', dns', headers', ports') /\ tls'.days \in Int
        /\ ports.outcome \in PortOutcomes /\ ports'.outcome \in PortOutcomes
    BY <1>1 DEF AInv
  <2>2. /\ results["tls"].reported /\ results["dns_recon"].reported
        /\ results["headers"].reported
        /\ results'["tls"].reported /\ results'["dns_recon"].reported
        /\ results'["headers"].reported
    <3>1. /\ DOMAIN results = {"tls", "dns_recon", "headers", "ports"}
          /\ DOMAIN results' = {"tls", "dns_recon", "headers", "ports"}
      BY <2>1, FourResults
    <3> QED
      BY <1>1, <3>1 DEF Worsens, Observed
  <2>3. \A g \in Grounds["TLS-002"] : g \in FindingsOf(results) => g \in FindingsOf(results')
    <3>1. <<"tls", Id("tls", "expiring_soon")>> \in FindingsOf(results)
            <=> Handshakes(tls) /\ tls.certificate /\ tls.days \in 0..6
      BY <2>1, TlsGrounds
    <3>2. <<"tls", Id("tls", "expiring_soon")>> \in FindingsOf(results')
            <=> Handshakes(tls') /\ tls'.certificate /\ tls'.days \in 0..6
      BY <2>1, TlsGrounds
    <3>3. Handshakes(tls') /\ tls'.certificate
      BY <2>1, <2>2, TlsGrounds
    <3>4. tls.days \in 0..6 => tls'.days \in 0..6
      BY <1>1, <2>1 DEF Worsens
    <3>5. Grounds["TLS-002"] = {<<"tls", Id("tls", "expiring_soon")>>}
      BY DEF Grounds, Rules
    <3> QED
      BY <3>1, <3>2, <3>3, <3>4, <3>5
  <2>4. \A g \in Grounds["TLS-001"] : g \in FindingsOf(results) => g \in FindingsOf(results')
    <3>1. <<"tls", Id("tls", "expired")>> \notin FindingsOf(results)
      <4>1. ~(tls.days < 0)
        BY <1>1, <2>1 DEF Worsens
      <4> QED
        BY <2>1, <4>1, TlsGrounds
    <3>2. /\ Grounds["TLS-001"] = {<<"tls", Id("tls", "expired")>>,
                                   <<"tls", Id("tls", "expiring_soon")>>}
          /\ Grounds["TLS-002"] = {<<"tls", Id("tls", "expiring_soon")>>}
      BY DEF Grounds, Rules
    <3> QED
      BY <2>3, <3>1, <3>2
  <2>5. ASSUME NEW n \in SecurityHeaders
        PROVE  <<"headers", Id("headers.missing", n)>> \in FindingsOf(results)
                 => <<"headers", Id("headers.missing", n)>> \in FindingsOf(results')
    <3>1. n \in headers'.present => n \in headers.present
      BY <1>1 DEF Worsens
    <3> QED
      BY <2>1, <2>2, <3>1, HeadersGrounds
  <2>6. ASSUME NEW r \in {"DNSKEY", "CAA"}
        PROVE  dns[r] # "some" => dns'[r] # "some"
    <3>1. r \in DOMAIN dns' /\ (dns'[r] = "some" => r \in Lookups)
      BY <1>1 DEF AInv, RecordTypes
    <3> QED
      BY <1>1, <3>1 DEF Worsens
  <2>7. /\ <<"dns_recon", Id("dns.absent", "dnssec")>> \in FindingsOf(results)
             => <<"dns_recon", Id("dns.absent", "dnssec")>> \in FindingsOf(results')
        /\ <<"dns_recon", Id("dns.absent", "caa")>> \in FindingsOf(results)
             => <<"dns_recon", Id("dns.absent", "caa")>> \in FindingsOf(results')
    BY <2>1, <2>2, <2>6, DnsGrounds
  <2>8. \A rule \in Rules : \A g \in Grounds[rule] :
          g \in FindingsOf(results) => g \in FindingsOf(results')
    <3>1. /\ Grounds["HEADERS-001"]
               = {<<"headers", Id("headers.missing", "Strict-Transport-Security")>>}
          /\ Grounds["HEADERS-002"]
               = {<<"headers", Id("headers.missing", "Content-Security-Policy")>>}
          /\ Grounds["HEADERS-003"] = {<<"headers", Id("headers.missing", "X-Frame-Options")>>}
      BY DEF Grounds, Rules
    <3>2. /\ Grounds["DNS-001"] = {<<"dns_recon", Id("dns.absent", "dnssec")>>}
          /\ Grounds["DNS-002"] = {<<"dns_recon", Id("dns.absent", "caa")>>}
      BY DEF Grounds, Rules
    <3>3. {"Strict-Transport-Security", "Content-Security-Policy", "X-Frame-Options"}
            \subseteq SecurityHeaders
      BY DEF SecurityHeaders
    <3>4. \A rule \in {"HEADERS-001", "HEADERS-002", "HEADERS-003"} : \A g \in Grounds[rule] :
            g \in FindingsOf(results) => g \in FindingsOf(results')
      BY <2>5, <3>1, <3>3
    <3>5. \A rule \in {"DNS-001", "DNS-002"} : \A g \in Grounds[rule] :
            g \in FindingsOf(results) => g \in FindingsOf(results')
      BY <2>7, <3>2
    <3> QED
      BY <2>3, <2>4, <3>4, <3>5 DEF Rules
  <2>9. \A rule \in Rules : Fires(rule, results) => Fires(rule, results')
    <3>1. \A rule \in Rules :
            Fires(rule, results) <=> \E g \in Grounds[rule] : g \in FindingsOf(results)
      BY <2>1, RulesReadFindings
    <3>2. \A rule \in Rules :
            Fires(rule, results') <=> \E g \in Grounds[rule] : g \in FindingsOf(results')
      BY <2>1, RulesReadFindings
    <3> QED
      BY <2>8, <3>1, <3>2
  <2>10. RulesFired(results) \subseteq RulesFired(results')
    BY <2>9 DEF RulesFired
  <2>11. /\ verdict.overall_score = Score(RulesFired(results))
         /\ verdict.grade = RiskGrade(RulesFired(results))
         /\ verdict'.overall_score = Score(RulesFired(results'))
         /\ verdict'.grade = RiskGrade(RulesFired(results'))
    BY <1>1 DEF AInv, Assess
  <2>12. /\ Score(RulesFired(results)) \in 0..100 /\ Score(RulesFired(results')) \in 0..100
         /\ Score(RulesFired(results)) <= Score(RulesFired(results'))
    BY <2>10, ScoreGrows
  <2>13. OrderOf[RiskGrade(RulesFired(results'))] <= OrderOf[RiskGrade(RulesFired(results))]
    BY <2>10, GradeFalls
  <2> QED
    BY <2>11, <2>12, <2>13
<1>2. AInv /\ [Next]_vars
        => [Worsens => /\ verdict'.overall_score >= verdict.overall_score
                       /\ OrderOf[verdict'.grade] <= OrderOf[verdict.grade]]_vars
  BY <1>1, InvariantKept
<1> QED
  BY <1>2, PostureInvariant, PTL DEF Spec, WorseIsNeverBetter
===============================================================================
