----------------------------- MODULE Assessment -----------------------------
(***************************************************************************)
(* A host as `watch` sees it: its posture changes between scans, and each  *)
(* scan turns what the analyzers observe into results, the results into a  *)
(* risk verdict, and the results of two scans into a diff.  A step is one  *)
(* change of the posture, so that a step's two states are two consecutive  *)
(* scans: Assess runs inside _scan_one, the diff in diff_against_previous; *)
(* `scan` exports the same results as SARIF.                               *)
(***************************************************************************)
EXTENDS RiskEngine, Sarif

Store == INSTANCE BaselineStore

CONSTANTS
  Days,        \* the days left on a certificate that tell the code's cases apart
  Protocols,   \* the best protocols a server may speak
  Lookups,     \* the record types whose answers vary (the others are "none")
  HeaderNames, \* the response headers that come and go
  Ports,       \* the ports that open and close
  PortFailures \* what may be recorded in place of a report on them

\* Days are whole days, and a certificate starts with the most of them.
ASSUME AssessmentAssumption ==
  /\ Days \subseteq Int
  /\ \E d \in Days : \A e \in Days : e <= d
  /\ PortFailures \subseteq {"denied", "timeout"}

VARIABLES
  tls, dns, headers, ports,  \* the host's posture, as the analyzers observe it
  results,                   \* the analyzers section of the last scan's report
  verdict                    \* its risk assessment

vars == <<tls, dns, headers, ports, results, verdict>>

ResultsOf(t, d, h, p) ==
  [tls |-> TlsResult(t), dns_recon |-> DnsResult(d), headers |-> HeadersResult(h),
   ports |-> PortsResult(p)]

Published ==
  [r \in RecordTypes \cup {"DNSKEY"} |-> IF r \in Lookups THEN "some" ELSE "none"]

\* A healthy host: a fresh certificate, every record and security header.
Init ==
  /\ tls = [reachable |-> TRUE, protocol |-> "TLSv1.3", certificate |-> TRUE,
            days |-> CHOOSE d \in Days : \A e \in Days : e <= d, lapses |-> FALSE]
  /\ dns = Published
  /\ headers = [answered |-> TRUE, present |-> SecurityHeaders]
  /\ ports = [outcome |-> "ok", open |-> {}]
  /\ results = ResultsOf(tls, dns, headers, ports)
  /\ verdict = Assess(results)

\* _scan_one: the next scan analyzes the host as it now is and assesses the
\* results.
Rescan ==
  /\ results' = ResultsOf(tls', dns', headers', ports')
  /\ verdict' = Assess(results')

\* The endpoint's TLS changes: the certificate ages or is renewed, perhaps
\* lapsing while it is looked at, the server is reconfigured, or goes away.
TlsChanges ==
  /\ \/ \E d \in Days, l \in BOOLEAN :
          tls' = [tls EXCEPT !.days = d, !.lapses = l /\ d = -1]
     \/ \E p \in Protocols : tls' = [tls EXCEPT !.protocol = p]
     \/ \E b \in BOOLEAN : tls' = [tls EXCEPT !.reachable = b]
     \/ \E b \in BOOLEAN : tls' = [tls EXCEPT !.certificate = b]
  /\ UNCHANGED <<dns, headers, ports>>

\* A record is published or withdrawn, or its lookup goes unanswered by a resolver
\* that answers others; or the resolver falls silent for all of them, and is back.
DnsChanges ==
  /\ \/ /\ ~ \A r \in DOMAIN dns : dns[r] = "unanswered"
        /\ \E r \in Lookups, answer \in {"some", "none", "unanswered"} :
             dns' = [dns EXCEPT ![r] = answer]
     \/ dns' = [r \in DOMAIN dns |-> "unanswered"]
     \/ dns' = Published
  /\ UNCHANGED <<tls, headers, ports>>

\* The server starts or stops sending a header, or stops answering.
HeadersChange ==
  /\ \/ \E h \in HeaderNames :
          \/ headers' = [headers EXCEPT !.present = @ \cup {h}]
          \/ headers' = [headers EXCEPT !.present = @ \ {h}]
     \/ \E b \in BOOLEAN : headers' = [headers EXCEPT !.answered = b]
  /\ UNCHANGED <<tls, dns, ports>>

\* Services are opened and closed; or the ports go unseen, for the proof of
\* authorization is missing or the scan is late.
PortsChange ==
  /\ \/ \E open \in SUBSET Ports : ports' = [outcome |-> "ok", open |-> open]
     \/ \E e \in PortFailures : ports' = [outcome |-> e, open |-> {}]
  /\ UNCHANGED <<tls, dns, headers>>

Next == (TlsChanges \/ DnsChanges \/ HeadersChange \/ PortsChange) /\ Rescan

Spec == Init /\ [][Next]_vars

-----------------------------------------------------------------------------
ReportWith(found) == [target |-> "host", config |-> "default", analyzers |-> found]

Drift(before, after) ==
  Store!Meaningful(Store!DiffOf(ReportWith(before), ReportWith(after)))

\* The results of a scan are well-formed reports and errors, and the score is
\* one the grade table covers.
TypeOK ==
  /\ \A a \in DOMAIN results :
       /\ results[a].status \in {"ok", "denied", "network", "analyzer", "timeout"}
       /\ results[a].reported <=> results[a].status = "ok"
       /\ results[a].grade \in (IF results[a].status = "ok"
                                THEN {"A", "B", "C", "D", "F"} ELSE {"N/A"})
  /\ verdict.overall_score \in 0..100

\* The baseline diff hides no change of the risk verdict: whenever a posture
\* change makes other rules fire, or moves the risk grade, the diff of the two
\* scans is meaningful - although the diff never looks at the verdict.
VerdictChangeIsDrift == [][verdict' # verdict => Drift(results, results')]_vars

\* Every risky port that opens or closes between two scans that look shows in
\* the diff, also next to other risky ports that leave the grade of the ports
\* analyzer as it was.
RiskyPortIsDrift ==
  [][results["ports"].reported /\ results'["ports"].reported =>
       (ports'.open \cap RiskyPorts # ports.open \cap RiskyPorts
          => Drift(results, results'))]_vars

Observed(found) == {a \in DOMAIN found : found[a].reported}

\* Every analyzer reports before and after, the step took something away from
\* the host's posture and added nothing, and no certificate has run out.
Worsens ==
  /\ Observed(results) = DOMAIN results
  /\ Observed(results') = DOMAIN results
  /\ 0 <= tls'.days /\ tls'.days <= tls.days
  /\ \A r \in Lookups : dns[r] # "some" => dns'[r] # "some"
  /\ headers'.present \cap SecurityHeaders \subseteq headers.present
  /\ headers.present \cap LeakyHeaders \subseteq headers'.present

\* A host that only got worse never gets a lower score or a better grade, so
\* that an operator cannot mistake a regression for a repair.
WorseIsNeverBetter ==
  [][Worsens => /\ verdict'.overall_score >= verdict.overall_score
                /\ OrderOf[verdict'.grade] <= OrderOf[verdict.grade]]_vars

\* A host whose certificate runs out within a week is graded D or worse, as
\* long as its handshake can be looked at, whatever else the scan found.
ExpiringIsDOrWorse ==
  Handshakes(tls) /\ tls.certificate /\ tls.days \in 0..6 => verdict.grade \in {"D", "F"}

\* A resolver that answers nothing makes no host look bare: the lookups that
\* fail one after the other outlast the analyzer's budget before they could be
\* reported as absent records, and no DNS rule fires.
SilenceIsNotAbsence ==
  (\A r \in DOMAIN dns : dns[r] = "unanswered") =>
    /\ ~results["dns_recon"].reported
    /\ verdict.rules_fired \cap {"DNS-001", "DNS-002"} = {}

\* The analyzer whose result a rule looks at.
SubjectOf(rule) ==
  CASE rule \in {"TLS-001", "TLS-002"} -> "tls"
    [] rule \in {"DNS-001", "DNS-002"} -> "dns_recon"
    [] OTHER -> "headers"

\* Whoever gates on the SARIF levels misses nothing the verdict holds against
\* the host: a rule that fired is matched by a SARIF result of its analyzer -
\* an error for a critical or high one, no mere note for a medium one -,
\* although rules and findings are graded apart.
VerdictShowsInSarif ==
  \A rule \in verdict.rules_fired : \E r \in SarifResults(results) :
    /\ r.analyzer = SubjectOf(rule)
    /\ RuleSeverity[rule] \in {"critical", "high"} => r.level = "error"
    /\ RuleSeverity[rule] = "medium" => r.level \in {"error", "warning"}

-----------------------------------------------------------------------------
(* What the repository's text says and the code does not do                *)

\* docs/architecture.md: any unmitigated critical rule pulls the grade to D or
\* worse, for "a single missed-but-critical finding (e.g., expired
\* certificate)" is worse than several mediums.
ExpiredIsDOrWorse == tls.reachable /\ tls.days < 0 => verdict.grade \in {"D", "F"}
=============================================================================
