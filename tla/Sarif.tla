-------------------------------- MODULE Sarif --------------------------------
(***************************************************************************)
(* display/sarif.py: a report as SARIF results, one per finding of every   *)
(* analyzer that has a report, each with a level the consumers of the      *)
(* format gate on.  Rules, messages and locations are left out.            *)
(*                                                                         *)
(* Definitions named Bug_... are mutated forms used to test properties.    *)
(***************************************************************************)
EXTENDS AnalyzerReports

Bug_HighIsWarning(severity) ==
  CASE severity = "critical" -> "error"
    [] severity \in {"high", "medium"} -> "warning"
    [] OTHER -> "note"

\* _SEV_TO_LEVEL
LevelOf(severity) ==
  CASE severity \in {"critical", "high"} -> "error"
    [] severity = "medium" -> "warning"
    [] OTHER -> "note"

\* _result_for
ResultFor(id, analyzer) ==
  [ruleId |-> id, level |-> LevelOf(SeverityOf(id)), analyzer |-> analyzer]

\* The results section of render_sarif.
SarifResults(results) ==
  UNION {{ResultFor(id, a) : id \in results[a].findings} :
         a \in {b \in DOMAIN results : results[b].reported}}
=============================================================================
