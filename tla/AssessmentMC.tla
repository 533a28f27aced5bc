---------------------------- MODULE AssessmentMC ----------------------------
(***************************************************************************)
(* The postures of a host that the analyzers and the rules tell apart:     *)
(* certificate ages on both sides of every threshold, one leaky header,    *)
(* two risky ports, and the records of the two DNS rules.                  *)
(***************************************************************************)
EXTENDS Assessment

MCDays == {-1, 0, 6, 7, 30}
MCProtocols == {"TLSv1.1", "TLSv1.3"}
MCLookups == {"CAA", "DNSKEY"}
MCHeaderNames == {"Strict-Transport-Security", "Content-Security-Policy",
                  "X-Frame-Options", "Server"}
MCPorts == {6379, 3306}
MCPortFailures == {"denied"}
MCFewPorts == {80}
MCFewHeaders == {"Strict-Transport-Security"}
=============================================================================
