---------------------------- MODULE OrchestratorMC ----------------------------
(***************************************************************************)
(* Small instances of the orchestrator: two hosts, one a subdomain of the  *)
(* other, and analyzers of the legal classes the code registers (headers   *)
(* is passive, ports is active).                                           *)
(***************************************************************************)
EXTENDS Orchestrator

Small(t) == [text |-> t, upper |-> FALSE]

\* x, and w.x below it
Site == <<Small("x")>>
Sub  == <<Small("w"), Small(".")>> \o Site

\* The one that uses the client and the one the gate may refuse.
MCAnalyzers == {"headers", "ports"}
MCLegalClassOf == [headers |-> "passive", ports |-> "active"]
MCHttpAnalyzers == {"headers"}

Scanning(host, names, authz) ==
  [target |-> host, enabled |-> names, authorization |-> authz,
   allowIntrusive |-> FALSE]

\* A host with a proof for its parent, the parent with a proof for the host
\* only - the gate tells the two apart - and a scan that runs no analyzer.
MCConfigs == {Scanning(Sub, MCAnalyzers, AuthorizationFor(Site)),
              Scanning(Site, MCAnalyzers, AuthorizationFor(Sub)),
              Scanning(Site, {}, NoAuthorization)}
=============================================================================
