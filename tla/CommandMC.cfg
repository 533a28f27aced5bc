SPECIFICATION Spec
CONSTANTS
  Typed <- MCTyped
  Available <- MCAvailable
  CommandLines <- MCCommandLines
  Version = "v=wimsalabim1"
  Key = "key"
  TxtAnswers <- MCTxtAnswers
  SiteAnswers <- MCSiteAnswers
  Manifests <- MCManifests
  LegalClassOf <- MCLegalClassOf
  Ports <- MCPorts
  Capacity = 2
  Hosts <- MCHosts
  Blacklist <- MCBlacklist
  MaxRedirects = 1
INVARIANTS
  TypeOK
  ScansRestOnProofs
  PortsReportIsExact
  PermitsAreKept
  
  NeverSpeaksToTelemetry
PROPERTIES
  CommandEnds
