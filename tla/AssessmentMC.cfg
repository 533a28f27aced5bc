SPECIFICATION Spec
CONSTANTS
  Days <- MCDays
  Protocols <- MCProtocols
  Lookups <- MCLookups
  HeaderNames <- MCHeaderNames
  Ports <- MCPorts
  PortFailures <- MCPortFailures
INVARIANTS
  TypeOK
  ExpiringIsDOrWorse
  SilenceIsNotAbsence
  VerdictShowsInSarif
PROPERTIES
  VerdictChangeIsDrift
  RiskyPortIsDrift
  WorseIsNeverBetter
