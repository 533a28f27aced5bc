SPECIFICATION Spec
CONSTANTS
  Days <- MCDays
  Protocols <- MCProtocols
  Lookups <- MCLookups
  HeaderNames <- MCFewHeaders
  Ports <- MCFewPorts
  PortFailures <- MCPortFailures
INVARIANTS
  ExpiredIsDOrWorse
