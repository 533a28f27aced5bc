SPECIFICATION Spec
CONSTANTS
  Analyzers <- MCAnalyzers
  LegalClassOf <- MCLegalClassOf
  HttpAnalyzers <- MCHttpAnalyzers
  Configs <- MCConfigs
  Outcomes <- AllOutcomes
  ClockRetreats = FALSE
  MaxScans = 1
INVARIANTS
  NeverRaisesAcrossBoundary
