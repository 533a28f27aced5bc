SPECIFICATION Spec
CONSTANTS
  Analyzers <- MCAnalyzers
  LegalClassOf <- MCLegalClassOf
  HttpAnalyzers <- MCHttpAnalyzers
  Configs <- MCConfigs
  Outcomes <- AllOutcomes
  ClockRetreats = TRUE
  MaxScans = 2
INVARIANTS
  TypeOK
  LaunchedOnlyIfAdmitted
  ReportIsComplete
  StragglersAreAborted
  ClientServesItsScan
PROPERTIES
  ReportIsFinal
  ScanEnds
  LoopCloses
  ImplementsContract
