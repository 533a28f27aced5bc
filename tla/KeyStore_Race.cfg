SPECIFICATION Spec
CONSTANTS
  Commands = {c1, c2, c3}
  Bodies = {b1, b2}
  Null = Null
  FirstRunAlone = FALSE
INVARIANTS
  SignedReportVerifies
