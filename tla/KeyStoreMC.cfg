SPECIFICATION Spec
CONSTANTS
  Commands = {c1, c2, c3, c4}
  Bodies = {b1, b2}
  Null = Null
  FirstRunAlone = TRUE
INVARIANTS
  TypeOK
  SignedReportVerifies
  SaveIsKept
PROPERTIES
  ImplementsIdentity
SYMMETRY CommandSymmetry
