\* An erasure that leaves the file exactly as long as it was.
SPECIFICATION Spec
CONSTANTS
  r1 = r1
  r2 = r2
  Eraser = Eraser
  Nobody = Nobody
  Recorders = {r1, r2}
  LineSize = 3
  RedactedSize = 1
  ErasureSize = 2
  MaxLines = 4
  MaxErasures = 1
  MaxFaults = 0
SYMMETRY Interchangeable
INVARIANTS
  NeverStale
\* Every process may have closed or died, and the bounds may be spent.
CHECK_DEADLOCK FALSE
