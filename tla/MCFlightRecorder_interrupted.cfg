\* Deaths only, no fault and no erasure.
SPECIFICATION Spec
CONSTANTS
  r1 = r1
  r2 = r2
  Eraser = Eraser
  Nobody = Nobody
  Recorders = {r1, r2}
  LineSize = 3
  RedactedSize = 4
  ErasureSize = 2
  MaxLines = 3
  MaxErasures = 0
  MaxFaults = 0
SYMMETRY Interchangeable
INVARIANTS
  InterruptedIsNotTampering
\* Every process may have closed or died, and the bounds may be spent.
CHECK_DEADLOCK FALSE
