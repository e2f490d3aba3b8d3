\* An erasure that shortens the file, never to a size it had before
\* (one odd ErasureSize against even lines); fair scheduling and a fair flock.
SPECIFICATION FairSpec
CONSTANTS
  r1 = r1
  r2 = r2
  Eraser = Eraser
  Nobody = Nobody
  Recorders = {r1, r2}
  LineSize = 10
  RedactedSize = 4
  ErasureSize = 7
  MaxLines = 2
  MaxErasures = 1
  MaxFaults = 1
INVARIANTS
  ChainVerifies
PROPERTIES
  AppendReturns
\* Every process may have closed or died, and the bounds may be spent.
CHECK_DEADLOCK FALSE
