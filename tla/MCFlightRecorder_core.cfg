\* Two processes, an erasure, two faults; redaction never shortens a line.
SPECIFICATION Spec
CONSTANTS
  r1 = r1
  r2 = r2
  Eraser = Eraser
  Nobody = Nobody
  Recorders = {r1, r2}
  LineSize = 3
  RedactedSize = 4
  ErasureSize = 2
  MaxLines = 3
  MaxErasures = 1
  MaxFaults = 2
SYMMETRY Interchangeable
INVARIANTS
  TypeOK ChainVerifies RecordSafe NothingAfterEpitaph EpitaphNotAhead NoFalseTamper
PROPERTIES
  HonestVerdict Implements
\* Every process may have closed or died, and the bounds may be spent.
CHECK_DEADLOCK FALSE
