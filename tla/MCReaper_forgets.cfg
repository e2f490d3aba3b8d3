\* A number that comes round again before an older request forgot it.
SPECIFICATION Spec
CONSTANTS
  c1 = c1
  c2 = c2
  Cmds = {c1, c2}
  Forkers = {c1}
  Pids = {n1, n2}
  None = None
  MayHalt = FALSE
SYMMETRY Interchangeable
INVARIANTS NeverDropped
\* Every request may have been answered, and a command may never end.
CHECK_DEADLOCK FALSE
