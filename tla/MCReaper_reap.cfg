\* Two commands, and what they leave behind, share two numbers; a shutdown.
SPECIFICATION FairSpec
CONSTANTS
  c1 = c1
  c2 = c2
  Cmds = {c1, c2}
  Forkers = {c1}
  Pids = {n1, n2}
  None = None
  MayHalt = TRUE
INVARIANTS ReaperSafe
PROPERTIES ExecReturns
\* Every request may have been answered, and a command may never end.
CHECK_DEADLOCK FALSE
