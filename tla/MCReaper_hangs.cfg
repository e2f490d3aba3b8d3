\* A descendant that left the process group of its command.
SPECIFICATION FairSpec
CONSTANTS
  c1 = c1
  c2 = c2
  Cmds = {c1}
  Forkers = {c1}
  Pids = {n1, n2}
  None = None
  MayHalt = FALSE
PROPERTIES TimeoutAnswers
\* Every request may have been answered, and a command may never end.
CHECK_DEADLOCK FALSE
