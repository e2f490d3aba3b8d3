\* Two calls, two machines at a time, forks of two; a team of two agents and a worker.
SPECIFICATION Spec
CONSTANTS
  c1 = c1
  c2 = c2
  c3 = c3
  b1 = b1
  b2 = b2
  b3 = b3
  a1 = a1
  a2 = a2
  w1 = w1
  Agents <- TwoAgents
  Workers = {w1}
  Timed = {w1}
  Workspaces = {a1}
  NoFile = NoFile
  Callers = {c1, c2}
  Boxes = {b1, b2, b3}
  MaxBoxes = 2
  MaxCalls = 2
  Forks = 2
  Mixes <- TwoMixes
  Server = Server
  Nobody = Nobody
INVARIANTS
  HostSafe RigSafe
PROPERTIES
  Drains
\* The server has returned.
CHECK_DEADLOCK FALSE
