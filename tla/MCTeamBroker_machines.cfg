\* A spawn while a worker whose lifetime is over still stops.
SPECIFICATION Spec
CONSTANTS
  c1 = c1
  c2 = c2
  c3 = c3
  c4 = c4
  lead = lead
  help = help
  Calls = {c1, c2}
  None = None
  Agents = {lead}
  Edges <- NoEdges
  MaxLive <- OneWorker
  Mailbox = 1
  MaxSpawns = 2
SYMMETRY Interchangeable
INVARIANTS
  MachinesWithinBudget
\* All requests may have been made.
CHECK_DEADLOCK FALSE
