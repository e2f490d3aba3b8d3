\* Two workers, one at a time, and three requests; fair goroutines.
SPECIFICATION FairSpec
CONSTANTS
  c1 = c1
  c2 = c2
  c3 = c3
  c4 = c4
  lead = lead
  help = help
  Calls = {c1, c2, c3}
  None = None
  Agents = {lead}
  Edges <- NoEdges
  MaxLive <- OneWorker
  Mailbox = 1
  MaxSpawns = 2
INVARIANTS
  SpawnSafe
PROPERTIES
  CallsReturn
\* All requests may have been made.
CHECK_DEADLOCK FALSE
