\* Four requests of two agents, no spawning: questions, answers, timeouts.
SPECIFICATION Spec
CONSTANTS
  c1 = c1
  c2 = c2
  c3 = c3
  c4 = c4
  lead = lead
  help = help
  Calls = {c1, c2, c3, c4}
  None = None
  Agents = {lead, help}
  Edges <- OneWay
  MaxLive <- NoBudgets
  Mailbox = 1
  MaxSpawns = 0
SYMMETRY Interchangeable
INVARIANTS
  TypeOK OneAnswerLogged ExchangeSafe
PROPERTIES
  Implements
\* All requests may have been made.
CHECK_DEADLOCK FALSE
