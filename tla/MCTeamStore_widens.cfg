\* Every file of up to two rules.
SPECIFICATION StoreSpec
CONSTANTS
  a1 = a1
  a2 = a2
  None = None
  Calls = {c1, c2}
  Agents = {a1, a2}
  KeyLen <- MCKeyLen
  Rules <- MCRules
  MaxRules = 2
  Sizes = {0, 1, 3, 5}
  MaxKeyBytes = 3
  MaxValueBytes = 4
  MaxStoreBytes = 6
  MaxStoreKeys = 2
SYMMETRY Interchangeable
INVARIANTS RuleNarrows
\* All accesses may have been made.
CHECK_DEADLOCK FALSE
