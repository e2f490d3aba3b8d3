\* Three accesses that reach every limit, without a rule and with each.
SPECIFICATION StoreSpec
CONSTANTS
  a1 = a1
  a2 = a2
  None = None
  Calls = {c1, c2, c3}
  Agents = {a1, a2}
  KeyLen <- MCKeyLen
  Rules <- MCRules
  MaxRules = 1
  Sizes = {0, 1, 3, 5}
  MaxKeyBytes = 3
  MaxValueBytes = 4
  MaxStoreBytes = 6
  MaxStoreKeys = 2
SYMMETRY Interchangeable
INVARIANTS StoreSafe
\* All accesses may have been made.
CHECK_DEADLOCK FALSE
