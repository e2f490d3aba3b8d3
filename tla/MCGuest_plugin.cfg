\* Two calls to one plugin, a queue and a pipe of one, one restore.
CONSTANTS
    Calls = {c1, c2}
    Cap = 1
    Pipe = 1
    Mixes <- PluginMixes
    None = None
SPECIFICATION Spec
INVARIANTS GuestSafe
PROPERTIES CallsReturn
\* Once the calls have returned and the events are delivered, nothing need happen.
CHECK_DEADLOCK FALSE
