\* Two connections over two slots; every deadline is one or two ticks.
CONSTANTS
    Conns = {c1, c2}
    Guest = guest
    Strangers = {x1}
    MaxForeign = 1
    Slots = 2
    s1 = s1
    s2 = s2
    Secrets <- TwoSecrets
    Header = 1
    Stall = 1
    TunnelStall = 2
    Idle = 1
    IdleBudget = 2
    Ceiling = 3
    Dial = 1
    MaxRequests = 2
    None = None
SPECIFICATION Spec
INVARIANTS EgressSafe Timely
PROPERTIES CloseEnds
\* The proxy stops once it is closed and its handlers have ended.
CHECK_DEADLOCK FALSE
