\* One machine of every kind, its owner, its watchdog and a doctor.
SPECIFICATION MachineSpec
INVARIANTS
    MachineSafe
    InUseIntact
    NoteTruthful
PROPERTIES
    Reclaimed
\* The machine is gone.
CHECK_DEADLOCK FALSE
