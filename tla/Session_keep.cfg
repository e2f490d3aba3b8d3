\* One run and one resume of one session, an edit and a write.
SPECIFICATION Spec
CONSTANTS
    Edits = {e1}
    Writes = {w1}
    Base = base
INVARIANTS
    SessionSafe
    WorkKept
    EditsStay
\* The session is over, or was pruned.
CHECK_DEADLOCK FALSE
