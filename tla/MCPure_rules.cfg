\* Every input of the bounded sets, once.
CONSTANTS
    Write <- ConfineWrite
    DeviceTrees <- ConfineDeviceTrees
    Devices <- ConfineDevices
    Work <- ConfineWork
    ByteMax = 16
    MaxTurns = 12
    Numerals <- GrantsNumerals
    UnsafeV4 <- GrantsUnsafeV4
    UnsafeV6 <- GrantsUnsafeV6
    Odd <- CredentialsOdd
    Reread <- CredentialsReread
    minScrub = 2
    Star = "*"
    BadNames <- ExtractBadNames
    maxImageEntries = 5
    MaxDepth = 1
    maxLinkHops = 4
    maxLinkSteps = 40
    cycleWatchFrom = 2
    MaxInt = 63
    MiB = 4
    maxAgentCount = 3
    BadParts <- TeamBadParts
    NoSpawn = NoSpawn
    LineBudget = 60
    clipNoteBytes = 3
    NoteBytes = 2
    maxClipAttempts = 8
    Framing = 5
    MaxFrame = 3
    MaxRest = 4
    maxBlankLines = 9
    MaxDistinctKeys = 2
SPECIFICATION Spec
INVARIANTS Confined GrantsHeld CredentialsHeld PolicyHeld PlanHeld ReadBack
\* One input is picked and judged.
CHECK_DEADLOCK FALSE
