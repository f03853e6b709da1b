\* One client, as in the bridge, and one project over two snapshots: the prefetch of
\* the older one, the prefetch of the newer one and a request share two slots.
SPECIFICATION FairSpec
CONSTANTS
    Client = {c}
    Project = {p}
    Slot = {s1, s2}
    NoSlot = NoSlot
    Group = {g1, g2}
    NoTask = NoTask
    GivesUp = TRUE
    MaxSnapshots = 2
    MaxEntries = 2
    MaxRefs = 2
    MaxPrefetch = 2
INVARIANTS
    TypeOK
    MemoIsWhole
    OnePass
    OnlyLatestPrefetches
    OneGroupPerSlot
PROPERTIES
    AnswersAreWhole
    RequestAnswered
CHECK_DEADLOCK FALSE
