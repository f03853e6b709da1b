\* Two threads, two handles, two buffers, one failed allocation.  The table of
\* two arenas lets an arena be replaced and the table be full.
\* No symmetry, which TLC's liveness check does not support.
SPECIFICATION FairSpec
CONSTANTS
    Thread = {t1, t2}
    NoThread = NoThread
    Buffer = {b1, b2}
    NoBuffer = NoBuffer
    MaxSessions = 2
    MaxArenas = 2
    MaxFaults = 1
INVARIANTS
    TypeOK
    OneInside
    OwnAnswer
    NoOrphan
    ArenaRooted
    NoArenaLeak
PROPERTIES
    ImplementsPrivate
    SessionsReleased
