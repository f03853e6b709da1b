\* tsserver: a root with an extra extension imports, by its text, a file that the client may open.
SPECIFICATION Spec
CONSTANTS
    a = a
    b = b
    NoText = NoText
    Text <- MCText
    Edit <- MCEdit
    Splice <- MCSplice
    Virtual <- MCVirtual
    Imports <- MCSometimes
    File = {a, b}
    DiskFiles = {a, b}
    Roots = {a}
    Plain = {b}
    Vendor = {}
    Probed = {}
    Tabbed = {b}
    Server = TRUE
    MaxWrites = 2
    MaxEdits = 2
INVARIANTS
    TypeOK
    MirrorExact
    DeltaAccepted
    UnsavedReachesGo
    HeardReachesGo
PROPERTIES
    ClosedTabReleased
