\* A tab whose file is rewritten after the host went back to the disk text.
SPECIFICATION Spec
CONSTANTS
    a = a
    b = b
    NoText = NoText
    Text <- MCText
    Edit <- MCEdit
    Splice <- MCSplice
    Virtual <- MCVirtual
    Imports <- MCAlways
    File = {a}
    DiskFiles = {a}
    Roots = {a}
    Plain = {a}
    Vendor = {}
    Probed = {a}
    Tabbed = {a}
    Server = TRUE
    MaxWrites = 1
    MaxEdits = 1
INVARIANTS
    RewriteReachesTabs
