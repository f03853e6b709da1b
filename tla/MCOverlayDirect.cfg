\* A direct CompilerHost that serves text of its own for the root, whose import comes and goes
\* with it, while both files are rewritten.
SPECIFICATION Spec
CONSTANTS
    a = a
    b = b
    NoText = NoText
    Text <- MCText
    Edit <- MCEdit
    Splice <- MCSplice
    Virtual <- MCVirtual
    Imports <- MCSometimes
    File = {a, b}
    DiskFiles = {a, b}
    Roots = {a}
    Plain = {a, b}
    Vendor = {}
    Probed = {}
    Tabbed = {a}
    Server = FALSE
    MaxWrites = 2
    MaxEdits = 1
INVARIANTS
    DirectServed
    NoSteadyRewriteLost
