\* A service with two projects, one of which is synchronised by a change of the other.
SPECIFICATION Spec
CONSTANTS
    A = A
    B = B
    a = a
    s = s
    NoConfig = NoConfig
    NoTree = NoTree
    NoView = NoView
    Lost = Lost
    Configs = {A, B}
    Files = {a, s}
    FilesOf <- MCFilesOf
    Signals = {a, s}
    Steadies = {1, 2}
    Modes = {"service"}
    Answers = {"names"}
    MaxVersion = 1
    MaxSnapshots = 5
PROPERTIES
    RefreshSeesHostText
