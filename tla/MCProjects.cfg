\* Two projects that share a file, in a language service or a build.
SPECIFICATION Spec
CONSTANTS
    A = A
    B = B
    a = a
    s = s
    NoConfig = NoConfig
    NoTree = NoTree
    NoView = NoView
    Lost = Lost
    Configs = {A, B}
    Files = {a, s}
    FilesOf <- MCFilesOf
    Signals = {a}
    Steadies = {1, 2}
    Modes = {"service", "build"}
    Answers = {"names"}
    MaxVersion = 1
    MaxSnapshots = 5
INVARIANTS
    TypeOK
    ProjectsUsable
    NoSnapshotLeak
    AnswersExact
    TreesExact
PROPERTIES
    ImplementsViews
