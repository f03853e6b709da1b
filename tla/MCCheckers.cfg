\* Two hosts on one tsconfig and one on another, all with the shared file, which
\* Go may also find changed by itself; its text changes twice, so that a send can
\* mend what an earlier one left behind.
SPECIFICATION Spec
CONSTANTS
    A = A
    B = B
    s = s
    p1 = p1
    p2 = p2
    q = q
    NoProgram = NoProgram
    NoTree = NoTree
    NoMemo = NoMemo
    NoSteady = NoSteady
    Configs = {A, B}
    Programs = {p1, p2, q}
    ConfigOf <- MCConfigOf
    Files = {s}
    FilesOf <- MCFilesOf
    Signals = {}
    Probed = {s}
    s1 = s1
    s2 = s2
    Steadies = {s1, s2}
    MaxVersion = 2
    MaxSnapshots = 3
    MaxDepth = 2
SYMMETRY Alike
INVARIANTS
    MemosCurrent
    RefRight
    TreesOwn
