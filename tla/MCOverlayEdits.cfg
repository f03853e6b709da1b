\* Two tabs that open, are edited, reloaded and closed, while requests are accepted
\* or refused; s is also a script name, and is edited inside surrogate pairs.
SPECIFICATION Spec
CONSTANTS
    File <- MCFile
    Roots = {"s"}
    Texts <- MCTexts
    Disk <- MCDisk
    Inserts <- MCInserts
    Split = {"s"}
    NoText = NoText
    MaxEdits = 1
    MaxVersion = 1
INVARIANTS
    TypeOK
    MirrorHolds
    UnsavedServed
    RefusalHeals
CHECK_DEADLOCK FALSE
