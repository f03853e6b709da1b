\* The same calls, and no method excepted.
SPECIFICATION Spec
CONSTANTS
    Methods <- AllMethods
    Excepted = {}
    Given = Given
    None = None
    Stale = Stale
    Lengths = {2}
    ArrayLength = 2
    Presents <- MCPresents
    MaxAway = 1
INVARIANTS
    RequestExact
