\* Calls of every method, with every kind of answer and its optional parts there or not.
SPECIFICATION Spec
CONSTANTS
    Methods <- AllMethods
    Excepted = {"getExpandedParameters"}
    Given = Given
    None = None
    Stale = Stale
    Lengths = {2}
    ArrayLength = 2
    Presents <- MCPresents
    MaxAway = 1
INVARIANTS
    RequestExact
    AnswerWhole
