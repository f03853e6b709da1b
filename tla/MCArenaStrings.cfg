\* Answers that fit, do not fit or fail, in any order.
SPECIFICATION Spec
CONSTANTS
    x = x
    y = y
    z = z
    Strings = {x, y, z}
    Empty = Empty
    Undefined = Undefined
    Records <- MCRecords
    Fits <- MCFits
    MaxFields = 3
    Room = 6
INVARIANTS
    Lockstep
    AnswerExact
