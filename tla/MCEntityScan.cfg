SPECIFICATION Spec
CONSTANTS
    a = a
    b = b
    Scalars <- TextFields
    Texts = {a, b}
    Empty = Empty
    Entities <- SomeEntities
    Pending = Pending
    Matched = Matched
INVARIANTS TypeOK VerdictIsSubset
CHECK_DEADLOCK FALSE
