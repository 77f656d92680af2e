\* A Windows view whose resize times out.
SPECIFICATION ResizeSpec
CONSTANTS
    Sizes <- MCSizes
    invalid = invalid
INVARIANTS
    NoFrozenView
CHECK_DEADLOCK FALSE
