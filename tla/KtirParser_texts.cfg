\* The parser returns.
CHECK_DEADLOCK FALSE
SPECIFICATION Spec
CONSTANTS
    NumTexts <- MCNumTexts
    TextOf <- MCTextOf
INVARIANTS TypeOK TreeIsSource
