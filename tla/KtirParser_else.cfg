CHECK_DEADLOCK FALSE
SPECIFICATION Spec
CONSTANTS
    NumTexts = 2
    TextOf <- ElseText
INVARIANT TreeIsSource
