CONSTANTS
    Zero = 0
    NoCache = NoCache
    Val = {1, 2}
    Lengths = {1, 2, 3}
    MaxLen = 3
    MaxTensors = 2
    Stick = 2
SPECIFICATION Spec
INVARIANTS
    CacheIsSound
    ArgumentsAreApart
PROPERTY ImplementsTensors
CHECK_DEADLOCK FALSE
