CONSTANTS
    Typists = {u1, u2}
    Targets = {t1}
    Instances = {i1, i2}
    MaxStarts = 3
    MaxLosses = 1
SPECIFICATION TypingFairSpec
CHECK_DEADLOCK FALSE
INVARIANTS
    TypistsAreListed
PROPERTIES
    TypingEnds
