CONSTANTS
    NumLeaves = 3
    MaxGeneration = 2
    OutOfOrderWindow = 1
    MaxForwardDistance = 2
    NoSecret = NoSecret
    NoRatchet = NoRatchet
SPECIFICATION Spec
INVARIANT NoPanic
