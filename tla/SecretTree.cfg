\* A panic ends the group instance: states with crash # "none" have no successor.
CHECK_DEADLOCK FALSE
CONSTANTS
    NumLeaves = 3
    MaxGeneration = 2
    OutOfOrderWindow = 1
    MaxForwardDistance = 2
    NoSecret = NoSecret
    NoRatchet = NoRatchet
SPECIFICATION Spec
INVARIANT TypeOK
INVARIANT ForwardSecrecy
INVARIANT DerivationAvailable
INVARIANT SecretsCanonical
