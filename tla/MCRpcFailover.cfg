SPECIFICATION FailoverFairSpec

CONSTANTS
    primary = primary
    secondary = secondary
    s1 = s1
    s2 = s2
    Order <- MCOrder
    Sends <- MCSends
    Deadline = 1
    Cooldown = 2
    Window = 2
    FailureThreshold = 2
    MaxTransparent = 1


INVARIANTS
    OneProbe
PROPERTIES
    RetriedUntilRethrow
