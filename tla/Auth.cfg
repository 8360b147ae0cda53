\* One authority and the peer it may revoke, or itself; time enough to grow stale.
\* Three blocks of any kinds and stamps; caches that hold two.
SPECIFICATION AuthSpec
CONSTANTS
    Points = {a, k}
    Authorities = {a}
    Self = a
    Lines <- MCLines
    NoPoint = NoPoint
    MaxStale = 1
    MaxNow = 3
    Blocks = {b1, b2, b3}
    Windows = {0, 1}
    SealWindow = 3
    SeenMax = 2
    MaxClock = 4
    MaxNth = 4
SYMMETRY Symmetry
INVARIANT RevokedStays
INVARIANT EpochCovers
INVARIANT OnceInWindow
INVARIANT SealOnce
CHECK_DEADLOCK FALSE
