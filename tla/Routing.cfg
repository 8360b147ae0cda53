CONSTANTS
    Hubs <- MCHubs
    Links <- MCLinks
    Up <- MCUp
    Mail <- MCMail
    Closed <- MCClosed
    Mute <- MCMute
    RelayAuth = TRUE
    MaxPosts = 1
    MaxDrops = 2
SPECIFICATION Spec
INVARIANT HopBound
INVARIANT RightHub
INVARIANT Conserved
INVARIANT CastOnce
INVARIANT GateHonest
PROPERTY Quiesces
CHECK_DEADLOCK FALSE
