\* Two threads, connections to one peer: posts that race, walks against releases.
SPECIFICATION Spec
CONSTANTS
    Connections = {c1, c2}
    Address <- OnePeer
    Apps = {a1, a2}
    Hub = Hub
    None = None
    MaxSignals = 1
INVARIANT CountsExact
INVARIANT CountedIsLive
INVARIANT RegistryLive
INVARIANT NoTwins
INVARIANT Reclaimed
PROPERTY DestroyedGoes
CHECK_DEADLOCK FALSE
