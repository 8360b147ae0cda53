\* Two messages come from another thread; one of the pump's own cannot be sealed.
SPECIFICATION FairSpec
CONSTANTS
    m1 = m1
    m2 = m2
    m3 = m3
    m4 = m4
    KeyX = keyx
    Login = login
    NoMsg = none
    Apps <- MCApps
    Pri <- MCPri
    Foreign = {m2, m3}
    Unsealable = {m1}
INVARIANT NothingStranded
INVARIANT SamePriorityFifo
INVARIANT NoAppBeforeLogin
INVARIANT OwnedOnce
PROPERTY QueuedLeaves
