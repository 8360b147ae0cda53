\* Two deadlines, two polls; a counter that runs past the pump's range of ids and past another pump's.
SPECIFICATION FairSpec
CONSTANTS
    Logins = {l1, l2}
    Polls = {p1, p2}
    Restarting = {p1}
    NoTimer = none
    ThreadId = 1
    OtherPumps = {2}
    IdSpan = 1
    CounterMod = 4
    MaxTimers = 2
    Second = 2
    LoginDelay = 3
    PollDelay = 1
INVARIANT UniqueIds
INVARIANT CallbackKnown
INVARIANT NeverASecondEarly
PROPERTY DeadlinesCome
