\* One deadline and two polls that are re-armed for ever.
SPECIFICATION FairSpec
CONSTANTS
    Logins = {l1}
    Polls = {p1, p2}
    Restarting = {p1}
    NoTimer = none
    ThreadId = 1
    OtherPumps = {2}
    IdSpan = 4
    CounterMod = 4
    MaxTimers = 2
    Second = 2
    LoginDelay = 3
    PollDelay = 1
PROPERTY DeadlineKept
