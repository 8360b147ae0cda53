\* A hub pump whose time-out never elapses and whose handlers re-post for ever.
SPECIFICATION FairSpec
CONSTANTS
    t1 = t1
    t2 = t2
    Posters = {t1, t2}
    Pump = pump
    NoThread = none
    Calls <- CallsPostSig
    UsesIOCP = TRUE
    TimeoutFires = FALSE
    CanClose = FALSE
    CanFlush = FALSE
    SelfPosts = TRUE
    SelfSignals = FALSE
    MaxLive = 2
    MaxPumpBatch = 1
    BatchSize = 2
    MaxSend = 1
    MaxSig = 1
    MaxQue = 1
    MaxPit = 0
    MaxIo = 1
PROPERTY Implements
PROPERTY IoServed
\* With no time-outs an idle pump sleeps once the bounded posters are done.
CHECK_DEADLOCK FALSE
