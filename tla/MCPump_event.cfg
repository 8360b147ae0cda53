\* A pump without a port, flushed by its handlers, that no time-out wakes.
SPECIFICATION FairSpec
CONSTANTS
    t1 = t1
    t2 = t2
    Posters = {t1, t2}
    Pump = pump
    NoThread = none
    Calls <- CallsPostSig
    UsesIOCP = FALSE
    TimeoutFires = FALSE
    CanClose = FALSE
    CanFlush = TRUE
    SelfPosts = TRUE
    SelfSignals = TRUE
    MaxLive = 1
    MaxPumpBatch = 1
    BatchSize = 2
    MaxSend = 1
    MaxSig = 2
    MaxQue = 1
    MaxPit = 0
    MaxIo = 0
PROPERTY SignalsServed
\* With no time-outs an idle pump sleeps once the bounded posters are done.
CHECK_DEADLOCK FALSE
