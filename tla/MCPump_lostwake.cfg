\* A thread posts through an entry point that holds only the global lock.
SPECIFICATION Spec
CONSTANTS
    t1 = t1
    t2 = t2
    Posters = {t1, t2}
    Pump = pump
    NoThread = none
    Calls <- CallsSys
    UsesIOCP = TRUE
    TimeoutFires = TRUE
    CanClose = FALSE
    CanFlush = FALSE
    SelfPosts = TRUE
    SelfSignals = FALSE
    MaxLive = 1
    MaxPumpBatch = 1
    BatchSize = 2
    MaxSend = 2
    MaxSig = 1
    MaxQue = 1
    MaxPit = 1
    MaxIo = 0
INVARIANT NoLostWake
