\* A hub pump, every entry point that takes the pump's own lock, and a CLOSE.
SPECIFICATION Spec
CONSTANTS
    t1 = t1
    t2 = t2
    Posters = {t1, t2}
    Pump = pump
    NoThread = none
    Calls <- CallsMixed
    UsesIOCP = TRUE
    TimeoutFires = TRUE
    CanClose = TRUE
    CanFlush = FALSE
    SelfPosts = TRUE
    SelfSignals = FALSE
    MaxLive = 1
    MaxPumpBatch = 1
    BatchSize = 2
    MaxSend = 2
    MaxSig = 2
    MaxQue = 1
    MaxPit = 1
    MaxIo = 1
INVARIANT NoLostWake
INVARIANT FifoSerialised
INVARIANT LiveLedger
INVARIANT SignalSafe
\* Once the pump is deleted nothing more happens.
CHECK_DEADLOCK FALSE
