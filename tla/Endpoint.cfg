\* Two sources on the allow-list, two slots, one of them for each source; two calls of the application.
SPECIFICATION Spec
CONSTANTS
    Modes <- BothModes
    Sources = {s1, s2}
    Unnamed = Unnamed
    Barred = {Unnamed}
    Children = {k1, k2}
    None = None
    Fresh = Fresh
    MaxAccepted = 2
    MaxPerSource = 1
    MaxCalls = 2
INVARIANT NeverForgotten
INVARIANT AdmissionHolds
PROPERTY ComesBack
PROPERTY SlotsReturn
CHECK_DEADLOCK FALSE
