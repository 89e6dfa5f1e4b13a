SPECIFICATION FairSpec
CONSTANTS
    Forwarders = {F}
    PreambleLength = 2
    Base = 2
    NameLength = 2
    TimerLength = 1
    ForwardLengths = {1}
    MaxFrames <- FewFrames
INVARIANTS TypeOK FramesArriveWhole StaysInStep
PROPERTIES StatusGetsAnswer
CHECK_DEADLOCK FALSE
