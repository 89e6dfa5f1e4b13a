CONSTANTS
    lightOn = lightOn
    lightOff = lightOff
    east = east
    pollOne = pollOne
    leave = leave
    quit = quit
    setTime = setTime
    light = light
    eastLight = eastLight
    Commands = {lightOn, lightOff, pollOne, leave, quit}
    KindOf <- MCKindOf
    TextOf <- MCTextOf
    Outputs <- OneOutput
    EastLight = eastLight
    Layouts <- MCLayouts
    StaleTexts = {"ON", "other"}
    QueueLimit = 2
    MaxRestarts = 1
SPECIFICATION FairSpec
CHECK_DEADLOCK FALSE
INVARIANTS TypeOK AtMostOnce
PROPERTIES KeepsReading CloseReachesBoth
