CONSTANTS
    lightOn = lightOn
    lightOff = lightOff
    east = east
    pollOne = pollOne
    leave = leave
    quit = quit
    setTime = setTime
    light = light
    eastLight = eastLight
    Commands = {lightOn, lightOff, setTime, pollOne, quit}
    KindOf <- MCKindOf
    TextOf <- MCTextOf
    Outputs <- OneOutput
    EastLight = eastLight
    Layouts <- FirstLayout
    StaleTexts = {"other"}
    QueueLimit = 2
    MaxRestarts = 0
SPECIFICATION FairSpec
CHECK_DEADLOCK FALSE
PROPERTIES StatusIsAnswered
