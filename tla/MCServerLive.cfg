SPECIFICATION FairSpec
CONSTANTS
    w1 = w1 a1 = a1 a2 = a2 b1 = b1
    NoConn = NoConn Timer = Timer Tester = Tester Acceptor = Acceptor
    Conns = {a1, b1}
    MaxThreads <- MCMaxThreads
    ClientOf <- MCClientOf
    DestOf <- MCDestOf
    WinConns <- MCWinConns
    Names <- MCNames
    NoName = "none"
    CutName = "cut"
    LongNamed = {}
    PastNames = {"garbage"}
    TesterName = "A"
    Commands = {}
    MaxCommands = 0
    Failures = {"silent"}
    MaxUnread = 2
    Prompt = TRUE
PROPERTIES CountedAreAsked DeadAreLoggedOff
CHECK_DEADLOCK FALSE
