SPECIFICATION Spec
CONSTANTS
    w1 = w1 a1 = a1 a2 = a2 b1 = b1
    NoConn = NoConn Timer = Timer Tester = Tester Acceptor = Acceptor
    Conns = {w1, a1}
    MaxThreads <- MCMaxThreads
    ClientOf <- MCClientOf
    DestOf <- MCDestOf
    WinConns <- MCWinConns
    Names <- MCNames
    NoName = "none"
    CutName = "cut"
    LongNamed = {a1}
    PastNames = {"garbage"}
    TesterName = "A"
    Commands = {"route", "list", "disconnect", "disconnect_all"}
    MaxCommands = 1
    Failures = {}
    MaxUnread = 2
    Prompt = TRUE
INVARIANTS TypeOK GetDestFinds SlotsOwnSockets LiveWithinCount
CHECK_DEADLOCK FALSE
