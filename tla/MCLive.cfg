SPECIFICATION LiveSpec
CONSTANTS
    Reader = {t1, t2}
    Writer = {t3}
    Byte = {a}
    NoHolder = NoHolder
    PIPESIZE = 2
    UINT = 4
    Sizes = {3}
    Killable = {}

    IOProc = {t1, t2}
    NoProc = NoProc
    NUM = 4
    UINT16 = 8
    FirstIdx = 0
    MaxRequests = 0

    CReader = {t1}
    CWriter = {t2, t3}
    Handler = Handler
    NoTx = NoTx
    Key = {"x", "nl"}
    INPUT_BUF_SIZE = 3
    UART_TX_BUF_SIZE = 2
    CUINT = 6
    TXFIFO = 2
    RXFIFO = 1
    Start = 4
    ReadSize = 2
    WriteSize = 2
    CKillable = {}
    Budgets <- LiveBudgets

    Sleeper = {t1, t2}
    Naps = {2}
    TUINT = 4
    TKillable = {t1}
    MaxTicks = 3

    FProc = {1, 2, 3, 4, 5}
    NFILE = 5
    NOFILE = 5
    NPIPE = 2
    Commands <- MCCommands
    MaxLines = 1
INVARIANTS
    CommandsGetTheirFiles
PROPERTIES
    SleepsLongEnough
    CallsReturn
    PromptComesBack
CHECK_DEADLOCK FALSE
