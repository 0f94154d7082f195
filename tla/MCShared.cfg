SPECIFICATION SharedSpec
CONSTANTS
    Proc = {p1, p2}
    Buf = {b1, b2}
    Block = {k1, k2, k3}
    Value = {v1, v2}
    Nobody = Nobody

    IOProc = {q1, q2, q3}
    NoProc = NoProc
    NUM = 6
    UINT16 = 12
    FirstIdx = 10
    MaxRequests = 4

    CReader = {cr1}
    CWriter = {cw1, cw2}
    Handler = Handler
    NoTx = NoTx
    Key = {"x", "nl", "^D", "^H", "^U"}
    INPUT_BUF_SIZE = 3
    UART_TX_BUF_SIZE = 2
    CUINT = 6
    TXFIFO = 2
    RXFIFO = 1
    Start = 4
    ReadSize = 2
    WriteSize = 3
    CKillable = {cr1}
    Budgets <- MCBudgets

    Reader = {r1, r2}
    Writer = {w1, w2}
    Byte = {a, b}
    NoHolder = NoHolder
    PIPESIZE = 2
    UINT = 4
    Sizes = {2}
    Killable = {r1}
INVARIANTS
    KeepsItsBlock
    ReadsAreCurrent
    RingsAreSound
    
    OutputInOrder
    ConsoleNeverStalls
    NoLostPipeWakeup
    FreedByTheLastClose
PROPERTIES
    DoneMeansServed
    ImplementsFifo
