SPECIFICATION PipeSpec
CONSTANTS
    Reader = {r1}
    Writer = {w1, w2}
    Byte = {a}
    NoHolder = NoHolder
    PIPESIZE = 2
    UINT = 4
    Sizes = {1, 3}
    Killable = {w1}
INVARIANTS
    ReadersSleepOnlyIfEmpty
