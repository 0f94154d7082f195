------------------------------ MODULE Console -------------------------------
(***************************************************************************)
(* The console and the serial line: line editing and the input ring of     *)
(* kernel/console.c, the output ring of kernel/uart.c, and the handler     *)
(* uartintr, which serves both.  The UART is modelled from how uart.c uses *)
(* it: a queue of bytes to send, LSR_TX_IDLE when it is empty, a queue of  *)
(* typed bytes, an interrupt when a byte arrives or the queue empties, and *)
(* no second interrupt until the first is complete (devintr, plic).        *)
(*                                                                         *)
(* A section under cons.lock or uart_tx_lock is one action, except for two *)
(* that look at the UART: the loop of uartstart, under uart_tx_lock, and   *)
(* the echo, in which consoleintr spins with cons.lock but without         *)
(* uart_tx_lock, so that the two race for the UART.                        *)
(***************************************************************************)
EXTENDS Integers, Sequences, FiniteSets, FiniteSetsExt
LOCAL INSTANCE SequencesExt

CONSTANTS CReader, CWriter,      \* processes in consoleread and consolewrite
          Handler, NoTx,         \* uartintr, and nobody, as owners of a lock
          Key,                   \* what can be typed: "x", "nl", "^D", "^H", "^U"
          INPUT_BUF_SIZE, UART_TX_BUF_SIZE,
          CUINT,                 \* 2^32 or 2^64: the ring indices wrap
          TXFIFO, RXFIFO,        \* bytes the UART can queue for sending, and typed
          Start,                 \* where the indices are when the run starts
          ReadSize, WriteSize,   \* the n of read and write
          CKillable,             \* the processes that may be killed
          Budgets                \* bounds: how many keys, reads and writes

ASSUME ConsoleAssumption ==
    /\ CUINT % INPUT_BUF_SIZE = 0 /\ CUINT % UART_TX_BUF_SIZE = 0
    /\ CUINT > INPUT_BUF_SIZE /\ CUINT > UART_TX_BUF_SIZE

VARIABLES
    cbuf, cr, cw, ce,      \* cons.buf, cons.r, cons.w, cons.e
    keys, delivered,       \* history: the keys accepted, the bytes consumed
    tx, txw, txr, txlock,  \* uart_tx_buf, uart_tx_w, uart_tx_r, uart_tx_lock
    sent,                  \* history: how many bytes of a writer uartstart took
    fifo, rx, irq,         \* the UART: to be sent, typed, interrupt pending
    hpc, hkey,             \* the handler: where it is, and the c of consoleintr
    cpc, left,             \* a process: where it is, what is left to do
    cchan, ckilled,        \* what it sleeps on; who is killed
    budget                 \* how many keys, reads and writes are still to come

invars == <<cbuf, cr, cw, ce, keys, delivered>>
outvars == <<tx, txw, txr, txlock, sent>>
uart == <<fifo, rx, irq>>
conprocs == <<cpc, left, cchan, ckilled, budget>>
convars == <<invars, outvars, uart, hpc, hkey, conprocs>>

CProc == CReader \cup CWriter

(* The rings are empty; Start bytes have gone through each. *)
ConsoleInit ==
    /\ cbuf = [k \in 0 .. INPUT_BUF_SIZE - 1 |-> "x"] 
    /\ cr = Start /\ cw = Start /\ ce = Start
    /\ keys = << >> /\ delivered = << >>
    /\ tx = [k \in 0 .. UART_TX_BUF_SIZE - 1 |-> << >>] 
    /\ txw = Start /\ txr = Start
    /\ txlock = NoTx
    /\ sent = [p \in CWriter |-> WriteSize]
    /\ fifo = 0 /\ rx = << >> /\ irq = FALSE
    /\ hpc = "none" /\ hkey = "x"
    /\ cpc = [p \in CProc |-> "user"] /\ left = [p \in CProc |-> 0]
    /\ cchan = [p \in CProc |-> "none"] /\ ckilled = {}
    /\ budget \in Budgets

Dist(a, b) == (b - a) % CUINT      \* b - a, in unsigned arithmetic
ConsLock == hpc \in {"echo", "put"}   \* the handler holds cons.lock
Runs(p, l) == cpc[p] = l /\ cchan[p] = "none"
ConGoto(p, l) == cpc' = [cpc EXCEPT ![p] = l]
Wake(c) == [p \in CProc |-> IF cchan[p] = c THEN "none" ELSE cchan[p]]

(* The bytes of the input ring from index a up to b. *)
Input(a, b) == [k \in 1 .. Dist(a, b) |-> cbuf[((a + k - 1) % CUINT) % INPUT_BUF_SIZE]]

-----------------------------------------------------------------------------
(* consolewrite and uartputc. *)
TxFull == txw = (txr + UART_TX_BUF_SIZE) % CUINT

consolewrite(p) ==
    /\ cpc[p] = "user" /\ p \in CWriter /\ budget.writes > 0
    /\ budget' = [budget EXCEPT !.writes = @ - 1]
    /\ left' = [left EXCEPT ![p] = WriteSize]
    /\ ConGoto(p, "putc")
    /\ UNCHANGED <<invars, outvars, uart, hpc, hkey, cchan, ckilled>>

(* uartputc: no room, sleep. *)
uartputc_full(p) ==
    /\ Runs(p, "putc") /\ txlock = NoTx
    /\ TxFull
    /\ cchan' = [cchan EXCEPT ![p] = "tx"]
    /\ UNCHANGED <<invars, outvars, uart, hpc, hkey, cpc, left, ckilled, budget>>

(* Variant: the process, once woken, takes it that there is room. *)
TxRoom_any(p) == TRUE

TxRoom(p) == ~TxFull

(* Variant: the byte is left to the next interrupt. *)
uartputc_quiet(p) ==
    /\ Runs(p, "putc") /\ txlock = NoTx
    /\ TxRoom(p)
    /\ tx' = [tx EXCEPT ![txw % UART_TX_BUF_SIZE] = <<p, WriteSize - left[p] + 1>>]
    /\ txw' = (txw + 1) % CUINT
    /\ left' = [left EXCEPT ![p] = @ - 1]
    /\ ConGoto(p, IF left[p] = 1 THEN "user" ELSE "putc")
    /\ UNCHANGED <<invars, txr, txlock, sent, uart, hpc, hkey, cchan, ckilled, budget>>

(* uartputc: put the byte in the ring, go on to uartstart. *)
uartputc(p) ==
    /\ Runs(p, "putc") /\ txlock = NoTx
    /\ TxRoom(p)
    /\ tx' = [tx EXCEPT ![txw % UART_TX_BUF_SIZE] = <<p, WriteSize - left[p] + 1>>]
    /\ txw' = (txw + 1) % CUINT
    /\ txlock' = p
    /\ UNCHANGED <<invars, txr, sent, uart, hpc, hkey, conprocs>>

TxWake == Wake("tx")

(* uartstart, one turn: the UART is idle and a byte waits, so send it. *)
uartstart_send ==
    LET b == tx[txr % UART_TX_BUF_SIZE] IN
    /\ txlock # NoTx
    /\ txw # txr /\ fifo = 0
    /\ txr' = (txr + 1) % CUINT
    /\ sent' = [sent EXCEPT ![b[1]] = b[2]]
    /\ fifo' = 1
    /\ cchan' = TxWake
    /\ UNCHANGED <<invars, tx, txw, txlock, rx, irq, hpc, hkey, cpc, left, ckilled,
                   budget>>

(* uartstart returns, uart_tx_lock is released, and the caller goes on. *)
uartstart_return ==
    /\ txlock # NoTx
    /\ txw = txr \/ fifo # 0
    /\ txlock' = NoTx
    /\ IF txlock = Handler
       THEN hpc' = "none" /\ UNCHANGED <<left, cpc>>
       ELSE /\ left' = [left EXCEPT ![txlock] = @ - 1]
            /\ ConGoto(txlock, IF left[txlock] = 1 THEN "user" ELSE "putc")
            /\ UNCHANGED hpc
    /\ UNCHANGED <<invars, tx, txw, txr, sent, uart, hkey, cchan, ckilled, budget>>

-----------------------------------------------------------------------------
(* uartintr: acknowledge, and look for input. *)
uartintr ==
    /\ hpc = "none" /\ irq
    /\ irq' = FALSE
    /\ hpc' = "getc"
    /\ UNCHANGED <<invars, outvars, fifo, rx, hkey, conprocs>>

(* Variant: a finished line can be erased too. *)
Acts_any(c) == c \in {"^H", "^U"} \/ Dist(cr, ce) < INPUT_BUF_SIZE

(* consoleintr(c) changes the line: there is something to erase, or room. *)
Acts(c) == IF c \in {"^H", "^U"} THEN ce # cw ELSE Dist(cr, ce) < INPUT_BUF_SIZE

(* uartgetc returns a byte.  consoleintr drops it, or starts to echo it. *)
uartgetc ==
    /\ hpc = "getc" /\ rx # << >>
    /\ hkey' = Head(rx)
    /\ rx' = Tail(rx)
    /\ hpc' = IF Acts(Head(rx)) THEN "echo" ELSE "getc"
    /\ keys' = IF Acts(Head(rx)) THEN Append(keys, Head(rx)) ELSE keys
    /\ UNCHANGED <<cbuf, cr, cw, ce, delivered, outvars, fifo, irq, conprocs>>

(* There is no more input: acquire uart_tx_lock for uartstart. *)
uartintr_output ==
    /\ hpc = "getc" /\ rx = << >> /\ txlock = NoTx
    /\ hpc' = "start"
    /\ txlock' = Handler
    /\ UNCHANGED <<invars, tx, txw, txr, sent, uart, hkey, conprocs>>

SeesIdle == fifo = 0

(* uartputc_sync: the UART is seen to be idle. *)
uartputc_sync ==
    /\ hpc = "echo" /\ SeesIdle
    /\ hpc' = "put"
    /\ UNCHANGED <<invars, outvars, uart, hkey, conprocs>>

(* The line is handed to consoleread. *)
LineEnds(c, e) == c \in {"nl", "^D"} \/ Dist(cr, e) = INPUT_BUF_SIZE

LineWake == Wake("line")

(* uartputc_sync writes the byte; then the rest of consoleintr.  The kill  *)
(* character does so for every byte it erases.                             *)
consoleintr ==
    /\ hpc = "put"
    /\ fifo' = fifo + 1
    /\ IF hkey \in {"^H", "^U"}
       THEN /\ ce' = (ce - 1) % CUINT
            /\ hpc' = IF hkey = "^U" /\ ce' # cw THEN "echo" ELSE "getc"
            /\ UNCHANGED <<cbuf, cw, cchan>>
       ELSE /\ cbuf' = [cbuf EXCEPT ![ce % INPUT_BUF_SIZE] = hkey]
            /\ ce' = (ce + 1) % CUINT
            /\ IF LineEnds(hkey, ce')
               THEN cw' = ce' /\ cchan' = LineWake
               ELSE UNCHANGED <<cw, cchan>>
            /\ hpc' = "getc"
    /\ keys' = IF hkey = "x" /\ cw' # cw THEN Append(keys, "full") ELSE keys
    /\ UNCHANGED <<cr, delivered, outvars, rx, irq, hkey, cpc, left, ckilled,
                   budget>>

-----------------------------------------------------------------------------
consoleread(p) ==
    /\ cpc[p] = "user" /\ p \in CReader \ ckilled /\ budget.reads > 0
    /\ budget' = [budget EXCEPT !.reads = @ - 1]
    /\ left' = [left EXCEPT ![p] = ReadSize]
    /\ ConGoto(p, "read")
    /\ UNCHANGED <<invars, outvars, uart, hpc, hkey, cchan, ckilled>>

(* consoleread: there is nothing (more) to read.  Sleep, unless killed. *)
Await(p) ==
    IF p \in ckilled
    THEN ConGoto(p, "user") /\ UNCHANGED cchan
    ELSE cchan' = [cchan EXCEPT ![p] = "line"] /\ UNCHANGED cpc

(* consoleread keeps a ^D that ends a line for the next read. *)
SavesEOF(c, n) == c = "^D" /\ n < ReadSize

(* consoleread, from acquire, or from the end of sleep, up to the next     *)
(* sleep or to the return: bytes up to a newline, a ^D, or left[p].        *)
consoleread_loop(p) ==
    LET av == Input(cr, cw)
        stops == {k \in 1 .. Len(av) : av[k] \in {"nl", "^D"} \/ k = left[p]}
        e == IF stops = {} THEN Len(av) ELSE Min(stops)
        k == IF e > 0 /\ SavesEOF(av[e], left[p] - (e - 1)) THEN e - 1 ELSE e
    IN
    /\ Runs(p, "read") /\ ~ConsLock
    /\ cr' = (cr + k) % CUINT
    /\ delivered' = delivered \o SubSeq(av, 1, k)
    /\ left' = [left EXCEPT ![p] = @ - k]
    /\ IF stops = {} THEN Await(p) ELSE ConGoto(p, "user") /\ UNCHANGED cchan
    /\ UNCHANGED <<cbuf, cw, ce, keys, outvars, uart, hpc, hkey, ckilled, budget>>

ConKill(p) ==
    /\ p \in CKillable \ ckilled /\ cpc[p] # "user"
    /\ ckilled' = ckilled \cup {p}
    /\ cchan' = [cchan EXCEPT ![p] = "none"]
    /\ UNCHANGED <<invars, outvars, uart, hpc, hkey, cpc, left, budget>>

-----------------------------------------------------------------------------
(* The UART: a key is typed, a byte is sent. *)
Type(c) ==
    /\ budget.keys > 0 /\ Len(rx) < RXFIFO
    /\ budget' = [budget EXCEPT !.keys = @ - 1]
    /\ rx' = Append(rx, c)
    /\ irq' = TRUE
    /\ UNCHANGED <<invars, outvars, fifo, hpc, hkey, cpc, left, cchan, ckilled>>

Transmit ==
    /\ fifo > 0
    /\ fifo' = fifo - 1
    /\ irq' = (irq \/ fifo = 1)
    /\ UNCHANGED <<invars, outvars, rx, hpc, hkey, conprocs>>

Interrupt == uartintr \/ uartgetc \/ uartintr_output \/ consoleintr
ConStep(p) == \/ p \in CWriter /\ (uartputc_full(p) \/ uartputc(p))
              \/ p \in CReader /\ consoleread_loop(p)
TxStep == uartstart_send \/ uartstart_return

(* Nothing more is typed or written. *)
ConsoleQuiet == budget.keys + budget.writes = 0 /\ UNCHANGED convars

ConsoleNext ==
    \/ \E p \in CProc : consoleread(p) \/ consolewrite(p) \/ ConStep(p) \/ ConKill(p)
    \/ TxStep \/ Interrupt \/ uartputc_sync
    \/ Transmit \/ \E c \in Key : Type(c)
    \/ ConsoleQuiet

ConsoleSpec == ConsoleInit /\ [][ConsoleNext]_convars

-----------------------------------------------------------------------------
(* The rings, the UART and the processes have their types. *)
ConsoleTypeOK ==
    /\ cbuf \in [0 .. INPUT_BUF_SIZE - 1 -> Key]
    /\ {cr, cw, ce, txw, txr} \subseteq 0 .. CUINT - 1
    /\ sent \in [CWriter -> 1 .. WriteSize]
    /\ fifo \in 0 .. TXFIFO /\ rx \in Seq(Key) /\ irq \in BOOLEAN
    /\ hpc \in {"none", "getc", "echo", "put", "start"} /\ hkey \in Key
    /\ txlock \in CWriter \cup {Handler, NoTx}
    /\ cpc \in [CProc -> {"user", "putc", "read"}]
    /\ cchan \in [CProc -> {"none", "tx", "line"}]

(* The keys taken so far, edited by the book: the finished lines, and the  *)
(* line being typed.  "full" ends a line that fills the buffer.            *)
Edited ==
    LET key(ed, c) ==
            CASE c = "^U" -> [ed EXCEPT !.line = << >>]
              [] c = "^H" -> [ed EXCEPT !.line = SubSeq(@, 1, Len(@) - 1)]
              [] c = "x" -> [ed EXCEPT !.line = Append(@, c)]
              [] c = "full" -> [done |-> ed.done \o ed.line, line |-> << >>]
              [] OTHER -> [done |-> Append(ed.done \o ed.line, c), line |-> << >>]
    IN FoldLeft(key, [done |-> << >>, line |-> << >>], keys)

(* Reads get the finished lines as typed and edited, no byte lost or read  *)
(* twice and no unfinished line, while input wraps around the ring, the    *)
(* buffer fills up, and end-of-file waits for the next read.               *)
ReadsEditedLines ==
    ~ConsLock => /\ Edited.done = delivered \o Input(cr, cw)
                 /\ Edited.line = Input(cw, ce)

(* While cons.lock is free, a reader sleeps only if there is no finished   *)
(* line: neither the wakeup of consoleintr nor that of a full buffer is    *)
(* missed.                                                                 *)
ReadersSleepOnlyWithoutLine ==
    ~ConsLock /\ (\E p \in CReader : cchan[p] = "line") => cr = cw

(* The bytes of p in the output ring. *)
InRing(p) == SelectSeq([k \in 1 .. Dist(txr, txw) |->
                            tx[((txr + k - 1) % CUINT) % UART_TX_BUF_SIZE]],
                       LAMBDA b : b[1] = p)

(* The bytes of a write reach the UART in order, none lost and none twice: *)
(* those in the ring are the ones between the last sent and the last put.  *)
OutputInOrder ==
    \A p \in CWriter :
        LET s == InRing(p)
            put == WriteSize - left[p] + (IF txlock = p THEN 1 ELSE 0)
        IN /\ \A k \in 1 .. Len(s) : s[k][2] = ((sent[p] + k - 1) % WriteSize) + 1
           /\ (sent[p] + Len(s)) % WriteSize = put % WriteSize

(* While bytes wait in the output ring and nobody is in uartstart, the     *)
(* UART is busy, and will interrupt, or it has, or its handler, which ends *)
(* with uartstart, is running: output never stalls.                        *)
OutputNeverStalls ==
    txlock = NoTx /\ txw # txr => fifo > 0 \/ irq \/ hpc # "none"

(* While uart_tx_lock is free, a writer sleeps only if the ring is full. *)
WritersSleepOnlyIfTxFull ==
    txlock = NoTx /\ (\E p \in CWriter : cchan[p] = "tx") => TxFull

(* A write to the console ends, however full the ring and busy the UART,   *)
(* and a reader gets the finished line it waits for.                       *)
ConsoleCallsEnd ==
    /\ \A p \in CWriter : cpc[p] = "putc" ~> cpc[p] = "user"
    /\ \A p \in CReader : cpc[p] = "read" /\ cr # cw ~> cpc[p] = "user" \/ cr = cw

(* console.c and uart.c: whoever waits has a reason to: a reader has no    *)
(* finished line, a writer has a full ring, and characters left in the     *)
(* ring have an interrupt or a caller that will send them.                 *)
ConsoleNeverStalls ==
    /\ ConsoleTypeOK /\ ReadersSleepOnlyWithoutLine
    /\ OutputNeverStalls /\ WritersSleepOnlyIfTxFull
=============================================================================
