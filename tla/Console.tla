------------------------------ MODULE Console -------------------------------
(***************************************************************************)
(* The console: the line discipline of console.c and the UART driver of    *)
(* uart.c, with the interrupt handler, processes that read and write the   *)
(* console, and kernel code that calls printf().                           *)
(*                                                                         *)
(* A section that runs under a spin lock is one step unless it waits or    *)
(* touches the device, which other CPUs reach without the lock:            *)
(* uartputc_sync() tests and writes the UART in two steps and does not     *)
(* take tx_lock.  The interrupt handler runs on one CPU at a time, because *)
(* the PLIC holds back a second UART interrupt until plic_complete().      *)
(***************************************************************************)
EXTENDS Integers, Sequences, FiniteSets, TLC, SequencesExt, FiniteSetsExt

CONSTANTS
    Reader, Writer,    \* processes that read and that write the console
    INPUT_BUF_SIZE,    \* characters in cons.buf
    UINT,              \* cons.r, cons.w and cons.e count modulo this
    Typed,             \* the keys
    RXFIFO,            \* bound: characters waiting in the UART
    Workloads,         \* bounds: who reads and writes, which keys are typed and
                       \* how many, and how many bytes the kernel prints
    BUF,               \* bytes of consolewrite()'s buffer (32)
    WLEN,              \* bytes in a write()
    RLEN,              \* the sizes of read()s
    Handler, NoProc    \* the interrupt handler, and nobody

ASSUME ConsoleAssumption ==
    /\ {INPUT_BUF_SIZE, UINT, BUF, WLEN} \subseteq Nat \ {0}
    /\ UINT % INPUT_BUF_SIZE = 0 /\ UINT > INPUT_BUF_SIZE

VARIABLES
    load,              \* the workload of this behaviour
    buf, r, w, e,      \* cons
    conslock,          \* who holds cons.lock
    prlock,            \* who holds pr.lock
    typed,             \* how many characters were typed
    rx,                \* characters received and not yet read from RHR
    fifo,              \* bytes in the transmit FIFO
    thre,              \* a transmit interrupt is pending
    tx_busy,           \* uart.c
    handler,           \* the interrupt handler: step, character, echo left
    printer,           \* a kernel thread in printf(): its step, bytes printed
    reader,            \* each reader: step, bytes left, bytes asked for
    killed,            \* the readers that have been killed
    writer             \* each writer: step, consolewrite()'s i, uartwrite()'s i

cons == <<buf, r, w, e>>
uart == <<typed, rx, fifo, thre, tx_busy>>
vars == <<load, cons, conslock, prlock, uart, handler, printer, reader, killed, writer>>

Idle == [step |-> "idle", c |-> "nul", out |-> 0]
NotReading == [step |-> "idle", n |-> 0, target |-> 0]

Init ==
    /\ load \in Workloads
    /\ buf = [i \in 0 .. INPUT_BUF_SIZE - 1 |-> "nul"]
    /\ r = 0 /\ w = 0 /\ e = 0
    /\ conslock = NoProc /\ prlock = NoProc
    /\ typed = 0 /\ rx = <<>> /\ fifo = <<>> /\ thre = FALSE /\ tx_busy = 0
    /\ handler = Idle
    /\ printer = [step |-> "idle", n |-> 0]
    /\ reader = [p \in Reader |-> NotReading]
    /\ killed = {}
    /\ writer = [p \in Writer |-> [step |-> "idle", i |-> 0, j |-> 0]]

-----------------------------------------------------------------------------
(* The UART *)

LSR_TX_IDLE == fifo = <<>>

\* A byte leaves the transmit FIFO; when the last one does, the UART raises
\* an interrupt.
Transmit ==
    /\ fifo # <<>>
    /\ fifo' = Tail(fifo)
    /\ thre' = (Tail(fifo) = <<>>)
    /\ UNCHANGED <<cons, conslock, prlock, typed, rx, tx_busy, handler, printer, reader, killed, writer>>

Receive(c) ==
    /\ Len(rx) < RXFIFO /\ typed < load.typed
    /\ typed' = typed + 1
    /\ rx' = Append(rx, c)
    /\ UNCHANGED <<cons, conslock, prlock, fifo, thre, tx_busy, handler, printer, reader,
                   killed, writer>>

\* A store to THR, which also withdraws a pending transmit interrupt.
WriteTHR(byte) == fifo' = Append(fifo, byte) /\ thre' = FALSE

-----------------------------------------------------------------------------
(* uartintr() and consoleintr() *)

\* The interrupt is claimed and ISR is read, which acknowledges a transmit
\* interrupt unless received characters are reported first.
UartIntr ==
    /\ handler.step = "idle"
    /\ thre \/ rx # <<>>
    /\ thre' = (thre /\ rx # <<>>)
    /\ handler' = [Idle EXCEPT !.step = "tx"]
    /\ UNCHANGED <<cons, conslock, prlock, typed, rx, fifo, tx_busy, printer, reader, killed,
                   writer>>

\* wakeup(&tx_chan)
WakeWriters ==
    writer' = [p \in Writer |->
                 IF writer[p].step = "asleep" THEN [writer[p] EXCEPT !.step = "uart"]
                 ELSE writer[p]]

\* Mutant: without wakeup(&tx_chan).
TxDoneSilent ==
    /\ handler.step = "tx"
    /\ tx_busy' = IF LSR_TX_IDLE THEN 0 ELSE tx_busy
    /\ handler' = [handler EXCEPT !.step = "rx"]
    /\ UNCHANGED <<cons, conslock, prlock, typed, rx, fifo, thre, printer, reader, killed, writer>>

\* The section under tx_lock.
TxDone ==
    /\ handler.step = "tx"
    /\ IF LSR_TX_IDLE THEN tx_busy' = 0 /\ WakeWriters ELSE UNCHANGED <<tx_busy, writer>>
    /\ handler' = [handler EXCEPT !.step = "rx"]
    /\ UNCHANGED <<cons, conslock, prlock, typed, rx, fifo, thre, printer, reader, killed>>

\* uartgetc() finds nothing more: the handler returns.
IntrReturn ==
    /\ handler.step = "rx"
    /\ rx = <<>>
    /\ handler' = Idle
    /\ UNCHANGED <<cons, conslock, prlock, uart, printer, reader, killed, writer>>

Unread == (e - r) % UINT
Editable == (e - w) % UINT
At(i) == buf[i % INPUT_BUF_SIZE]

\* The characters ^U erases: back to the end of the previous line.
KillCount ==
    Min({k \in 0 .. Editable :
            k = Editable \/ At((e - k - 1) % UINT) = "nl"})

Accepts(c) == c # "nul" /\ Unread < INPUT_BUF_SIZE

\* How many bytes consoleintr(c) echoes: three for each erased character.
EchoCount(c) ==
    CASE c = "kill" -> 3 * KillCount
      [] c = "bs"   -> IF e # w THEN 3 ELSE 0
      [] c = "dump" -> 1
      [] OTHER      -> IF Accepts(c) THEN 1 ELSE 0

\* uartgetc() returns a character and consoleintr() takes cons.lock.
ConsoleIntr ==
    /\ handler.step = "rx"
    /\ rx # <<>>
    /\ conslock = NoProc
    /\ conslock' = Handler
    /\ rx' = Tail(rx)
    /\ handler' = [step |-> IF Head(rx) = "dump" THEN "dump" ELSE "echo",
                   c |-> Head(rx), out |-> EchoCount(Head(rx))]
    /\ UNCHANGED <<cons, prlock, typed, fifo, thre, tx_busy, printer, reader, killed, writer>>

\* procdump() calls printf(), which takes pr.lock.
ProcDump ==
    /\ handler.step = "dump"
    /\ prlock = NoProc
    /\ prlock' = Handler
    /\ handler' = [handler EXCEPT !.step = "echo"]
    /\ UNCHANGED <<cons, conslock, uart, printer, reader, killed, writer>>

\* uartputc_sync() for an echoed byte: the test of LSR, then the store.
EchoWait ==
    /\ handler.step = "echo" /\ handler.out > 0
    /\ LSR_TX_IDLE
    /\ handler' = [handler EXCEPT !.step = "put"]
    /\ UNCHANGED <<cons, conslock, prlock, uart, printer, reader, killed, writer>>

EchoPut ==
    /\ handler.step = "put"
    /\ WriteTHR(Handler)
    /\ handler' = [handler EXCEPT !.step = "echo", !.out = @ - 1]
    /\ UNCHANGED <<cons, conslock, prlock, typed, rx, tx_busy, printer, reader, killed, writer>>

\* wakeup(&cons.r)
WakeReaders ==
    reader' = [p \in Reader |->
                 IF reader[p].step = "asleep" THEN [reader[p] EXCEPT !.step = "read"]
                 ELSE reader[p]]

\* c = (c == '\r') ? '\n' : c
Translate(key) == IF key = "cr" THEN "nl" ELSE key

\* After c is stored the input up to it is complete.
\* Mutant: not when the buffer is full.
CompletesAtEndOnly(c) == c \in {"nl", "eof"}
Completes(c) == c \in {"nl", "eof"} \/ (e + 1 - r) % UINT = INPUT_BUF_SIZE

\* cons.w = cons.e; wakeup(&cons.r)
\* Mutant: without the wakeup.
HandOverSilent == w' = (e + 1) % UINT /\ UNCHANGED reader
HandOver == w' = (e + 1) % UINT /\ WakeReaders

\* cons.buf[cons.e++ % INPUT_BUF_SIZE] = c
Store(key) ==
    LET c == Translate(key)
    IN  /\ buf' = [buf EXCEPT ![e % INPUT_BUF_SIZE] = c]
        /\ e' = (e + 1) % UINT
        /\ IF Completes(c) THEN HandOver ELSE UNCHANGED <<w, reader>>
        /\ UNCHANGED r

Edit(erased) == e' = (e - erased) % UINT /\ UNCHANGED <<buf, r, w, reader>>

\* The rest of consoleintr(): the buffer changes and cons.lock is released.
ConsoleIntrEnd ==
    /\ handler.step = "echo" /\ handler.out = 0
    /\ CASE handler.c = "kill" -> Edit(KillCount)
         [] handler.c = "bs" -> Edit(IF e # w THEN 1 ELSE 0)
         [] handler.c = "dump" -> Edit(0)
         [] OTHER -> IF Accepts(handler.c) THEN Store(handler.c) ELSE Edit(0)
    /\ conslock' = NoProc
    /\ prlock' = IF prlock = Handler THEN NoProc ELSE prlock
    /\ handler' = [Idle EXCEPT !.step = "rx"]
    /\ UNCHANGED <<uart, printer, killed, writer>>

-----------------------------------------------------------------------------
(* consoleread() *)

StartRead(p, n) ==
    /\ reader[p].step = "idle" /\ p \notin killed
    /\ reader' = [reader EXCEPT ![p] = [step |-> "read", n |-> n, target |-> n]]
    /\ UNCHANGED <<cons, conslock, prlock, uart, handler, printer, killed, writer>>

Available == (w - r) % UINT
Input(k) == At((r + k - 1) % UINT)

\* The read ends at its k-th character: the end of a line, a ^D, the last
\* byte asked for, or one that either_copyout() fails to store (fault).
StopsAt(p, k, fault) ==
    /\ \A j \in 1 .. k - 1 : Input(j) \notin {"nl", "eof"} /\ j < reader[p].n
    /\ Input(k) \in {"nl", "eof"} \/ k = reader[p].n \/ fault

\* What a read that ends at character k leaves in cons.r: a ^D that is not
\* the first character stays for the next call.
ReadEnd(p, k) ==
    IF Input(k) = "eof" /\ reader[p].n - (k - 1) < reader[p].target
    THEN (r + k - 1) % UINT
    ELSE (r + k) % UINT

ReadReturns(p, k, fault) ==
    /\ reader[p].step = "read"
    /\ conslock = NoProc
    /\ k <= Available
    /\ StopsAt(p, k, fault)
    /\ r' = ReadEnd(p, k)
    /\ reader' = [reader EXCEPT ![p] = NotReading]
    /\ UNCHANGED <<buf, w, e, conslock, prlock, uart, handler, printer, killed, writer>>

\* All there is has been read and it is not enough: a killed reader returns,
\* any other one goes to sleep.
ReadMore(p) ==
    /\ reader[p].step = "read"
    /\ conslock = NoProc
    /\ \A k \in 1 .. Available : ~StopsAt(p, k, FALSE)
    /\ r' = w
    /\ IF p \in killed
       THEN /\ reader' = [reader EXCEPT ![p] = NotReading]
            /\ UNCHANGED conslock
       ELSE /\ reader' = [reader EXCEPT ![p].step = "sleep", ![p].n = @ - Available]
            /\ conslock' = p
    /\ UNCHANGED <<buf, w, e, prlock, uart, handler, printer, killed, writer>>

\* sleep(&cons.r, &cons.lock)
ReadSleep(p) ==
    /\ reader[p].step = "sleep"
    /\ reader' = [reader EXCEPT ![p].step = "asleep"]
    /\ conslock' = NoProc
    /\ UNCHANGED <<cons, prlock, uart, handler, printer, killed, writer>>

\* kkill(): a sleeping reader becomes runnable.
Kill(p) ==
    /\ p \notin killed
    /\ killed' = killed \cup {p}
    /\ reader' = IF reader[p].step = "asleep" THEN [reader EXCEPT ![p].step = "read"] ELSE reader
    /\ UNCHANGED <<cons, conslock, prlock, uart, handler, printer, writer>>

\* A killed process exits; its slot is used again.
Exit(p) ==
    /\ p \in killed /\ reader[p].step = "idle"
    /\ killed' = killed \ {p}
    /\ UNCHANGED <<cons, conslock, prlock, uart, handler, printer, reader, writer>>

-----------------------------------------------------------------------------
(* consolewrite() and uartwrite() *)

StartWrite(p) ==
    /\ writer[p].step = "idle"
    /\ writer' = [writer EXCEPT ![p] = [step |-> "copyin", i |-> 0, j |-> 0]]
    /\ UNCHANGED <<cons, conslock, prlock, uart, handler, printer, reader, killed>>

\* The loop of consolewrite(): another buffer of bytes, unless all are
\* written or either_copyin() fails.
CopyIn(p) ==
    /\ writer[p].step = "copyin"
    /\ \/ /\ writer[p].i < WLEN
          /\ writer' = [writer EXCEPT ![p].step = "uart"]
       \/ writer' = [writer EXCEPT ![p].step = "idle"]
    /\ UNCHANGED <<cons, conslock, prlock, uart, handler, printer, reader, killed>>

\* Bytes of a buffer, and i += nn after it.
Chunk(p) == Min({BUF, WLEN - writer[p].i})
NextBuffer(p) == writer[p].i + Chunk(p)

\* uartwrite() from taking tx_lock, or waking up with it, until it sleeps or
\* releases the lock.
UartWrite(p) ==
    /\ writer[p].step = "uart"
    /\ IF tx_busy # 0
       THEN /\ writer' = [writer EXCEPT ![p].step = "asleep"]
            /\ UNCHANGED <<fifo, thre, tx_busy>>
       ELSE /\ WriteTHR(p)
            /\ tx_busy' = 1
            /\ writer' = [writer EXCEPT ![p] =
                 IF @.j + 1 = Chunk(p)
                 THEN [step |-> "copyin", i |-> NextBuffer(p), j |-> 0]
                 ELSE [@ EXCEPT !.step = "asleep", !.j = @ + 1]]
    /\ UNCHANGED <<cons, conslock, prlock, typed, rx, handler, printer, reader, killed>>

-----------------------------------------------------------------------------
(* printf() in the kernel *)

PrintStart ==
    /\ printer.step = "idle" /\ printer.n < load.print /\ prlock = NoProc
    /\ printer' = [printer EXCEPT !.step = "wait"] /\ prlock' = "printer"
    /\ UNCHANGED <<cons, conslock, uart, handler, reader, killed, writer>>

PrintWait ==
    /\ printer.step = "wait"
    /\ LSR_TX_IDLE
    /\ printer' = [printer EXCEPT !.step = "put"]
    /\ UNCHANGED <<cons, conslock, prlock, uart, handler, reader, killed, writer>>

PrintPut ==
    /\ printer.step = "put"
    /\ WriteTHR("printer")
    /\ printer' = [step |-> "idle", n |-> printer.n + 1] /\ prlock' = NoProc
    /\ UNCHANGED <<cons, conslock, typed, rx, tx_busy, handler, reader, killed, writer>>

-----------------------------------------------------------------------------
HandlerStep ==
    \/ UartIntr \/ TxDone \/ IntrReturn \/ ConsoleIntr \/ ProcDump
    \/ EchoWait \/ EchoPut \/ ConsoleIntrEnd

ReaderStep(p) ==
    \/ \E k \in 1 .. INPUT_BUF_SIZE, fault \in BOOLEAN : ReadReturns(p, k, fault)
    \/ ReadMore(p)
    \/ ReadSleep(p)

Next ==
    /\ \/ Transmit
       \/ \E c \in load.keys : Receive(c)
       \/ HandlerStep
       \/ \E p \in load.readers : \/ \E n \in RLEN : StartRead(p, n)
                                  \/ ReaderStep(p) \/ Kill(p) \/ Exit(p)
       \/ \E p \in load.writers : StartWrite(p) \/ CopyIn(p) \/ UartWrite(p)
       \/ PrintStart \/ PrintWait \/ PrintPut
    /\ UNCHANGED load

Spec == Init /\ [][Next]_vars

\* The UART transmits, pending interrupts are taken, and every kernel thread
\* that can run does.
Fairness ==
    /\ WF_vars(Transmit /\ UNCHANGED load)
    /\ WF_vars(HandlerStep /\ UNCHANGED load)
    /\ \A p \in Reader : WF_vars(ReaderStep(p) /\ UNCHANGED load)
    /\ \A p \in Writer : WF_vars((UartWrite(p) \/ CopyIn(p)) /\ UNCHANGED load)
    /\ WF_vars((PrintWait \/ PrintPut) /\ UNCHANGED load)

LiveSpec == Spec /\ Fairness

-----------------------------------------------------------------------------
(* Properties *)

\* The types of struct cons, of the uart's transmit state and of its FIFO: only
\* translated characters (no carriage return) reach cons.buf.
TypeOK ==
    /\ buf \in [0 .. INPUT_BUF_SIZE - 1 ->
                   (Typed \ {"cr", "kill", "bs", "dump"}) \cup {"nl", "nul"}]
    /\ {r, w, e} \subseteq 0 .. UINT - 1
    /\ conslock \in Reader \cup {Handler, NoProc}
    /\ Len(rx) <= RXFIFO
    /\ tx_busy \in {0, 1}
    /\ handler.step \in {"idle", "tx", "rx", "dump", "echo", "put"}
    /\ \A p \in Reader : reader[p].n \in 0 .. reader[p].target

\* No reader sleeps while there is committed input: the wakeup() of
\* consoleintr() cannot be lost, whether the line ended or the buffer filled,
\* and a ^D that is pushed back is not forgotten by another reader.
ReaderSleepsOnEmpty ==
    \A p \in Reader : reader[p].step \in {"sleep", "asleep"} => r = w

Segment(from, to) == [i \in 1 .. ((to - from) % UINT) |-> At((from + i - 1) % UINT)]

Lines == INSTANCE Terminal WITH
    line <- Segment(w, e), ready <- Segment(r, w), Char <- Typed \cup {"nl"}

\* The ring of cons.buf with its three wrapping indices, the erase and kill
\* keys, the buffer that fills and the ^D that is pushed back implement a line
\* being edited and a queue of complete lines.
LineDiscipline == Lines!Spec

\* A write() that sleeps until the UART is free wakes up, whatever echo and
\* printf() send in the meantime.
WriterProceeds ==
    \A p \in Writer : writer[p].step = "asleep" ~> writer[p].step # "asleep"
=============================================================================
