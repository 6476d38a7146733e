------------------------------ MODULE Console -------------------------------
(* The console (kernel/console.c) over the UART (kernel/uart.c).           *)
(*                                                                         *)
(* Input: the interrupt handler edits a ring of three indices, readers     *)
(* take lines from it.  Output: writers fill a ring that uartstart() moves *)
(* to the hardware, called by writers and by the interrupt; the echo goes  *)
(* to the hardware past the ring and its lock.  The indices wrap at Wrap   *)
(* and TxWrap (2^32 and 2^64 in the code).  The model forgets what a cell  *)
(* of a ring held once it is read or erased: nothing may read it again.    *)
EXTENDS Naturals, FiniteSets, Sequences, SequencesExt

CONSTANTS
    Procs,
    Readers, Writers,   \* bound: the processes that read, and that write
    INPUT_BUF_SIZE, UART_TX_BUF_SIZE, Wrap, TxWrap,
    MaxCount,    \* bound: characters asked for by one call
    RxSize,      \* bound: characters the hardware keeps for uartgetc()
    OutChars,    \* the characters written
    Typed        \* the characters typed: members of Chars and of Controls

Chars == {"a", "nl", "eof"}         \* '\n' (or '\r'), control-D
LineEnds == {"nl", "eof"}
Controls == {"BS", "KILL", "PS"}    \* control-H or delete, control-U, control-P

Intr == "intr"      \* the interrupt handler as the holder of a lock
Nobody == "nobody"
None == "none"      \* a cell outside its ring

ASSUME ConsoleAssumption ==
    /\ INPUT_BUF_SIZE \in Nat \ {0} /\ UART_TX_BUF_SIZE \in Nat \ {0}
    /\ Wrap \in Nat /\ Wrap % INPUT_BUF_SIZE = 0 /\ Wrap > INPUT_BUF_SIZE
    /\ TxWrap \in Nat /\ TxWrap % UART_TX_BUF_SIZE = 0 /\ TxWrap > UART_TX_BUF_SIZE
    /\ Typed \subseteq Chars \cup Controls /\ None \notin OutChars
    /\ {Intr, Nobody} \cap Procs = {}

VARIABLES
    buf, r, w, e,         \* cons
    clock,                \* the holder of cons.lock
    txbuf, txr, txw,      \* uart_tx_buf
    txlock,               \* the holder of uart_tx_lock
    saw,                  \* who has found the transmitter idle and not yet written to it
    fifo, rx,             \* how many characters the transmitter and the receiver hold
    irq,                  \* the UART asks for an interrupt
    intr, echo,           \* where uartintr() is; the echoes consoleintr() has to send
    pc, left, got,        \* a process: its call, the characters still wanted, whether it has some
    asleep, killed

consVars == <<buf, r, w, e>>
txVars == <<txbuf, txr, txw>>
intrVars == <<intr, echo>>
procVars == <<pc, left, got, killed>>
vars == <<consVars, clock, txVars, txlock, saw, fifo, rx, irq, intrVars, procVars, asleep>>

PCs == {"user", "read", "sleep", "write", "start"}

Plus(i, n) == (i + n) % Wrap
Minus(i, j) == (i + Wrap - j) % Wrap
TxPlus(i, n) == (i + n) % TxWrap

(* What is left of buf when the n characters from i on are gone.           *)
Forget(i, n) == [c \in DOMAIN buf |->
    IF \E j \in 0..n - 1 : c = Plus(i, j) % INPUT_BUF_SIZE THEN None ELSE buf[c]]

Init ==
    /\ buf = [i \in 0..INPUT_BUF_SIZE - 1 |-> None] /\ r = 0 /\ w = 0 /\ e = 0
    /\ txbuf = [i \in 0..UART_TX_BUF_SIZE - 1 |-> None] /\ txr = 0 /\ txw = 0
    /\ clock = Nobody /\ txlock = Nobody /\ saw = {}
    /\ fifo = 0 /\ rx = 0 /\ irq = FALSE
    /\ intr = "out" /\ echo = 0
    /\ pc = [p \in Procs |-> "user"]
    /\ left = [p \in Procs |-> 0] /\ got = [p \in Procs |-> FALSE]
    /\ asleep = {} /\ killed = {}

Call(p) == \E n \in 1..MaxCount, call \in {"read", "write"} :
    /\ pc[p] = "user" /\ p \in (IF call = "read" THEN Readers ELSE Writers)
    /\ pc' = [pc EXCEPT ![p] = call]
    /\ left' = [left EXCEPT ![p] = n] /\ got' = [got EXCEPT ![p] = FALSE]
    /\ UNCHANGED <<consVars, clock, txVars, txlock, saw, fifo, rx, irq, intrVars, asleep, killed>>

(* A call returns; a killed process exits and its slot serves another.     *)
Returned(p) == /\ pc' = [pc EXCEPT ![p] = "user"]
               /\ left' = [left EXCEPT ![p] = 0] /\ got' = [got EXCEPT ![p] = FALSE]
               /\ killed' = killed \ {p}

-----------------------------------------------------------------------------
(* consoleread(): a character is one step, with cons.lock held.            *)

Reading(p) == pc[p] = "read" /\ p \notin asleep /\ clock \in {Nobody, p}

(* No line is ready: a killed process returns.                             *)
ReadEmpty(p) ==
    /\ Reading(p) /\ r = w
    /\ IF p \in killed
       THEN clock' = Nobody /\ Returned(p)
       ELSE clock' = p /\ pc' = [pc EXCEPT ![p] = "sleep"] /\ UNCHANGED <<left, got, killed>>
    /\ UNCHANGED <<consVars, txVars, txlock, saw, fifo, rx, irq, intrVars, asleep>>

(* sleep() tests nothing: a kill() since killed() goes unnoticed.          *)
ReadSleeps(p) ==
    /\ pc[p] = "sleep"
    /\ pc' = [pc EXCEPT ![p] = "read"]
    /\ clock' = Nobody /\ asleep' = asleep \cup {p}
    /\ UNCHANGED <<consVars, txVars, txlock, saw, fifo, rx, irq, intrVars, left, got, killed>>

(* Mutant: end-of-file is taken although characters were read before it.   *)
ReadEofTaken(p) ==
    /\ Reading(p) /\ r # w /\ buf[r % INPUT_BUF_SIZE] = "eof"
    /\ r' = Plus(r, 2) /\ buf' = Forget(r, 2)
    /\ clock' = Nobody /\ Returned(p)
    /\ UNCHANGED <<w, e, txVars, txlock, saw, fifo, rx, irq, intrVars, asleep>>

(* End-of-file stays for the next read when this one has characters.       *)
ReadEof(p) ==
    /\ Reading(p) /\ r # w /\ buf[r % INPUT_BUF_SIZE] = "eof"
    /\ IF got[p] THEN UNCHANGED <<r, buf>> ELSE r' = Plus(r, 1) /\ buf' = Forget(r, 1)
    /\ clock' = Nobody /\ Returned(p)
    /\ UNCHANGED <<w, e, txVars, txlock, saw, fifo, rx, irq, intrVars, asleep>>

(* A character; the read ends with a line, its count or a bad address.     *)
ReadChar(p) == LET c == buf[r % INPUT_BUF_SIZE] IN
    /\ Reading(p) /\ r # w /\ c # "eof"
    /\ r' = Plus(r, 1) /\ buf' = Forget(r, 1)
    /\ \/ clock' = Nobody /\ Returned(p)
       \/ /\ c # "nl" /\ left[p] > 1
          /\ clock' = p
          /\ left' = [left EXCEPT ![p] = @ - 1] /\ got' = [got EXCEPT ![p] = TRUE]
          /\ UNCHANGED <<pc, killed>>
    /\ UNCHANGED <<w, e, txVars, txlock, saw, fifo, rx, irq, intrVars, asleep>>

-----------------------------------------------------------------------------
(* consolewrite() and uartputc().                                          *)

(* either_copyin() fails: the write is short.                              *)
WriteFault(p) ==
    /\ pc[p] = "write" /\ p \notin asleep
    /\ Returned(p)
    /\ UNCHANGED <<consVars, clock, txVars, txlock, saw, fifo, rx, irq, intrVars, asleep>>

TxFull == txw = TxPlus(txr, UART_TX_BUF_SIZE)

PutSleeps(p) ==
    /\ pc[p] = "write" /\ p \notin asleep /\ txlock = Nobody /\ TxFull
    /\ asleep' = asleep \cup {p}
    /\ UNCHANGED <<consVars, clock, txVars, txlock, saw, fifo, rx, irq, intrVars, procVars>>

(* uartputc(), when there is room.                                         *)
Put(p) ==
    /\ pc[p] = "write" /\ p \notin asleep /\ txlock = Nobody /\ ~TxFull
    /\ \E o \in OutChars : txbuf' = [txbuf EXCEPT ![txw % UART_TX_BUF_SIZE] = o]
    /\ txw' = TxPlus(txw, 1)
    /\ txlock' = p /\ pc' = [pc EXCEPT ![p] = "start"]
    /\ left' = [left EXCEPT ![p] = @ - 1]
    /\ UNCHANGED <<consVars, clock, txr, saw, fifo, rx, irq, intrVars, got, killed, asleep>>

Idle == fifo = 0     \* LSR_TX_IDLE

(* uartstart(), its test of the transmitter.                               *)
StartSees(x) ==
    /\ txlock = x /\ x \notin saw /\ txw # txr /\ Idle
    /\ saw' = saw \cup {x}
    /\ UNCHANGED <<consVars, clock, txVars, txlock, fifo, rx, irq, intrVars, procVars, asleep>>

(* Its write to THR, which makes room for a writer.                        *)
StartSends(x) ==
    /\ txlock = x /\ x \in saw
    /\ txr' = TxPlus(txr, 1)
    /\ asleep' = {p \in asleep : pc[p] # "write"}
    /\ txbuf' = [txbuf EXCEPT ![txr % UART_TX_BUF_SIZE] = None]
    /\ fifo' = fifo + 1
    /\ saw' = saw \ {x}
    /\ UNCHANGED <<consVars, clock, txw, txlock, rx, irq, intrVars, procVars>>

StartDone(x) == x \notin saw /\ (txw = txr \/ ~Idle)

PutReturns(p) ==
    /\ pc[p] = "start" /\ txlock = p /\ StartDone(p)
    /\ txlock' = Nobody
    /\ IF left[p] = 0 THEN Returned(p)
       ELSE pc' = [pc EXCEPT ![p] = "write"] /\ UNCHANGED <<left, got, killed>>
    /\ UNCHANGED <<consVars, clock, txVars, saw, fifo, rx, irq, intrVars, asleep>>

-----------------------------------------------------------------------------
(* uartintr() and consoleintr().                                           *)

IntrEnter ==
    /\ intr = "out" /\ irq
    /\ intr' = "getc" /\ irq' = FALSE
    /\ UNCHANGED <<consVars, clock, txVars, txlock, saw, fifo, rx, echo, procVars, asleep>>

Getc(c) == /\ intr = "getc" /\ clock = Nobody /\ rx > 0 /\ c \in Typed
           /\ rx' = rx - 1
           /\ clock' = Intr

(* What consoleintr() leaves alone; k calls of consputc() are to be made   *)
(* (one stands for the three characters that erase one).                   *)
Echoes(k) == /\ echo' = k
             /\ UNCHANGED <<r, txVars, txlock, saw, fifo, irq, intr, procVars>>

Backspace == /\ Getc("BS")
             /\ LET n == IF e # w THEN 1 ELSE 0 IN
                e' = Minus(e, n) /\ buf' = Forget(e', n) /\ Echoes(n)
             /\ UNCHANGED <<w, asleep>>

(* So many characters lead back to the start of the line, or to what is   *)
(* ready.                                                                  *)
LineStart(k) ==
    /\ k = Minus(e, w) \/ buf[Minus(e, k + 1) % INPUT_BUF_SIZE] = "nl"
    /\ \A j \in 0..k - 1 : buf[Minus(e, j + 1) % INPUT_BUF_SIZE] # "nl"

KillLine == \E k \in 0..Minus(e, w) :
    /\ Getc("KILL") /\ LineStart(k)
    /\ e' = Minus(e, k) /\ buf' = Forget(e', k) /\ Echoes(k)
    /\ UNCHANGED <<w, asleep>>

(* procdump() prints through the same hardware.                            *)
PrintList == Getc("PS") /\ Echoes(1) /\ UNCHANGED <<buf, w, e, asleep>>

(* Mutant: a full ring without a line end is not given to the readers.     *)
StoreUnready == \E c \in Chars :
    /\ Getc(c)
    /\ IF Minus(e, r) < INPUT_BUF_SIZE
       THEN /\ buf' = [buf EXCEPT ![e % INPUT_BUF_SIZE] = c]
            /\ e' = Plus(e, 1)
            /\ IF c \in LineEnds
               THEN w' = e' /\ asleep' = {p \in asleep : pc[p] # "read"}
               ELSE UNCHANGED <<w, asleep>>
            /\ Echoes(1)
       ELSE UNCHANGED <<buf, w, e, asleep>> /\ Echoes(0)

(* Any other character; it is dropped when the ring is full.               *)
Store == \E c \in Chars :
    /\ Getc(c)
    /\ IF Minus(e, r) < INPUT_BUF_SIZE
       THEN /\ buf' = [buf EXCEPT ![e % INPUT_BUF_SIZE] = c]
            /\ e' = Plus(e, 1)
            /\ IF c \in LineEnds \/ Minus(e', r) = INPUT_BUF_SIZE
               THEN w' = e' /\ asleep' = {p \in asleep : pc[p] # "read"}
               ELSE UNCHANGED <<w, asleep>>
            /\ Echoes(1)
       ELSE UNCHANGED <<buf, w, e, asleep>> /\ Echoes(0)

(* uartputc_sync(), which waits for the transmitter and takes no lock but  *)
(* that of consoleintr().                                                  *)
EchoSees ==
    /\ clock = Intr /\ echo > 0 /\ Idle /\ Intr \notin saw
    /\ saw' = saw \cup {Intr}
    /\ UNCHANGED <<consVars, clock, txVars, txlock, fifo, rx, irq, intrVars, procVars, asleep>>

EchoSends ==
    /\ clock = Intr /\ Intr \in saw
    /\ fifo' = fifo + 1 /\ saw' = saw \ {Intr}
    /\ echo' = echo - 1
    /\ UNCHANGED <<consVars, clock, txVars, txlock, rx, irq, intr, procVars, asleep>>

ConsoleIntrDone ==
    /\ clock = Intr /\ echo = 0
    /\ clock' = Nobody
    /\ UNCHANGED <<consVars, txVars, txlock, saw, fifo, rx, irq, intrVars, procVars, asleep>>

(* The receiver is empty: the rest of the ring is started.                 *)
IntrStart ==
    /\ intr = "getc" /\ rx = 0 /\ clock # Intr /\ txlock = Nobody
    /\ intr' = "start" /\ txlock' = Intr
    /\ UNCHANGED <<consVars, clock, txVars, saw, fifo, rx, irq, echo, procVars, asleep>>

IntrLeave ==
    /\ intr = "start" /\ StartDone(Intr)
    /\ intr' = "out" /\ txlock' = Nobody
    /\ UNCHANGED <<consVars, clock, txVars, saw, fifo, rx, irq, echo, procVars, asleep>>

-----------------------------------------------------------------------------
(* The UART, external: it takes input, whose value is chosen when it is    *)
(* read, and sends what it holds.                                          *)

Key ==
    /\ rx < RxSize
    /\ rx' = rx + 1 /\ irq' = TRUE
    /\ UNCHANGED <<consVars, clock, txVars, txlock, saw, fifo, intrVars, procVars, asleep>>

(* A character leaves the UART; after the last it asks for an interrupt.   *)
Transmit ==
    /\ fifo > 0 /\ fifo' = fifo - 1
    /\ irq' = (irq \/ fifo' = 0)
    /\ UNCHANGED <<consVars, clock, txVars, txlock, saw, rx, intrVars, procVars, asleep>>

(* kill() wakes a sleeper; of the two calls only a read tests the flag.    *)
Kill(p) ==
    /\ pc[p] \in {"read", "sleep"} \/ p \in asleep
    /\ killed' = IF pc[p] \in {"read", "sleep"} THEN killed \cup {p} ELSE killed
    /\ asleep' = asleep \ {p}
    /\ UNCHANGED <<consVars, clock, txVars, txlock, saw, fifo, rx, irq, intrVars, pc, left, got>>

Goes(p) == ReadEmpty(p) \/ ReadSleeps(p) \/ ReadEof(p) \/ ReadChar(p)
           \/ PutSleeps(p) \/ Put(p) \/ PutReturns(p) \/ StartSees(p) \/ StartSends(p)

Interrupt == IntrEnter \/ Backspace \/ KillLine \/ PrintList \/ Store
             \/ EchoSees \/ EchoSends \/ ConsoleIntrDone
             \/ IntrStart \/ (intr = "start" /\ (StartSees(Intr) \/ StartSends(Intr))) \/ IntrLeave

Next == (\E p \in Procs : Call(p) \/ Goes(p) \/ WriteFault(p) \/ Kill(p))
        \/ Interrupt \/ Key \/ Transmit

Spec == Init /\ [][Next]_vars

-----------------------------------------------------------------------------
(* Properties.                                                             *)

(* Types; the cells in use are those from r up to e, and from txr to txw.  *)
TypeOK ==
    /\ {c \in DOMAIN buf : buf[c] # None} = {Plus(r, i) % INPUT_BUF_SIZE : i \in 0..Minus(e, r) - 1}
    /\ {c \in DOMAIN txbuf : txbuf[c] # None} = {TxPlus(txr, i) % UART_TX_BUF_SIZE :
                                                 i \in 0..((txw + TxWrap - txr) % TxWrap) - 1}
    /\ buf \in [0..INPUT_BUF_SIZE - 1 -> Chars \cup {None}] /\ {r, w, e} \subseteq 0..Wrap - 1
    /\ txbuf \in [0..UART_TX_BUF_SIZE - 1 -> OutChars \cup {None}] /\ {txr, txw} \subseteq 0..TxWrap - 1
    /\ clock \in Procs \cup {Intr, Nobody} /\ txlock \in Procs \cup {Intr, Nobody}
    /\ {fifo, rx} \subseteq Nat /\ irq \in BOOLEAN
    /\ pc \in [Procs -> PCs] /\ asleep \cup killed \subseteq Procs

(* The rings, read through their indices, are the sequences of LineDevice. *)
Ready == [i \in 1..Minus(w, r) |-> buf[Plus(r, i - 1) % INPUT_BUF_SIZE]]
Edit == [i \in 1..Minus(e, w) |-> buf[Plus(w, i - 1) % INPUT_BUF_SIZE]]
Out == [i \in 1..(txw + TxWrap - txr) % TxWrap |-> txbuf[TxPlus(txr, i - 1) % UART_TX_BUF_SIZE]]

Abstract == INSTANCE LineDevice WITH edit <- Edit, ready <- Ready, out <- Out

(* Lines are read and characters sent in order, none lost and none twice,  *)
(* whatever the readers, the writers, the editing and the wrapping.        *)
KeepsOrder == Abstract!Spec

(* A reader sleeps, or is about to, only while no line is ready, a writer  *)
(* only while the ring is full.                                            *)
SleepersHaveReason == \A p \in asleep \cup {q \in Procs : pc[q] = "sleep"} :
    IF pc[p] = "write" THEN TxFull ELSE r = w

(* A ring that is full is ready to be read: otherwise every key would be   *)
(* dropped, the line end among them, and no reader would wake again.       *)
FullIsReady == Minus(e, r) = INPUT_BUF_SIZE => e = w

(* What is in the ring will be sent: as long as something is, the          *)
(* transmitter still has characters (and asks for an interrupt after the   *)
(* last), an interrupt is to come or has not called uartstart() yet, or    *)
(* somebody is in uartstart().  Otherwise the writers would sleep for ever *)
(* (how long they wait is another matter: keys are echoed before the ring  *)
(* is started, and the transmitter is busy then).                          *)
OutputGoesOn == txr # txw => fifo > 0 \/ irq \/ intr # "out" \/ txlock # Nobody

(* One character of the ring and one echo at most reach the hardware while *)
(* both have seen it idle: the echo takes no lock of the ring, and it is   *)
(* the hardware's FIFO that keeps both.                                    *)
FifoBound == fifo + Cardinality(saw) <= 2

(* Neither direction gets stuck, and the rings hold what their indices say.*)
ConsoleInv == TypeOK /\ SleepersHaveReason /\ FullIsReady /\ OutputGoesOn /\ FifoBound

=============================================================================
