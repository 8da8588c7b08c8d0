------------------------------- MODULE Serial -------------------------------
(* The transmit side of a serial port (components/serial/serial.c with the   *)
(* polling txStart of bsp/serial_hw.c): any number of tasks call             *)
(* serial_putchar on one port.  Each pushes its byte into the transmit FIFO  *)
(* and then empties the FIFO itself, so that a task may send bytes of        *)
(* others, and others its own.                                               *)
(*                                                                           *)
(* fifo_isempty loads head and tail one after the other without a lock; C    *)
(* leaves the order open, so that either may come first.                     *)
EXTENDS Fifo, FiniteSets

CONSTANTS Tasks,         \* the contexts that write to the port
          TxSize,        \* cells of the transmit FIFO
          MaxWrite,      \* bound on the bytes that a task writes
          MaxLost        \* bound on the times that the UART is given up

ASSUME SerialAssumption == /\ TxSize \in Nat /\ TxSize > 1
                           /\ MaxWrite \in Nat /\ MaxLost \in Nat
                           /\ Nul \notin Tasks

VARIABLES tx,            \* port->txfifo; a byte is named after its writer
          st,            \* where each task is in serial_putchar
          sent,          \* how many bytes each task has passed to it
          wire,          \* how many of them were passed to the UART
          dropped,       \* how many of them fifo_push dropped
          lost           \* how many of them the driver dropped after the pop

serialVars == <<tx, st, sent, wire, dropped, lost>>

Byte == Tasks \cup {Nul}

\* A call of txStart returns to the push (the FIFO was full) or to the caller.
\* reg and val are the first of the two loads of fifo_isempty.
Idle == [pc |-> "idle", ret |-> "idle", reg |-> "head", val |-> 0, ch |-> Nul]

SerialInit == /\ tx = fifo_init(TxSize)
              /\ st = [t \in Tasks |-> Idle]
              /\ sent = [t \in Tasks |-> 0]
              /\ wire = [t \in Tasks |-> 0]
              /\ dropped = [t \in Tasks |-> 0]
              /\ lost = [t \in Tasks |-> 0]

\* serial_putchar: with a full FIFO (tested under a lock) it first calls txStart.
PutChar(t) ==
    /\ st[t].pc = "idle"
    /\ sent[t] < MaxWrite
    /\ sent' = [sent EXCEPT ![t] = @ + 1]
    /\ st' = [st EXCEPT ![t].pc = IF fifo_isfull(tx) THEN "load" ELSE "push",
                        ![t].ret = "push"]
    /\ UNCHANGED <<tx, wire, dropped, lost>>

\* Fault: txStart is not called behind the push.
Push_NoStart(t) ==
    /\ st[t].pc = "push"
    /\ tx' = fifo_push(tx, t)
    /\ dropped' = [dropped EXCEPT ![t] = IF fifo_isfull(tx) THEN @ + 1 ELSE @]
    /\ st' = [st EXCEPT ![t] = Idle]
    /\ UNCHANGED <<sent, wire, lost>>

\* The push, after which txStart is called in any case
Push(t) ==
    /\ st[t].pc = "push"
    /\ tx' = fifo_push(tx, t)
    /\ dropped' = [dropped EXCEPT ![t] = IF fifo_isfull(tx) THEN @ + 1 ELSE @]
    /\ st' = [st EXCEPT ![t].pc = "load", ![t].ret = "idle"]
    /\ UNCHANGED <<sent, wire, lost>>

\* hw_uart_txStartPolling: while (!fifo_isempty(...)), the first load
Load(t) ==
    /\ st[t].pc = "load"
    /\ \E r \in {"head", "tail"} :
           st' = [st EXCEPT ![t].pc = "test", ![t].reg = r,
                            ![t].val = IF r = "head" THEN tx.head ELSE tx.tail]
    /\ UNCHANGED <<tx, sent, wire, dropped, lost>>

\* The second load and the comparison, after which nobody looks at the value
\* that was loaded
Forget(s) == [s EXCEPT !.reg = "head", !.val = 0]
OtherReg(t) == IF st[t].reg = "head" THEN tx.tail ELSE tx.head
SaysEmpty(t) == st[t].val = OtherReg(t)
Test(t) ==
    /\ st[t].pc = "test"
    /\ st' = [st EXCEPT ![t] =
                 IF ~SaysEmpty(t) THEN [Forget(@) EXCEPT !.pc = "pop"]
                 ELSE IF @.ret = "push" THEN [Forget(@) EXCEPT !.pc = "push"]
                 ELSE Idle]
    /\ UNCHANGED <<tx, sent, wire, dropped, lost>>

Pop(t) ==
    /\ st[t].pc = "pop"
    /\ tx' = fifo_pop(tx)
    /\ st' = [st EXCEPT ![t].pc = "write", ![t].ch = fifo_first(tx)]
    /\ UNCHANGED <<sent, wire, dropped, lost>>

\* HAL_UART_WriteOneChar waits for room in the UART and writes the byte, or
\* gives up after a fixed number of polls (HAL_TIMEOUT).  txStart ignores the
\* result: the byte, which is popped already, is gone.
WriteOneChar(t) ==
    /\ st[t].pc = "write"
    /\ \/ /\ wire' = [u \in Tasks |-> IF u = st[t].ch THEN wire[u] + 1 ELSE wire[u]]
          /\ UNCHANGED lost
       \/ /\ \A u \in Tasks : lost[u] < MaxLost
          /\ lost' = [u \in Tasks |-> IF u = st[t].ch THEN lost[u] + 1 ELSE lost[u]]
          /\ UNCHANGED wire
    /\ st' = [st EXCEPT ![t].pc = "load", ![t].ch = Nul]
    /\ UNCHANGED <<tx, sent, dropped>>

TxStart(t) == Load(t) \/ Test(t) \/ Pop(t) \/ WriteOneChar(t)
Drive(t) == Push(t) \/ TxStart(t)

SerialNext == \E t \in Tasks : PutChar(t) \/ Drive(t)
SerialSpec == SerialInit /\ [][SerialNext]_serialVars

-----------------------------------------------------------------------------
(* Properties                                                                *)

St == [pc : {"idle", "push", "load", "test", "pop", "write"},
       ret : {"push", "idle"}, reg : {"head", "tail"}, val : 0 .. TxSize - 1,
       ch : Byte]

\* The values the variables range over.
SerialTypeOK == /\ tx \in Ring(TxSize, Byte)
                /\ st \in [Tasks -> St]
                /\ sent \in [Tasks -> 0 .. MaxWrite]
                /\ wire \in [Tasks -> Nat]
                /\ dropped \in [Tasks -> Nat]
                /\ lost \in [Tasks -> Nat]

\* A byte that a task has written is at one place: it waits to be pushed, is
\* in the FIFO or in the hand of the task that popped it, or it went to the
\* UART.  Two places lose it and no other: the push on a full FIFO (dropped)
\* and the driver that gives up (lost).  None is sent twice, although the
\* tasks empty one FIFO without a lock.
ToPush(t) == st[t].pc # "idle" /\ st[t].ret = "push"
InFifo(t) == {i \in 1 .. Used(tx) : Content(tx)[i] = t}
InHand(t) == {u \in Tasks : st[u].pc = "write" /\ st[u].ch = t}
Conserved == \A t \in Tasks :
    sent[t] = (IF ToPush(t) THEN 1 ELSE 0) + Cardinality(InFifo(t))
              + Cardinality(InHand(t)) + wire[t] + dropped[t] + lost[t]

\* While the FIFO holds a byte some task is in txStart and will not leave it
\* on the value it has loaded: no byte waits for the next call of
\* serial_putchar to be sent.
Stays(t) == /\ st[t].pc \in {"load", "test", "pop", "write"}
            /\ st[t].pc = "test" =>
                   IF st[t].reg = "head" THEN st[t].val # tx.tail
                   ELSE st[t].val = tx.tail
NeverStranded == ~fifo_isempty(tx) => \E t \in Tasks : Stays(t)
=============================================================================
