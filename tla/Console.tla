------------------------------ MODULE Console -------------------------------
(* The AT console: the UART's receive interrupt, the console task of         *)
(* components/atcmd/console.c and the AT task of at_task.c, over the receive *)
(* FIFO and over the transmit side that Serial models.                       *)
(*                                                                           *)
(* The interrupt pushes a byte into the receive FIFO, emptying it first when *)
(* it is full, and signals the console task: at every line feed on UART1, at *)
(* every byte on UART0.  The console task reads the FIFO to its end, echoes  *)
(* each byte, collects a line, and at CR LF hands the line to the AT task    *)
(* and waits until that has executed it.  The AT task answers on the same    *)
(* port; with AT_LOG_MERGE_TO_UART0 the log of other tasks uses it too.      *)
EXTENDS Serial, SequencesExt

CONSTANTS Kinds,         \* the kinds of byte that arrive
          RxSize,        \* cells of the receive FIFO
          CmdSize,       \* CMD_CBSIZE
          SignalAll,     \* UART0: every byte signals the console task
          EchoAtStart,   \* console->echo: TRUE, or FALSE in a WIFI_TRACK build
          MaxRx,         \* bound on the bytes received
          MaxLog         \* bound on the bytes logged

ASSUME ConsoleAssumption == /\ Kinds \subseteq {"chr", "nul", "cr", "lf"}
                            /\ RxSize \in Nat /\ RxSize > 1
                            /\ CmdSize \in Nat /\ MaxRx \in Nat
                            /\ MaxLog \in Nat
                            /\ SignalAll \in BOOLEAN /\ EchoAtStart \in BOOLEAN
                            /\ {"console", "at", "log"} = Tasks

VARIABLES rx,            \* port->rxfifo
          rxSem,         \* g_rx_sem
          con,           \* the console task: where it is, what it has loaded
          line,          \* console_cmd_buffer up to index
          cmdLine,       \* cmd_line, which the message to the AT task points to
          echo,          \* console->echo
          atQueue,       \* g_at_msg_queue
          at,            \* the AT task
          done,          \* console->sem
          received,      \* all bytes so far
          executed,      \* the lines that the AT task has executed
          discarded      \* bytes were thrown away because a buffer was full

rxVars == <<rx, rxSem, received>>
lineVars == <<line, cmdLine, echo, atQueue, at, done, executed>>
vars == <<rx, rxSem, con, line, cmdLine, echo, atQueue, at, done, received,
          executed, discarded, tx, st, sent, wire, dropped, lost>>

MaxSem == 1024           \* the largest count of g_rx_sem
AtQueueSize == 5         \* AT_MSG_QUEUE_SIZE

Init == /\ SerialInit
        /\ rx = fifo_init(RxSize)
        /\ rxSem = 0
        /\ con = [pc |-> "wait", reg |-> "head", val |-> 0, ch |-> Nul]
        /\ line = <<>> /\ cmdLine = <<>> /\ echo = EchoAtStart
        /\ atQueue = <<>> /\ at = "wait" /\ done = 0
        /\ received = <<>> /\ executed = <<>>
        /\ discarded = FALSE

-----------------------------------------------------------------------------
(* The receive interrupt: uart0/uart1_RecvDataIrqCallback, serial_purgeRx    *)
(* and serial_rx_callbcak.  Tasks do not run in between.                     *)

\* Fault: the byte that finds the FIFO full is purged with the rest.
RecvDataIrq_PurgesAll(k) ==
    LET b == <<k, Len(received) + 1>>
    IN  /\ Len(received) < MaxRx
        /\ received' = Append(received, b)
        /\ rx' = IF fifo_isfull(rx) THEN fifo_flush(rx) ELSE fifo_push(rx, b)
        /\ discarded' = (discarded \/ fifo_isfull(rx))
        /\ rxSem' = IF (SignalAll \/ k = "lf") /\ rxSem < MaxSem
                    THEN rxSem + 1 ELSE rxSem
        /\ UNCHANGED <<con, lineVars, serialVars>>

\* Fault: the task is signalled at the carriage return.
RecvDataIrq_AtCr(k) ==
    LET b == <<k, Len(received) + 1>>
    IN  /\ Len(received) < MaxRx
        /\ received' = Append(received, b)
        /\ rx' = fifo_push(IF fifo_isfull(rx) THEN fifo_flush(rx) ELSE rx, b)
        /\ discarded' = (discarded \/ fifo_isfull(rx))
        /\ rxSem' = IF (SignalAll \/ k = "cr") /\ rxSem < MaxSem
                    THEN rxSem + 1 ELSE rxSem
        /\ UNCHANGED <<con, lineVars, serialVars>>

RecvDataIrq(k) ==
    LET b == <<k, Len(received) + 1>>
    IN  /\ Len(received) < MaxRx
        /\ received' = Append(received, b)
        /\ rx' = fifo_push(IF fifo_isfull(rx) THEN fifo_flush(rx) ELSE rx, b)
        /\ discarded' = (discarded \/ fifo_isfull(rx))
        /\ rxSem' = IF (SignalAll \/ k = "lf") /\ rxSem < MaxSem
                    THEN rxSem + 1 ELSE rxSem
        /\ UNCHANGED <<con, lineVars, serialVars>>

-----------------------------------------------------------------------------
(* The console task                                                          *)

SemWait ==
    /\ con.pc = "wait"
    /\ rxSem > 0
    /\ rxSem' = rxSem - 1
    /\ con' = [con EXCEPT !.pc = "load"]
    /\ UNCHANGED <<rx, received, discarded, lineVars, serialVars>>

\* fifo_isempty in the loop of console_task, and again in
\* serial_getchar_nowait; the interrupt may come between the two loads.
RxLoad ==
    /\ con.pc \in {"load", "getload"}
    /\ \E r \in {"head", "tail"} :
           con' = [con EXCEPT !.pc = IF @ = "load" THEN "test" ELSE "gettest",
                              !.reg = r,
                              !.val = IF r = "head" THEN rx.head ELSE rx.tail]
    /\ UNCHANGED <<rxVars, discarded, lineVars, serialVars>>

RxSaysEmpty == con.val = IF con.reg = "head" THEN rx.tail ELSE rx.head
RxTest ==
    /\ con.pc \in {"test", "gettest"}
    /\ con' = [con EXCEPT !.pc =
                  IF @ = "test" THEN IF RxSaysEmpty THEN "wait" ELSE "getload"
                  ELSE IF RxSaysEmpty THEN "load" ELSE "pop",
                          !.reg = "head", !.val = 0]
    /\ UNCHANGED <<rxVars, discarded, lineVars, serialVars>>

RxPop ==
    /\ con.pc = "pop"
    /\ con' = [con EXCEPT !.pc = IF echo THEN "echo" ELSE "store",
                          !.ch = fifo_first(rx)]
    /\ rx' = fifo_pop(rx)
    /\ UNCHANGED <<rxSem, received, discarded, lineVars, serialVars>>

EchoChar ==
    /\ con.pc = "echo"
    /\ PutChar("console")
    /\ con' = [con EXCEPT !.pc = "store"]
    /\ UNCHANGED <<rxVars, discarded, lineVars>>

\* strstr(console_cmd_buffer, "\r\n"): the search ends at the first NUL.
EndsLine(l) == \E i \in 1 .. Len(l) - 1 : /\ l[i][1] = "cr" /\ l[i + 1][1] = "lf"
                                          /\ \A j \in 1 .. i : l[j][1] # "nul"

\* lookup_cmd_line after the echo
Store ==
    LET new == Append(line, con.ch)
    IN  /\ con.pc = "store"
        /\ st["console"].pc = "idle"
        /\ \/ /\ Len(new) >= CmdSize
              /\ line' = <<>>
              /\ discarded' = TRUE
              /\ con' = [con EXCEPT !.pc = "load"]
              /\ UNCHANGED cmdLine
           \/ /\ Len(new) < CmdSize
              /\ line' = new
              /\ IF con.ch[1] \in {"cr", "lf"} /\ EndsLine(new)
                 THEN /\ cmdLine' = new
                      /\ con' = [con EXCEPT !.pc = "send"]
                 ELSE /\ con' = [con EXCEPT !.pc = "load"]
                      /\ UNCHANGED cmdLine
              /\ UNCHANGED discarded
        /\ UNCHANGED <<rxVars, echo, atQueue, at, done, executed, serialVars>>

\* Fault: the console task does not wait for the AT task.
SendCmd_NoWait ==
    /\ con.pc = "send"
    /\ Len(atQueue) < AtQueueSize
    /\ atQueue' = Append(atQueue, "cmd_line")
    /\ con' = [con EXCEPT !.pc = "load"]
    /\ line' = <<>>
    /\ UNCHANGED <<rxVars, cmdLine, echo, at, done, executed, discarded, serialVars>>

\* console_exe_command; the buffer is cleared when it returns.
SendCmd ==
    /\ con.pc = "send"
    /\ Len(atQueue) < AtQueueSize
    /\ atQueue' = Append(atQueue, "cmd_line")
    /\ con' = [con EXCEPT !.pc = "exe"]
    /\ UNCHANGED <<rxVars, line, cmdLine, echo, at, done, executed, discarded, serialVars>>

\* Fault: the buffer is not cleared.
ExeDone_KeepsLine ==
    /\ con.pc = "exe"
    /\ done = 1
    /\ done' = 0
    /\ con' = [con EXCEPT !.pc = "load"]
    /\ UNCHANGED <<rxVars, line, cmdLine, echo, atQueue, at, executed, discarded, serialVars>>

ExeDone ==
    /\ con.pc = "exe"
    /\ done = 1
    /\ done' = 0
    /\ line' = <<>>
    /\ con' = [con EXCEPT !.pc = "load"]
    /\ UNCHANGED <<rxVars, cmdLine, echo, atQueue, at, executed, discarded, serialVars>>

-----------------------------------------------------------------------------
(* The AT task: at_task, which works on cmd_line itself, answers, and        *)
(* releases the console task.                                                *)

AtReceive ==
    /\ at = "wait"
    /\ atQueue # <<>>
    /\ atQueue' = Tail(atQueue)
    /\ at' = "parse"
    /\ UNCHANGED <<rxVars, con, line, cmdLine, echo, done, executed, discarded, serialVars>>

\* The command runs (ATE0 and ATE1 set the echo) and prints its answer, which
\* is one byte here.
AtExecute ==
    /\ at = "parse"
    /\ executed' = Append(executed, cmdLine)
    /\ echo' \in BOOLEAN
    /\ PutChar("at")
    /\ at' = "answer"
    /\ UNCHANGED <<rxVars, con, line, cmdLine, atQueue, done, discarded>>

AtRelease ==
    /\ at = "answer"
    /\ st["at"].pc = "idle"
    /\ done' = 1
    /\ at' = "wait"
    /\ UNCHANGED <<rxVars, con, line, cmdLine, echo, atQueue, executed, discarded, serialVars>>

-----------------------------------------------------------------------------
LogChar == /\ sent["log"] < MaxLog
           /\ PutChar("log")
           /\ UNCHANGED <<rxVars, con, discarded, lineVars>>

Transmit(t) == Drive(t) /\ UNCHANGED <<rxVars, con, discarded, lineVars>>

ConsoleTask == \/ SemWait \/ RxLoad \/ RxTest \/ RxPop \/ EchoChar \/ Store
               \/ SendCmd \/ ExeDone
AtTask == AtReceive \/ AtExecute \/ AtRelease

Next == \/ \E k \in Kinds : RecvDataIrq(k)
        \/ ConsoleTask \/ AtTask \/ LogChar
        \/ \E t \in Tasks : Transmit(t)

Spec == Init /\ [][Next]_vars
FairSpec == /\ Spec
            /\ WF_vars(ConsoleTask) /\ WF_vars(AtTask)
            /\ \A t \in Tasks : WF_vars(Transmit(t))

-----------------------------------------------------------------------------
(* Properties                                                                *)

RxByte == Kinds \X (1 .. MaxRx)

\* The values the variables range over.
TypeOK == /\ SerialTypeOK
          /\ rx \in Ring(RxSize, RxByte \cup {Nul})
          /\ rxSem \in 0 .. MaxSem
          /\ con \in [pc : {"wait", "load", "test", "getload", "gettest", "pop",
                            "echo", "store", "send", "exe"},
                      reg : {"head", "tail"}, val : 0 .. RxSize - 1,
                      ch : RxByte \cup {Nul}]
          /\ line \in Seq(RxByte) /\ cmdLine \in Seq(RxByte) /\ echo \in BOOLEAN
          /\ atQueue \in Seq({"cmd_line"})
          /\ at \in {"wait", "parse", "answer"} /\ done \in {0, 1}
          /\ received \in Seq(RxByte)
          /\ executed \in Seq(Seq(RxByte))
          /\ discarded \in BOOLEAN

\* The console task never pops an empty receive FIFO, although it tests
\* without a lock and the interrupt may flush between test and pop.
NoEmptyRead == con.pc = "pop" => ~fifo_isempty(rx)

\* How many of the bytes received are in the first i lines executed: each byte
\* carries its number.
EndOf(i) == IF i = 0 THEN 0 ELSE Last(executed[i])[2]

\* As long as no buffer overflowed, the lines executed are the bytes received,
\* in order and without a gap, cut exactly behind each CR LF.
CommandsExact ==
    ~discarded =>
        \A i \in DOMAIN executed :
            LET l == executed[i]
            IN  /\ EndsLine(l) /\ ~EndsLine(Front(l))
                /\ \A j \in DOMAIN l : /\ EndOf(i - 1) + j <= Len(received)
                                       /\ l[j] = received[EndOf(i - 1) + j]

\* The AT task parses cmd_line in place; the console task does not touch it,
\* and waits, until it has been released.
CmdLineStable == [][at # "wait" => con.pc = "exe" /\ cmdLine' = cmdLine]_vars

\* A line that arrived complete, without NUL bytes and without an overflow,
\* is executed: no wakeup is lost.
Unexecuted ==
    /\ ~discarded
    /\ \A i \in DOMAIN received : received[i][1] # "nul"
    /\ \E n \in EndOf(Len(executed)) + 2 .. Len(received) :
           received[n - 1][1] = "cr" /\ received[n][1] = "lf"
CommandsRun == Unexecuted ~> ~Unexecuted
=============================================================================
