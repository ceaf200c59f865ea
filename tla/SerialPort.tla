------------------------------ MODULE SerialPort -----------------------------
(***************************************************************************)
(* The serial port driver of 9.serialport on top of Kernel.tla: its lower  *)
(* half (PortHandler and what it calls), its upper half (the system calls  *)
(* and the wrappers of syscall.c) and the processes of proc.c.             *)
(*                                                                         *)
(* The kernel's handlers run with interrupts disabled and are one step;    *)
(* the code of a process between two system calls is a step of its own,    *)
(* and timer or port interrupts may come between any two of them.  The     *)
(* UART runs beside the processor.                                         *)
(*                                                                         *)
(* A typed byte is its serial number, so that order and loss can be seen;  *)
(* kind says what key it was.  Prompts are PROMPT bytes long, all alike.   *)
(* write_q and loopback_q are used as queues only and are sequences;       *)
(* read_q is the ring itself, because syscall.c writes its size field.     *)
(***************************************************************************)
EXTENDS Kernel, Uart

CONSTANTS
  PORT_NUM,      (* ports the driver knows                                 *)
  BUFF_SIZE,     (* a line buffer, with its NUL                            *)
  PROMPT,        (* bytes in each string TermProc writes                   *)
  MAX_TYPED,     (* bound of the model: bytes typed                        *)
  KINDS,         (* the keys typed: "char", "cr" ('\r') or "nl" ('\n')     *)
  TYPES_EARLY,   (* whether bytes may come before PortAlloc() has returned *)
  LATE_ARRIVALS  (* whether a byte may come in while PortHandler() runs    *)

ASSUME SerialAssumption ==
  /\ NPROCS >= 2                                  (* Init and a TermProc             *)
  /\ PORT_NUM \in Nat /\ PORT_NUM >= NPROCS - 1   (* every TermProc finds a port     *)
  /\ Q_SIZE >= 2 * (NPROCS - 1)                   (* and two semaphores              *)
  /\ {0, QUEUE_SIZE} \subseteq INIT_PASSES
  /\ BUFF_SIZE \in Nat /\ BUFF_SIZE >= 2
  /\ PROMPT \in Nat \ {0}
  /\ MAX_TYPED \in Nat
  /\ KINDS \subseteq {"char", "cr", "nl"}
  /\ TYPES_EARLY \in BOOLEAN /\ LATE_ARRIVALS \in BOOLEAN

Ports     == 0 .. PORT_NUM - 1
TermPids  == 2 .. NPROCS
Typed     == 1 .. MAX_TYPED
PromptByte == MAX_TYPED + 1
NewLine    == MAX_TYPED + 2   (* the '\n' that PortReadOne adds to an echo *)

Ring == INSTANCE QueueOps

VARIABLES
  port,   (* per port: port_t                                                *)
  uart,   (* per port: its UART                                              *)
  proc,   (* per TermProc: where it is, its port, EAX, and the byte at *p    *)
  typed,  (* bytes typed so far                                              *)
  kind    (* what key each of them is                                        *)

io == <<port, uart, proc, typed, kind>>
serialVars == <<vars, io>>

\* What the handlers work on.
Machine == [k |-> Memory, port |-> port, uart |-> uart]

Becomes(m) ==
  /\ Return(Scheduler(m.k))
  /\ port' = m.port
  /\ uart' = m.uart

-----------------------------------------------------------------------------
(***************************************************************************)
(* Lower half.                                                             *)
(***************************************************************************)
Out(m, p, byte) == [m EXCEPT !.uart[p] = WriteData(@, byte)]

PortWriteOne_PostsEcho(m, p) ==
  LET posted == [m EXCEPT !.k = SemPostHandler(@, m.port[p].write_sid)] IN
  IF m.port[p].loopback_q # <<>>
  THEN Out([posted EXCEPT !.port[p].loopback_q = Tail(@)], p, Head(m.port[p].loopback_q))
  ELSE IF m.port[p].write_q # <<>>
  THEN Out([posted EXCEPT !.port[p].write_q = Tail(@)], p, Head(m.port[p].write_q))
  ELSE [m EXCEPT !.port[p].write_ok = 1]

\* One byte to the UART, an echo before the application's; the latter frees a slot.
PortWriteOne(m, p) ==
  IF m.port[p].loopback_q # <<>>
  THEN Out([m EXCEPT !.port[p].loopback_q = Tail(@)], p, Head(m.port[p].loopback_q))
  ELSE IF m.port[p].write_q # <<>>
  THEN Out([m EXCEPT !.port[p].write_q = Tail(@),
                     !.k = SemPostHandler(@, m.port[p].write_sid)],
           p, Head(m.port[p].write_q))
  ELSE [m EXCEPT !.port[p].write_ok = 1]

\* What goes into loopback_q for a byte; a full queue drops it, unnoticed.
Echo(q, byte) ==
  IF kind[byte] = "char" THEN Enqueue(q, byte) ELSE Enqueue(Enqueue(q, byte), NewLine)

PortReadOne_PostsAlways(m, p, late) ==
  LET byte == m.uart[p].rbr
      read == [m EXCEPT !.uart[p] = Arrived(ReadData(@), late)]
  IN  [read EXCEPT !.port[p].read_q = Ring!queue_in(@, byte),
                   !.port[p].loopback_q = Echo(@, byte),
                   !.k = SemPostHandler(@, m.port[p].read_sid)]

\* One byte from the UART into read_q and loopback_q; dropped when read_q is full.
\* late is a byte that comes in after the data register was read.
PortReadOne(m, p, late) ==
  LET byte == m.uart[p].rbr
      read == [m EXCEPT !.uart[p] = Arrived(ReadData(@), late)]
  IN  IF Ring!queue_is_full(m.port[p].read_q) THEN read
      ELSE [read EXCEPT !.port[p].read_q = Ring!queue_in(@, byte),
                        !.port[p].loopback_q = Echo(@, byte),
                        !.k = SemPostHandler(@, m.port[p].read_sid)]

\* The loop body of PortHandler: IIR is read once.
ServePort(m, p, late) ==
  LET iir  == Iir(m.uart[p])
      seen == [m EXCEPT !.uart[p] = ReadIir(@)]
      done == CASE iir = "RXRDY" -> PortReadOne(seen, p, late)
                [] iir = "TXRDY" -> PortWriteOne(seen, p)
                [] OTHER         -> seen
  IN  IF m.port[p].owner = 0 THEN m
      ELSE IF done.port[p].write_ok # 0 THEN PortWriteOne(done, p) ELSE done

\* late comes in at the port p.
PortHandler(m, p, late) ==
  LET served[n \in 0 .. PORT_NUM] ==
        IF n = 0 THEN m
        ELSE ServePort(served[n - 1], n - 1, IF n - 1 = p THEN late ELSE NONE)
  IN  served[PORT_NUM]

-----------------------------------------------------------------------------
(***************************************************************************)
(* Upper half: the system calls.                                           *)
(***************************************************************************)
Unowned == [owner |-> 0, write_sid |-> 0, read_sid |-> 0, write_ok |-> 0,
            write_q |-> <<>>, read_q |-> Ring!queue_init, loopback_q |-> <<>>]

\* The first unowned port; SerialAssumption says that there is one.
FreePort(m) ==
  CHOOSE p \in Ports : m.port[p].owner = 0 /\ \A q \in Ports : m.port[q].owner = 0 => p <= q

PortAllocHandler(m) ==
  LET p == FreePort(m)
  IN  [m EXCEPT !.port[p] = [Unowned EXCEPT !.owner = m.k.current_pid, !.write_ok = 1],
                !.uart[p] = Enable(@)]

PortWriteHandler_NoKick(m, byte, p) ==
  IF Len(m.port[p].write_q) = QUEUE_SIZE THEN m
  ELSE [m EXCEPT !.port[p].write_q = Enqueue(@, byte)]

PortWriteHandler(m, byte, p) ==
  IF Len(m.port[p].write_q) = QUEUE_SIZE THEN m
  ELSE LET queued == [m EXCEPT !.port[p].write_q = Enqueue(@, byte)]
       IN  IF queued.port[p].write_ok # 0 THEN PortWriteOne(queued, p) ELSE queued

PortReadHandler_Peeks(m, p) == m

PortReadHandler(m, p) ==
  IF Ring!queue_is_empty(m.port[p].read_q) THEN m
  ELSE [m EXCEPT !.port[p].read_q = Ring!queue_out(@)]

-----------------------------------------------------------------------------
(***************************************************************************)
(* The beginning, interrupts and the line.                                 *)
(***************************************************************************)
SerialInit ==
  /\ Init
  /\ port = [p \in Ports |-> Unowned]
  /\ uart = [p \in Ports |-> Silent]
  /\ proc = [pid \in TermPids |->
               [pc |-> "PortAlloc", my_port |-> 0, eax |-> 0, line |-> 1, at |-> 0, ch |-> 0]]
  /\ typed = 0
  /\ kind \in [Typed -> KINDS]

Boot == (Create \/ Start) /\ UNCHANGED io

TimerEvent == Timer /\ UNCHANGED io

\* The port's interrupt; late is a byte that arrives meanwhile, or NONE.
PortEvent(p, late) ==
  /\ Running
  /\ uart[p].irq
  /\ late # NONE => LATE_ARRIVALS /\ late = typed + 1 /\ Iir(uart[p]) = "RXRDY"
  /\ Becomes(PortHandler([Machine EXCEPT !.uart[p].irq = FALSE], p, late))
  /\ typed' = IF late = NONE THEN typed ELSE late
  /\ UNCHANGED <<proc, kind>>

\* PortAlloc() has returned to the port's owner.
SetUp(p) ==
  /\ port[p].owner # 0
  /\ proc[port[p].owner].pc \in {"WriteWait", "WriteInt", "ReadWait", "ReadInt"}

Type(p) ==
  /\ uart[p].enabled /\ typed < MAX_TYPED
  /\ TYPES_EARLY \/ SetUp(p)
  /\ typed' = typed + 1
  /\ uart' = [uart EXCEPT ![p] = Arrived(@, typed + 1)]
  /\ UNCHANGED <<vars, port, proc, kind>>

Transmit(p) ==
  /\ uart[p].thr # NONE
  /\ uart' = [uart EXCEPT ![p] = Sent(@)]
  /\ UNCHANGED <<vars, port, proc, typed, kind>>

-----------------------------------------------------------------------------
(***************************************************************************)
(* TermProc: PortAlloc(), then its five lines for ever.  A step is one     *)
(* system call, or the code from one to the next that writes to port[].    *)
(***************************************************************************)
Script == <<"write", "read", "write", "read", "write">>

\* t at the beginning of a line of the script.
AtLine(t, line) ==
  [t EXCEPT !.line = line, !.at = 0,
            !.pc = IF Script[line] = "write" THEN "WriteWait" ELSE "ReadWait"]

NextLine(t) == AtLine(t, (t.line % Len(Script)) + 1)

\* The process at pid runs from one pc to the next.
Goes(pid, from, to) ==
  /\ Running /\ current_pid = pid
  /\ proc[pid].pc = from
  /\ proc' = [proc EXCEPT ![pid] = to]
  /\ UNCHANGED <<typed, kind>>

\* A system call takes it there, and leaves m.
Calls(pid, from, to, m) == Goes(pid, from, to) /\ Becomes(m)

\* A plain store to its port's descriptor.
Stores(pid, from, to, descriptor) ==
  /\ Goes(pid, from, to)
  /\ port' = [port EXCEPT ![proc[pid].my_port] = descriptor]
  /\ UNCHANGED <<vars, uart>>

PortAlloc(pid) ==
  LET t == proc[pid]
      d == port[t.my_port]
      AllocSem(passes) == [Machine EXCEPT !.k = SemAllocHandler(@, passes)]
      Sid(passes)      == SemAllocResult(Memory, passes)
  IN
  \/ Calls(pid, "PortAlloc", [t EXCEPT !.pc = "AllocWriteSem", !.my_port = FreePort(Machine)],
           PortAllocHandler(Machine))
  \/ Calls(pid, "AllocWriteSem", [t EXCEPT !.pc = "StoreWriteSid", !.eax = Sid(QUEUE_SIZE)],
           AllocSem(QUEUE_SIZE))
  \/ Stores(pid, "StoreWriteSid", [t EXCEPT !.pc = "AllocReadSem"],
            [d EXCEPT !.write_sid = t.eax])
  \/ Calls(pid, "AllocReadSem", [t EXCEPT !.pc = "StoreReadSid", !.eax = Sid(0)], AllocSem(0))
  \/ Stores(pid, "StoreReadSid", [t EXCEPT !.pc = "ResetReadQ"], [d EXCEPT !.read_sid = t.eax])
  \/ Stores(pid, "ResetReadQ", AtLine(t, 1), [d EXCEPT !.read_q.size = 0])

\* SemWait on one of the port's semaphores, the system call of a wrapper's loop.
WaitOn(pid, from, to, sid) ==
  Calls(pid, from, [proc[pid] EXCEPT !.pc = to], [Machine EXCEPT !.k = SemWaitHandler(@, sid)])

PortWrite(pid) ==
  LET t    == proc[pid]
      last == t.at + 1 = PROMPT
  IN
  \/ WaitOn(pid, "WriteWait", "WriteInt", port[t.my_port].write_sid)
  \/ Calls(pid, "WriteInt",
           IF last THEN NextLine(t) ELSE [t EXCEPT !.pc = "WriteWait", !.at = @ + 1],
           PortWriteHandler(Machine, PromptByte, t.my_port))

\* The byte PortReadHandler leaves at *p; when read_q is empty, what was there.
ByteRead(pid) ==
  LET q == port[proc[pid].my_port].read_q
  IN  IF Ring!queue_is_empty(q) THEN proc[pid].ch ELSE Ring!queue_front(q)

\* '\r' ends the line, and so does a full buffer.  *p holds anything before the first byte.
PortRead(pid) ==
  LET t    == proc[pid]
      byte == ByteRead(pid)
  IN
  \/ WaitOn(pid, "ReadWait", "ReadInt", port[t.my_port].read_sid)
  \/ \E garbage \in KINDS :
       LET got == [t EXCEPT !.ch = byte]
           key == IF byte \in Typed THEN kind[byte] ELSE garbage
       IN  Calls(pid, "ReadInt",
                 IF key = "cr" \/ t.at + 1 = BUFF_SIZE - 1
                 THEN NextLine(got)
                 ELSE [got EXCEPT !.pc = "ReadWait", !.at = @ + 1],
                 PortReadHandler(Machine, t.my_port))

TermProc(pid) == PortAlloc(pid) \/ PortWrite(pid) \/ PortRead(pid)

SerialNext ==
  \/ Boot
  \/ TimerEvent
  \/ \E p \in Ports :
       \/ \E late \in {NONE} \cup Typed : PortEvent(p, late)
       \/ Type(p)
       \/ Transmit(p)
  \/ \E pid \in TermPids : TermProc(pid)

SerialSpec == SerialInit /\ [][SerialNext]_serialVars

(***************************************************************************)
(* The timer and the UART keep going, a pending interrupt is delivered,    *)
(* and a process that runs again and again gets something done: a time     *)
(* slice is far longer than an instruction.  Nobody has to type.           *)
(***************************************************************************)
SerialFairness ==
  /\ WF_serialVars(Boot) /\ WF_serialVars(TimerEvent)
  /\ \A p \in Ports : /\ WF_serialVars(\E late \in {NONE} \cup Typed : PortEvent(p, late))
                      /\ WF_serialVars(Transmit(p))
  /\ \A pid \in TermPids : SF_serialVars(TermProc(pid))

FairSerialSpec == SerialSpec /\ SerialFairness

-----------------------------------------------------------------------------
RingType == [head : Ring!Slots, tail : Ring!Slots, size : 0 .. QUEUE_SIZE,
             items : [Ring!Slots -> {0} \cup Typed]]

PortType == [owner : {0} \cup Pids, write_sid : Sids, read_sid : Sids, write_ok : {0, 1},
             write_q : Seq({PromptByte}), read_q : RingType,
             loopback_q : Seq(Typed \cup {NewLine})]

UartType == [enabled : BOOLEAN, thre : BOOLEAN, irq : BOOLEAN, rbr : {NONE} \cup Typed,
             thr : {NONE, PromptByte, NewLine} \cup Typed]

ProcType == [pc : {"PortAlloc", "AllocWriteSem", "StoreWriteSid", "AllocReadSem",
                   "StoreReadSid", "ResetReadQ", "WriteWait", "WriteInt", "ReadWait", "ReadInt"},
             my_port : Ports, eax : Sids, line : 1 .. Len(Script),
             at : 0 .. PROMPT + BUFF_SIZE, ch : {0} \cup Typed]

SerialTypeOK ==
  /\ TypeOK
  /\ port \in [Ports -> PortType]
  /\ \A p \in Ports : Len(port[p].write_q) <= QUEUE_SIZE /\ Len(port[p].loopback_q) <= QUEUE_SIZE
  /\ uart \in [Ports -> UartType]
  /\ proc \in [TermPids -> ProcType]
  /\ typed \in 0 .. MAX_TYPED

\* 1 if the port's owner has got a pass at pc and not yet made the call it is for.
Holds(p, pc) ==
  IF proc[port[p].owner].pc = pc /\ pcb[port[p].owner].state # "WAIT" THEN 1 ELSE 0

(***************************************************************************)
(* A pass of write_sid is a free slot of write_q: whatever the order of    *)
(* the process, the timer and the interrupts, passes, queued bytes and the *)
(* slot a process has been given but not filled add up to the queue.  So   *)
(* PortWriteHandler never finds the queue full (handlers.c:390-393).       *)
(***************************************************************************)
WriteCredit ==
  \A p \in Ports : SetUp(p) =>
    sem[port[p].write_sid].passes + Len(port[p].write_q) + Holds(p, "WriteInt") = QUEUE_SIZE

(***************************************************************************)
(* A pass of read_sid is a byte in read_q, counting the byte a process has *)
(* been promised but not fetched: SemWait(read_sid) does what the comment  *)
(* of PortReadHandler relies on.                                           *)
(***************************************************************************)
ReadCredit ==
  \A p \in Ports : SetUp(p) =>
    sem[port[p].read_sid].passes + Holds(p, "ReadInt") = port[p].read_q.size

(***************************************************************************)
(* Output never gets stuck: while there is something to send, a byte is on *)
(* its way or an interrupt is about to ask for the next one.               *)
(***************************************************************************)
NoStuckOutput ==
  \A p \in Ports :
    port[p].write_q # <<>> \/ port[p].loopback_q # <<>> =>
      uart[p].thr # NONE \/ uart[p].irq

\* The bytes of port p from the one read last to the one just received, oldest first.
Pipeline(p) ==
  <<proc[port[p].owner].ch>> \o Ring!Contents(port[p].read_q)
    \o (IF uart[p].rbr = NONE THEN <<>> ELSE <<uart[p].rbr>>)

\* TermProc gets the bytes in the order they were typed, and none twice.
ReadInOrder ==
  \A p \in Ports : port[p].owner # 0 =>
    \A i, j \in DOMAIN Pipeline(p) : i < j => Pipeline(p)[i] < Pipeline(p)[j]

(***************************************************************************)
(* What TermProc waits for happens: a byte in read_q is read, although the *)
(* process must first get its prompts through a slow UART and the CPU back *)
(* from proc.c Init.                                                       *)
(***************************************************************************)
BytesAreRead ==
  \A p \in Ports, n \in Typed :
    (\E i \in DOMAIN Ring!Contents(port[p].read_q) : Ring!Contents(port[p].read_q)[i] = n)
      ~> (port[p].owner # 0 /\ proc[port[p].owner].ch >= n)

-----------------------------------------------------------------------------
(***************************************************************************)
(* What comments of the source say and the code does not do.               *)
(***************************************************************************)
\* types.h:137 on write_ok: "1 = UART TX path is idle; 0 = a TX is in progress".
WriteOkMeansIdle ==
  \A p \in Ports : port[p].write_ok = 1 => uart[p].thr = NONE

\* handlers.c:410-411: PortRead() "has already called SemWait(read_sid) to ensure at least
\* one character is in read_q".
PortReadFindsCharacter ==
  \A p \in Ports : SetUp(p) /\ Holds(p, "ReadInt") = 1 => port[p].read_q.size > 0

\* syscall.c:180: "The UART's RX interrupt -> PortReadOne() posts read_sid for each byte".
ReceivedIsServed == \A p \in Ports : uart[p].rbr # NONE ~> uart[p].rbr = NONE
=============================================================================
