--------------------------- MODULE SerialPortProofs ---------------------------
(***************************************************************************)
(* The invariants of the serial driver, for any number of ports and of     *)
(* terminal processes, and queues, prompts and lines of any length: the    *)
(* semaphores count the queues, the input stays in order and the output    *)
(* keeps flowing.                                                          *)
(*                                                                         *)
(* The invariants are stated of a machine m, the processes pr and the      *)
(* number n of bytes typed, so that they can be followed through the loop  *)
(* of PortHandler.  What PortHandler keeps of them comes first, then every *)
(* other step.                                                             *)
(***************************************************************************)
EXTENDS SerialPort, KernelProofs, IntervalInduction

-----------------------------------------------------------------------------
(***************************************************************************)
(* The parts of the invariants.                                            *)
(***************************************************************************)
MachineType == [k : MemoryType, port : [Ports -> PortType], uart : [Ports -> UartType]]

Bounded(m) ==
  \A p \in Ports : Len(m.port[p].write_q) <= QUEUE_SIZE /\ Len(m.port[p].loopback_q) <= QUEUE_SIZE

\* A process has the port it was given, and a port nobody was given is as it was cleared.
Owned(m, pr) ==
  /\ \A p \in Ports :
       \/ m.port[p] = Unowned /\ m.uart[p] = Silent
       \/ /\ m.port[p].owner \in TermPids /\ m.port[p].write_ok = 1
          /\ pr[m.port[p].owner].my_port = p /\ pr[m.port[p].owner].pc # "PortAlloc"
  /\ \A pid \in TermPids : pr[pid].pc # "PortAlloc" => m.port[pr[pid].my_port].owner = pid

\* The process t has its semaphores; their IDs are in EAX first, then in its port.
HasWriteSid(t) == t.pc \notin {"PortAlloc", "AllocWriteSem"}
HasReadSid(t)  == HasWriteSid(t) /\ t.pc \notin {"StoreWriteSid", "AllocReadSem"}
WriteSid(m, t) == IF t.pc = "StoreWriteSid" THEN t.eax ELSE m.port[t.my_port].write_sid
ReadSid(m, t)  == IF t.pc = "StoreReadSid" THEN t.eax ELSE m.port[t.my_port].read_sid

\* A semaphore belongs to one process, and is one of its two.
Sems(m, pr) ==
  /\ \A pid \in TermPids : HasWriteSid(pr[pid]) => m.k.sem[WriteSid(m, pr[pid])].owner = pid
  /\ \A pid \in TermPids :
       HasReadSid(pr[pid]) => /\ m.k.sem[ReadSid(m, pr[pid])].owner = pid
                              /\ ReadSid(m, pr[pid]) # WriteSid(m, pr[pid])
  /\ \A sid \in Sids :
       LET pid == m.k.sem[sid].owner IN
       \/ pid = 0
       \/ /\ pid \in TermPids
          /\ \/ HasWriteSid(pr[pid]) /\ sid = WriteSid(m, pr[pid])
             \/ HasReadSid(pr[pid]) /\ sid = ReadSid(m, pr[pid])

\* Who waits is a terminal process, on the semaphore of the call it is about to make.
Waiting(m, pr) ==
  \A sid \in Sids : \A pid \in Waiters(m.k, sid) :
    /\ pid \in TermPids
    /\ \/ pr[pid].pc = "WriteInt" /\ sid = WriteSid(m, pr[pid])
       \/ pr[pid].pc = "ReadInt"  /\ sid = ReadSid(m, pr[pid])

\* A process is not past the end of its prompt or line, and has read nothing without a port.
InLine(t) ==
  /\ t.pc \in {"WriteWait", "WriteInt"} => t.at < PROMPT
  /\ t.pc \in {"ReadWait", "ReadInt"}   => t.at < BUFF_SIZE - 1
  /\ t.at = 0 \/ t.pc \in {"WriteWait", "WriteInt", "ReadWait", "ReadInt"}
  /\ t.pc = "PortAlloc" => t.ch = 0

Processes(pr) == pr \in [TermPids -> ProcType] /\ \A pid \in TermPids : InLine(pr[pid])

Base(m, pr) ==
  /\ m \in MachineType /\ Good(m.k) /\ Bounded(m)
  /\ Processes(pr) /\ Owned(m, pr) /\ Sems(m, pr) /\ Waiting(m, pr)

\* Nothing is in the port of a process that is still in PortAlloc().
Working == {"WriteWait", "WriteInt", "ReadWait", "ReadInt"}

Quiet(m, pr) ==
  \A p \in Ports :
    \/ m.port[p].owner # 0 /\ pr[m.port[p].owner].pc \in Working
    \/ m.port[p].write_q = <<>> /\ m.port[p].read_q = Ring!queue_init /\ m.uart[p].rbr = NONE

\* pid has got a pass of sid at pc and not yet made the call it is for.
Pass(m, pr, pid, pc, sid) == IF pr[pid].pc = pc /\ pid \notin Waiters(m.k, sid) THEN 1 ELSE 0

\* WriteCredit and ReadCredit of a process, from the allocation of its semaphores on.
WriteCounted(m, pr, pid) ==
  LET w == WriteSid(m, pr[pid])
  IN  m.k.sem[w].passes + Len(m.port[pr[pid].my_port].write_q)
        + Pass(m, pr, pid, "WriteInt", w) = QUEUE_SIZE

ReadCounted(m, pr, pid) ==
  LET r == ReadSid(m, pr[pid])
  IN  m.k.sem[r].passes + Pass(m, pr, pid, "ReadInt", r) = m.port[pr[pid].my_port].read_q.size

Counted(m, pr) ==
  \A pid \in TermPids : /\ HasWriteSid(pr[pid]) => WriteCounted(m, pr, pid)
                        /\ HasReadSid(pr[pid])  => ReadCounted(m, pr, pid)

\* The bytes of a port are in order: ch, the last one read, then the ring q, then rbr.
Ordered(ch, q, rbr, n) ==
  /\ q.tail = IF q.head + q.size < QUEUE_SIZE THEN q.head + q.size ELSE q.head + q.size - QUEUE_SIZE
  /\ \A i, j \in 1 .. q.size : i < j => Ring!Contents(q)[i] < Ring!Contents(q)[j]
  /\ \A i \in 1 .. q.size : /\ ch < Ring!Contents(q)[i] /\ Ring!Contents(q)[i] <= n
                            /\ rbr # NONE => Ring!Contents(q)[i] < rbr
  /\ ch <= n
  /\ rbr # NONE => ch < rbr /\ rbr <= n

InputOrdered(m, pr, n) ==
  \A p \in Ports : m.port[p].owner # 0 =>
    Ordered(pr[m.port[p].owner].ch, m.port[p].read_q, m.uart[p].rbr, n)

\* Whoever has something to send waits for an interrupt, or for a byte whose end will be one.
Flows(d, u) ==
  /\ d.owner # 0 => u.enabled
  /\ d.write_q # <<>> \/ d.loopback_q # <<>> =>
       u.irq \/ (u.thr # NONE /\ ~u.thre /\ u.rbr = NONE)

OutputFlows(m) == \A p \in Ports : Flows(m.port[p], m.uart[p])

\* The invariant of every run, and what the driver's rules add to it.
SInv ==
  IInv /\ Base(Machine, proc) /\ typed \in 0 .. MAX_TYPED

CreditInv == Quiet(Machine, proc) /\ Counted(Machine, proc)
OrderInv  == InputOrdered(Machine, proc, typed)
FlowInv   == OutputFlows(Machine)

-----------------------------------------------------------------------------
(***************************************************************************)
(* Constants, queues and the UART.                                         *)
(***************************************************************************)
LEMMA Constants ==
  /\ PORT_NUM \in Nat /\ NPROCS \in Nat /\ NPROCS >= 2 /\ PORT_NUM >= NPROCS - 1
  /\ Q_SIZE \in Nat /\ Q_SIZE >= 2 * (NPROCS - 1)
  /\ QUEUE_SIZE \in Nat \ {0} /\ BUFF_SIZE \in Nat /\ BUFF_SIZE >= 2
  /\ PROMPT \in Nat \ {0} /\ MAX_TYPED \in Nat
  /\ 0 \in Ports /\ 0 \in Sids /\ 0 \in INIT_PASSES /\ QUEUE_SIZE \in INIT_PASSES
  /\ TermPids \subseteq Pids /\ 0 \notin TermPids /\ InitPid \notin TermPids
<1>1. /\ PROC_NUM \in Nat \ {0} /\ QUEUE_SIZE \in Nat /\ QUEUE_SIZE >= PROC_NUM - 1
      /\ Q_SIZE \in Nat /\ NPROCS \in 1 .. PROC_NUM - 1
  BY KernelAssumption DEF KernelAssumption
<1>2. /\ NPROCS >= 2 /\ PORT_NUM \in Nat /\ PORT_NUM >= NPROCS - 1
      /\ Q_SIZE >= 2 * (NPROCS - 1) /\ {0, QUEUE_SIZE} \subseteq INIT_PASSES
      /\ BUFF_SIZE \in Nat /\ BUFF_SIZE >= 2 /\ PROMPT \in Nat \ {0} /\ MAX_TYPED \in Nat
  BY SerialAssumption DEF SerialAssumption
<1>3. NPROCS \in Nat /\ QUEUE_SIZE # 0
  BY <1>1, <1>2
<1>4. 0 \in Ports /\ 0 \in Sids
  BY <1>1, <1>2, <1>3 DEF Ports, Sids
<1>5. TermPids \subseteq Pids /\ 0 \notin TermPids /\ InitPid \notin TermPids
  BY <1>1, <1>3 DEF TermPids, Pids, InitPid
<1>6. QED  BY <1>1, <1>2, <1>3, <1>4, <1>5

LEMMA Bytes ==
  /\ NONE = 0 /\ NONE \notin Typed /\ Typed \subseteq Nat
  /\ PromptByte \in Nat \ Typed /\ PromptByte # NONE
  /\ NewLine \in Nat \ Typed /\ NewLine # NONE
<1>1. MAX_TYPED \in Nat
  BY Constants
<1>2. QED  BY <1>1 DEF NONE, Typed, PromptByte, NewLine

LEMMA BytesAreNumbers ==
  ASSUME NEW byte \in {0} \cup Typed
  PROVE  byte \in Nat
<1>1. MAX_TYPED \in Nat
  BY Constants
<1>2. QED  BY <1>1 DEF Typed

\* The bytes that can be sent.
Sendable == {PromptByte, NewLine} \cup Typed

LEMMA WriteDataIs ==
  ASSUME NEW u \in UartType, NEW byte \in Sendable
  PROVE  /\ WriteData(u, byte) \in UartType
         /\ WriteData(u, byte).rbr = u.rbr /\ WriteData(u, byte).thr # NONE
         /\ ~WriteData(u, byte).thre /\ WriteData(u, byte).enabled = u.enabled
         /\ u.irq => WriteData(u, byte).irq
  BY Bytes DEF WriteData, Edge, Line, UartType, Sendable

LEMMA ReadDataIs ==
  ASSUME NEW u \in UartType, NEW late \in {NONE} \cup Typed
  PROVE  /\ Arrived(ReadData(u), late) \in UartType
         /\ Arrived(ReadData(u), late).rbr = late
         /\ Arrived(ReadData(u), late).enabled = u.enabled
         /\ u.irq => Arrived(ReadData(u), late).irq
<1>1. /\ ReadData(u) \in UartType /\ ReadData(u).rbr = NONE /\ ReadData(u).enabled = u.enabled
      /\ u.irq => ReadData(u).irq
  BY DEF ReadData, Edge, Line, UartType
<1>2. QED  BY <1>1 DEF Arrived, Edge, Line, UartType

LEMMA ArrivedIs ==
  ASSUME NEW u \in UartType, NEW byte \in Typed
  PROVE  /\ Arrived(u, byte) \in UartType /\ Arrived(u, byte).rbr = byte
         /\ Arrived(u, byte).enabled = u.enabled
         /\ u.irq \/ (u.enabled /\ ~Line(u)) => Arrived(u, byte).irq
  BY Bytes DEF Arrived, Edge, Line, UartType

LEMMA ReadIirIs ==
  ASSUME NEW u \in UartType
  PROVE  /\ ReadIir(u) \in UartType /\ ReadIir(u).rbr = u.rbr /\ ReadIir(u).enabled = u.enabled
         /\ u.irq => ReadIir(u).irq
  BY DEF ReadIir, Iir, Edge, Line, UartType

LEMMA SentIs ==
  ASSUME NEW u \in UartType
  PROVE  /\ Sent(u) \in UartType /\ Sent(u).rbr = u.rbr /\ Sent(u).enabled = u.enabled
         /\ u.irq \/ (u.enabled /\ ~Line(u)) => Sent(u).irq
  BY DEF Sent, Edge, Line, UartType

LEMMA EnableIs ==
  ASSUME NEW u \in UartType
  PROVE  Enable(u) \in UartType /\ Enable(u).rbr = NONE /\ Enable(u).enabled
  BY DEF Enable, Edge, Line, UartType

-----------------------------------------------------------------------------
(***************************************************************************)
(* What the lower half makes of a machine, field by field.                 *)
(***************************************************************************)
MachineOf(k, ports, uarts) == [k |-> k, port |-> ports, uart |-> uarts]

LEMMA MachineFields ==
  ASSUME NEW m \in MachineType
  PROVE  /\ m = MachineOf(m.k, m.port, m.uart)
         /\ m.k \in MemoryType /\ m.port \in [Ports -> PortType] /\ m.uart \in [Ports -> UartType]
  BY DEF MachineType, MachineOf

LEMMA PortFields ==
  ASSUME NEW d \in PortType
  PROVE  /\ d.owner \in {0} \cup Pids /\ d.write_sid \in Sids /\ d.read_sid \in Sids
         /\ d.write_ok \in {0, 1} /\ d.write_q \in Seq({PromptByte})
         /\ d.read_q \in RingType /\ d.loopback_q \in Seq(Typed \cup {NewLine})
  BY DEF PortType

LEMMA ProcFields ==
  ASSUME NEW t \in ProcType
  PROVE  /\ t.my_port \in Ports /\ t.eax \in Sids /\ t.line \in 1 .. 5
         /\ t.at \in 0 .. PROMPT + BUFF_SIZE /\ t.at \in Nat
         /\ t.ch \in {0} \cup Typed /\ t.ch \in Nat
<1>1. Len(Script) = 5
  BY DEF Script
<1>2. /\ t.my_port \in Ports /\ t.eax \in Sids /\ t.line \in 1 .. 5
      /\ t.at \in 0 .. PROMPT + BUFF_SIZE /\ t.ch \in {0} \cup Typed
  BY <1>1 DEF ProcType
<1>3. t.at \in Nat
  BY <1>2, Constants
<1>4. t.ch \in Nat
  BY <1>2, BytesAreNumbers
<1>5. QED  BY <1>2, <1>3, <1>4

\* PortWriteOne sends an echo, or a byte of write_q, or finds nothing to send.
LEMMA WriteOneIs ==
  ASSUME NEW m \in MachineType, NEW p \in Ports
  PROVE  LET d == m.port[p]
             Sends(byte) == [m.uart EXCEPT ![p] = WriteData(m.uart[p], byte)]
         IN
         \/ /\ d.loopback_q # <<>>
            /\ PortWriteOne(m, p) =
                 MachineOf(m.k, [m.port EXCEPT ![p] = [d EXCEPT !.loopback_q = Tail(d.loopback_q)]],
                           Sends(Head(d.loopback_q)))
         \/ /\ d.loopback_q = <<>> /\ d.write_q # <<>>
            /\ PortWriteOne(m, p) =
                 MachineOf(SemPostHandler(m.k, d.write_sid),
                           [m.port EXCEPT ![p] = [d EXCEPT !.write_q = Tail(d.write_q)]],
                           Sends(Head(d.write_q)))
         \/ /\ d.loopback_q = <<>> /\ d.write_q = <<>>
            /\ PortWriteOne(m, p) =
                 MachineOf(m.k, [m.port EXCEPT ![p] = [d EXCEPT !.write_ok = 1]], m.uart)
<1> DEFINE d == m.port[p]
<1>1. /\ m = MachineOf(m.k, m.port, m.uart)
      /\ m.port \in [Ports -> PortType] /\ m.uart \in [Ports -> UartType]
  BY MachineFields
<1>2. CASE d.loopback_q # <<>>
  BY <1>1, <1>2 DEF PortWriteOne, Out, MachineOf
<1>3. CASE d.loopback_q = <<>> /\ d.write_q # <<>>
  BY <1>1, <1>3 DEF PortWriteOne, Out, MachineOf
<1>4. CASE d.loopback_q = <<>> /\ d.write_q = <<>>
  BY <1>1, <1>4 DEF PortWriteOne, MachineOf
<1>5. QED  BY <1>2, <1>3, <1>4

\* PortReadOne drops a byte, or puts it into both queues and posts read_sid.
LEMMA ReadOneIs ==
  ASSUME NEW m \in MachineType, NEW p \in Ports, NEW late
  PROVE  LET d == m.port[p]
             byte == m.uart[p].rbr
             uarts == [m.uart EXCEPT ![p] = Arrived(ReadData(m.uart[p]), late)]
         IN
         \/ /\ d.read_q.size = QUEUE_SIZE
            /\ PortReadOne(m, p, late) = MachineOf(m.k, m.port, uarts)
         \/ /\ d.read_q.size # QUEUE_SIZE
            /\ PortReadOne(m, p, late) =
                 MachineOf(SemPostHandler(m.k, d.read_sid),
                           [m.port EXCEPT ![p] = [d EXCEPT !.read_q = Ring!queue_in(d.read_q, byte),
                                                           !.loopback_q = Echo(d.loopback_q, byte)]],
                           uarts)
<1> DEFINE d == m.port[p]
           byte == m.uart[p].rbr
<1>1. /\ m = MachineOf(m.k, m.port, m.uart)
      /\ m.port \in [Ports -> PortType] /\ m.uart \in [Ports -> UartType]
  BY MachineFields
<1>2. CASE d.read_q.size = QUEUE_SIZE
  BY <1>1, <1>2 DEF PortReadOne, Ring!queue_is_full, MachineOf
<1>3. CASE d.read_q.size # QUEUE_SIZE
  BY <1>1, <1>3 DEF PortReadOne, Ring!queue_is_full, MachineOf
<1>4. QED  BY <1>2, <1>3

LEMMA EnqueueIs ==
  ASSUME NEW S, NEW q \in Seq(S), Len(q) <= QUEUE_SIZE, NEW x \in S
  PROVE  /\ Enqueue(q, x) \in Seq(S) /\ Len(Enqueue(q, x)) <= QUEUE_SIZE
         /\ Enqueue(q, x) # <<>>
         /\ Len(q) # QUEUE_SIZE => Len(Enqueue(q, x)) = Len(q) + 1
<1>1. Len(q) \in Nat /\ QUEUE_SIZE \in Nat \ {0}
  BY LenProperties, Constants
<1>2. CASE Len(q) = QUEUE_SIZE
  <2>1. q # <<>>
    BY <1>1, <1>2, EmptySeq
  <2>2. QED  BY <1>2, <2>1 DEF Enqueue
<1>3. CASE Len(q) # QUEUE_SIZE
  BY <1>1, <1>3, AppendProperties DEF Enqueue
<1>4. QED  BY <1>2, <1>3

LEMMA EchoIs ==
  ASSUME NEW q \in Seq(Typed \cup {NewLine}), Len(q) <= QUEUE_SIZE, NEW byte \in Typed
  PROVE  /\ Echo(q, byte) \in Seq(Typed \cup {NewLine}) /\ Len(Echo(q, byte)) <= QUEUE_SIZE
         /\ Echo(q, byte) # <<>>
<1>1. byte \in Typed \cup {NewLine} /\ NewLine \in Typed \cup {NewLine}
  OBVIOUS
<1> DEFINE one == Enqueue(q, byte)
<1>2. one \in Seq(Typed \cup {NewLine}) /\ Len(one) <= QUEUE_SIZE /\ one # <<>>
  BY <1>1, EnqueueIs
<1> HIDE DEF one
<1>3. LET two == Enqueue(one, NewLine)
      IN  two \in Seq(Typed \cup {NewLine}) /\ Len(two) <= QUEUE_SIZE /\ two # <<>>
  BY <1>1, <1>2, EnqueueIs
<1>4. Echo(q, byte) = one \/ Echo(q, byte) = Enqueue(one, NewLine)
  BY DEF Echo, one
<1>5. QED  BY <1>2, <1>3, <1>4

LEMMA TailIs ==
  ASSUME NEW S, NEW q \in Seq(S), q # <<>>
  PROVE  Tail(q) \in Seq(S) /\ Len(Tail(q)) = Len(q) - 1 /\ Head(q) \in S /\ Len(q) \in Nat \ {0}
  BY HeadTailProperties, LenProperties, EmptySeq

LEMMA RingFields ==
  ASSUME NEW q \in RingType
  PROVE  /\ q.head \in Nat /\ q.head < QUEUE_SIZE /\ q.tail \in Nat /\ q.tail < QUEUE_SIZE
         /\ q.size \in Nat /\ q.size <= QUEUE_SIZE /\ q.head \in Ring!Slots /\ q.tail \in Ring!Slots
         /\ q.items \in [Ring!Slots -> {0} \cup Typed]
<1>1. QUEUE_SIZE \in Nat \ {0}
  BY Constants
<1>2. /\ q.head \in Ring!Slots /\ q.tail \in Ring!Slots /\ q.size \in 0 .. QUEUE_SIZE
      /\ q.items \in [Ring!Slots -> {0} \cup Typed]
  BY DEF RingType
<1>3. QED  BY <1>1, <1>2 DEF Ring!Slots

LEMMA RingForward ==
  ASSUME NEW i \in Ring!Slots
  PROVE  Ring!Forward(i) \in Ring!Slots
  BY Constants DEF Ring!Forward, Ring!Slots

LEMMA QueueInIs ==
  ASSUME NEW q \in RingType, q.size # QUEUE_SIZE, NEW byte \in Typed
  PROVE  /\ Ring!queue_in(q, byte) =
              [head |-> q.head, tail |-> Ring!Forward(q.tail), size |-> q.size + 1,
               items |-> [q.items EXCEPT ![q.tail] = byte]]
         /\ Ring!queue_in(q, byte) \in RingType
<1>1. Ring!queue_in(q, byte) =
        [head |-> q.head, tail |-> Ring!Forward(q.tail), size |-> q.size + 1,
         items |-> [q.items EXCEPT ![q.tail] = byte]]
  BY DEF Ring!queue_in, Ring!queue_is_full
<1>2. q.size + 1 \in 0 .. QUEUE_SIZE
  BY RingFields, Constants
<1>3. [q.items EXCEPT ![q.tail] = byte] \in [Ring!Slots -> {0} \cup Typed]
  BY RingFields
<1>4. QED  BY <1>1, <1>2, <1>3, RingFields, RingForward DEF RingType

LEMMA QueueOutIs ==
  ASSUME NEW q \in RingType, q.size # 0
  PROVE  /\ Ring!queue_out(q) =
              [head |-> Ring!Forward(q.head), tail |-> q.tail, size |-> q.size - 1,
               items |-> [q.items EXCEPT ![q.head] = 0]]
         /\ Ring!queue_out(q) \in RingType
         /\ Ring!queue_front(q) \in {0} \cup Typed
<1>1. Ring!queue_out(q) =
        [head |-> Ring!Forward(q.head), tail |-> q.tail, size |-> q.size - 1,
         items |-> [q.items EXCEPT ![q.head] = 0]]
  BY DEF Ring!queue_out, Ring!queue_is_empty
<1>2. q.size - 1 \in 0 .. QUEUE_SIZE
  BY RingFields, Constants
<1>3. [q.items EXCEPT ![q.head] = 0] \in [Ring!Slots -> {0} \cup Typed]
  BY RingFields
<1>4. QED  BY <1>1, <1>2, <1>3, RingFields, RingForward DEF RingType, Ring!queue_front

\* Each field of a port descriptor can be replaced by a value of its type.
LEMMA SetPort ==
  ASSUME NEW d \in PortType
  PROVE  /\ \A q \in Seq({PromptByte}) : [d EXCEPT !.write_q = q] \in PortType
         /\ \A q \in Seq(Typed \cup {NewLine}) : [d EXCEPT !.loopback_q = q] \in PortType
         /\ \A q \in RingType : [d EXCEPT !.read_q = q] \in PortType
         /\ \A q \in RingType, r \in Seq(Typed \cup {NewLine}) :
              [d EXCEPT !.read_q = q, !.loopback_q = r] \in PortType
         /\ [d EXCEPT !.write_ok = 1] \in PortType
         /\ \A sid \in Sids : /\ [d EXCEPT !.write_sid = sid] \in PortType
                              /\ [d EXCEPT !.read_sid = sid] \in PortType
  BY DEF PortType

LEMMA UnownedTyped == Unowned \in PortType /\ Silent \in UartType /\ Ring!queue_init \in RingType
<1>1. 0 \in Ring!Slots /\ QUEUE_SIZE \in Nat /\ 0 \in Sids
  BY Constants DEF Ring!Slots
<1>2. Ring!queue_init \in RingType
  BY <1>1 DEF Ring!queue_init, RingType
<1>3. <<>> \in Seq({PromptByte}) /\ <<>> \in Seq(Typed \cup {NewLine})
  BY EmptySeq
<1>4. Unowned \in PortType
  BY <1>1, <1>2, <1>3 DEF Unowned, PortType
<1>5. QED  BY <1>2, <1>4 DEF Silent, UartType

-----------------------------------------------------------------------------
(***************************************************************************)
(* The lower half preserves Base: it posts semaphores and changes queues   *)
(* and registers of ports that have an owner.                              *)
(***************************************************************************)
Runs(k) == k.current_pid # 0 /\ InitRunnable(k)

LEMMA PostIs ==
  ASSUME NEW k, Good(k), Runs(k), NEW sid \in Sids
  PROVE  LET k1 == SemPostHandler(k, sid) IN
         /\ Good(k1) /\ Runs(k1) /\ k1.current_pid = k.current_pid
         /\ \A s \in Sids : /\ k1.sem[s].owner = k.sem[s].owner
                            /\ Waiters(k1, s) \subseteq Waiters(k, s)
                            /\ s # sid => k1.sem[s] = k.sem[s]
         /\ Waiters(k, sid) = {} =>
              k1.sem[sid].passes = k.sem[sid].passes + 1 /\ Waiters(k1, sid) = {}
         /\ Waiters(k, sid) # {} =>
              /\ k1.sem[sid].passes = k.sem[sid].passes
              /\ \E pid \in Waiters(k, sid) : Waiters(k1, sid) = Waiters(k, sid) \ {pid}
<1> DEFINE k1 == SemPostHandler(k, sid)
<1>1. /\ Good(k1) /\ k1.current_pid = k.current_pid /\ InitRunnable(k1)
      /\ k1.sem = IF k.sem[sid].wait_q = <<>>
                  THEN [k.sem EXCEPT ![sid].passes = @ + 1]
                  ELSE [k.sem EXCEPT ![sid].wait_q = Tail(@)]
  BY SemPostGood DEF Runs
<1> HIDE DEF k1
<1>2. k.sem \in [Sids -> SemType] /\ NoRepeats(k.sem[sid].wait_q)
  BY MemoryFields DEF Good, Placed
<1>3. k.sem[sid].wait_q \in Seq(Pids)
  BY <1>2 DEF SemType
<1>4. CASE k.sem[sid].wait_q = <<>>
  <2>1. /\ \A s \in Sids : s # sid => k1.sem[s] = k.sem[s]
        /\ k1.sem[sid].owner = k.sem[sid].owner /\ k1.sem[sid].wait_q = k.sem[sid].wait_q
        /\ k1.sem[sid].passes = k.sem[sid].passes + 1
    BY <1>1, <1>2, <1>4 DEF SemType
  <2>2. Waiters(k, sid) = {} /\ Waiters(k1, sid) = {}
    BY <1>4, <2>1 DEF Waiters, Members
  <2>3. \A s \in Sids : Waiters(k1, s) \subseteq Waiters(k, s)
    BY <2>1, <2>2 DEF Waiters
  <2>4. QED  BY <1>1, <2>1, <2>2, <2>3 DEF Runs, k1
<1>5. CASE k.sem[sid].wait_q # <<>>
  <2>1. /\ \A s \in Sids : s # sid => k1.sem[s] = k.sem[s]
        /\ k1.sem[sid].owner = k.sem[sid].owner
        /\ k1.sem[sid].wait_q = Tail(k.sem[sid].wait_q)
        /\ k1.sem[sid].passes = k.sem[sid].passes
    BY <1>1, <1>2, <1>5 DEF SemType
  <2>2. /\ Head(k.sem[sid].wait_q) \in Members(k.sem[sid].wait_q)
        /\ Members(Tail(k.sem[sid].wait_q)) =
             Members(k.sem[sid].wait_q) \ {Head(k.sem[sid].wait_q)}
    BY <1>2, <1>3, <1>5, MembersOfTail
  <2>3. \E pid \in Waiters(k, sid) : Waiters(k1, sid) = Waiters(k, sid) \ {pid}
    BY <2>1, <2>2 DEF Waiters
  <2>4. \A s \in Sids : Waiters(k1, s) \subseteq Waiters(k, s)
    BY <2>1, <2>3 DEF Waiters
  <2>5. QED  BY <1>1, <2>1, <2>3, <2>4 DEF Runs, k1
<1>6. QED  BY <1>4, <1>5

\* A port's descriptor is changed, but not who owns it and what its semaphores are.
SameEnds(d, e) ==
  /\ e.owner = d.owner /\ e.write_sid = d.write_sid /\ e.read_sid = d.read_sid
  /\ d.write_ok = 1 => e.write_ok = 1

Posts(k, k1) == k1 = k \/ \E sid \in Sids : k1 = SemPostHandler(k, sid)

LEMMA BaseKept ==
  ASSUME NEW m, NEW pr, Base(m, pr), Runs(m.k),
         NEW p \in Ports, m.port[p].owner # 0,
         NEW k1, Posts(m.k, k1),
         NEW d \in PortType, SameEnds(m.port[p], d),
         Len(d.write_q) <= QUEUE_SIZE, Len(d.loopback_q) <= QUEUE_SIZE,
         NEW u \in UartType
  PROVE  /\ Base(MachineOf(k1, [m.port EXCEPT ![p] = d], [m.uart EXCEPT ![p] = u]), pr)
         /\ Runs(k1)
<1> DEFINE ports == [m.port EXCEPT ![p] = d]
           uarts == [m.uart EXCEPT ![p] = u]
           n == MachineOf(k1, ports, uarts)
<1>1. /\ m \in MachineType /\ Good(m.k) /\ Bounded(m)
      /\ Processes(pr) /\ Owned(m, pr) /\ Sems(m, pr) /\ Waiting(m, pr)
  BY DEF Base
<1>2. /\ m.port \in [Ports -> PortType] /\ m.uart \in [Ports -> UartType]
  BY <1>1, MachineFields
<1>3. /\ Good(k1) /\ Runs(k1)
      /\ \A s \in Sids : /\ k1.sem[s].owner = m.k.sem[s].owner
                         /\ Waiters(k1, s) \subseteq Waiters(m.k, s)
  <2>1. CASE k1 = m.k
    BY <1>1, <2>1
  <2>2. ASSUME NEW sid \in Sids, k1 = SemPostHandler(m.k, sid)
        PROVE  /\ Good(k1) /\ Runs(k1)
               /\ \A s \in Sids : /\ k1.sem[s].owner = m.k.sem[s].owner
                                  /\ Waiters(k1, s) \subseteq Waiters(m.k, s)
    BY <1>1, <2>2, PostIs
  <2>3. QED  BY <2>1, <2>2 DEF Posts
<1>4. n.k = k1 /\ n.port = ports /\ n.uart = uarts
  BY DEF MachineOf
<1>5. /\ ports \in [Ports -> PortType] /\ uarts \in [Ports -> UartType]
      /\ ports[p] = d /\ uarts[p] = u
      /\ \A q \in Ports : q # p => ports[q] = m.port[q] /\ uarts[q] = m.uart[q]
  BY <1>2
<1>6. n \in MachineType
  BY <1>3, <1>5 DEF MachineType, MachineOf, Good
<1> HIDE DEF n, ports, uarts
<1>7. Bounded(n)
  BY <1>1, <1>4, <1>5 DEF Bounded
<1>8. \A q \in Ports : SameEnds(m.port[q], n.port[q])
  BY <1>4, <1>5 DEF SameEnds
<1>9. Owned(n, pr)
  <2>1. ASSUME NEW q \in Ports
        PROVE  \/ n.port[q] = Unowned /\ n.uart[q] = Silent
               \/ /\ n.port[q].owner \in TermPids /\ n.port[q].write_ok = 1
                  /\ pr[n.port[q].owner].my_port = q /\ pr[n.port[q].owner].pc # "PortAlloc"
    <3>1. CASE q # p
      BY <1>1, <1>4, <1>5, <3>1 DEF Owned
    <3>2. CASE q = p
      <4>1. m.port[p] # Unowned
        BY DEF Unowned
      <4>2. QED  BY <1>1, <1>8, <3>2, <4>1 DEF Owned, SameEnds
    <3>3. QED  BY <3>1, <3>2
  <2>2. ASSUME NEW pid \in TermPids, pr[pid].pc # "PortAlloc"
        PROVE  n.port[pr[pid].my_port].owner = pid
    <3>1. pr[pid].my_port \in Ports
      BY <1>1 DEF Processes, ProcType
    <3>2. QED  BY <1>1, <1>8, <2>2, <3>1 DEF Owned, SameEnds
  <2>3. QED  BY <2>1, <2>2 DEF Owned
<1>10. \A pid \in TermPids : /\ WriteSid(n, pr[pid]) = WriteSid(m, pr[pid])
                             /\ ReadSid(n, pr[pid]) = ReadSid(m, pr[pid])
  <2>1. \A pid \in TermPids : pr[pid].my_port \in Ports
    BY <1>1 DEF Processes, ProcType
  <2>2. QED  BY <1>8, <2>1 DEF SameEnds, WriteSid, ReadSid
<1>11. Sems(n, pr)
  <2>1. /\ \A pid \in TermPids : WriteSid(m, pr[pid]) \in Sids /\ ReadSid(m, pr[pid]) \in Sids
    BY <1>1, <1>2 DEF Processes, ProcType, PortType, WriteSid, ReadSid
  <2>2. QED  BY <1>1, <1>3, <1>4, <1>10, <2>1 DEF Sems
<1>12. Waiting(n, pr)
  BY <1>1, <1>3, <1>4, <1>10 DEF Waiting
<1>13. QED  BY <1>1, <1>3, <1>4, <1>6, <1>7, <1>9, <1>11, <1>12 DEF Base, n, ports, uarts

\* What Base says of a port with an owner.
LEMMA OwnedPort ==
  ASSUME NEW m, NEW pr, Base(m, pr), NEW p \in Ports, m.port[p].owner # 0
  PROVE  /\ m \in MachineType /\ Good(m.k)
         /\ m.port \in [Ports -> PortType] /\ m.uart \in [Ports -> UartType]
         /\ m.port[p] \in PortType /\ m.uart[p] \in UartType
         /\ m.port[p].owner \in TermPids /\ m.port[p].write_ok = 1
         /\ pr[m.port[p].owner].my_port = p /\ pr[m.port[p].owner].pc # "PortAlloc"
         /\ Len(m.port[p].write_q) <= QUEUE_SIZE /\ Len(m.port[p].loopback_q) <= QUEUE_SIZE
<1>1. m \in MachineType /\ Good(m.k) /\ Bounded(m) /\ Owned(m, pr)
  BY DEF Base
<1>2. m.port \in [Ports -> PortType] /\ m.uart \in [Ports -> UartType]
  BY <1>1, MachineFields
<1>3. m.port[p] # Unowned
  BY DEF Unowned
<1>4. QED  BY <1>1, <1>2, <1>3 DEF Bounded, Owned

LEMMA WriteOneBase ==
  ASSUME NEW m, NEW pr, Base(m, pr), Runs(m.k), NEW p \in Ports, m.port[p].owner # 0
  PROVE  /\ Base(PortWriteOne(m, p), pr) /\ Runs(PortWriteOne(m, p).k)
         /\ \A q \in Ports : SameEnds(m.port[q], PortWriteOne(m, p).port[q])
<1> DEFINE d == m.port[p]
           n == PortWriteOne(m, p)
<1>1. /\ m \in MachineType /\ m.port \in [Ports -> PortType] /\ m.uart \in [Ports -> UartType]
      /\ d \in PortType /\ m.uart[p] \in UartType
      /\ Len(d.write_q) <= QUEUE_SIZE /\ Len(d.loopback_q) <= QUEUE_SIZE
  BY OwnedPort
<1>2. d.write_q \in Seq({PromptByte}) /\ d.loopback_q \in Seq(Typed \cup {NewLine})
  BY <1>1, PortFields
<1> SUFFICES \E k1, e, u : /\ Posts(m.k, k1) /\ e \in PortType /\ SameEnds(d, e)
                           /\ Len(e.write_q) <= QUEUE_SIZE /\ Len(e.loopback_q) <= QUEUE_SIZE
                           /\ u \in UartType
                           /\ n = MachineOf(k1, [m.port EXCEPT ![p] = e], [m.uart EXCEPT ![p] = u])
  <2>1. PICK k1, e, u : /\ Posts(m.k, k1) /\ e \in PortType /\ SameEnds(d, e)
                        /\ Len(e.write_q) <= QUEUE_SIZE /\ Len(e.loopback_q) <= QUEUE_SIZE
                        /\ u \in UartType
                        /\ n = MachineOf(k1, [m.port EXCEPT ![p] = e], [m.uart EXCEPT ![p] = u])
    OBVIOUS
  <2> HIDE DEF d, n
  <2>2. Base(n, pr) /\ Runs(k1)
    BY <2>1, BaseKept DEF d
  <2>3. n.k = k1 /\ n.port = [m.port EXCEPT ![p] = e]
    BY <2>1 DEF MachineOf
  <2>4. \A q \in Ports : SameEnds(m.port[q], n.port[q])
    BY <1>1, <2>1, <2>3 DEF SameEnds, d
  <2>5. QED  BY <2>2, <2>3, <2>4 DEF n
<1>3. CASE d.loopback_q # <<>>
  <2> DEFINE e == [d EXCEPT !.loopback_q = Tail(d.loopback_q)]
             u == WriteData(m.uart[p], Head(d.loopback_q))
  <2>1. n = MachineOf(m.k, [m.port EXCEPT ![p] = e], [m.uart EXCEPT ![p] = u])
    BY <1>1, <1>3, WriteOneIs
  <2>2. /\ Tail(d.loopback_q) \in Seq(Typed \cup {NewLine})
        /\ Len(Tail(d.loopback_q)) <= QUEUE_SIZE /\ Head(d.loopback_q) \in Sendable
    BY <1>1, <1>2, <1>3, TailIs, Constants DEF Sendable
  <2>3. e \in PortType /\ SameEnds(d, e) /\ e.write_q = d.write_q /\ e.loopback_q = Tail(d.loopback_q)
    BY <1>1, <2>2, SetPort DEF SameEnds, PortType
  <2>4. u \in UartType
    BY <1>1, <2>2, WriteDataIs
  <2> HIDE DEF n, e, u
  <2>5. QED  BY <1>1, <2>1, <2>2, <2>3, <2>4 DEF Posts
<1>4. CASE d.loopback_q = <<>> /\ d.write_q # <<>>
  <2> DEFINE e == [d EXCEPT !.write_q = Tail(d.write_q)]
             u == WriteData(m.uart[p], Head(d.write_q))
             k1 == SemPostHandler(m.k, d.write_sid)
  <2>1. n = MachineOf(k1, [m.port EXCEPT ![p] = e], [m.uart EXCEPT ![p] = u])
    BY <1>1, <1>4, WriteOneIs
  <2>2. /\ Tail(d.write_q) \in Seq({PromptByte})
        /\ Len(Tail(d.write_q)) <= QUEUE_SIZE /\ Head(d.write_q) \in Sendable
    BY <1>1, <1>2, <1>4, TailIs, Constants DEF Sendable
  <2>3. e \in PortType /\ SameEnds(d, e) /\ e.write_q = Tail(d.write_q) /\ e.loopback_q = d.loopback_q
    BY <1>1, <2>2, SetPort DEF SameEnds, PortType
  <2>4. u \in UartType
    BY <1>1, <2>2, WriteDataIs
  <2>5. Posts(m.k, k1)
    BY <1>1, PortFields DEF Posts
  <2> HIDE DEF n, e, u, k1
  <2>6. QED  BY <1>1, <2>1, <2>2, <2>3, <2>4, <2>5
<1>5. CASE d.loopback_q = <<>> /\ d.write_q = <<>>
  <2> DEFINE e == [d EXCEPT !.write_ok = 1]
  <2>1. n = MachineOf(m.k, [m.port EXCEPT ![p] = e], m.uart)
    BY <1>1, <1>5, WriteOneIs
  <2>2. m.uart = [m.uart EXCEPT ![p] = m.uart[p]]
    BY <1>1
  <2>3. /\ e \in PortType /\ SameEnds(d, e)
        /\ e.write_q = d.write_q /\ e.loopback_q = d.loopback_q
    BY <1>1, SetPort DEF SameEnds, PortType
  <2> HIDE DEF n, e
  <2>4. QED  BY <1>1, <2>1, <2>2, <2>3 DEF Posts
<1>6. QED  BY <1>3, <1>4, <1>5

LEMMA ReadOneBase ==
  ASSUME NEW m, NEW pr, Base(m, pr), Runs(m.k), NEW p \in Ports, m.port[p].owner # 0,
         m.uart[p].rbr # NONE, NEW late \in {NONE} \cup Typed
  PROVE  /\ Base(PortReadOne(m, p, late), pr) /\ Runs(PortReadOne(m, p, late).k)
         /\ \A q \in Ports : SameEnds(m.port[q], PortReadOne(m, p, late).port[q])
<1> DEFINE d == m.port[p]
           n == PortReadOne(m, p, late)
           byte == m.uart[p].rbr
           u == Arrived(ReadData(m.uart[p]), late)
<1>1. /\ m \in MachineType /\ m.port \in [Ports -> PortType] /\ m.uart \in [Ports -> UartType]
      /\ d \in PortType /\ m.uart[p] \in UartType
      /\ Len(d.write_q) <= QUEUE_SIZE /\ Len(d.loopback_q) <= QUEUE_SIZE
  BY OwnedPort
<1>2. /\ d.read_q \in RingType /\ d.loopback_q \in Seq(Typed \cup {NewLine})
      /\ byte \in Typed /\ u \in UartType
  BY <1>1, PortFields, ReadDataIs DEF UartType
<1> SUFFICES \E k1, e : /\ Posts(m.k, k1) /\ e \in PortType /\ SameEnds(d, e)
                        /\ Len(e.write_q) <= QUEUE_SIZE /\ Len(e.loopback_q) <= QUEUE_SIZE
                        /\ n = MachineOf(k1, [m.port EXCEPT ![p] = e], [m.uart EXCEPT ![p] = u])
  <2>1. PICK k1, e : /\ Posts(m.k, k1) /\ e \in PortType /\ SameEnds(d, e)
                     /\ Len(e.write_q) <= QUEUE_SIZE /\ Len(e.loopback_q) <= QUEUE_SIZE
                     /\ n = MachineOf(k1, [m.port EXCEPT ![p] = e], [m.uart EXCEPT ![p] = u])
    OBVIOUS
  <2> HIDE DEF d, n, u
  <2>2. Base(n, pr) /\ Runs(k1)
    BY <1>2, <2>1, BaseKept DEF d
  <2>3. n.k = k1 /\ n.port = [m.port EXCEPT ![p] = e]
    BY <2>1 DEF MachineOf
  <2>4. \A q \in Ports : SameEnds(m.port[q], n.port[q])
    BY <1>1, <2>1, <2>3 DEF SameEnds, d
  <2>5. QED  BY <2>2, <2>3, <2>4 DEF n
<1>3. CASE d.read_q.size = QUEUE_SIZE
  <2>1. n = MachineOf(m.k, m.port, [m.uart EXCEPT ![p] = u])
    BY <1>1, <1>3, ReadOneIs
  <2>2. m.port = [m.port EXCEPT ![p] = d]
    BY <1>1
  <2>3. SameEnds(d, d) /\ Posts(m.k, m.k)
    BY DEF SameEnds, Posts
  <2> HIDE DEF n, u, d
  <2>4. QED  BY <1>1, <2>1, <2>2, <2>3
<1>4. CASE d.read_q.size # QUEUE_SIZE
  <2> DEFINE e == [d EXCEPT !.read_q = Ring!queue_in(d.read_q, byte),
                            !.loopback_q = Echo(d.loopback_q, byte)]
             k1 == SemPostHandler(m.k, d.read_sid)
  <2>1. n = MachineOf(k1, [m.port EXCEPT ![p] = e], [m.uart EXCEPT ![p] = u])
    BY <1>1, <1>4, ReadOneIs
  <2>2. Ring!queue_in(d.read_q, byte) \in RingType
    BY <1>2, <1>4, QueueInIs
  <2>3. /\ Echo(d.loopback_q, byte) \in Seq(Typed \cup {NewLine})
        /\ Len(Echo(d.loopback_q, byte)) <= QUEUE_SIZE
    BY <1>1, <1>2, EchoIs
  <2>4. /\ e \in PortType /\ SameEnds(d, e)
        /\ e.write_q = d.write_q /\ e.loopback_q = Echo(d.loopback_q, byte)
    BY <1>1, <2>2, <2>3, SetPort DEF SameEnds, PortType
  <2>5. Posts(m.k, k1)
    BY <1>1, PortFields DEF Posts
  <2> HIDE DEF n, u, e, k1
  <2>6. QED  BY <1>1, <2>1, <2>3, <2>4, <2>5
<1>5. QED  BY <1>3, <1>4

\* IIR has been read.
Seen(m, p) == MachineOf(m.k, m.port, [m.uart EXCEPT ![p] = ReadIir(m.uart[p])])

LEMMA SeenBase ==
  ASSUME NEW m, NEW pr, Base(m, pr), Runs(m.k), NEW p \in Ports, m.port[p].owner # 0
  PROVE  /\ Base(Seen(m, p), pr) /\ Runs(Seen(m, p).k)
         /\ Seen(m, p).k = m.k /\ Seen(m, p).port = m.port
         /\ Seen(m, p).uart[p] = ReadIir(m.uart[p])
         /\ Seen(m, p).uart[p].rbr = m.uart[p].rbr
         /\ Seen(m, p).uart[p].enabled = m.uart[p].enabled
         /\ \A q \in Ports : q # p => Seen(m, p).uart[q] = m.uart[q]
<1>1. /\ m.port \in [Ports -> PortType] /\ m.uart \in [Ports -> UartType]
      /\ m.port[p] \in PortType /\ m.uart[p] \in UartType
      /\ Len(m.port[p].write_q) <= QUEUE_SIZE /\ Len(m.port[p].loopback_q) <= QUEUE_SIZE
  BY OwnedPort
<1>2. /\ ReadIir(m.uart[p]) \in UartType /\ ReadIir(m.uart[p]).rbr = m.uart[p].rbr
      /\ ReadIir(m.uart[p]).enabled = m.uart[p].enabled
  BY <1>1, ReadIirIs
<1>3. m.port = [m.port EXCEPT ![p] = m.port[p]]
  BY <1>1
<1>4. SameEnds(m.port[p], m.port[p]) /\ Posts(m.k, m.k)
  BY DEF SameEnds, Posts
<1>5. Base(Seen(m, p), pr) /\ Runs(m.k)
  BY <1>1, <1>2, <1>3, <1>4, BaseKept DEF Seen
<1>6. QED  BY <1>1, <1>2, <1>5 DEF Seen, MachineOf

\* The loop body of PortHandler, for a port with an owner: IIR, what it asks for, one more byte.
LEMMA ServeIs ==
  ASSUME NEW m, NEW pr, Base(m, pr), Runs(m.k), NEW p \in Ports, m.port[p].owner # 0,
         NEW late \in {NONE} \cup Typed
  PROVE  \E done :
           /\ \/ m.uart[p].rbr # NONE /\ done = PortReadOne(Seen(m, p), p, late)
              \/ m.uart[p].rbr = NONE /\ m.uart[p].thre /\ done = PortWriteOne(Seen(m, p), p)
              \/ m.uart[p].rbr = NONE /\ ~m.uart[p].thre /\ done = Seen(m, p)
           /\ Base(done, pr) /\ Runs(done.k) /\ done.port[p].owner # 0
           /\ ServePort(m, p, late) = PortWriteOne(done, p)
           /\ Base(ServePort(m, p, late), pr) /\ Runs(ServePort(m, p, late).k)
           /\ \A q \in Ports : SameEnds(m.port[q], ServePort(m, p, late).port[q])
<1> DEFINE seen == Seen(m, p)
           iir  == Iir(m.uart[p])
           done == CASE iir = "RXRDY" -> PortReadOne(seen, p, late)
                     [] iir = "TXRDY" -> PortWriteOne(seen, p)
                     [] OTHER         -> seen
<1>0. m \in MachineType /\ m.uart \in [Ports -> UartType]
  BY OwnedPort
<1>1. seen = [m EXCEPT !.uart[p] = ReadIir(@)]
  BY <1>0, MachineFields DEF Seen, MachineOf
<1>2. /\ Base(seen, pr) /\ Runs(seen.k) /\ seen.port = m.port
      /\ seen.uart[p].rbr = m.uart[p].rbr
  BY SeenBase
<1>3. iir = IF m.uart[p].rbr # NONE THEN "RXRDY" ELSE IF m.uart[p].thre THEN "TXRDY" ELSE "NONE"
  BY DEF Iir
<1>4. ServePort(m, p, late) =
        IF done.port[p].write_ok # 0 THEN PortWriteOne(done, p) ELSE done
  BY <1>1 DEF ServePort
<1> HIDE DEF seen
<1>5. CASE m.uart[p].rbr # NONE
  <2>1. done = PortReadOne(seen, p, late)
    BY <1>3, <1>5
  <2> HIDE DEF done
  <2>2. Base(done, pr) /\ Runs(done.k) /\ \A q \in Ports : SameEnds(m.port[q], done.port[q])
    BY <1>2, <1>5, <2>1, ReadOneBase
  <2>3. done.port[p].owner # 0
    BY <2>2 DEF SameEnds
  <2>4. done.port[p].write_ok = 1
    BY <2>2, <2>3, OwnedPort
  <2>5. ServePort(m, p, late) = PortWriteOne(done, p)
    BY <1>4, <2>4
  <2>6. /\ Base(PortWriteOne(done, p), pr) /\ Runs(PortWriteOne(done, p).k)
        /\ \A q \in Ports : SameEnds(done.port[q], PortWriteOne(done, p).port[q])
    BY <2>2, <2>3, WriteOneBase
  <2>7. \A q \in Ports : SameEnds(m.port[q], PortWriteOne(done, p).port[q])
    BY <2>2, <2>6 DEF SameEnds
  <2>8. QED  BY <1>5, <2>1, <2>2, <2>3, <2>5, <2>6, <2>7 DEF seen
<1>6. CASE m.uart[p].rbr = NONE /\ m.uart[p].thre
  <2>1. done = PortWriteOne(seen, p)
    BY <1>3, <1>6
  <2> HIDE DEF done
  <2>2. Base(done, pr) /\ Runs(done.k) /\ \A q \in Ports : SameEnds(m.port[q], done.port[q])
    BY <1>2, <2>1, WriteOneBase
  <2>3. done.port[p].owner # 0
    BY <2>2 DEF SameEnds
  <2>4. done.port[p].write_ok = 1
    BY <2>2, <2>3, OwnedPort
  <2>5. ServePort(m, p, late) = PortWriteOne(done, p)
    BY <1>4, <2>4
  <2>6. /\ Base(PortWriteOne(done, p), pr) /\ Runs(PortWriteOne(done, p).k)
        /\ \A q \in Ports : SameEnds(done.port[q], PortWriteOne(done, p).port[q])
    BY <2>2, <2>3, WriteOneBase
  <2>7. \A q \in Ports : SameEnds(m.port[q], PortWriteOne(done, p).port[q])
    BY <2>2, <2>6 DEF SameEnds
  <2>8. QED  BY <1>6, <2>1, <2>2, <2>3, <2>5, <2>6, <2>7 DEF seen
<1>7. CASE m.uart[p].rbr = NONE /\ ~m.uart[p].thre
  <2>1. done = seen
    BY <1>3, <1>7
  <2> HIDE DEF done
  <2>2. Base(done, pr) /\ Runs(done.k) /\ done.port = m.port
    BY <1>2, <2>1
  <2>3. done.port[p].owner # 0
    BY <2>2
  <2>4. done.port[p].write_ok = 1
    BY <2>2, <2>3, OwnedPort
  <2>5. ServePort(m, p, late) = PortWriteOne(done, p)
    BY <1>4, <2>4
  <2>6. /\ Base(PortWriteOne(done, p), pr) /\ Runs(PortWriteOne(done, p).k)
        /\ \A q \in Ports : SameEnds(done.port[q], PortWriteOne(done, p).port[q])
    BY <2>2, <2>3, WriteOneBase
  <2>7. \A q \in Ports : SameEnds(m.port[q], PortWriteOne(done, p).port[q])
    BY <2>2, <2>6
  <2>8. QED  BY <1>7, <2>1, <2>2, <2>3, <2>5, <2>6, <2>7 DEF seen
<1>8. QED  BY <1>5, <1>6, <1>7

\* The loop of PortHandler, unfolded.
LEMMA LoopIs ==
  ASSUME NEW m, NEW p, NEW late
  PROVE  \E f : /\ f[0] = m /\ f[PORT_NUM] = PortHandler(m, p, late)
                /\ \A n \in 0 .. PORT_NUM - 1 :
                     f[n + 1] = ServePort(f[n], n, IF n = p THEN late ELSE NONE)
<1> DEFINE Step(f, n) == IF n = 0 THEN m
                         ELSE ServePort(f[n - 1], n - 1, IF n - 1 = p THEN late ELSE NONE)
           Unfolds(f, last) == \A n \in 0 .. last : f[n] = Step(f, n)
           T == {last \in Nat : \E f : Unfolds(f, last)}
<1>0. PORT_NUM \in Nat
  BY Constants
<1>1. 0 \in T
  <2>1. Unfolds([n \in {0} |-> m], 0)
    OBVIOUS
  <2>2. QED  BY <2>1
<1>2. ASSUME NEW last \in Nat, last \in T PROVE last + 1 \in T
  <2>1. PICK f : Unfolds(f, last)
    BY <1>2
  <2> DEFINE g == [n \in 0 .. last + 1 |-> IF n = last + 1 THEN Step(f, n) ELSE f[n]]
  <2>2. ASSUME NEW n \in 0 .. last + 1 PROVE g[n] = Step(g, n)
    <3>1. n = 0 \/ n - 1 \in 0 .. last
      OBVIOUS
    <3>2. \A i \in 0 .. last : g[i] = f[i]
      OBVIOUS
    <3>3. Step(g, n) = Step(f, n)
      BY <3>1, <3>2
    <3>4. CASE n = last + 1
      BY <3>3, <3>4
    <3>5. CASE n # last + 1
      <4>1. n \in 0 .. last
        BY <3>5
      <4>2. QED  BY <2>1, <3>2, <3>3, <4>1
    <3>6. QED  BY <3>4, <3>5
  <2> HIDE DEF g, Step
  <2>3. Unfolds(g, last + 1)
    BY <2>2
  <2>4. QED  BY <2>3
<1>3. PORT_NUM \in T
  <2> HIDE DEF T
  <2> QED  BY <1>0, <1>1, <1>2, NatSetInduction
<1>4. PICK f : Unfolds(f, PORT_NUM)
  BY <1>3
<1> DEFINE g == [n \in 0 .. PORT_NUM |-> f[n]]
           served == CHOOSE h : h = [n \in 0 .. PORT_NUM |->
                       IF n = 0 THEN m
                       ELSE ServePort(h[n - 1], n - 1, IF n - 1 = p THEN late ELSE NONE)]
<1>5. g = [n \in 0 .. PORT_NUM |->
             IF n = 0 THEN m ELSE ServePort(g[n - 1], n - 1, IF n - 1 = p THEN late ELSE NONE)]
  <2>1. ASSUME NEW n \in 0 .. PORT_NUM
        PROVE  f[n] = IF n = 0 THEN m
                      ELSE ServePort(g[n - 1], n - 1, IF n - 1 = p THEN late ELSE NONE)
    <3>1. n = 0 \/ n - 1 \in 0 .. PORT_NUM
      BY <1>0
    <3>2. QED  BY <1>4, <3>1
  <2>2. QED  BY <2>1
<1> HIDE DEF g
<1>6. served = [n \in 0 .. PORT_NUM |->
                  IF n = 0 THEN m
                  ELSE ServePort(served[n - 1], n - 1, IF n - 1 = p THEN late ELSE NONE)]
  BY <1>5
<1>7. PortHandler(m, p, late) = served[PORT_NUM]
  BY DEF PortHandler
<1> HIDE DEF served
<1>8. served[0] = m
  BY <1>0, <1>6
<1>9. ASSUME NEW n \in 0 .. PORT_NUM - 1
      PROVE  served[n + 1] = ServePort(served[n], n, IF n = p THEN late ELSE NONE)
  <2>1. n + 1 \in 0 .. PORT_NUM /\ n + 1 # 0 /\ (n + 1) - 1 = n
    BY <1>0
  <2>2. QED  BY <1>6, <2>1
<1>10. QED  BY <1>7, <1>8, <1>9

\* The machines between the ports: the first is m, the last what PortHandler leaves.
LEMMA LoopBase ==
  ASSUME NEW m, NEW pr, Base(m, pr), Runs(m.k), NEW p \in Ports, NEW late \in {NONE} \cup Typed
  PROVE  \E f :
           /\ f[0] = m /\ f[PORT_NUM] = PortHandler(m, p, late)
           /\ \A n \in 0 .. PORT_NUM :
                /\ Base(f[n], pr) /\ Runs(f[n].k)
                /\ \A q \in Ports : SameEnds(m.port[q], f[n].port[q])
           /\ \A n \in Ports :
                /\ f[n].port[n].owner = 0 => f[n + 1] = f[n]
                /\ f[n].port[n].owner # 0 =>
                     f[n + 1] = ServePort(f[n], n, IF n = p THEN late ELSE NONE)
<1>1. PICK f : /\ f[0] = m /\ f[PORT_NUM] = PortHandler(m, p, late)
               /\ \A n \in 0 .. PORT_NUM - 1 :
                    f[n + 1] = ServePort(f[n], n, IF n = p THEN late ELSE NONE)
  BY LoopIs
<1> DEFINE T == {n \in 0 .. PORT_NUM :
                   /\ Base(f[n], pr) /\ Runs(f[n].k)
                   /\ \A q \in Ports : SameEnds(m.port[q], f[n].port[q])}
<1>2. PORT_NUM \in Nat /\ Ports = 0 .. PORT_NUM - 1
  BY Constants DEF Ports
<1>3. ASSUME NEW n \in Ports, f[n].port[n].owner = 0 PROVE f[n + 1] = f[n]
  BY <1>1, <1>2, <1>3 DEF ServePort
<1>4. 0 \in T
  BY <1>1, <1>2 DEF SameEnds
<1>5. ASSUME NEW n \in 0 .. PORT_NUM - 1, n \in T PROVE n + 1 \in T
  <2>1. n \in Ports /\ n + 1 \in 0 .. PORT_NUM
    BY <1>2
  <2>2. /\ Base(f[n], pr) /\ Runs(f[n].k)
        /\ \A q \in Ports : SameEnds(m.port[q], f[n].port[q])
    BY <1>5
  <2>3. CASE f[n].port[n].owner = 0
    BY <1>3, <2>1, <2>2, <2>3
  <2>4. CASE f[n].port[n].owner # 0
    <3> DEFINE x == IF n = p THEN late ELSE NONE
    <3>1. x \in {NONE} \cup Typed /\ f[n + 1] = ServePort(f[n], n, x)
      BY <1>1
    <3> HIDE DEF x
    <3>2. /\ Base(f[n + 1], pr) /\ Runs(f[n + 1].k)
          /\ \A q \in Ports : SameEnds(f[n].port[q], f[n + 1].port[q])
      BY <2>1, <2>2, <2>4, <3>1, ServeIs
    <3>3. \A q \in Ports : SameEnds(m.port[q], f[n + 1].port[q])
      BY <2>2, <3>2 DEF SameEnds
    <3>4. QED  BY <2>1, <3>2, <3>3
  <2>5. QED  BY <2>3, <2>4
<1>6. 0 .. PORT_NUM \subseteq T
  <2> HIDE DEF T
  <2> QED  BY <1>2, <1>4, <1>5, IntervalInduction
<1>7. QED  BY <1>1, <1>2, <1>3, <1>6

-----------------------------------------------------------------------------
(***************************************************************************)
(* The lower half keeps count.                                             *)
(***************************************************************************)
\* What the process pid has, its semaphores included.
LEMMA Belongings ==
  ASSUME NEW m, NEW pr, Base(m, pr), NEW pid \in TermPids
  PROVE  LET t == pr[pid] IN
         /\ t \in ProcType /\ InLine(t) /\ t.my_port \in Ports
         /\ t.pc # "PortAlloc" => m.port[t.my_port].owner = pid
         /\ WriteSid(m, t) \in Sids /\ ReadSid(m, t) \in Sids
         /\ HasWriteSid(t) => m.k.sem[WriteSid(m, t)].owner = pid
         /\ HasReadSid(t) => /\ m.k.sem[ReadSid(m, t)].owner = pid
                             /\ ReadSid(m, t) # WriteSid(m, t)
<1>1. m \in MachineType /\ Processes(pr) /\ Owned(m, pr) /\ Sems(m, pr)
  BY DEF Base
<1>2. pr[pid] \in ProcType /\ InLine(pr[pid]) /\ pr[pid].my_port \in Ports /\ pr[pid].eax \in Sids
  BY <1>1 DEF Processes, ProcType
<1>3. m.port[pr[pid].my_port] \in PortType
  BY <1>1, <1>2, MachineFields
<1>4. WriteSid(m, pr[pid]) \in Sids /\ ReadSid(m, pr[pid]) \in Sids
  BY <1>2, <1>3, PortFields DEF WriteSid, ReadSid
<1>5. QED  BY <1>1, <1>2, <1>4 DEF Owned, Sems

\* Only its owner waits on a semaphore, where it says it does.
LEMMA OnlyOwnerWaits ==
  ASSUME NEW m, NEW pr, Base(m, pr), NEW pid \in TermPids
  PROVE  LET t == pr[pid]
             w == WriteSid(m, t)
             r == ReadSid(m, t)
         IN  /\ HasWriteSid(t) => \A x \in Waiters(m.k, w) : x = pid /\ t.pc = "WriteInt"
             /\ HasReadSid(t)  => \A x \in Waiters(m.k, r) : x = pid /\ t.pc = "ReadInt"
<1> DEFINE t == pr[pid]
           w == WriteSid(m, t)
           r == ReadSid(m, t)
<1>1. /\ w \in Sids /\ r \in Sids
      /\ HasWriteSid(t) => m.k.sem[w].owner = pid
      /\ HasReadSid(t) => m.k.sem[r].owner = pid /\ r # w /\ HasWriteSid(t)
  BY Belongings DEF HasReadSid
<1>2. ASSUME NEW sid \in Sids, NEW x \in Waiters(m.k, sid)
      PROVE  /\ x \in TermPids /\ m.k.sem[sid].owner = x
             /\ \/ pr[x].pc = "WriteInt" /\ sid = WriteSid(m, pr[x])
                \/ pr[x].pc = "ReadInt"  /\ sid = ReadSid(m, pr[x])
  <2>1. /\ x \in TermPids
        /\ \/ pr[x].pc = "WriteInt" /\ sid = WriteSid(m, pr[x])
           \/ pr[x].pc = "ReadInt"  /\ sid = ReadSid(m, pr[x])
    BY <1>2 DEF Base, Waiting
  <2>2. m.k.sem[sid].owner = x
    BY <2>1, Belongings DEF HasWriteSid, HasReadSid
  <2>3. QED  BY <2>1, <2>2
<1> HIDE DEF w, r
<1>3. ASSUME HasWriteSid(t), NEW x \in Waiters(m.k, w) PROVE x = pid /\ t.pc = "WriteInt"
  <2>1. x = pid
    BY <1>1, <1>2, <1>3
  <2>2. t.pc = "WriteInt" \/ (t.pc = "ReadInt" /\ w = ReadSid(m, t))
    BY <1>1, <1>2, <1>3, <2>1
  <2>3. QED  BY <1>1, <2>1, <2>2 DEF r, HasReadSid, HasWriteSid
<1>4. ASSUME HasReadSid(t), NEW x \in Waiters(m.k, r) PROVE x = pid /\ t.pc = "ReadInt"
  <2>1. x = pid
    BY <1>1, <1>2, <1>4
  <2>2. t.pc = "ReadInt" \/ (t.pc = "WriteInt" /\ r = WriteSid(m, t))
    BY <1>1, <1>2, <1>4, <2>1
  <2>3. QED  BY <1>1, <1>4, <2>1, <2>2 DEF w
<1>5. QED  BY <1>3, <1>4 DEF w, r

\* A post makes one pass more, banked or handed over, of the semaphore it is for.
LEMMA PostCounts ==
  ASSUME NEW m, NEW pr, Base(m, pr), Runs(m.k), NEW sid \in Sids,
         NEW n, n.k = SemPostHandler(m.k, sid), NEW pid \in TermPids
  PROVE  LET w == WriteSid(m, pr[pid])
             r == ReadSid(m, pr[pid])
             One(s) == IF s = sid THEN 1 ELSE 0
         IN  /\ HasWriteSid(pr[pid]) =>
                  n.k.sem[w].passes + Pass(n, pr, pid, "WriteInt", w) =
                  m.k.sem[w].passes + Pass(m, pr, pid, "WriteInt", w) + One(w)
             /\ HasReadSid(pr[pid]) =>
                  n.k.sem[r].passes + Pass(n, pr, pid, "ReadInt", r) =
                  m.k.sem[r].passes + Pass(m, pr, pid, "ReadInt", r) + One(r)
<1>1. Good(m.k)
  BY DEF Base
<1>2. /\ \A s \in Sids : s # sid => n.k.sem[s] = m.k.sem[s]
      /\ Waiters(m.k, sid) = {} =>
           n.k.sem[sid].passes = m.k.sem[sid].passes + 1 /\ Waiters(n.k, sid) = {}
      /\ Waiters(m.k, sid) # {} =>
           /\ n.k.sem[sid].passes = m.k.sem[sid].passes
           /\ \E x \in Waiters(m.k, sid) : Waiters(n.k, sid) = Waiters(m.k, sid) \ {x}
  BY <1>1, PostIs
<1>3. \A s \in Sids : m.k.sem[s].passes \in Nat
  BY <1>1, MemoryFields DEF Good, SemType
<1>4. ASSUME NEW s \in Sids, NEW pc \in {"WriteInt", "ReadInt"},
             \A x \in Waiters(m.k, s) : x = pid /\ pr[pid].pc = pc
      PROVE  n.k.sem[s].passes + Pass(n, pr, pid, pc, s) =
             m.k.sem[s].passes + Pass(m, pr, pid, pc, s) + (IF s = sid THEN 1 ELSE 0)
  <2>1. CASE s # sid
    <3>1. n.k.sem[s] = m.k.sem[s] /\ Waiters(n.k, s) = Waiters(m.k, s)
      BY <1>2, <2>1 DEF Waiters
    <3>2. QED  BY <1>3, <2>1, <3>1 DEF Pass
  <2>2. CASE s = sid /\ Waiters(m.k, sid) = {}
    BY <1>2, <1>3, <2>2 DEF Pass
  <2>3. CASE s = sid /\ Waiters(m.k, sid) # {}
    <3>1. Waiters(m.k, sid) = {pid} /\ pr[pid].pc = pc
      BY <1>4, <2>3
    <3>2. n.k.sem[sid].passes = m.k.sem[sid].passes /\ Waiters(n.k, sid) = {}
      BY <1>2, <2>3, <3>1
    <3>3. QED  BY <1>3, <2>3, <3>1, <3>2 DEF Pass
  <2>4. QED  BY <2>1, <2>2, <2>3
<1>5. ASSUME HasWriteSid(pr[pid])
      PROVE  LET w == WriteSid(m, pr[pid]) IN
             n.k.sem[w].passes + Pass(n, pr, pid, "WriteInt", w) =
             m.k.sem[w].passes + Pass(m, pr, pid, "WriteInt", w) + (IF w = sid THEN 1 ELSE 0)
  <2> DEFINE w == WriteSid(m, pr[pid])
  <2>1. w \in Sids /\ \A x \in Waiters(m.k, w) : x = pid /\ pr[pid].pc = "WriteInt"
    BY <1>5, Belongings, OnlyOwnerWaits
  <2> HIDE DEF w
  <2>2. QED  BY <1>4, <2>1 DEF w
<1>6. ASSUME HasReadSid(pr[pid])
      PROVE  LET r == ReadSid(m, pr[pid]) IN
             n.k.sem[r].passes + Pass(n, pr, pid, "ReadInt", r) =
             m.k.sem[r].passes + Pass(m, pr, pid, "ReadInt", r) + (IF r = sid THEN 1 ELSE 0)
  <2> DEFINE r == ReadSid(m, pr[pid])
  <2>1. r \in Sids /\ \A x \in Waiters(m.k, r) : x = pid /\ pr[pid].pc = "ReadInt"
    BY <1>6, Belongings, OnlyOwnerWaits
  <2> HIDE DEF r
  <2>2. QED  BY <1>4, <2>1 DEF r
<1>7. QED  BY <1>5, <1>6

\* The counts of a process that nothing happens to.
LEMMA SameCounts ==
  ASSUME NEW m, NEW pr, NEW n, NEW pid \in TermPids,
         n.k.sem[WriteSid(m, pr[pid])] = m.k.sem[WriteSid(m, pr[pid])],
         n.k.sem[ReadSid(m, pr[pid])] = m.k.sem[ReadSid(m, pr[pid])],
         LET d == m.port[pr[pid].my_port]
             e == n.port[pr[pid].my_port]
         IN  SameEnds(d, e) /\ e.write_q = d.write_q /\ e.read_q.size = d.read_q.size
  PROVE  /\ WriteCounted(m, pr, pid) => WriteCounted(n, pr, pid)
         /\ ReadCounted(m, pr, pid) => ReadCounted(n, pr, pid)
<1>1. WriteSid(n, pr[pid]) = WriteSid(m, pr[pid]) /\ ReadSid(n, pr[pid]) = ReadSid(m, pr[pid])
  BY DEF WriteSid, ReadSid, SameEnds
<1>2. /\ Pass(n, pr, pid, "WriteInt", WriteSid(m, pr[pid])) = Pass(m, pr, pid, "WriteInt", WriteSid(m, pr[pid]))
      /\ Pass(n, pr, pid, "ReadInt", ReadSid(m, pr[pid])) = Pass(m, pr, pid, "ReadInt", ReadSid(m, pr[pid]))
  BY DEF Pass, Waiters
<1>3. QED  BY <1>1, <1>2 DEF WriteCounted, ReadCounted

\* A process's counts agree after a post if its queues account for the pass.
LEMMA PostedCounts ==
  ASSUME NEW m, NEW pr, Base(m, pr), Runs(m.k), NEW sid \in Sids,
         NEW n, Base(n, pr), n.k = SemPostHandler(m.k, sid),
         \A q \in Ports : SameEnds(m.port[q], n.port[q]),
         NEW pid \in TermPids, Counted(m, pr),
         LET d == m.port[pr[pid].my_port]
             e == n.port[pr[pid].my_port]
             One(s) == IF s = sid THEN 1 ELSE 0
         IN  /\ HasWriteSid(pr[pid]) =>
                  Len(e.write_q) = Len(d.write_q) - One(WriteSid(m, pr[pid]))
             /\ HasReadSid(pr[pid]) =>
                  e.read_q.size = d.read_q.size + One(ReadSid(m, pr[pid]))
  PROVE  /\ HasWriteSid(pr[pid]) => WriteCounted(n, pr, pid)
         /\ HasReadSid(pr[pid]) => ReadCounted(n, pr, pid)
<1> DEFINE w == WriteSid(m, pr[pid])
           r == ReadSid(m, pr[pid])
           d == m.port[pr[pid].my_port]
           e == n.port[pr[pid].my_port]
<1>1. d \in PortType /\ Good(m.k) /\ Good(n.k) /\ w \in Sids /\ r \in Sids
  BY Belongings, MachineFields DEF Base
<1>2. d.write_q \in Seq({PromptByte}) /\ d.read_q \in RingType
  BY <1>1, PortFields
<1>3. Len(d.write_q) \in Nat /\ d.read_q.size \in Nat
  BY <1>2, LenProperties, RingFields
<1>4. /\ m.k.sem[w].passes \in Nat /\ n.k.sem[w].passes \in Nat
      /\ m.k.sem[r].passes \in Nat /\ n.k.sem[r].passes \in Nat
  BY <1>1, MemoryFields DEF Good, SemType
<1>5. \A k, pc, s : Pass(k, pr, pid, pc, s) \in {0, 1}
  BY DEF Pass
<1>6. WriteSid(n, pr[pid]) = w /\ ReadSid(n, pr[pid]) = r
  BY Belongings DEF WriteSid, ReadSid, SameEnds
<1>7. ASSUME HasWriteSid(pr[pid]) PROVE WriteCounted(n, pr, pid)
  <2>1. n.k.sem[w].passes + Pass(n, pr, pid, "WriteInt", w) =
        m.k.sem[w].passes + Pass(m, pr, pid, "WriteInt", w) + (IF w = sid THEN 1 ELSE 0)
    BY <1>7, PostCounts
  <2>2. m.k.sem[w].passes + Len(d.write_q) + Pass(m, pr, pid, "WriteInt", w) = QUEUE_SIZE
    BY <1>7 DEF Counted, WriteCounted
  <2>3. Len(e.write_q) = Len(d.write_q) - (IF w = sid THEN 1 ELSE 0)
    BY <1>7
  <2>4. Pass(n, pr, pid, "WriteInt", w) \in {0, 1} /\ Pass(m, pr, pid, "WriteInt", w) \in {0, 1}
    BY <1>5
  <2> HIDE DEF w, d, e
  <2> DEFINE passes == m.k.sem[w].passes
             more   == n.k.sem[w].passes
             queued == Len(d.write_q)
             left   == Len(e.write_q)
             held   == Pass(m, pr, pid, "WriteInt", w)
             holds  == Pass(n, pr, pid, "WriteInt", w)
             one    == IF w = sid THEN 1 ELSE 0
  <2>5. /\ passes \in Int /\ more \in Int /\ queued \in Int /\ held \in Int /\ holds \in Int
        /\ one \in Int /\ left = queued - one
        /\ more + holds = passes + held + one
        /\ passes + queued + held = QUEUE_SIZE
    BY <1>3, <1>4, <2>1, <2>2, <2>3, <2>4
  <2> HIDE DEF passes, more, queued, left, held, holds, one
  <2>6. more + left + holds = QUEUE_SIZE
    BY <2>5
  <2>7. QED  BY <1>6, <2>6 DEF WriteCounted, e, more, left, holds
<1>8. ASSUME HasReadSid(pr[pid]) PROVE ReadCounted(n, pr, pid)
  <2>1. n.k.sem[r].passes + Pass(n, pr, pid, "ReadInt", r) =
        m.k.sem[r].passes + Pass(m, pr, pid, "ReadInt", r) + (IF r = sid THEN 1 ELSE 0)
    BY <1>8, PostCounts
  <2>2. m.k.sem[r].passes + Pass(m, pr, pid, "ReadInt", r) = d.read_q.size
    BY <1>8 DEF Counted, ReadCounted
  <2>3. e.read_q.size = d.read_q.size + (IF r = sid THEN 1 ELSE 0)
    BY <1>8
  <2> HIDE DEF r, d, e
  <2>4. n.k.sem[r].passes + Pass(n, pr, pid, "ReadInt", r) = e.read_q.size
    BY <1>3, <1>4, <1>5, <2>1, <2>2, <2>3
  <2>5. QED  BY <1>6, <2>4 DEF ReadCounted, e
<1>9. QED  BY <1>7, <1>8

LEMMA SeenCounted ==
  ASSUME NEW m, NEW pr, Base(m, pr), Runs(m.k), NEW p \in Ports, m.port[p].owner # 0,
         Quiet(m, pr), Counted(m, pr)
  PROVE  Quiet(Seen(m, p), pr) /\ Counted(Seen(m, p), pr)
<1>1. /\ Seen(m, p).k = m.k /\ Seen(m, p).port = m.port
      /\ \A q \in Ports : Seen(m, p).uart[q].rbr = m.uart[q].rbr
  BY SeenBase
<1>2. Quiet(Seen(m, p), pr)
  BY <1>1 DEF Quiet
<1>3. Counted(Seen(m, p), pr)
  BY <1>1 DEF Counted, WriteCounted, ReadCounted, Pass, WriteSid, ReadSid
<1>4. QED  BY <1>2, <1>3

LEMMA WriteOneCounted ==
  ASSUME NEW m, NEW pr, Base(m, pr), Runs(m.k), NEW p \in Ports, m.port[p].owner # 0,
         Quiet(m, pr), Counted(m, pr)
  PROVE  Quiet(PortWriteOne(m, p), pr) /\ Counted(PortWriteOne(m, p), pr)
<1> DEFINE d == m.port[p]
           n == PortWriteOne(m, p)
           o == d.owner
<1>1. /\ m \in MachineType /\ m.port \in [Ports -> PortType] /\ m.uart \in [Ports -> UartType]
      /\ d \in PortType /\ m.uart[p] \in UartType /\ o \in TermPids
      /\ pr[o].my_port = p
  BY OwnedPort
<1>2. d.write_q \in Seq({PromptByte}) /\ d.loopback_q \in Seq(Typed \cup {NewLine})
  BY <1>1, PortFields
<1>3. \A q \in Ports : SameEnds(m.port[q], n.port[q])
  BY WriteOneBase
<1> HIDE DEF n, o
<1>4. CASE d.loopback_q # <<>>
  <2> DEFINE e == [d EXCEPT !.loopback_q = Tail(d.loopback_q)]
             u == WriteData(m.uart[p], Head(d.loopback_q))
  <2>1. n = MachineOf(m.k, [m.port EXCEPT ![p] = e], [m.uart EXCEPT ![p] = u])
    BY <1>1, <1>4, WriteOneIs DEF n
  <2>2. u.rbr = m.uart[p].rbr
    BY <1>1, <1>2, <1>4, TailIs, WriteDataIs DEF Sendable
  <2>3. e.write_q = d.write_q /\ e.read_q = d.read_q
    BY <1>1 DEF PortType
  <2> HIDE DEF u, e
  <2>4. /\ n.k = m.k
        /\ \A q \in Ports : /\ n.port[q].write_q = m.port[q].write_q
                            /\ n.port[q].read_q = m.port[q].read_q
                            /\ n.uart[q].rbr = m.uart[q].rbr
    BY <1>1, <2>1, <2>2, <2>3 DEF MachineOf
  <2>5. Quiet(n, pr)
    BY <1>3, <2>4 DEF Quiet, SameEnds
  <2>6. Counted(n, pr)
    BY <1>3, <2>4, SameCounts, Belongings DEF Counted
  <2>7. QED  BY <2>5, <2>6 DEF n
<1>5. CASE d.loopback_q = <<>> /\ d.write_q # <<>>
  <2> DEFINE e == [d EXCEPT !.write_q = Tail(d.write_q)]
             u == WriteData(m.uart[p], Head(d.write_q))
             sid == d.write_sid
  <2>1. n = MachineOf(SemPostHandler(m.k, sid), [m.port EXCEPT ![p] = e], [m.uart EXCEPT ![p] = u])
    BY <1>1, <1>5, WriteOneIs DEF n
  <2>2. u.rbr = m.uart[p].rbr
    BY <1>1, <1>2, <1>5, TailIs, WriteDataIs DEF Sendable
  <2>3. e.write_q = Tail(d.write_q) /\ e.read_q = d.read_q
    BY <1>1 DEF PortType
  <2>4. Len(Tail(d.write_q)) = Len(d.write_q) - 1 /\ Len(d.write_q) \in Nat \ {0}
    BY <1>2, <1>5, TailIs
  <2>5. pr[o].pc \in Working
    BY <1>1, <1>5 DEF Quiet, o
  <2>6. HasWriteSid(pr[o]) /\ WriteSid(m, pr[o]) = sid /\ sid \in Sids
    BY <1>1, <2>5, PortFields DEF HasWriteSid, WriteSid, Working
  <2> HIDE DEF u, e
  <2>7. /\ n.k = SemPostHandler(m.k, sid)
        /\ n.port[p] = e /\ \A q \in Ports : q # p => n.port[q] = m.port[q]
        /\ \A q \in Ports : n.uart[q].rbr = m.uart[q].rbr
    BY <1>1, <2>1, <2>2 DEF MachineOf
  <2>8. Quiet(n, pr)
    BY <1>1, <1>3, <2>5, <2>7 DEF Quiet, SameEnds, o
  <2> HIDE DEF sid, d
  <2>9. ASSUME NEW pid \in TermPids
        PROVE  /\ HasWriteSid(pr[pid]) => WriteCounted(n, pr, pid)
               /\ HasReadSid(pr[pid]) => ReadCounted(n, pr, pid)
    <3> DEFINE q == pr[pid].my_port
    <3>1. m.k.sem[sid].owner = o /\ q \in Ports
      BY <1>1, <2>6, Belongings DEF o
    <3>2. ASSUME HasWriteSid(pr[pid])
          PROVE  Len(n.port[q].write_q) =
                 Len(m.port[q].write_q) - (IF WriteSid(m, pr[pid]) = sid THEN 1 ELSE 0)
      <4>1. m.k.sem[WriteSid(m, pr[pid])].owner = pid /\ m.port[q].owner = pid
        BY <3>2, Belongings DEF HasWriteSid
      <4>2. CASE WriteSid(m, pr[pid]) = sid
        BY <1>1, <2>3, <2>4, <2>7, <3>1, <4>1, <4>2 DEF d
      <4>3. CASE WriteSid(m, pr[pid]) # sid
        <5>1. q # p
          BY <2>6, <4>1, <4>3 DEF o, d
        <5>2. m.port[q].write_q \in Seq({PromptByte})
          BY <1>1, <3>1, PortFields
        <5>3. Len(m.port[q].write_q) \in Nat
          BY <5>2, LenProperties
        <5>4. QED  BY <2>7, <3>1, <4>3, <5>1, <5>3
      <4>4. QED  BY <4>2, <4>3
    <3>3. ASSUME HasReadSid(pr[pid])
          PROVE  n.port[q].read_q.size =
                 m.port[q].read_q.size + (IF ReadSid(m, pr[pid]) = sid THEN 1 ELSE 0)
      <4>1. m.k.sem[ReadSid(m, pr[pid])].owner = pid /\ ReadSid(m, pr[pid]) # WriteSid(m, pr[pid])
        BY <3>3, Belongings
      <4>2. ReadSid(m, pr[pid]) # sid
        BY <2>6, <3>1, <4>1
      <4>3. n.port[q].read_q = m.port[q].read_q
        BY <2>3, <2>7, <3>1 DEF d
      <4>4. m.port[q].read_q.size \in Nat
        BY <1>1, <3>1, PortFields, RingFields
      <4>5. QED  BY <4>2, <4>3, <4>4
    <3>4. Base(n, pr)
      BY WriteOneBase DEF n
    <3>5. QED  BY <1>3, <2>6, <2>7, <3>2, <3>3, <3>4, PostedCounts
  <2>10. QED  BY <2>8, <2>9 DEF Counted, n
<1>6. CASE d.loopback_q = <<>> /\ d.write_q = <<>>
  <2> DEFINE e == [d EXCEPT !.write_ok = 1]
  <2>1. n = MachineOf(m.k, [m.port EXCEPT ![p] = e], m.uart)
    BY <1>1, <1>6, WriteOneIs DEF n
  <2>2. e.write_q = d.write_q /\ e.read_q = d.read_q
    BY <1>1 DEF PortType
  <2> HIDE DEF e
  <2>3. /\ n.k = m.k
        /\ \A q \in Ports : /\ n.port[q].write_q = m.port[q].write_q
                            /\ n.port[q].read_q = m.port[q].read_q
                            /\ n.uart[q].rbr = m.uart[q].rbr
    BY <1>1, <2>1, <2>2 DEF MachineOf
  <2>4. Quiet(n, pr)
    BY <1>3, <2>3 DEF Quiet, SameEnds
  <2>5. Counted(n, pr)
    BY <1>3, <2>3, SameCounts, Belongings DEF Counted
  <2>6. QED  BY <2>4, <2>5 DEF n
<1>7. QED  BY <1>4, <1>5, <1>6

LEMMA ReadOneCounted ==
  ASSUME NEW m, NEW pr, Base(m, pr), Runs(m.k), NEW p \in Ports, m.port[p].owner # 0,
         m.uart[p].rbr # NONE, NEW late \in {NONE} \cup Typed,
         Quiet(m, pr), Counted(m, pr)
  PROVE  Quiet(PortReadOne(m, p, late), pr) /\ Counted(PortReadOne(m, p, late), pr)
<1> DEFINE d == m.port[p]
           n == PortReadOne(m, p, late)
           byte == m.uart[p].rbr
           o == d.owner
           u == Arrived(ReadData(m.uart[p]), late)
           sid == d.read_sid
<1>1. /\ m \in MachineType /\ m.port \in [Ports -> PortType] /\ m.uart \in [Ports -> UartType]
      /\ d \in PortType /\ m.uart[p] \in UartType /\ o \in TermPids
      /\ pr[o].my_port = p
  BY OwnedPort
<1>2. /\ d.read_q \in RingType /\ d.loopback_q \in Seq(Typed \cup {NewLine})
      /\ byte \in Typed /\ sid \in Sids
  BY <1>1, PortFields DEF UartType
<1>3. Base(n, pr) /\ \A q \in Ports : SameEnds(m.port[q], n.port[q])
  BY ReadOneBase
<1>4. pr[o].pc \in Working
  BY <1>1 DEF Quiet
<1>5. HasReadSid(pr[o]) /\ ReadSid(m, pr[o]) = sid
  BY <1>1, <1>4 DEF HasReadSid, HasWriteSid, ReadSid, Working
<1> HIDE DEF n, u
<1>6. CASE d.read_q.size = QUEUE_SIZE
  <2>1. n = MachineOf(m.k, m.port, [m.uart EXCEPT ![p] = u])
    BY <1>1, <1>6, ReadOneIs DEF n, u
  <2>2. n.k = m.k /\ n.port = m.port /\ \A q \in Ports : q # p => n.uart[q] = m.uart[q]
    BY <1>1, <2>1 DEF MachineOf
  <2>3. Quiet(n, pr)
    BY <1>1, <1>4, <2>2 DEF Quiet
  <2>4. Counted(n, pr)
    BY <2>2 DEF Counted, WriteCounted, ReadCounted, Pass, WriteSid, ReadSid
  <2>5. QED  BY <2>3, <2>4 DEF n
<1>7. CASE d.read_q.size # QUEUE_SIZE
  <2> DEFINE e == [d EXCEPT !.read_q = Ring!queue_in(d.read_q, byte),
                            !.loopback_q = Echo(d.loopback_q, byte)]
  <2>1. n = MachineOf(SemPostHandler(m.k, sid), [m.port EXCEPT ![p] = e], [m.uart EXCEPT ![p] = u])
    BY <1>1, <1>7, ReadOneIs DEF n, u
  <2>2. e.write_q = d.write_q /\ e.read_q = Ring!queue_in(d.read_q, byte)
    BY <1>1 DEF PortType
  <2>3. e.read_q.size = d.read_q.size + 1
    BY <1>2, <1>7, <2>2, QueueInIs
  <2> HIDE DEF e
  <2>4. /\ n.k = SemPostHandler(m.k, sid)
        /\ n.port[p] = e /\ \A q \in Ports : q # p => n.port[q] = m.port[q] /\ n.uart[q] = m.uart[q]
    BY <1>1, <2>1 DEF MachineOf
  <2>5. Quiet(n, pr)
    BY <1>1, <1>3, <1>4, <2>4 DEF Quiet, SameEnds
  <2> HIDE DEF sid, d, o
  <2>6. ASSUME NEW pid \in TermPids
        PROVE  /\ HasWriteSid(pr[pid]) => WriteCounted(n, pr, pid)
               /\ HasReadSid(pr[pid]) => ReadCounted(n, pr, pid)
    <3> DEFINE q == pr[pid].my_port
    <3>1. /\ m.k.sem[sid].owner = o /\ q \in Ports /\ sid # WriteSid(m, pr[o])
      BY <1>1, <1>5, Belongings DEF o
    <3>2. ASSUME HasWriteSid(pr[pid])
          PROVE  Len(n.port[q].write_q) =
                 Len(m.port[q].write_q) - (IF WriteSid(m, pr[pid]) = sid THEN 1 ELSE 0)
      <4>1. m.k.sem[WriteSid(m, pr[pid])].owner = pid
        BY <3>2, Belongings
      <4>2. WriteSid(m, pr[pid]) # sid
        BY <3>1, <4>1
      <4>3. n.port[q].write_q = m.port[q].write_q
        BY <2>2, <2>4, <3>1 DEF d
      <4>4. m.port[q].write_q \in Seq({PromptByte})
        BY <1>1, <3>1, PortFields
      <4>5. Len(m.port[q].write_q) \in Nat
        BY <4>4, LenProperties
      <4>6. QED  BY <4>2, <4>3, <4>5
    <3>3. ASSUME HasReadSid(pr[pid])
          PROVE  n.port[q].read_q.size =
                 m.port[q].read_q.size + (IF ReadSid(m, pr[pid]) = sid THEN 1 ELSE 0)
      <4>1. m.k.sem[ReadSid(m, pr[pid])].owner = pid /\ m.port[q].owner = pid
        BY <3>3, Belongings DEF HasReadSid, HasWriteSid
      <4>2. CASE ReadSid(m, pr[pid]) = sid
        BY <1>1, <2>3, <2>4, <3>1, <4>1, <4>2 DEF d
      <4>3. CASE ReadSid(m, pr[pid]) # sid
        <5>1. q # p
          BY <1>5, <4>1, <4>3 DEF o, d
        <5>2. m.port[q].read_q.size \in Nat
          BY <1>1, <3>1, PortFields, RingFields
        <5>3. QED  BY <2>4, <3>1, <4>3, <5>1, <5>2
      <4>4. QED  BY <4>2, <4>3
    <3>4. QED  BY <1>2, <1>3, <2>4, <3>2, <3>3, PostedCounts
  <2>7. QED  BY <2>5, <2>6 DEF Counted, n
<1>8. QED  BY <1>6, <1>7

LEMMA LoopCounted ==
  ASSUME NEW m, NEW pr, Base(m, pr), Runs(m.k), NEW p \in Ports, NEW late \in {NONE} \cup Typed,
         Quiet(m, pr), Counted(m, pr)
  PROVE  Quiet(PortHandler(m, p, late), pr) /\ Counted(PortHandler(m, p, late), pr)
<1>1. PICK f :
        /\ f[0] = m /\ f[PORT_NUM] = PortHandler(m, p, late)
        /\ \A n \in 0 .. PORT_NUM : Base(f[n], pr) /\ Runs(f[n].k)
        /\ \A n \in Ports :
             /\ f[n].port[n].owner = 0 => f[n + 1] = f[n]
             /\ f[n].port[n].owner # 0 =>
                  f[n + 1] = ServePort(f[n], n, IF n = p THEN late ELSE NONE)
  BY LoopBase
<1> DEFINE T == {n \in 0 .. PORT_NUM : Quiet(f[n], pr) /\ Counted(f[n], pr)}
<1>2. PORT_NUM \in Nat /\ Ports = 0 .. PORT_NUM - 1
  BY Constants DEF Ports
<1>3. 0 \in T
  BY <1>1, <1>2
<1>4. ASSUME NEW n \in 0 .. PORT_NUM - 1, n \in T PROVE n + 1 \in T
  <2> DEFINE x == IF n = p THEN late ELSE NONE
  <2>1. n \in Ports /\ n \in 0 .. PORT_NUM /\ n + 1 \in 0 .. PORT_NUM /\ x \in {NONE} \cup Typed
    BY <1>2
  <2>2. Base(f[n], pr) /\ Runs(f[n].k) /\ Quiet(f[n], pr) /\ Counted(f[n], pr)
    BY <1>1, <1>4, <2>1
  <2>3. CASE f[n].port[n].owner = 0
    BY <1>1, <1>4, <2>1, <2>3
  <2>4. CASE f[n].port[n].owner # 0
    <3>1. f[n + 1] = ServePort(f[n], n, x)
      BY <1>1, <2>1, <2>4
    <3> HIDE DEF x
    <3> DEFINE seen == Seen(f[n], n)
    <3>2. /\ Base(seen, pr) /\ Runs(seen.k) /\ seen.port[n].owner # 0
          /\ seen.uart[n].rbr = f[n].uart[n].rbr /\ Quiet(seen, pr) /\ Counted(seen, pr)
      BY <2>1, <2>2, <2>4, SeenBase, SeenCounted
    <3>3. PICK done :
            /\ \/ f[n].uart[n].rbr # NONE /\ done = PortReadOne(seen, n, x)
               \/ done = PortWriteOne(seen, n)
               \/ done = seen
            /\ Base(done, pr) /\ Runs(done.k) /\ done.port[n].owner # 0
            /\ ServePort(f[n], n, x) = PortWriteOne(done, n)
      BY <2>1, <2>2, <2>4, ServeIs
    <3> HIDE DEF seen
    <3>4. Quiet(done, pr) /\ Counted(done, pr)
      BY <2>1, <3>2, <3>3, ReadOneCounted, WriteOneCounted
    <3>5. Quiet(f[n + 1], pr) /\ Counted(f[n + 1], pr)
      BY <2>1, <3>1, <3>3, <3>4, WriteOneCounted
    <3>6. QED  BY <2>1, <3>5
  <2>5. QED  BY <2>3, <2>4
<1>5. 0 .. PORT_NUM \subseteq T
  <2> HIDE DEF T
  <2> QED  BY <1>2, <1>3, <1>4, IntervalInduction
<1>6. QED  BY <1>1, <1>2, <1>5

-----------------------------------------------------------------------------
(***************************************************************************)
(* What the lower half does to each port, for the order of its input and   *)
(* the flow of its output.                                                 *)
(***************************************************************************)
\* A port has nothing to send, or a byte on its way.
Sending(d, u) == d.write_q # <<>> \/ d.loopback_q # <<>> => u.thr # NONE /\ ~u.thre

\* Nothing happens to a port, or it is not read from.
SamePort(m, n, q)  == n.port[q] = m.port[q] /\ n.uart[q] = m.uart[q]
SameInput(m, n, q) == n.port[q].read_q = m.port[q].read_q /\ n.uart[q].rbr = m.uart[q].rbr

LEMMA WriteOneEffect ==
  ASSUME NEW m, NEW pr, Base(m, pr), NEW p \in Ports, m.port[p].owner # 0
  PROVE  LET n == PortWriteOne(m, p) IN
         /\ \A q \in Ports : q # p => SamePort(m, n, q)
         /\ SameInput(m, n, p) /\ Sending(n.port[p], n.uart[p])
         /\ n.uart[p].enabled = m.uart[p].enabled
         /\ m.uart[p].irq => n.uart[p].irq
         /\ m.port[p].loopback_q = <<>> /\ Len(m.port[p].write_q) = 1 =>
              n.port[p].write_q = <<>> /\ n.port[p].loopback_q = <<>>
<1> DEFINE d == m.port[p]
           n == PortWriteOne(m, p)
<1>1. /\ m \in MachineType /\ m.port \in [Ports -> PortType] /\ m.uart \in [Ports -> UartType]
      /\ d \in PortType /\ m.uart[p] \in UartType
  BY OwnedPort
<1>2. d.write_q \in Seq({PromptByte}) /\ d.loopback_q \in Seq(Typed \cup {NewLine})
  BY <1>1, PortFields
<1> HIDE DEF n
<1>3. CASE d.loopback_q # <<>>
  <2> DEFINE e == [d EXCEPT !.loopback_q = Tail(d.loopback_q)]
             u == WriteData(m.uart[p], Head(d.loopback_q))
  <2>1. n = MachineOf(m.k, [m.port EXCEPT ![p] = e], [m.uart EXCEPT ![p] = u])
    BY <1>1, <1>3, WriteOneIs DEF n
  <2>2. /\ u.rbr = m.uart[p].rbr /\ u.thr # NONE /\ ~u.thre /\ u.enabled = m.uart[p].enabled
        /\ m.uart[p].irq => u.irq
    BY <1>1, <1>2, <1>3, TailIs, WriteDataIs DEF Sendable
  <2>3. e.read_q = d.read_q
    BY <1>1 DEF PortType
  <2> HIDE DEF u, e
  <2>4. n.port[p] = e /\ n.uart[p] = u /\ \A q \in Ports : q # p => SamePort(m, n, q)
    BY <1>1, <2>1 DEF MachineOf, SamePort
  <2>5. QED  BY <1>3, <2>2, <2>3, <2>4 DEF SameInput, Sending, n
<1>4. CASE d.loopback_q = <<>> /\ d.write_q # <<>>
  <2> DEFINE e == [d EXCEPT !.write_q = Tail(d.write_q)]
             u == WriteData(m.uart[p], Head(d.write_q))
             k1 == SemPostHandler(m.k, d.write_sid)
  <2>1. n = MachineOf(k1, [m.port EXCEPT ![p] = e], [m.uart EXCEPT ![p] = u])
    BY <1>1, <1>4, WriteOneIs DEF n
  <2>2. /\ u.rbr = m.uart[p].rbr /\ u.thr # NONE /\ ~u.thre /\ u.enabled = m.uart[p].enabled
        /\ m.uart[p].irq => u.irq
    BY <1>1, <1>2, <1>4, TailIs, WriteDataIs DEF Sendable
  <2>3. e.read_q = d.read_q /\ e.write_q = Tail(d.write_q) /\ e.loopback_q = <<>>
    BY <1>1, <1>4 DEF PortType
  <2>4. Len(d.write_q) = 1 => Tail(d.write_q) = <<>>
    <3>1. Tail(d.write_q) \in Seq({PromptByte}) /\ Len(Tail(d.write_q)) = Len(d.write_q) - 1
      BY <1>2, <1>4, TailIs
    <3> HIDE DEF d
    <3>2. Len(d.write_q) = 1 => Len(Tail(d.write_q)) = 0
      BY <3>1
    <3>3. QED  BY <3>1, <3>2, EmptySeq
  <2> HIDE DEF u, e, k1
  <2>5. n.port[p] = e /\ n.uart[p] = u /\ \A q \in Ports : q # p => SamePort(m, n, q)
    BY <1>1, <2>1 DEF MachineOf, SamePort
  <2>6. QED  BY <2>2, <2>3, <2>4, <2>5 DEF SameInput, Sending, n
<1>5. CASE d.loopback_q = <<>> /\ d.write_q = <<>>
  <2> DEFINE e == [d EXCEPT !.write_ok = 1]
  <2>1. n = MachineOf(m.k, [m.port EXCEPT ![p] = e], m.uart)
    BY <1>1, <1>5, WriteOneIs DEF n
  <2>2. e.read_q = d.read_q /\ e.write_q = <<>> /\ e.loopback_q = <<>>
    BY <1>1, <1>5 DEF PortType
  <2> HIDE DEF e
  <2>3. n.port[p] = e /\ n.uart = m.uart /\ \A q \in Ports : q # p => SamePort(m, n, q)
    BY <1>1, <2>1 DEF MachineOf, SamePort
  <2>4. QED  BY <2>2, <2>3 DEF SameInput, Sending, n
<1>6. QED  BY <1>3, <1>4, <1>5

\* The received byte goes into the ring if there is room; the data register holds late now.
Received(m, n, p, late) ==
  /\ n.uart[p].rbr = late
  /\ n.port[p].read_q = IF m.port[p].read_q.size = QUEUE_SIZE THEN m.port[p].read_q
                        ELSE Ring!queue_in(m.port[p].read_q, m.uart[p].rbr)

LEMMA ReadOneEffect ==
  ASSUME NEW m, NEW pr, Base(m, pr), NEW p \in Ports, m.port[p].owner # 0,
         NEW late \in {NONE} \cup Typed
  PROVE  LET n == PortReadOne(m, p, late) IN
         /\ \A q \in Ports : q # p => SamePort(m, n, q)
         /\ Received(m, n, p, late)
         /\ n.uart[p].enabled = m.uart[p].enabled
<1> DEFINE d == m.port[p]
           n == PortReadOne(m, p, late)
           byte == m.uart[p].rbr
           u == Arrived(ReadData(m.uart[p]), late)
<1>1. /\ m \in MachineType /\ m.port \in [Ports -> PortType] /\ m.uart \in [Ports -> UartType]
      /\ d \in PortType /\ m.uart[p] \in UartType
  BY OwnedPort
<1>2. u.rbr = late /\ u.enabled = m.uart[p].enabled
  BY <1>1, ReadDataIs
<1> HIDE DEF n, u
<1>3. CASE d.read_q.size = QUEUE_SIZE
  <2>1. n = MachineOf(m.k, m.port, [m.uart EXCEPT ![p] = u])
    BY <1>1, <1>3, ReadOneIs DEF n, u
  <2>2. n.port = m.port /\ n.uart[p] = u /\ \A q \in Ports : q # p => SamePort(m, n, q)
    BY <1>1, <2>1 DEF MachineOf, SamePort
  <2>3. QED  BY <1>2, <1>3, <2>2 DEF Received, n
<1>4. CASE d.read_q.size # QUEUE_SIZE
  <2> DEFINE e == [d EXCEPT !.read_q = Ring!queue_in(d.read_q, byte),
                            !.loopback_q = Echo(d.loopback_q, byte)]
             k1 == SemPostHandler(m.k, d.read_sid)
  <2>1. n = MachineOf(k1, [m.port EXCEPT ![p] = e], [m.uart EXCEPT ![p] = u])
    BY <1>1, <1>4, ReadOneIs DEF n, u
  <2>2. e.read_q = Ring!queue_in(d.read_q, byte)
    BY <1>1 DEF PortType
  <2> HIDE DEF e, k1
  <2>3. n.port[p] = e /\ n.uart[p] = u /\ \A q \in Ports : q # p => SamePort(m, n, q)
    BY <1>1, <2>1 DEF MachineOf, SamePort
  <2>4. QED  BY <1>2, <1>4, <2>2, <2>3 DEF Received, n
<1>5. QED  BY <1>3, <1>4

LEMMA ServeEffect ==
  ASSUME NEW m, NEW pr, Base(m, pr), Runs(m.k), NEW p \in Ports, m.port[p].owner # 0,
         NEW late \in {NONE} \cup Typed
  PROVE  LET n == ServePort(m, p, late) IN
         /\ \A q \in Ports : q # p => SamePort(m, n, q)
         /\ IF m.uart[p].rbr = NONE THEN SameInput(m, n, p) ELSE Received(m, n, p, late)
         /\ Sending(n.port[p], n.uart[p])
         /\ n.uart[p].enabled = m.uart[p].enabled
<1> DEFINE n == ServePort(m, p, late)
           seen == Seen(m, p)
<1>1. /\ Base(seen, pr) /\ Runs(seen.k) /\ seen.port = m.port
      /\ seen.uart[p].rbr = m.uart[p].rbr /\ seen.uart[p].enabled = m.uart[p].enabled
      /\ \A q \in Ports : q # p => SamePort(m, seen, q)
  BY SeenBase DEF SamePort
<1>2. PICK done :
        /\ \/ m.uart[p].rbr # NONE /\ done = PortReadOne(seen, p, late)
           \/ m.uart[p].rbr = NONE /\ done = PortWriteOne(seen, p)
           \/ m.uart[p].rbr = NONE /\ done = seen
        /\ Base(done, pr) /\ done.port[p].owner # 0
        /\ n = PortWriteOne(done, p)
  BY ServeIs
<1> HIDE DEF n, seen
<1>3. /\ \A q \in Ports : q # p => SamePort(m, done, q)
      /\ IF m.uart[p].rbr = NONE THEN SameInput(m, done, p) ELSE Received(m, done, p, late)
      /\ done.uart[p].enabled = m.uart[p].enabled
  <2>1. CASE m.uart[p].rbr # NONE /\ done = PortReadOne(seen, p, late)
    <3>1. /\ \A q \in Ports : q # p => SamePort(seen, done, q)
          /\ Received(seen, done, p, late) /\ done.uart[p].enabled = seen.uart[p].enabled
      BY <1>1, <2>1, ReadOneEffect
    <3>2. QED  BY <1>1, <2>1, <3>1 DEF SamePort, Received
  <2>2. CASE m.uart[p].rbr = NONE /\ done = PortWriteOne(seen, p)
    <3>1. /\ \A q \in Ports : q # p => SamePort(seen, done, q)
          /\ SameInput(seen, done, p) /\ done.uart[p].enabled = seen.uart[p].enabled
      BY <1>1, <2>2, WriteOneEffect
    <3>2. QED  BY <1>1, <2>2, <3>1 DEF SamePort, SameInput
  <2>3. CASE m.uart[p].rbr = NONE /\ done = seen
    BY <1>1, <2>3 DEF SameInput
  <2>4. QED  BY <1>2, <2>1, <2>2, <2>3
<1>4. /\ \A q \in Ports : q # p => SamePort(done, n, q)
      /\ SameInput(done, n, p) /\ Sending(n.port[p], n.uart[p])
      /\ n.uart[p].enabled = done.uart[p].enabled
  BY <1>2, WriteOneEffect
<1>5. \A q \in Ports : q # p => SamePort(m, n, q)
  BY <1>3, <1>4 DEF SamePort
<1>6. IF m.uart[p].rbr = NONE THEN SameInput(m, n, p) ELSE Received(m, n, p, late)
  BY <1>3, <1>4 DEF SameInput, Received
<1>7. QED  BY <1>3, <1>4, <1>5, <1>6 DEF n

\* The loop of PortHandler serves each port once.
LEMMA LoopEffect ==
  ASSUME NEW m, NEW pr, Base(m, pr), Runs(m.k), NEW p \in Ports, NEW late \in {NONE} \cup Typed,
         NEW q \in Ports
  PROVE  LET n == PortHandler(m, p, late)
             x == IF q = p THEN late ELSE NONE
         IN  /\ m.port[q].owner = 0 => SamePort(m, n, q)
             /\ m.port[q].owner # 0 =>
                  /\ IF m.uart[q].rbr = NONE THEN SameInput(m, n, q) ELSE Received(m, n, q, x)
                  /\ Sending(n.port[q], n.uart[q])
                  /\ n.uart[q].enabled = m.uart[q].enabled
<1> DEFINE n == PortHandler(m, p, late)
           x == IF q = p THEN late ELSE NONE
<1>1. PICK f :
        /\ f[0] = m /\ f[PORT_NUM] = n
        /\ \A i \in 0 .. PORT_NUM :
             /\ Base(f[i], pr) /\ Runs(f[i].k)
             /\ \A r \in Ports : SameEnds(m.port[r], f[i].port[r])
        /\ \A i \in Ports :
             /\ f[i].port[i].owner = 0 => f[i + 1] = f[i]
             /\ f[i].port[i].owner # 0 =>
                  f[i + 1] = ServePort(f[i], i, IF i = p THEN late ELSE NONE)
  BY LoopBase
<1>2. PORT_NUM \in Nat /\ Ports = 0 .. PORT_NUM - 1
  BY Constants DEF Ports
<1>3. ASSUME NEW i \in Ports, i # q PROVE SamePort(f[i], f[i + 1], q)
  <2>1. CASE f[i].port[i].owner = 0
    BY <1>1, <2>1 DEF SamePort
  <2>2. CASE f[i].port[i].owner # 0
    <3> DEFINE y == IF i = p THEN late ELSE NONE
    <3>1. /\ f[i + 1] = ServePort(f[i], i, y) /\ y \in {NONE} \cup Typed
          /\ Base(f[i], pr) /\ Runs(f[i].k)
      BY <1>1, <1>2, <2>2
    <3> HIDE DEF y
    <3>2. QED  BY <1>3, <2>2, <3>1, ServeEffect
  <2>3. QED  BY <2>1, <2>2
<1> DEFINE Before == {i \in 0 .. q : SamePort(m, f[i], q)}
           After  == {i \in Nat : q + 1 + i <= PORT_NUM => SamePort(f[q + 1], f[q + 1 + i], q)}
<1>4. SamePort(m, f[q], q)
  <2>1. 0 \in Before
    BY <1>1, <1>2 DEF SamePort
  <2>2. ASSUME NEW i \in 0 .. q - 1, i \in Before PROVE i + 1 \in Before
    <3>1. i \in Ports /\ i # q /\ i + 1 \in 0 .. q
      BY <1>2
    <3>2. QED  BY <1>3, <2>2, <3>1 DEF SamePort
  <2>3. q \in Nat /\ q \in 0 .. q
    BY <1>2
  <2>4. 0 .. q \subseteq Before
    <3> HIDE DEF Before
    <3> QED  BY <2>1, <2>2, <2>3, IntervalInduction
  <2>5. QED  BY <2>3, <2>4
<1>5. SamePort(f[q + 1], n, q)
  <2>1. 0 \in After
    <3>1. q + 1 + 0 = q + 1
      BY <1>2
    <3>2. QED  BY <3>1 DEF SamePort
  <2>2. ASSUME NEW i \in Nat, i \in After PROVE i + 1 \in After
    <3> SUFFICES ASSUME q + 1 + (i + 1) <= PORT_NUM
                 PROVE  SamePort(f[q + 1], f[q + 1 + (i + 1)], q)
      OBVIOUS
    <3>1. /\ q + 1 + i \in Ports /\ q + 1 + i # q /\ q + 1 + i <= PORT_NUM
          /\ q + 1 + (i + 1) = (q + 1 + i) + 1
      BY <1>2
    <3>2. SamePort(f[q + 1], f[q + 1 + i], q)
      BY <2>2, <3>1
    <3>3. SamePort(f[q + 1 + i], f[q + 1 + (i + 1)], q)
      BY <1>3, <3>1
    <3>4. QED  BY <3>2, <3>3 DEF SamePort
  <2>3. Nat \subseteq After
    <3> HIDE DEF After
    <3> QED  BY <2>1, <2>2, NatSetInduction
  <2>4. \E i \in Nat : q + 1 + i = PORT_NUM
    <3>1. PORT_NUM - (q + 1) \in Nat /\ q + 1 + (PORT_NUM - (q + 1)) = PORT_NUM
      BY <1>2
    <3>2. QED  BY <3>1
  <2>5. PICK i \in Nat : q + 1 + i = PORT_NUM
    BY <2>4
  <2>6. i \in After
    BY <2>3
  <2>7. SamePort(f[q + 1], f[PORT_NUM], q)
    BY <1>2, <2>5, <2>6
  <2>8. QED  BY <1>1, <2>7
<1> HIDE DEF n
<1>6. ASSUME m.port[q].owner = 0 PROVE SamePort(m, n, q)
  <2>1. f[q + 1] = f[q]
    BY <1>1, <1>4, <1>6 DEF SamePort
  <2>2. QED  BY <1>4, <1>5, <2>1 DEF SamePort
<1>7. ASSUME m.port[q].owner # 0
      PROVE  /\ IF m.uart[q].rbr = NONE THEN SameInput(m, n, q) ELSE Received(m, n, q, x)
             /\ Sending(n.port[q], n.uart[q])
             /\ n.uart[q].enabled = m.uart[q].enabled
  <2>1. f[q].port[q].owner # 0 /\ Base(f[q], pr) /\ Runs(f[q].k)
    BY <1>1, <1>2, <1>4, <1>7 DEF SamePort
  <2>2. f[q + 1] = ServePort(f[q], q, x) /\ x \in {NONE} \cup Typed
    BY <1>1, <2>1
  <2> HIDE DEF x
  <2>3. /\ IF f[q].uart[q].rbr = NONE THEN SameInput(f[q], f[q + 1], q)
           ELSE Received(f[q], f[q + 1], q, x)
        /\ Sending(f[q + 1].port[q], f[q + 1].uart[q])
        /\ f[q + 1].uart[q].enabled = f[q].uart[q].enabled
    BY <2>1, <2>2, ServeEffect
  <2>4. QED  BY <1>4, <1>5, <2>3 DEF SamePort, SameInput, Received
<1>8. QED  BY <1>6, <1>7 DEF n

-----------------------------------------------------------------------------
(***************************************************************************)
(* What the ring does to the order of its bytes.                           *)
(***************************************************************************)
LEMMA RingItems ==
  ASSUME NEW q \in RingType
  PROVE  \A i \in 1 .. q.size : /\ Ring!SlotOf(q, i) \in Ring!Slots
                                /\ Ring!Contents(q)[i] = q.items[Ring!SlotOf(q, i)]
                                /\ Ring!Contents(q)[i] \in Nat
<1> SUFFICES ASSUME NEW i \in 1 .. q.size
             PROVE  /\ Ring!SlotOf(q, i) \in Ring!Slots
                    /\ Ring!Contents(q)[i] = q.items[Ring!SlotOf(q, i)]
                    /\ Ring!Contents(q)[i] \in Nat
  OBVIOUS
<1>1. /\ q.head \in Nat /\ q.head < QUEUE_SIZE /\ q.size \in Nat /\ q.size <= QUEUE_SIZE
      /\ q.items \in [Ring!Slots -> {0} \cup Typed] /\ QUEUE_SIZE \in Nat
  BY RingFields, Constants
<1>2. Ring!SlotOf(q, i) \in Ring!Slots
  BY <1>1 DEF Ring!SlotOf, Ring!Slots
<1>3. Ring!Contents(q)[i] = q.items[Ring!SlotOf(q, i)]
  BY DEF Ring!Contents
<1>4. q.items[Ring!SlotOf(q, i)] \in Nat
  <2>1. q.items[Ring!SlotOf(q, i)] \in {0} \cup Typed
    BY <1>1, <1>2
  <2>2. QED  BY <2>1, BytesAreNumbers
<1>5. QED  BY <1>2, <1>3, <1>4

\* A later byte comes in, over rbr or after it was read.
LEMMA OrderedArrives ==
  ASSUME NEW q \in RingType, NEW ch \in Nat, NEW rbr, NEW n \in Nat, Ordered(ch, q, rbr, n),
         NEW late \in {NONE} \cup Typed, NEW n2 \in Nat, n <= n2,
         late # NONE => n < late /\ late <= n2
  PROVE  Ordered(ch, q, late, n2)
<1>1. late \in Nat /\ \A i \in 1 .. q.size : Ring!Contents(q)[i] \in Nat
  BY RingItems, Bytes
<1>2. ch <= n2 /\ (late # NONE => ch < late)
  BY <1>1 DEF Ordered
<1>3. \A i \in 1 .. q.size : /\ Ring!Contents(q)[i] <= n2
                             /\ late # NONE => Ring!Contents(q)[i] < late
  BY <1>1 DEF Ordered
<1>4. QED  BY <1>2, <1>3 DEF Ordered

\* The received byte goes to the end of the ring.
LEMMA OrderedAppend ==
  ASSUME NEW q \in RingType, q.size # QUEUE_SIZE, NEW ch \in Nat, NEW rbr \in Typed,
         NEW n \in Nat, Ordered(ch, q, rbr, n)
  PROVE  Ordered(ch, Ring!queue_in(q, rbr), NONE, n)
<1> DEFINE r == Ring!queue_in(q, rbr)
<1>1. /\ q.head \in Nat /\ q.head < QUEUE_SIZE /\ q.size \in Nat /\ q.size < QUEUE_SIZE
      /\ q.items \in [Ring!Slots -> {0} \cup Typed] /\ QUEUE_SIZE \in Nat
      /\ q.tail \in Nat /\ q.tail < QUEUE_SIZE /\ q.tail \in Ring!Slots
  BY RingFields, Constants
<1>2. /\ r \in RingType /\ r.head = q.head /\ r.tail = Ring!Forward(q.tail)
      /\ r.size = q.size + 1 /\ r.items = [q.items EXCEPT ![q.tail] = rbr]
  BY QueueInIs
<1> HIDE DEF r
<1>3. q.tail = IF q.head + q.size < QUEUE_SIZE THEN q.head + q.size ELSE q.head + q.size - QUEUE_SIZE
  BY DEF Ordered
<1>4. r.tail = IF r.head + r.size < QUEUE_SIZE THEN r.head + r.size ELSE r.head + r.size - QUEUE_SIZE
  BY <1>1, <1>2, <1>3 DEF Ring!Forward
<1>5. /\ \A i \in 1 .. q.size : Ring!SlotOf(r, i) = Ring!SlotOf(q, i) /\ Ring!SlotOf(q, i) # q.tail
      /\ Ring!SlotOf(r, q.size + 1) = q.tail
  BY <1>1, <1>2, <1>3 DEF Ring!SlotOf
<1>6. /\ \A i \in 1 .. q.size : Ring!Contents(r)[i] = Ring!Contents(q)[i]
      /\ Ring!Contents(r)[q.size + 1] = rbr
  <2>1. ASSUME NEW i \in 1 .. q.size PROVE Ring!Contents(r)[i] = Ring!Contents(q)[i]
    <3>1. i \in 1 .. r.size
      BY <1>1, <1>2
    <3>2. r.items[Ring!SlotOf(q, i)] = q.items[Ring!SlotOf(q, i)]
      BY <1>1, <1>2, <1>5, RingItems
    <3>3. QED  BY <1>2, <1>5, <3>1, <3>2, RingItems
  <2>2. q.size + 1 \in 1 .. r.size
    BY <1>1, <1>2
  <2>3. QED  BY <1>1, <1>2, <1>5, <2>1, <2>2, RingItems
<1>7. \A i \in 1 .. r.size : i \in 1 .. q.size \/ i = q.size + 1
  BY <1>1, <1>2
<1>8. rbr \in Nat /\ \A i \in 1 .. q.size : Ring!Contents(q)[i] \in Nat /\ Ring!Contents(q)[i] < rbr
  BY RingItems, Bytes DEF Ordered
<1>9. ASSUME NEW i \in 1 .. r.size, NEW j \in 1 .. r.size, i < j
      PROVE  Ring!Contents(r)[i] < Ring!Contents(r)[j]
  <2>1. i \in 1 .. q.size
    BY <1>1, <1>2, <1>9
  <2>2. CASE j \in 1 .. q.size
    BY <1>6, <1>9, <2>1, <2>2 DEF Ordered
  <2>3. CASE j = q.size + 1
    BY <1>6, <1>8, <2>1, <2>3
  <2>4. QED  BY <1>7, <2>2, <2>3
<1>10. ASSUME NEW i \in 1 .. r.size PROVE ch < Ring!Contents(r)[i] /\ Ring!Contents(r)[i] <= n
  <2>1. CASE i \in 1 .. q.size
    BY <1>6, <2>1 DEF Ordered
  <2>2. CASE i = q.size + 1
    BY <1>6, <2>2, Bytes DEF Ordered
  <2>3. QED  BY <1>7, <2>1, <2>2
<1>11. QED  BY <1>4, <1>9, <1>10 DEF Ordered, r

\* The oldest byte of the ring is read.
LEMMA OrderedOut ==
  ASSUME NEW q \in RingType, q.size # 0, NEW ch \in Nat, NEW rbr \in {NONE} \cup Typed,
         NEW n \in Nat, Ordered(ch, q, rbr, n)
  PROVE  Ordered(Ring!queue_front(q), Ring!queue_out(q), rbr, n)
<1> DEFINE r == Ring!queue_out(q)
<1>1. /\ q.head \in Nat /\ q.head < QUEUE_SIZE /\ q.size \in Nat \ {0} /\ q.size <= QUEUE_SIZE
      /\ q.items \in [Ring!Slots -> {0} \cup Typed] /\ QUEUE_SIZE \in Nat
      /\ q.tail \in Nat /\ q.tail < QUEUE_SIZE /\ q.head \in Ring!Slots
  BY RingFields, Constants
<1>2. /\ r \in RingType /\ r.head = Ring!Forward(q.head) /\ r.tail = q.tail
      /\ r.size = q.size - 1 /\ r.items = [q.items EXCEPT ![q.head] = 0]
  BY QueueOutIs
<1> HIDE DEF r
<1>3. q.tail = IF q.head + q.size < QUEUE_SIZE THEN q.head + q.size ELSE q.head + q.size - QUEUE_SIZE
  BY DEF Ordered
<1>4. r.tail = IF r.head + r.size < QUEUE_SIZE THEN r.head + r.size ELSE r.head + r.size - QUEUE_SIZE
  BY <1>1, <1>2, <1>3 DEF Ring!Forward
<1>5. ASSUME NEW i \in 1 .. r.size
      PROVE  /\ Ring!SlotOf(r, i) = Ring!SlotOf(q, i + 1) /\ Ring!SlotOf(q, i + 1) # q.head
             /\ i + 1 \in 1 .. q.size
  <2>1. CASE q.head + 1 = QUEUE_SIZE
    BY <1>1, <1>2, <2>1 DEF Ring!SlotOf, Ring!Forward
  <2>2. CASE q.head + 1 # QUEUE_SIZE
    BY <1>1, <1>2, <2>2 DEF Ring!SlotOf, Ring!Forward
  <2>3. QED  BY <2>1, <2>2
<1>6. ASSUME NEW i \in 1 .. r.size PROVE Ring!Contents(r)[i] = Ring!Contents(q)[i + 1]
  <2>1. r.items[Ring!SlotOf(q, i + 1)] = q.items[Ring!SlotOf(q, i + 1)]
    BY <1>1, <1>2, <1>5, RingItems
  <2>2. QED  BY <1>2, <1>5, <2>1, RingItems
<1>7. 1 \in 1 .. q.size /\ Ring!Contents(q)[1] = Ring!queue_front(q)
  <2>1. 1 \in 1 .. q.size /\ Ring!SlotOf(q, 1) = q.head
    BY <1>1 DEF Ring!SlotOf
  <2>2. QED  BY <2>1, RingItems DEF Ring!queue_front
<1>8. ASSUME NEW i \in 1 .. r.size, NEW j \in 1 .. r.size, i < j
      PROVE  Ring!Contents(r)[i] < Ring!Contents(r)[j]
  <2>1. i + 1 < j + 1 /\ i + 1 \in 1 .. q.size /\ j + 1 \in 1 .. q.size
    BY <1>1, <1>2, <1>8
  <2>2. Ring!Contents(q)[i + 1] < Ring!Contents(q)[j + 1]
    BY <2>1 DEF Ordered
  <2>3. QED  BY <1>6, <2>2
<1>9. ASSUME NEW i \in 1 .. r.size
      PROVE  /\ Ring!queue_front(q) < Ring!Contents(r)[i] /\ Ring!Contents(r)[i] <= n
             /\ rbr # NONE => Ring!Contents(r)[i] < rbr
  <2>1. 1 < i + 1 /\ i + 1 \in 1 .. q.size
    BY <1>1, <1>2
  <2>2. Ring!Contents(q)[1] < Ring!Contents(q)[i + 1]
    BY <1>7, <2>1 DEF Ordered
  <2>3. Ring!Contents(q)[i + 1] <= n /\ (rbr # NONE => Ring!Contents(q)[i + 1] < rbr)
    BY <2>1 DEF Ordered
  <2>4. QED  BY <1>6, <1>7, <2>2, <2>3
<1>10. /\ Ring!queue_front(q) <= n
       /\ rbr # NONE => Ring!queue_front(q) < rbr /\ rbr <= n
  BY <1>7 DEF Ordered
<1>11. QED  BY <1>4, <1>8, <1>9, <1>10 DEF Ordered, r

LEMMA OrderedEmpty ==
  ASSUME NEW ch \in Nat, NEW n \in Nat, ch <= n
  PROVE  Ordered(ch, Ring!queue_init, NONE, n)
<1>1. /\ Ring!queue_init.head = 0 /\ Ring!queue_init.tail = 0 /\ Ring!queue_init.size = 0
      /\ QUEUE_SIZE \in Nat \ {0}
  BY Constants DEF Ring!queue_init
<1>2. 1 .. 0 = {}
  OBVIOUS
<1>3. QED  BY <1>1, <1>2 DEF Ordered

-----------------------------------------------------------------------------
(***************************************************************************)
(* PortHandler keeps the order of the input and the flow of the output.    *)
(***************************************************************************)
LEMMA LoopOrdered ==
  ASSUME NEW m, NEW pr, Base(m, pr), Runs(m.k), NEW p \in Ports, NEW late \in {NONE} \cup Typed,
         NEW n \in Nat, NEW n2 \in Nat, n <= n2, late # NONE => n < late /\ late <= n2,
         InputOrdered(m, pr, n), late # NONE => m.uart[p].rbr # NONE
  PROVE  InputOrdered(PortHandler(m, p, late), pr, n2)
<1> DEFINE r == PortHandler(m, p, late)
<1> SUFFICES ASSUME NEW q \in Ports, r.port[q].owner # 0
             PROVE  Ordered(pr[r.port[q].owner].ch, r.port[q].read_q, r.uart[q].rbr, n2)
  BY DEF InputOrdered
<1>1. SameEnds(m.port[q], r.port[q])
  BY LoopBase, Constants
<1> DEFINE ch == pr[m.port[q].owner].ch
           x  == IF q = p THEN late ELSE NONE
           d  == m.port[q]
           byte == m.uart[q].rbr
<1>2. m.port[q].owner # 0 /\ r.port[q].owner = m.port[q].owner
  BY <1>1 DEF SameEnds
<1>3. /\ ch \in Nat /\ d.read_q \in RingType /\ byte \in {NONE} \cup Typed
      /\ Ordered(ch, d.read_q, byte, n)
  <2>1. d \in PortType /\ m.uart[q] \in UartType /\ d.owner \in TermPids
    BY <1>2, OwnedPort
  <2>2. pr[d.owner] \in ProcType
    BY <2>1 DEF Base, Processes
  <2>3. ch \in Nat
    BY <2>2, ProcFields
  <2>4. QED  BY <1>2, <2>1, <2>3 DEF PortType, UartType, InputOrdered
<1>4. IF byte = NONE THEN SameInput(m, r, q) ELSE Received(m, r, q, x)
  BY <1>2, LoopEffect
<1>5. x \in {NONE} \cup Typed /\ (x # NONE => n < x /\ x <= n2)
  OBVIOUS
<1> HIDE DEF r
<1>6. CASE byte = NONE
  <2>1. r.port[q].read_q = d.read_q /\ r.uart[q].rbr = NONE
    BY <1>4, <1>6 DEF SameInput
  <2> HIDE DEF ch, d, byte
  <2>2. Ordered(ch, d.read_q, NONE, n2)
    BY <1>3, OrderedArrives
  <2>3. QED  BY <1>2, <2>1, <2>2 DEF ch
<1>7. CASE byte # NONE /\ d.read_q.size = QUEUE_SIZE
  <2>1. r.port[q].read_q = d.read_q /\ r.uart[q].rbr = x
    BY <1>4, <1>7 DEF Received
  <2> HIDE DEF ch, d, byte, x
  <2>2. Ordered(ch, d.read_q, x, n2)
    BY <1>3, <1>5, OrderedArrives
  <2>3. QED  BY <1>2, <2>1, <2>2 DEF ch
<1>8. CASE byte # NONE /\ d.read_q.size # QUEUE_SIZE
  <2>1. r.port[q].read_q = Ring!queue_in(d.read_q, byte) /\ r.uart[q].rbr = x
    BY <1>4, <1>8 DEF Received
  <2> HIDE DEF ch, d, byte, x
  <2>2. byte \in Typed
    BY <1>3, <1>8
  <2>3. Ordered(ch, Ring!queue_in(d.read_q, byte), NONE, n) /\ Ring!queue_in(d.read_q, byte) \in RingType
    BY <1>3, <1>8, <2>2, OrderedAppend, QueueInIs
  <2> DEFINE q2 == Ring!queue_in(d.read_q, byte)
  <2> HIDE DEF q2
  <2>4. Ordered(ch, q2, x, n2)
    BY <1>3, <1>5, <2>3, OrderedArrives DEF q2
  <2>5. QED  BY <1>2, <2>1, <2>4 DEF ch, q2
<1>9. QED  BY <1>6, <1>7, <1>8

\* Without a byte that comes in meanwhile, all data registers are empty after the loop.
LEMMA LoopFlows ==
  ASSUME NEW m, NEW pr, Base(m, pr), Runs(m.k), NEW p \in Ports,
         \A q \in Ports : m.port[q].owner # 0 => m.uart[q].enabled
  PROVE  OutputFlows(PortHandler(m, p, NONE))
<1> DEFINE r == PortHandler(m, p, NONE)
<1> SUFFICES ASSUME NEW q \in Ports PROVE Flows(r.port[q], r.uart[q])
  BY DEF OutputFlows
<1>1. /\ m.port[q].owner = 0 => SamePort(m, r, q)
      /\ m.port[q].owner # 0 =>
           /\ IF m.uart[q].rbr = NONE THEN SameInput(m, r, q) ELSE Received(m, r, q, NONE)
           /\ Sending(r.port[q], r.uart[q])
           /\ r.uart[q].enabled = m.uart[q].enabled
  BY LoopEffect
<1> HIDE DEF r
<1>2. CASE m.port[q].owner = 0
  <2>1. m.port[q] = Unowned
    BY <1>2, Constants DEF Base, Owned
  <2>2. r.port[q].owner = 0 /\ r.port[q].write_q = <<>> /\ r.port[q].loopback_q = <<>>
    BY <1>1, <1>2, <2>1 DEF SamePort, Unowned
  <2>3. QED  BY <2>2 DEF Flows
<1>3. CASE m.port[q].owner # 0
  <2>1. r.uart[q].rbr = NONE
    BY <1>1, <1>3 DEF SameInput, Received
  <2>2. r.uart[q].enabled
    BY <1>1, <1>3
  <2>3. QED  BY <1>1, <1>3, <2>1, <2>2 DEF Sending, Flows
<1>4. QED  BY <1>2, <1>3

-----------------------------------------------------------------------------
(***************************************************************************)
(* The invariants see the kernel only through its semaphores.              *)
(***************************************************************************)
LEMMA OtherKernel ==
  ASSUME NEW m, NEW pr, Base(m, pr), NEW k1, Good(k1), k1.sem = m.k.sem
  PROVE  LET n == MachineOf(k1, m.port, m.uart) IN
         /\ Base(n, pr)
         /\ Quiet(m, pr) => Quiet(n, pr)
         /\ Counted(m, pr) => Counted(n, pr)
         /\ \A i : InputOrdered(m, pr, i) => InputOrdered(n, pr, i)
         /\ OutputFlows(m) => OutputFlows(n)
<1> DEFINE n == MachineOf(k1, m.port, m.uart)
<1>1. /\ m \in MachineType /\ Good(m.k) /\ Bounded(m)
      /\ Processes(pr) /\ Owned(m, pr) /\ Sems(m, pr) /\ Waiting(m, pr)
  BY DEF Base
<1>2. n.k = k1 /\ n.port = m.port /\ n.uart = m.uart /\ n.k.sem = m.k.sem
  BY DEF MachineOf
<1>3. n \in MachineType
  BY <1>1, MachineFields DEF MachineType, MachineOf, Good
<1> HIDE DEF n
<1>4. /\ \A sid : Waiters(n.k, sid) = Waiters(m.k, sid)
      /\ \A t : WriteSid(n, t) = WriteSid(m, t) /\ ReadSid(n, t) = ReadSid(m, t)
  BY <1>2 DEF Waiters, WriteSid, ReadSid
<1>5. Bounded(n) /\ Owned(n, pr)
  BY <1>1, <1>2 DEF Bounded, Owned
<1>6. Sems(n, pr)
  BY <1>1, <1>2, <1>4 DEF Sems
<1>7. Waiting(n, pr)
  BY <1>1, <1>4 DEF Waiting
<1>8. Base(n, pr)
  BY <1>1, <1>2, <1>3, <1>5, <1>6, <1>7 DEF Base
<1>9. Quiet(m, pr) => Quiet(n, pr)
  BY <1>2 DEF Quiet
<1>10. Counted(m, pr) => Counted(n, pr)
  BY <1>2, <1>4 DEF Counted, WriteCounted, ReadCounted, Pass
<1>11. \A i : InputOrdered(m, pr, i) => InputOrdered(n, pr, i)
  BY <1>2 DEF InputOrdered
<1>12. OutputFlows(m) => OutputFlows(n)
  BY <1>2 DEF OutputFlows
<1>13. QED  BY <1>8, <1>9, <1>10, <1>11, <1>12 DEF n

\* A step that leaves the machine h, and then the processes pr.
LEMMA BecomesStep ==
  ASSUME NEW h, NEW pr, Base(h, pr), InitRunnable(h.k), Becomes(h), proc' = pr
  PROVE  /\ IInv' /\ Base(Machine, proc)'
         /\ Quiet(h, pr) /\ Counted(h, pr) => CreditInv'
         /\ InputOrdered(h, pr, typed') => OrderInv'
         /\ OutputFlows(h) => FlowInv'
<1>1. Good(h.k) /\ h \in MachineType
  BY DEF Base
<1>2. IInv' /\ sem' = h.k.sem
  BY <1>1, ScheduledStep DEF Becomes
<1>3. PICK k1 : k1 = Memory'
  OBVIOUS
<1>4. Good(k1) /\ k1.sem = h.k.sem
  BY <1>2, <1>3 DEF IInv, Memory
<1> DEFINE n == MachineOf(k1, h.port, h.uart)
<1>5. Machine' = n
  BY <1>3 DEF Becomes, Machine, MachineOf
<1>6. /\ Base(n, pr)
      /\ Quiet(h, pr) => Quiet(n, pr)
      /\ Counted(h, pr) => Counted(n, pr)
      /\ \A i : InputOrdered(h, pr, i) => InputOrdered(n, pr, i)
      /\ OutputFlows(h) => OutputFlows(n)
  BY <1>4, OtherKernel
<1> HIDE DEF n
<1>7. QED  BY <1>2, <1>5, <1>6 DEF CreditInv, OrderInv, FlowInv

\* A step that leaves the kernel alone.
LEMMA StoredStep ==
  ASSUME IInv, UNCHANGED vars, NEW h, NEW pr, Base(h, pr), h = MachineOf(Memory, port', uart'),
         proc' = pr
  PROVE  /\ IInv' /\ Base(Machine, proc)'
         /\ Quiet(h, pr) /\ Counted(h, pr) => CreditInv'
         /\ InputOrdered(h, pr, typed') => OrderInv'
         /\ OutputFlows(h) => FlowInv'
<1>1. Memory' = Memory /\ IInv'
  BY DEF vars, Memory, IInv
<1>2. Machine' = h
  BY <1>1 DEF Machine, MachineOf
<1>3. QED  BY <1>1, <1>2 DEF CreditInv, OrderInv, FlowInv

\* A step of the kernel, or none.
LEMMA KernelStep ==
  ASSUME SInv, IInv', sem' = sem, UNCHANGED io
  PROVE  /\ SInv'
         /\ CreditInv => CreditInv'
         /\ OrderInv => OrderInv'
         /\ FlowInv => FlowInv'
<1>1. PICK k1 : k1 = Memory'
  OBVIOUS
<1>2. Good(k1) /\ k1.sem = Machine.k.sem
  BY <1>1 DEF IInv, Memory, Machine
<1>3. PICK m, pr : m = Machine /\ pr = proc
  OBVIOUS
<1>4. Base(m, pr)
  BY <1>3 DEF SInv
<1> DEFINE n == MachineOf(k1, m.port, m.uart)
<1>5. Machine' = n /\ proc' = pr /\ typed' = typed
  BY <1>1, <1>3 DEF io, Machine, MachineOf
<1>6. /\ Base(n, pr)
      /\ Quiet(m, pr) => Quiet(n, pr)
      /\ Counted(m, pr) => Counted(n, pr)
      /\ \A i : InputOrdered(m, pr, i) => InputOrdered(n, pr, i)
      /\ OutputFlows(m) => OutputFlows(n)
  BY <1>2, <1>3, <1>4, OtherKernel
<1> HIDE DEF n
<1>7. SInv'
  BY <1>5, <1>6 DEF SInv
<1>8. QED  BY <1>3, <1>5, <1>6, <1>7 DEF CreditInv, OrderInv, FlowInv

\* What SInv says while processes run.
LEMMA RunningMachine ==
  ASSUME SInv, Running
  PROVE  /\ Base(Machine, proc) /\ Runs(Machine.k)
         /\ Machine.k = Memory /\ Machine.k.current_pid = current_pid
         /\ Machine.port = port /\ Machine.uart = uart
         /\ Machine = MachineOf(Memory, port, uart)
         /\ typed \in Nat
<1>1. Machine.k = Memory /\ Machine.port = port /\ Machine.uart = uart
  BY DEF Machine
<1>2. typed \in Nat
  BY Constants DEF SInv
<1>3. QED  BY <1>1, <1>2, RunningMemory DEF SInv, Runs, Machine, MachineOf

-----------------------------------------------------------------------------
(***************************************************************************)
(* Interrupts and the line.                                                *)
(***************************************************************************)
LEMMA BootStep ==
  ASSUME SInv, Boot \/ TimerEvent
  PROVE  SInv' /\ (CreditInv => CreditInv') /\ (OrderInv => OrderInv') /\ (FlowInv => FlowInv')
<1>1. IInv /\ UNCHANGED io
  BY DEF SInv, Boot, TimerEvent
<1>2. IInv' /\ sem' = sem
  BY <1>1, CreateStep, StartStep, TimerStep DEF Boot, TimerEvent
<1>3. QED  BY <1>1, <1>2, KernelStep

\* One register of a UART changes, and its port has an owner.
LEMMA LineStep ==
  ASSUME NEW m, NEW pr, Base(m, pr), NEW p \in Ports, m.port[p].owner # 0, NEW u \in UartType
  PROVE  LET n == MachineOf(m.k, m.port, [m.uart EXCEPT ![p] = u]) IN
         /\ Base(n, pr)
         /\ Quiet(m, pr) /\ (u.rbr = m.uart[p].rbr \/ pr[m.port[p].owner].pc \in Working) => Quiet(n, pr)
         /\ Counted(m, pr) => Counted(n, pr)
<1> DEFINE n == MachineOf(m.k, m.port, [m.uart EXCEPT ![p] = u])
<1>1. /\ m \in MachineType /\ Good(m.k) /\ Bounded(m)
      /\ Processes(pr) /\ Owned(m, pr) /\ Sems(m, pr) /\ Waiting(m, pr)
      /\ m.port \in [Ports -> PortType] /\ m.uart \in [Ports -> UartType]
  BY OwnedPort DEF Base
<1>2. /\ n.k = m.k /\ n.port = m.port /\ n.uart[p] = u
      /\ \A q \in Ports : q # p => n.uart[q] = m.uart[q]
  BY <1>1 DEF MachineOf
<1>3. n \in MachineType
  BY <1>1, MachineFields DEF MachineType, MachineOf
<1> HIDE DEF n
<1>4. Bounded(n) /\ Sems(n, pr) /\ Waiting(n, pr)
  <2>1. \A t : WriteSid(n, t) = WriteSid(m, t) /\ ReadSid(n, t) = ReadSid(m, t)
    BY <1>2 DEF WriteSid, ReadSid
  <2>2. Bounded(n)
    BY <1>1, <1>2 DEF Bounded
  <2>3. Sems(n, pr)
    BY <1>1, <1>2, <2>1 DEF Sems
  <2>4. Waiting(n, pr)
    BY <1>1, <1>2, <2>1 DEF Waiting
  <2>5. QED  BY <2>2, <2>3, <2>4
<1>5. Owned(n, pr)
  <2>1. m.port[p] # Unowned
    BY DEF Unowned
  <2>2. QED  BY <1>1, <1>2, <2>1 DEF Owned
<1>6. Base(n, pr)
  BY <1>1, <1>2, <1>3, <1>4, <1>5 DEF Base
<1>7. Quiet(m, pr) /\ (u.rbr = m.uart[p].rbr \/ pr[m.port[p].owner].pc \in Working) => Quiet(n, pr)
  BY <1>2 DEF Quiet
<1>8. Counted(m, pr) => Counted(n, pr)
  BY <1>2 DEF Counted, WriteCounted, ReadCounted, Pass, WriteSid, ReadSid
<1>9. QED  BY <1>6, <1>7, <1>8 DEF n

\* Only a port with an owner has its interrupts enabled, or one pending, or sends.
LEMMA EnabledOwned ==
  ASSUME NEW m, NEW pr, Base(m, pr), NEW p \in Ports,
         m.uart[p].enabled \/ m.uart[p].irq \/ m.uart[p].thr # NONE
  PROVE  m.port[p].owner # 0
<1>1. Owned(m, pr)
  BY DEF Base
<1>2. m.uart[p] # Silent
  BY DEF Silent, NONE
<1>3. m.port[p].owner \in TermPids
  BY <1>1, <1>2 DEF Owned
<1>4. QED  BY <1>3, Constants

LEMMA TransmitStep ==
  ASSUME SInv, NEW p \in Ports, Transmit(p)
  PROVE  SInv' /\ (CreditInv => CreditInv') /\ (OrderInv => OrderInv') /\ (FlowInv => FlowInv')
<1>1. PICK m, pr : m = Machine /\ pr = proc
  OBVIOUS
<1>2. /\ IInv /\ Base(m, pr) /\ m = MachineOf(Memory, port, uart)
      /\ m.k = Memory /\ m.port = port /\ m.uart = uart
  BY <1>1 DEF SInv, Machine, MachineOf
<1>3. /\ uart[p].thr # NONE /\ uart' = [uart EXCEPT ![p] = Sent(uart[p])]
      /\ UNCHANGED vars /\ port' = port /\ proc' = proc /\ typed' = typed
  BY <1>2 DEF Transmit
<1>4. m.port[p].owner # 0
  BY <1>2, <1>3, EnabledOwned
<1> DEFINE u == Sent(m.uart[p])
           n == MachineOf(m.k, m.port, [m.uart EXCEPT ![p] = u])
<1>5. m.uart \in [Ports -> UartType] /\ m.uart[p] \in UartType
  BY <1>2, <1>4, OwnedPort
<1>6. /\ u \in UartType /\ u.rbr = m.uart[p].rbr /\ u.enabled = m.uart[p].enabled
      /\ m.uart[p].irq \/ (m.uart[p].enabled /\ ~Line(m.uart[p])) => u.irq
  BY <1>5, SentIs
<1>7. n = MachineOf(Memory, port', uart')
  BY <1>2, <1>3
<1>8. /\ n.k = m.k /\ n.port = m.port /\ n.uart[p] = u
      /\ \A q \in Ports : q # p => n.uart[q] = m.uart[q]
  BY <1>5 DEF MachineOf
<1> HIDE DEF u
<1>9. /\ Base(n, pr) /\ (Quiet(m, pr) => Quiet(n, pr)) /\ (Counted(m, pr) => Counted(n, pr))
  BY <1>2, <1>4, <1>6, LineStep
<1> HIDE DEF n
<1>10. /\ IInv' /\ Base(Machine, proc)'
       /\ Quiet(n, pr) /\ Counted(n, pr) => CreditInv'
       /\ InputOrdered(n, pr, typed') => OrderInv'
       /\ OutputFlows(n) => FlowInv'
  BY <1>1, <1>2, <1>3, <1>7, <1>9, StoredStep
<1>11. InputOrdered(m, pr, typed) => InputOrdered(n, pr, typed)
  BY <1>6, <1>8 DEF InputOrdered
<1>12. OutputFlows(m) => OutputFlows(n)
  <2> SUFFICES ASSUME OutputFlows(m), NEW q \in Ports PROVE Flows(n.port[q], n.uart[q])
    BY DEF OutputFlows
  <2>1. CASE q # p
    BY <1>8, <2>1 DEF OutputFlows
  <2>2. CASE q = p
    <3>1. Flows(m.port[p], m.uart[p])
      BY DEF OutputFlows
    <3>2. QED  BY <1>4, <1>6, <1>8, <2>2, <3>1 DEF Flows, Line
  <2>3. QED  BY <2>1, <2>2
<1>13. QED  BY <1>1, <1>3, <1>9, <1>10, <1>11, <1>12 DEF SInv, CreditInv, OrderInv, FlowInv

LEMMA TypeStep ==
  ASSUME SInv, NEW p \in Ports, Type(p)
  PROVE  /\ SInv'
         /\ ~TYPES_EARLY /\ CreditInv => CreditInv'
         /\ OrderInv => OrderInv'
         /\ FlowInv => FlowInv'
<1>1. PICK m, pr : m = Machine /\ pr = proc
  OBVIOUS
<1>2. /\ IInv /\ Base(m, pr) /\ m = MachineOf(Memory, port, uart)
      /\ m.k = Memory /\ m.port = port /\ m.uart = uart /\ typed \in 0 .. MAX_TYPED
  BY <1>1 DEF SInv, Machine, MachineOf
<1> DEFINE byte == typed + 1
           u == Arrived(m.uart[p], byte)
           n == MachineOf(m.k, m.port, [m.uart EXCEPT ![p] = u])
<1>3. /\ m.uart[p].enabled /\ uart' = [uart EXCEPT ![p] = u]
      /\ UNCHANGED vars /\ port' = port /\ proc' = proc /\ typed' = byte
      /\ typed < MAX_TYPED /\ (TYPES_EARLY \/ SetUp(p))
  BY <1>2 DEF Type
<1>4. m.port[p].owner # 0
  BY <1>2, <1>3, EnabledOwned
<1>5. m.uart \in [Ports -> UartType] /\ m.uart[p] \in UartType
  BY <1>2, <1>4, OwnedPort
<1>6. byte \in Typed /\ byte \in 0 .. MAX_TYPED /\ typed \in Nat /\ byte \in Nat
      /\ typed <= byte /\ typed < byte /\ byte <= byte
  BY <1>2, <1>3, Constants DEF Typed
<1> HIDE DEF byte
<1>7. /\ u \in UartType /\ u.rbr = byte /\ u.enabled = m.uart[p].enabled
      /\ m.uart[p].irq \/ (m.uart[p].enabled /\ ~Line(m.uart[p])) => u.irq
  BY <1>5, <1>6, ArrivedIs
<1>8. n = MachineOf(Memory, port', uart')
  BY <1>2, <1>3
<1>9. /\ n.k = m.k /\ n.port = m.port /\ n.uart[p] = u
      /\ \A q \in Ports : q # p => n.uart[q] = m.uart[q]
  BY <1>5 DEF MachineOf
<1> HIDE DEF u
<1>10. /\ Base(n, pr) /\ (Counted(m, pr) => Counted(n, pr))
       /\ Quiet(m, pr) /\ pr[m.port[p].owner].pc \in Working => Quiet(n, pr)
  BY <1>2, <1>4, <1>7, LineStep
<1> HIDE DEF n
<1>11. /\ IInv' /\ Base(Machine, proc)'
       /\ Quiet(n, pr) /\ Counted(n, pr) => CreditInv'
       /\ InputOrdered(n, pr, typed') => OrderInv'
       /\ OutputFlows(n) => FlowInv'
  BY <1>1, <1>2, <1>3, <1>8, <1>10, StoredStep
<1>12. ~TYPES_EARLY => pr[m.port[p].owner].pc \in Working
  BY <1>1, <1>2, <1>3 DEF SetUp, Working
<1>13. InputOrdered(m, pr, typed) => InputOrdered(n, pr, byte)
  <2> SUFFICES ASSUME InputOrdered(m, pr, typed), NEW q \in Ports, n.port[q].owner # 0
               PROVE  Ordered(pr[n.port[q].owner].ch, n.port[q].read_q, n.uart[q].rbr, byte)
    BY DEF InputOrdered
  <2> DEFINE ch == pr[m.port[q].owner].ch
             ring == m.port[q].read_q
             rbr == m.uart[q].rbr
  <2>1. /\ m.port[q] \in PortType /\ m.uart[q] \in UartType /\ m.port[q].owner \in TermPids
        /\ Processes(pr)
    BY <1>2, <1>9, OwnedPort DEF Base
  <2>2. ch \in Nat /\ ring \in RingType /\ rbr \in {NONE} \cup Typed
    BY <2>1, ProcFields DEF Processes, PortType, UartType
  <2>3. Ordered(ch, ring, rbr, typed)
    BY <1>9 DEF InputOrdered
  <2> HIDE DEF ch, ring, rbr
  <2>4. Ordered(ch, ring, byte, byte)
    BY <1>6, <2>2, <2>3, OrderedArrives
  <2>5. Ordered(ch, ring, rbr, byte)
    <3>1. CASE rbr = NONE
      BY <1>6, <2>2, <2>3, <3>1, OrderedArrives
    <3>2. CASE rbr # NONE
      <4>1. rbr \in Nat /\ rbr <= byte
        BY <1>6, <2>2, <2>3, <3>2, BytesAreNumbers DEF Ordered, NONE
      <4>2. \A i \in 1 .. ring.size : Ring!Contents(ring)[i] <= byte
        BY <2>4 DEF Ordered
      <4>3. QED  BY <2>3, <2>4, <4>1, <4>2 DEF Ordered
    <3>3. QED  BY <3>1, <3>2
  <2>6. QED  BY <1>7, <1>9, <2>4, <2>5 DEF ch, ring, rbr
<1>14. OutputFlows(m) => OutputFlows(n)
  <2> SUFFICES ASSUME OutputFlows(m), NEW q \in Ports PROVE Flows(n.port[q], n.uart[q])
    BY DEF OutputFlows
  <2>1. CASE q # p
    BY <1>9, <2>1 DEF OutputFlows
  <2>2. CASE q = p
    <3>1. Flows(m.port[p], m.uart[p])
      BY DEF OutputFlows
    <3>2. QED  BY <1>3, <1>7, <1>9, <2>2, <3>1 DEF Flows, Line
  <2>3. QED  BY <2>1, <2>2
<1>15. QED  BY <1>1, <1>3, <1>6, <1>10, <1>11, <1>12, <1>13, <1>14 DEF SInv, CreditInv, OrderInv, FlowInv

LEMMA PortEventStep ==
  ASSUME SInv, NEW p \in Ports, NEW late \in {NONE} \cup Typed, PortEvent(p, late)
  PROVE  /\ SInv'
         /\ CreditInv => CreditInv'
         /\ OrderInv => OrderInv'
         /\ ~LATE_ARRIVALS /\ FlowInv => FlowInv'
<1>0. /\ Running /\ uart[p].irq /\ UNCHANGED proc
      /\ late # NONE => LATE_ARRIVALS /\ late = typed + 1 /\ Iir(uart[p]) = "RXRDY"
      /\ Becomes(PortHandler([Machine EXCEPT !.uart[p].irq = FALSE], p, late))
      /\ typed' = IF late = NONE THEN typed ELSE late
  BY DEF PortEvent
<1>1. PICK m, pr : m = Machine /\ pr = proc
  OBVIOUS
<1>2. /\ Base(m, pr) /\ Runs(m.k) /\ m.k = Memory /\ m.port = port /\ m.uart = uart
      /\ m = MachineOf(m.k, m.port, m.uart) /\ typed \in Nat
  BY <1>0, <1>1, RunningMachine DEF Runs
<1>3. m.port[p].owner # 0
  BY <1>0, <1>2, EnabledOwned
<1>4. m.uart \in [Ports -> UartType] /\ m.uart[p] \in UartType
  BY <1>2, <1>3, OwnedPort
<1> DEFINE u == [m.uart[p] EXCEPT !.irq = FALSE]
           a == MachineOf(m.k, m.port, [m.uart EXCEPT ![p] = u])
           n == PortHandler(a, p, late)
<1>5. a = [Machine EXCEPT !.uart[p].irq = FALSE]
  <2>1. \A x : [m EXCEPT !.uart = x] = MachineOf(m.k, m.port, x)
    BY <1>2 DEF MachineOf
  <2>2. [m EXCEPT !.uart[p].irq = FALSE] = [m EXCEPT !.uart = [m.uart EXCEPT ![p].irq = FALSE]]
    OBVIOUS
  <2>3. [m EXCEPT !.uart[p].irq = FALSE] = a
    BY <2>1, <2>2
  <2>4. QED  BY <1>1, <2>3
<1>6. u \in UartType /\ u.rbr = m.uart[p].rbr /\ u.enabled = m.uart[p].enabled
  BY <1>4 DEF UartType
<1>7. /\ a.k = m.k /\ a.port = m.port /\ a.uart[p] = u
      /\ \A q \in Ports : q # p => a.uart[q] = m.uart[q]
  BY <1>4 DEF MachineOf
<1>8. Becomes(n)
  BY <1>0, <1>5
<1> HIDE DEF u
<1>9. Base(a, pr) /\ (Quiet(m, pr) => Quiet(a, pr)) /\ (Counted(m, pr) => Counted(a, pr))
  BY <1>2, <1>3, <1>6, LineStep
<1> HIDE DEF a
<1>10. Runs(a.k)
  BY <1>2, <1>7
<1>11. Base(n, pr) /\ Runs(n.k)
  BY <1>9, <1>10, LoopBase, Constants
<1>12. Quiet(a, pr) /\ Counted(a, pr) => Quiet(n, pr) /\ Counted(n, pr)
  BY <1>9, <1>10, LoopCounted
<1>13. InputOrdered(m, pr, typed) => InputOrdered(n, pr, typed')
  <2> SUFFICES ASSUME InputOrdered(m, pr, typed) PROVE InputOrdered(n, pr, typed')
    OBVIOUS
  <2>1. InputOrdered(a, pr, typed)
    BY <1>6, <1>7 DEF InputOrdered
  <2>2. PICK i, j : i = typed /\ j = typed'
    OBVIOUS
  <2>3. /\ i \in Nat /\ j \in Nat /\ i <= j /\ (late # NONE => i < late /\ late <= j)
    BY <1>0, <1>2, <2>2
  <2>4. late # NONE => a.uart[p].rbr # NONE
    BY <1>0, <1>2, <1>6, <1>7 DEF Iir
  <2>5. InputOrdered(n, pr, j)
    BY <1>9, <1>10, <2>1, <2>2, <2>3, <2>4, LoopOrdered
  <2>6. QED  BY <2>2, <2>5
<1>14. ~LATE_ARRIVALS /\ OutputFlows(m) => OutputFlows(n)
  <2> SUFFICES ASSUME ~LATE_ARRIVALS, OutputFlows(m) PROVE OutputFlows(n)
    OBVIOUS
  <2>1. late = NONE
    BY <1>0
  <2>2. \A q \in Ports : a.port[q].owner # 0 => a.uart[q].enabled
    BY <1>6, <1>7 DEF OutputFlows, Flows
  <2>3. OutputFlows(PortHandler(a, p, NONE))
    BY <1>9, <1>10, <2>2, LoopFlows
  <2>4. QED  BY <2>1, <2>3
<1>15. typed' \in 0 .. MAX_TYPED
  BY <1>0, Constants DEF SInv, Typed
<1> HIDE DEF n
<1>16. /\ IInv' /\ Base(Machine, proc)'
       /\ Quiet(n, pr) /\ Counted(n, pr) => CreditInv'
       /\ InputOrdered(n, pr, typed') => OrderInv'
       /\ OutputFlows(n) => FlowInv'
  BY <1>0, <1>1, <1>8, <1>11, BecomesStep DEF Runs
<1>17. QED  BY <1>1, <1>9, <1>12, <1>13, <1>14, <1>15, <1>16 DEF SInv, CreditInv, OrderInv, FlowInv

-----------------------------------------------------------------------------
(***************************************************************************)
(* The running process changes its own entry, and its port's descriptor.   *)
(***************************************************************************)
\* The process keeps its port and its semaphores on the way from t in m to s in n.
KeepsSids(m, t, n, s) ==
  /\ s.my_port = t.my_port /\ t.pc # "PortAlloc" /\ s.pc # "PortAlloc"
  /\ HasWriteSid(s) = HasWriteSid(t) /\ HasReadSid(s) = HasReadSid(t)
  /\ HasWriteSid(t) => WriteSid(n, s) = WriteSid(m, t)
  /\ HasReadSid(t)  => ReadSid(n, s) = ReadSid(m, t)

\* The process pid goes on from pr[pid] in m to s in n, and leaves d in its port.
OwnChange(m, pr, pid, d, s, n, pr2) ==
  /\ Base(m, pr) /\ \A sid \in Sids : pid \notin Waiters(m.k, sid)
  /\ d.owner = pid /\ d.write_ok = 1
  /\ Len(d.write_q) <= QUEUE_SIZE /\ Len(d.loopback_q) <= QUEUE_SIZE
  /\ InLine(s) /\ KeepsSids(m, pr[pid], n, s)
  /\ n = MachineOf(m.k, [m.port EXCEPT ![pr[pid].my_port] = d], m.uart)
  /\ pr2 = [pr EXCEPT ![pid] = s]

LEMMA OwnStep ==
  ASSUME NEW m, NEW pr, NEW pid \in TermPids, NEW d \in PortType, NEW s \in ProcType,
         NEW n, NEW pr2, OwnChange(m, pr, pid, d, s, n, pr2)
  PROVE  LET p == pr[pid].my_port IN
         /\ Base(n, pr2)
         /\ Quiet(m, pr) /\ (s.pc \in Working \/ (d.write_q = <<>> /\ d.read_q = Ring!queue_init
                                                   /\ m.uart[p].rbr = NONE)) => Quiet(n, pr2)
         /\ Counted(m, pr) =>
              \A other \in TermPids : other # pid =>
                /\ HasWriteSid(pr2[other]) => WriteCounted(n, pr2, other)
                /\ HasReadSid(pr2[other]) => ReadCounted(n, pr2, other)
         /\ \A i : InputOrdered(m, pr, i) /\ Ordered(s.ch, d.read_q, m.uart[p].rbr, i)
                     => InputOrdered(n, pr2, i)
         /\ OutputFlows(m) /\ Flows(d, m.uart[p]) => OutputFlows(n)
<1> USE DEF OwnChange
<1> DEFINE t == pr[pid]
           p == t.my_port
<1>1. /\ m \in MachineType /\ Good(m.k) /\ Bounded(m)
      /\ Processes(pr) /\ Owned(m, pr) /\ Sems(m, pr) /\ Waiting(m, pr)
      /\ m.port \in [Ports -> PortType] /\ m.uart \in [Ports -> UartType]
  BY MachineFields DEF Base
<1>2. p \in Ports /\ m.port[p].owner = pid /\ pr \in [TermPids -> ProcType] /\ pid # 0
  BY <1>1, Belongings, Constants DEF KeepsSids, Processes
<1>3. /\ n.k = m.k /\ n.uart = m.uart /\ n.port[p] = d
      /\ \A q \in Ports : q # p => n.port[q] = m.port[q]
  BY <1>1, <1>2 DEF MachineOf
<1>4. n \in MachineType
  BY <1>1, MachineFields DEF MachineType, MachineOf
<1>5. /\ pr2[pid] = s /\ \A other \in TermPids : other # pid => pr2[other] = pr[other]
      /\ pr2 \in [TermPids -> ProcType]
  BY <1>2
<1>6. Processes(pr2)
  BY <1>1, <1>5 DEF Processes
<1>7. Bounded(n)
  BY <1>1, <1>3 DEF Bounded
<1>8. s.my_port = p /\ t.pc # "PortAlloc" /\ s.pc # "PortAlloc"
  BY DEF KeepsSids
<1>9. Owned(n, pr2)
  <2>1. ASSUME NEW q \in Ports
        PROVE  \/ n.port[q] = Unowned /\ n.uart[q] = Silent
               \/ /\ n.port[q].owner \in TermPids /\ n.port[q].write_ok = 1
                  /\ pr2[n.port[q].owner].my_port = q /\ pr2[n.port[q].owner].pc # "PortAlloc"
    <3>1. CASE q = p
      BY <1>3, <1>5, <1>8, <3>1
    <3>2. CASE q # p
      <4>1. CASE n.port[q] = Unowned /\ n.uart[q] = Silent
        BY <4>1
      <4>2. CASE ~(n.port[q] = Unowned /\ n.uart[q] = Silent)
        <5>1. /\ m.port[q].owner \in TermPids /\ m.port[q].write_ok = 1
              /\ pr[m.port[q].owner].my_port = q /\ pr[m.port[q].owner].pc # "PortAlloc"
          BY <1>1, <1>3, <3>2, <4>2 DEF Owned
        <5>2. m.port[q].owner # pid
          BY <3>2, <5>1
        <5>3. QED  BY <1>3, <1>5, <3>2, <5>1, <5>2
      <4>3. QED  BY <4>1, <4>2
    <3>3. QED  BY <3>1, <3>2
  <2>2. ASSUME NEW other \in TermPids, pr2[other].pc # "PortAlloc"
        PROVE  n.port[pr2[other].my_port].owner = other
    <3>1. CASE other = pid
      BY <1>3, <1>5, <1>8, <3>1
    <3>2. CASE other # pid
      <4>1. m.port[pr[other].my_port].owner = other /\ pr[other].my_port \in Ports
        BY <1>1, <1>5, <2>2, <3>2, Belongings DEF Owned
      <4>2. pr[other].my_port # p
        BY <1>2, <3>2, <4>1
      <4>3. QED  BY <1>3, <1>5, <3>2, <4>1, <4>2
    <3>3. QED  BY <3>1, <3>2
  <2>3. QED  BY <2>1, <2>2 DEF Owned
<1>10. ASSUME NEW other \in TermPids, other # pid
       PROVE  /\ pr2[other] = pr[other]
              /\ pr[other].pc # "PortAlloc" =>
                   /\ pr[other].my_port # p /\ pr[other].my_port \in Ports
                   /\ n.port[pr[other].my_port] = m.port[pr[other].my_port]
                   /\ WriteSid(n, pr2[other]) = WriteSid(m, pr[other])
                   /\ ReadSid(n, pr2[other]) = ReadSid(m, pr[other])
  <2>1. pr2[other] = pr[other]
    BY <1>5, <1>10
  <2>2. ASSUME pr[other].pc # "PortAlloc"
        PROVE  /\ pr[other].my_port # p /\ pr[other].my_port \in Ports
               /\ n.port[pr[other].my_port] = m.port[pr[other].my_port]
    <3>1. m.port[pr[other].my_port].owner = other /\ pr[other].my_port \in Ports
      BY <2>2, Belongings
    <3>2. QED  BY <1>2, <1>3, <1>10, <3>1
  <2>3. QED  BY <2>1, <2>2 DEF WriteSid, ReadSid
<1>11. /\ HasWriteSid(s) = HasWriteSid(t) /\ HasReadSid(s) = HasReadSid(t)
       /\ HasWriteSid(t) => WriteSid(n, s) = WriteSid(m, t)
       /\ HasReadSid(t)  => ReadSid(n, s) = ReadSid(m, t)
  BY DEF KeepsSids
<1>12. \A other \in TermPids :
         /\ HasWriteSid(pr2[other]) <=> HasWriteSid(pr[other])
         /\ HasReadSid(pr2[other])  <=> HasReadSid(pr[other])
         /\ HasWriteSid(pr[other]) => WriteSid(n, pr2[other]) = WriteSid(m, pr[other])
         /\ HasReadSid(pr[other]) => HasWriteSid(pr[other])
                                       /\ ReadSid(n, pr2[other]) = ReadSid(m, pr[other])
  <2> SUFFICES ASSUME NEW other \in TermPids
               PROVE  /\ HasWriteSid(pr2[other]) <=> HasWriteSid(pr[other])
                      /\ HasReadSid(pr2[other])  <=> HasReadSid(pr[other])
                      /\ HasWriteSid(pr[other]) => WriteSid(n, pr2[other]) = WriteSid(m, pr[other])
                      /\ HasReadSid(pr[other]) => HasWriteSid(pr[other])
                                                   /\ ReadSid(n, pr2[other]) = ReadSid(m, pr[other])
    OBVIOUS
  <2>1. CASE other = pid
    <3>1. pr2[other] = s /\ pr[other] = t
      BY <1>5, <2>1
    <3> HIDE DEF t
    <3>2. QED  BY <1>11, <3>1 DEF HasReadSid
  <2>2. CASE other # pid
    BY <1>10, <2>2 DEF HasWriteSid, HasReadSid
  <2>3. QED  BY <2>1, <2>2
<1>13. Sems(n, pr2)
  <2> HIDE DEF t, p
  <2>1. \A other \in TermPids :
          HasWriteSid(pr2[other]) => n.k.sem[WriteSid(n, pr2[other])].owner = other
    BY <1>1, <1>3, <1>12 DEF Sems
  <2>2. \A other \in TermPids :
          HasReadSid(pr2[other]) => /\ n.k.sem[ReadSid(n, pr2[other])].owner = other
                                    /\ ReadSid(n, pr2[other]) # WriteSid(n, pr2[other])
    BY <1>1, <1>3, <1>12 DEF Sems
  <2>3. ASSUME NEW sid \in Sids, n.k.sem[sid].owner # 0
        PROVE  LET x == n.k.sem[sid].owner IN
               /\ x \in TermPids
               /\ \/ HasWriteSid(pr2[x]) /\ sid = WriteSid(n, pr2[x])
                  \/ HasReadSid(pr2[x]) /\ sid = ReadSid(n, pr2[x])
    <3>1. PICK x : x = n.k.sem[sid].owner
      OBVIOUS
    <3>2. /\ x \in TermPids
          /\ \/ HasWriteSid(pr[x]) /\ sid = WriteSid(m, pr[x])
             \/ HasReadSid(pr[x]) /\ sid = ReadSid(m, pr[x])
      BY <1>1, <1>3, <2>3, <3>1 DEF Sems
    <3>3. QED  BY <1>12, <3>1, <3>2
  <2>4. QED  BY <2>1, <2>2, <2>3 DEF Sems
<1>14. Waiting(n, pr2)
  <2> SUFFICES ASSUME NEW sid \in Sids, NEW x \in Waiters(n.k, sid)
               PROVE  /\ x \in TermPids
                      /\ \/ pr2[x].pc = "WriteInt" /\ sid = WriteSid(n, pr2[x])
                         \/ pr2[x].pc = "ReadInt"  /\ sid = ReadSid(n, pr2[x])
    BY DEF Waiting
  <2>1. /\ x \in TermPids /\ x # pid
        /\ \/ pr[x].pc = "WriteInt" /\ sid = WriteSid(m, pr[x])
           \/ pr[x].pc = "ReadInt"  /\ sid = ReadSid(m, pr[x])
    BY <1>1, <1>3 DEF Waiting
  <2>2. QED  BY <1>10, <2>1
<1>15. Base(n, pr2)
  BY <1>1, <1>3, <1>4, <1>6, <1>7, <1>9, <1>13, <1>14 DEF Base
<1>16. ASSUME NEW q \in Ports, q # p, m.port[q].owner # 0
       PROVE  pr2[m.port[q].owner] = pr[m.port[q].owner]
  <2>1. m.port[q].owner \in TermPids /\ pr[m.port[q].owner].my_port = q
    BY <1>16, OwnedPort
  <2>2. QED  BY <1>5, <1>16, <2>1
<1>17. ASSUME Quiet(m, pr),
              \/ s.pc \in Working
              \/ d.write_q = <<>> /\ d.read_q = Ring!queue_init /\ m.uart[p].rbr = NONE
       PROVE  Quiet(n, pr2)
  BY <1>2, <1>3, <1>5, <1>16, <1>17 DEF Quiet
<1>18. ASSUME Counted(m, pr), NEW other \in TermPids, other # pid
       PROVE  /\ HasWriteSid(pr2[other]) => WriteCounted(n, pr2, other)
              /\ HasReadSid(pr2[other]) => ReadCounted(n, pr2, other)
  <2>1. CASE pr[other].pc = "PortAlloc"
    BY <1>10, <1>18, <2>1 DEF HasWriteSid, HasReadSid
  <2>2. CASE pr[other].pc # "PortAlloc"
    <3>1. /\ pr2[other] = pr[other]
          /\ n.port[pr[other].my_port] = m.port[pr[other].my_port]
          /\ WriteSid(n, pr[other]) = WriteSid(m, pr[other])
          /\ ReadSid(n, pr[other]) = ReadSid(m, pr[other])
      BY <1>10, <1>18, <2>2
    <3>2. /\ Pass(n, pr2, other, "WriteInt", WriteSid(n, pr2[other])) =
               Pass(m, pr, other, "WriteInt", WriteSid(m, pr[other]))
          /\ Pass(n, pr2, other, "ReadInt", ReadSid(n, pr2[other])) =
               Pass(m, pr, other, "ReadInt", ReadSid(m, pr[other]))
      BY <1>3, <3>1 DEF Pass
    <3>3. /\ HasWriteSid(pr[other]) => WriteCounted(m, pr, other)
          /\ HasReadSid(pr[other]) => ReadCounted(m, pr, other)
      BY <1>18 DEF Counted
    <3>4. /\ pr2[other].my_port = pr[other].my_port /\ n.k = m.k
          /\ WriteSid(n, pr2[other]) = WriteSid(m, pr[other])
          /\ ReadSid(n, pr2[other]) = ReadSid(m, pr[other])
          /\ HasWriteSid(pr2[other]) = HasWriteSid(pr[other])
          /\ HasReadSid(pr2[other]) = HasReadSid(pr[other])
      BY <1>3, <3>1
    <3> HIDE DEF t, p
    <3>5. WriteCounted(m, pr, other) => WriteCounted(n, pr2, other)
      BY <3>1, <3>2, <3>4 DEF WriteCounted
    <3>6. ReadCounted(m, pr, other) => ReadCounted(n, pr2, other)
      BY <3>1, <3>2, <3>4 DEF ReadCounted
    <3>7. QED  BY <3>3, <3>4, <3>5, <3>6
  <2>3. QED  BY <2>1, <2>2
<1>19. ASSUME NEW i, InputOrdered(m, pr, i), Ordered(s.ch, d.read_q, m.uart[p].rbr, i)
       PROVE  InputOrdered(n, pr2, i)
  <2> SUFFICES ASSUME NEW q \in Ports, n.port[q].owner # 0
               PROVE  Ordered(pr2[n.port[q].owner].ch, n.port[q].read_q, n.uart[q].rbr, i)
    BY DEF InputOrdered
  <2>1. CASE q = p
    BY <1>3, <1>5, <1>19, <2>1
  <2>2. CASE q # p
    BY <1>3, <1>16, <1>19, <2>2 DEF InputOrdered
  <2>3. QED  BY <2>1, <2>2
<1>20. ASSUME OutputFlows(m), Flows(d, m.uart[p]) PROVE OutputFlows(n)
  BY <1>3, <1>20 DEF OutputFlows
<1>21. QED  BY <1>15, <1>17, <1>18, <1>19, <1>20

\* The beginning of a line of the script.
LEMMA LineIs ==
  ASSUME NEW t \in ProcType, NEW line \in 1 .. 5
  PROVE  LET s == AtLine(t, line) IN
         /\ s \in ProcType /\ InLine(s) /\ s.my_port = t.my_port /\ s.ch = t.ch
         /\ s.pc \in {"WriteWait", "ReadWait"}
<1> DEFINE s == AtLine(t, line)
           there == IF Script[line] = "write" THEN "WriteWait" ELSE "ReadWait"
<1>1. s = [t EXCEPT !.line = line, !.at = 0, !.pc = there]
  BY DEF AtLine
<1>2. Len(Script) = 5
  BY DEF Script
<1>3. there \in {"WriteWait", "ReadWait"}
  OBVIOUS
<1> HIDE DEF there
<1>4. 0 \in 0 .. PROMPT + BUFF_SIZE /\ 0 < PROMPT /\ 0 < BUFF_SIZE - 1
  BY Constants
<1>5. s \in ProcType
  BY <1>1, <1>2, <1>3, <1>4 DEF ProcType
<1>6. s.my_port = t.my_port /\ s.ch = t.ch /\ s.pc = there /\ s.at = 0
  BY <1>1 DEF ProcType
<1> HIDE DEF s
<1>7. InLine(s)
  BY <1>3, <1>4, <1>6 DEF InLine
<1>8. QED  BY <1>3, <1>5, <1>6, <1>7 DEF s

LEMMA NextLineIs ==
  ASSUME NEW t \in ProcType
  PROVE  LET s == NextLine(t) IN
         /\ s \in ProcType /\ InLine(s) /\ s.my_port = t.my_port /\ s.ch = t.ch
         /\ s.pc \in {"WriteWait", "ReadWait"}
<1> DEFINE line == (t.line % 5) + 1
<1>1. Len(Script) = 5 /\ t.line \in 1 .. 5
  BY ProcFields DEF Script
<1>2. line \in 1 .. 5
  BY <1>1
<1>3. NextLine(t) = AtLine(t, line)
  BY <1>1 DEF NextLine
<1> HIDE DEF line
<1>4. QED  BY <1>2, <1>3, LineIs

-----------------------------------------------------------------------------
(***************************************************************************)
(* The steps of PortAlloc().                                               *)
(***************************************************************************)
\* The machine and the process that is about to take a step.
LEMMA Goer ==
  ASSUME SInv, NEW pid \in TermPids, NEW from, NEW s, Goes(pid, from, s)
  PROVE  \E m, pr, t :
           /\ m = Machine /\ pr = proc /\ t = pr[pid]
           /\ Base(m, pr) /\ Runs(m.k) /\ m = MachineOf(Memory, port, uart)
           /\ m.k = Memory /\ m.port = port /\ m.uart = uart /\ m.k.current_pid = pid
           /\ m.port \in [Ports -> PortType] /\ m.uart \in [Ports -> UartType]
           /\ \A sid \in Sids : pid \notin Waiters(m.k, sid)
           /\ t.pc = from /\ t \in ProcType /\ InLine(t) /\ t.my_port \in Ports
           /\ proc' = [pr EXCEPT ![pid] = s] /\ [pr EXCEPT ![pid] = s][pid] = s
           /\ typed' = typed
           /\ t.pc # "PortAlloc" =>
                /\ m.port[t.my_port].owner = pid /\ m.port[t.my_port].write_ok = 1
                /\ m.port[t.my_port] \in PortType /\ m.uart[t.my_port] \in UartType
                /\ Len(m.port[t.my_port].write_q) <= QUEUE_SIZE
                /\ Len(m.port[t.my_port].loopback_q) <= QUEUE_SIZE
<1>1. PICK m, pr, t : m = Machine /\ pr = proc /\ t = pr[pid]
  OBVIOUS
<1>2. /\ Running /\ current_pid = pid /\ t.pc = from
      /\ proc' = [pr EXCEPT ![pid] = s] /\ typed' = typed
  BY <1>1 DEF Goes
<1>3. /\ Base(m, pr) /\ Runs(m.k) /\ m = MachineOf(Memory, port, uart)
      /\ m.k = Memory /\ m.port = port /\ m.uart = uart /\ m.k.current_pid = pid
  BY <1>1, <1>2, RunningMachine
<1>4. /\ \A sid \in Sids : pid \notin Waiters(m.k, sid)
      /\ m.port \in [Ports -> PortType] /\ m.uart \in [Ports -> UartType]
      /\ pr \in [TermPids -> ProcType]
  BY <1>3, RunningPid, MachineFields DEF Base, Runs, Processes
<1>5. t \in ProcType /\ InLine(t) /\ t.my_port \in Ports
  BY <1>1, <1>3, Belongings
<1>6. ASSUME t.pc # "PortAlloc"
      PROVE  /\ m.port[t.my_port].owner = pid /\ m.port[t.my_port].write_ok = 1
             /\ m.port[t.my_port] \in PortType /\ m.uart[t.my_port] \in UartType
             /\ Len(m.port[t.my_port].write_q) <= QUEUE_SIZE
             /\ Len(m.port[t.my_port].loopback_q) <= QUEUE_SIZE
  <2>1. m.port[t.my_port].owner = pid /\ pid # 0
    BY <1>1, <1>3, <1>6, Belongings, Constants
  <2>2. QED  BY <1>3, <1>5, <2>1, OwnedPort
<1>7. QED  BY <1>1, <1>2, <1>3, <1>4, <1>5, <1>6

\* A store to the port's descriptor, before the port is in use.
LEMMA StoresStep ==
  ASSUME SInv, NEW pid \in TermPids, NEW from \in {"StoreWriteSid", "StoreReadSid", "ResetReadQ"},
         NEW s \in ProcType, NEW d \in PortType, Stores(pid, from, s, d),
         InLine(s), s.ch = proc[pid].ch, s.pc \notin {"WriteInt", "ReadInt"},
         LET e == port[proc[pid].my_port] IN
           /\ d.owner = e.owner /\ d.write_ok = e.write_ok
           /\ d.write_q = e.write_q /\ d.loopback_q = e.loopback_q
           /\ d.read_q = e.read_q \/ d.read_q = [e.read_q EXCEPT !.size = 0],
         KeepsSids(Machine, proc[pid],
                   MachineOf(Memory, [port EXCEPT ![proc[pid].my_port] = d], uart), s)
  PROVE  /\ SInv'
         /\ CreditInv => CreditInv'
         /\ CreditInv /\ OrderInv => OrderInv'
         /\ FlowInv => FlowInv'
<1>1. /\ Goes(pid, from, s) /\ port' = [port EXCEPT ![proc[pid].my_port] = d]
      /\ UNCHANGED <<vars, uart>>
  BY DEF Stores
<1>2. PICK m, pr, t :
        /\ m = Machine /\ pr = proc /\ t = pr[pid]
        /\ Base(m, pr) /\ m.k = Memory /\ m.port = port /\ m.uart = uart
        /\ \A sid \in Sids : pid \notin Waiters(m.k, sid)
        /\ t.pc = from /\ t \in ProcType /\ t.my_port \in Ports
        /\ proc' = [pr EXCEPT ![pid] = s] /\ [pr EXCEPT ![pid] = s][pid] = s
        /\ typed' = typed
        /\ t.pc # "PortAlloc" =>
             /\ m.port[t.my_port].owner = pid /\ m.port[t.my_port].write_ok = 1
             /\ m.port[t.my_port] \in PortType
             /\ Len(m.port[t.my_port].write_q) <= QUEUE_SIZE
             /\ Len(m.port[t.my_port].loopback_q) <= QUEUE_SIZE
             /\ m.port \in [Ports -> PortType]
  BY <1>1, Goer
<1> DEFINE p == t.my_port
           e == m.port[p]
           n == MachineOf(m.k, [m.port EXCEPT ![p] = d], m.uart)
           pr2 == [pr EXCEPT ![pid] = s]
<1>3. t.pc # "PortAlloc" /\ t.pc \notin Working /\ t.pc \notin {"WriteInt", "ReadInt"}
  BY <1>2 DEF Working
<1>4. /\ d.owner = pid /\ d.write_ok = 1 /\ d.write_q = e.write_q /\ d.loopback_q = e.loopback_q
      /\ e.owner = pid
      /\ d.read_q = e.read_q \/ d.read_q = [e.read_q EXCEPT !.size = 0]
      /\ Len(d.write_q) <= QUEUE_SIZE /\ Len(d.loopback_q) <= QUEUE_SIZE
      /\ s.ch = t.ch
  BY <1>2, <1>3
<1>5. KeepsSids(m, pr[pid], n, s)
  BY <1>2
<1>6. n = MachineOf(Memory, port', uart') /\ proc' = pr2 /\ UNCHANGED vars
  BY <1>1, <1>2
<1>7. n.k = m.k /\ n.port[p] = d
  BY <1>2, <1>3 DEF MachineOf
<1>8. pr2[pid] = s /\ pr[pid] = t
  BY <1>2
<1> HIDE DEF n, pr2
<1>9. /\ Base(n, pr2)
      /\ Quiet(m, pr) /\ (s.pc \in Working \/ (d.write_q = <<>> /\ d.read_q = Ring!queue_init
                                                /\ m.uart[p].rbr = NONE)) => Quiet(n, pr2)
      /\ Counted(m, pr) =>
           \A other \in TermPids : other # pid =>
             /\ HasWriteSid(pr2[other]) => WriteCounted(n, pr2, other)
             /\ HasReadSid(pr2[other]) => ReadCounted(n, pr2, other)
      /\ \A i : InputOrdered(m, pr, i) /\ Ordered(s.ch, d.read_q, m.uart[p].rbr, i)
                  => InputOrdered(n, pr2, i)
      /\ OutputFlows(m) /\ Flows(d, m.uart[p]) => OutputFlows(n)
  <2>1. n = MachineOf(m.k, [m.port EXCEPT ![pr[pid].my_port] = d], m.uart) /\ pr2 = [pr EXCEPT ![pid] = s]
    BY <1>8 DEF n, pr2
  <2>2. p = pr[pid].my_port
    BY <1>8
  <2> HIDE DEF p, e
  <2>3. OwnChange(m, pr, pid, d, s, n, pr2)
    BY <1>2, <1>4, <1>5, <2>1 DEF OwnChange
  <2>4. QED  BY <2>2, <2>3, OwnStep
<1>10. /\ IInv' /\ Base(Machine, proc)'
       /\ Quiet(n, pr2) /\ Counted(n, pr2) => CreditInv'
       /\ InputOrdered(n, pr2, typed') => OrderInv'
       /\ OutputFlows(n) => FlowInv'
  BY <1>6, <1>9, StoredStep DEF SInv
<1>11. ASSUME Quiet(m, pr)
       PROVE  /\ d.write_q = <<>> /\ d.read_q = Ring!queue_init /\ m.uart[p].rbr = NONE
              /\ d.read_q = e.read_q
  <2>1. e.write_q = <<>> /\ e.read_q = Ring!queue_init /\ m.uart[p].rbr = NONE
    BY <1>2, <1>3, <1>4, <1>8, <1>11 DEF Quiet
  <2>2. [Ring!queue_init EXCEPT !.size = 0] = Ring!queue_init
    BY DEF Ring!queue_init
  <2>3. QED  BY <1>4, <2>1, <2>2
<1>12. ASSUME Quiet(m, pr), Counted(m, pr) PROVE Quiet(n, pr2) /\ Counted(n, pr2)
  <2>1. /\ HasWriteSid(s) = HasWriteSid(t) /\ HasReadSid(s) = HasReadSid(t)
        /\ HasWriteSid(t) => WriteSid(n, s) = WriteSid(m, t)
        /\ HasReadSid(t) => ReadSid(n, s) = ReadSid(m, t)
        /\ s.my_port = p
    BY <1>5, <1>8 DEF KeepsSids
  <2>2. \A sid : /\ Pass(n, pr2, pid, "WriteInt", sid) = 0 /\ Pass(n, pr2, pid, "ReadInt", sid) = 0
                 /\ Pass(m, pr, pid, "WriteInt", sid) = 0 /\ Pass(m, pr, pid, "ReadInt", sid) = 0
    BY <1>3, <1>8 DEF Pass
  <2>3. /\ HasWriteSid(t) => WriteCounted(m, pr, pid)
        /\ HasReadSid(t) => ReadCounted(m, pr, pid)
    BY <1>8, <1>12 DEF Counted
  <2>4. HasWriteSid(s) => WriteCounted(n, pr2, pid)
    BY <1>4, <1>7, <1>8, <2>1, <2>2, <2>3 DEF WriteCounted
  <2>5. HasReadSid(s) => ReadCounted(n, pr2, pid)
    BY <1>4, <1>7, <1>8, <1>11, <1>12, <2>1, <2>2, <2>3 DEF ReadCounted
  <2>6. Counted(n, pr2)
    BY <1>8, <1>9, <1>12, <2>4, <2>5 DEF Counted
  <2>7. QED  BY <1>9, <1>11, <1>12, <2>6
<1>13. ASSUME Quiet(m, pr), InputOrdered(m, pr, typed) PROVE InputOrdered(n, pr2, typed)
  <2>1. e.owner # 0
    BY <1>4, Constants
  <2>2. Ordered(t.ch, e.read_q, m.uart[p].rbr, typed)
    BY <1>2, <1>4, <1>8, <1>13, <2>1 DEF InputOrdered
  <2>3. QED  BY <1>4, <1>9, <1>11, <1>13, <2>2
<1>14. ASSUME OutputFlows(m) PROVE OutputFlows(n)
  <2>1. Flows(e, m.uart[p])
    BY <1>2, <1>14 DEF OutputFlows
  <2>2. QED  BY <1>4, <1>9, <1>14, <2>1 DEF Flows
<1>15. QED  BY <1>2, <1>10, <1>12, <1>13, <1>14 DEF SInv, CreditInv, OrderInv, FlowInv

LEMMA StoreWriteSidStep ==
  ASSUME SInv, NEW pid \in TermPids,
         Stores(pid, "StoreWriteSid", [proc[pid] EXCEPT !.pc = "AllocReadSem"],
                [port[proc[pid].my_port] EXCEPT !.write_sid = proc[pid].eax])
  PROVE  /\ SInv'
         /\ CreditInv => CreditInv'
         /\ CreditInv /\ OrderInv => OrderInv'
         /\ FlowInv => FlowInv'
<1> DEFINE s == [proc[pid] EXCEPT !.pc = "AllocReadSem"]
           d == [port[proc[pid].my_port] EXCEPT !.write_sid = proc[pid].eax]
           n == MachineOf(Memory, [port EXCEPT ![proc[pid].my_port] = d], uart)
<1>1. /\ Machine.port = port /\ proc[pid].pc = "StoreWriteSid" /\ proc[pid] \in ProcType
      /\ InLine(proc[pid]) /\ proc[pid].my_port \in Ports
      /\ port \in [Ports -> PortType] /\ port[proc[pid].my_port] \in PortType
  BY Goer DEF Stores
<1>2. /\ s \in ProcType /\ s.pc = "AllocReadSem" /\ s.ch = proc[pid].ch
      /\ s.my_port = proc[pid].my_port /\ s.at = proc[pid].at
  BY <1>1 DEF ProcType
<1>3. /\ d \in PortType /\ d.write_sid = proc[pid].eax
      /\ d.owner = port[proc[pid].my_port].owner /\ d.write_ok = port[proc[pid].my_port].write_ok
      /\ d.write_q = port[proc[pid].my_port].write_q
      /\ d.loopback_q = port[proc[pid].my_port].loopback_q
      /\ d.read_q = port[proc[pid].my_port].read_q
  BY <1>1, ProcFields, SetPort DEF PortType
<1> HIDE DEF s, d
<1>4. InLine(s)
  BY <1>1, <1>2 DEF InLine
<1>5. n.port[proc[pid].my_port] = d
  BY <1>1 DEF MachineOf
<1> HIDE DEF n
<1>6. KeepsSids(Machine, proc[pid], n, s)
  BY <1>1, <1>2, <1>3, <1>5 DEF KeepsSids, HasWriteSid, HasReadSid, WriteSid, ReadSid
<1>7. QED  BY <1>2, <1>3, <1>4, <1>6, StoresStep DEF s, d, n

LEMMA StoreReadSidStep ==
  ASSUME SInv, NEW pid \in TermPids,
         Stores(pid, "StoreReadSid", [proc[pid] EXCEPT !.pc = "ResetReadQ"],
                [port[proc[pid].my_port] EXCEPT !.read_sid = proc[pid].eax])
  PROVE  /\ SInv'
         /\ CreditInv => CreditInv'
         /\ CreditInv /\ OrderInv => OrderInv'
         /\ FlowInv => FlowInv'
<1> DEFINE s == [proc[pid] EXCEPT !.pc = "ResetReadQ"]
           d == [port[proc[pid].my_port] EXCEPT !.read_sid = proc[pid].eax]
           n == MachineOf(Memory, [port EXCEPT ![proc[pid].my_port] = d], uart)
<1>1. /\ Machine.port = port /\ proc[pid].pc = "StoreReadSid" /\ proc[pid] \in ProcType
      /\ InLine(proc[pid]) /\ proc[pid].my_port \in Ports
      /\ port \in [Ports -> PortType] /\ port[proc[pid].my_port] \in PortType
  BY Goer DEF Stores
<1>2. /\ s \in ProcType /\ s.pc = "ResetReadQ" /\ s.ch = proc[pid].ch
      /\ s.my_port = proc[pid].my_port /\ s.at = proc[pid].at
  BY <1>1 DEF ProcType
<1>3. /\ d \in PortType /\ d.read_sid = proc[pid].eax
      /\ d.write_sid = port[proc[pid].my_port].write_sid
      /\ d.owner = port[proc[pid].my_port].owner /\ d.write_ok = port[proc[pid].my_port].write_ok
      /\ d.write_q = port[proc[pid].my_port].write_q
      /\ d.loopback_q = port[proc[pid].my_port].loopback_q
      /\ d.read_q = port[proc[pid].my_port].read_q
  BY <1>1, ProcFields, SetPort DEF PortType
<1> HIDE DEF s, d
<1>4. InLine(s)
  BY <1>1, <1>2 DEF InLine
<1>5. n.port[proc[pid].my_port] = d
  BY <1>1 DEF MachineOf
<1> HIDE DEF n
<1>6. KeepsSids(Machine, proc[pid], n, s)
  BY <1>1, <1>2, <1>3, <1>5 DEF KeepsSids, HasWriteSid, HasReadSid, WriteSid, ReadSid
<1>7. QED  BY <1>2, <1>3, <1>4, <1>6, StoresStep DEF s, d, n

LEMMA ResetReadQStep ==
  ASSUME SInv, NEW pid \in TermPids,
         Stores(pid, "ResetReadQ", AtLine(proc[pid], 1),
                [port[proc[pid].my_port] EXCEPT !.read_q.size = 0])
  PROVE  /\ SInv'
         /\ CreditInv => CreditInv'
         /\ CreditInv /\ OrderInv => OrderInv'
         /\ FlowInv => FlowInv'
<1> DEFINE s == AtLine(proc[pid], 1)
           q == [port[proc[pid].my_port].read_q EXCEPT !.size = 0]
           d == [port[proc[pid].my_port] EXCEPT !.read_q = q]
           n == MachineOf(Memory, [port EXCEPT ![proc[pid].my_port] = d], uart)
<1>1. /\ Machine.port = port /\ proc[pid].pc = "ResetReadQ" /\ proc[pid] \in ProcType
      /\ InLine(proc[pid]) /\ proc[pid].my_port \in Ports
      /\ port \in [Ports -> PortType] /\ port[proc[pid].my_port] \in PortType
  BY Goer DEF Stores
<1>2. /\ s \in ProcType /\ InLine(s) /\ s.pc \in {"WriteWait", "ReadWait"} /\ s.ch = proc[pid].ch
      /\ s.my_port = proc[pid].my_port
  BY <1>1, LineIs
<1>3. q \in RingType
  <2>1. port[proc[pid].my_port].read_q \in RingType
    BY <1>1, PortFields
  <2>2. 0 \in 0 .. QUEUE_SIZE
    BY Constants
  <2>3. QED  BY <2>1, <2>2 DEF RingType
<1>4. Stores(pid, "ResetReadQ", s, d)
  OBVIOUS
<1> HIDE DEF q
<1>5. /\ d \in PortType /\ d.read_q = q
      /\ d.write_sid = port[proc[pid].my_port].write_sid
      /\ d.read_sid = port[proc[pid].my_port].read_sid
      /\ d.owner = port[proc[pid].my_port].owner /\ d.write_ok = port[proc[pid].my_port].write_ok
      /\ d.write_q = port[proc[pid].my_port].write_q
      /\ d.loopback_q = port[proc[pid].my_port].loopback_q
  BY <1>1, <1>3, SetPort DEF PortType
<1> HIDE DEF s, d
<1>6. n.port[proc[pid].my_port] = d
  BY <1>1 DEF MachineOf
<1> HIDE DEF n
<1>7. KeepsSids(Machine, proc[pid], n, s)
  BY <1>1, <1>2, <1>5, <1>6 DEF KeepsSids, HasWriteSid, HasReadSid, WriteSid, ReadSid
<1>8. QED  BY <1>2, <1>4, <1>5, <1>7, StoresStep DEF n, q

\* SerialAssumption: PortAllocHandler's search finds a port.
LEMMA FreePortIs ==
  ASSUME NEW m, NEW pr, Base(m, pr), NEW pid \in TermPids, pr[pid].pc = "PortAlloc"
  PROVE  FreePort(m) \in Ports /\ m.port[FreePort(m)].owner = 0
<1> DEFINE Free == {p \in Ports : m.port[p].owner = 0}
           R == OpToRel(<, Nat)
           Others == TermPids \ {pid}
           f == [p \in Ports |-> m.port[p].owner]
<1>1. /\ IsFiniteSet(Ports) /\ Cardinality(Ports) = PORT_NUM /\ Ports \subseteq Nat
      /\ IsFiniteSet(TermPids) /\ Cardinality(TermPids) = NPROCS - 1
  <2>1. PORT_NUM - 1 \in Int /\ ~(0 > PORT_NUM - 1) /\ (PORT_NUM - 1) - 0 + 1 = PORT_NUM
    BY Constants
  <2>2. NPROCS \in Int /\ ~(2 > NPROCS) /\ NPROCS - 2 + 1 = NPROCS - 1
    BY Constants
  <2>3. IsFiniteSet(Ports) /\ Cardinality(Ports) = PORT_NUM
    BY <2>1, FS_Interval DEF Ports
  <2>4. IsFiniteSet(TermPids) /\ Cardinality(TermPids) = NPROCS - 1
    BY <2>2, FS_Interval DEF TermPids
  <2>5. QED  BY <2>3, <2>4 DEF Ports
<1>2. IsFiniteSet(Others) /\ Cardinality(Others) = NPROCS - 2
  <2>1. Cardinality(Others) = Cardinality(TermPids) - 1 /\ IsFiniteSet(Others)
    BY <1>1, FS_RemoveElement
  <2>2. QED  BY <1>1, <2>1, Constants
<1>3. Cardinality(Others) < Cardinality(Ports)
  <2> HIDE DEF Others
  <2> QED  BY <1>1, <1>2, Constants
<1>4. Free # {}
  <2> SUFFICES ASSUME \A p \in Ports : m.port[p].owner # 0 PROVE FALSE
    OBVIOUS
  <2>1. ASSUME NEW p \in Ports
        PROVE  m.port[p].owner \in Others /\ pr[m.port[p].owner].my_port = p
    BY OwnedPort
  <2>2. f \in [Ports -> Others] /\ \A p \in Ports : f[p] = m.port[p].owner
    BY <2>1
  <2> HIDE DEF f, Others
  <2>3. PICK p, q \in Ports : p # q /\ f[p] = f[q]
    BY <1>1, <1>2, <1>3, <2>2, FS_PigeonHole
  <2>4. QED  BY <2>1, <2>2, <2>3
<1>5. Free \subseteq Nat
  BY <1>1
<1>6. IsWellFoundedOn(R, Free)
  BY <1>5, NatLessThanWellFounded, IsWellFoundedOnSubset
<1>7. \A i, j \in Nat : ~(i < j) => j <= i
  OBVIOUS
<1>8. \A i, j \in Nat : i < j => <<i, j>> \in R
  BY DEF OpToRel
<1> HIDE DEF R
<1>9. PICK least \in Free : \A p \in Free : ~(<<p, least>> \in R)
  <2> HIDE DEF Free
  <2> QED  BY <1>4, <1>6, WFMin
<1>10. \A p \in Free : least <= p
  BY <1>5, <1>7, <1>8, <1>9
<1>11. \E p \in Ports : m.port[p].owner = 0 /\ \A q \in Ports : m.port[q].owner = 0 => p <= q
  BY <1>9, <1>10
<1>12. QED  BY <1>11 DEF FreePort

\* The process pid becomes the owner of the port p.
OwnerChange(m, pr, pid, p, s, d, n, pr2) ==
  /\ Base(m, pr) /\ \A sid \in Sids : pid \notin Waiters(m.k, sid)
  /\ pr[pid].pc = "PortAlloc" /\ m.port[p].owner = 0
  /\ s = [pr[pid] EXCEPT !.pc = "AllocWriteSem", !.my_port = p]
  /\ d = [Unowned EXCEPT !.owner = pid, !.write_ok = 1]
  /\ n = MachineOf(m.k, [m.port EXCEPT ![p] = d], [m.uart EXCEPT ![p] = Enable(m.uart[p])])
  /\ pr2 = [pr EXCEPT ![pid] = s]

LEMMA AllocPort ==
  ASSUME NEW m, NEW pr, NEW pid \in TermPids, NEW p \in Ports, NEW s, NEW d, NEW n, NEW pr2,
         OwnerChange(m, pr, pid, p, s, d, n, pr2)
  PROVE  /\ Base(n, pr2)
         /\ Quiet(m, pr) => Quiet(n, pr2)
         /\ Counted(m, pr) => Counted(n, pr2)
         /\ \A i \in Nat : InputOrdered(m, pr, i) => InputOrdered(n, pr2, i)
         /\ OutputFlows(m) => OutputFlows(n)
<1> DEFINE t == pr[pid]
           u == Enable(m.uart[p])
<1>0. /\ Base(m, pr) /\ \A sid \in Sids : pid \notin Waiters(m.k, sid)
      /\ t.pc = "PortAlloc" /\ m.port[p].owner = 0
      /\ s = [t EXCEPT !.pc = "AllocWriteSem", !.my_port = p]
      /\ d = [Unowned EXCEPT !.owner = pid, !.write_ok = 1]
      /\ n = MachineOf(m.k, [m.port EXCEPT ![p] = d], [m.uart EXCEPT ![p] = u])
      /\ pr2 = [pr EXCEPT ![pid] = s]
  BY DEF OwnerChange
<1>1. /\ m \in MachineType /\ Good(m.k) /\ Bounded(m)
      /\ Processes(pr) /\ Owned(m, pr) /\ Sems(m, pr) /\ Waiting(m, pr)
      /\ m.port \in [Ports -> PortType] /\ m.uart \in [Ports -> UartType]
  BY <1>0, MachineFields DEF Base
<1>2. pr \in [TermPids -> ProcType] /\ pid # 0 /\ t \in ProcType /\ InLine(t) /\ m.uart[p] \in UartType
  BY <1>1, Constants DEF Processes
<1>3. /\ d \in PortType /\ d.owner = pid /\ d.write_ok = 1 /\ d.write_q = <<>>
      /\ d.loopback_q = <<>> /\ d.read_q = Ring!queue_init
  <2>1. pid \in {0} \cup Pids
    BY Constants
  <2>2. QED  BY <1>0, <2>1, UnownedTyped DEF PortType, Unowned
<1>4. u \in UartType /\ u.rbr = NONE /\ u.enabled
  BY <1>2, EnableIs
<1>5. s \in ProcType /\ s.pc = "AllocWriteSem" /\ s.my_port = p /\ s.ch = 0 /\ s.at = 0
  BY <1>0, <1>2 DEF ProcType, InLine
<1> HIDE DEF u
<1>6. /\ n.k = m.k /\ n.port[p] = d /\ n.uart[p] = u
      /\ \A q \in Ports : q # p => n.port[q] = m.port[q] /\ n.uart[q] = m.uart[q]
  BY <1>0, <1>1 DEF MachineOf
<1>7. /\ pr2[pid] = s /\ \A other \in TermPids : other # pid => pr2[other] = pr[other]
      /\ pr2 \in [TermPids -> ProcType]
  BY <1>0, <1>2, <1>5
<1>8. n \in MachineType
  <2>1. n.k \in MemoryType
    BY <1>1, <1>6, MachineFields
  <2>2. [m.port EXCEPT ![p] = d] \in [Ports -> PortType] /\ [m.uart EXCEPT ![p] = u] \in [Ports -> UartType]
    BY <1>1, <1>3, <1>4
  <2>3. QED  BY <1>0, <2>1, <2>2, MachineFields, <1>1 DEF MachineType, MachineOf
<1>9. Processes(pr2) /\ Bounded(n)
  <2>1. InLine(s)
    BY <1>5 DEF InLine
  <2>2. Processes(pr2)
    BY <1>1, <1>7, <2>1 DEF Processes
  <2>3. Len(<<>>) <= QUEUE_SIZE
    BY Constants
  <2>4. QED  BY <1>1, <1>3, <1>6, <2>2, <2>3 DEF Bounded
<1>10. ASSUME NEW other \in TermPids, pr[other].pc # "PortAlloc"
       PROVE  /\ other # pid /\ pr2[other] = pr[other]
              /\ pr[other].my_port \in Ports /\ pr[other].my_port # p
              /\ n.port[pr[other].my_port] = m.port[pr[other].my_port]
              /\ m.port[pr[other].my_port].owner = other
  <2>1. other # pid /\ other # 0
    BY <1>0, <1>10, Constants
  <2>2. m.port[pr[other].my_port].owner = other /\ pr[other].my_port \in Ports
    BY <1>0, <1>10, Belongings
  <2>3. QED  BY <1>0, <1>6, <1>7, <2>1, <2>2
<1>11. ASSUME NEW q \in Ports, q # p
       PROVE  \/ n.port[q] = Unowned /\ n.uart[q] = Silent
              \/ /\ n.port[q].owner \in TermPids /\ n.port[q].write_ok = 1
                 /\ pr2[n.port[q].owner] = pr[n.port[q].owner]
                 /\ pr2[n.port[q].owner].my_port = q /\ pr2[n.port[q].owner].pc # "PortAlloc"
  <2>1. \/ m.port[q] = Unowned /\ m.uart[q] = Silent
        \/ /\ m.port[q].owner \in TermPids /\ m.port[q].write_ok = 1
           /\ pr[m.port[q].owner].my_port = q /\ pr[m.port[q].owner].pc # "PortAlloc"
    BY <1>1 DEF Owned
  <2>2. QED  BY <1>6, <1>10, <1>11, <2>1
<1>12. Owned(n, pr2)
  <2>1. ASSUME NEW q \in Ports
        PROVE  \/ n.port[q] = Unowned /\ n.uart[q] = Silent
               \/ /\ n.port[q].owner \in TermPids /\ n.port[q].write_ok = 1
                  /\ pr2[n.port[q].owner].my_port = q /\ pr2[n.port[q].owner].pc # "PortAlloc"
    BY <1>3, <1>5, <1>6, <1>7, <1>11
  <2>2. ASSUME NEW other \in TermPids, pr2[other].pc # "PortAlloc"
        PROVE  n.port[pr2[other].my_port].owner = other
    <3>1. CASE other = pid
      BY <1>3, <1>5, <1>6, <1>7, <3>1
    <3>2. CASE other # pid
      BY <1>7, <1>10, <2>2, <3>2
    <3>3. QED  BY <3>1, <3>2
  <2>3. QED  BY <2>1, <2>2 DEF Owned
<1>13. ~HasWriteSid(pr2[pid]) /\ ~HasReadSid(pr2[pid]) /\ ~HasWriteSid(t) /\ ~HasReadSid(t)
  BY <1>0, <1>5, <1>7 DEF HasWriteSid, HasReadSid
<1> HIDE DEF t
<1>14. ASSUME NEW other \in TermPids
       PROVE  /\ HasWriteSid(pr2[other]) <=> HasWriteSid(pr[other])
              /\ HasReadSid(pr2[other]) <=> HasReadSid(pr[other])
              /\ HasReadSid(pr[other]) => HasWriteSid(pr[other])
              /\ HasWriteSid(pr[other]) => /\ other # pid /\ pr2[other] = pr[other]
                                           /\ WriteSid(n, pr2[other]) = WriteSid(m, pr[other])
                                           /\ ReadSid(n, pr2[other]) = ReadSid(m, pr[other])
  <2>1. CASE other = pid
    BY <1>13, <2>1 DEF t
  <2>2. CASE other # pid
    <3>1. pr2[other] = pr[other]
      BY <1>7, <2>2
    <3>2. HasReadSid(pr[other]) => HasWriteSid(pr[other])
      BY DEF HasReadSid
    <3>3. ASSUME HasWriteSid(pr[other])
          PROVE  /\ WriteSid(n, pr2[other]) = WriteSid(m, pr[other])
                 /\ ReadSid(n, pr2[other]) = ReadSid(m, pr[other])
      <4>1. n.port[pr[other].my_port] = m.port[pr[other].my_port]
        BY <1>10, <3>3 DEF HasWriteSid
      <4>2. QED  BY <3>1, <4>1 DEF WriteSid, ReadSid
    <3>4. QED  BY <2>2, <3>1, <3>2, <3>3
  <2>3. QED  BY <2>1, <2>2
<1>15. Sems(n, pr2)
  <2>1. \A other \in TermPids :
          HasWriteSid(pr2[other]) => n.k.sem[WriteSid(n, pr2[other])].owner = other
    BY <1>1, <1>6, <1>14 DEF Sems
  <2>2. \A other \in TermPids :
          HasReadSid(pr2[other]) => /\ n.k.sem[ReadSid(n, pr2[other])].owner = other
                                    /\ ReadSid(n, pr2[other]) # WriteSid(n, pr2[other])
    BY <1>1, <1>6, <1>14 DEF Sems
  <2>3. ASSUME NEW sid \in Sids, n.k.sem[sid].owner # 0
        PROVE  LET x == n.k.sem[sid].owner IN
               /\ x \in TermPids
               /\ \/ HasWriteSid(pr2[x]) /\ sid = WriteSid(n, pr2[x])
                  \/ HasReadSid(pr2[x]) /\ sid = ReadSid(n, pr2[x])
    <3>1. PICK x : x = n.k.sem[sid].owner
      OBVIOUS
    <3>2. /\ x \in TermPids
          /\ \/ HasWriteSid(pr[x]) /\ sid = WriteSid(m, pr[x])
             \/ HasReadSid(pr[x]) /\ sid = ReadSid(m, pr[x])
      BY <1>1, <1>6, <2>3, <3>1 DEF Sems
    <3>3. QED  BY <1>14, <3>1, <3>2
  <2>4. QED  BY <2>1, <2>2, <2>3 DEF Sems
<1>16. Waiting(n, pr2)
  <2> SUFFICES ASSUME NEW sid \in Sids, NEW x \in Waiters(n.k, sid)
               PROVE  /\ x \in TermPids
                      /\ \/ pr2[x].pc = "WriteInt" /\ sid = WriteSid(n, pr2[x])
                         \/ pr2[x].pc = "ReadInt"  /\ sid = ReadSid(n, pr2[x])
    BY DEF Waiting
  <2>1. /\ x \in TermPids
        /\ \/ pr[x].pc = "WriteInt" /\ sid = WriteSid(m, pr[x])
           \/ pr[x].pc = "ReadInt"  /\ sid = ReadSid(m, pr[x])
    BY <1>1, <1>6 DEF Waiting
  <2>2. HasWriteSid(pr[x])
    BY <2>1 DEF HasWriteSid
  <2>3. QED  BY <1>14, <2>1, <2>2
<1>17. Base(n, pr2)
  BY <1>1, <1>6, <1>8, <1>9, <1>12, <1>15, <1>16 DEF Base
<1>18. ASSUME Quiet(m, pr) PROVE Quiet(n, pr2)
  <2> SUFFICES ASSUME NEW q \in Ports
               PROVE  \/ n.port[q].owner # 0 /\ pr2[n.port[q].owner].pc \in Working
                      \/ n.port[q].write_q = <<>> /\ n.port[q].read_q = Ring!queue_init /\ n.uart[q].rbr = NONE
    BY DEF Quiet
  <2>1. CASE q = p
    BY <1>3, <1>4, <1>6, <2>1
  <2>2. CASE q # p
    <3>1. \/ m.port[q].owner # 0 /\ pr[m.port[q].owner].pc \in Working
          \/ m.port[q].write_q = <<>> /\ m.port[q].read_q = Ring!queue_init /\ m.uart[q].rbr = NONE
      BY <1>18 DEF Quiet
    <3>2. m.port[q].owner # 0 => pr2[m.port[q].owner] = pr[m.port[q].owner]
      BY <1>6, <1>11, <2>2 DEF Unowned
    <3>3. QED  BY <1>6, <2>2, <3>1, <3>2
  <2>3. QED  BY <2>1, <2>2
<1>19. ASSUME Counted(m, pr) PROVE Counted(n, pr2)
  <2> SUFFICES ASSUME NEW other \in TermPids
               PROVE  /\ HasWriteSid(pr2[other]) => WriteCounted(n, pr2, other)
                      /\ HasReadSid(pr2[other]) => ReadCounted(n, pr2, other)
    BY DEF Counted
  <2>1. CASE ~HasWriteSid(pr[other])
    BY <1>14, <2>1
  <2>2. CASE HasWriteSid(pr[other])
    <3>1. /\ pr2[other] = pr[other] /\ n.k = m.k
          /\ n.port[pr[other].my_port] = m.port[pr[other].my_port]
          /\ WriteSid(n, pr2[other]) = WriteSid(m, pr[other])
          /\ ReadSid(n, pr2[other]) = ReadSid(m, pr[other])
          /\ HasReadSid(pr2[other]) <=> HasReadSid(pr[other])
      BY <1>6, <1>10, <1>14, <2>2 DEF HasWriteSid
    <3>2. /\ WriteCounted(m, pr, other)
          /\ HasReadSid(pr[other]) => ReadCounted(m, pr, other)
      BY <1>19, <2>2 DEF Counted
    <3>3. /\ Pass(n, pr2, other, "WriteInt", WriteSid(n, pr2[other])) =
               Pass(m, pr, other, "WriteInt", WriteSid(m, pr[other]))
          /\ Pass(n, pr2, other, "ReadInt", ReadSid(n, pr2[other])) =
               Pass(m, pr, other, "ReadInt", ReadSid(m, pr[other]))
      BY <3>1 DEF Pass
    <3>4. WriteCounted(m, pr, other) => WriteCounted(n, pr2, other)
      BY <3>1, <3>3 DEF WriteCounted
    <3>5. ReadCounted(m, pr, other) => ReadCounted(n, pr2, other)
      BY <3>1, <3>3 DEF ReadCounted
    <3>6. QED  BY <3>1, <3>2, <3>4, <3>5
  <2>3. QED  BY <2>1, <2>2
<1>20. ASSUME NEW i \in Nat, InputOrdered(m, pr, i) PROVE InputOrdered(n, pr2, i)
  <2> SUFFICES ASSUME NEW q \in Ports, n.port[q].owner # 0
               PROVE  Ordered(pr2[n.port[q].owner].ch, n.port[q].read_q, n.uart[q].rbr, i)
    BY DEF InputOrdered
  <2>1. CASE q = p
    <3>1. Ordered(0, Ring!queue_init, NONE, i)
      <4>1. 0 <= i /\ 0 \in Nat
        OBVIOUS
      <4>2. QED  BY <4>1, OrderedEmpty
    <3>2. QED  BY <1>3, <1>4, <1>5, <1>6, <1>7, <2>1, <3>1
  <2>2. CASE q # p
    <3>1. pr2[n.port[q].owner] = pr[n.port[q].owner]
      BY <1>11, <2>2 DEF Unowned
    <3>2. QED  BY <1>6, <1>20, <2>2, <3>1 DEF InputOrdered
  <2>3. QED  BY <2>1, <2>2
<1>21. ASSUME OutputFlows(m) PROVE OutputFlows(n)
  <2>1. Flows(d, u)
    BY <1>3, <1>4 DEF Flows
  <2>2. QED  BY <1>6, <1>21, <2>1 DEF OutputFlows
<1>22. QED  BY <1>17, <1>18, <1>19, <1>20, <1>21

LEMMA PortAllocStep ==
  ASSUME SInv, NEW pid \in TermPids,
         Calls(pid, "PortAlloc",
               [proc[pid] EXCEPT !.pc = "AllocWriteSem", !.my_port = FreePort(Machine)],
               PortAllocHandler(Machine))
  PROVE  /\ SInv'
         /\ CreditInv => CreditInv'
         /\ CreditInv /\ OrderInv => OrderInv'
         /\ FlowInv => FlowInv'
<1> DEFINE s == [proc[pid] EXCEPT !.pc = "AllocWriteSem", !.my_port = FreePort(Machine)]
<1>1. Goes(pid, "PortAlloc", s) /\ Becomes(PortAllocHandler(Machine))
  BY DEF Calls
<1>2. PICK m, pr, t :
        /\ m = Machine /\ pr = proc /\ t = pr[pid]
        /\ Base(m, pr) /\ Runs(m.k) /\ m.k.current_pid = pid
        /\ \A sid \in Sids : pid \notin Waiters(m.k, sid)
        /\ t.pc = "PortAlloc"
        /\ m.port \in [Ports -> PortType] /\ m.uart \in [Ports -> UartType]
        /\ proc' = [pr EXCEPT ![pid] = s]
        /\ typed' = typed
  <2> HIDE DEF s
  <2> QED  BY <1>1, Goer
<1> DEFINE p == FreePort(m)
           d == [Unowned EXCEPT !.owner = pid, !.write_ok = 1]
           n == MachineOf(m.k, [m.port EXCEPT ![p] = d], [m.uart EXCEPT ![p] = Enable(m.uart[p])])
           pr2 == [pr EXCEPT ![pid] = s]
<1>3. p \in Ports /\ m.port[p].owner = 0
  BY <1>2, FreePortIs
<1>4. PortAllocHandler(m) = n
  <2>1. m = MachineOf(m.k, m.port, m.uart)
    BY <1>2, MachineFields DEF Base
  <2>2. \A x : [m EXCEPT !.port = x] = MachineOf(m.k, x, m.uart)
    BY <2>1 DEF MachineOf
  <2>3. \A x, y : [MachineOf(m.k, x, m.uart) EXCEPT !.uart = y] = MachineOf(m.k, x, y)
    BY DEF MachineOf
  <2> HIDE DEF p, d
  <2> DEFINE ports == [m.port EXCEPT ![p] = d]
             uarts == [m.uart EXCEPT ![p] = Enable(m.uart[p])]
  <2>4. [m EXCEPT !.port = ports].uart = m.uart /\ [m EXCEPT !.port = ports] = MachineOf(m.k, ports, m.uart)
    BY <2>2 DEF MachineOf
  <2>5. [[m EXCEPT !.port = ports] EXCEPT !.uart = uarts] = n
    BY <2>3, <2>4
  <2>6. [m EXCEPT !.port[p] = d, !.uart[p] = Enable(@)] = n
    BY <2>4, <2>5
  <2>7. QED  BY <1>2, <2>6 DEF PortAllocHandler, p, d
<1>5. s = [pr[pid] EXCEPT !.pc = "AllocWriteSem", !.my_port = p]
  BY <1>2
<1>6. n.k = m.k
  BY DEF MachineOf
<1> HIDE DEF p, s, d, n, pr2
<1>7. OwnerChange(m, pr, pid, p, s, d, n, pr2)
  BY <1>2, <1>3, <1>5 DEF OwnerChange, d, n, pr2
<1>8. /\ Base(n, pr2)
      /\ Quiet(m, pr) => Quiet(n, pr2)
      /\ Counted(m, pr) => Counted(n, pr2)
      /\ \A i \in Nat : InputOrdered(m, pr, i) => InputOrdered(n, pr2, i)
      /\ OutputFlows(m) => OutputFlows(n)
  BY <1>3, <1>7, AllocPort
<1>9. Becomes(n) /\ InitRunnable(n.k) /\ proc' = pr2
  BY <1>1, <1>2, <1>4, <1>6 DEF Runs, pr2
<1>10. /\ IInv' /\ Base(Machine, proc)'
       /\ Quiet(n, pr2) /\ Counted(n, pr2) => CreditInv'
       /\ InputOrdered(n, pr2, typed') => OrderInv'
       /\ OutputFlows(n) => FlowInv'
  BY <1>8, <1>9, BecomesStep
<1>11. typed \in Nat
  BY Constants DEF SInv
<1>12. QED  BY <1>2, <1>8, <1>10, <1>11 DEF SInv, CreditInv, OrderInv, FlowInv

\* SerialAssumption: SemAllocHandler's search finds a semaphore for a process in PortAlloc().
LEMMA SemIsFree ==
  ASSUME NEW m, NEW pr, Base(m, pr), NEW pid \in TermPids, ~HasReadSid(pr[pid])
  PROVE  FreeSids(m.k) # {}
<1> DEFINE Owner(sid) == m.k.sem[sid].owner
           Code(x, i) == 2 * x + i
           All == 4 .. 2 * NPROCS + 1
           Codes == All \ {Code(pid, 1)}
           f == [sid \in Sids |-> IF sid = WriteSid(m, pr[Owner(sid)])
                                  THEN Code(Owner(sid), 0) ELSE Code(Owner(sid), 1)]
<1> SUFFICES ASSUME \A sid \in Sids : Owner(sid) # 0 PROVE FALSE
  BY DEF FreeSids
<1>1. ASSUME NEW sid \in Sids
      PROVE  LET x == Owner(sid) IN
             /\ x \in TermPids
             /\ \/ sid = WriteSid(m, pr[x])
                \/ sid # WriteSid(m, pr[x]) /\ HasReadSid(pr[x]) /\ sid = ReadSid(m, pr[x])
  BY DEF Base, Sems
<1>2. IsFiniteSet(Sids) /\ Cardinality(Sids) = Q_SIZE
  <2>1. Q_SIZE - 1 \in Int /\ ~(0 > Q_SIZE - 1) /\ (Q_SIZE - 1) - 0 + 1 = Q_SIZE
    BY Constants
  <2>2. QED  BY <2>1, FS_Interval DEF Sids
<1>3. IsFiniteSet(All) /\ Cardinality(All) = 2 * NPROCS - 2
  <2> DEFINE last == 2 * NPROCS + 1
  <2>1. last \in Int /\ ~(4 > last) /\ last - 4 + 1 = 2 * NPROCS - 2
    BY Constants
  <2> HIDE DEF last
  <2>2. IsFiniteSet(4 .. last) /\ Cardinality(4 .. last) = last - 4 + 1
    BY <2>1, FS_Interval
  <2>3. QED  BY <2>1, <2>2 DEF last
<1>4. \A x \in TermPids, i \in {0, 1} : Code(x, i) \in All
  BY Constants DEF TermPids
<1>5. IsFiniteSet(Codes) /\ Cardinality(Codes) = 2 * NPROCS - 3
  <2>1. Code(pid, 1) \in All
    BY <1>4
  <2> HIDE DEF All, Code
  <2>2. IsFiniteSet(Codes) /\ Cardinality(Codes) = Cardinality(All) - 1
    BY <1>3, <2>1, FS_RemoveElement
  <2>3. QED  BY <1>3, <2>2, Constants
<1>6. Cardinality(Codes) < Cardinality(Sids)
  <2> HIDE DEF Codes
  <2> QED  BY <1>2, <1>5, Constants
<1>7. \A x, y \in TermPids, i, j \in {0, 1} : Code(x, i) = Code(y, j) => x = y /\ i = j
  BY Constants DEF TermPids
<1> HIDE DEF Code, All
<1>8. ASSUME NEW sid \in Sids
      PROVE  f[sid] \in Codes
  <2>1. f[sid] = IF sid = WriteSid(m, pr[Owner(sid)])
                 THEN Code(Owner(sid), 0) ELSE Code(Owner(sid), 1)
    OBVIOUS
  <2>2. f[sid] \in All
    BY <1>1, <1>4, <2>1
  <2>3. f[sid] # Code(pid, 1)
    <3>1. CASE sid = WriteSid(m, pr[Owner(sid)])
      BY <1>1, <1>7, <2>1, <3>1
    <3>2. CASE sid # WriteSid(m, pr[Owner(sid)])
      <4>1. Owner(sid) \in TermPids /\ HasReadSid(pr[Owner(sid)])
        BY <1>1, <3>2
      <4>2. QED  BY <1>7, <2>1, <3>2, <4>1
    <3>3. QED  BY <3>1, <3>2
  <2>4. QED  BY <2>2, <2>3
<1>9. f \in [Sids -> Codes]
  BY <1>8
<1>10. PICK sid, other \in Sids : sid # other /\ f[sid] = f[other]
  <2> HIDE DEF f, Codes
  <2> QED  BY <1>2, <1>5, <1>6, <1>9, FS_PigeonHole
<1>11. /\ f[sid] = IF sid = WriteSid(m, pr[Owner(sid)])
                   THEN Code(Owner(sid), 0) ELSE Code(Owner(sid), 1)
       /\ f[other] = IF other = WriteSid(m, pr[Owner(other)])
                     THEN Code(Owner(other), 0) ELSE Code(Owner(other), 1)
  OBVIOUS
<1> HIDE DEF f
<1>12. PICK x, y \in TermPids : x = Owner(sid) /\ y = Owner(other)
  BY <1>1
<1>13. PICK i, j \in {0, 1} : /\ f[sid] = Code(x, i) /\ i = IF sid = WriteSid(m, pr[x]) THEN 0 ELSE 1
                             /\ f[other] = Code(y, j) /\ j = IF other = WriteSid(m, pr[y]) THEN 0 ELSE 1
  BY <1>11, <1>12
<1>14. x = y /\ i = j
  BY <1>7, <1>10, <1>13
<1>15. sid = WriteSid(m, pr[x]) \/ sid = ReadSid(m, pr[x])
  BY <1>1, <1>12
<1>16. other = WriteSid(m, pr[y]) \/ other = ReadSid(m, pr[y])
  BY <1>1, <1>12
<1>17. QED  BY <1>10, <1>13, <1>14, <1>15, <1>16

\* The process pid gets the semaphore sid, with so many passes, for its output or its input.
SemChange(m, pr, pid, passes, sid, s, n, pr2) ==
  /\ Base(m, pr) /\ Runs(m.k) /\ m.k.current_pid = pid
  /\ m.k.sem[sid].owner = 0 /\ sid = SemAllocResult(m.k, passes)
  /\ \/ /\ pr[pid].pc = "AllocWriteSem" /\ passes = QUEUE_SIZE
        /\ s = [pr[pid] EXCEPT !.pc = "StoreWriteSid", !.eax = sid]
     \/ /\ pr[pid].pc = "AllocReadSem" /\ passes = 0
        /\ s = [pr[pid] EXCEPT !.pc = "StoreReadSid", !.eax = sid]
  /\ n = MachineOf(SemAllocHandler(m.k, passes), m.port, m.uart)
  /\ pr2 = [pr EXCEPT ![pid] = s]

LEMMA AllocSemIs ==
  ASSUME NEW m, NEW pr, NEW pid \in TermPids, NEW passes, NEW sid \in Sids, NEW s, NEW n, NEW pr2,
         SemChange(m, pr, pid, passes, sid, s, n, pr2)
  PROVE  /\ Base(n, pr2) /\ InitRunnable(n.k)
         /\ Quiet(m, pr) => Quiet(n, pr2)
         /\ Quiet(m, pr) /\ Counted(m, pr) => Counted(n, pr2)
         /\ \A i : InputOrdered(m, pr, i) => InputOrdered(n, pr2, i)
         /\ OutputFlows(m) => OutputFlows(n)
<1> DEFINE t == pr[pid]
<1>0. /\ Base(m, pr) /\ Runs(m.k) /\ m.k.current_pid = pid
      /\ m.k.sem[sid].owner = 0 /\ sid = SemAllocResult(m.k, passes)
      /\ \/ /\ t.pc = "AllocWriteSem" /\ passes = QUEUE_SIZE
            /\ s = [t EXCEPT !.pc = "StoreWriteSid", !.eax = sid]
         \/ /\ t.pc = "AllocReadSem" /\ passes = 0
            /\ s = [t EXCEPT !.pc = "StoreReadSid", !.eax = sid]
      /\ n = MachineOf(SemAllocHandler(m.k, passes), m.port, m.uart)
      /\ pr2 = [pr EXCEPT ![pid] = s]
  BY DEF SemChange
<1>1. /\ m \in MachineType /\ Good(m.k) /\ Bounded(m)
      /\ Processes(pr) /\ Owned(m, pr) /\ Sems(m, pr) /\ Waiting(m, pr)
      /\ m.k \in MemoryType /\ m.k.sem \in [Sids -> SemType]
      /\ m.port \in [Ports -> PortType] /\ m.uart \in [Ports -> UartType]
  BY <1>0, MachineFields, MemoryFields DEF Base
<1>2. pr \in [TermPids -> ProcType] /\ pid # 0 /\ t \in ProcType /\ InLine(t)
  BY <1>1, Constants DEF Processes
<1>3. /\ n.port = m.port /\ n.uart = m.uart /\ n.k = SemAllocHandler(m.k, passes)
  BY <1>0 DEF MachineOf
<1>4. /\ Good(n.k) /\ InitRunnable(n.k)
      /\ n.k.sem = [m.k.sem EXCEPT ![sid] = [owner |-> pid, passes |-> passes, wait_q |-> <<>>]]
  <2>1. passes \in Nat
    BY <1>0, Constants
  <2>2. FreeSids(m.k) # {}
    BY <1>0 DEF FreeSids
  <2>3. m.k.current_pid # 0 /\ InitRunnable(m.k)
    BY <1>0 DEF Runs
  <2>4. QED  BY <1>0, <1>1, <1>3, <2>1, <2>2, <2>3, SemAllocGood
<1>5. /\ n.k.sem[sid] = [owner |-> pid, passes |-> passes, wait_q |-> <<>>]
      /\ \A x \in Sids : x # sid => n.k.sem[x] = m.k.sem[x]
  BY <1>1, <1>4
<1>6. \A x \in Sids : Waiters(n.k, x) = Waiters(m.k, x) /\ pid \notin Waiters(m.k, x)
  <2>1. m.k.sem[sid].wait_q = <<>>
    BY <1>0, <1>1 DEF Good, Credits
  <2>2. Waiters(n.k, sid) = Waiters(m.k, sid)
    BY <1>5, <2>1 DEF Waiters
  <2>3. \A x \in Sids : pid \notin Waiters(m.k, x)
    BY <1>0, <1>1, <1>2, RunningPid
  <2>4. QED  BY <1>5, <2>2, <2>3 DEF Waiters
<1>7. /\ s \in ProcType /\ s.my_port = t.my_port /\ s.ch = t.ch /\ s.at = t.at /\ s.eax = sid
      /\ s.pc = IF t.pc = "AllocWriteSem" THEN "StoreWriteSid" ELSE "StoreReadSid"
      /\ t.pc \in {"AllocWriteSem", "AllocReadSem"}
  <2>1. ASSUME NEW pc
        PROVE  [t EXCEPT !.pc = pc, !.eax = sid] =
                 [pc |-> pc, my_port |-> t.my_port, eax |-> sid, line |-> t.line, at |-> t.at,
                  ch |-> t.ch]
    <3> DEFINE t2 == [t EXCEPT !.pc = pc]
    <3>1. t2 = [pc |-> pc, my_port |-> t.my_port, eax |-> t.eax, line |-> t.line, at |-> t.at,
                ch |-> t.ch]
      BY <1>2 DEF ProcType
    <3> HIDE DEF t2
    <3>2. [t2 EXCEPT !.eax = sid] =
            [pc |-> pc, my_port |-> t.my_port, eax |-> sid, line |-> t.line, at |-> t.at,
             ch |-> t.ch]
      BY <3>1
    <3>3. QED  BY <3>2 DEF t2
  <2>2. CASE t.pc = "AllocWriteSem"
    BY <1>0, <1>2, <2>1, <2>2 DEF ProcType
  <2>3. CASE t.pc = "AllocReadSem"
    BY <1>0, <1>2, <2>1, <2>3 DEF ProcType
  <2>4. QED  BY <1>0, <2>2, <2>3
<1>8. /\ pr2[pid] = s /\ \A other \in TermPids : other # pid => pr2[other] = pr[other]
      /\ pr2 \in [TermPids -> ProcType]
  BY <1>0, <1>2, <1>7
<1>9. n \in MachineType
  <2>1. n.k \in MemoryType
    BY <1>4 DEF Good
  <2>2. QED  BY <1>0, <1>1, <1>3, <2>1 DEF MachineType, MachineOf
<1>10. Processes(pr2) /\ Bounded(n)
  <2>1. InLine(s)
    BY <1>2, <1>7 DEF InLine
  <2>2. QED  BY <1>1, <1>3, <1>8, <2>1 DEF Processes, Bounded
<1>11. Owned(n, pr2)
  <2>1. \A other \in TermPids : /\ pr2[other].my_port = pr[other].my_port
                                /\ pr2[other].pc # "PortAlloc" <=> pr[other].pc # "PortAlloc"
    BY <1>7, <1>8
  <2> HIDE DEF t
  <2>2. QED  BY <1>1, <1>3, <2>1 DEF Owned
<1>12. /\ HasWriteSid(s)
       /\ t.pc = "AllocWriteSem" => /\ ~HasWriteSid(t) /\ ~HasReadSid(t) /\ ~HasReadSid(s)
                                    /\ WriteSid(n, s) = sid
       /\ t.pc = "AllocReadSem" => /\ HasWriteSid(t) /\ ~HasReadSid(t) /\ HasReadSid(s)
                                   /\ ReadSid(n, s) = sid /\ WriteSid(n, s) = WriteSid(m, t)
  BY <1>3, <1>7 DEF HasWriteSid, HasReadSid, WriteSid, ReadSid
<1>13. ASSUME NEW other \in TermPids, other # pid
       PROVE  /\ pr2[other] = pr[other]
              /\ WriteSid(n, pr2[other]) = WriteSid(m, pr[other])
              /\ ReadSid(n, pr2[other]) = ReadSid(m, pr[other])
  <2>1. pr2[other] = pr[other]
    BY <1>8, <1>13
  <2>2. QED  BY <1>3, <2>1 DEF WriteSid, ReadSid
\* The process's other semaphore is another one.
<1>14. t.pc = "AllocReadSem" => /\ WriteSid(m, t) \in Sids /\ m.k.sem[WriteSid(m, t)].owner = pid
                                /\ WriteSid(m, t) # sid
  BY <1>0, <1>2, <1>12, Belongings
<1>15. ASSUME NEW other \in TermPids, other # pid
       PROVE  /\ HasWriteSid(pr[other]) => n.k.sem[WriteSid(m, pr[other])] = m.k.sem[WriteSid(m, pr[other])]
              /\ HasReadSid(pr[other]) => n.k.sem[ReadSid(m, pr[other])] = m.k.sem[ReadSid(m, pr[other])]
  <2>1. other # 0
    BY Constants
  <2>2. HasWriteSid(pr[other]) => WriteSid(m, pr[other]) \in Sids /\ m.k.sem[WriteSid(m, pr[other])].owner = other
    BY <1>0, Belongings
  <2>3. HasReadSid(pr[other]) => ReadSid(m, pr[other]) \in Sids /\ m.k.sem[ReadSid(m, pr[other])].owner = other
    BY <1>0, Belongings
  <2>4. QED  BY <1>0, <1>5, <2>1, <2>2, <2>3
<1> HIDE DEF t
<1>16. Sems(n, pr2)
  <2>1. ASSUME NEW other \in TermPids, HasWriteSid(pr2[other])
        PROVE  n.k.sem[WriteSid(n, pr2[other])].owner = other
    <3>1. CASE other = pid
      BY <1>5, <1>7, <1>8, <1>12, <1>14, <3>1
    <3>2. CASE other # pid
      BY <1>1, <1>13, <1>15, <2>1, <3>2 DEF Sems
    <3>3. QED  BY <3>1, <3>2
  <2>2. ASSUME NEW other \in TermPids, HasReadSid(pr2[other])
        PROVE  /\ n.k.sem[ReadSid(n, pr2[other])].owner = other
               /\ ReadSid(n, pr2[other]) # WriteSid(n, pr2[other])
    <3>1. CASE other = pid
      BY <1>5, <1>7, <1>8, <1>12, <1>14, <2>2, <3>1
    <3>2. CASE other # pid
      BY <1>1, <1>13, <1>15, <2>2, <3>2 DEF Sems
    <3>3. QED  BY <3>1, <3>2
  <2>3. ASSUME NEW y \in Sids, n.k.sem[y].owner # 0
        PROVE  LET x == n.k.sem[y].owner IN
               /\ x \in TermPids
               /\ \/ HasWriteSid(pr2[x]) /\ y = WriteSid(n, pr2[x])
                  \/ HasReadSid(pr2[x]) /\ y = ReadSid(n, pr2[x])
    <3>1. CASE y = sid
      BY <1>5, <1>7, <1>8, <1>12, <3>1
    <3>2. CASE y # sid
      <4>1. PICK x : x = n.k.sem[y].owner
        OBVIOUS
      <4>2. /\ x \in TermPids
            /\ \/ HasWriteSid(pr[x]) /\ y = WriteSid(m, pr[x])
               \/ HasReadSid(pr[x]) /\ y = ReadSid(m, pr[x])
        BY <1>1, <1>5, <2>3, <3>2, <4>1 DEF Sems
      <4>3. CASE x = pid
        BY <1>7, <1>8, <1>12, <4>1, <4>2, <4>3 DEF t
      <4>4. CASE x # pid
        BY <1>13, <4>1, <4>2, <4>4
      <4>5. QED  BY <4>3, <4>4
    <3>3. QED  BY <3>1, <3>2
  <2>4. QED  BY <2>1, <2>2, <2>3 DEF Sems
<1>17. Waiting(n, pr2)
  <2> SUFFICES ASSUME NEW y \in Sids, NEW x \in Waiters(n.k, y)
               PROVE  /\ x \in TermPids
                      /\ \/ pr2[x].pc = "WriteInt" /\ y = WriteSid(n, pr2[x])
                         \/ pr2[x].pc = "ReadInt"  /\ y = ReadSid(n, pr2[x])
    BY DEF Waiting
  <2>1. /\ x \in TermPids /\ x # pid
        /\ \/ pr[x].pc = "WriteInt" /\ y = WriteSid(m, pr[x])
           \/ pr[x].pc = "ReadInt"  /\ y = ReadSid(m, pr[x])
    BY <1>1, <1>6 DEF Waiting
  <2>2. QED  BY <1>13, <2>1
<1>18. Base(n, pr2)
  BY <1>4, <1>9, <1>10, <1>11, <1>16, <1>17 DEF Base
<1>19. ASSUME Quiet(m, pr) PROVE Quiet(n, pr2)
  <2>1. ASSUME NEW x \in TermPids, pr[x].pc \in Working PROVE pr2[x] = pr[x]
    BY <1>7, <1>8, <2>1 DEF Working, t
  <2>2. \A p \in Ports : m.port[p].owner # 0 => m.port[p].owner \in TermPids
    BY <1>0, OwnedPort
  <2>3. QED  BY <1>3, <1>19, <2>1, <2>2 DEF Quiet
<1>20. ASSUME Quiet(m, pr), Counted(m, pr) PROVE Counted(n, pr2)
  <2> SUFFICES ASSUME NEW other \in TermPids
               PROVE  /\ HasWriteSid(pr2[other]) => WriteCounted(n, pr2, other)
                      /\ HasReadSid(pr2[other]) => ReadCounted(n, pr2, other)
    BY DEF Counted
  <2>1. CASE other # pid
    <3>1. /\ pr2[other] = pr[other]
          /\ WriteSid(n, pr2[other]) = WriteSid(m, pr[other])
          /\ ReadSid(n, pr2[other]) = ReadSid(m, pr[other])
          /\ WriteSid(m, pr[other]) \in Sids /\ ReadSid(m, pr[other]) \in Sids
      BY <1>0, <1>13, <2>1, Belongings
    <3>2. /\ Pass(n, pr2, other, "WriteInt", WriteSid(n, pr2[other])) =
               Pass(m, pr, other, "WriteInt", WriteSid(m, pr[other]))
          /\ Pass(n, pr2, other, "ReadInt", ReadSid(n, pr2[other])) =
               Pass(m, pr, other, "ReadInt", ReadSid(m, pr[other]))
      BY <1>6, <3>1 DEF Pass
    <3>3. /\ HasWriteSid(pr[other]) => WriteCounted(m, pr, other)
          /\ HasReadSid(pr[other]) => ReadCounted(m, pr, other)
      BY <1>20 DEF Counted
    <3>4. HasWriteSid(pr[other]) /\ WriteCounted(m, pr, other) => WriteCounted(n, pr2, other)
      BY <1>3, <1>15, <2>1, <3>1, <3>2 DEF WriteCounted
    <3>5. HasReadSid(pr[other]) /\ ReadCounted(m, pr, other) => ReadCounted(n, pr2, other)
      BY <1>3, <1>15, <2>1, <3>1, <3>2 DEF ReadCounted
    <3>6. QED  BY <3>1, <3>3, <3>4, <3>5
  <2>2. CASE other = pid
    <3>1. /\ t.my_port \in Ports /\ m.port[t.my_port].owner = pid
          /\ m.port[t.my_port].write_q = <<>> /\ m.port[t.my_port].read_q = Ring!queue_init
      <4>1. t.my_port \in Ports /\ m.port[t.my_port].owner = pid
        BY <1>0, <1>7, Belongings DEF t
      <4>2. QED  BY <1>7, <1>20, <4>1 DEF Quiet, Working, t
    <3>2. n.port[s.my_port].write_q = <<>> /\ n.port[s.my_port].read_q.size = 0
      BY <1>3, <1>7, <3>1 DEF Ring!queue_init
    <3>3. /\ Pass(n, pr2, pid, "WriteInt", WriteSid(n, s)) = 0
          /\ Pass(n, pr2, pid, "ReadInt", ReadSid(n, s)) = 0
      BY <1>7, <1>8 DEF Pass
    <3>4. Len(<<>>) = 0 /\ QUEUE_SIZE + 0 + 0 = QUEUE_SIZE
      BY Constants
    <3>5. CASE t.pc = "AllocWriteSem"
      <4>1. n.k.sem[WriteSid(n, s)].passes = QUEUE_SIZE
        BY <1>0, <1>5, <1>12, <3>5
      <4>2. WriteCounted(n, pr2, pid)
        BY <1>8, <3>2, <3>3, <3>4, <4>1 DEF WriteCounted
      <4>3. QED  BY <1>8, <1>12, <2>2, <3>5, <4>2
    <3>6. CASE t.pc = "AllocReadSem"
      <4>1. n.k.sem[ReadSid(n, s)].passes = 0
        BY <1>0, <1>5, <1>12, <3>6
      <4>2. ReadCounted(n, pr2, pid)
        BY <1>8, <3>2, <3>3, <4>1 DEF ReadCounted
      <4>3. WriteCounted(m, pr, pid)
        BY <1>12, <1>20, <3>6 DEF Counted, t
      <4>4. Pass(m, pr, pid, "WriteInt", WriteSid(m, t)) = 0
        BY <3>6 DEF Pass, t
      <4>5. /\ n.k.sem[WriteSid(n, s)] = m.k.sem[WriteSid(m, t)]
            /\ n.port[s.my_port] = m.port[t.my_port]
        BY <1>3, <1>5, <1>7, <1>12, <1>14, <3>6
      <4>6. WriteCounted(n, pr2, pid)
        BY <1>8, <3>3, <4>3, <4>4, <4>5 DEF WriteCounted, t
      <4>7. QED  BY <1>8, <2>2, <4>2, <4>6
    <3>7. QED  BY <1>7, <3>5, <3>6
  <2>3. QED  BY <2>1, <2>2
<1>21. ASSUME NEW i, InputOrdered(m, pr, i) PROVE InputOrdered(n, pr2, i)
  <2>1. \A x \in TermPids : pr2[x].ch = pr[x].ch
    BY <1>7, <1>8 DEF t
  <2>2. \A p \in Ports : m.port[p].owner # 0 => m.port[p].owner \in TermPids
    BY <1>0, OwnedPort
  <2>3. QED  BY <1>3, <1>21, <2>1, <2>2 DEF InputOrdered
<1>22. OutputFlows(m) => OutputFlows(n)
  BY <1>3 DEF OutputFlows
<1>23. QED  BY <1>4, <1>18, <1>19, <1>20, <1>21, <1>22

LEMMA AllocSemStep ==
  ASSUME SInv, NEW pid \in TermPids, NEW from, NEW to, NEW passes,
         \/ from = "AllocWriteSem" /\ to = "StoreWriteSid" /\ passes = QUEUE_SIZE
         \/ from = "AllocReadSem" /\ to = "StoreReadSid" /\ passes = 0,
         Calls(pid, from, [proc[pid] EXCEPT !.pc = to, !.eax = SemAllocResult(Memory, passes)],
               [Machine EXCEPT !.k = SemAllocHandler(@, passes)])
  PROVE  /\ SInv'
         /\ CreditInv => CreditInv'
         /\ CreditInv /\ OrderInv => OrderInv'
         /\ FlowInv => FlowInv'
<1> DEFINE sid == SemAllocResult(Memory, passes)
           s == [proc[pid] EXCEPT !.pc = to, !.eax = sid]
           h == [Machine EXCEPT !.k = SemAllocHandler(@, passes)]
<1>1. Goes(pid, from, s) /\ Becomes(h)
  BY DEF Calls
<1>2. PICK m, pr, t :
        /\ m = Machine /\ pr = proc /\ t = pr[pid]
        /\ Base(m, pr) /\ Runs(m.k) /\ m.k = Memory /\ m.k.current_pid = pid
        /\ t.pc = from
        /\ proc' = [pr EXCEPT ![pid] = s]
        /\ typed' = typed
  <2> HIDE DEF s
  <2> QED  BY <1>1, Goer
<1> DEFINE n == MachineOf(SemAllocHandler(m.k, passes), m.port, m.uart)
           pr2 == [pr EXCEPT ![pid] = s]
<1>3. sid \in Sids /\ m.k.sem[sid].owner = 0
  <2>1. ~HasReadSid(pr[pid])
    BY <1>2 DEF HasReadSid, HasWriteSid
  <2>2. FreeSids(m.k) # {}
    BY <1>2, <2>1, SemIsFree
  <2>3. sid \in FreeSids(m.k)
    BY <1>2, <2>2, SearchFindsFree
  <2>4. QED  BY <2>3 DEF FreeSids
<1>4. h = n
  <2>1. m = MachineOf(m.k, m.port, m.uart)
    BY <1>2, MachineFields DEF Base
  <2>2. \A x : [m EXCEPT !.k = x] = MachineOf(x, m.port, m.uart)
    BY <2>1 DEF MachineOf
  <2>3. QED  BY <1>2, <2>2
<1>5. proc[pid] = pr[pid] /\ pr[pid].pc = from /\ sid = SemAllocResult(m.k, passes)
  BY <1>2
<1>6. s = [pr[pid] EXCEPT !.pc = to, !.eax = sid]
  BY <1>5
<1> HIDE DEF sid, s, h, n, pr2
<1>7. SemChange(m, pr, pid, passes, sid, s, n, pr2)
  BY <1>2, <1>3, <1>5, <1>6 DEF SemChange, n, pr2
<1>8. /\ Base(n, pr2) /\ InitRunnable(n.k)
      /\ Quiet(m, pr) => Quiet(n, pr2)
      /\ Quiet(m, pr) /\ Counted(m, pr) => Counted(n, pr2)
      /\ \A i : InputOrdered(m, pr, i) => InputOrdered(n, pr2, i)
      /\ OutputFlows(m) => OutputFlows(n)
  BY <1>3, <1>7, AllocSemIs
<1>9. Becomes(n) /\ proc' = pr2
  BY <1>1, <1>2, <1>4 DEF pr2
<1>10. /\ IInv' /\ Base(Machine, proc)'
       /\ Quiet(n, pr2) /\ Counted(n, pr2) => CreditInv'
       /\ InputOrdered(n, pr2, typed') => OrderInv'
       /\ OutputFlows(n) => FlowInv'
  BY <1>8, <1>9, BecomesStep
<1>11. QED  BY <1>2, <1>8, <1>10 DEF SInv, CreditInv, OrderInv, FlowInv

-----------------------------------------------------------------------------
(***************************************************************************)
(* SemWait, the system call before each byte.                              *)
(***************************************************************************)
LEMMA WaitIs ==
  ASSUME NEW k, Good(k), Runs(k), k.current_pid # InitPid, NEW sid \in Sids, k.sem[sid].owner # 0
  PROVE  LET k1 == SemWaitHandler(k, sid) IN
         /\ Good(k1) /\ InitRunnable(k1)
         /\ \A x \in Sids : /\ k1.sem[x].owner = k.sem[x].owner
                            /\ x # sid => k1.sem[x] = k.sem[x] /\ Waiters(k1, x) = Waiters(k, x)
         /\ k.sem[sid].passes \in Nat
         /\ k.sem[sid].passes > 0 => /\ k1.sem[sid].passes = k.sem[sid].passes - 1
                                     /\ Waiters(k1, sid) = Waiters(k, sid)
         /\ k.sem[sid].passes = 0 => /\ k1.sem[sid].passes = 0
                                     /\ Waiters(k1, sid) = Waiters(k, sid) \cup {k.current_pid}
<1> DEFINE k1 == SemWaitHandler(k, sid)
<1>1. /\ Good(k1) /\ InitRunnable(k1)
      /\ k1.sem = IF k.sem[sid].passes > 0
                  THEN [k.sem EXCEPT ![sid].passes = @ - 1]
                  ELSE [k.sem EXCEPT ![sid].wait_q = Append(@, k.current_pid)]
  BY SemWaitGood DEF Runs
<1> HIDE DEF k1
<1>2. k.sem \in [Sids -> SemType] /\ k.current_pid \in Pids
  BY MemoryFields, RunningPid DEF Good, Runs
<1>3. k.sem[sid].wait_q \in Seq(Pids) /\ k.sem[sid].passes \in Nat
  BY <1>2 DEF SemType
<1>4. CASE k.sem[sid].passes > 0
  <2>1. /\ \A x \in Sids : x # sid => k1.sem[x] = k.sem[x]
        /\ k1.sem[sid].owner = k.sem[sid].owner /\ k1.sem[sid].wait_q = k.sem[sid].wait_q
        /\ k1.sem[sid].passes = k.sem[sid].passes - 1
    BY <1>1, <1>2, <1>4 DEF SemType
  <2>2. QED  BY <1>1, <1>3, <1>4, <2>1 DEF Waiters, k1
<1>5. CASE ~(k.sem[sid].passes > 0)
  <2>1. /\ \A x \in Sids : x # sid => k1.sem[x] = k.sem[x]
        /\ k1.sem[sid].owner = k.sem[sid].owner
        /\ k1.sem[sid].wait_q = Append(k.sem[sid].wait_q, k.current_pid)
        /\ k1.sem[sid].passes = k.sem[sid].passes
    BY <1>1, <1>2, <1>5 DEF SemType
  <2>2. Members(Append(k.sem[sid].wait_q, k.current_pid)) = Members(k.sem[sid].wait_q) \cup {k.current_pid}
    BY <1>2, <1>3, MembersOfAppend
  <2>3. QED  BY <1>1, <1>3, <1>5, <2>1, <2>2 DEF Waiters, k1
<1>6. QED  BY <1>4, <1>5

\* The process pid asks for a pass of its semaphore sid, and goes on when it has it.
WaitChange(m, pr, pid, sid, s, n, pr2) ==
  /\ Base(m, pr) /\ Runs(m.k) /\ m.k.current_pid = pid
  /\ \/ /\ pr[pid].pc = "WriteWait" /\ sid = WriteSid(m, pr[pid])
        /\ s = [pr[pid] EXCEPT !.pc = "WriteInt"]
     \/ /\ pr[pid].pc = "ReadWait" /\ sid = ReadSid(m, pr[pid])
        /\ s = [pr[pid] EXCEPT !.pc = "ReadInt"]
  /\ n = MachineOf(SemWaitHandler(m.k, sid), m.port, m.uart)
  /\ pr2 = [pr EXCEPT ![pid] = s]

LEMMA WaitOnIs ==
  ASSUME NEW m, NEW pr, NEW pid \in TermPids, NEW sid, NEW s, NEW n, NEW pr2,
         WaitChange(m, pr, pid, sid, s, n, pr2)
  PROVE  /\ Base(n, pr2) /\ InitRunnable(n.k)
         /\ Quiet(m, pr) => Quiet(n, pr2)
         /\ Counted(m, pr) => Counted(n, pr2)
         /\ \A i : InputOrdered(m, pr, i) => InputOrdered(n, pr2, i)
         /\ OutputFlows(m) => OutputFlows(n)
<1> DEFINE t == pr[pid]
           p == t.my_port
           d == m.port[p]
<1>1. /\ Base(m, pr) /\ Runs(m.k) /\ m.k.current_pid = pid
      /\ \/ /\ t.pc = "WriteWait" /\ sid = WriteSid(m, t) /\ s = [t EXCEPT !.pc = "WriteInt"]
         \/ /\ t.pc = "ReadWait" /\ sid = ReadSid(m, t) /\ s = [t EXCEPT !.pc = "ReadInt"]
      /\ n = MachineOf(SemWaitHandler(m.k, sid), m.port, m.uart)
      /\ pr2 = [pr EXCEPT ![pid] = s]
  BY DEF WaitChange
<1>2. /\ m \in MachineType /\ Good(m.k) /\ pr \in [TermPids -> ProcType]
      /\ m.port \in [Ports -> PortType] /\ m.uart \in [Ports -> UartType]
      /\ m = MachineOf(m.k, m.port, m.uart)
      /\ \A x \in Sids : pid \notin Waiters(m.k, x)
  BY <1>1, MachineFields, RunningPid DEF Base, Processes, Runs
<1>3. /\ t \in ProcType /\ InLine(t) /\ p \in Ports /\ d \in PortType /\ d.owner = pid
      /\ d.write_ok = 1 /\ Len(d.write_q) <= QUEUE_SIZE /\ Len(d.loopback_q) <= QUEUE_SIZE
  <2>1. t \in ProcType /\ InLine(t) /\ p \in Ports /\ d.owner = pid /\ pid # 0
    BY <1>1, Belongings, Constants
  <2>2. QED  BY <1>1, <2>1, OwnedPort
<1>4. /\ s \in ProcType /\ s.my_port = p /\ s.ch = t.ch /\ s.at = t.at
      /\ \/ t.pc = "WriteWait" /\ s.pc = "WriteInt" /\ sid = WriteSid(m, t)
         \/ t.pc = "ReadWait" /\ s.pc = "ReadInt" /\ sid = ReadSid(m, t)
  BY <1>1, <1>3 DEF ProcType
<1>5. HasWriteSid(t) /\ HasReadSid(t) /\ HasWriteSid(s) /\ HasReadSid(s) /\ InLine(s)
  BY <1>3, <1>4 DEF HasWriteSid, HasReadSid, InLine
<1>6. /\ WriteSid(m, t) \in Sids /\ ReadSid(m, t) \in Sids /\ WriteSid(m, t) # ReadSid(m, t)
      /\ m.k.sem[WriteSid(m, t)].owner = pid /\ m.k.sem[ReadSid(m, t)].owner = pid
  BY <1>1, <1>5, Belongings
\* The process in front of its call, the kernel as it was.
<1>7. /\ Base(m, pr2)
      /\ Quiet(m, pr) => Quiet(m, pr2)
      /\ Counted(m, pr) =>
           \A other \in TermPids : other # pid =>
             /\ HasWriteSid(pr2[other]) => WriteCounted(m, pr2, other)
             /\ HasReadSid(pr2[other]) => ReadCounted(m, pr2, other)
      /\ \A i : InputOrdered(m, pr, i) => InputOrdered(m, pr2, i)
  <2>1. m = MachineOf(m.k, [m.port EXCEPT ![p] = d], m.uart)
    BY <1>2, <1>3
  <2>2. KeepsSids(m, t, m, s)
    BY <1>4, <1>5 DEF KeepsSids, WriteSid, ReadSid
  <2>3. OwnChange(m, pr, pid, d, s, m, pr2)
    BY <1>1, <1>2, <1>3, <1>5, <2>1, <2>2 DEF OwnChange
  <2>4. s.pc \in Working
    BY <1>4 DEF Working
  <2>5. \A i : InputOrdered(m, pr, i) => Ordered(s.ch, d.read_q, m.uart[p].rbr, i)
    BY <1>3, <1>4, Constants DEF InputOrdered
  <2> HIDE DEF t, d
  <2>6. QED  BY <1>3, <1>4, <2>3, <2>4, <2>5, OwnStep DEF t
<1>8. /\ Good(n.k) /\ InitRunnable(n.k) /\ n.k = SemWaitHandler(m.k, sid)
      /\ n.port = m.port /\ n.uart = m.uart
      /\ \A x \in Sids : /\ n.k.sem[x].owner = m.k.sem[x].owner
                         /\ x # sid => n.k.sem[x] = m.k.sem[x] /\ Waiters(n.k, x) = Waiters(m.k, x)
      /\ m.k.sem[sid].passes \in Nat
      /\ m.k.sem[sid].passes > 0 => /\ n.k.sem[sid].passes = m.k.sem[sid].passes - 1
                                    /\ Waiters(n.k, sid) = Waiters(m.k, sid)
      /\ m.k.sem[sid].passes = 0 => /\ n.k.sem[sid].passes = 0
                                    /\ Waiters(n.k, sid) = Waiters(m.k, sid) \cup {pid}
  <2>1. n.k = SemWaitHandler(m.k, sid) /\ n.port = m.port /\ n.uart = m.uart
    BY <1>1 DEF MachineOf
  <2>2. sid \in Sids /\ m.k.sem[sid].owner # 0 /\ m.k.current_pid # InitPid
    BY <1>1, <1>4, <1>6, Constants
  <2>3. QED  BY <1>1, <1>2, <2>1, <2>2, WaitIs
<1> DEFINE u == pr2[pid]
<1>9. u = s /\ \A other \in TermPids : other # pid => pr2[other] = pr[other]
  BY <1>1, <1>2
<1>10. \A x \in TermPids : /\ WriteSid(n, pr2[x]) = WriteSid(m, pr2[x])
                           /\ ReadSid(n, pr2[x]) = ReadSid(m, pr2[x])
  BY <1>8 DEF WriteSid, ReadSid
<1>11. /\ WriteSid(m, s) = WriteSid(m, t) /\ ReadSid(m, s) = ReadSid(m, t)
  BY <1>4 DEF WriteSid, ReadSid
<1> HIDE DEF t, d, p, u
<1>12. Base(n, pr2)
  <2>1. n \in MachineType
    BY <1>1, <1>2, <1>8 DEF MachineType, MachineOf, Good
  <2>2. Bounded(n) /\ Processes(pr2) /\ Owned(n, pr2)
    BY <1>7, <1>8 DEF Base, Bounded, Owned
  <2>3. Sems(n, pr2)
    <3>1. \A other \in TermPids :
            HasWriteSid(pr2[other]) => n.k.sem[WriteSid(n, pr2[other])].owner = other
      BY <1>7, <1>8, <1>10, Belongings
    <3>2. \A other \in TermPids :
            HasReadSid(pr2[other]) => /\ n.k.sem[ReadSid(n, pr2[other])].owner = other
                                      /\ ReadSid(n, pr2[other]) # WriteSid(n, pr2[other])
      BY <1>7, <1>8, <1>10, Belongings
    <3>3. ASSUME NEW y \in Sids, n.k.sem[y].owner # 0
          PROVE  LET x == n.k.sem[y].owner IN
                 /\ x \in TermPids
                 /\ \/ HasWriteSid(pr2[x]) /\ y = WriteSid(n, pr2[x])
                    \/ HasReadSid(pr2[x]) /\ y = ReadSid(n, pr2[x])
      <4>1. PICK x : x = m.k.sem[y].owner
        OBVIOUS
      <4>2. /\ x \in TermPids
            /\ \/ HasWriteSid(pr2[x]) /\ y = WriteSid(m, pr2[x])
               \/ HasReadSid(pr2[x]) /\ y = ReadSid(m, pr2[x])
        BY <1>7, <1>8, <3>3, <4>1 DEF Base, Sems
      <4>3. QED  BY <1>8, <1>10, <4>1, <4>2
    <3>4. QED  BY <3>1, <3>2, <3>3 DEF Sems
  <2>4. Waiting(n, pr2)
    <3> SUFFICES ASSUME NEW y \in Sids, NEW x \in Waiters(n.k, y)
                 PROVE  /\ x \in TermPids
                        /\ \/ pr2[x].pc = "WriteInt" /\ y = WriteSid(n, pr2[x])
                           \/ pr2[x].pc = "ReadInt"  /\ y = ReadSid(n, pr2[x])
      BY DEF Waiting
    <3>1. CASE x \in Waiters(m.k, y)
      BY <1>7, <1>10, <3>1 DEF Base, Waiting
    <3>2. CASE x \notin Waiters(m.k, y)
      <4>1. y = sid /\ x = pid
        BY <1>8, <3>2
      <4>2. QED  BY <1>4, <1>9, <1>10, <1>11, <4>1 DEF u
    <3>3. QED  BY <3>1, <3>2
  <2>5. QED  BY <1>8, <2>1, <2>2, <2>3, <2>4 DEF Base
<1>13. ASSUME Counted(m, pr) PROVE Counted(n, pr2)
  <2> SUFFICES ASSUME NEW other \in TermPids
               PROVE  /\ HasWriteSid(pr2[other]) => WriteCounted(n, pr2, other)
                      /\ HasReadSid(pr2[other]) => ReadCounted(n, pr2, other)
    BY DEF Counted
  <2>1. CASE other # pid
    <3>1. /\ HasWriteSid(pr2[other]) => WriteCounted(m, pr2, other)
          /\ HasReadSid(pr2[other]) => ReadCounted(m, pr2, other)
      BY <1>7, <1>13, <2>1
    <3>2. sid \in Sids /\ m.k.sem[sid].owner = pid
      BY <1>4, <1>6
    <3>3. ASSUME HasWriteSid(pr2[other])
          PROVE  LET w == WriteSid(m, pr2[other]) IN
                 n.k.sem[w] = m.k.sem[w] /\ Waiters(n.k, w) = Waiters(m.k, w)
      BY <1>7, <1>8, <2>1, <3>2, <3>3, Belongings
    <3>4. ASSUME HasReadSid(pr2[other])
          PROVE  LET r == ReadSid(m, pr2[other]) IN
                 n.k.sem[r] = m.k.sem[r] /\ Waiters(n.k, r) = Waiters(m.k, r)
      BY <1>7, <1>8, <2>1, <3>2, <3>4, Belongings
    <3>5. HasWriteSid(pr2[other]) => WriteCounted(n, pr2, other)
      BY <1>8, <1>10, <3>1, <3>3 DEF WriteCounted, Pass
    <3>6. HasReadSid(pr2[other]) => ReadCounted(n, pr2, other)
      BY <1>8, <1>10, <3>1, <3>4 DEF ReadCounted, Pass
    <3>7. QED  BY <3>5, <3>6
  <2>2. CASE other = pid
    <3> DEFINE w == WriteSid(m, t)
               r == ReadSid(m, t)
    <3>1. WriteSid(n, u) = w /\ ReadSid(n, u) = r /\ u.my_port = p
      BY <1>4, <1>9, <1>10, <1>11 DEF u
    <3>2. WriteCounted(m, pr, pid) /\ ReadCounted(m, pr, pid)
      BY <1>5, <1>13 DEF Counted, t
    <3>3. Pass(m, pr, pid, "WriteInt", w) = 0 /\ Pass(m, pr, pid, "ReadInt", r) = 0
      BY <1>4 DEF Pass, t
    <3>4. /\ m.k.sem[w].passes + Len(m.port[p].write_q) + 0 = QUEUE_SIZE
          /\ m.k.sem[r].passes + 0 = m.port[p].read_q.size
      BY <3>2, <3>3 DEF WriteCounted, ReadCounted, t, p
    <3>5. /\ m.k.sem[w].passes \in Nat /\ m.k.sem[r].passes \in Nat /\ Len(m.port[p].write_q) \in Nat
      <4>1. m.k.sem \in [Sids -> SemType]
        BY <1>2, MachineFields, MemoryFields
      <4>2. m.port[p].write_q \in Seq({PromptByte})
        BY <1>3, PortFields DEF d
      <4>3. QED  BY <1>6, <4>1, <4>2, LenProperties DEF SemType
    <3>6. n.k.sem[w].passes + Pass(n, pr2, pid, "WriteInt", w) = m.k.sem[w].passes
      <4>1. CASE sid = w
        <5>1. u.pc = "WriteInt" /\ w \in Sids /\ pid \notin Waiters(m.k, w)
          BY <1>2, <1>4, <1>6, <1>9, <4>1
        <5>2. Pass(n, pr2, pid, "WriteInt", w) = IF pid \notin Waiters(n.k, w) THEN 1 ELSE 0
          BY <5>1 DEF Pass, u
        <5>3. QED  BY <1>8, <3>5, <4>1, <5>1, <5>2
      <4>2. CASE sid # w
        <5>1. u.pc = "ReadInt"
          BY <1>4, <1>9, <4>2
        <5>2. Pass(n, pr2, pid, "WriteInt", w) = 0
          BY <5>1 DEF Pass, u
        <5>3. QED  BY <1>6, <1>8, <3>5, <4>2, <5>2
      <4>3. QED  BY <4>1, <4>2
    <3>7. n.k.sem[r].passes + Pass(n, pr2, pid, "ReadInt", r) = m.k.sem[r].passes
      <4>1. CASE sid = r
        <5>1. u.pc = "ReadInt" /\ r \in Sids /\ pid \notin Waiters(m.k, r)
          BY <1>2, <1>4, <1>6, <1>9, <4>1
        <5>2. Pass(n, pr2, pid, "ReadInt", r) = IF pid \notin Waiters(n.k, r) THEN 1 ELSE 0
          BY <5>1 DEF Pass, u
        <5>3. QED  BY <1>8, <3>5, <4>1, <5>1, <5>2
      <4>2. CASE sid # r
        <5>1. u.pc = "WriteInt"
          BY <1>4, <1>9, <4>2
        <5>2. Pass(n, pr2, pid, "ReadInt", r) = 0
          BY <5>1 DEF Pass, u
        <5>3. QED  BY <1>6, <1>8, <3>5, <4>2, <5>2
      <4>3. QED  BY <4>1, <4>2
    <3>8. n.k.sem[w].passes + Len(m.port[p].write_q) + Pass(n, pr2, pid, "WriteInt", w) = QUEUE_SIZE
      <4>1. Pass(n, pr2, pid, "WriteInt", w) \in Int
        BY DEF Pass
      <4>2. n.k.sem[w].passes \in Int
        <5>1. n.k.sem \in [Sids -> SemType]
          BY <1>8, MemoryFields DEF Good
        <5>2. QED  BY <1>6, <5>1 DEF SemType
      <4> DEFINE a == n.k.sem[w].passes
                 b == Pass(n, pr2, pid, "WriteInt", w)
                 c == m.k.sem[w].passes
                 e == Len(m.port[p].write_q)
      <4>3. a \in Int /\ b \in Int /\ c \in Nat /\ e \in Nat /\ a + b = c /\ c + e + 0 = QUEUE_SIZE
        BY <3>4, <3>5, <3>6, <4>1, <4>2
      <4> HIDE DEF a, b, c, e
      <4>4. a + e + b = QUEUE_SIZE
        BY <4>3
      <4>5. QED  BY <4>4 DEF a, b, e
    <3>9. n.k.sem[r].passes + Pass(n, pr2, pid, "ReadInt", r) = m.port[p].read_q.size
      BY <3>4, <3>5, <3>7
    <3> HIDE DEF w, r
    <3>10. WriteCounted(n, pr2, pid)
      BY <1>8, <3>1, <3>8 DEF WriteCounted, u
    <3>11. ReadCounted(n, pr2, pid)
      BY <1>8, <3>1, <3>9 DEF ReadCounted, u
    <3>12. QED  BY <2>2, <3>10, <3>11
  <2>3. QED  BY <2>1, <2>2
<1>14. QED
  BY <1>7, <1>8, <1>12, <1>13 DEF Quiet, InputOrdered, OutputFlows

LEMMA WaitOnStep ==
  ASSUME SInv, NEW pid \in TermPids, NEW from, NEW to, NEW sid,
         \/ from = "WriteWait" /\ to = "WriteInt" /\ sid = port[proc[pid].my_port].write_sid
         \/ from = "ReadWait" /\ to = "ReadInt" /\ sid = port[proc[pid].my_port].read_sid,
         WaitOn(pid, from, to, sid)
  PROVE  /\ SInv'
         /\ CreditInv => CreditInv'
         /\ CreditInv /\ OrderInv => OrderInv'
         /\ FlowInv => FlowInv'
<1> DEFINE s == [proc[pid] EXCEPT !.pc = to]
           h == [Machine EXCEPT !.k = SemWaitHandler(@, sid)]
<1>1. Goes(pid, from, s) /\ Becomes(h)
  BY DEF WaitOn, Calls
<1>2. PICK m, pr, t :
        /\ m = Machine /\ pr = proc /\ t = pr[pid]
        /\ Base(m, pr) /\ Runs(m.k) /\ m.k = Memory /\ m.k.current_pid = pid
        /\ m.port = port /\ t.pc = from
        /\ proc' = [pr EXCEPT ![pid] = s]
        /\ typed' = typed
  <2> HIDE DEF s
  <2> QED  BY <1>1, Goer
<1> DEFINE n == MachineOf(SemWaitHandler(m.k, sid), m.port, m.uart)
           pr2 == [pr EXCEPT ![pid] = s]
<1>3. h = n
  <2>1. m = MachineOf(m.k, m.port, m.uart)
    BY <1>2, MachineFields DEF Base
  <2>2. \A x : [m EXCEPT !.k = x] = MachineOf(x, m.port, m.uart)
    BY <2>1 DEF MachineOf
  <2>3. QED  BY <1>2, <2>2
<1>4. proc[pid] = pr[pid] /\ pr[pid].pc = from
  BY <1>2
<1>5. s = [pr[pid] EXCEPT !.pc = to]
  BY <1>4
<1>6. \/ from = "WriteWait" /\ to = "WriteInt" /\ sid = WriteSid(m, pr[pid])
      \/ from = "ReadWait" /\ to = "ReadInt" /\ sid = ReadSid(m, pr[pid])
  BY <1>2, <1>4 DEF WriteSid, ReadSid
<1> HIDE DEF s, h, n, pr2
<1>7. WaitChange(m, pr, pid, sid, s, n, pr2)
  BY <1>2, <1>4, <1>5, <1>6 DEF WaitChange, n, pr2
<1>8. /\ Base(n, pr2) /\ InitRunnable(n.k)
      /\ Quiet(m, pr) => Quiet(n, pr2)
      /\ Counted(m, pr) => Counted(n, pr2)
      /\ \A i : InputOrdered(m, pr, i) => InputOrdered(n, pr2, i)
      /\ OutputFlows(m) => OutputFlows(n)
  BY <1>7, WaitOnIs
<1>9. Becomes(n) /\ proc' = pr2
  BY <1>1, <1>2, <1>3 DEF pr2
<1>10. /\ IInv' /\ Base(Machine, proc)'
       /\ Quiet(n, pr2) /\ Counted(n, pr2) => CreditInv'
       /\ InputOrdered(n, pr2, typed') => OrderInv'
       /\ OutputFlows(n) => FlowInv'
  BY <1>8, <1>9, BecomesStep
<1>11. QED  BY <1>2, <1>8, <1>10 DEF SInv, CreditInv, OrderInv, FlowInv

-----------------------------------------------------------------------------
(***************************************************************************)
(* PortWriteHandler.                                                       *)
(***************************************************************************)
\* Where a process goes after a byte that it has written.
LEMMA AfterWrite ==
  ASSUME NEW t \in ProcType, InLine(t), t.pc = "WriteInt"
  PROVE  LET s == IF t.at + 1 = PROMPT THEN NextLine(t)
                  ELSE [t EXCEPT !.pc = "WriteWait", !.at = @ + 1]
         IN  /\ s \in ProcType /\ InLine(s) /\ s.my_port = t.my_port /\ s.ch = t.ch
             /\ s.pc \in {"WriteWait", "ReadWait"}
<1>1. CASE t.at + 1 = PROMPT
  BY <1>1, NextLineIs
<1>2. CASE t.at + 1 # PROMPT
  <2> DEFINE at == t.at + 1
             t2 == [t EXCEPT !.pc = "WriteWait"]
             s == [t2 EXCEPT !.at = at]
  <2>1. at \in 0 .. PROMPT + BUFF_SIZE /\ at < PROMPT
    <3>1. t.at \in Nat /\ t.at < PROMPT
      BY ProcFields DEF InLine
    <3>2. QED  BY <1>2, <3>1, Constants
  <2>2. t2.at = t.at
    BY DEF ProcType
  <2> HIDE DEF at
  <2>3. t2 = [pc |-> "WriteWait", my_port |-> t.my_port, eax |-> t.eax, line |-> t.line, at |-> t.at,
              ch |-> t.ch]
    BY DEF ProcType
  <2> HIDE DEF t2
  <2>4. s = [pc |-> "WriteWait", my_port |-> t.my_port, eax |-> t.eax, line |-> t.line, at |-> at,
             ch |-> t.ch]
    BY <2>3
  <2> HIDE DEF s
  <2>5. s \in ProcType
    BY <2>1, <2>4 DEF ProcType
  <2>6. s.pc = "WriteWait" /\ s.at = at /\ s.my_port = t.my_port /\ s.ch = t.ch
    BY <2>4
  <2>7. InLine(s)
    BY <2>1, <2>6 DEF InLine
  <2>8. s = [t EXCEPT !.pc = "WriteWait", !.at = @ + 1]
    BY <2>2 DEF s, t2, at
  <2>9. QED  BY <1>2, <2>5, <2>6, <2>7, <2>8
<1>3. QED  BY <1>1, <1>2

\* The process pid has its pass, and leaves d in its port on its way to the next byte or line.
ByteChange(m, pr, pid, d, s, n, pr2) ==
  /\ Base(m, pr) /\ Runs(m.k) /\ m.k.current_pid = pid
  /\ pr[pid].pc \in {"WriteInt", "ReadInt"} /\ s.pc \in {"WriteWait", "ReadWait"}
  /\ s.my_port = pr[pid].my_port /\ InLine(s)
  /\ LET e == m.port[pr[pid].my_port] IN
       SameEnds(e, d) /\ Len(d.write_q) <= QUEUE_SIZE /\ Len(d.loopback_q) <= QUEUE_SIZE
  /\ n = MachineOf(m.k, [m.port EXCEPT ![pr[pid].my_port] = d], m.uart)
  /\ pr2 = [pr EXCEPT ![pid] = s]

\* What it finds and what it keeps.
ByteKept(m, pr, pid, d, s, n, pr2) ==
  LET p == pr[pid].my_port
      e == m.port[p]
      Has(pc) == IF pr[pid].pc = pc THEN 1 ELSE 0
  IN
  /\ Base(n, pr2) /\ Runs(n.k)
  /\ Quiet(m, pr) => Quiet(n, pr2)
  /\ Counted(m, pr) =>
       /\ Len(e.write_q) <= QUEUE_SIZE - Has("WriteInt")
       /\ e.read_q.size >= Has("ReadInt")
       /\ /\ Len(d.write_q) = Len(e.write_q) + Has("WriteInt")
          /\ d.read_q.size = e.read_q.size - Has("ReadInt")
          => Counted(n, pr2)
  /\ \A i : InputOrdered(m, pr, i) /\ Ordered(s.ch, d.read_q, m.uart[p].rbr, i)
              => InputOrdered(n, pr2, i)
  /\ OutputFlows(m) /\ Flows(d, m.uart[p]) => OutputFlows(n)

LEMMA ByteStep ==
  ASSUME NEW m, NEW pr, NEW pid \in TermPids, NEW d \in PortType, NEW s \in ProcType, NEW n, NEW pr2,
         ByteChange(m, pr, pid, d, s, n, pr2)
  PROVE  ByteKept(m, pr, pid, d, s, n, pr2)
<1> DEFINE t == pr[pid]
           p == t.my_port
           e == m.port[p]
           Has(pc) == IF t.pc = pc THEN 1 ELSE 0
<1>1. /\ Base(m, pr) /\ Runs(m.k) /\ m.k.current_pid = pid
      /\ t.pc \in {"WriteInt", "ReadInt"} /\ s.pc \in {"WriteWait", "ReadWait"}
      /\ s.my_port = p /\ InLine(s)
      /\ SameEnds(e, d) /\ Len(d.write_q) <= QUEUE_SIZE /\ Len(d.loopback_q) <= QUEUE_SIZE
      /\ n = MachineOf(m.k, [m.port EXCEPT ![p] = d], m.uart)
      /\ pr2 = [pr EXCEPT ![pid] = s]
  BY DEF ByteChange
<1>2. /\ m \in MachineType /\ Good(m.k) /\ pr \in [TermPids -> ProcType]
      /\ m.port \in [Ports -> PortType] /\ m.uart \in [Ports -> UartType]
      /\ m.k.sem \in [Sids -> SemType]
      /\ \A x \in Sids : pid \notin Waiters(m.k, x)
  BY <1>1, MachineFields, MemoryFields, RunningPid DEF Base, Processes, Runs
<1>3. /\ t \in ProcType /\ p \in Ports /\ e.owner = pid /\ e.write_ok = 1
  <2>1. t \in ProcType /\ p \in Ports /\ e.owner = pid /\ pid # 0
    BY <1>1, Belongings, Constants
  <2>2. QED  BY <1>1, <2>1, OwnedPort
<1>4. d.owner = pid /\ d.write_ok = 1 /\ d.write_sid = e.write_sid /\ d.read_sid = e.read_sid
  BY <1>1, <1>3 DEF SameEnds
<1>5. n.k = m.k /\ n.port[p] = d /\ n.uart = m.uart
  BY <1>1, <1>2, <1>3 DEF MachineOf
<1>6. HasWriteSid(t) /\ HasReadSid(t) /\ HasWriteSid(s) /\ HasReadSid(s)
  BY <1>1 DEF HasWriteSid, HasReadSid
<1>7. /\ WriteSid(m, t) = e.write_sid /\ ReadSid(m, t) = e.read_sid
      /\ WriteSid(n, s) = d.write_sid /\ ReadSid(n, s) = d.read_sid
  BY <1>1, <1>5 DEF WriteSid, ReadSid
<1>8. KeepsSids(m, t, n, s)
  BY <1>1, <1>4, <1>6, <1>7 DEF KeepsSids
<1>9. OwnChange(m, pr, pid, d, s, n, pr2)
  BY <1>1, <1>2, <1>4, <1>8 DEF OwnChange
<1>10. s.pc \in Working /\ t.pc # s.pc
  BY <1>1 DEF Working
<1> HIDE DEF t, e
<1>11. /\ Base(n, pr2)
       /\ Quiet(m, pr) => Quiet(n, pr2)
       /\ Counted(m, pr) =>
            \A other \in TermPids : other # pid =>
              /\ HasWriteSid(pr2[other]) => WriteCounted(n, pr2, other)
              /\ HasReadSid(pr2[other]) => ReadCounted(n, pr2, other)
       /\ \A i : InputOrdered(m, pr, i) /\ Ordered(s.ch, d.read_q, m.uart[p].rbr, i)
                   => InputOrdered(n, pr2, i)
       /\ OutputFlows(m) /\ Flows(d, m.uart[p]) => OutputFlows(n)
  BY <1>9, <1>10, OwnStep DEF t
<1>12. pr2[pid] = s
  BY <1>1, <1>2
<1> DEFINE w == WriteSid(m, t)
           r == ReadSid(m, t)
<1>13. ASSUME Counted(m, pr)
       PROVE  /\ Len(e.write_q) <= QUEUE_SIZE - Has("WriteInt")
              /\ e.read_q.size >= Has("ReadInt")
              /\ /\ Len(d.write_q) = Len(e.write_q) + Has("WriteInt")
                 /\ d.read_q.size = e.read_q.size - Has("ReadInt")
                 => Counted(n, pr2)
  <2>1. WriteCounted(m, pr, pid) /\ ReadCounted(m, pr, pid)
    BY <1>6, <1>13 DEF Counted, t
  <2>2. w \in Sids /\ r \in Sids
    BY <1>1, Belongings DEF t
  <2>3. /\ Pass(m, pr, pid, "WriteInt", w) = Has("WriteInt")
        /\ Pass(m, pr, pid, "ReadInt", r) = Has("ReadInt")
        /\ Pass(n, pr2, pid, "WriteInt", w) = 0 /\ Pass(n, pr2, pid, "ReadInt", r) = 0
    BY <1>1, <1>2, <1>12, <2>2 DEF Pass, t
  <2> DEFINE a == m.k.sem[w].passes
             b == m.k.sem[r].passes
  <2>4. a + Len(e.write_q) + Has("WriteInt") = QUEUE_SIZE /\ b + Has("ReadInt") = e.read_q.size
    BY <2>1, <2>3 DEF WriteCounted, ReadCounted, t, e
  <2>5. /\ a \in Nat /\ b \in Nat /\ Len(e.write_q) \in Nat /\ e.read_q.size \in Nat
        /\ Has("WriteInt") \in Nat /\ Has("ReadInt") \in Nat
    <3>1. e \in PortType
      BY <1>2, <1>3 DEF e
    <3>2. e.write_q \in Seq({PromptByte}) /\ e.read_q.size \in Nat
      BY <3>1, PortFields, RingFields
    <3>3. QED  BY <1>2, <2>2, <3>2, LenProperties DEF SemType
  <2> DEFINE le == Len(e.write_q)
             hw == Has("WriteInt")
             hr == Has("ReadInt")
             sz == e.read_q.size
  <2>6. le <= QUEUE_SIZE - hw /\ sz >= hr /\ a + (le + hw) + 0 = QUEUE_SIZE /\ b + 0 = sz - hr
    <3> HIDE DEF a, b, le, hw, hr, sz, w, r, Has
    <3>1. a + le + hw = QUEUE_SIZE /\ b + hr = sz
      BY <2>4 DEF le, hw, hr, sz
    <3>2. a \in Nat /\ b \in Nat /\ le \in Nat /\ sz \in Nat /\ hw \in Nat /\ hr \in Nat
      BY <2>5 DEF le, hw, hr, sz
    <3>3. QED  BY <3>1, <3>2, Constants
  <2>7. ASSUME Len(d.write_q) = Len(e.write_q) + Has("WriteInt"),
               d.read_q.size = e.read_q.size - Has("ReadInt")
        PROVE  Counted(n, pr2)
    <3>1. WriteSid(n, pr2[pid]) = w /\ ReadSid(n, pr2[pid]) = r /\ pr2[pid].my_port = p
      BY <1>1, <1>4, <1>7, <1>12
    <3> HIDE DEF w, r, p, Has
    <3>2. WriteCounted(n, pr2, pid)
      BY <1>5, <2>3, <2>6, <2>7, <3>1 DEF WriteCounted
    <3>3. ReadCounted(n, pr2, pid)
      BY <1>5, <2>3, <2>6, <2>7, <3>1 DEF ReadCounted
    <3>4. QED  BY <1>11, <1>13, <3>2, <3>3 DEF Counted
  <2>8. QED  BY <2>6, <2>7
<1>14. Runs(n.k)
  BY <1>1, <1>5
<1>15. QED  BY <1>11, <1>13, <1>14 DEF t, e, ByteKept

LEMMA WriteIntStep ==
  ASSUME SInv, NEW pid \in TermPids,
         Calls(pid, "WriteInt",
               IF proc[pid].at + 1 = PROMPT THEN NextLine(proc[pid])
               ELSE [proc[pid] EXCEPT !.pc = "WriteWait", !.at = @ + 1],
               PortWriteHandler(Machine, PromptByte, proc[pid].my_port))
  PROVE  /\ SInv'
         /\ CreditInv => CreditInv'
         /\ CreditInv /\ OrderInv => OrderInv'
         /\ FlowInv => FlowInv'
<1> DEFINE s == IF proc[pid].at + 1 = PROMPT THEN NextLine(proc[pid])
                ELSE [proc[pid] EXCEPT !.pc = "WriteWait", !.at = @ + 1]
           h == PortWriteHandler(Machine, PromptByte, proc[pid].my_port)
<1>1. Goes(pid, "WriteInt", s) /\ Becomes(h)
  BY DEF Calls
<1>2. PICK m, pr, t :
        /\ m = Machine /\ pr = proc /\ t = pr[pid]
        /\ Base(m, pr) /\ Runs(m.k) /\ m.k.current_pid = pid
        /\ m.port \in [Ports -> PortType] /\ m.uart \in [Ports -> UartType]
        /\ t.pc = "WriteInt" /\ t \in ProcType /\ InLine(t) /\ t.my_port \in Ports
        /\ proc' = [pr EXCEPT ![pid] = s]
        /\ typed' = typed
        /\ t.pc # "PortAlloc" =>
             /\ m.port[t.my_port].owner = pid /\ m.port[t.my_port].write_ok = 1
             /\ m.port[t.my_port] \in PortType /\ m.uart[t.my_port] \in UartType
             /\ Len(m.port[t.my_port].write_q) <= QUEUE_SIZE
             /\ Len(m.port[t.my_port].loopback_q) <= QUEUE_SIZE
  <2> HIDE DEF s
  <2> QED  BY <1>1, Goer
<1> DEFINE p == t.my_port
           e == m.port[p]
           pr2 == [pr EXCEPT ![pid] = s]
<1>3. /\ s \in ProcType /\ InLine(s) /\ s.my_port = p /\ s.ch = t.ch
      /\ s.pc \in {"WriteWait", "ReadWait"}
  BY <1>2, AfterWrite
<1>4. /\ p \in Ports /\ e.owner = pid /\ e.write_ok = 1 /\ e \in PortType /\ m.uart[p] \in UartType
      /\ Len(e.write_q) <= QUEUE_SIZE /\ Len(e.loopback_q) <= QUEUE_SIZE /\ pid # 0
      /\ e.write_q \in Seq({PromptByte}) /\ p = pr[pid].my_port
      /\ m = MachineOf(m.k, m.port, m.uart)
  <2>1. m = MachineOf(m.k, m.port, m.uart)
    BY <1>2, MachineFields DEF Base
  <2>2. QED  BY <1>2, <2>1, Constants, PortFields
<1>5. h = PortWriteHandler(m, PromptByte, p)
  BY <1>2
<1>6. pr2 = [pr EXCEPT ![pid] = s] /\ proc' = pr2 /\ pr[pid].pc = "WriteInt" /\ pr[pid] = t
  BY <1>2
<1> HIDE DEF s, h, pr2, p, e
<1>7. ASSUME NEW d \in PortType, d.read_q = e.read_q, d.loopback_q = e.loopback_q, SameEnds(e, d),
             Len(d.write_q) <= QUEUE_SIZE,
             NEW n, n = MachineOf(m.k, [m.port EXCEPT ![p] = d], m.uart)
      PROVE  /\ Base(n, pr2) /\ Runs(n.k)
             /\ Quiet(m, pr) => Quiet(n, pr2)
             /\ Counted(m, pr) => /\ Len(e.write_q) < QUEUE_SIZE
                                  /\ Len(d.write_q) = Len(e.write_q) + 1 => Counted(n, pr2)
             /\ \A i : InputOrdered(m, pr, i) => InputOrdered(n, pr2, i)
             /\ OutputFlows(m) /\ Flows(d, m.uart[p]) => OutputFlows(n)
  <2>1. ByteChange(m, pr, pid, d, s, n, pr2)
    BY <1>2, <1>3, <1>4, <1>6, <1>7 DEF ByteChange, e
  <2>2. /\ Base(n, pr2) /\ Runs(n.k)
        /\ Quiet(m, pr) => Quiet(n, pr2)
        /\ Counted(m, pr) =>
             /\ Len(e.write_q) <= QUEUE_SIZE - 1
             /\ e.read_q.size >= 0
             /\ /\ Len(d.write_q) = Len(e.write_q) + 1
                /\ d.read_q.size = e.read_q.size - 0
                => Counted(n, pr2)
        /\ \A i : InputOrdered(m, pr, i) /\ Ordered(s.ch, d.read_q, m.uart[p].rbr, i)
                    => InputOrdered(n, pr2, i)
        /\ OutputFlows(m) /\ Flows(d, m.uart[p]) => OutputFlows(n)
    <3>1. ByteKept(m, pr, pid, d, s, n, pr2)
      BY <1>3, <1>7, <2>1, ByteStep
    <3>2. /\ m.port[pr[pid].my_port] = e /\ pr[pid].my_port = p
          /\ (IF pr[pid].pc = "WriteInt" THEN 1 ELSE 0) = 1
          /\ (IF pr[pid].pc = "ReadInt" THEN 1 ELSE 0) = 0
      BY <1>4, <1>6 DEF e
    <3>3. QED  BY <3>1, <3>2 DEF ByteKept
  <2>3. \A i : InputOrdered(m, pr, i) => Ordered(s.ch, d.read_q, m.uart[p].rbr, i)
    BY <1>3, <1>4, <1>6, <1>7 DEF InputOrdered, e
  <2>4. e.read_q.size - 0 = e.read_q.size
    BY <1>4, PortFields, RingFields
  <2>5. Len(e.write_q) \in Nat /\ (Len(e.write_q) <= QUEUE_SIZE - 1 => Len(e.write_q) < QUEUE_SIZE)
    BY <1>4, Constants, LenProperties
  <2>6. QED  BY <1>7, <2>2, <2>3, <2>4, <2>5
<1>8. CASE Len(e.write_q) = QUEUE_SIZE
  <2>1. h = m
    BY <1>5, <1>8 DEF PortWriteHandler, e
  <2>2. m = MachineOf(m.k, [m.port EXCEPT ![p] = e], m.uart)
    BY <1>2, <1>4 DEF e
  <2>3. SameEnds(e, e)
    BY DEF SameEnds
  <2>4. /\ Base(m, pr2) /\ Runs(m.k)
        /\ Quiet(m, pr) => Quiet(m, pr2)
        /\ Counted(m, pr) => Len(e.write_q) < QUEUE_SIZE
        /\ \A i : InputOrdered(m, pr, i) => InputOrdered(m, pr2, i)
    BY <1>4, <1>7, <2>2, <2>3
  <2>5. ~Counted(m, pr)
    BY <1>8, <2>4, Constants
  <2>6. Becomes(m) /\ InitRunnable(m.k) /\ proc' = pr2
    BY <1>1, <1>6, <2>1, <2>4 DEF Runs
  <2>7. /\ IInv' /\ Base(Machine, proc)'
        /\ InputOrdered(m, pr2, typed') => OrderInv'
        /\ OutputFlows(m) => FlowInv'
    BY <2>4, <2>6, BecomesStep
  <2>8. QED  BY <1>2, <2>4, <2>5, <2>7 DEF SInv, CreditInv, OrderInv, FlowInv
<1>9. CASE Len(e.write_q) # QUEUE_SIZE
  <2> DEFINE q == Append(e.write_q, PromptByte)
             d == [e EXCEPT !.write_q = q]
             n == MachineOf(m.k, [m.port EXCEPT ![p] = d], m.uart)
  <2>1. q \in Seq({PromptByte}) /\ Len(q) = Len(e.write_q) + 1 /\ Len(q) <= QUEUE_SIZE
    <3>1. q \in Seq({PromptByte}) /\ Len(q) = Len(e.write_q) + 1
      BY <1>4, AppendProperties
    <3>2. QED  BY <1>4, <1>9, <3>1, LenProperties, Constants
  <2>2. Enqueue(e.write_q, PromptByte) = q
    BY <1>9 DEF Enqueue
  <2> HIDE DEF q
  <2>3. /\ d \in PortType /\ d.write_q = q /\ d.read_q = e.read_q /\ d.loopback_q = e.loopback_q
        /\ d.write_ok = 1 /\ d.owner = pid /\ SameEnds(e, d)
    BY <1>4, <2>1, SetPort DEF PortType, SameEnds
  <2>4. [m EXCEPT !.port[p].write_q = Enqueue(@, PromptByte)] = n
    <3>1. \A x : [m EXCEPT !.port = x] = MachineOf(m.k, x, m.uart)
      BY <1>4 DEF MachineOf
    <3>2. [m EXCEPT !.port = [m.port EXCEPT ![p] = d]] = n
      BY <3>1
    <3>3. QED  BY <2>2, <3>2 DEF e
  <2>5. n.port[p] = d /\ n.uart = m.uart /\ \A x \in Ports : x # p => n.port[x] = m.port[x]
    BY <1>2, <1>4 DEF MachineOf
  <2> HIDE DEF d
  <2>6. h = PortWriteOne(n, p)
    <3>1. n.port[p].write_ok # 0
      BY <2>3, <2>5
    <3> HIDE DEF n
    <3>2. QED  BY <1>5, <1>9, <2>4, <3>1 DEF PortWriteHandler, e
  <2> DEFINE x == n
  <2>7. x = MachineOf(m.k, [m.port EXCEPT ![p] = d], m.uart)
    OBVIOUS
  <2> HIDE DEF n, x
  <2>8. /\ Base(x, pr2) /\ Runs(x.k)
        /\ Quiet(m, pr) => Quiet(x, pr2)
        /\ Counted(m, pr) => Counted(x, pr2)
        /\ \A i : InputOrdered(m, pr, i) => InputOrdered(x, pr2, i)
    BY <1>7, <2>1, <2>3, <2>7
  <2>9. /\ h = PortWriteOne(x, p) /\ x.port[p] = d /\ x.uart = m.uart
        /\ \A y \in Ports : y # p => x.port[y] = m.port[y]
    BY <2>5, <2>6 DEF x
  <2>10. x.port[p].owner # 0
    BY <1>4, <2>3, <2>9
  <2>11. Base(h, pr2) /\ Runs(h.k) /\ \A y \in Ports : SameEnds(x.port[y], h.port[y])
    BY <1>4, <2>8, <2>9, <2>10, WriteOneBase
  <2>12. ASSUME Quiet(m, pr), Counted(m, pr) PROVE Quiet(h, pr2) /\ Counted(h, pr2)
    BY <1>4, <2>8, <2>9, <2>10, <2>12, WriteOneCounted
  <2>13. /\ \A y \in Ports : y # p => SamePort(x, h, y)
         /\ SameInput(x, h, p) /\ Sending(h.port[p], h.uart[p])
         /\ h.uart[p].enabled = x.uart[p].enabled
         /\ x.uart[p].irq => h.uart[p].irq
         /\ x.port[p].loopback_q = <<>> /\ Len(x.port[p].write_q) = 1 =>
              h.port[p].write_q = <<>> /\ h.port[p].loopback_q = <<>>
    BY <1>4, <2>8, <2>9, <2>10, WriteOneEffect
  <2>14. ASSUME NEW i, InputOrdered(m, pr, i) PROVE InputOrdered(h, pr2, i)
    <3>1. InputOrdered(x, pr2, i)
      BY <2>8, <2>14
    <3>2. ASSUME NEW y \in Ports
          PROVE  /\ h.port[y].owner = x.port[y].owner /\ h.port[y].read_q = x.port[y].read_q
                 /\ h.uart[y].rbr = x.uart[y].rbr
      <4>1. CASE y = p
        BY <2>11, <2>13, <4>1 DEF SameInput, SameEnds
      <4>2. CASE y # p
        BY <2>13, <4>2 DEF SamePort
      <4>3. QED  BY <4>1, <4>2
    <3>3. QED  BY <3>1, <3>2 DEF InputOrdered
  <2>15. ASSUME OutputFlows(m) PROVE OutputFlows(h)
    <3> SUFFICES ASSUME NEW y \in Ports PROVE Flows(h.port[y], h.uart[y])
      BY DEF OutputFlows
    <3>1. Flows(m.port[y], m.uart[y])
      BY <2>15 DEF OutputFlows
    <3>2. CASE y # p
      BY <2>9, <2>13, <3>1, <3>2 DEF SamePort
    <3>3. CASE y = p
      <4>1. h.uart[p].enabled
        BY <1>4, <2>9, <2>13, <3>1, <3>3 DEF Flows, e
      <4>2. CASE e.write_q = <<>> /\ e.loopback_q = <<>>
        <5>1. Len(<<>>) = 0
          OBVIOUS
        <5>2. d.loopback_q = <<>> /\ Len(d.write_q) = 1
          BY <2>1, <2>3, <4>2, <5>1
        <5>3. QED  BY <2>9, <2>13, <3>3, <4>1, <5>2 DEF Flows
      <4>3. CASE ~(e.write_q = <<>> /\ e.loopback_q = <<>>)
        <5>1. m.uart[p].irq \/ m.uart[p].rbr = NONE
          BY <3>1, <3>3, <4>3 DEF Flows, e
        <5>2. h.uart[p].irq \/ h.uart[p].rbr = NONE
          BY <2>9, <2>13, <5>1 DEF SameInput
        <5>3. QED  BY <2>13, <3>3, <4>1, <5>2 DEF Flows, Sending
      <4>4. QED  BY <4>2, <4>3
    <3>4. QED  BY <3>2, <3>3
  <2>16. Becomes(h) /\ InitRunnable(h.k) /\ proc' = pr2
    BY <1>1, <1>6, <2>11 DEF Runs
  <2>17. /\ IInv' /\ Base(Machine, proc)'
         /\ Quiet(h, pr2) /\ Counted(h, pr2) => CreditInv'
         /\ InputOrdered(h, pr2, typed') => OrderInv'
         /\ OutputFlows(h) => FlowInv'
    BY <2>11, <2>16, BecomesStep
  <2>18. QED  BY <1>2, <2>12, <2>14, <2>15, <2>17 DEF SInv, CreditInv, OrderInv, FlowInv
<1>10. QED  BY <1>8, <1>9

-----------------------------------------------------------------------------
(***************************************************************************)
(* PortReadHandler.                                                        *)
(***************************************************************************)
\* Where a process goes with the byte that it has read.
AfterByte(t, byte, key) ==
  LET got == [t EXCEPT !.ch = byte]
  IN  IF key = "cr" \/ t.at + 1 = BUFF_SIZE - 1 THEN NextLine(got)
      ELSE [got EXCEPT !.pc = "ReadWait", !.at = @ + 1]

LEMMA AfterRead ==
  ASSUME NEW t \in ProcType, InLine(t), t.pc = "ReadInt", NEW byte \in {0} \cup Typed, NEW key
  PROVE  LET s == AfterByte(t, byte, key)
         IN  /\ s \in ProcType /\ InLine(s) /\ s.my_port = t.my_port /\ s.ch = byte
             /\ s.pc \in {"WriteWait", "ReadWait"}
<1> DEFINE got == [t EXCEPT !.ch = byte]
<1>1. got = [pc |-> t.pc, my_port |-> t.my_port, eax |-> t.eax, line |-> t.line, at |-> t.at,
             ch |-> byte]
  BY DEF ProcType
<1>2. got \in ProcType /\ got.my_port = t.my_port /\ got.ch = byte /\ got.at = t.at
  BY DEF ProcType
<1> HIDE DEF got
<1>3. CASE key = "cr" \/ t.at + 1 = BUFF_SIZE - 1
  BY <1>2, <1>3, NextLineIs DEF got, AfterByte
<1>4. CASE ~(key = "cr" \/ t.at + 1 = BUFF_SIZE - 1)
  <2> DEFINE at == t.at + 1
             t2 == [got EXCEPT !.pc = "ReadWait"]
             s == [t2 EXCEPT !.at = at]
  <2>1. at \in 0 .. PROMPT + BUFF_SIZE /\ at < BUFF_SIZE - 1
    <3>1. t.at \in Nat /\ t.at < BUFF_SIZE - 1
      BY ProcFields DEF InLine
    <3>2. QED  BY <1>4, <3>1, Constants
  <2> HIDE DEF at
  <2>2. t2 = [pc |-> "ReadWait", my_port |-> t.my_port, eax |-> t.eax, line |-> t.line, at |-> t.at,
              ch |-> byte]
    BY <1>1
  <2> HIDE DEF t2
  <2>3. s = [pc |-> "ReadWait", my_port |-> t.my_port, eax |-> t.eax, line |-> t.line, at |-> at,
             ch |-> byte]
    BY <2>2
  <2> HIDE DEF s
  <2>4. s \in ProcType
    BY <2>1, <2>3 DEF ProcType
  <2>5. s.pc = "ReadWait" /\ s.at = at /\ s.my_port = t.my_port /\ s.ch = byte
    BY <2>3
  <2>6. InLine(s)
    BY <2>1, <2>5 DEF InLine
  <2>7. t2.at = t.at
    BY <2>2
  <2>8. s = [got EXCEPT !.pc = "ReadWait", !.at = @ + 1]
    BY <1>2, <2>7 DEF s, t2, at
  <2>9. QED  BY <1>4, <2>4, <2>5, <2>6, <2>8 DEF got, AfterByte
<1>5. QED  BY <1>3, <1>4

LEMMA ReadIntStep ==
  ASSUME SInv, NEW pid \in TermPids, NEW key, NEW got,
         got = [proc[pid] EXCEPT !.ch = ByteRead(pid)],
         Calls(pid, "ReadInt",
               IF key = "cr" \/ proc[pid].at + 1 = BUFF_SIZE - 1 THEN NextLine(got)
               ELSE [got EXCEPT !.pc = "ReadWait", !.at = @ + 1],
               PortReadHandler(Machine, proc[pid].my_port))
  PROVE  /\ SInv'
         /\ CreditInv => CreditInv'
         /\ CreditInv /\ OrderInv => OrderInv'
         /\ FlowInv => FlowInv'
<1> DEFINE s == IF key = "cr" \/ proc[pid].at + 1 = BUFF_SIZE - 1 THEN NextLine(got)
                ELSE [got EXCEPT !.pc = "ReadWait", !.at = @ + 1]
           h == PortReadHandler(Machine, proc[pid].my_port)
           byte == ByteRead(pid)
<1>1. Goes(pid, "ReadInt", s) /\ Becomes(h)
  BY DEF Calls
<1>2. PICK m, pr, t :
        /\ m = Machine /\ pr = proc /\ t = pr[pid]
        /\ Base(m, pr) /\ Runs(m.k) /\ m.port = port /\ m.k.current_pid = pid
        /\ m.port \in [Ports -> PortType] /\ m.uart \in [Ports -> UartType]
        /\ t.pc = "ReadInt" /\ t \in ProcType /\ InLine(t) /\ t.my_port \in Ports
        /\ proc' = [pr EXCEPT ![pid] = s]
        /\ typed' = typed
        /\ t.pc # "PortAlloc" =>
             /\ m.port[t.my_port].owner = pid /\ m.port[t.my_port].write_ok = 1
             /\ m.port[t.my_port] \in PortType /\ m.uart[t.my_port] \in UartType
             /\ Len(m.port[t.my_port].write_q) <= QUEUE_SIZE
             /\ Len(m.port[t.my_port].loopback_q) <= QUEUE_SIZE
  <2> HIDE DEF s
  <2> QED  BY <1>1, Goer
<1> DEFINE p == t.my_port
           e == m.port[p]
           pr2 == [pr EXCEPT ![pid] = s]
<1>3. /\ p \in Ports /\ e.owner = pid /\ e.write_ok = 1 /\ e \in PortType /\ m.uart[p] \in UartType
      /\ Len(e.write_q) <= QUEUE_SIZE /\ Len(e.loopback_q) <= QUEUE_SIZE /\ pid # 0
      /\ e.read_q \in RingType /\ e.read_q.size \in Nat /\ p = pr[pid].my_port
      /\ m = MachineOf(m.k, m.port, m.uart) /\ typed \in Nat /\ t.ch \in {0} \cup Typed
      /\ t.ch \in Nat
  <2>1. m = MachineOf(m.k, m.port, m.uart)
    BY <1>2, MachineFields DEF Base
  <2>2. e \in PortType /\ e.read_q \in RingType
    BY <1>2, PortFields
  <2>3. e.read_q.size \in Nat
    BY <2>2, RingFields
  <2>4. typed \in Nat
    BY Constants DEF SInv
  <2>5. QED  BY <1>2, <2>1, <2>2, <2>3, <2>4, Constants, ProcFields
<1>4. /\ h = IF e.read_q.size = 0 THEN m ELSE [m EXCEPT !.port[p].read_q = Ring!queue_out(e.read_q)]
      /\ byte = IF e.read_q.size = 0 THEN t.ch ELSE Ring!queue_front(e.read_q)
  BY <1>2 DEF PortReadHandler, ByteRead, Ring!queue_is_empty
<1>5. byte \in {0} \cup Typed
  BY <1>3, <1>4, QueueOutIs
<1>6. got = [t EXCEPT !.ch = byte] /\ t.at = proc[pid].at
  BY <1>2
<1> HIDE DEF byte
<1>7. /\ s \in ProcType /\ InLine(s) /\ s.my_port = p /\ s.ch = byte
      /\ s.pc \in {"WriteWait", "ReadWait"}
  <2>1. s = AfterByte(t, byte, key)
    BY <1>6 DEF AfterByte
  <2> HIDE DEF s
  <2>2. QED  BY <1>2, <1>5, <2>1, AfterRead
<1>8. pr2 = [pr EXCEPT ![pid] = s] /\ proc' = pr2 /\ pr[pid].pc = "ReadInt" /\ pr[pid] = t
  BY <1>2
<1> HIDE DEF s, h, pr2, p, e
<1>9. ASSUME NEW d \in PortType, d.write_q = e.write_q, d.loopback_q = e.loopback_q, SameEnds(e, d),
             NEW n, n = MachineOf(m.k, [m.port EXCEPT ![p] = d], m.uart)
      PROVE  /\ Base(n, pr2) /\ Runs(n.k)
             /\ Quiet(m, pr) => Quiet(n, pr2)
             /\ Counted(m, pr) => /\ e.read_q.size >= 1
                                  /\ d.read_q.size = e.read_q.size - 1 => Counted(n, pr2)
             /\ \A i : InputOrdered(m, pr, i) /\ Ordered(byte, d.read_q, m.uart[p].rbr, i)
                         => InputOrdered(n, pr2, i)
             /\ OutputFlows(m) => OutputFlows(n)
  <2>1. ByteChange(m, pr, pid, d, s, n, pr2)
    BY <1>2, <1>3, <1>7, <1>8, <1>9 DEF ByteChange, e
  <2>2. ByteKept(m, pr, pid, d, s, n, pr2)
    BY <1>7, <1>9, <2>1, ByteStep
  <2>3. /\ m.port[pr[pid].my_port] = e /\ pr[pid].my_port = p
        /\ (IF pr[pid].pc = "WriteInt" THEN 1 ELSE 0) = 0
        /\ (IF pr[pid].pc = "ReadInt" THEN 1 ELSE 0) = 1
    BY <1>3, <1>8 DEF e
  <2>4. Len(e.write_q) + 0 = Len(e.write_q)
    BY <1>3, PortFields, LenProperties
  <2>5. OutputFlows(m) => Flows(d, m.uart[p])
    BY <1>3, <1>9 DEF OutputFlows, Flows, SameEnds, e
  <2>6. QED  BY <1>7, <1>9, <2>2, <2>3, <2>4, <2>5 DEF ByteKept
<1>10. CASE e.read_q.size = 0
  <2>1. h = m
    BY <1>4, <1>10
  <2>2. m = MachineOf(m.k, [m.port EXCEPT ![p] = e], m.uart)
    BY <1>2, <1>3 DEF e
  <2>3. SameEnds(e, e)
    BY DEF SameEnds
  <2>4. /\ Base(m, pr2) /\ Runs(m.k)
        /\ Counted(m, pr) => e.read_q.size >= 1
        /\ OutputFlows(m) => OutputFlows(m)
    BY <1>3, <1>9, <2>2, <2>3
  <2>5. ~Counted(m, pr)
    BY <1>10, <2>4
  <2>6. Becomes(m) /\ InitRunnable(m.k) /\ proc' = pr2
    BY <1>1, <1>8, <2>1, <2>4 DEF Runs
  <2>7. /\ IInv' /\ Base(Machine, proc)'
        /\ OutputFlows(m) => FlowInv'
    BY <2>4, <2>6, BecomesStep
  <2>8. QED  BY <1>2, <2>5, <2>7 DEF SInv, CreditInv, FlowInv
<1>11. CASE e.read_q.size # 0
  <2> DEFINE q == Ring!queue_out(e.read_q)
             d == [e EXCEPT !.read_q = q]
             n == MachineOf(m.k, [m.port EXCEPT ![p] = d], m.uart)
  <2>1. q \in RingType /\ q.size = e.read_q.size - 1 /\ byte = Ring!queue_front(e.read_q)
    BY <1>3, <1>4, <1>11, QueueOutIs
  <2> HIDE DEF q
  <2>2. /\ d \in PortType /\ d.write_q = e.write_q /\ d.read_q = q /\ d.loopback_q = e.loopback_q
        /\ SameEnds(e, d)
    BY <1>3, <2>1, SetPort DEF PortType, SameEnds
  <2>3. h = n
    <3>1. \A x : [m EXCEPT !.port = x] = MachineOf(m.k, x, m.uart)
      BY <1>3 DEF MachineOf
    <3>2. [m EXCEPT !.port = [m.port EXCEPT ![p] = d]] = n
      BY <3>1
    <3>3. h = [m EXCEPT !.port[p].read_q = q]
      BY <1>4, <1>11 DEF q
    <3>4. QED  BY <3>2, <3>3 DEF e
  <2> HIDE DEF d
  <2>4. n = MachineOf(m.k, [m.port EXCEPT ![p] = d], m.uart)
    OBVIOUS
  <2> HIDE DEF n
  <2>5. /\ Base(n, pr2) /\ Runs(n.k)
        /\ Quiet(m, pr) => Quiet(n, pr2)
        /\ Counted(m, pr) => Counted(n, pr2)
        /\ \A i : InputOrdered(m, pr, i) /\ Ordered(byte, q, m.uart[p].rbr, i)
                    => InputOrdered(n, pr2, i)
        /\ OutputFlows(m) => OutputFlows(n)
    BY <1>9, <2>1, <2>2, <2>4
  <2>6. InputOrdered(m, pr, typed) => InputOrdered(n, pr2, typed)
    <3> SUFFICES ASSUME InputOrdered(m, pr, typed) PROVE InputOrdered(n, pr2, typed)
      OBVIOUS
    <3>1. Ordered(t.ch, e.read_q, m.uart[p].rbr, typed)
      BY <1>3, <1>8 DEF InputOrdered, e
    <3>2. m.uart[p].rbr \in {NONE} \cup Typed
      BY <1>3 DEF UartType
    <3>3. Ordered(byte, q, m.uart[p].rbr, typed)
      BY <1>3, <1>11, <2>1, <3>1, <3>2, OrderedOut DEF q
    <3>4. QED  BY <2>5, <3>3
  <2>7. Becomes(n) /\ InitRunnable(n.k) /\ proc' = pr2
    BY <1>1, <1>8, <2>3, <2>5 DEF Runs
  <2>8. /\ IInv' /\ Base(Machine, proc)'
        /\ Quiet(n, pr2) /\ Counted(n, pr2) => CreditInv'
        /\ InputOrdered(n, pr2, typed') => OrderInv'
        /\ OutputFlows(n) => FlowInv'
    BY <2>5, <2>7, BecomesStep
  <2>9. QED  BY <1>2, <2>5, <2>6, <2>8 DEF SInv, CreditInv, OrderInv, FlowInv
<1>12. QED  BY <1>10, <1>11

-----------------------------------------------------------------------------
(***************************************************************************)
(* The invariants hold.                                                    *)
(***************************************************************************)
LEMMA InitialInv == SerialInit => SInv /\ CreditInv /\ OrderInv /\ FlowInv
<1> SUFFICES ASSUME SerialInit PROVE SInv /\ CreditInv /\ OrderInv /\ FlowInv
  OBVIOUS
<1>1. /\ Init /\ port = [p \in Ports |-> Unowned] /\ uart = [p \in Ports |-> Silent]
      /\ proc = [pid \in TermPids |-> [pc |-> "PortAlloc", my_port |-> 0, eax |-> 0,
                                       line |-> 1, at |-> 0, ch |-> 0]]
      /\ typed = 0
  BY DEF SerialInit
<1>2. IInv
  BY <1>1, InitIInv
<1>3. PICK m, pr : m = Machine /\ pr = proc
  OBVIOUS
<1>4. /\ m.k \in MemoryType /\ Good(m.k) /\ m.port = port /\ m.uart = uart
      /\ m = MachineOf(m.k, m.port, m.uart)
      /\ \A sid \in Sids : m.k.sem[sid].owner = 0 /\ m.k.sem[sid].wait_q = <<>>
  BY <1>1, <1>2, <1>3 DEF IInv, Good, Machine, MachineOf, Memory, Init
<1>5. /\ \A p \in Ports : m.port[p] = Unowned /\ m.uart[p] = Silent
      /\ \A pid \in TermPids : pr[pid].pc = "PortAlloc" /\ pr[pid].at = 0 /\ pr[pid].ch = 0
  BY <1>1, <1>3, <1>4
<1>6. /\ Unowned.owner = 0 /\ Unowned.write_q = <<>> /\ Unowned.loopback_q = <<>>
      /\ Unowned.read_q = Ring!queue_init /\ Silent.rbr = NONE /\ Len(<<>>) = 0
  BY DEF Unowned, Silent
<1>7. m \in MachineType
  BY <1>1, <1>4, UnownedTyped DEF MachineType, MachineOf
<1>8. Bounded(m)
  BY <1>5, <1>6, Constants DEF Bounded
<1>9. Processes(pr)
  <2>1. Len(Script) = 5
    BY DEF Script
  <2>2. 0 \in 0 .. PROMPT + BUFF_SIZE /\ 0 \in Ports /\ 0 \in Sids
    BY Constants
  <2>3. [pc |-> "PortAlloc", my_port |-> 0, eax |-> 0, line |-> 1, at |-> 0, ch |-> 0] \in ProcType
    BY <2>1, <2>2 DEF ProcType
  <2>4. pr \in [TermPids -> ProcType]
    BY <1>1, <1>3, <2>3
  <2>5. \A pid \in TermPids : InLine(pr[pid])
    BY <1>5 DEF InLine
  <2>6. QED  BY <2>4, <2>5 DEF Processes
<1>10. Owned(m, pr)
  BY <1>5 DEF Owned
<1>11. Sems(m, pr)
  BY <1>4, <1>5 DEF Sems, HasWriteSid, HasReadSid
<1>12. Waiting(m, pr)
  <2>1. \A sid \in Sids : Waiters(m.k, sid) = {}
    BY <1>4 DEF Waiters, Members
  <2>2. QED  BY <2>1 DEF Waiting
<1>13. Base(m, pr)
  BY <1>4, <1>7, <1>8, <1>9, <1>10, <1>11, <1>12 DEF Base
<1>14. Quiet(m, pr) /\ Counted(m, pr)
  BY <1>5, <1>6 DEF Quiet, Counted, HasWriteSid, HasReadSid
<1>15. InputOrdered(m, pr, typed) /\ OutputFlows(m)
  BY <1>5, <1>6 DEF InputOrdered, OutputFlows, Flows
<1>16. typed \in 0 .. MAX_TYPED
  BY <1>1, Constants
<1>17. QED  BY <1>2, <1>3, <1>13, <1>14, <1>15, <1>16 DEF SInv, CreditInv, OrderInv, FlowInv

LEMMA TermProcStep ==
  ASSUME SInv, NEW pid \in TermPids, TermProc(pid)
  PROVE  /\ SInv'
         /\ CreditInv => CreditInv'
         /\ CreditInv /\ OrderInv => OrderInv'
         /\ FlowInv => FlowInv'
<1> DEFINE Kept == /\ SInv'
                   /\ CreditInv => CreditInv'
                   /\ CreditInv /\ OrderInv => OrderInv'
                   /\ FlowInv => FlowInv'
<1>1. CASE Calls(pid, "PortAlloc",
                 [proc[pid] EXCEPT !.pc = "AllocWriteSem", !.my_port = FreePort(Machine)],
                 PortAllocHandler(Machine))
  BY <1>1, PortAllocStep
<1>2. CASE Calls(pid, "AllocWriteSem",
                 [proc[pid] EXCEPT !.pc = "StoreWriteSid", !.eax = SemAllocResult(Memory, QUEUE_SIZE)],
                 [Machine EXCEPT !.k = SemAllocHandler(@, QUEUE_SIZE)])
  BY <1>2, AllocSemStep
<1>3. CASE Stores(pid, "StoreWriteSid", [proc[pid] EXCEPT !.pc = "AllocReadSem"],
                  [port[proc[pid].my_port] EXCEPT !.write_sid = proc[pid].eax])
  BY <1>3, StoreWriteSidStep
<1>4. CASE Calls(pid, "AllocReadSem",
                 [proc[pid] EXCEPT !.pc = "StoreReadSid", !.eax = SemAllocResult(Memory, 0)],
                 [Machine EXCEPT !.k = SemAllocHandler(@, 0)])
  BY <1>4, AllocSemStep
<1>5. CASE Stores(pid, "StoreReadSid", [proc[pid] EXCEPT !.pc = "ResetReadQ"],
                  [port[proc[pid].my_port] EXCEPT !.read_sid = proc[pid].eax])
  BY <1>5, StoreReadSidStep
<1>6. CASE Stores(pid, "ResetReadQ", AtLine(proc[pid], 1),
                  [port[proc[pid].my_port] EXCEPT !.read_q.size = 0])
  BY <1>6, ResetReadQStep
<1>7. CASE WaitOn(pid, "WriteWait", "WriteInt", port[proc[pid].my_port].write_sid)
  BY <1>7, WaitOnStep
<1>8. CASE Calls(pid, "WriteInt",
                 IF proc[pid].at + 1 = PROMPT THEN NextLine(proc[pid])
                 ELSE [proc[pid] EXCEPT !.pc = "WriteWait", !.at = @ + 1],
                 PortWriteHandler(Machine, PromptByte, proc[pid].my_port))
  BY <1>8, WriteIntStep
<1>9. CASE WaitOn(pid, "ReadWait", "ReadInt", port[proc[pid].my_port].read_sid)
  BY <1>9, WaitOnStep
<1>10. ASSUME NEW garbage \in KINDS, NEW got, NEW key, got = [proc[pid] EXCEPT !.ch = ByteRead(pid)],
              Calls(pid, "ReadInt",
                    IF key = "cr" \/ proc[pid].at + 1 = BUFF_SIZE - 1 THEN NextLine(got)
                    ELSE [got EXCEPT !.pc = "ReadWait", !.at = @ + 1],
                    PortReadHandler(Machine, proc[pid].my_port))
       PROVE  Kept
  BY <1>10, ReadIntStep
<1>11. CASE PortAlloc(pid)
  BY <1>1, <1>2, <1>3, <1>4, <1>5, <1>6, <1>11 DEF PortAlloc
<1>12. CASE PortWrite(pid)
  BY <1>7, <1>8, <1>12 DEF PortWrite
<1>13. CASE PortRead(pid)
  BY <1>9, <1>10, <1>13 DEF PortRead
<1>14. QED  BY <1>11, <1>12, <1>13 DEF TermProc

LEMMA SerialStep ==
  ASSUME SInv, [SerialNext]_serialVars
  PROVE  /\ SInv'
         /\ TYPES_EARLY = FALSE /\ CreditInv => CreditInv'
         /\ CreditInv /\ OrderInv => OrderInv'
         /\ LATE_ARRIVALS = FALSE /\ FlowInv => FlowInv'
<1>1. CASE Boot \/ TimerEvent
  BY <1>1, BootStep
<1>2. ASSUME NEW p \in Ports, NEW late \in {NONE} \cup Typed, PortEvent(p, late)
      PROVE  SInv' /\ (CreditInv => CreditInv') /\ (OrderInv => OrderInv')
             /\ (LATE_ARRIVALS = FALSE /\ FlowInv => FlowInv')
  BY <1>2, PortEventStep
<1>3. ASSUME NEW p \in Ports, Type(p)
      PROVE  SInv' /\ (TYPES_EARLY = FALSE /\ CreditInv => CreditInv') /\ (OrderInv => OrderInv')
             /\ (FlowInv => FlowInv')
  BY <1>3, TypeStep
<1>4. ASSUME NEW p \in Ports, Transmit(p)
      PROVE  SInv' /\ (CreditInv => CreditInv') /\ (OrderInv => OrderInv') /\ (FlowInv => FlowInv')
  BY <1>4, TransmitStep
<1>5. ASSUME NEW pid \in TermPids, TermProc(pid)
      PROVE  SInv' /\ (CreditInv => CreditInv') /\ (CreditInv /\ OrderInv => OrderInv')
             /\ (FlowInv => FlowInv')
  BY <1>5, TermProcStep
<1>6. CASE UNCHANGED serialVars
  <2>1. UNCHANGED vars /\ UNCHANGED io
    BY <1>6 DEF serialVars
  <2>2. IInv' /\ sem' = sem
    BY <2>1 DEF SInv, IInv, Memory, vars
  <2>3. QED  BY <2>1, <2>2, KernelStep
<1>7. QED  BY <1>1, <1>2, <1>3, <1>4, <1>5, <1>6 DEF SerialNext

LEMMA SInvInvariant == SerialSpec => []SInv
<1>1. SerialInit => SInv
  BY InitialInv
<1>2. SInv /\ [SerialNext]_serialVars => SInv'
  BY SerialStep
<1>3. QED  BY <1>1, <1>2, PTL DEF SerialSpec

\* The variables keep their types, and the queues their bounds.
THEOREM SerialTypeCorrect == SerialSpec => []SerialTypeOK
<1>1. SInv => SerialTypeOK
  <2> SUFFICES ASSUME SInv PROVE SerialTypeOK
    OBVIOUS
  <2>1. /\ Machine \in MachineType /\ Bounded(Machine) /\ Processes(proc) /\ IInv
        /\ Machine.port = port /\ Machine.uart = uart /\ typed \in 0 .. MAX_TYPED
    BY DEF SInv, Base, Machine
  <2>2. TypeOK
    BY <2>1 DEF IInv, Good, MemoryType, Memory, TypeOK
  <2>3. QED  BY <2>1, <2>2, MachineFields DEF SerialTypeOK, Processes, Bounded
<1>2. QED  BY <1>1, SInvInvariant, PTL

\* Whoever waits at a pc waits for the semaphore of that pc.
LEMMA HoldsIsPass ==
  ASSUME SInv, NEW p \in Ports, SetUp(p)
  PROVE  LET pid == port[p].owner IN
         /\ pid \in TermPids /\ proc[pid].my_port = p
         /\ HasWriteSid(proc[pid]) /\ HasReadSid(proc[pid])
         /\ WriteSid(Machine, proc[pid]) = port[p].write_sid
         /\ ReadSid(Machine, proc[pid]) = port[p].read_sid
         /\ Holds(p, "WriteInt") = Pass(Machine, proc, pid, "WriteInt", port[p].write_sid)
         /\ Holds(p, "ReadInt")  = Pass(Machine, proc, pid, "ReadInt", port[p].read_sid)
<1> DEFINE pid == port[p].owner
           t == proc[pid]
<1>1. PICK m, pr : m = Machine /\ pr = proc
  OBVIOUS
<1>2. /\ Base(m, pr) /\ m.port = port /\ m.k = Memory /\ m.k.pcb = pcb
      /\ pid # 0 /\ t.pc \in {"WriteWait", "WriteInt", "ReadWait", "ReadInt"}
  BY <1>1 DEF SInv, Machine, Memory, SetUp
<1>3. pid \in TermPids /\ t.my_port = p /\ pid \in Pids
  BY <1>1, <1>2, OwnedPort, Constants
<1>4. HasWriteSid(t) /\ HasReadSid(t)
  BY <1>2 DEF HasWriteSid, HasReadSid
<1>5. WriteSid(m, t) = port[p].write_sid /\ ReadSid(m, t) = port[p].read_sid
  BY <1>2, <1>3 DEF WriteSid, ReadSid
<1>6. port[p].write_sid \in Sids /\ port[p].read_sid \in Sids
  BY <1>2, OwnedPort, PortFields
<1>7. pcb[pid].state = "WAIT" <=> \E sid \in Sids : pid \in Waiters(m.k, sid)
  BY <1>2, <1>3 DEF Base, Good, Placed
<1>8. \A sid \in Sids : pid \in Waiters(m.k, sid) =>
        \/ t.pc = "WriteInt" /\ sid = port[p].write_sid
        \/ t.pc = "ReadInt"  /\ sid = port[p].read_sid
  BY <1>1, <1>2, <1>5 DEF Base, Waiting
<1>9. /\ t.pc = "WriteInt" => (pcb[pid].state = "WAIT" <=> pid \in Waiters(m.k, port[p].write_sid))
      /\ t.pc = "ReadInt"  => (pcb[pid].state = "WAIT" <=> pid \in Waiters(m.k, port[p].read_sid))
  BY <1>6, <1>7, <1>8
<1>10. /\ Holds(p, "WriteInt") = Pass(m, pr, pid, "WriteInt", port[p].write_sid)
       /\ Holds(p, "ReadInt")  = Pass(m, pr, pid, "ReadInt", port[p].read_sid)
  BY <1>1, <1>9 DEF Holds, Pass
<1>11. QED  BY <1>1, <1>3, <1>4, <1>5, <1>10

LEMMA CreditInvariant ==
  ASSUME TYPES_EARLY = FALSE
  PROVE  SerialSpec => [](SInv /\ CreditInv /\ OrderInv)
<1>1. SerialInit => SInv /\ CreditInv /\ OrderInv
  BY InitialInv
<1>2. (SInv /\ CreditInv /\ OrderInv) /\ [SerialNext]_serialVars => (SInv /\ CreditInv /\ OrderInv)'
  BY SerialStep
<1>3. QED  BY <1>1, <1>2, PTL DEF SerialSpec

\* Passes of write_sid count free slots of write_q; PortWriteHandler never finds it full.
THEOREM WriteCreditKept ==
  ASSUME TYPES_EARLY = FALSE
  PROVE  SerialSpec => []WriteCredit
<1>1. SInv /\ CreditInv => WriteCredit
  <2> SUFFICES ASSUME SInv, CreditInv, NEW p \in Ports, SetUp(p)
               PROVE  sem[port[p].write_sid].passes + Len(port[p].write_q) + Holds(p, "WriteInt")
                        = QUEUE_SIZE
    BY DEF WriteCredit
  <2> DEFINE pid == port[p].owner
  <2>1. pid \in TermPids /\ HasWriteSid(proc[pid])
    BY HoldsIsPass
  <2>2. WriteCounted(Machine, proc, pid)
    BY <2>1 DEF CreditInv, Counted
  <2>3. Machine.k.sem = sem /\ Machine.port = port
    BY DEF Machine, Memory
  <2>4. QED  BY <2>2, <2>3, HoldsIsPass DEF WriteCounted
<1>2. QED  BY <1>1, CreditInvariant, PTL

\* Passes of read_sid count the bytes of read_q; PortReadHandler never finds it empty.
THEOREM ReadCreditKept ==
  ASSUME TYPES_EARLY = FALSE
  PROVE  SerialSpec => []ReadCredit
<1>1. SInv /\ CreditInv => ReadCredit
  <2> SUFFICES ASSUME SInv, CreditInv, NEW p \in Ports, SetUp(p)
               PROVE  sem[port[p].read_sid].passes + Holds(p, "ReadInt") = port[p].read_q.size
    BY DEF ReadCredit
  <2> DEFINE pid == port[p].owner
  <2>1. pid \in TermPids /\ HasReadSid(proc[pid])
    BY HoldsIsPass
  <2>2. ReadCounted(Machine, proc, pid)
    BY <2>1 DEF CreditInv, Counted
  <2>3. Machine.k.sem = sem /\ Machine.port = port
    BY DEF Machine, Memory
  <2>4. QED  BY <2>2, <2>3, HoldsIsPass DEF ReadCounted
<1>2. QED  BY <1>1, CreditInvariant, PTL

\* Increasing numbers between a smaller one and, when there is one, a larger one.
LEMMA Increasing ==
  ASSUME NEW ch \in Nat, NEW c \in Seq(Nat), NEW rbr \in Nat,
         \A i, j \in 1 .. Len(c) : i < j => c[i] < c[j],
         \A i \in 1 .. Len(c) : ch < c[i] /\ (rbr # NONE => c[i] < rbr),
         rbr # NONE => ch < rbr
  PROVE  LET s == <<ch>> \o c \o (IF rbr = NONE THEN <<>> ELSE <<rbr>>)
         IN  \A i, j \in DOMAIN s : i < j => s[i] < s[j]
<1> DEFINE last == IF rbr = NONE THEN <<>> ELSE <<rbr>>
           first == <<ch>> \o c
           s == first \o last
<1>1. <<ch>> \in Seq(Nat) /\ Len(<<ch>>) = 1 /\ <<ch>>[1] = ch /\ Len(c) \in Nat
  BY LenProperties
<1>2. /\ last \in Seq(Nat) /\ (rbr = NONE => Len(last) = 0)
      /\ (rbr # NONE => Len(last) = 1 /\ last[1] = rbr)
  OBVIOUS
<1>3. /\ first \in Seq(Nat) /\ Len(first) = 1 + Len(c)
      /\ \A i \in 1 .. 1 + Len(c) : first[i] = IF i <= 1 THEN <<ch>>[i] ELSE c[i - 1]
  BY <1>1, ConcatProperties
<1> HIDE DEF first, last
<1>4. /\ s \in Seq(Nat) /\ Len(s) = Len(first) + Len(last)
      /\ \A i \in 1 .. Len(first) + Len(last) :
           s[i] = IF i <= Len(first) THEN first[i] ELSE last[i - Len(first)]
  BY <1>2, <1>3, ConcatProperties
<1>5. DOMAIN s = 1 .. Len(s)
  BY <1>4, LenProperties
<1> HIDE DEF s
<1>6. first[1] = ch /\ \A i \in 1 .. Len(c) : first[i + 1] = c[i]
  <2>1. first[1] = ch
    BY <1>1, <1>3
  <2>2. ASSUME NEW i \in 1 .. Len(c) PROVE first[i + 1] = c[i]
    <3>1. i + 1 \in 1 .. 1 + Len(c) /\ ~(i + 1 <= 1) /\ (i + 1) - 1 = i
      BY <1>1
    <3>2. first[i + 1] = c[(i + 1) - 1]
      BY <1>3, <3>1
    <3>3. QED  BY <3>1, <3>2
  <2>3. QED  BY <2>1, <2>2
<1>7. \A i, j \in 1 .. Len(first) : i < j => first[i] < first[j]
  <2> SUFFICES ASSUME NEW i \in 1 .. Len(first), NEW j \in 1 .. Len(first), i < j
               PROVE  first[i] < first[j]
    OBVIOUS
  <2>1. i \in Int /\ j \in Int /\ 1 <= i /\ i < j /\ j <= 1 + Len(c)
    BY <1>3
  <2>2. j - 1 \in 1 .. Len(c) /\ first[j] = c[j - 1]
    <3>1. j - 1 \in 1 .. Len(c) /\ (j - 1) + 1 = j
      BY <1>1, <2>1
    <3>2. first[(j - 1) + 1] = c[j - 1]
      BY <1>6, <3>1
    <3>3. QED  BY <3>1, <3>2
  <2>3. CASE i = 1
    BY <1>6, <2>2, <2>3
  <2>4. CASE i # 1
    <3>1. i - 1 \in 1 .. Len(c) /\ i - 1 < j - 1 /\ (i - 1) + 1 = i
      BY <1>1, <2>1, <2>4
    <3>2. first[(i - 1) + 1] = c[i - 1]
      BY <1>6, <3>1
    <3>3. QED  BY <2>2, <3>1, <3>2
  <2>5. QED  BY <2>3, <2>4
<1>8. CASE rbr = NONE
  <2>1. Len(first) + 0 = Len(first) /\ Len(first) \in Nat
    BY <1>3, LenProperties
  <2>2. Len(s) = Len(first) /\ \A i \in 1 .. Len(first) : s[i] = first[i]
    BY <1>2, <1>4, <1>8, <2>1
  <2>3. QED  BY <1>5, <1>7, <2>2 DEF s, first, last
<1>9. CASE rbr # NONE
  <2>1. Len(first) \in Nat /\ Len(first) = 1 + Len(c) /\ Len(s) = Len(first) + 1
    BY <1>2, <1>3, <1>4, <1>9, LenProperties
  <2>2. \A i \in 1 .. Len(first) : s[i] = first[i] /\ s[i] < rbr
    <3> SUFFICES ASSUME NEW i \in 1 .. Len(first) PROVE s[i] = first[i] /\ s[i] < rbr
      OBVIOUS
    <3>1. i \in 1 .. Len(first) + Len(last) /\ i <= Len(first)
      BY <1>2, <1>9, <2>1
    <3>2. s[i] = first[i]
      BY <1>4, <3>1
    <3>3. CASE i = 1
      BY <1>6, <1>9, <3>2, <3>3
    <3>4. CASE i # 1
      <4>1. i - 1 \in 1 .. Len(c) /\ (i - 1) + 1 = i
        BY <1>1, <2>1, <3>4
      <4>2. first[(i - 1) + 1] = c[i - 1]
        BY <1>6, <4>1
      <4>3. QED  BY <1>9, <3>2, <4>1, <4>2
    <3>5. QED  BY <3>3, <3>4
  <2>3. s[Len(first) + 1] = rbr
    <3>1. /\ Len(first) + 1 \in 1 .. Len(first) + Len(last)
          /\ ~(Len(first) + 1 <= Len(first)) /\ (Len(first) + 1) - Len(first) = 1
      <4>1. \A n \in Nat : n + 1 \in 1 .. n + 1 /\ ~(n + 1 <= n) /\ (n + 1) - n = 1
        OBVIOUS
      <4>2. Len(last) = 1
        BY <1>2, <1>9
      <4>3. QED  BY <2>1, <4>1, <4>2
    <3>2. s[Len(first) + 1] = last[(Len(first) + 1) - Len(first)]
      BY <1>4, <3>1
    <3>3. QED  BY <1>2, <1>9, <3>1, <3>2
  <2>4. ASSUME NEW i \in 1 .. Len(s), NEW j \in 1 .. Len(s), i < j PROVE s[i] < s[j]
    <3>1. i \in 1 .. Len(first) /\ (j \in 1 .. Len(first) \/ j = Len(first) + 1)
      BY <2>1, <2>4
    <3>2. CASE j \in 1 .. Len(first)
      BY <1>7, <2>2, <2>4, <3>1, <3>2
    <3>3. CASE j = Len(first) + 1
      BY <2>2, <2>3, <3>1, <3>3
    <3>4. QED  BY <3>1, <3>2, <3>3
  <2>5. QED  BY <1>5, <2>4 DEF s, first, last
<1>10. QED  BY <1>8, <1>9

\* TermProc gets what was typed in the order it was typed, and nothing twice.
THEOREM InputInOrder ==
  ASSUME TYPES_EARLY = FALSE
  PROVE  SerialSpec => []ReadInOrder
<1>1. SInv /\ OrderInv => ReadInOrder
  <2> SUFFICES ASSUME SInv, OrderInv, NEW p \in Ports, port[p].owner # 0
               PROVE  \A i, j \in DOMAIN Pipeline(p) : i < j => Pipeline(p)[i] < Pipeline(p)[j]
    BY DEF ReadInOrder
  <2> DEFINE ch == proc[port[p].owner].ch
             q == port[p].read_q
             rbr == uart[p].rbr
             c == Ring!Contents(q)
  <2>1. PICK m, pr : m = Machine /\ pr = proc
    OBVIOUS
  <2>2. Base(m, pr) /\ m.port = port /\ m.uart = uart /\ InputOrdered(m, pr, typed)
    BY <2>1 DEF SInv, OrderInv, Machine
  <2>3. /\ port[p] \in PortType /\ uart[p] \in UartType /\ port[p].owner \in TermPids
        /\ pr \in [TermPids -> ProcType]
    BY <2>2, OwnedPort DEF Base, Processes
  <2>4. q \in RingType /\ ch \in Nat
    BY <2>1, <2>3, PortFields, ProcFields
  <2>5. rbr \in {0} \cup Typed
    BY <2>3 DEF UartType, NONE
  <2>6. rbr \in Nat
    BY <2>5, BytesAreNumbers
  <2>7. Ordered(ch, q, rbr, typed)
    BY <2>1, <2>2 DEF InputOrdered
  <2> HIDE DEF ch, q, rbr
  <2>8. c \in Seq(Nat) /\ Len(c) = q.size
    <3>1. q.size \in Nat
      BY <2>4, RingFields
    <3>2. \A i \in 1 .. q.size : c[i] \in Nat
      BY <2>4, RingItems
    <3>3. c = [i \in 1 .. q.size |-> q.items[Ring!SlotOf(q, i)]]
      BY DEF Ring!Contents
    <3> HIDE DEF c
    <3>4. c \in [1 .. q.size -> Nat]
      BY <3>2, <3>3
    <3>5. QED  BY <3>1, <3>4
  <2>9. /\ \A i, j \in 1 .. q.size : i < j => c[i] < c[j]
        /\ \A i \in 1 .. q.size : ch < c[i] /\ (rbr # NONE => c[i] < rbr)
        /\ rbr # NONE => ch < rbr
    BY <2>7 DEF Ordered
  <2> HIDE DEF c
  <2> DEFINE s == <<ch>> \o c \o (IF rbr = NONE THEN <<>> ELSE <<rbr>>)
  <2>10. \A i, j \in DOMAIN s : i < j => s[i] < s[j]
    BY <2>4, <2>6, <2>8, <2>9, Increasing
  <2>11. Pipeline(p) = s
    BY DEF Pipeline, s, c, ch, q, rbr
  <2> HIDE DEF s
  <2>12. QED  BY <2>10, <2>11
<1>2. QED  BY <1>1, CreditInvariant, PTL

\* While there is something to send, a byte is on its way or an interrupt asks for the next.
THEOREM NothingStuck ==
  ASSUME LATE_ARRIVALS = FALSE
  PROVE  SerialSpec => []NoStuckOutput
<1>1. SerialInit => SInv /\ FlowInv
  BY InitialInv
<1>2. (SInv /\ FlowInv) /\ [SerialNext]_serialVars => (SInv /\ FlowInv)'
  BY SerialStep
<1>3. FlowInv => NoStuckOutput
  BY DEF FlowInv, OutputFlows, Flows, NoStuckOutput, Machine
<1>4. QED  BY <1>1, <1>2, <1>3, PTL DEF SerialSpec
=============================================================================
