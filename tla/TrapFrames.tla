------------------------------- MODULE TrapFrames -------------------------------
(***************************************************************************)
(* Interrupt entry and exit of the examples, word by word: the assembler   *)
(* paths that build and unwind a trapframe, the trapframe_t of the C code, *)
(* the first trapframe of a process, and the handlers that switch          *)
(* processes.  Handlers run with interrupts disabled, so an interrupt,     *)
(* its handler and the return from it are one step.                        *)
(*                                                                         *)
(* A word is <<what, number>>; an address is <<"at", n>>.  Memory is one   *)
(* array of words: a stack for each process, the stack of the user mode    *)
(* process, the kernel's stack, and the stack main() runs on.              *)
(***************************************************************************)
EXTENDS Integers, Sequences, SequencesExt

CONSTANTS
  Examples,  \* the examples to look at
  Tag,       \* numbers of the values a process computes
  LOCALS,    \* bound on the words a process keeps on its stack
  FAULTS     \* whether the processes of 6.MemPolicy cause page faults

ASSUME TrapFramesAssumption == Tag \subseteq 0 .. 9 /\ LOCALS \in Nat /\ FAULTS \in BOOLEAN

VARIABLES
  ex,      \* the example
  cpu,     \* registers and memory
  kernel,  \* active process, trapframe pointers, TSS stack, page tables
  printed  \* the last string a system call printed

vars == <<ex, cpu, kernel, printed>>

Switching == {"4.ContextSwitch", "4.KernelProcess", "6.MemPolicy", "7.Syscall",
              "8.UserProcess", "9.serialport"}
Returning == {"1.Divide-Zero-Interrupt", "2.Keyboard_Interrupt", "3.com2_interrupt",
              "5.PageFault", "A.ide", "TimerEvent"}

Proc == {0, 1}
Nobody == -1

SIZE == 28
Bottom(stack) == stack * SIZE
Top(stack) == (stack + 1) * SIZE
USER_STACK == 2
K_STACK == 3
MAIN_STACK == 4

Junk == <<"junk", 0>>
At(a) == <<"at", a>>
Seg(selector) == <<"seg", selector>>
K_DATA == Seg(16)

IsUser(p) == ex = "8.UserProcess" /\ p = 1
Ring(cs) == cs[2] % 4

General == <<"eax", "ecx", "edx", "ebx", "esp", "ebp", "esi", "edi">>
Segments == {"cs", "ds", "es", "fs", "gs", "ss"}
Registers == ToSet(General) \cup Segments \cup {"eip", "eflags", "cr3"}

------------------------------------------------------------------------------
(* The instructions that the paths are made of. *)

Sp(c) == c.reg.esp[2]
MoveSp(c, n) == [c EXCEPT !.reg.esp = At(Sp(c) + n)]
PushWord(c, w) == [MoveSp(c, -1) EXCEPT !.mem[Sp(c) - 1] = w]
PopTo(c, r) == MoveSp([c EXCEPT !.reg[r] = c.mem[Sp(c)]], 1)

pusha == <<"pusha", "">>
popa == <<"popa", "">>
push(r) == <<"push", r>>
pop(r) == <<"pop", r>>
pushl(n) == <<"pushl", n>>
addl(n) == <<"addl", n>>
call == <<"call", "">>
enter == <<"enter", "">>
load == <<"load", "">>
kstack == <<"kstack", "">>
mov(r) == <<"mov", r>>
segs(set) == <<"segs", set>>

\* A C function may leave anything in these.
Clobbered(c) == [c EXCEPT !.reg.eax = Junk, !.reg.ecx = Junk, !.reg.edx = Junk]

\* popa finds the general registers in the order opposite to pusha's, and drops esp.
PopaPlace == [r \in ToSet(General) |-> 8 - (CHOOSE k \in 1 .. 8 : General[k] = r)]

Exec(c, i) ==
  CASE i[1] = "push"   -> PushWord(c, c.reg[i[2]])
    [] i[1] = "pushl"  -> PushWord(c, <<"const", i[2]>>)
    [] i[1] = "pop"    -> PopTo(c, i[2])
    [] i[1] = "addl"   -> MoveSp(c, i[2])
    [] i[1] = "mov"    -> [c EXCEPT !.reg[i[2]] = c.reg.esp]
    [] i[1] = "segs"   -> [c EXCEPT !.reg = [r \in Registers |-> IF r \in i[2] THEN K_DATA ELSE c.reg[r]],
                                    !.reg.eax = Junk]
    [] i[1] = "kstack" -> [c EXCEPT !.reg.esp = At(Top(K_STACK))]
    [] i[1] = "load"   -> [c EXCEPT !.reg.esp = c.mem[Sp(c) + 1]]
    [] i[1] = "enter"  -> Clobbered(PushWord(c, Junk))
    [] i[1] = "call"   -> MoveSp(Clobbered(PushWord(c, Junk)), 1)
    [] i[1] = "pusha"  -> [MoveSp(c, -8) EXCEPT !.mem = [a \in DOMAIN c.mem |->
                             IF Sp(c) - a \in 1 .. 8 THEN c.reg[General[Sp(c) - a]] ELSE c.mem[a]]]
    [] i[1] = "popa"   -> [MoveSp(c, 8) EXCEPT !.reg = [r \in Registers |->
                             IF r \in ToSet(General) THEN c.mem[Sp(c) + PopaPlace[r]] ELSE c.reg[r]],
                             !.reg.esp = At(Sp(c) + 8)]

RECURSIVE Run(_, _)
Run(c, path) == IF path = <<>> THEN c ELSE Run(Exec(c, Head(path)), Tail(path))

\* The processor's part: a change of privilege changes to the stack of the TSS.
Hardware(c, esp0) ==
  LET user == Ring(c.reg.cs) = 3
      onto == IF user THEN [c EXCEPT !.reg.esp = esp0, !.reg.ss = Seg(24)] ELSE c
      from == IF user THEN PushWord(PushWord(onto, c.reg.ss), c.reg.esp) ELSE onto
  IN  [PushWord(PushWord(PushWord(from, c.reg.eflags), c.reg.cs), c.reg.eip)
         EXCEPT !.reg.cs = Seg(8)]

iret(c) ==
  LET back == PopTo(PopTo(PopTo(c, "eip"), "cs"), "eflags")
  IN  IF Ring(back.reg.cs) = 3
      THEN [back EXCEPT !.reg.esp = back.mem[Sp(back)], !.reg.ss = back.mem[Sp(back) + 1]]
      ELSE back

------------------------------------------------------------------------------
(* Handlers that return to where they were called from. *)

isr0 == <<pusha, call, popa>>
KeyboardEntry == <<pusha, call, popa>>
PortEntry == <<pusha, call, popa>>
TimerEntry == <<pusha, call, popa>>
isr_entry_ide == <<pusha, call, popa>>

SaveSegs == <<push("ds"), push("es"), push("fs"), push("gs")>>
RestoreSegs == <<pop("gs"), pop("fs"), pop("es"), pop("ds")>>

\* With the error code of the processor.
PageFaultEntry == <<pusha>> \o SaveSegs \o <<call>> \o RestoreSegs \o <<popa, addl(1)>>

\* 6.MemPolicy's, which takes two words more off the stack than it put there.
MemPolicy_PageFaultEntry ==
  <<pusha>> \o SaveSegs \o <<call, pop("eax"), pop("eax")>> \o RestoreSegs \o <<popa, addl(1)>>

Isr ==
  CASE ex = "1.Divide-Zero-Interrupt" -> isr0
    [] ex = "2.Keyboard_Interrupt"    -> KeyboardEntry
    [] ex = "3.com2_interrupt"        -> PortEntry
    [] ex = "5.PageFault"             -> PageFaultEntry
    [] ex = "6.MemPolicy"             -> MemPolicy_PageFaultEntry
    [] ex = "A.ide"                   -> isr_entry_ide
    [] ex = "TimerEvent"              -> TimerEntry

HasErrorCode == ex \in {"5.PageFault", "6.MemPolicy"}

------------------------------------------------------------------------------
(* Kernel entry, from the interrupt's number to the call of the C handler. *)

\* 6.MemPolicy's is the same.
ContextSwitch_enter(event) ==
  <<pushl(event), pusha, push("ss")>> \o SaveSegs
    \o <<mov("edx"), segs({"ds", "es"}), kstack, push("edx"), enter>>

KernelProcess_enter(event) ==
  <<pushl(0), pushl(event), pusha>> \o SaveSegs
    \o <<mov("ebx"), segs({"ds", "es", "fs", "gs"}), kstack, push("ebx"), enter>>

Syscall_enter(event) ==
  <<pushl(event), pusha>> \o SaveSegs
    \o <<mov("ebx"), segs({"ds", "es", "fs", "gs"}), push("ebx"), enter>>

UserProcess_enter(event) ==
  <<pushl(0), pushl(event), pusha>> \o SaveSegs
    \o <<mov("ebx"), segs({"ds", "es", "fs", "gs"}), push("ebx"), enter>>

SerialPort_enter(event) ==
  <<pushl(event), pusha>> \o SaveSegs
    \o <<mov("ecx"), segs({"ds", "es"}), kstack, push("ecx"), enter>>

Enter(event) ==
  CASE ex \in {"4.ContextSwitch", "6.MemPolicy"} -> ContextSwitch_enter(event)
    [] ex = "4.KernelProcess" -> KernelProcess_enter(event)
    [] ex = "7.Syscall"       -> Syscall_enter(event)
    [] ex = "8.UserProcess"   -> UserProcess_enter(event)
    [] ex = "9.serialport"    -> SerialPort_enter(event)

(* Kernel exit, from the C function's call with a trapframe to the iret. *)

ContextSwitch_exit == <<load>> \o RestoreSegs \o <<pop("ss"), popa, addl(1)>>
KernelProcess_exit == <<load>> \o RestoreSegs \o <<popa, addl(2)>>
Syscall_exit == <<load>> \o RestoreSegs \o <<popa, addl(1)>>
ProcLoader == <<load>> \o RestoreSegs \o <<popa, addl(2)>>
KernelExit == <<load>> \o RestoreSegs \o <<popa, addl(1)>>

Exit ==
  CASE ex \in {"4.ContextSwitch", "6.MemPolicy"} -> ContextSwitch_exit
    [] ex = "4.KernelProcess" -> KernelProcess_exit
    [] ex = "7.Syscall"       -> Syscall_exit
    [] ex = "8.UserProcess"   -> ProcLoader
    [] ex = "9.serialport"    -> KernelExit

\* 8.UserProcess: the C handler returned, to the process that was interrupted.
UserProcess_return == <<addl(1), addl(1)>> \o RestoreSegs \o <<popa, addl(2)>>

------------------------------------------------------------------------------
(* trapframe_t, from its lowest address. *)

SegFields == <<"gs", "fs", "es", "ds">>
GeneralFields == Reverse(General)
HardwareFields == <<"eip", "cs", "eflags">>

\* 6.MemPolicy's is the same.
ContextSwitch_trapframe_t ==
  SegFields \o <<"ss">> \o GeneralFields \o <<"interrupt">> \o HardwareFields

KernelProcess_trapframe_t ==
  SegFields \o GeneralFields \o <<"event_type", "error_code">> \o HardwareFields

Syscall_trapframe_t == SegFields \o GeneralFields \o <<"event_type">> \o HardwareFields

UserProcess_trapframe_t ==
  SegFields \o GeneralFields \o <<"event_type", "error_code">> \o HardwareFields
    \o <<"user_esp", "user_ss">>

TF_t == SegFields \o GeneralFields \o <<"event_num">> \o HardwareFields

Layout ==
  [e \in Switching |->
    CASE e \in {"4.ContextSwitch", "6.MemPolicy"} -> ContextSwitch_trapframe_t
      [] e = "4.KernelProcess" -> KernelProcess_trapframe_t
      [] e = "7.Syscall"       -> Syscall_trapframe_t
      [] e = "8.UserProcess"   -> UserProcess_trapframe_t
      [] e = "9.serialport"    -> TF_t]

trapframe_t == Layout[ex]

Offset ==
  [e \in Switching |-> [f \in ToSet(Layout[e]) |-> (CHOOSE i \in DOMAIN Layout[e] : Layout[e][i] = f) - 1]]

\* The address of a field of the trapframe at tf.
Field(tf, f) == tf + Offset[ex][f]

FirstFrame(p) == Top(p) - Len(trapframe_t)

------------------------------------------------------------------------------
(* Each process's registers and stack: in the processor, or in its trapframe. *)

\* The stack pointer a process gets back from its trapframe.
SavedSp(p) ==
  IF IsUser(p) THEN cpu.mem[Field(kernel.tf[p], "user_esp")][2]
  ELSE Field(kernel.tf[p], "eflags") + 1

\* The stack pointer shows in the words above it.
Seen == Registers \ {"esp"}
InFrame == ToSet(trapframe_t) \cap Seen

K_SS == Seg(24)

Saved(p) ==
  [r \in Seen |->
     CASE r = "cr3" -> kernel.pagetable[p]
       [] r \in InFrame -> cpu.mem[Field(kernel.tf[p], r)]
       [] r = "ss" /\ r \notin InFrame ->
            IF IsUser(p) THEN cpu.mem[Field(kernel.tf[p], "user_ss")] ELSE K_SS]

StackOf(p) == IF IsUser(p) THEN USER_STACK ELSE p

Words(p, sp) == [i \in 1 .. Top(StackOf(p)) - sp |-> cpu.mem[sp + i - 1]]

Entry == [p \in Proc |-> <<"code", p>>]

\* The examples whose handlers return have one process.
Absent == [reg |-> [r \in Seen |->
                      CASE r = "eip" -> Entry[1] [] r = "eflags" -> <<"eflags", 512>>
                        [] OTHER -> <<"none", 0>>],
           stack |-> <<>>]

Context(p) ==
  IF kernel.active = p THEN [reg |-> [r \in Seen |-> cpu.reg[r]], stack |-> Words(p, Sp(cpu))]
  ELSE IF ex \in Returning THEN Absent
  ELSE [reg |-> Saved(p), stack |-> Words(p, SavedSp(p))]

P == INSTANCE PrivateProcessors WITH context <- [p \in Proc |-> Context(p)]

------------------------------------------------------------------------------
(* The first trapframe of a process: the fields the code sets. *)

Flags == <<"eflags", 512>>

init_stack(p) ==
  [eip |-> Entry[p], esp |-> At(Bottom(p)), eflags |-> Flags, ebp |-> At(Bottom(p)), cs |-> Seg(8),
   eax |-> At(Bottom(p)), ds |-> K_DATA, gs |-> K_DATA, fs |-> K_DATA, es |-> K_DATA, ss |-> K_SS]

\* 7.Syscall's and 8.UserProcess's NewKernelProcHandler set the same fields.
NewKernelProcHandler(p) ==
  [ds |-> K_DATA, es |-> K_DATA, fs |-> K_DATA, gs |-> K_DATA, eflags |-> Flags,
   cs |-> Seg(8), eip |-> Entry[p]]

\* Segments of its own, 0x18 and 0x20 or 0x28 and 0x30.
init_proc(p) ==
  LET data == Seg(32 + 16 * p)
  IN  [eip |-> Entry[p], esp |-> At(Top(p)), eflags |-> Flags, ebp |-> At(Top(p)),
       cs |-> Seg(24 + 16 * p), eax |-> At(Top(p)),
       ds |-> data, gs |-> data, fs |-> data, es |-> data, ss |-> data]

\* Selectors of ring 3; the stack pointer is 16 bytes below the top.
NewUserProcHandler(p) ==
  [cs |-> Seg(51), ds |-> Seg(59), gs |-> Seg(59), fs |-> Seg(59), es |-> Seg(59),
   user_ss |-> Seg(67), user_esp |-> At(Top(USER_STACK) - 4), eflags |-> Flags, eip |-> Entry[p],
   esp |-> At(Bottom(p)), ebp |-> At(Bottom(p)), eax |-> At(Bottom(p))]

NewProcHandler(p) ==
  [eip |-> Entry[p], eflags |-> Flags, cs |-> Seg(8), ds |-> K_DATA, es |-> K_DATA,
   fs |-> K_DATA, gs |-> K_DATA]

NewFrame(p) ==
  CASE ex = "4.ContextSwitch" -> init_stack(p)
    [] ex = "6.MemPolicy"     -> init_proc(p)
    [] ex = "8.UserProcess" /\ p = 1 -> NewUserProcHandler(p)
    [] ex = "9.serialport"    -> NewProcHandler(p)
    [] OTHER                  -> NewKernelProcHandler(p)

FirstMemory ==
  [a \in 0 .. 5 * SIZE - 1 |->
     IF \E p \in Proc, f \in ToSet(trapframe_t) : f \in DOMAIN NewFrame(p) /\ a = Field(FirstFrame(p), f)
     THEN LET p == a \div SIZE IN NewFrame(p)[trapframe_t[a - FirstFrame(p) + 1]]
     ELSE Junk]

PageTable(p) ==
  <<"cr3", IF ex = "6.MemPolicy" \/ IsUser(p) THEN p + 1 ELSE 0>>

MainRegisters ==
  [r \in Registers |-> CASE r = "esp" -> At(Top(MAIN_STACK)) [] r = "cs" -> Seg(8)
                         [] r = "ss" -> K_SS [] r \in {"ds", "es", "fs", "gs"} -> K_DATA
                         [] r = "cr3" -> <<"cr3", 0>> [] OTHER -> Junk]

\* Where the handlers return, main() is the process.
OneProcess ==
  [MainRegisters EXCEPT !.eip = Entry[0], !.eflags = Flags, !.esp = At(Top(0) - 1)]

Init ==
  /\ ex \in Examples
  /\ printed = <<"nothing", 0>>
  /\ IF ex \in Switching
     THEN /\ cpu = [reg |-> MainRegisters, mem |-> FirstMemory]
          /\ kernel = [active |-> Nobody, tf |-> [p \in Proc |-> FirstFrame(p)],
                       esp0 |-> At(Top(0)), pagetable |-> [p \in Proc |-> PageTable(p)]]
     ELSE /\ cpu = [reg |-> OneProcess, mem |-> [a \in 0 .. 5 * SIZE - 1 |-> Junk]]
          /\ kernel = [active |-> 0, tf |-> [p \in Proc |-> 0], esp0 |-> At(Top(0)),
                       pagetable |-> [p \in Proc |-> <<"cr3", 0>>]]

------------------------------------------------------------------------------
(* The C handlers.  s is the whole state, cur the trapframe they are given. *)

TIMER_EVENT == 32
SYSCALL_EVENT == 128

Save(s, cur) == [s EXCEPT !.kernel.tf[s.kernel.active] = cur]
Switch(s) == [s EXCEPT !.kernel.active = 1 - @]

ContextSwitch_context_switch(s, cur) ==
  IF s.kernel.active = Nobody THEN [s EXCEPT !.kernel.active = 0] ELSE Switch(Save(s, cur))

kernel_event(s, cur) == Switch(Save(s, cur))

enable_page_table(s) == [s EXCEPT !.cpu.reg.cr3 = s.kernel.pagetable[s.kernel.active]]

MemPolicy_context_switch(s, cur) ==
  enable_page_table(IF s.kernel.active = Nobody THEN [s EXCEPT !.kernel.active = 0]
                    ELSE Switch(Save(s, cur)))

\* Number and argument are read from the active process's trapframe, not from cur.
SyscallHandler(s) ==
  LET tf     == s.kernel.tf[s.kernel.active]
      prints == s.cpu.mem[Field(tf, "eax")] = <<"const", P!PRINT>>
  IN  [s EXCEPT !.cpu.mem[Field(tf, "eax")] = <<"const", IF prints THEN 0 ELSE -1>>,
                !.printed = IF prints THEN s.cpu.mem[Field(tf, "ebx")] ELSE @]

Syscall_context_switch_SavesLast(s, cur, event) ==
  Switch(Save(IF event = SYSCALL_EVENT THEN SyscallHandler(s) ELSE s, cur))

Syscall_context_switch(s, cur, event) ==
  Switch(IF event = SYSCALL_EVENT THEN SyscallHandler(Save(s, cur)) ELSE Save(s, cur))

UserProcess_context_switch_KeepsEsp0(s, cur) ==
  LET t == Switch(Save(s, cur))
  IN  [t EXCEPT !.cpu.reg.cr3 = t.kernel.pagetable[t.kernel.active]]

UserProcess_context_switch(s, cur) ==
  LET t == Switch(Save(s, cur))
  IN  [t EXCEPT !.kernel.esp0 = At(Top(t.kernel.active)),
                !.cpu.reg.cr3 = t.kernel.pagetable[t.kernel.active]]

\* A system call that answers in EAX; the scheduler picks anybody.
Kernel(s, cur, event, next) ==
  LET saved == Save(s, cur)
      done  == IF event = SYSCALL_EVENT
               THEN [saved EXCEPT !.cpu.mem[Field(cur, "eax")] = <<"const", 0>>] ELSE saved
  IN  [done EXCEPT !.kernel.active = next]

State == [cpu |-> cpu, kernel |-> kernel, printed |-> printed]

\* The C code calls the exit path with a trapframe.
Resume(s) ==
  LET calls == PushWord(PushWord(s.cpu, At(s.kernel.tf[s.kernel.active])), Junk)
  IN  [s EXCEPT !.cpu = iret(Run(calls, Exit))]

\* Kernel entry, handler and exit: the states an interrupt can lead to.
Interrupted(s, event) ==
  LET in  == [s EXCEPT !.cpu = Run(Hardware(s.cpu, s.kernel.esp0), Enter(event))]
      cur == in.cpu.mem[Sp(in.cpu) + 1][2]
  IN  CASE ex = "4.ContextSwitch" -> {Resume(ContextSwitch_context_switch(in, cur))}
        [] ex = "4.KernelProcess" -> {Resume(kernel_event(in, cur))}
        [] ex = "6.MemPolicy"     -> {Resume(MemPolicy_context_switch(in, cur))}
        [] ex = "7.Syscall"       -> {Resume(Syscall_context_switch(in, cur, event))}
        [] ex = "8.UserProcess" /\ event = TIMER_EVENT ->
             {Resume(UserProcess_context_switch(in, cur))}
        [] ex = "8.UserProcess" /\ event = SYSCALL_EVENT ->
             {[SyscallHandler(in) EXCEPT !.cpu = iret(Run(@, UserProcess_return))]}
        [] ex = "9.serialport"    -> {Resume(Kernel(in, cur, event, next)) : next \in Proc}

------------------------------------------------------------------------------
(* Steps.  What lies below a stack pointer is as good as overwritten.        *)

LowestLive(s, stack) ==
  CASE stack \in Proc /\ s.kernel.active # stack -> s.kernel.tf[stack]
    [] stack \in Proc /\ s.kernel.active = stack /\ ~IsUser(stack) -> Sp(s.cpu)
    [] stack = USER_STACK /\ s.kernel.active = 1 /\ IsUser(1) -> Sp(s.cpu)
    [] stack = USER_STACK /\ s.kernel.active # 1 /\ IsUser(1) ->
         s.cpu.mem[Field(s.kernel.tf[1], "user_esp")][2]
    [] OTHER -> Top(stack)

Forgotten(s) ==
  [a \in DOMAIN s.cpu.mem |-> IF a < LowestLive(s, a \div SIZE) THEN Junk ELSE s.cpu.mem[a]]

Becomes(s) ==
  /\ cpu' = [s.cpu EXCEPT !.mem = Forgotten(s)]
  /\ kernel' = s.kernel
  /\ printed' = s.printed
  /\ UNCHANGED ex

\* main() of the examples that load the first process themselves.
Start ==
  /\ kernel.active = Nobody
  /\ ex \notin {"4.ContextSwitch", "6.MemPolicy"}
  /\ Becomes(Resume([State EXCEPT !.kernel.active = 0]))

Timer ==
  /\ ex \in Switching
  /\ kernel.active # Nobody \/ ex \in {"4.ContextSwitch", "6.MemPolicy"}
  /\ \E s \in Interrupted(State, TIMER_EVENT) : Becomes(s)

\* A device's interrupt or a fault whose handler returns.
Interrupt ==
  /\ ex \in Returning \/ (ex = "6.MemPolicy" /\ FAULTS /\ kernel.active # Nobody)
  /\ LET hw == Hardware(cpu, kernel.esp0)
         in == IF HasErrorCode THEN PushWord(hw, <<"const", 2>>) ELSE hw
     IN  Becomes([State EXCEPT !.cpu = iret(Run(in, Isr))])

\* The system calls of 7.Syscall and 8.UserProcess print, those of 9.serialport answer in EAX.
sys_printf(number, argument) ==
  /\ kernel.active # Nobody
  /\ CASE ex = "7.Syscall"     -> number # P!ALLOCATE
       [] ex = "8.UserProcess" -> number # P!ALLOCATE /\ kernel.active = 1
       [] ex = "9.serialport"  -> number = P!ALLOCATE
       [] OTHER                -> FALSE
  /\ LET asked == [State EXCEPT !.cpu.reg.eax = <<"const", number>>, !.cpu.reg.ebx = argument]
     IN  \E s \in Interrupted(asked, SYSCALL_EVENT) : Becomes(s)

Locals(p) == Len(SelectSeq(Context(p).stack, LAMBDA w : w[1] = "local"))

\* The process computes, and puts words on its stack and takes them off.
Compute(p, t) ==
  /\ kernel.active = p
  /\ Becomes([State EXCEPT !.cpu.reg = P!Computed(p, @, t)])

Push(p, t) ==
  /\ kernel.active = p /\ Locals(p) < LOCALS
  /\ Becomes([State EXCEPT !.cpu = PushWord(@, P!Local(p, t))])

Pop(p) ==
  /\ kernel.active = p /\ Locals(p) > 0
  /\ Becomes([State EXCEPT !.cpu = MoveSp(@, 1)])

Next ==
  \/ Start
  \/ Timer
  \/ Interrupt
  \/ \E p \in Proc : Pop(p) \/ \E t \in Tag : Compute(p, t) \/ Push(p, t)
  \/ \E number \in {0, P!PRINT, P!ALLOCATE}, t \in Tag :
       sys_printf(number, P!Local(kernel.active, t))

Spec == Init /\ [][Next]_vars

------------------------------------------------------------------------------
(* Properties *)

\* The words have their shape, and each process's stack pointers stay in the stack that
\* is its own: a frame or a C function never runs into the stack of another process.
StacksStayApart ==
  /\ \A r \in Registers : cpu.reg[r][2] \in Int
  /\ \A a \in DOMAIN cpu.mem : cpu.mem[a][2] \in Int
  /\ ex \in Switching => \A p \in Proc : kernel.tf[p] \in Bottom(p) .. Top(p)
  /\ kernel.active # Nobody =>
       Sp(cpu) \in Bottom(StackOf(kernel.active)) .. Top(StackOf(kernel.active))

\* Whatever interrupts, whatever the handlers do and whoever runs in between, every
\* process finds its registers and its stack as it left them, system calls read their
\* arguments from the right words, and their result is all that changes.
ImplementsPrivateProcessors == P!Spec

\* What 4.ContextSwitch/src/process.c:63-66 says of its context_switch: the trapframe is not
\* saved, and a process that gets the processor starts over.  No run checks it: it is false,
\* for process.c:78 and 82 save the trapframe, and a process goes on where it was.
RunsFromScratch ==
  [][ex = "4.ContextSwitch" =>
       \A p \in Proc : kernel.active # p /\ kernel'.active = p => cpu'.reg.eip = Entry[p]]_vars
=============================================================================
