-------------------------------- MODULE Kernel -------------------------------
(***************************************************************************)
(* The process and semaphore part of the kernel of 9.serialport: process   *)
(* creation, the FIFO round-robin scheduler driven by the timer interrupt, *)
(* and counting semaphores.                                                *)
(*                                                                         *)
(* Every entry of events.S is an interrupt gate, so Kernel() in main.c     *)
(* runs with interrupts disabled from the save of the trapframe to the     *)
(* IRET: one interrupt or system call, with the Scheduler() that ends it,  *)
(* is one step here.  A handler is an operator on the kernel's memory k, a *)
(* record of the variables below, and answers with the memory it leaves    *)
(* behind: a driver interrupt calls several handlers in one step.          *)
(*                                                                         *)
(* ready_q, free_q and the wait queues are q_t rings; CircularQueue.tla    *)
(* shows that a q_t is a FIFO queue of QUEUE_SIZE items, and they are      *)
(* sequences here.  current_time (never read) is left out, and so is the   *)
(* trapframe: it is saved to and restored from the process's own stack.    *)
(*                                                                         *)
(* An operator X_Y is X with a programming mistake named Y.  No action     *)
(* uses one; they are there to show that the properties notice mistakes.   *)
(***************************************************************************)
EXTENDS Integers, Sequences

CONSTANTS
  PROC_NUM,     (* pids are 1 .. PROC_NUM - 1, 0 is main()                *)
  QUEUE_SIZE,   (* capacity of a q_t                                      *)
  Q_SIZE,       (* semaphores in the table                                *)
  TIME_LIMIT,   (* timer ticks in a time slice                            *)
  NPROCS,       (* processes main() creates; the first one is proc.c Init *)
  INIT_PASSES,  (* what processes pass to SemAlloc                        *)
  MAX_PASSES    (* bound of the model on the passes a semaphore banks     *)

ASSUME KernelAssumption ==
  /\ PROC_NUM \in Nat \ {0}
  /\ QUEUE_SIZE \in Nat /\ QUEUE_SIZE >= PROC_NUM - 1   (* 20 and 20 in the source *)
  /\ Q_SIZE \in Nat
  /\ TIME_LIMIT \in Nat \ {0}
  /\ NPROCS \in 1 .. PROC_NUM - 1
  /\ INIT_PASSES \subseteq Nat
  /\ MAX_PASSES \in Nat

Pids    == 1 .. PROC_NUM - 1
Sids    == 0 .. Q_SIZE - 1
InitPid == 1

VARIABLES
  current_pid,  (* the running process, 0 before the first one is started *)
  ready_q,      (* pids waiting for the CPU                               *)
  free_q,       (* pids not in use                                        *)
  pcb,          (* per pid: state and cpu_time                            *)
  sem,          (* per semaphore: owner (0 = free), passes and wait_q     *)
  panic         (* the kernel stopped in breakpoint()                     *)

vars == <<current_pid, ready_q, free_q, pcb, sem, panic>>

Memory == [current_pid |-> current_pid, ready_q |-> ready_q, free_q |-> free_q,
           pcb |-> pcb, sem |-> sem, panic |-> panic]

\* The step ends with the memory k.
Return(k) ==
  /\ current_pid' = k.current_pid
  /\ ready_q' = k.ready_q
  /\ free_q' = k.free_q
  /\ pcb' = k.pcb
  /\ sem' = k.sem
  /\ panic' = k.panic

-----------------------------------------------------------------------------
\* queue_in with its return code ignored, as at every call in the kernel.
Enqueue(q, item) == IF Len(q) = QUEUE_SIZE THEN q ELSE Append(q, item)

EnqueueFront(q, item) == IF Len(q) = QUEUE_SIZE THEN q ELSE <<item>> \o q

Scheduler_NoBudgetReset(k) ==
  IF k.current_pid # 0 THEN k
  ELSE IF k.ready_q = <<>> THEN [k EXCEPT !.panic = TRUE]
  ELSE [k EXCEPT !.current_pid = Head(k.ready_q), !.ready_q = Tail(k.ready_q),
                 !.pcb[Head(k.ready_q)].state = "RUN"]

\* If nobody holds the CPU, the front of ready_q gets it with a fresh time slice.
Scheduler(k) ==
  IF k.current_pid # 0 THEN k
  ELSE IF k.ready_q = <<>> THEN [k EXCEPT !.panic = TRUE]
  ELSE [k EXCEPT !.current_pid = Head(k.ready_q), !.ready_q = Tail(k.ready_q),
                 !.pcb[Head(k.ready_q)] = [state |-> "RUN", cpu_time |-> 0]]

\* A free pid, its PCB cleared, goes to the back of ready_q.
NewProcHandler(k) ==
  IF k.free_q = <<>> THEN [k EXCEPT !.panic = TRUE]
  ELSE [k EXCEPT !.free_q = Tail(k.free_q),
                 !.pcb[Head(k.free_q)] = [state |-> "READY", cpu_time |-> 0],
                 !.ready_q = Enqueue(k.ready_q, Head(k.free_q))]

TimerHandler_Greedy(k) ==
  [k EXCEPT !.pcb[k.current_pid].cpu_time = IF @ + 1 = TIME_LIMIT THEN 0 ELSE @ + 1]

\* A tick of the running process; at the end of its slice it goes to the back of ready_q.
TimerHandler(k) ==
  LET ticked == [k EXCEPT !.pcb[k.current_pid].cpu_time = @ + 1]
  IN  IF ticked.pcb[k.current_pid].cpu_time = TIME_LIMIT
      THEN [ticked EXCEPT !.pcb[k.current_pid].state = "READY",
                          !.ready_q = Enqueue(k.ready_q, k.current_pid),
                          !.current_pid = 0]
      ELSE ticked

FreeSids(k) == {sid \in Sids : k.sem[sid].owner = 0}

\* The first free entry of the table; the caller's EAX keeps what it was when there is none.
SemAllocResult(k, passes) ==
  IF FreeSids(k) = {} THEN passes
  ELSE CHOOSE sid \in FreeSids(k) : \A other \in FreeSids(k) : sid <= other

SemAllocHandler_NoOwner(k, passes) ==
  IF FreeSids(k) = {} THEN k
  ELSE [k EXCEPT !.sem[SemAllocResult(k, passes)] =
          [owner |-> 0, passes |-> passes, wait_q |-> <<>>]]

SemAllocHandler(k, passes) ==
  IF FreeSids(k) = {} THEN k
  ELSE [k EXCEPT !.sem[SemAllocResult(k, passes)] =
          [owner |-> k.current_pid, passes |-> passes, wait_q |-> <<>>]]

SemWaitHandler_NoState(k, sid) ==
  IF k.sem[sid].passes > 0
  THEN [k EXCEPT !.sem[sid].passes = @ - 1]
  ELSE [k EXCEPT !.sem[sid].wait_q = Enqueue(@, k.current_pid), !.current_pid = 0]

\* P: take a pass, or join the back of wait_q and give up the CPU.
SemWaitHandler(k, sid) ==
  IF k.sem[sid].passes > 0
  THEN [k EXCEPT !.sem[sid].passes = @ - 1]
  ELSE [k EXCEPT !.sem[sid].wait_q = Enqueue(@, k.current_pid),
                 !.pcb[k.current_pid].state = "WAIT",
                 !.current_pid = 0]

SemPostHandler_BanksAlways(k, sid) ==
  IF k.sem[sid].wait_q = <<>>
  THEN [k EXCEPT !.sem[sid].passes = @ + 1]
  ELSE [k EXCEPT !.sem[sid].wait_q = Tail(@), !.sem[sid].passes = @ + 1,
                 !.ready_q = Enqueue(@, Head(k.sem[sid].wait_q)),
                 !.pcb[Head(k.sem[sid].wait_q)].state = "READY"]

SemPostHandler_JumpsQueue(k, sid) ==
  IF k.sem[sid].wait_q = <<>>
  THEN [k EXCEPT !.sem[sid].passes = @ + 1]
  ELSE [k EXCEPT !.sem[sid].wait_q = Tail(@),
                 !.ready_q = EnqueueFront(@, Head(k.sem[sid].wait_q)),
                 !.pcb[Head(k.sem[sid].wait_q)].state = "READY"]

\* V: hand the pass to the first waiter, or bank it.
SemPostHandler(k, sid) ==
  IF k.sem[sid].wait_q = <<>>
  THEN [k EXCEPT !.sem[sid].passes = @ + 1]
  ELSE [k EXCEPT !.sem[sid].wait_q = Tail(@),
                 !.ready_q = Enqueue(@, Head(k.sem[sid].wait_q)),
                 !.pcb[Head(k.sem[sid].wait_q)].state = "READY"]

-----------------------------------------------------------------------------
(***************************************************************************)
(* main(): the memory is cleared, free_q filled, NPROCS processes created, *)
(* and the first one started.  current_pid is 0 only while main() runs.    *)
(***************************************************************************)
Init ==
  /\ current_pid = 0
  /\ ready_q = <<>>
  /\ free_q = [i \in 1 .. PROC_NUM - 1 |-> i]
  /\ pcb = [pid \in Pids |-> [state |-> "FREE", cpu_time |-> 0]]
  /\ sem = [sid \in Sids |-> [owner |-> 0, passes |-> 0, wait_q |-> <<>>]]
  /\ panic = FALSE

Booting == current_pid = 0 /\ ~panic
Running == current_pid # 0 /\ ~panic

Create ==
  /\ Booting /\ Len(ready_q) < NPROCS
  /\ Return(NewProcHandler(Memory))

Start ==
  /\ Booting /\ Len(ready_q) = NPROCS
  /\ Return(Scheduler(Memory))

\* The timer interrupts the running process.
Timer ==
  /\ Running
  /\ Return(Scheduler(TimerHandler(Memory)))

(***************************************************************************)
(* System calls of the running process.  proc.c Init makes none; the other *)
(* processes wait only on semaphores that have been allocated, while a     *)
(* post may come at any time and for any semaphore: the serial interrupt   *)
(* posts too, and it posts semaphore 0 until its port has its own.         *)
(***************************************************************************)
InUserProcess == Running /\ current_pid # InitPid

SemAlloc(passes) ==
  /\ InUserProcess
  /\ Return(Scheduler(SemAllocHandler(Memory, passes)))

SemWait_AnyProcess(sid) ==
  /\ Running
  /\ sem[sid].owner # 0
  /\ Return(Scheduler(SemWaitHandler(Memory, sid)))

SemWait(sid) ==
  /\ InUserProcess
  /\ sem[sid].owner # 0
  /\ Return(Scheduler(SemWaitHandler(Memory, sid)))

SemPost(sid) ==
  /\ Running
  /\ sem[sid].passes < MAX_PASSES
  /\ Return(Scheduler(SemPostHandler(Memory, sid)))

Next ==
  \/ Create
  \/ Start
  \/ Timer
  \/ \E passes \in INIT_PASSES : SemAlloc(passes)
  \/ \E sid \in Sids : SemWait(sid) \/ SemPost(sid)

\* main() runs to its end, and the timer keeps interrupting.
Fairness == WF_vars(Create) /\ WF_vars(Start) /\ WF_vars(Timer)

Spec == Init /\ [][Next]_vars

FairSpec == Spec /\ Fairness

-----------------------------------------------------------------------------
PcbType == [state : {"FREE", "RUN", "READY", "WAIT"}, cpu_time : 0 .. TIME_LIMIT]
SemType == [owner : {0} \cup Pids, passes : Nat, wait_q : Seq(Pids)]

TypeOK ==
  /\ current_pid \in {0} \cup Pids
  /\ ready_q \in Seq(Pids)
  /\ free_q \in Seq(Pids)
  /\ pcb \in [Pids -> PcbType]
  /\ sem \in [Sids -> SemType]
  /\ panic \in BOOLEAN

\* The pids in the queue q, and that none stands in it twice.
Members(q)   == {q[i] : i \in DOMAIN q}
NoRepeats(q) == \A i, j \in DOMAIN q : q[i] = q[j] => i = j

(***************************************************************************)
(* No process is lost or scheduled twice: a pid is in the one queue its    *)
(* state names, once, and in no other; the running one is in none.  The    *)
(* handlers move a pid between queues whose return codes they ignore.      *)
(***************************************************************************)
EveryPidInItsPlace ==
  /\ NoRepeats(ready_q) /\ NoRepeats(free_q)
  /\ \A sid \in Sids : NoRepeats(sem[sid].wait_q)
  /\ \A pid \in Pids :
       /\ pcb[pid].state = "RUN"   <=> pid = current_pid
       /\ pcb[pid].state = "READY" <=> pid \in Members(ready_q)
       /\ pcb[pid].state = "FREE"  <=> pid \in Members(free_q)
       /\ pcb[pid].state = "WAIT"  <=> \E sid \in Sids : pid \in Members(sem[sid].wait_q)
  /\ \A sid, other \in Sids :
       Members(sem[sid].wait_q) \cap Members(sem[other].wait_q) # {} => sid = other

(***************************************************************************)
(* No wakeup is lost: nobody waits on a semaphore that has a pass to give, *)
(* whatever the order of SemWait, SemPost and the timer.                   *)
(***************************************************************************)
NoWaiterWhilePasses ==
  \A sid \in Sids : sem[sid].passes > 0 => sem[sid].wait_q = <<>>

(***************************************************************************)
(* The Scheduler always finds a process to run (main.c:79-82 panics        *)
(* otherwise), because proc.c Init never waits.                            *)
(***************************************************************************)
NoPanic == ~panic

\* The running process has ticks left; TimerHandler compares with ==, not >=.
SliceNotExceeded == current_pid # 0 => pcb[current_pid].cpu_time < TIME_LIMIT

\* The place of pid in the queue q.
Place(q, pid) == CHOOSE i \in DOMAIN q : q[i] = pid

(***************************************************************************)
(* Nobody is overtaken: while a process stays in ready_q, or on the wait   *)
(* queue of a semaphore, it only moves forward.                            *)
(***************************************************************************)
NoOvertaking ==
  [][/\ \A pid \in Pids :
          pid \in Members(ready_q) \cap Members(ready_q') =>
             Place(ready_q', pid) <= Place(ready_q, pid)
     /\ \A sid \in Sids, pid \in Pids :
          pid \in Members(sem[sid].wait_q) \cap Members(sem'[sid].wait_q) =>
             Place(sem'[sid].wait_q, pid) <= Place(sem[sid].wait_q, pid)]_vars

(***************************************************************************)
(* Round robin: a process that is ready gets the CPU, whatever the others  *)
(* do with theirs.                                                         *)
(***************************************************************************)
NoStarvation ==
  \A pid \in Pids : pcb[pid].state = "READY" ~> pcb[pid].state = "RUN"

(***************************************************************************)
(* The semaphore table implements counting semaphores: passes minus the    *)
(* number of waiters counts what was provided less what was asked for.     *)
(***************************************************************************)
Semaphores == INSTANCE CountingSemaphore WITH
  Client  <- Pids,
  Sem     <- Sids,
  Amount  <- INIT_PASSES,
  value   <- [sid \in Sids |-> sem[sid].passes - Len(sem[sid].wait_q)],
  blocked <- [sid \in Sids |-> Members(sem[sid].wait_q)],
  live    <- {sid \in Sids : sem[sid].owner # 0}

ImplementsSemaphores == Semaphores!Spec
=============================================================================
