----------------------------- MODULE KernelProofs ----------------------------
(***************************************************************************)
(* The scheduler and the semaphores of 9.serialport keep every process in  *)
(* its place, never lose a wakeup and never run out of processes to run,   *)
(* for any number of processes, semaphores and ticks in a slice.           *)
(*                                                                         *)
(* The invariant is stated of a memory k, so that each handler is shown to *)
(* preserve it once, whoever calls it and whatever handler comes next.     *)
(***************************************************************************)
EXTENDS Kernel, SequenceTheorems, FiniteSetTheorems, WellFoundedInduction, TLAPS

-----------------------------------------------------------------------------
(***************************************************************************)
(* Queues of pids.                                                         *)
(***************************************************************************)
LEMMA MembersOfAppend ==
  ASSUME NEW S, NEW q \in Seq(S), NEW x \in S
  PROVE  /\ Append(q, x) \in Seq(S)
         /\ Append(q, x) # <<>>
         /\ Members(Append(q, x)) = Members(q) \cup {x}
         /\ NoRepeats(q) /\ x \notin Members(q) => NoRepeats(Append(q, x))
<1>1. /\ Append(q, x) \in Seq(S)
      /\ Append(q, x) # <<>>
      /\ Len(Append(q, x)) = Len(q) + 1
      /\ \A i \in 1 .. Len(q) : Append(q, x)[i] = q[i]
      /\ Append(q, x)[Len(q) + 1] = x
  BY AppendProperties
<1>2. /\ Len(q) \in Nat /\ DOMAIN q = 1 .. Len(q)
      /\ DOMAIN Append(q, x) = 1 .. Len(q) + 1
  BY <1>1, LenProperties
<1>3. Members(Append(q, x)) = Members(q) \cup {x}
  <2>1. ASSUME NEW y \in Members(Append(q, x)) PROVE y \in Members(q) \cup {x}
    <3>1. PICK i \in 1 .. Len(q) + 1 : y = Append(q, x)[i]
      BY <1>2 DEF Members
    <3>2. CASE i = Len(q) + 1
      BY <1>1, <3>1, <3>2
    <3>3. CASE i # Len(q) + 1
      BY <1>1, <1>2, <3>1, <3>3 DEF Members
    <3>4. QED  BY <3>2, <3>3
  <2>2. ASSUME NEW y \in Members(q) PROVE y \in Members(Append(q, x))
    <3>1. PICK i \in 1 .. Len(q) : y = q[i]
      BY <1>2 DEF Members
    <3>2. QED  BY <1>1, <1>2, <3>1 DEF Members
  <2>3. x \in Members(Append(q, x))
    BY <1>1, <1>2 DEF Members
  <2>4. QED  BY <2>1, <2>2, <2>3
<1>4. ASSUME NoRepeats(q), x \notin Members(q) PROVE NoRepeats(Append(q, x))
  <2> SUFFICES ASSUME NEW i \in 1 .. Len(q) + 1, NEW j \in 1 .. Len(q) + 1,
                      Append(q, x)[i] = Append(q, x)[j]
               PROVE  i = j
    BY <1>2 DEF NoRepeats
  <2>1. \A n \in 1 .. Len(q) : q[n] # x
    BY <1>2, <1>4 DEF Members
  <2>2. \A m, n \in 1 .. Len(q) : q[m] = q[n] => m = n
    BY <1>2, <1>4 DEF NoRepeats
  <2>3. QED  BY <1>1, <1>2, <2>1, <2>2
<1>5. QED  BY <1>1, <1>3, <1>4

LEMMA MembersOfTail ==
  ASSUME NEW S, NEW q \in Seq(S), q # <<>>, NoRepeats(q)
  PROVE  /\ Head(q) \in S /\ Head(q) \in Members(q)
         /\ Tail(q) \in Seq(S)
         /\ NoRepeats(Tail(q))
         /\ Members(Tail(q)) = Members(q) \ {Head(q)}
<1>1. /\ Head(q) \in S /\ Tail(q) \in Seq(S)
      /\ Len(Tail(q)) = Len(q) - 1
      /\ \A i \in 1 .. Len(q) - 1 : Tail(q)[i] = q[i + 1]
  BY HeadTailProperties
<1>2. /\ Len(q) \in Nat \ {0} /\ DOMAIN q = 1 .. Len(q)
      /\ DOMAIN Tail(q) = 1 .. Len(q) - 1
  BY <1>1, LenProperties, EmptySeq
<1>3. Head(q) = q[1]
  OBVIOUS
<1>4. \A i, j \in 1 .. Len(q) : q[i] = q[j] => i = j
  BY <1>2 DEF NoRepeats
<1>5. NoRepeats(Tail(q))
  <2> SUFFICES ASSUME NEW i \in 1 .. Len(q) - 1, NEW j \in 1 .. Len(q) - 1,
                      Tail(q)[i] = Tail(q)[j]
               PROVE  i = j
    BY <1>2 DEF NoRepeats
  <2>1. i + 1 \in 1 .. Len(q) /\ j + 1 \in 1 .. Len(q)
    BY <1>2
  <2>2. q[i + 1] = q[j + 1]
    BY <1>1
  <2>3. i + 1 = j + 1
    BY <1>4, <2>1, <2>2
  <2>4. QED  BY <2>3
<1>6. Members(Tail(q)) = Members(q) \ {Head(q)}
  <2>1. ASSUME NEW y \in Members(Tail(q)) PROVE y \in Members(q) \ {Head(q)}
    <3>1. PICK i \in 1 .. Len(q) - 1 : y = Tail(q)[i]
      BY <1>2 DEF Members
    <3>2. y = q[i + 1] /\ i + 1 \in 1 .. Len(q) /\ i + 1 # 1
      BY <1>1, <1>2, <3>1
    <3>3. q[i + 1] # q[1]
      BY <1>2, <1>4, <3>2
    <3>4. QED  BY <1>2, <1>3, <3>2, <3>3 DEF Members
  <2>2. ASSUME NEW y \in Members(q) \ {Head(q)} PROVE y \in Members(Tail(q))
    <3>1. PICK i \in 1 .. Len(q) : y = q[i]
      BY <1>2 DEF Members
    <3>2. i # 1
      BY <1>3, <3>1
    <3>3. i - 1 \in 1 .. Len(q) - 1 /\ Tail(q)[i - 1] = q[(i - 1) + 1]
      BY <1>1, <1>2, <3>2
    <3>4. (i - 1) + 1 = i
      OBVIOUS
    <3>5. QED  BY <1>2, <3>1, <3>3, <3>4 DEF Members
  <2>3. QED  BY <2>1, <2>2
<1>7. Head(q) \in Members(q)
  BY <1>2, <1>3 DEF Members
<1>8. QED  BY <1>1, <1>5, <1>6, <1>7

(***************************************************************************)
(* A queue that does not hold pid has room for it: the queues are as large *)
(* as there are pids, and hold none twice.                                 *)
(***************************************************************************)
LEMMA RoomInQueue ==
  ASSUME NEW q \in Seq(Pids), NoRepeats(q), NEW pid \in Pids, pid \notin Members(q)
  PROVE  Enqueue(q, pid) = Append(q, pid)
<1>1. Len(q) \in Nat /\ DOMAIN q = 1 .. Len(q) /\ q \in [1 .. Len(q) -> Pids]
  BY LenProperties
<1>2. q \in [1 .. Len(q) -> Pids \ {pid}]
  BY <1>1 DEF Members
<1>3. PROC_NUM \in Nat \ {0} /\ QUEUE_SIZE \in Nat /\ QUEUE_SIZE >= PROC_NUM - 1
  BY KernelAssumption DEF KernelAssumption
<1>4. IsFiniteSet(Pids) /\ Cardinality(Pids) = PROC_NUM - 1
  <2>1. 1 \in Int /\ PROC_NUM - 1 \in Int
    BY <1>3
  <2>2. /\ IsFiniteSet(1 .. PROC_NUM - 1)
        /\ Cardinality(1 .. PROC_NUM - 1) =
             IF 1 > PROC_NUM - 1 THEN 0 ELSE (PROC_NUM - 1) - 1 + 1
    BY <2>1, FS_Interval
  <2>3. QED  BY <1>3, <2>2 DEF Pids
<1>5. IsFiniteSet(Pids \ {pid}) /\ Cardinality(Pids \ {pid}) = Cardinality(Pids) - 1
  BY <1>4, FS_RemoveElement
<1>6. IsFiniteSet(1 .. Len(q)) /\ Cardinality(1 .. Len(q)) = Len(q)
  <2>1. 1 \in Int /\ Len(q) \in Int
    BY <1>1
  <2>2. /\ IsFiniteSet(1 .. Len(q))
        /\ Cardinality(1 .. Len(q)) = IF 1 > Len(q) THEN 0 ELSE Len(q) - 1 + 1
    BY <2>1, FS_Interval
  <2>3. QED  BY <1>1, <2>2
<1>7. Len(q) <= PROC_NUM - 2
  <2> SUFFICES ASSUME ~(Len(q) <= PROC_NUM - 2) PROVE FALSE
    OBVIOUS
  <2>1. Cardinality(Pids \ {pid}) < Cardinality(1 .. Len(q))
    BY <1>1, <1>3, <1>4, <1>5, <1>6
  <2>2. PICK i, j \in 1 .. Len(q) : i # j /\ q[i] = q[j]
    BY <1>2, <1>5, <1>6, <2>1, FS_PigeonHole
  <2>3. QED  BY <1>1, <2>2 DEF NoRepeats
<1>8. Len(q) # QUEUE_SIZE
  <2>1. \A n, p, s \in Int : n <= p - 2 /\ s >= p - 1 => n # s
    OBVIOUS
  <2>2. Len(q) \in Int /\ PROC_NUM \in Int /\ QUEUE_SIZE \in Int
    BY <1>1, <1>3
  <2>3. QED  BY <1>3, <1>7, <2>1, <2>2
<1>9. QED  BY <1>8 DEF Enqueue

-----------------------------------------------------------------------------
(***************************************************************************)
(* The inductive invariant, of a memory k.  It holds between the handler   *)
(* and the Scheduler() of a step too, where current_pid may be 0.          *)
(***************************************************************************)
MemoryType == [current_pid : {0} \cup Pids, ready_q : Seq(Pids), free_q : Seq(Pids),
               pcb : [Pids -> PcbType], sem : [Sids -> SemType], panic : BOOLEAN]

Waiters(k, sid) == Members(k.sem[sid].wait_q)

\* EveryPidInItsPlace, of k.
Placed(k) ==
  /\ NoRepeats(k.ready_q) /\ NoRepeats(k.free_q)
  /\ \A sid \in Sids : NoRepeats(k.sem[sid].wait_q)
  /\ \A pid \in Pids :
       /\ k.pcb[pid].state = "RUN"   <=> pid = k.current_pid
       /\ k.pcb[pid].state = "READY" <=> pid \in Members(k.ready_q)
       /\ k.pcb[pid].state = "FREE"  <=> pid \in Members(k.free_q)
       /\ k.pcb[pid].state = "WAIT"  <=> \E sid \in Sids : pid \in Waiters(k, sid)
  /\ \A sid, other \in Sids : Waiters(k, sid) \cap Waiters(k, other) # {} => sid = other

\* NoWaiterWhilePasses, of k; and a free semaphore has no waiters SemAlloc could forget.
Credits(k) ==
  \A sid \in Sids : k.sem[sid].passes > 0 \/ k.sem[sid].owner = 0 => k.sem[sid].wait_q = <<>>

Slice(k) == k.current_pid # 0 => k.pcb[k.current_pid].cpu_time < TIME_LIMIT

Good(k) == k \in MemoryType /\ Placed(k) /\ Credits(k) /\ Slice(k) /\ ~k.panic

\* proc.c Init never waits, so that the Scheduler has it to run when nobody else is ready.
InitRunnable(k) == k.current_pid = InitPid \/ InitPid \in Members(k.ready_q)

\* While main() runs: no pid has left free_q but to ready_q, InitPid first.
BootShape(k) ==
  /\ Len(k.free_q) + Len(k.ready_q) = PROC_NUM - 1
  /\ IF k.ready_q = <<>>
     THEN k.free_q # <<>> /\ Head(k.free_q) = InitPid
     ELSE Head(k.ready_q) = InitPid

IInv ==
  /\ Good(Memory)
  /\ IF current_pid = 0 THEN BootShape(Memory) ELSE InitRunnable(Memory)

LEMMA MemoryFields ==
  ASSUME NEW k \in MemoryType
  PROVE  /\ k.current_pid \in {0} \cup Pids
         /\ k.ready_q \in Seq(Pids) /\ k.free_q \in Seq(Pids)
         /\ k.pcb \in [Pids -> PcbType] /\ k.sem \in [Sids -> SemType]
         /\ k.panic \in BOOLEAN
  BY DEF MemoryType

LEMMA SetPcb ==
  ASSUME NEW k \in MemoryType, NEW x
  PROVE  [k EXCEPT !.pcb = x] =
           [current_pid |-> k.current_pid, ready_q |-> k.ready_q, free_q |-> k.free_q,
            pcb |-> x, sem |-> k.sem, panic |-> k.panic]
<1>1. k = [current_pid |-> k.current_pid, ready_q |-> k.ready_q, free_q |-> k.free_q,
           pcb |-> k.pcb, sem |-> k.sem, panic |-> k.panic]
  BY DEF MemoryType
<1>2. \A a, b, c, d, e, f :
        [[current_pid |-> a, ready_q |-> b, free_q |-> c, pcb |-> d, sem |-> e, panic |-> f]
           EXCEPT !.pcb = x] =
        [current_pid |-> a, ready_q |-> b, free_q |-> c, pcb |-> x, sem |-> e, panic |-> f]
  OBVIOUS
<1>3. QED  BY <1>1, <1>2

LEMMA PidsArePositive == 0 \notin Pids /\ InitPid \in Pids
<1>1. NPROCS \in 1 .. PROC_NUM - 1 /\ PROC_NUM \in Nat
  BY KernelAssumption DEF KernelAssumption
<1>2. QED  BY <1>1 DEF Pids, InitPid

-----------------------------------------------------------------------------
(***************************************************************************)
(* The Scheduler and the handlers preserve Good.  Each lemma first reads   *)
(* off the fields of the memory n that is left behind.                     *)
(***************************************************************************)
LEMMA SchedulerGood ==
  ASSUME NEW k, Good(k), k.current_pid = 0, k.ready_q # <<>>
  PROVE  /\ Good(Scheduler(k))
         /\ Scheduler(k).current_pid = Head(k.ready_q)
         /\ Scheduler(k).sem = k.sem
         /\ InitPid \in Members(k.ready_q) => InitRunnable(Scheduler(k))
<1> DEFINE n == Scheduler(k)
           p == Head(k.ready_q)
<1>1. k \in MemoryType
  BY DEF Good
<1>2. /\ k.ready_q \in Seq(Pids) /\ k.free_q \in Seq(Pids)
      /\ k.pcb \in [Pids -> PcbType] /\ k.sem \in [Sids -> SemType] /\ k.panic = FALSE
  BY <1>1, MemoryFields DEF Good
<1>3. /\ p \in Pids /\ p \in Members(k.ready_q) /\ Tail(k.ready_q) \in Seq(Pids)
      /\ NoRepeats(Tail(k.ready_q))
      /\ Members(Tail(k.ready_q)) = Members(k.ready_q) \ {p}
  BY <1>2, MembersOfTail DEF Good, Placed
<1>4. n = [k EXCEPT !.current_pid = p, !.ready_q = Tail(k.ready_q),
                    !.pcb[p] = [state |-> "RUN", cpu_time |-> 0]]
  BY DEF Scheduler
<1>5. /\ n.current_pid = p /\ n.ready_q = Tail(k.ready_q) /\ n.free_q = k.free_q
      /\ n.pcb = [k.pcb EXCEPT ![p] = [state |-> "RUN", cpu_time |-> 0]]
      /\ n.sem = k.sem /\ n.panic = FALSE
  BY <1>1, <1>2, <1>4 DEF MemoryType
<1>6. TIME_LIMIT \in Nat \ {0}
  BY KernelAssumption DEF KernelAssumption
<1>7. n \in MemoryType
  <2>1. [state |-> "RUN", cpu_time |-> 0] \in PcbType
    BY <1>6 DEF PcbType
  <2>2. n.pcb \in [Pids -> PcbType]
    BY <1>2, <1>3, <1>5, <2>1
  <2>3. n = [current_pid |-> n.current_pid, ready_q |-> n.ready_q, free_q |-> n.free_q,
             pcb |-> n.pcb, sem |-> n.sem, panic |-> n.panic]
    BY <1>1, <1>4 DEF MemoryType
  <2>4. QED  BY <1>2, <1>3, <1>5, <2>2, <2>3 DEF MemoryType
<1>8. \A pid \in Pids : n.pcb[pid].state = IF pid = p THEN "RUN" ELSE k.pcb[pid].state
  BY <1>2, <1>3, <1>5
<1>9. Placed(n)
  <2>1. \A sid \in Sids : Waiters(n, sid) = Waiters(k, sid)
    BY <1>5 DEF Waiters
  <2>2. Placed(k)
    BY DEF Good
  <2>3. /\ NoRepeats(n.ready_q) /\ NoRepeats(n.free_q)
        /\ \A sid \in Sids : NoRepeats(n.sem[sid].wait_q)
    BY <1>3, <1>5, <2>2 DEF Placed
  <2>4. ASSUME NEW pid \in Pids
        PROVE  /\ n.pcb[pid].state = "RUN"   <=> pid = n.current_pid
               /\ n.pcb[pid].state = "READY" <=> pid \in Members(n.ready_q)
               /\ n.pcb[pid].state = "FREE"  <=> pid \in Members(n.free_q)
               /\ n.pcb[pid].state = "WAIT"  <=> \E sid \in Sids : pid \in Waiters(n, sid)
    BY <1>3, <1>5, <1>8, <2>1, <2>2, PidsArePositive DEF Placed
  <2>5. \A sid, other \in Sids : Waiters(n, sid) \cap Waiters(n, other) # {} => sid = other
    BY <2>1, <2>2 DEF Placed
  <2>6. QED  BY <2>3, <2>4, <2>5 DEF Placed
<1>10. Credits(n)
  BY <1>5 DEF Good, Credits
<1>11. Slice(n)
  BY <1>2, <1>3, <1>5, <1>6 DEF Slice
<1>12. InitPid \in Members(k.ready_q) => InitRunnable(n)
  BY <1>3, <1>5 DEF InitRunnable
<1>13. QED  BY <1>5, <1>7, <1>9, <1>10, <1>11, <1>12 DEF Good

LEMMA NewProcGood ==
  ASSUME NEW k, Good(k), k.current_pid = 0, k.free_q # <<>>
  PROVE  /\ Good(NewProcHandler(k))
         /\ NewProcHandler(k).current_pid = 0
         /\ NewProcHandler(k).free_q = Tail(k.free_q)
         /\ NewProcHandler(k).ready_q = Append(k.ready_q, Head(k.free_q))
         /\ NewProcHandler(k).sem = k.sem
<1> DEFINE n == NewProcHandler(k)
           p == Head(k.free_q)
<1>1. k \in MemoryType /\ Placed(k)
  BY DEF Good
<1>2. /\ k.ready_q \in Seq(Pids) /\ k.free_q \in Seq(Pids)
      /\ k.pcb \in [Pids -> PcbType] /\ k.sem \in [Sids -> SemType] /\ k.panic = FALSE
  BY <1>1, MemoryFields DEF Good
<1>3. /\ p \in Pids /\ p \in Members(k.free_q) /\ Tail(k.free_q) \in Seq(Pids)
      /\ NoRepeats(Tail(k.free_q))
      /\ Members(Tail(k.free_q)) = Members(k.free_q) \ {p}
  BY <1>1, <1>2, MembersOfTail DEF Placed
<1>4. k.pcb[p].state = "FREE" /\ p \notin Members(k.ready_q) /\ NoRepeats(k.ready_q)
  BY <1>1, <1>3 DEF Placed
<1>5. /\ Enqueue(k.ready_q, p) = Append(k.ready_q, p)
      /\ Append(k.ready_q, p) \in Seq(Pids) /\ NoRepeats(Append(k.ready_q, p))
      /\ Members(Append(k.ready_q, p)) = Members(k.ready_q) \cup {p}
  BY <1>2, <1>3, <1>4, RoomInQueue, MembersOfAppend
<1>6. n = [k EXCEPT !.free_q = Tail(k.free_q),
                    !.pcb[p] = [state |-> "READY", cpu_time |-> 0],
                    !.ready_q = Append(k.ready_q, p)]
  BY <1>5 DEF NewProcHandler
<1>7. /\ n.current_pid = 0 /\ n.ready_q = Append(k.ready_q, p) /\ n.free_q = Tail(k.free_q)
      /\ n.pcb = [k.pcb EXCEPT ![p] = [state |-> "READY", cpu_time |-> 0]]
      /\ n.sem = k.sem /\ n.panic = FALSE
  BY <1>1, <1>2, <1>6 DEF MemoryType
<1>8. n \in MemoryType
  <2>1. TIME_LIMIT \in Nat \ {0}
    BY KernelAssumption DEF KernelAssumption
  <2>2. [state |-> "READY", cpu_time |-> 0] \in PcbType
    BY <2>1 DEF PcbType
  <2>3. n.pcb \in [Pids -> PcbType]
    BY <1>2, <1>3, <1>7, <2>2
  <2>4. n = [current_pid |-> n.current_pid, ready_q |-> n.ready_q, free_q |-> n.free_q,
             pcb |-> n.pcb, sem |-> n.sem, panic |-> n.panic]
    BY <1>1, <1>6 DEF MemoryType
  <2>5. QED  BY <1>2, <1>3, <1>5, <1>7, <2>3, <2>4 DEF MemoryType
<1>9. \A pid \in Pids : n.pcb[pid].state = IF pid = p THEN "READY" ELSE k.pcb[pid].state
  BY <1>2, <1>3, <1>7
<1>10. Placed(n)
  <2>1. \A sid \in Sids : Waiters(n, sid) = Waiters(k, sid)
    BY <1>7 DEF Waiters
  <2>3. /\ NoRepeats(n.ready_q) /\ NoRepeats(n.free_q)
        /\ \A sid \in Sids : NoRepeats(n.sem[sid].wait_q)
    BY <1>1, <1>3, <1>5, <1>7 DEF Placed
  <2>4. ASSUME NEW pid \in Pids
        PROVE  /\ n.pcb[pid].state = "RUN"   <=> pid = n.current_pid
               /\ n.pcb[pid].state = "READY" <=> pid \in Members(n.ready_q)
               /\ n.pcb[pid].state = "FREE"  <=> pid \in Members(n.free_q)
               /\ n.pcb[pid].state = "WAIT"  <=> \E sid \in Sids : pid \in Waiters(n, sid)
    BY <1>1, <1>3, <1>4, <1>5, <1>7, <1>9, <2>1, PidsArePositive DEF Placed
  <2>5. \A sid, other \in Sids : Waiters(n, sid) \cap Waiters(n, other) # {} => sid = other
    BY <1>1, <2>1 DEF Placed
  <2>6. QED  BY <2>3, <2>4, <2>5 DEF Placed
<1>11. Credits(n) /\ Slice(n)
  BY <1>7 DEF Good, Credits, Slice
<1>12. QED  BY <1>7, <1>8, <1>10, <1>11 DEF Good

\* The running process is in no queue; what a handler that takes the CPU from it may use.
LEMMA RunningPid ==
  ASSUME NEW k, Good(k), k.current_pid # 0
  PROVE  /\ k.current_pid \in Pids
         /\ k.pcb[k.current_pid].state = "RUN"
         /\ k.current_pid \notin Members(k.ready_q)
         /\ k.current_pid \notin Members(k.free_q)
         /\ \A sid \in Sids : k.current_pid \notin Waiters(k, sid)
         /\ k.pcb[k.current_pid].cpu_time \in 0 .. TIME_LIMIT - 1
<1>1. k \in MemoryType /\ Placed(k) /\ Slice(k)
  BY DEF Good
<1>2. k.current_pid \in Pids
  BY <1>1, MemoryFields
<1>3. k.pcb[k.current_pid].state = "RUN"
  BY <1>1, <1>2 DEF Placed
<1>4. /\ k.current_pid \notin Members(k.ready_q) /\ k.current_pid \notin Members(k.free_q)
      /\ \A sid \in Sids : k.current_pid \notin Waiters(k, sid)
  BY <1>1, <1>2, <1>3 DEF Placed
<1>5. k.pcb[k.current_pid].cpu_time \in 0 .. TIME_LIMIT - 1
  <2>1. k.pcb \in [Pids -> PcbType]
    BY <1>1, MemoryFields
  <2>2. k.pcb[k.current_pid].cpu_time \in 0 .. TIME_LIMIT
    BY <1>2, <2>1 DEF PcbType
  <2>3. k.pcb[k.current_pid].cpu_time < TIME_LIMIT
    BY <1>1 DEF Slice
  <2>4. TIME_LIMIT \in Nat
    BY KernelAssumption DEF KernelAssumption
  <2>5. QED  BY <2>2, <2>3, <2>4
<1>6. QED  BY <1>2, <1>3, <1>4, <1>5

LEMMA TimerGood ==
  ASSUME NEW k, Good(k), k.current_pid # 0, InitRunnable(k)
  PROVE  /\ Good(TimerHandler(k))
         /\ InitRunnable(TimerHandler(k))
         /\ TimerHandler(k).sem = k.sem
<1> DEFINE n == TimerHandler(k)
           p == k.current_pid
           ticked == [k EXCEPT !.pcb[p].cpu_time = @ + 1]
<1>1. k \in MemoryType /\ Placed(k)
  BY DEF Good
<1>2. /\ k.ready_q \in Seq(Pids) /\ k.free_q \in Seq(Pids)
      /\ k.pcb \in [Pids -> PcbType] /\ k.sem \in [Sids -> SemType] /\ k.panic = FALSE
  BY <1>1, MemoryFields DEF Good
<1>3. TIME_LIMIT \in Nat \ {0}
  BY KernelAssumption DEF KernelAssumption
<1>4. /\ p \in Pids /\ k.pcb[p] \in PcbType
      /\ p \notin Members(k.ready_q) /\ NoRepeats(k.ready_q)
      /\ k.pcb[p].cpu_time \in 0 .. TIME_LIMIT - 1
  BY <1>1, <1>2, RunningPid DEF Placed
<1>5. /\ ticked.current_pid = p /\ ticked.ready_q = k.ready_q /\ ticked.free_q = k.free_q
      /\ ticked.pcb = [k.pcb EXCEPT ![p].cpu_time = @ + 1]
      /\ ticked.sem = k.sem /\ ticked.panic = FALSE
      /\ ticked = [current_pid |-> ticked.current_pid, ready_q |-> ticked.ready_q,
                   free_q |-> ticked.free_q, pcb |-> ticked.pcb, sem |-> ticked.sem,
                   panic |-> ticked.panic]
  <2>1. ticked = [k EXCEPT !.pcb = [k.pcb EXCEPT ![p].cpu_time = @ + 1]]
    OBVIOUS
  <2>2. ticked = [current_pid |-> p, ready_q |-> k.ready_q, free_q |-> k.free_q,
                  pcb |-> [k.pcb EXCEPT ![p].cpu_time = @ + 1], sem |-> k.sem,
                  panic |-> FALSE]
    BY <1>1, <1>2, <2>1, SetPcb
  <2>3. QED  BY <2>2
<1>6. \A pid \in Pids : ticked.pcb[pid] =
        IF pid = p THEN [state |-> "RUN", cpu_time |-> k.pcb[p].cpu_time + 1] ELSE k.pcb[pid]
  <2>1. k.pcb[p] = [state |-> "RUN", cpu_time |-> k.pcb[p].cpu_time]
    BY <1>4, RunningPid DEF PcbType
  <2>2. [k.pcb[p] EXCEPT !.cpu_time = @ + 1] =
          [state |-> "RUN", cpu_time |-> k.pcb[p].cpu_time + 1]
    BY <2>1
  <2>3. QED  BY <1>2, <1>4, <1>5, <2>2
<1>7. /\ DOMAIN ticked.pcb = Pids
      /\ ticked.pcb \in [Pids -> PcbType]
      /\ \A pid \in Pids : ticked.pcb[pid].state = k.pcb[pid].state
  <2>1. [state |-> "RUN", cpu_time |-> k.pcb[p].cpu_time + 1] \in PcbType
    BY <1>3, <1>4 DEF PcbType
  <2>2. DOMAIN ticked.pcb = Pids /\ ticked.pcb = [pid \in Pids |-> ticked.pcb[pid]]
    BY <1>2, <1>5
  <2>3. \A pid \in Pids : ticked.pcb[pid] \in PcbType
    BY <1>2, <1>6, <2>1
  <2>4. ticked.pcb \in [Pids -> PcbType]
    BY <2>2, <2>3
  <2>5. k.pcb[p].state = "RUN"
    BY RunningPid
  <2>6. \A pid \in Pids : ticked.pcb[pid].state = k.pcb[pid].state
    BY <1>6, <2>5
  <2>7. QED  BY <2>2, <2>4, <2>6
<1>8. CASE ticked.pcb[p].cpu_time # TIME_LIMIT
  <2>1. n = ticked
    BY <1>8 DEF TimerHandler
  <2>2. n \in MemoryType
    BY <1>2, <1>4, <1>5, <1>7, <2>1 DEF MemoryType
  <2>3. \A sid \in Sids : Waiters(n, sid) = Waiters(k, sid)
    BY <1>5, <2>1 DEF Waiters
  <2>4. Placed(n)
    BY <1>1, <1>5, <1>7, <2>1, <2>3 DEF Placed
  <2>5. n.pcb[n.current_pid].cpu_time < TIME_LIMIT
    BY <1>3, <1>4, <1>5, <1>6, <1>8, <2>1
  <2>6. Credits(n) /\ Slice(n) /\ InitRunnable(n)
    BY <1>5, <2>1, <2>5 DEF Good, Credits, Slice, InitRunnable
  <2>7. QED  BY <1>5, <2>1, <2>2, <2>4, <2>6 DEF Good
<1>9. CASE ticked.pcb[p].cpu_time = TIME_LIMIT
  <2> DEFINE back == Append(k.ready_q, p)
  <2>1. /\ Enqueue(k.ready_q, p) = back
        /\ back \in Seq(Pids) /\ NoRepeats(back)
        /\ Members(back) = Members(k.ready_q) \cup {p}
    BY <1>2, <1>4, RoomInQueue, MembersOfAppend
  <2>2. n = [ticked EXCEPT !.pcb[p].state = "READY", !.ready_q = back, !.current_pid = 0]
    BY <1>9, <2>1 DEF TimerHandler
  <2>7. /\ n.current_pid = 0 /\ n.ready_q = back /\ n.free_q = k.free_q
        /\ n.pcb = [ticked.pcb EXCEPT ![p].state = "READY"]
        /\ n.sem = k.sem /\ n.panic = FALSE
        /\ n = [current_pid |-> n.current_pid, ready_q |-> n.ready_q, free_q |-> n.free_q,
                pcb |-> n.pcb, sem |-> n.sem, panic |-> n.panic]
    BY <1>5, <2>2
  <2>8. /\ n.pcb \in [Pids -> PcbType]
        /\ \A pid \in Pids :
             n.pcb[pid].state = IF pid = p THEN "READY" ELSE k.pcb[pid].state
    <3>1. ASSUME NEW f \in [Pids -> PcbType]
          PROVE  /\ [f EXCEPT ![p].state = "READY"] \in [Pids -> PcbType]
                 /\ \A pid \in Pids : [f EXCEPT ![p].state = "READY"][pid].state =
                                        IF pid = p THEN "READY" ELSE f[pid].state
      <4> DEFINE r == [f[p] EXCEPT !.state = "READY"]
      <4>1. r \in PcbType /\ r.state = "READY"
        BY <1>4 DEF PcbType
      <4> HIDE DEF r
      <4>2. [f EXCEPT ![p] = r] \in [Pids -> PcbType]
        BY <1>4, <4>1
      <4>3. \A pid \in Pids : [f EXCEPT ![p] = r][pid].state =
                                IF pid = p THEN "READY" ELSE f[pid].state
        BY <1>4, <4>1
      <4>4. QED  BY <4>2, <4>3 DEF r
    <3> DEFINE f == ticked.pcb
    <3>2. f \in [Pids -> PcbType] /\ n.pcb = [f EXCEPT ![p].state = "READY"]
      BY <1>7, <2>7
    <3>3. \A pid \in Pids : f[pid].state = k.pcb[pid].state
      BY <1>7
    <3> HIDE DEF f, n, p
    <3>4. QED  BY <3>1, <3>2, <3>3
  <2>9. n \in MemoryType
    BY <1>2, <2>1, <2>7, <2>8 DEF MemoryType
  <2>10. Placed(n)
    <3>1. \A sid \in Sids : Waiters(n, sid) = Waiters(k, sid)
      BY <2>7 DEF Waiters
    <3>2. /\ NoRepeats(n.ready_q) /\ NoRepeats(n.free_q)
          /\ \A sid \in Sids : NoRepeats(n.sem[sid].wait_q)
      BY <1>1, <2>1, <2>7 DEF Placed
    <3>3. ASSUME NEW pid \in Pids
          PROVE  /\ n.pcb[pid].state = "RUN"   <=> pid = n.current_pid
                 /\ n.pcb[pid].state = "READY" <=> pid \in Members(n.ready_q)
                 /\ n.pcb[pid].state = "FREE"  <=> pid \in Members(n.free_q)
                 /\ n.pcb[pid].state = "WAIT"  <=> \E sid \in Sids : pid \in Waiters(n, sid)
      BY <1>1, <2>1, <2>7, <2>8, <3>1, PidsArePositive, RunningPid DEF Placed
    <3>4. \A sid, other \in Sids : Waiters(n, sid) \cap Waiters(n, other) # {} => sid = other
      BY <1>1, <3>1 DEF Placed
    <3>5. QED  BY <3>2, <3>3, <3>4 DEF Placed
  <2>11. Credits(n) /\ Slice(n) /\ InitRunnable(n)
    BY <2>1, <2>7 DEF Good, Credits, Slice, InitRunnable
  <2>12. QED  BY <2>7, <2>9, <2>10, <2>11 DEF Good
<1>10. QED  BY <1>8, <1>9

\* SemAllocHandler's search finds a free entry when there is one.
LEMMA SearchFindsFree ==
  ASSUME NEW k, NEW passes, FreeSids(k) # {}
  PROVE  SemAllocResult(k, passes) \in FreeSids(k)
<1> DEFINE S == FreeSids(k)
           R == OpToRel(<, Nat)
<1>1. S \subseteq Nat
  <2>1. Q_SIZE \in Nat
    BY KernelAssumption DEF KernelAssumption
  <2>2. QED  BY <2>1 DEF FreeSids, Sids
<1>2. IsWellFoundedOn(R, Nat)
  BY NatLessThanWellFounded
<1>3. \A i, j \in Nat : i < j => <<i, j>> \in R
  BY DEF OpToRel
<1>4. IsWellFoundedOn(R, S)
  BY <1>1, <1>2, IsWellFoundedOnSubset
<1> HIDE DEF R
<1>5. PICK m \in S : \A other \in S : ~(<<other, m>> \in R)
  BY <1>4, WFMin
<1>6. \A i, j \in Nat : ~(i < j) => j <= i
  OBVIOUS
<1>7. \A other \in S : m <= other
  BY <1>1, <1>3, <1>5, <1>6
<1>8. QED  BY <1>7 DEF SemAllocResult

LEMMA SemAllocGood ==
  ASSUME NEW k, Good(k), k.current_pid # 0, InitRunnable(k), NEW passes \in Nat
  PROVE  /\ Good(SemAllocHandler(k, passes))
         /\ SemAllocHandler(k, passes).current_pid = k.current_pid
         /\ InitRunnable(SemAllocHandler(k, passes))
         /\ FreeSids(k) # {} =>
              SemAllocHandler(k, passes).sem =
                [k.sem EXCEPT ![SemAllocResult(k, passes)] =
                   [owner |-> k.current_pid, passes |-> passes, wait_q |-> <<>>]]
<1>1. CASE FreeSids(k) = {}
  BY <1>1 DEF SemAllocHandler
<1>2. CASE FreeSids(k) # {}
  <2> DEFINE n == SemAllocHandler(k, passes)
             s == SemAllocResult(k, passes)
             entry == [owner |-> k.current_pid, passes |-> passes, wait_q |-> <<>>]
  <2>1. s \in Sids /\ k.sem[s].owner = 0
    BY <1>2, SearchFindsFree DEF FreeSids
  <2>2. k \in MemoryType /\ Placed(k) /\ Credits(k) /\ k.panic = FALSE
    BY MemoryFields DEF Good
  <2>3. k.sem[s].wait_q = <<>>
    BY <2>1, <2>2 DEF Credits
  <2>4. n = [k EXCEPT !.sem[s] = entry]
    BY <1>2 DEF SemAllocHandler
  <2>5. /\ n.current_pid = k.current_pid /\ n.ready_q = k.ready_q /\ n.free_q = k.free_q
        /\ n.pcb = k.pcb /\ n.panic = FALSE
        /\ n.sem = [k.sem EXCEPT ![s] = entry]
        /\ n = [current_pid |-> n.current_pid, ready_q |-> n.ready_q, free_q |-> n.free_q,
                pcb |-> n.pcb, sem |-> n.sem, panic |-> n.panic]
    BY <2>2, <2>4 DEF MemoryType
  <2>6. entry \in SemType
    BY RunningPid DEF SemType
  <2>7. n \in MemoryType
    BY <2>1, <2>2, <2>5, <2>6, MemoryFields DEF MemoryType
  <2>8. \A sid \in Sids : n.sem[sid] = IF sid = s THEN entry ELSE k.sem[sid]
    BY <2>2, <2>5, MemoryFields
  <2>9. \A sid \in Sids : n.sem[sid].wait_q = k.sem[sid].wait_q
    BY <2>3, <2>8
  <2>10. \A sid \in Sids : Waiters(n, sid) = Waiters(k, sid)
    BY <2>9 DEF Waiters
  <2>11. Placed(n)
    BY <2>2, <2>5, <2>9, <2>10 DEF Placed
  <2>12. Credits(n)
    BY <2>2, <2>3, <2>8 DEF Credits
  <2>13. Slice(n) /\ InitRunnable(n)
    BY <2>5 DEF Good, Slice, InitRunnable
  <2>14. QED  BY <2>5, <2>7, <2>11, <2>12, <2>13 DEF Good
<1>3. QED  BY <1>1, <1>2

LEMMA WithWaitQ ==
  ASSUME NEW e \in SemType, NEW w
  PROVE  [e EXCEPT !.wait_q = w] = [owner |-> e.owner, passes |-> e.passes, wait_q |-> w]
<1>1. e = [owner |-> e.owner, passes |-> e.passes, wait_q |-> e.wait_q]
  BY DEF SemType
<1>2. \A a, b, c : [[owner |-> a, passes |-> b, wait_q |-> c] EXCEPT !.wait_q = w] =
                     [owner |-> a, passes |-> b, wait_q |-> w]
  OBVIOUS
<1>3. QED  BY <1>1, <1>2

\* What a semaphore table looks like when one wait queue in it has been replaced.
LEMMA SetWaitQ ==
  ASSUME NEW table \in [Sids -> SemType], NEW sid \in Sids, NEW w \in Seq(Pids)
  PROVE  /\ [table EXCEPT ![sid].wait_q = w] \in [Sids -> SemType]
         /\ \A other \in Sids :
              /\ [table EXCEPT ![sid].wait_q = w][other].wait_q =
                   IF other = sid THEN w ELSE table[other].wait_q
              /\ [table EXCEPT ![sid].wait_q = w][other].owner = table[other].owner
              /\ [table EXCEPT ![sid].wait_q = w][other].passes = table[other].passes
<1> DEFINE n == [table EXCEPT ![sid].wait_q = w]
           entry == [owner |-> table[sid].owner, passes |-> table[sid].passes, wait_q |-> w]
<1>1. [table[sid] EXCEPT !.wait_q = w] = entry
  BY WithWaitQ
<1>2. n = [table EXCEPT ![sid] = [table[sid] EXCEPT !.wait_q = w]]
  OBVIOUS
<1>3. n = [table EXCEPT ![sid] = entry]
  BY <1>1, <1>2
<1>4. entry \in SemType
  BY DEF SemType
<1>5. n \in [Sids -> SemType]
  BY <1>3, <1>4
<1>6. /\ n[sid] = entry
      /\ \A other \in Sids : other # sid => n[other] = table[other]
  BY <1>3
<1>7. entry.wait_q = w /\ entry.owner = table[sid].owner /\ entry.passes = table[sid].passes
  OBVIOUS
<1> HIDE DEF n, entry
<1>8. \A other \in Sids :
        /\ n[other].wait_q = IF other = sid THEN w ELSE table[other].wait_q
        /\ n[other].owner = table[other].owner
        /\ n[other].passes = table[other].passes
  BY <1>6, <1>7
<1>9. QED  BY <1>5, <1>8 DEF n

LEMMA SemWaitGood ==
  ASSUME NEW k, Good(k), k.current_pid # 0, InitRunnable(k), k.current_pid # InitPid,
         NEW sid \in Sids, k.sem[sid].owner # 0
  PROVE  /\ Good(SemWaitHandler(k, sid))
         /\ InitRunnable(SemWaitHandler(k, sid))
         /\ SemWaitHandler(k, sid).sem =
              IF k.sem[sid].passes > 0
              THEN [k.sem EXCEPT ![sid].passes = @ - 1]
              ELSE [k.sem EXCEPT ![sid].wait_q = Append(@, k.current_pid)]
<1> DEFINE n == SemWaitHandler(k, sid)
           p == k.current_pid
<1>1. k \in MemoryType /\ Placed(k) /\ Credits(k) /\ k.panic = FALSE
  BY MemoryFields DEF Good
<1>2. /\ p \in Pids /\ k.pcb[p].state = "RUN"
      /\ p \notin Members(k.ready_q) /\ p \notin Members(k.free_q)
      /\ \A other \in Sids : p \notin Waiters(k, other)
  BY RunningPid
<1>3. /\ k.sem \in [Sids -> SemType] /\ k.pcb \in [Pids -> PcbType]
      /\ k.sem[sid] \in SemType /\ k.sem[sid].passes \in Nat
      /\ k.sem[sid].wait_q \in Seq(Pids)
  BY <1>1, MemoryFields DEF SemType
<1>4. CASE k.sem[sid].passes > 0
  <2>1. n = [k EXCEPT !.sem[sid].passes = @ - 1]
    BY <1>4 DEF SemWaitHandler
  <2>2. /\ n.current_pid = p /\ n.ready_q = k.ready_q /\ n.free_q = k.free_q
        /\ n.pcb = k.pcb /\ n.panic = FALSE
        /\ n.sem = [k.sem EXCEPT ![sid].passes = @ - 1]
        /\ n = [current_pid |-> n.current_pid, ready_q |-> n.ready_q, free_q |-> n.free_q,
                pcb |-> n.pcb, sem |-> n.sem, panic |-> n.panic]
    BY <1>1, <2>1 DEF MemoryType
  <2>3. k.sem[sid].passes - 1 \in Nat
    BY <1>3, <1>4
  <2>4. /\ n.sem \in [Sids -> SemType]
        /\ \A other \in Sids : /\ n.sem[other].wait_q = k.sem[other].wait_q
                               /\ n.sem[other].owner = k.sem[other].owner
                               /\ n.sem[other].passes > 0 => k.sem[other].passes > 0
    BY <1>3, <1>4, <2>2, <2>3 DEF SemType
  <2>5. n \in MemoryType
    BY <1>1, <2>2, <2>4, MemoryFields DEF MemoryType
  <2>6. \A other \in Sids : Waiters(n, other) = Waiters(k, other)
    BY <2>4 DEF Waiters
  <2>7. Placed(n)
    BY <1>1, <2>2, <2>4, <2>6 DEF Placed
  <2>8. Credits(n)
    BY <1>1, <2>4 DEF Credits
  <2>9. Slice(n) /\ InitRunnable(n)
    BY <2>2 DEF Good, Slice, InitRunnable
  <2>10. QED  BY <1>4, <2>2, <2>5, <2>7, <2>8, <2>9 DEF Good
<1>5. CASE ~(k.sem[sid].passes > 0)
  <2> DEFINE wait == Append(k.sem[sid].wait_q, p)
  <2>1. NoRepeats(k.sem[sid].wait_q) /\ p \notin Members(k.sem[sid].wait_q)
    BY <1>1, <1>2 DEF Placed, Waiters
  <2>2. /\ Enqueue(k.sem[sid].wait_q, p) = wait
        /\ wait \in Seq(Pids) /\ NoRepeats(wait)
        /\ Members(wait) = Members(k.sem[sid].wait_q) \cup {p}
    BY <1>2, <1>3, <2>1, RoomInQueue, MembersOfAppend
  <2>3. n = [k EXCEPT !.sem[sid].wait_q = wait, !.pcb[p].state = "WAIT", !.current_pid = 0]
    BY <1>5, <2>2 DEF SemWaitHandler
  <2>4. /\ n.current_pid = 0 /\ n.ready_q = k.ready_q /\ n.free_q = k.free_q
        /\ n.pcb = [k.pcb EXCEPT ![p].state = "WAIT"] /\ n.panic = FALSE
        /\ n.sem = [k.sem EXCEPT ![sid].wait_q = wait]
        /\ n = [current_pid |-> n.current_pid, ready_q |-> n.ready_q, free_q |-> n.free_q,
                pcb |-> n.pcb, sem |-> n.sem, panic |-> n.panic]
    BY <1>1, <2>3 DEF MemoryType
  <2>5. /\ n.sem \in [Sids -> SemType]
        /\ \A other \in Sids :
             /\ n.sem[other].wait_q = IF other = sid THEN wait ELSE k.sem[other].wait_q
             /\ n.sem[other].owner = k.sem[other].owner
             /\ n.sem[other].passes = k.sem[other].passes
    <3> HIDE DEF n, wait
    <3>a. k.sem \in [Sids -> SemType] /\ wait \in Seq(Pids)
      BY <1>3, <2>2
    <3>1. /\ [k.sem EXCEPT ![sid].wait_q = wait] \in [Sids -> SemType]
          /\ \A other \in Sids :
               /\ [k.sem EXCEPT ![sid].wait_q = wait][other].wait_q =
                    IF other = sid THEN wait ELSE k.sem[other].wait_q
               /\ [k.sem EXCEPT ![sid].wait_q = wait][other].owner = k.sem[other].owner
               /\ [k.sem EXCEPT ![sid].wait_q = wait][other].passes = k.sem[other].passes
      BY <3>a, SetWaitQ
    <3>2. QED  BY <2>4, <3>1
  <2>6. /\ n.pcb \in [Pids -> PcbType]
        /\ \A pid \in Pids : n.pcb[pid].state = IF pid = p THEN "WAIT" ELSE k.pcb[pid].state
    BY <1>2, <1>3, <2>4 DEF PcbType
  <2>7. n \in MemoryType
    BY <1>1, <2>4, <2>5, <2>6, MemoryFields DEF MemoryType
  <2>8. \A other \in Sids :
          Waiters(n, other) = IF other = sid THEN Waiters(k, sid) \cup {p} ELSE Waiters(k, other)
    BY <2>2, <2>5 DEF Waiters
  <2>9. Placed(n)
    <3>1. /\ NoRepeats(n.ready_q) /\ NoRepeats(n.free_q)
          /\ \A other \in Sids : NoRepeats(n.sem[other].wait_q)
      BY <1>1, <2>2, <2>4, <2>5 DEF Placed
    <3>2. ASSUME NEW pid \in Pids
          PROVE  /\ n.pcb[pid].state = "RUN"   <=> pid = n.current_pid
                 /\ n.pcb[pid].state = "READY" <=> pid \in Members(n.ready_q)
                 /\ n.pcb[pid].state = "FREE"  <=> pid \in Members(n.free_q)
                 /\ n.pcb[pid].state = "WAIT"  <=> \E s \in Sids : pid \in Waiters(n, s)
      BY <1>1, <1>2, <2>4, <2>6, <2>8, PidsArePositive DEF Placed
    <3>3. \A s, t \in Sids : Waiters(n, s) \cap Waiters(n, t) # {} => s = t
      BY <1>1, <1>2, <2>8 DEF Placed
    <3>4. QED  BY <3>1, <3>2, <3>3 DEF Placed
  <2>10. Credits(n)
    BY <1>1, <1>5, <2>5 DEF Credits
  <2>11. Slice(n)
    BY <2>4 DEF Slice
  <2>12. InitRunnable(n)
    BY <2>4 DEF InitRunnable
  <2>13. n.sem = [k.sem EXCEPT ![sid].wait_q = Append(@, p)]
    BY <2>4
  <2>14. QED  BY <1>5, <2>4, <2>7, <2>9, <2>10, <2>11, <2>12, <2>13 DEF Good
<1>6. QED  BY <1>4, <1>5

LEMMA SemPostGood ==
  ASSUME NEW k, Good(k), k.current_pid # 0, InitRunnable(k), NEW sid \in Sids
  PROVE  /\ Good(SemPostHandler(k, sid))
         /\ SemPostHandler(k, sid).current_pid = k.current_pid
         /\ InitRunnable(SemPostHandler(k, sid))
         /\ SemPostHandler(k, sid).sem =
              IF k.sem[sid].wait_q = <<>>
              THEN [k.sem EXCEPT ![sid].passes = @ + 1]
              ELSE [k.sem EXCEPT ![sid].wait_q = Tail(@)]
<1> DEFINE n == SemPostHandler(k, sid)
           p == Head(k.sem[sid].wait_q)
<1>1. k \in MemoryType /\ Placed(k) /\ Credits(k) /\ k.panic = FALSE
  BY MemoryFields DEF Good
<1>2. /\ k.sem \in [Sids -> SemType] /\ k.pcb \in [Pids -> PcbType]
      /\ k.ready_q \in Seq(Pids)
      /\ k.sem[sid] \in SemType /\ k.sem[sid].passes \in Nat
      /\ k.sem[sid].wait_q \in Seq(Pids)
  BY <1>1, MemoryFields DEF SemType
<1>3. CASE k.sem[sid].wait_q = <<>>
  <2>1. n = [k EXCEPT !.sem[sid].passes = @ + 1]
    BY <1>3 DEF SemPostHandler
  <2>2. /\ n.current_pid = k.current_pid /\ n.ready_q = k.ready_q /\ n.free_q = k.free_q
        /\ n.pcb = k.pcb /\ n.panic = FALSE
        /\ n.sem = [k.sem EXCEPT ![sid].passes = @ + 1]
        /\ n = [current_pid |-> n.current_pid, ready_q |-> n.ready_q, free_q |-> n.free_q,
                pcb |-> n.pcb, sem |-> n.sem, panic |-> n.panic]
    BY <1>1, <2>1 DEF MemoryType
  <2>3. k.sem[sid].passes + 1 \in Nat
    BY <1>2
  <2>4. /\ n.sem \in [Sids -> SemType]
        /\ \A other \in Sids :
             /\ n.sem[other].wait_q = k.sem[other].wait_q
             /\ n.sem[other].owner = k.sem[other].owner
             /\ other # sid => n.sem[other].passes = k.sem[other].passes
    BY <1>2, <2>2, <2>3 DEF SemType
  <2>5. n \in MemoryType
    BY <1>1, <2>2, <2>4, MemoryFields DEF MemoryType
  <2>6. \A other \in Sids : Waiters(n, other) = Waiters(k, other)
    BY <2>4 DEF Waiters
  <2>7. Placed(n)
    BY <1>1, <2>2, <2>4, <2>6 DEF Placed
  <2>8. Credits(n)
    BY <1>1, <1>3, <2>4 DEF Credits
  <2>9. Slice(n) /\ InitRunnable(n)
    BY <2>2 DEF Good, Slice, InitRunnable
  <2>10. QED  BY <1>3, <2>2, <2>5, <2>7, <2>8, <2>9 DEF Good
<1>4. CASE k.sem[sid].wait_q # <<>>
  <2> DEFINE wait == Tail(k.sem[sid].wait_q)
             back == Append(k.ready_q, p)
  <2>1. NoRepeats(k.sem[sid].wait_q) /\ NoRepeats(k.ready_q)
    BY <1>1 DEF Placed
  <2>2. /\ p \in Pids /\ p \in Waiters(k, sid)
        /\ wait \in Seq(Pids) /\ NoRepeats(wait) /\ Members(wait) = Waiters(k, sid) \ {p}
    BY <1>2, <1>4, <2>1, MembersOfTail DEF Waiters
  <2>3. /\ k.pcb[p].state = "WAIT" /\ p \notin Members(k.ready_q)
        /\ p \notin Members(k.free_q) /\ p # k.current_pid
        /\ \A other \in Sids : p \in Waiters(k, other) => other = sid
    BY <1>1, <2>2 DEF Placed
  <2>4. /\ Enqueue(k.ready_q, p) = back
        /\ back \in Seq(Pids) /\ NoRepeats(back)
        /\ Members(back) = Members(k.ready_q) \cup {p}
    BY <1>2, <2>1, <2>2, <2>3, RoomInQueue, MembersOfAppend
  <2>5. n = [k EXCEPT !.sem[sid].wait_q = wait, !.ready_q = back, !.pcb[p].state = "READY"]
    BY <1>4, <2>4 DEF SemPostHandler
  <2>6. /\ n.current_pid = k.current_pid /\ n.ready_q = back /\ n.free_q = k.free_q
        /\ n.pcb = [k.pcb EXCEPT ![p].state = "READY"] /\ n.panic = FALSE
        /\ n.sem = [k.sem EXCEPT ![sid].wait_q = wait]
        /\ n = [current_pid |-> n.current_pid, ready_q |-> n.ready_q, free_q |-> n.free_q,
                pcb |-> n.pcb, sem |-> n.sem, panic |-> n.panic]
    BY <1>1, <2>5 DEF MemoryType
  <2>7. /\ n.sem \in [Sids -> SemType]
        /\ \A other \in Sids :
             /\ n.sem[other].wait_q = IF other = sid THEN wait ELSE k.sem[other].wait_q
             /\ n.sem[other].owner = k.sem[other].owner
             /\ n.sem[other].passes = k.sem[other].passes
    <3> HIDE DEF n, wait
    <3>1. /\ [k.sem EXCEPT ![sid].wait_q = wait] \in [Sids -> SemType]
          /\ \A other \in Sids :
               /\ [k.sem EXCEPT ![sid].wait_q = wait][other].wait_q =
                    IF other = sid THEN wait ELSE k.sem[other].wait_q
               /\ [k.sem EXCEPT ![sid].wait_q = wait][other].owner = k.sem[other].owner
               /\ [k.sem EXCEPT ![sid].wait_q = wait][other].passes = k.sem[other].passes
      BY <1>2, <2>2, SetWaitQ
    <3>2. QED  BY <2>6, <3>1
  <2>8. /\ n.pcb \in [Pids -> PcbType]
        /\ \A pid \in Pids :
             /\ n.pcb[pid].state = IF pid = p THEN "READY" ELSE k.pcb[pid].state
             /\ n.pcb[pid].cpu_time = k.pcb[pid].cpu_time
    <3> DEFINE old == k.pcb[p]
               entry == [state |-> "READY", cpu_time |-> old.cpu_time]
    <3>1. old = [state |-> old.state, cpu_time |-> old.cpu_time] /\ entry \in PcbType
      BY <1>2, <2>2 DEF PcbType
    <3>2. [old EXCEPT !.state = "READY"] = entry
      BY <3>1
    <3>3. n.pcb = [k.pcb EXCEPT ![p] = entry]
      BY <2>6, <3>2
    <3>4. \A pid \in Pids : n.pcb[pid] = IF pid = p THEN entry ELSE k.pcb[pid]
      BY <1>2, <3>3
    <3>5. n.pcb \in [Pids -> PcbType]
      BY <1>2, <3>1, <3>3
    <3>6. QED  BY <3>4, <3>5
  <2>9. n \in MemoryType
    BY <1>1, <2>4, <2>6, <2>7, <2>8, MemoryFields DEF MemoryType
  <2>10. \A other \in Sids :
           Waiters(n, other) = IF other = sid THEN Waiters(k, sid) \ {p} ELSE Waiters(k, other)
    BY <2>2, <2>7 DEF Waiters
  <2>11. Placed(n)
    <3>1. /\ NoRepeats(n.ready_q) /\ NoRepeats(n.free_q)
          /\ \A other \in Sids : NoRepeats(n.sem[other].wait_q)
      BY <1>1, <2>2, <2>4, <2>6, <2>7 DEF Placed
    <3>2. ASSUME NEW pid \in Pids
          PROVE  /\ n.pcb[pid].state = "RUN"   <=> pid = n.current_pid
                 /\ n.pcb[pid].state = "READY" <=> pid \in Members(n.ready_q)
                 /\ n.pcb[pid].state = "FREE"  <=> pid \in Members(n.free_q)
                 /\ n.pcb[pid].state = "WAIT"  <=> \E s \in Sids : pid \in Waiters(n, s)
      <4>1. CASE pid = p
        BY <2>3, <2>4, <2>6, <2>8, <2>10, <4>1
      <4>2. CASE pid # p
        <5>1. n.pcb[pid].state = k.pcb[pid].state
          BY <2>8, <4>2
        <5>2. pid \in Members(n.ready_q) <=> pid \in Members(k.ready_q)
          BY <2>4, <2>6, <4>2
        <5>3. \A s \in Sids : pid \in Waiters(n, s) <=> pid \in Waiters(k, s)
          BY <2>10, <4>2
        <5>4. QED  BY <1>1, <2>6, <5>1, <5>2, <5>3 DEF Placed
      <4>3. QED  BY <4>1, <4>2
    <3>3. \A s, t \in Sids : Waiters(n, s) \cap Waiters(n, t) # {} => s = t
      BY <1>1, <2>10 DEF Placed
    <3>4. QED  BY <3>1, <3>2, <3>3 DEF Placed
  <2>12. Credits(n)
    <3>1. ~(k.sem[sid].passes > 0 \/ k.sem[sid].owner = 0)
      BY <1>1, <1>4 DEF Credits
    <3>2. QED  BY <1>1, <2>7, <3>1 DEF Credits
  <2>13. Slice(n)
    BY <2>6, <2>8, RunningPid DEF Good, Slice
  <2>14. InitRunnable(n)
    BY <2>4, <2>6 DEF InitRunnable
  <2>15. n.sem = [k.sem EXCEPT ![sid].wait_q = Tail(@)]
    BY <2>6
  <2>16. QED  BY <1>4, <2>6, <2>9, <2>11, <2>12, <2>13, <2>14, <2>15 DEF Good
<1>5. QED  BY <1>3, <1>4

-----------------------------------------------------------------------------
(***************************************************************************)
(* The initial state and the steps.  A step's lemma says that it preserves *)
(* IInv, and what it does to the semaphore table.                          *)
(***************************************************************************)
LEMMA InitIInv == Init => IInv
<1> SUFFICES ASSUME Init PROVE IInv
  OBVIOUS
<1> DEFINE k == Memory
<1>1. PROC_NUM \in Nat /\ PROC_NUM - 1 \in Nat /\ TIME_LIMIT \in Nat
  BY KernelAssumption DEF KernelAssumption
<1>2. /\ k.current_pid = 0 /\ k.ready_q = <<>> /\ k.panic = FALSE
      /\ k.free_q = [i \in 1 .. PROC_NUM - 1 |-> i]
      /\ k.pcb = [pid \in Pids |-> [state |-> "FREE", cpu_time |-> 0]]
      /\ k.sem = [sid \in Sids |-> [owner |-> 0, passes |-> 0, wait_q |-> <<>>]]
  BY DEF Init, Memory
<1>3. /\ k.free_q \in Seq(Pids) /\ Len(k.free_q) = PROC_NUM - 1
      /\ \A i \in Pids : k.free_q[i] = i
      /\ DOMAIN k.free_q = Pids
  BY <1>1, <1>2 DEF Pids
<1>4. Members(k.free_q) = Pids /\ NoRepeats(k.free_q)
  BY <1>3 DEF Members, NoRepeats
<1>5. Members(<<>>) = {} /\ NoRepeats(<<>>) /\ <<>> \in Seq(Pids)
  BY DEF Members, NoRepeats
<1>6. k \in MemoryType
  <2>1. k.pcb \in [Pids -> PcbType]
    BY <1>1, <1>2 DEF PcbType
  <2>2. k.sem \in [Sids -> SemType]
    BY <1>2, <1>5 DEF SemType
  <2>3. QED  BY <1>2, <1>3, <1>5, <2>1, <2>2 DEF MemoryType, Memory
<1>7. Placed(k)
  <2>1. \A sid \in Sids : k.sem[sid].wait_q = <<>> /\ Waiters(k, sid) = {}
    BY <1>2, <1>5 DEF Waiters
  <2>2. \A pid \in Pids : k.pcb[pid].state = "FREE"
    BY <1>2
  <2>3. QED  BY <1>2, <1>4, <1>5, <2>1, <2>2, PidsArePositive DEF Placed
<1>8. Credits(k) /\ Slice(k)
  BY <1>2 DEF Credits, Slice
<1>9. BootShape(k)
  <2>1. Len(k.ready_q) = 0
    BY <1>2
  <2>2. k.free_q # <<>> /\ Head(k.free_q) = k.free_q[1]
    BY <1>1, <1>3, PidsArePositive
  <2>3. Head(k.free_q) = InitPid
    BY <1>3, <2>2, PidsArePositive DEF InitPid
  <2>4. \A a \in Int : a + 0 = a
    OBVIOUS
  <2>5. Len(k.free_q) + Len(k.ready_q) = PROC_NUM - 1
    BY <1>1, <1>3, <2>1, <2>4
  <2>6. QED  BY <1>2, <2>2, <2>3, <2>5 DEF BootShape
<1>10. current_pid = 0
  BY DEF Init
<1>11. QED  BY <1>2, <1>6, <1>7, <1>8, <1>9, <1>10 DEF IInv, Good

\* Return(r) makes r the memory.
LEMMA Returned ==
  ASSUME NEW r \in MemoryType, Return(r)
  PROVE  Memory' = r /\ current_pid' = r.current_pid /\ sem' = r.sem
  BY DEF Return, Memory, MemoryType

LEMMA CreateStep ==
  ASSUME IInv, Create
  PROVE  IInv' /\ sem' = sem
<1> DEFINE k == Memory
           r == NewProcHandler(k)
<1>1. /\ k.current_pid = 0 /\ k.ready_q = ready_q /\ k.sem = sem
      /\ Good(k) /\ BootShape(k) /\ Len(ready_q) < NPROCS
  BY DEF IInv, Create, Booting, Memory
<1>2. k.free_q \in Seq(Pids) /\ k.ready_q \in Seq(Pids)
  BY <1>1, MemoryFields DEF Good
<1>3. PROC_NUM \in Nat /\ NPROCS \in Nat /\ NPROCS <= PROC_NUM - 1
  BY KernelAssumption DEF KernelAssumption
<1>4. /\ Len(k.free_q) \in Nat /\ Len(k.ready_q) \in Nat
      /\ Len(k.free_q) + Len(k.ready_q) = PROC_NUM - 1
  BY <1>1, <1>2, LenProperties DEF BootShape
<1>5. Len(k.free_q) # 0
  BY <1>1, <1>3, <1>4
<1>6. k.free_q # <<>>
  BY <1>5
<1>7. /\ Good(r) /\ r.current_pid = 0 /\ r.sem = k.sem
      /\ r.free_q = Tail(k.free_q) /\ r.ready_q = Append(k.ready_q, Head(k.free_q))
  BY <1>1, <1>6, NewProcGood
<1>8. BootShape(r)
  <2>1. Len(r.free_q) = Len(k.free_q) - 1
    BY <1>2, <1>6, <1>7, HeadTailProperties
  <2>2. Head(k.free_q) \in Pids
    BY <1>2, <1>6, HeadTailProperties
  <2>3. Len(r.ready_q) = Len(k.ready_q) + 1 /\ r.ready_q # <<>>
    BY <1>2, <1>7, <2>2, AppendProperties
  <2>4. Head(r.ready_q) = InitPid
    <3>1. CASE k.ready_q = <<>>
      BY <1>1, <1>7, <2>2, <3>1 DEF BootShape
    <3>2. CASE k.ready_q # <<>>
      <4>1. Head(r.ready_q) = Head(k.ready_q)
        BY <1>2, <1>7, <2>2, <3>2
      <4>2. QED  BY <1>1, <3>2, <4>1 DEF BootShape
    <3>3. QED  BY <3>1, <3>2
  <2>5. Len(r.free_q) + Len(r.ready_q) = PROC_NUM - 1
    <3> DEFINE a == Len(k.free_q)
               b == Len(k.ready_q)
               c == PROC_NUM - 1
    <3>1. a \in Int /\ b \in Int /\ c \in Int /\ a + b = c
      <4>1. a \in Nat /\ b \in Nat /\ a + b = c
        BY <1>4
      <4>2. c \in Int
        BY <1>3
      <4> HIDE DEF a, b, c
      <4>3. QED  BY <4>1, <4>2
    <3>2. Len(r.free_q) = a - 1 /\ Len(r.ready_q) = b + 1
      BY <2>1, <2>3
    <3> HIDE DEF a, b, c
    <3>3. (a - 1) + (b + 1) = c
      BY <3>1
    <3>4. QED  BY <3>2, <3>3 DEF c
  <2>6. QED  BY <2>3, <2>4, <2>5 DEF BootShape
<1>9. Memory' = r /\ current_pid' = r.current_pid /\ sem' = r.sem
  BY <1>7, Returned DEF Create, Good
<1>10. QED  BY <1>1, <1>7, <1>8, <1>9 DEF IInv

LEMMA StartStep ==
  ASSUME IInv, Start
  PROVE  IInv' /\ sem' = sem
<1> DEFINE k == Memory
           r == Scheduler(k)
<1>1. /\ k.current_pid = 0 /\ k.ready_q = ready_q /\ k.sem = sem
      /\ Good(k) /\ BootShape(k) /\ Len(ready_q) = NPROCS
  BY DEF IInv, Start, Booting, Memory
<1>2. k.ready_q # <<>>
  <2>1. NPROCS # 0
    BY KernelAssumption DEF KernelAssumption
  <2>2. QED  BY <1>1, <2>1
<1>3. Head(k.ready_q) = InitPid
  BY <1>1, <1>2 DEF BootShape
<1>4. Good(r) /\ r.current_pid = InitPid /\ r.sem = k.sem
  BY <1>1, <1>2, <1>3, SchedulerGood
<1>5. Memory' = r /\ current_pid' = r.current_pid /\ sem' = r.sem
  BY <1>4, Returned DEF Start, Good
<1>6. InitRunnable(r) /\ InitPid # 0
  BY <1>4, PidsArePositive DEF InitRunnable
<1>7. QED  BY <1>1, <1>4, <1>5, <1>6 DEF IInv

\* What IInv says while processes run.
LEMMA RunningMemory ==
  ASSUME IInv, Running
  PROVE  /\ Good(Memory) /\ InitRunnable(Memory)
         /\ Memory.current_pid = current_pid /\ current_pid # 0
         /\ Memory.sem = sem
  BY DEF IInv, Running, Memory

(***************************************************************************)
(* A handler that leaves a good memory h, with proc.c Init runnable, is    *)
(* followed by a Scheduler() that finds a process.                         *)
(***************************************************************************)
LEMMA ScheduledStep ==
  ASSUME NEW h, Good(h), InitRunnable(h), Return(Scheduler(h))
  PROVE  IInv' /\ sem' = h.sem
<1> DEFINE r == Scheduler(h)
<1>1. Good(r) /\ r.current_pid # 0 /\ r.sem = h.sem /\ InitRunnable(r)
  <2>1. CASE h.current_pid # 0
    BY <2>1 DEF Scheduler
  <2>2. CASE h.current_pid = 0
    <3>1. InitPid \in Members(h.ready_q)
      BY <2>2, PidsArePositive DEF InitRunnable
    <3>2. h.ready_q # <<>>
      BY <3>1 DEF Members
    <3>3. h.ready_q \in Seq(Pids)
      BY MemoryFields DEF Good
    <3>4. Head(h.ready_q) # 0
      BY <3>2, <3>3, HeadTailProperties, PidsArePositive
    <3>5. QED  BY <2>2, <3>1, <3>2, <3>4, SchedulerGood
  <2>3. QED  BY <2>1, <2>2
<1>2. Memory' = r /\ current_pid' = r.current_pid /\ sem' = r.sem
  BY <1>1, Returned DEF Good
<1>3. QED  BY <1>1, <1>2 DEF IInv

LEMMA TimerStep ==
  ASSUME IInv, Timer
  PROVE  IInv' /\ sem' = sem
<1> DEFINE h == TimerHandler(Memory)
<1>1. Good(h) /\ InitRunnable(h) /\ h.sem = sem
  BY RunningMemory, TimerGood DEF Timer
<1>2. QED  BY <1>1, ScheduledStep DEF Timer

LEMMA SemAllocStep ==
  ASSUME IInv, NEW passes \in INIT_PASSES, SemAlloc(passes)
  PROVE  /\ IInv'
         /\ \/ sem' = sem
            \/ \E s \in Sids :
                 /\ sem[s].owner = 0 /\ sem[s].wait_q = <<>>
                 /\ sem' = [sem EXCEPT ![s] =
                              [owner |-> current_pid, passes |-> passes, wait_q |-> <<>>]]
<1> DEFINE k == Memory
           h == SemAllocHandler(k, passes)
<1>1. Running /\ Return(Scheduler(h))
  BY DEF SemAlloc, InUserProcess
<1>2. /\ Good(k) /\ InitRunnable(k) /\ k.current_pid # 0 /\ k.sem = sem
      /\ k.current_pid = current_pid
  BY <1>1, RunningMemory
<1>3. passes \in Nat
  BY KernelAssumption DEF KernelAssumption
<1>4. /\ Good(h) /\ InitRunnable(h)
      /\ FreeSids(k) # {} =>
           h.sem = [k.sem EXCEPT ![SemAllocResult(k, passes)] =
                      [owner |-> k.current_pid, passes |-> passes, wait_q |-> <<>>]]
  BY <1>2, <1>3, SemAllocGood
<1>5. IInv' /\ sem' = h.sem
  BY <1>1, <1>4, ScheduledStep
<1>6. CASE FreeSids(k) = {}
  <2>1. h = k
    BY <1>6 DEF SemAllocHandler
  <2>2. QED  BY <1>2, <1>5, <2>1
<1>7. CASE FreeSids(k) # {}
  <2> DEFINE s == SemAllocResult(k, passes)
  <2>1. s \in Sids /\ k.sem[s].owner = 0
    BY <1>7, SearchFindsFree DEF FreeSids
  <2>2. k.sem[s].wait_q = <<>>
    BY <1>2, <2>1 DEF Good, Credits
  <2>3. sem' = [sem EXCEPT ![s] =
                  [owner |-> current_pid, passes |-> passes, wait_q |-> <<>>]]
    BY <1>2, <1>4, <1>5, <1>7
  <2>4. QED  BY <1>2, <1>5, <2>1, <2>2, <2>3
<1>8. QED  BY <1>6, <1>7

LEMMA SemWaitStep ==
  ASSUME IInv, NEW sid \in Sids, SemWait(sid)
  PROVE  /\ IInv'
         /\ sem' = IF sem[sid].passes > 0
                   THEN [sem EXCEPT ![sid].passes = @ - 1]
                   ELSE [sem EXCEPT ![sid].wait_q = Append(@, current_pid)]
<1> DEFINE k == Memory
           h == SemWaitHandler(k, sid)
<1>1. /\ Running /\ current_pid # InitPid /\ sem[sid].owner # 0
      /\ Return(Scheduler(h))
  BY DEF SemWait, InUserProcess
<1>2. /\ Good(k) /\ InitRunnable(k) /\ k.current_pid # 0 /\ k.sem = sem
      /\ k.current_pid = current_pid
  BY <1>1, RunningMemory
<1>3. /\ Good(h) /\ InitRunnable(h)
      /\ h.sem = IF k.sem[sid].passes > 0
                 THEN [k.sem EXCEPT ![sid].passes = @ - 1]
                 ELSE [k.sem EXCEPT ![sid].wait_q = Append(@, k.current_pid)]
  BY <1>1, <1>2, SemWaitGood
<1>4. IInv' /\ sem' = h.sem
  BY <1>1, <1>3, ScheduledStep
<1>5. QED  BY <1>2, <1>3, <1>4

LEMMA SemPostStep ==
  ASSUME IInv, NEW sid \in Sids, SemPost(sid)
  PROVE  /\ IInv'
         /\ sem' = IF sem[sid].wait_q = <<>>
                   THEN [sem EXCEPT ![sid].passes = @ + 1]
                   ELSE [sem EXCEPT ![sid].wait_q = Tail(@)]
<1> DEFINE k == Memory
           h == SemPostHandler(k, sid)
<1>1. Running /\ Return(Scheduler(h))
  BY DEF SemPost
<1>2. /\ Good(k) /\ InitRunnable(k) /\ k.current_pid # 0 /\ k.sem = sem
      /\ k.current_pid = current_pid
  BY <1>1, RunningMemory
<1>3. /\ Good(h) /\ InitRunnable(h)
      /\ h.sem = IF k.sem[sid].wait_q = <<>>
                 THEN [k.sem EXCEPT ![sid].passes = @ + 1]
                 ELSE [k.sem EXCEPT ![sid].wait_q = Tail(@)]
  BY <1>2, SemPostGood
<1>4. IInv' /\ sem' = h.sem
  BY <1>1, <1>3, ScheduledStep
<1>5. QED  BY <1>2, <1>3, <1>4

LEMMA IInvInvariant == Spec => []IInv
<1>1. Init => IInv
  BY InitIInv
<1>2. IInv /\ [Next]_vars => IInv'
  <2> SUFFICES ASSUME IInv, [Next]_vars PROVE IInv'
    OBVIOUS
  <2>1. CASE Create
    BY <2>1, CreateStep
  <2>2. CASE Start
    BY <2>2, StartStep
  <2>3. CASE Timer
    BY <2>3, TimerStep
  <2>4. ASSUME NEW passes \in INIT_PASSES, SemAlloc(passes) PROVE IInv'
    BY <2>4, SemAllocStep
  <2>5. ASSUME NEW sid \in Sids, SemWait(sid) PROVE IInv'
    BY <2>5, SemWaitStep
  <2>6. ASSUME NEW sid \in Sids, SemPost(sid) PROVE IInv'
    BY <2>6, SemPostStep
  <2>7. CASE UNCHANGED vars
    BY <2>7 DEF IInv, Memory, vars
  <2>8. QED  BY <2>1, <2>2, <2>3, <2>4, <2>5, <2>6, <2>7 DEF Next
<1>3. QED  BY <1>1, <1>2, PTL DEF Spec

\* The variables keep their types.
THEOREM TypeCorrect == Spec => []TypeOK
<1>1. IInv => TypeOK
  BY DEF IInv, Good, MemoryType, Memory, TypeOK
<1>2. QED  BY <1>1, IInvInvariant, PTL

\* Every pid is in the one queue its state names: Kernel() never loses or duplicates a process.
THEOREM NobodyLost == Spec => []EveryPidInItsPlace
<1>1. IInv => EveryPidInItsPlace
  BY DEF IInv, Good, Placed, Waiters, Memory, EveryPidInItsPlace
<1>2. QED  BY <1>1, IInvInvariant, PTL

\* SemWait and SemPost never leave a process waiting for a pass that is there.
THEOREM NoLostWakeup == Spec => []NoWaiterWhilePasses
<1>1. IInv => NoWaiterWhilePasses
  BY DEF IInv, Good, Credits, Memory, NoWaiterWhilePasses
<1>2. QED  BY <1>1, IInvInvariant, PTL

\* The Scheduler and NewProcHandler never reach breakpoint().
THEOREM NeverPanics == Spec => []NoPanic
<1>1. IInv => NoPanic
  BY DEF IInv, Good, Memory, NoPanic
<1>2. QED  BY <1>1, IInvInvariant, PTL

\* cpu_time never steps over the TIME_LIMIT that TimerHandler compares it with.
THEOREM SliceBounded == Spec => []SliceNotExceeded
<1>1. IInv => SliceNotExceeded
  BY DEF IInv, Good, Slice, Memory, SliceNotExceeded
<1>2. QED  BY <1>1, IInvInvariant, PTL

-----------------------------------------------------------------------------
(***************************************************************************)
(* The refinement.  Under IInv, a step of the semaphore table is a step of *)
(* CountingSemaphore or leaves its variables alone.                        *)
(***************************************************************************)
Value(table)   == [sid \in Sids |-> table[sid].passes - Len(table[sid].wait_q)]
Blocked(table) == [sid \in Sids |-> Members(table[sid].wait_q)]
Live(table)    == {sid \in Sids : table[sid].owner # 0}

\* Names that keep formulas small for the provers.
With(f, s, x) == [f EXCEPT ![s] = x]
OnlyAt(s)     == \A sid \in Sids \ {s} : sem'[sid] = sem[sid]
LiveWith(s)   == IF sem'[s].owner = 0 THEN Live(sem) \ {s} ELSE Live(sem) \cup {s}

\* The abstract variables after one entry s of the table has changed.
LEMMA EntryChanged ==
  ASSUME NEW s \in Sids, OnlyAt(s)
  PROVE  /\ Value(sem') = With(Value(sem), s, sem'[s].passes - Len(sem'[s].wait_q))
         /\ Blocked(sem') = With(Blocked(sem), s, Members(sem'[s].wait_q))
         /\ Live(sem') = LiveWith(s)
<1>1. Value(sem') = With(Value(sem), s, sem'[s].passes - Len(sem'[s].wait_q))
  BY DEF Value, With, OnlyAt
<1>2. Blocked(sem') = With(Blocked(sem), s, Members(sem'[s].wait_q))
  BY DEF Blocked, With, OnlyAt
<1>3. Live(sem') = LiveWith(s)
  BY DEF Live, LiveWith, OnlyAt
<1>4. QED  BY <1>1, <1>2, <1>3

LEMMA AllocateRefined ==
  ASSUME IInv, NEW s \in Sids, NEW passes \in INIT_PASSES, current_pid # 0,
         sem[s].owner = 0,
         sem' = [sem EXCEPT ![s] =
                   [owner |-> current_pid, passes |-> passes, wait_q |-> <<>>]]
  PROVE  Semaphores!Allocate(s, passes)
<1>1. sem \in [Sids -> SemType] /\ current_pid \in {0} \cup Pids
  BY MemoryFields DEF IInv, Good, Memory
<1>2. passes \in Nat /\ <<>> \in Seq(Pids)
  BY KernelAssumption DEF KernelAssumption
<1>3. /\ Value(sem') = [Value(sem) EXCEPT ![s] = passes - 0]
      /\ Blocked(sem') = [Blocked(sem) EXCEPT ![s] = Members(<<>>)]
      /\ Live(sem') = Live(sem) \cup {s}
  <2>1. /\ OnlyAt(s)
        /\ sem'[s].owner = current_pid /\ sem'[s].passes = passes
        /\ sem'[s].wait_q = <<>>
    BY <1>1 DEF OnlyAt
  <2>2. /\ Value(sem') = With(Value(sem), s, sem'[s].passes - Len(sem'[s].wait_q))
        /\ Blocked(sem') = With(Blocked(sem), s, Members(sem'[s].wait_q))
        /\ Live(sem') = LiveWith(s)
    BY <2>1, EntryChanged, Zenon
  <2>3. QED  BY <2>1, <2>2 DEF With, LiveWith
<1>4. Members(<<>>) = {} /\ passes - 0 = passes
  BY KernelAssumption DEF Members, KernelAssumption
<1>5. s \notin Live(sem)
  BY DEF Live
<1>6. /\ Value(sem') = [Value(sem) EXCEPT ![s] = passes]
      /\ Blocked(sem') = [Blocked(sem) EXCEPT ![s] = {}]
  BY <1>3, <1>4
<1>7. QED  BY <1>3, <1>5, <1>6 DEF Semaphores!Allocate, Value, Blocked, Live

LEMMA WaitRefined ==
  ASSUME IInv, NEW s \in Sids, SemWait(s)
  PROVE  Semaphores!P(s, current_pid)
<1> DEFINE p == current_pid
           old == sem[s]
<1>1. /\ sem \in [Sids -> SemType]
      /\ sem' = IF old.passes > 0
                THEN [sem EXCEPT ![s].passes = @ - 1]
                ELSE [sem EXCEPT ![s].wait_q = Append(@, p)]
  BY SemWaitStep, MemoryFields DEF IInv, Good, Memory
<1>2. old \in SemType /\ old.passes \in Nat /\ old.wait_q \in Seq(Pids) /\ old.owner # 0
  BY <1>1 DEF SemType, SemWait
<1>3. s \in Live(sem)
  BY <1>2 DEF Live
<1>4. p \in Pids /\ \A sid \in Sids : p \notin Members(sem[sid].wait_q)
  BY RunningMemory, RunningPid DEF SemWait, InUserProcess, Memory, Waiters
<1>5. ~Semaphores!IsBlocked(p)
  BY <1>4 DEF Semaphores!IsBlocked
<1>6. old = [owner |-> old.owner, passes |-> old.passes, wait_q |-> old.wait_q]
  BY <1>2 DEF SemType
<1>7. CASE old.passes > 0
  <2> DEFINE e == [owner |-> old.owner, passes |-> old.passes - 1, wait_q |-> old.wait_q]
  <2>1. old.wait_q = <<>>
    BY <1>7 DEF IInv, Good, Credits, Memory
  <2>2. [old EXCEPT !.passes = @ - 1] = e
    BY <1>6
  <2>3. sem' = [sem EXCEPT ![s] = e]
    BY <1>1, <1>7, <2>2
  <2>4. old.owner \in {0} \cup Pids /\ old.passes - 1 \in Nat
    BY <1>2, <1>7 DEF SemType
  <2>5. /\ Value(sem') = [Value(sem) EXCEPT ![s] = (old.passes - 1) - Len(old.wait_q)]
        /\ Blocked(sem') = [Blocked(sem) EXCEPT ![s] = Members(old.wait_q)]
        /\ Live(sem') = Live(sem) \cup {s}
    <3>1. /\ OnlyAt(s)
          /\ sem'[s].owner = old.owner /\ sem'[s].passes = old.passes - 1
          /\ sem'[s].wait_q = old.wait_q
      BY <1>1, <2>3 DEF OnlyAt
    <3>2. /\ Value(sem') = With(Value(sem), s, sem'[s].passes - Len(sem'[s].wait_q))
          /\ Blocked(sem') = With(Blocked(sem), s, Members(sem'[s].wait_q))
          /\ Live(sem') = LiveWith(s)
      BY <3>1, EntryChanged, Zenon
    <3>3. QED  BY <1>2, <3>1, <3>2 DEF With, LiveWith
  <2>6. Value(sem)[s] = old.passes /\ Value(sem)[s] > 0 /\ Len(old.wait_q) = 0
    BY <1>2, <1>7, <2>1 DEF Value
  <2>7. Blocked(sem)[s] = Members(old.wait_q) /\ Live(sem) \cup {s} = Live(sem)
    BY <1>3 DEF Blocked
  <2>8. (old.passes - 1) - Len(old.wait_q) = Value(sem)[s] - 1
    BY <1>2, <2>6
  <2>9. /\ Value(sem') = [Value(sem) EXCEPT ![s] = @ - 1]
        /\ Blocked(sem') = [Blocked(sem) EXCEPT ![s] = @]
        /\ Live(sem') = Live(sem)
    BY <2>5, <2>7, <2>8
  <2>10. QED  BY <1>3, <1>5, <2>6, <2>9 DEF Semaphores!P, Value, Blocked, Live
<1>8. CASE ~(old.passes > 0)
  <2> DEFINE wait == Append(old.wait_q, p)
             e == [owner |-> old.owner, passes |-> old.passes, wait_q |-> wait]
  <2>1. /\ wait \in Seq(Pids) /\ Members(wait) = Members(old.wait_q) \cup {p}
        /\ Len(wait) = Len(old.wait_q) + 1
    BY <1>2, <1>4, MembersOfAppend, AppendProperties
  <2>2. [old EXCEPT !.wait_q = Append(@, p)] = e
    BY <1>2, WithWaitQ
  <2>3. sem' = [sem EXCEPT ![s] = e]
    BY <1>1, <1>8, <2>2
  <2>4. old.owner \in {0} \cup Pids
    BY <1>2 DEF SemType
  <2>5. /\ Value(sem') = [Value(sem) EXCEPT ![s] = old.passes - Len(wait)]
        /\ Blocked(sem') = [Blocked(sem) EXCEPT ![s] = Members(wait)]
        /\ Live(sem') = Live(sem) \cup {s}
    <3>1. /\ OnlyAt(s)
          /\ sem'[s].owner = old.owner /\ sem'[s].passes = old.passes
          /\ sem'[s].wait_q = wait
      BY <1>1, <2>3 DEF OnlyAt
    <3>2. /\ Value(sem') = With(Value(sem), s, sem'[s].passes - Len(sem'[s].wait_q))
          /\ Blocked(sem') = With(Blocked(sem), s, Members(sem'[s].wait_q))
          /\ Live(sem') = LiveWith(s)
      BY <3>1, EntryChanged, Zenon
    <3>3. QED  BY <1>2, <3>1, <3>2 DEF With, LiveWith
  <2>6. /\ Value(sem)[s] = old.passes - Len(old.wait_q)
        /\ old.passes = 0 /\ Len(old.wait_q) \in Nat
    BY <1>2, <1>8, LenProperties DEF Value
  <2>7. ~(Value(sem)[s] > 0) /\ old.passes - Len(wait) = Value(sem)[s] - 1
    BY <2>1, <2>6
  <2>8. Blocked(sem)[s] = Members(old.wait_q) /\ Live(sem) \cup {s} = Live(sem)
    BY <1>3 DEF Blocked
  <2>9. /\ Value(sem') = [Value(sem) EXCEPT ![s] = @ - 1]
        /\ Blocked(sem') = [Blocked(sem) EXCEPT ![s] = @ \cup {p}]
        /\ Live(sem') = Live(sem)
    BY <2>1, <2>5, <2>7, <2>8
  <2>10. QED  BY <1>3, <1>5, <2>7, <2>9 DEF Semaphores!P, Value, Blocked, Live
<1>9. QED  BY <1>7, <1>8

LEMMA PostRefined ==
  ASSUME IInv, NEW s \in Sids, SemPost(s)
  PROVE  Semaphores!V(s)
<1> DEFINE old == sem[s]
<1>1. /\ sem \in [Sids -> SemType]
      /\ sem' = IF old.wait_q = <<>>
                THEN [sem EXCEPT ![s].passes = @ + 1]
                ELSE [sem EXCEPT ![s].wait_q = Tail(@)]
  BY SemPostStep, MemoryFields DEF IInv, Good, Memory
<1>2. old \in SemType /\ old.passes \in Nat /\ old.wait_q \in Seq(Pids)
  BY <1>1 DEF SemType
<1>3. old = [owner |-> old.owner, passes |-> old.passes, wait_q |-> old.wait_q]
  BY <1>2 DEF SemType
<1>4. CASE old.wait_q = <<>>
  <2> DEFINE e == [owner |-> old.owner, passes |-> old.passes + 1, wait_q |-> old.wait_q]
  <2>1. [old EXCEPT !.passes = @ + 1] = e
    BY <1>3
  <2>2. sem' = [sem EXCEPT ![s] = e]
    BY <1>1, <1>4, <2>1
  <2>3. old.owner \in {0} \cup Pids /\ old.passes + 1 \in Nat
    BY <1>2 DEF SemType
  <2>4. /\ Value(sem') = [Value(sem) EXCEPT ![s] = (old.passes + 1) - Len(old.wait_q)]
        /\ Blocked(sem') = [Blocked(sem) EXCEPT ![s] = Members(old.wait_q)]
        /\ Live(sem') = IF old.owner = 0 THEN Live(sem) \ {s} ELSE Live(sem) \cup {s}
    <3>1. /\ OnlyAt(s)
          /\ sem'[s].owner = old.owner /\ sem'[s].passes = old.passes + 1
          /\ sem'[s].wait_q = old.wait_q
      BY <1>1, <2>2 DEF OnlyAt
    <3>2. /\ Value(sem') = With(Value(sem), s, sem'[s].passes - Len(sem'[s].wait_q))
          /\ Blocked(sem') = With(Blocked(sem), s, Members(sem'[s].wait_q))
          /\ Live(sem') = LiveWith(s)
      BY <3>1, EntryChanged, Zenon
    <3>3. QED  BY <3>1, <3>2 DEF With, LiveWith
  <2>5. Value(sem)[s] = old.passes /\ Value(sem)[s] >= 0 /\ Len(old.wait_q) = 0
    BY <1>2, <1>4 DEF Value
  <2>6. (old.passes + 1) - Len(old.wait_q) = Value(sem)[s] + 1
    BY <1>2, <2>5
  <2>7. Blocked(sem)[s] = Members(old.wait_q)
    BY DEF Blocked
  <2>8. Live(sem') = Live(sem)
    BY <2>4 DEF Live
  <2>9. /\ Value(sem') = [Value(sem) EXCEPT ![s] = @ + 1]
        /\ Blocked(sem') = Blocked(sem)
    <3>1. Blocked(sem) = [Blocked(sem) EXCEPT ![s] = Blocked(sem)[s]]
      BY DEF Blocked
    <3>2. QED  BY <2>4, <2>6, <2>7, <3>1
  <2>10. QED  BY <2>5, <2>8, <2>9 DEF Semaphores!V, Value, Blocked, Live
<1>5. CASE old.wait_q # <<>>
  <2> DEFINE wait == Tail(old.wait_q)
             p == Head(old.wait_q)
             e == [owner |-> old.owner, passes |-> old.passes, wait_q |-> wait]
  <2>1. NoRepeats(old.wait_q) /\ ~(old.passes > 0)
    BY <1>5 DEF IInv, Good, Placed, Credits, Memory
  <2>2. /\ p \in Members(old.wait_q) /\ wait \in Seq(Pids)
        /\ Members(wait) = Members(old.wait_q) \ {p}
        /\ Len(wait) = Len(old.wait_q) - 1
    BY <1>2, <1>5, <2>1, MembersOfTail, HeadTailProperties
  <2>3. [old EXCEPT !.wait_q = Tail(@)] = e
    BY <1>2, WithWaitQ
  <2>4. sem' = [sem EXCEPT ![s] = e]
    BY <1>1, <1>5, <2>3
  <2>5. old.owner \in {0} \cup Pids
    BY <1>2 DEF SemType
  <2>6. /\ Value(sem') = [Value(sem) EXCEPT ![s] = old.passes - Len(wait)]
        /\ Blocked(sem') = [Blocked(sem) EXCEPT ![s] = Members(wait)]
        /\ Live(sem') = IF old.owner = 0 THEN Live(sem) \ {s} ELSE Live(sem) \cup {s}
    <3>1. /\ OnlyAt(s)
          /\ sem'[s].owner = old.owner /\ sem'[s].passes = old.passes
          /\ sem'[s].wait_q = wait
      <4>1. e.owner = old.owner /\ e.passes = old.passes /\ e.wait_q = wait
        OBVIOUS
      <4> HIDE DEF e, wait
      <4>2. OnlyAt(s) /\ sem'[s] = e
        BY <1>1, <2>4 DEF OnlyAt
      <4>3. QED  BY <4>1, <4>2
    <3>2. /\ Value(sem') = With(Value(sem), s, sem'[s].passes - Len(sem'[s].wait_q))
          /\ Blocked(sem') = With(Blocked(sem), s, Members(sem'[s].wait_q))
          /\ Live(sem') = LiveWith(s)
      BY <3>1, EntryChanged, Zenon
    <3>3. QED  BY <3>1, <3>2 DEF With, LiveWith
  <2>7. /\ Value(sem)[s] = old.passes - Len(old.wait_q)
        /\ old.passes = 0 /\ Len(old.wait_q) \in Nat \ {0}
    BY <1>2, <1>5, <2>1, LenProperties, EmptySeq DEF Value
  <2>8. ~(Value(sem)[s] >= 0) /\ old.passes - Len(wait) = Value(sem)[s] + 1
    BY <2>2, <2>7
  <2>9. Blocked(sem)[s] = Members(old.wait_q)
    BY DEF Blocked
  <2>10. Live(sem') = Live(sem)
    BY <2>6 DEF Live
  <2>11. /\ Value(sem') = [Value(sem) EXCEPT ![s] = @ + 1]
         /\ p \in Blocked(sem)[s]
         /\ Blocked(sem') = [Blocked(sem) EXCEPT ![s] = @ \ {p}]
    BY <2>2, <2>6, <2>8, <2>9
  <2>12. QED  BY <2>8, <2>10, <2>11 DEF Semaphores!V, Value, Blocked, Live
<1>6. QED  BY <1>4, <1>5

(***************************************************************************)
(* The semaphore table behaves as counting semaphores, whatever order the  *)
(* system calls and the timer come in (handlers.c SemAllocHandler,         *)
(* SemWaitHandler and SemPostHandler).                                     *)
(***************************************************************************)
THEOREM SemaphoresCorrect == Spec => ImplementsSemaphores
<1>1. Init => Semaphores!Init
  <2> SUFFICES ASSUME Init PROVE Semaphores!Init
    OBVIOUS
  <2>1. sem = [sid \in Sids |-> [owner |-> 0, passes |-> 0, wait_q |-> <<>>]]
    BY DEF Init
  <2>2. Members(<<>>) = {} /\ Len(<<>>) = 0
    BY DEF Members
  <2>3. Value(sem) = [sid \in Sids |-> 0]
    BY <2>1, <2>2 DEF Value
  <2>4. Blocked(sem) = [sid \in Sids |-> {}]
    BY <2>1, <2>2 DEF Blocked
  <2>5. Live(sem) = {}
    BY <2>1 DEF Live
  <2>6. QED  BY <2>3, <2>4, <2>5 DEF Semaphores!Init, Value, Blocked, Live
<1>2. IInv /\ [Next]_vars => [Semaphores!Next]_(Semaphores!semVars)
  <2> SUFFICES ASSUME IInv, [Next]_vars PROVE [Semaphores!Next]_(Semaphores!semVars)
    OBVIOUS
  <2>1. ASSUME sem' = sem PROVE UNCHANGED Semaphores!semVars
    BY <2>1 DEF Semaphores!semVars
  <2>2. CASE Create \/ Start \/ Timer
    BY <2>1, <2>2, CreateStep, StartStep, TimerStep
  <2>3. ASSUME NEW passes \in INIT_PASSES, SemAlloc(passes)
        PROVE  [Semaphores!Next]_(Semaphores!semVars)
    <3>1. CASE sem' = sem
      BY <2>1, <3>1
    <3>2. CASE sem' # sem
      <4>1. PICK s \in Sids :
              /\ sem[s].owner = 0
              /\ sem' = [sem EXCEPT ![s] =
                           [owner |-> current_pid, passes |-> passes, wait_q |-> <<>>]]
        BY <2>3, <3>2, SemAllocStep
      <4>2. current_pid # 0
        BY <2>3 DEF SemAlloc, InUserProcess, Running
      <4>3. Semaphores!Allocate(s, passes)
        BY <4>1, <4>2, AllocateRefined
      <4>4. QED  BY <4>3 DEF Semaphores!Next
    <3>3. QED  BY <3>1, <3>2
  <2>4. ASSUME NEW s \in Sids, SemWait(s) PROVE [Semaphores!Next]_(Semaphores!semVars)
    <3>1. current_pid \in Pids
      BY <2>4, RunningMemory, RunningPid DEF SemWait, InUserProcess
    <3>2. Semaphores!P(s, current_pid)
      BY <2>4, WaitRefined
    <3>3. \E c \in Pids : Semaphores!P(s, c)
      BY <3>1, <3>2 DEF Semaphores!P
    <3>4. Semaphores!Next
      BY <3>3 DEF Semaphores!Next
    <3>5. QED  BY <3>4
  <2>5. ASSUME NEW s \in Sids, SemPost(s) PROVE [Semaphores!Next]_(Semaphores!semVars)
    BY <2>5, PostRefined DEF Semaphores!Next
  <2>6. CASE UNCHANGED vars
    BY <2>1, <2>6 DEF vars
  <2>7. QED  BY <2>2, <2>3, <2>4, <2>5, <2>6 DEF Next
<1>3. QED  BY <1>1, <1>2, IInvInvariant, PTL DEF Spec, ImplementsSemaphores, Semaphores!Spec

-----------------------------------------------------------------------------
(***************************************************************************)
(* Nobody is overtaken.  A queue changes by a pid that comes to its back,  *)
(* and by its front that leaves.                                           *)
(***************************************************************************)
Ahead(q, r) ==
  \A pid \in Pids : pid \in Members(q) \cap Members(r) => Place(r, pid) <= Place(q, pid)

LEMMA PlaceIs ==
  ASSUME NEW q \in Seq(Pids), NoRepeats(q), NEW i \in 1 .. Len(q)
  PROVE  Place(q, q[i]) = i
<1>1. DOMAIN q = 1 .. Len(q)
  BY LenProperties
<1>2. \A j \in DOMAIN q : q[j] = q[i] => j = i
  BY <1>1 DEF NoRepeats
<1>3. QED  BY <1>1, <1>2 DEF Place

LEMMA SameAhead ==
  ASSUME NEW q \in Seq(Pids), NoRepeats(q)
  PROVE  Ahead(q, q)
<1> SUFFICES ASSUME NEW pid \in Members(q) PROVE Place(q, pid) <= Place(q, pid)
  BY DEF Ahead
<1>1. PICK i \in 1 .. Len(q) : pid = q[i]
  BY LenProperties DEF Members
<1>2. Place(q, pid) = i /\ Len(q) \in Nat
  BY <1>1, PlaceIs, LenProperties
<1>3. QED  BY <1>2

LEMMA AppendAhead ==
  ASSUME NEW q \in Seq(Pids), NoRepeats(q), NEW x \in Pids, x \notin Members(q)
  PROVE  Ahead(q, Append(q, x))
<1> DEFINE r == Append(q, x)
<1>1. /\ r \in Seq(Pids) /\ NoRepeats(r) /\ Len(q) \in Nat /\ Len(r) = Len(q) + 1
      /\ \A i \in 1 .. Len(q) : r[i] = q[i]
  BY MembersOfAppend, AppendProperties, LenProperties
<1> SUFFICES ASSUME NEW pid \in Members(q) PROVE Place(r, pid) <= Place(q, pid)
  BY DEF Ahead
<1>2. PICK i \in 1 .. Len(q) : pid = q[i]
  BY LenProperties DEF Members
<1>3. i \in 1 .. Len(r) /\ pid = r[i] /\ i \in Int
  BY <1>1, <1>2
<1> HIDE DEF r
<1>4. Place(q, pid) = i /\ Place(r, pid) = i
  BY <1>1, <1>2, <1>3, PlaceIs
<1>5. QED  BY <1>3, <1>4

LEMMA TailAhead ==
  ASSUME NEW q \in Seq(Pids), NoRepeats(q), q # <<>>
  PROVE  Ahead(q, Tail(q))
<1> DEFINE r == Tail(q)
<1>1. /\ r \in Seq(Pids) /\ NoRepeats(r) /\ Len(q) \in Nat /\ Len(r) = Len(q) - 1
      /\ \A i \in 1 .. Len(q) - 1 : r[i] = q[i + 1]
  BY MembersOfTail, HeadTailProperties, LenProperties
<1> SUFFICES ASSUME NEW pid \in Members(r) PROVE Place(r, pid) <= Place(q, pid)
  BY DEF Ahead
<1> HIDE DEF r
<1>2. PICK i \in 1 .. Len(r) : pid = r[i]
  BY <1>1, LenProperties DEF Members
<1>3. i + 1 \in 1 .. Len(q) /\ pid = q[i + 1] /\ i \in Int
  BY <1>1, <1>2
<1>4. Place(q, pid) = i + 1 /\ Place(r, pid) = i
  BY <1>1, <1>2, <1>3, PlaceIs
<1>5. QED  BY <1>3, <1>4

LEMMA PlaceTyped ==
  ASSUME NEW q \in Seq(Pids), NoRepeats(q), NEW pid \in Members(q)
  PROVE  Place(q, pid) \in Nat
<1>1. PICK i \in 1 .. Len(q) : pid = q[i]
  BY LenProperties DEF Members
<1>2. Len(q) \in Nat /\ i \in Nat
  BY LenProperties
<1>3. QED  BY <1>1, <1>2, PlaceIs

LEMMA AheadTransitive ==
  ASSUME NEW q \in Seq(Pids), NEW m \in Seq(Pids), NEW r \in Seq(Pids),
         NoRepeats(q), NoRepeats(m), NoRepeats(r), Members(q) \subseteq Members(m),
         Ahead(q, m), Ahead(m, r)
  PROVE  Ahead(q, r)
<1> SUFFICES ASSUME NEW pid \in Pids, pid \in Members(q), pid \in Members(r)
             PROVE  Place(r, pid) <= Place(q, pid)
  BY DEF Ahead
<1>1. Place(m, pid) <= Place(q, pid) /\ Place(r, pid) <= Place(m, pid)
  BY DEF Ahead
<1>2. Place(q, pid) \in Nat /\ Place(m, pid) \in Nat /\ Place(r, pid) \in Nat
  BY PlaceTyped
<1>3. QED  BY <1>1, <1>2

\* The Scheduler takes at most the front of ready_q.
LEMMA SchedulerAhead ==
  ASSUME NEW h, Good(h)
  PROVE  Ahead(h.ready_q, Scheduler(h).ready_q)
<1>1. h \in MemoryType /\ h.ready_q \in Seq(Pids) /\ NoRepeats(h.ready_q)
  BY MemoryFields DEF Good, Placed
<1>2. CASE h.current_pid # 0
  BY <1>1, <1>2, SameAhead DEF Scheduler
<1>3. CASE h.current_pid = 0 /\ h.ready_q = <<>>
  <2>1. Scheduler(h) = [h EXCEPT !.panic = TRUE]
    BY <1>3 DEF Scheduler
  <2>2. Scheduler(h).ready_q = h.ready_q
    BY <1>1, <2>1 DEF MemoryType
  <2>3. QED  BY <1>1, <2>2, SameAhead
<1>4. CASE h.current_pid = 0 /\ h.ready_q # <<>>
  <2>1. Scheduler(h) = [h EXCEPT !.current_pid = Head(h.ready_q), !.ready_q = Tail(h.ready_q),
                                 !.pcb[Head(h.ready_q)] = [state |-> "RUN", cpu_time |-> 0]]
    BY <1>4 DEF Scheduler
  <2>2. Scheduler(h).ready_q = Tail(h.ready_q)
    BY <1>1, <2>1 DEF MemoryType
  <2>3. QED  BY <1>1, <1>4, <2>2, TailAhead
<1>5. QED  BY <1>2, <1>3, <1>4

\* What a handler puts at the back of ready_q was not in it.
Joined(k, h) ==
  \/ h.ready_q = k.ready_q
  \/ \E x \in Pids : x \notin Members(k.ready_q) /\ h.ready_q = Append(k.ready_q, x)

LEMMA JoinedAhead ==
  ASSUME NEW k, Good(k), NEW h, Good(h), Joined(k, h)
  PROVE  Ahead(k.ready_q, Scheduler(h).ready_q)
<1>1. /\ k.ready_q \in Seq(Pids) /\ NoRepeats(k.ready_q)
      /\ h.ready_q \in Seq(Pids) /\ NoRepeats(h.ready_q)
  BY MemoryFields DEF Good, Placed
<1>2. Ahead(h.ready_q, Scheduler(h).ready_q)
  BY SchedulerAhead
<1>3. CASE h.ready_q = k.ready_q
  BY <1>2, <1>3
<1>4. ASSUME NEW x \in Pids, x \notin Members(k.ready_q), h.ready_q = Append(k.ready_q, x)
      PROVE  Ahead(k.ready_q, Scheduler(h).ready_q)
  <2>1. Ahead(k.ready_q, h.ready_q) /\ Members(k.ready_q) \subseteq Members(h.ready_q)
    BY <1>1, <1>4, AppendAhead, MembersOfAppend
  <2>2. Scheduler(h).ready_q \in Seq(Pids) /\ NoRepeats(Scheduler(h).ready_q)
    <3>1. CASE h.current_pid # 0
      BY <1>1, <3>1 DEF Scheduler
    <3>2. CASE h.current_pid = 0
      <4>1. h.ready_q # <<>>
        BY <1>1, <1>4, MembersOfAppend
      <4>2. Good(Scheduler(h))
        BY <3>2, <4>1, SchedulerGood
      <4>3. QED  BY <4>2, MemoryFields DEF Good, Placed
    <3>3. QED  BY <3>1, <3>2
  <2>3. QED  BY <1>1, <1>2, <2>1, <2>2, AheadTransitive
<1>5. QED  BY <1>3, <1>4 DEF Joined

LEMMA NewProcJoins ==
  ASSUME NEW k, Good(k), k.free_q # <<>>, k.current_pid = 0
  PROVE  Ahead(k.ready_q, NewProcHandler(k).ready_q)
<1> DEFINE x == Head(k.free_q)
<1>1. /\ k.ready_q \in Seq(Pids) /\ NoRepeats(k.ready_q)
      /\ k.free_q \in Seq(Pids) /\ NoRepeats(k.free_q) /\ Placed(k)
  BY MemoryFields DEF Good, Placed
<1>2. x \in Pids /\ x \in Members(k.free_q)
  BY <1>1, MembersOfTail
<1>3. x \notin Members(k.ready_q)
  BY <1>1, <1>2 DEF Placed
<1>4. NewProcHandler(k).ready_q = Append(k.ready_q, x)
  BY NewProcGood
<1>5. QED  BY <1>1, <1>2, <1>3, <1>4, AppendAhead

LEMMA TimerJoins ==
  ASSUME NEW k, Good(k), k.current_pid # 0
  PROVE  Joined(k, TimerHandler(k))
<1> DEFINE p == k.current_pid
           ticked == [k EXCEPT !.pcb[p].cpu_time = @ + 1]
<1>1. /\ k \in MemoryType /\ k.ready_q \in Seq(Pids) /\ NoRepeats(k.ready_q)
      /\ p \in Pids /\ p \notin Members(k.ready_q)
  BY MemoryFields, RunningPid DEF Good, Placed
<1>2. ticked.ready_q = k.ready_q
  BY <1>1 DEF MemoryType
<1>3. CASE TimerHandler(k) = ticked
  BY <1>2, <1>3 DEF Joined
<1>4. CASE TimerHandler(k) # ticked
  <2> DEFINE q == Enqueue(k.ready_q, p)
  <2>1. TimerHandler(k) = [ticked EXCEPT !.pcb[p].state = "READY", !.ready_q = q, !.current_pid = 0]
    BY <1>4 DEF TimerHandler
  <2>2. TimerHandler(k).ready_q = q
    BY <1>1, <2>1 DEF MemoryType
  <2>3. q = Append(k.ready_q, p)
    BY <1>1, RoomInQueue
  <2>4. QED  BY <1>1, <2>2, <2>3 DEF Joined
<1>5. QED  BY <1>3, <1>4

LEMMA CallsJoin ==
  ASSUME NEW k, Good(k), k.current_pid # 0
  PROVE  /\ \A passes : Joined(k, SemAllocHandler(k, passes))
         /\ \A sid \in Sids : Joined(k, SemWaitHandler(k, sid)) /\ Joined(k, SemPostHandler(k, sid))
<1>0. k \in MemoryType /\ Placed(k) /\ k.ready_q \in Seq(Pids) /\ NoRepeats(k.ready_q)
  BY MemoryFields DEF Good, Placed
<1>1. ASSUME NEW passes PROVE SemAllocHandler(k, passes).ready_q = k.ready_q
  BY <1>0 DEF SemAllocHandler, MemoryType
<1>2. ASSUME NEW sid \in Sids PROVE SemWaitHandler(k, sid).ready_q = k.ready_q
  BY <1>0 DEF SemWaitHandler, MemoryType
<1>3. ASSUME NEW sid \in Sids PROVE Joined(k, SemPostHandler(k, sid))
  <2> DEFINE w == k.sem[sid].wait_q
  <2>1. CASE w = <<>>
    <3>1. SemPostHandler(k, sid).ready_q = k.ready_q
      BY <1>0, <2>1 DEF SemPostHandler, MemoryType
    <3>2. QED  BY <3>1 DEF Joined
  <2>2. CASE w # <<>>
    <3> DEFINE q == Enqueue(k.ready_q, Head(w))
    <3>1. w \in Seq(Pids) /\ NoRepeats(w)
      BY <1>0, MemoryFields DEF SemType, Placed
    <3>2. Head(w) \in Pids /\ Head(w) \in Waiters(k, sid)
      BY <2>2, <3>1, MembersOfTail DEF Waiters
    <3>3. Head(w) \notin Members(k.ready_q)
      BY <1>0, <3>2 DEF Placed
    <3>4. SemPostHandler(k, sid).ready_q = q
      BY <1>0, <2>2 DEF SemPostHandler, MemoryType
    <3>5. q = Append(k.ready_q, Head(w))
      BY <1>0, <3>2, <3>3, RoomInQueue
    <3>6. QED  BY <3>2, <3>3, <3>4, <3>5 DEF Joined
  <2>3. QED  BY <2>1, <2>2
<1>4. QED  BY <1>1, <1>2, <1>3 DEF Joined

\* ready_q, in every step.
LEMMA ReadyInOrder ==
  ASSUME IInv, [Next]_vars
  PROVE  Ahead(ready_q, ready_q')
<1> DEFINE k == Memory
<1>0. Good(k) /\ k.ready_q = ready_q /\ ready_q \in Seq(Pids) /\ NoRepeats(ready_q)
  BY MemoryFields DEF IInv, Memory, Good, Placed
<1>1. ASSUME NEW h, Good(h), InitRunnable(h), Joined(k, h), Return(Scheduler(h))
      PROVE  Ahead(ready_q, ready_q')
  BY <1>0, <1>1, JoinedAhead DEF Return
<1>2. CASE Create
  <2>1. /\ k.current_pid = 0 /\ BootShape(k) /\ Len(k.ready_q) < NPROCS
        /\ Return(NewProcHandler(k))
    BY <1>2 DEF IInv, Create, Booting, Memory
  <2>2. NPROCS \in Nat /\ PROC_NUM \in Nat /\ NPROCS <= PROC_NUM - 1
    BY KernelAssumption DEF KernelAssumption
  <2>3. k.free_q # <<>>
    <3> SUFFICES ASSUME k.free_q = <<>> PROVE FALSE
      OBVIOUS
    <3>1. Len(k.free_q) = 0 /\ Len(k.ready_q) \in Nat
      BY <1>0, LenProperties
    <3>2. QED  BY <2>1, <2>2, <3>1 DEF BootShape
  <2>4. QED  BY <1>0, <2>1, <2>3, NewProcJoins DEF Return
<1>3. CASE Start
  BY <1>0, <1>3, SchedulerAhead DEF Start, Return
<1>4. CASE Timer
  <2>1. Good(TimerHandler(k)) /\ InitRunnable(TimerHandler(k)) /\ Joined(k, TimerHandler(k))
    BY <1>4, RunningMemory, TimerGood, TimerJoins DEF Timer
  <2>2. QED  BY <1>1, <1>4, <2>1 DEF Timer
<1>5. ASSUME NEW passes \in INIT_PASSES, SemAlloc(passes) PROVE Ahead(ready_q, ready_q')
  <2> DEFINE h == SemAllocHandler(k, passes)
  <2>1. passes \in Nat
    BY KernelAssumption DEF KernelAssumption
  <2>2. Good(h) /\ InitRunnable(h) /\ Joined(k, h)
    BY <1>5, <2>1, RunningMemory, SemAllocGood, CallsJoin DEF SemAlloc, InUserProcess
  <2>3. Return(Scheduler(h))
    BY <1>5 DEF SemAlloc
  <2>4. QED  BY <1>1, <2>2, <2>3
<1>6. ASSUME NEW sid \in Sids, SemWait(sid) PROVE Ahead(ready_q, ready_q')
  <2> DEFINE h == SemWaitHandler(k, sid)
  <2>1. Good(h) /\ InitRunnable(h) /\ Joined(k, h)
    BY <1>6, RunningMemory, SemWaitGood, CallsJoin DEF SemWait, InUserProcess
  <2>2. Return(Scheduler(h))
    BY <1>6 DEF SemWait
  <2>3. QED  BY <1>1, <2>1, <2>2
<1>7. ASSUME NEW sid \in Sids, SemPost(sid) PROVE Ahead(ready_q, ready_q')
  <2> DEFINE h == SemPostHandler(k, sid)
  <2>1. Good(h) /\ InitRunnable(h) /\ Joined(k, h)
    BY <1>7, RunningMemory, SemPostGood, CallsJoin DEF SemPost
  <2>2. Return(Scheduler(h))
    BY <1>7 DEF SemPost
  <2>3. QED  BY <1>1, <2>1, <2>2
<1>8. CASE UNCHANGED vars
  BY <1>0, <1>8, SameAhead DEF vars
<1>9. QED  BY <1>2, <1>3, <1>4, <1>5, <1>6, <1>7, <1>8 DEF Next

\* The wait queues, in every step.
LEMMA WaitersInOrder ==
  ASSUME IInv, [Next]_vars, NEW s \in Sids
  PROVE  Ahead(sem[s].wait_q, sem'[s].wait_q)
<1>0. /\ sem \in [Sids -> SemType]
      /\ \A sid \in Sids : /\ sem[sid] \in SemType /\ sem[sid].wait_q \in Seq(Pids)
                           /\ NoRepeats(sem[sid].wait_q)
  <2>1. Memory \in MemoryType /\ Memory.sem = sem /\ Placed(Memory)
    BY DEF IInv, Good, Memory
  <2>2. QED  BY <2>1, MemoryFields DEF Placed, SemType
<1>1. CASE sem' = sem
  BY <1>0, <1>1, SameAhead
<1>2. CASE sem'[s].wait_q = <<>>
  <2>1. Members(sem'[s].wait_q) = {}
    BY <1>2 DEF Members
  <2>2. QED  BY <2>1 DEF Ahead
<1>3. CASE sem'[s].wait_q = sem[s].wait_q
  BY <1>0, <1>3, SameAhead
<1>4. ASSUME NEW passes \in INIT_PASSES, SemAlloc(passes) PROVE Ahead(sem[s].wait_q, sem'[s].wait_q)
  <2>1. ASSUME NEW t \in Sids,
               sem' = [sem EXCEPT ![t] = [owner |-> current_pid, passes |-> passes, wait_q |-> <<>>]]
        PROVE  sem'[s].wait_q = <<>> \/ sem'[s].wait_q = sem[s].wait_q
    BY <1>0, <2>1
  <2>2. QED  BY <1>1, <1>2, <1>3, <1>4, <2>1, SemAllocStep
<1>5. ASSUME NEW sid \in Sids, SemWait(sid) PROVE Ahead(sem[s].wait_q, sem'[s].wait_q)
  <2>1. CASE sem[sid].passes > 0
    <3>1. sem' = [sem EXCEPT ![sid].passes = @ - 1]
      BY <1>5, <2>1, SemWaitStep
    <3>2. sem'[s].wait_q = sem[s].wait_q
      BY <1>0, <3>1 DEF SemType
    <3>3. QED  BY <1>3, <3>2
  <2>2. CASE ~(sem[sid].passes > 0)
    <3> DEFINE w == Append(sem[sid].wait_q, current_pid)
    <3>1. sem' = [sem EXCEPT ![sid].wait_q = w]
      BY <1>5, <2>2, SemWaitStep
    <3>2. current_pid \in Pids /\ current_pid \notin Members(sem[sid].wait_q)
      BY <1>5, RunningMemory, RunningPid DEF SemWait, InUserProcess, Waiters
    <3>3. w \in Seq(Pids)
      BY <1>0, <3>2, MembersOfAppend
    <3>4. sem'[s].wait_q = IF s = sid THEN w ELSE sem[s].wait_q
      BY <1>0, <3>1, <3>3, SetWaitQ
    <3>5. QED  BY <1>0, <1>3, <3>2, <3>4, AppendAhead
  <2>3. QED  BY <2>1, <2>2
<1>6. ASSUME NEW sid \in Sids, SemPost(sid) PROVE Ahead(sem[s].wait_q, sem'[s].wait_q)
  <2>1. CASE sem[sid].wait_q = <<>>
    <3>1. sem' = [sem EXCEPT ![sid].passes = @ + 1]
      BY <1>6, <2>1, SemPostStep
    <3>2. sem'[s].wait_q = sem[s].wait_q
      BY <1>0, <3>1 DEF SemType
    <3>3. QED  BY <1>3, <3>2
  <2>2. CASE sem[sid].wait_q # <<>>
    <3> DEFINE w == Tail(sem[sid].wait_q)
    <3>1. sem' = [sem EXCEPT ![sid].wait_q = w]
      BY <1>6, <2>2, SemPostStep
    <3>2. w \in Seq(Pids)
      BY <1>0, <2>2, MembersOfTail
    <3>3. sem'[s].wait_q = IF s = sid THEN w ELSE sem[s].wait_q
      BY <1>0, <3>1, <3>2, SetWaitQ
    <3>4. QED  BY <1>0, <1>3, <2>2, <3>3, TailAhead
  <2>3. QED  BY <2>1, <2>2
<1>7. CASE Create \/ Start \/ Timer
  BY <1>1, <1>7, CreateStep, StartStep, TimerStep
<1>8. CASE UNCHANGED vars
  BY <1>1, <1>8 DEF vars
<1>9. QED  BY <1>4, <1>5, <1>6, <1>7, <1>8 DEF Next

\* Nobody is overtaken, in ready_q or on a semaphore: whoever comes goes to the back, and
\* only the front is taken (queue.c:28-64, main.c:74-92, handlers.c:112-206).
THEOREM InOrder == Spec => NoOvertaking
<1>1. IInv /\ [Next]_vars =>
        /\ \A pid \in Pids :
             pid \in Members(ready_q) \cap Members(ready_q') =>
                Place(ready_q', pid) <= Place(ready_q, pid)
        /\ \A sid \in Sids, pid \in Pids :
             pid \in Members(sem[sid].wait_q) \cap Members(sem'[sid].wait_q) =>
                Place(sem'[sid].wait_q, pid) <= Place(sem[sid].wait_q, pid)
  BY ReadyInOrder, WaitersInOrder DEF Ahead
<1>2. QED  BY <1>1, IInvInvariant, PTL DEF Spec, NoOvertaking
=============================================================================
