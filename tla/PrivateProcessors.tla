---------------------------- MODULE PrivateProcessors ----------------------------
(***************************************************************************)
(* What multitasking promises: every process computes as though it had a   *)
(* processor and a stack of its own.  Interrupts and the turns of the      *)
(* others are not seen; a system call changes one register.                *)
(***************************************************************************)
EXTENDS Integers, Sequences

CONSTANTS
  Proc,    \* the processes, numbers
  Tag,     \* what distinguishes the values a process computes, numbers
  Entry    \* where each process starts

VARIABLES
  context,  \* each process's registers and stack, the most recent word first
  printed   \* the last string printed

Arithmetic == {"eax", "ebx", "ecx", "edx", "esi", "edi", "ebp", "eip", "eflags"}

\* The word a process computes for a register.
Value(p, r, t) == <<r, 10 * p + t>>

Computed(p, reg, t) == [r \in DOMAIN reg |-> IF r \in Arithmetic THEN Value(p, r, t) ELSE reg[r]]

Local(p, t) == <<"local", 10 * p + t>>

\* A process starts at its function with an address space and segments of its own.
Init ==
  /\ \A p \in Proc : context[p].reg.eip = Entry[p] /\ context[p].reg.eflags = <<"eflags", 512>>
  /\ \A p \in Proc : \A r \in {"cs", "ds", "es", "fs", "gs", "ss", "cr3"} :
       context[p].reg[r] # <<"junk", 0>>
  /\ printed = <<"nothing", 0>>

Compute(p, t) ==
  /\ context' = [context EXCEPT ![p].reg = Computed(p, @, t)]
  /\ UNCHANGED printed

Call(p, t) ==
  /\ context' = [context EXCEPT ![p].stack = <<Local(p, t)>> \o @]
  /\ UNCHANGED printed

Return(p) ==
  /\ context[p].stack # <<>>
  /\ context' = [context EXCEPT ![p].stack = Tail(@)]
  /\ UNCHANGED printed

PRINT == 1
ALLOCATE == 2

\* A system call: number in EAX, argument in EBX, result in EAX, -1 for a wrong number.
System(p, number, argument) ==
  /\ context' = [context EXCEPT ![p].reg.ebx = argument,
       ![p].reg.eax = <<"const", IF number \in {PRINT, ALLOCATE} THEN 0 ELSE -1>>]
  /\ printed' = IF number = PRINT THEN argument ELSE printed

Next ==
  \E p \in Proc :
    \/ \E t \in Tag : Compute(p, t) \/ Call(p, t)
    \/ Return(p)
    \/ \E number \in {0, PRINT, ALLOCATE}, t \in Tag : System(p, number, Local(p, t))

Spec == Init /\ [][Next]_<<context, printed>>
================================================================================
