---------------------------- MODULE CircularQueue ----------------------------
(***************************************************************************)
(* One q_t under any sequence of queue_in, queue_out and re-initialisation *)
(* (9.serialport/src/queue.c).                                             *)
(***************************************************************************)
EXTENDS QueueOps, Sequences

CONSTANT Item

ASSUME ItemAssumption == Item \subseteq Int

VARIABLES q,        (* the ring                                           *)
          outcome   (* the last call's return code, and the item returned *)

vars == <<q, outcome>>

Init ==
  /\ q = queue_init
  /\ outcome = [code |-> 0]

QueueIn(item) ==
  /\ q' = queue_in(q, item)
  /\ outcome' = [code |-> queue_in_code(q)]

QueueOut ==
  /\ q' = queue_out(q)
  /\ outcome' = IF queue_out_code(q) = 0
                THEN [code |-> 0, item |-> queue_front(q)]
                ELSE [code |-> queue_out_code(q)]

QueueInit ==
  /\ q' = queue_init
  /\ outcome' = [code |-> 0]

Next == (\E item \in Item : QueueIn(item)) \/ QueueOut \/ QueueInit

Spec == Init /\ [][Next]_vars

-----------------------------------------------------------------------------
\* The fields stay in the ranges the array accesses rely on.
TypeOK ==
  /\ q \in [head : Slots, tail : Slots, size : 0 .. QUEUE_SIZE, items : [Slots -> Int]]
  /\ outcome.code \in {-1, 0}

(***************************************************************************)
(* queue.c keeps tail, head and size separately; they always agree: tail   *)
(* is size places after head, around the end of the array.                 *)
(***************************************************************************)
TailAgrees ==
  q.tail = IF q.head + q.size < QUEUE_SIZE
           THEN q.head + q.size
           ELSE q.head + q.size - QUEUE_SIZE

\* i lies in the part of the ring that is in use.
Occupied(i) == \E n \in 1 .. q.size : SlotOf(q, n) = i

(***************************************************************************)
(* The slots that are not in use hold the 0 that queue_init and queue_out  *)
(* store (queue.c:23, 86): no removed item stays behind, wherever head and *)
(* tail have got to.  A slot in use may hold 0 too, if 0 was put there.    *)
(***************************************************************************)
FreeSlotsCleared ==
  \A i \in Slots : ~Occupied(i) => q.items[i] = 0

RingInv == TailAgrees /\ FreeSlotsCleared

(***************************************************************************)
(* What queue.c:12 and queue.h:25 say: "Sets the empty queue items to -1". *)
(* No run checks it: it is false from the first state on, for the code     *)
(* stores 0.  Nothing in the code looks at a slot that is not in use.      *)
(***************************************************************************)
EmptyItemsAreMinusOne ==
  \A i \in Slots : ~Occupied(i) => q.items[i] = -1

(***************************************************************************)
(* The ring is a bounded FIFO queue: every call answers what BoundedFifo   *)
(* answers, in every order of calls and around the end of the array.       *)
(***************************************************************************)
Fifo == INSTANCE BoundedFifo WITH Capacity <- QUEUE_SIZE, contents <- Contents(q)

ImplementsFifo == Fifo!Spec
=============================================================================
