------------------------------- MODULE QueueOps ------------------------------
(***************************************************************************)
(* q_t, the ring buffer of 9.serialport/include/queue.h, and the functions *)
(* of 9.serialport/src/queue.c as operators on its value.  Each function   *)
(* answers with the queue it leaves behind; the return code and the item   *)
(* removed are read off the queue it was given.  The NULL-pointer checks   *)
(* of the C functions are left out: no caller passes NULL.                 *)
(***************************************************************************)
EXTENDS Integers

CONSTANT QUEUE_SIZE   (* items in a q_t *)

ASSUME QueueSizeAssumption == QUEUE_SIZE \in Nat \ {0}

Slots == 0 .. QUEUE_SIZE - 1

\* The value queue_init, and the memset of every queue in the kernel, leave behind.
queue_init == [head |-> 0, tail |-> 0, size |-> 0, items |-> [i \in Slots |-> 0]]

queue_is_empty(q) == q.size = 0
queue_is_full(q)  == q.size = QUEUE_SIZE

ForwardNoWrap(i) == IF i + 1 = QUEUE_SIZE THEN i ELSE i + 1

\* head++ and tail++, back to 0 at the end of the array.
Forward(i) == IF i + 1 = QUEUE_SIZE THEN 0 ELSE i + 1

queue_in_NoFullCheck(q, item) ==
  [head |-> q.head, tail |-> Forward(q.tail), size |-> q.size + 1,
   items |-> [q.items EXCEPT ![q.tail] = item]]

\* queue_in returns -1 and leaves the queue alone when it is full, else returns 0.
queue_in(q, item) ==
  IF queue_is_full(q)
  THEN q
  ELSE [head |-> q.head, tail |-> Forward(q.tail), size |-> q.size + 1,
        items |-> [q.items EXCEPT ![q.tail] = item]]

queue_in_code(q) == IF queue_is_full(q) THEN -1 ELSE 0

\* The item the next queue_out removes.
queue_front(q) == q.items[q.head]

queue_out_NoReset(q) ==
  IF queue_is_empty(q)
  THEN q
  ELSE [head |-> Forward(q.head), tail |-> q.tail, size |-> q.size - 1, items |-> q.items]

\* queue_out returns -1 and leaves the queue alone when it is empty, else returns 0.
queue_out(q) ==
  IF queue_is_empty(q)
  THEN q
  ELSE [head |-> Forward(q.head), tail |-> q.tail, size |-> q.size - 1,
        items |-> [q.items EXCEPT ![q.head] = 0]]

queue_out_code(q) == IF queue_is_empty(q) THEN -1 ELSE 0

\* The slot of the i-th oldest item, 1 <= i <= size.
SlotOf(q, i) ==
  IF q.head + i - 1 < QUEUE_SIZE THEN q.head + i - 1 ELSE q.head + i - 1 - QUEUE_SIZE

\* The items, oldest first.
Contents(q) == [i \in 1 .. q.size |-> q.items[SlotOf(q, i)]]
=============================================================================
