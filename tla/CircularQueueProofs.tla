------------------------- MODULE CircularQueueProofs -------------------------
(***************************************************************************)
(* The ring buffer of queue.c implements a bounded FIFO queue, for every   *)
(* QUEUE_SIZE and every set of items.                                      *)
(***************************************************************************)
EXTENDS CircularQueue, SequenceTheorems, TLAPS

USE QueueSizeAssumption

(***************************************************************************)
(* The inductive invariant: the types and the agreement of head, tail and  *)
(* size.                                                                   *)
(***************************************************************************)
IInv == TypeOK /\ TailAgrees

\* The fields of the ring, one by one.
LEMMA RingFields ==
  ASSUME TypeOK
  PROVE  /\ q = [head |-> q.head, tail |-> q.tail, size |-> q.size, items |-> q.items]
         /\ q.head \in Int /\ 0 <= q.head /\ q.head < QUEUE_SIZE
         /\ q.tail \in Int /\ 0 <= q.tail /\ q.tail < QUEUE_SIZE
         /\ q.size \in Int /\ 0 <= q.size /\ q.size <= QUEUE_SIZE
         /\ q.items \in [0 .. QUEUE_SIZE - 1 -> Int]
  BY DEF TypeOK, Slots

\* head++ and tail++ stay in the array.
LEMMA ForwardType ==
  ASSUME NEW i \in Slots
  PROVE  Forward(i) \in Slots
  BY DEF Forward, Slots

LEMMA InitIInv == Init => IInv
  BY DEF Init, IInv, TypeOK, TailAgrees, queue_init, Slots

LEMMA QueueInIInv ==
  ASSUME IInv, NEW item \in Item, QueueIn(item)
  PROVE  IInv'
<1>0. TypeOK /\ TailAgrees
  BY DEF IInv
<1>1. CASE q.size = QUEUE_SIZE
  BY <1>0, <1>1 DEF QueueIn, queue_in, queue_in_code, queue_is_full, IInv, TypeOK, TailAgrees
<1>2. CASE q.size # QUEUE_SIZE
  <2>1. q' = [head |-> q.head, tail |-> Forward(q.tail), size |-> q.size + 1,
              items |-> [q.items EXCEPT ![q.tail] = item]]
    BY <1>2 DEF QueueIn, queue_in, queue_is_full
  <2>2. outcome'.code = 0
    BY <1>2 DEF QueueIn, queue_in_code, queue_is_full
  <2>3. Forward(q.tail) \in Slots
    BY <1>0, RingFields, ForwardType DEF Slots
  <2>4. [q.items EXCEPT ![q.tail] = item] \in [Slots -> Int]
    BY <1>0, RingFields, ItemAssumption DEF Slots
  <2>5. q.head \in Slots /\ q.size + 1 \in 0 .. QUEUE_SIZE
    BY <1>0, <1>2, RingFields DEF Slots
  <2>6. TypeOK'
    BY <2>1, <2>2, <2>3, <2>4, <2>5 DEF TypeOK
  <2>7. TailAgrees'
    <3>1. q'.head = q.head /\ q'.tail = Forward(q.tail) /\ q'.size = q.size + 1
      BY <2>1
    <3>2. QED  BY <1>0, <1>2, <3>1, RingFields DEF TailAgrees, Forward
  <2>8. QED  BY <2>6, <2>7 DEF IInv
<1>3. QED  BY <1>1, <1>2

LEMMA QueueOutIInv ==
  ASSUME IInv, QueueOut
  PROVE  IInv'
<1>0. TypeOK /\ TailAgrees
  BY DEF IInv
<1>1. CASE q.size = 0
  BY <1>0, <1>1 DEF QueueOut, queue_out, queue_out_code, queue_is_empty, IInv, TypeOK, TailAgrees
<1>2. CASE q.size # 0
  <2>1. q' = [head |-> Forward(q.head), tail |-> q.tail, size |-> q.size - 1,
              items |-> [q.items EXCEPT ![q.head] = 0]]
    BY <1>2 DEF QueueOut, queue_out, queue_is_empty
  <2>2. outcome'.code = 0
    BY <1>2 DEF QueueOut, queue_out_code, queue_is_empty
  <2>3. Forward(q.head) \in Slots
    BY <1>0, RingFields, ForwardType DEF Slots
  <2>4. [q.items EXCEPT ![q.head] = 0] \in [Slots -> Int]
    BY <1>0, RingFields DEF Slots
  <2>5. q.tail \in Slots /\ q.size - 1 \in 0 .. QUEUE_SIZE
    BY <1>0, <1>2, RingFields DEF Slots
  <2>6. TypeOK'
    BY <2>1, <2>2, <2>3, <2>4, <2>5 DEF TypeOK
  <2>7. TailAgrees'
    <3>1. q'.head = Forward(q.head) /\ q'.tail = q.tail /\ q'.size = q.size - 1
      BY <2>1
    <3>2. CASE q.head + 1 = QUEUE_SIZE
      BY <1>0, <1>2, <3>1, <3>2, RingFields DEF TailAgrees, Forward
    <3>3. CASE q.head + 1 # QUEUE_SIZE
      BY <1>0, <1>2, <3>1, <3>3, RingFields DEF TailAgrees, Forward
    <3>4. QED  BY <3>2, <3>3
  <2>8. QED  BY <2>6, <2>7 DEF IInv
<1>3. QED  BY <1>1, <1>2

LEMMA NextIInv == IInv /\ [Next]_vars => IInv'
<1> SUFFICES ASSUME IInv, [Next]_vars PROVE IInv'
  OBVIOUS
<1>1. ASSUME NEW item \in Item, QueueIn(item) PROVE IInv'
  BY <1>1, QueueInIInv
<1>2. CASE QueueOut
  BY <1>2, QueueOutIInv
<1>3. CASE QueueInit
  BY <1>3 DEF QueueInit, IInv, TypeOK, TailAgrees, queue_init, Slots
<1>4. CASE UNCHANGED vars
  BY <1>4 DEF vars, IInv, TypeOK, TailAgrees
<1>5. QED  BY <1>1, <1>2, <1>3, <1>4 DEF Next

\* The fields of a q_t stay in the ranges the array accesses of queue.c rely on.
THEOREM TypeCorrect == Spec => []TypeOK
<1>1. Init => IInv  BY InitIInv
<1>2. IInv /\ [Next]_vars => IInv'  BY NextIInv
<1>3. IInv => TypeOK  BY DEF IInv
<1>4. QED  BY <1>1, <1>2, <1>3, PTL DEF Spec

\* head, tail and size, which queue.c updates separately, never disagree.
THEOREM TailAlwaysAgrees == Spec => []TailAgrees
<1>1. Init => IInv  BY InitIInv
<1>2. IInv /\ [Next]_vars => IInv'  BY NextIInv
<1>3. IInv => TailAgrees  BY DEF IInv
<1>4. QED  BY <1>1, <1>2, <1>3, PTL DEF Spec

-----------------------------------------------------------------------------
(***************************************************************************)
(* The refinement: Contents(q) evolves as a bounded FIFO queue.  The lemmas *)
(* speak of any ring value r, to be used for q and for q'.                 *)
(***************************************************************************)
Ring == [head : Slots, tail : Slots, size : 0 .. QUEUE_SIZE, items : [Slots -> Int]]

LEMMA SlotOfType ==
  ASSUME NEW r \in Ring, NEW i \in 1 .. r.size
  PROVE  SlotOf(r, i) \in Slots
<1>1. r.head \in 0 .. QUEUE_SIZE - 1 /\ r.size \in 0 .. QUEUE_SIZE
  BY DEF Ring, Slots
<1>2. QED  BY <1>1 DEF SlotOf, Slots

LEMMA ContentsSeq ==
  ASSUME NEW r \in Ring
  PROVE  /\ Contents(r) \in Seq(Int)
         /\ Len(Contents(r)) = r.size
         /\ \A i \in 1 .. r.size : Contents(r)[i] = r.items[SlotOf(r, i)]
<1>1. r.items \in [Slots -> Int] /\ r.size \in Nat
  BY DEF Ring
<1>2. \A i \in 1 .. r.size : r.items[SlotOf(r, i)] \in Int
  BY <1>1, SlotOfType
<1>3. QED  BY <1>1, <1>2, IsASeq DEF Contents

\* A queue_in that is not refused appends.
LEMMA QueueInAppends ==
  ASSUME NEW r \in Ring, NEW s \in Ring, NEW item \in Int,
         r.size # QUEUE_SIZE,
         r.tail = IF r.head + r.size < QUEUE_SIZE
                  THEN r.head + r.size ELSE r.head + r.size - QUEUE_SIZE,
         s.head = r.head, s.size = r.size + 1, s.items = [r.items EXCEPT ![r.tail] = item]
  PROVE  Contents(s) = Append(Contents(r), item)
<1>0. /\ r.head \in Int /\ 0 <= r.head /\ r.head < QUEUE_SIZE
      /\ r.size \in Int /\ 0 <= r.size /\ r.size < QUEUE_SIZE
      /\ r.items \in [Slots -> Int] /\ r.tail \in Slots
  <2>1. /\ r.head \in Slots /\ r.tail \in Slots /\ r.size \in 0 .. QUEUE_SIZE
        /\ r.items \in [Slots -> Int]
    BY DEF Ring
  <2>2. QED  BY <2>1 DEF Slots
<1>1. \A i \in 1 .. r.size : SlotOf(s, i) = SlotOf(r, i) /\ SlotOf(r, i) # r.tail
  BY <1>0 DEF SlotOf
<1>2. SlotOf(s, r.size + 1) = r.tail
  BY <1>0 DEF SlotOf
<1>3. \A i \in 1 .. r.size : s.items[SlotOf(s, i)] = r.items[SlotOf(r, i)]
  BY <1>0, <1>1, SlotOfType
<1>4. s.items[SlotOf(s, r.size + 1)] = item
  BY <1>0, <1>2
<1>5. Contents(s) \in Seq(Int) /\ Len(Contents(s)) = r.size + 1
  BY ContentsSeq
<1>6. /\ Append(Contents(r), item) \in Seq(Int)
      /\ Len(Append(Contents(r), item)) = r.size + 1
      /\ \A i \in 1 .. r.size : Append(Contents(r), item)[i] = Contents(r)[i]
      /\ Append(Contents(r), item)[r.size + 1] = item
  BY ContentsSeq, AppendProperties
<1>7. ASSUME NEW i \in 1 .. r.size + 1
      PROVE  Contents(s)[i] = Append(Contents(r), item)[i]
  <2>1. Contents(s)[i] = s.items[SlotOf(s, i)]
    BY ContentsSeq
  <2>2. CASE i = r.size + 1
    BY <2>1, <2>2, <1>4, <1>6
  <2>3. CASE i \in 1 .. r.size
    BY <2>1, <2>3, <1>3, <1>6, ContentsSeq
  <2>4. i = r.size + 1 \/ i \in 1 .. r.size
    BY <1>0
  <2>5. QED  BY <2>2, <2>3, <2>4
<1>8. QED  BY <1>5, <1>6, <1>7, SeqEqual

\* A queue_out that is not refused removes the oldest item.
LEMMA QueueOutRemoves ==
  ASSUME NEW r \in Ring, NEW s \in Ring,
         r.size # 0,
         s.head = Forward(r.head), s.size = r.size - 1, s.items = [r.items EXCEPT ![r.head] = 0]
  PROVE  /\ Contents(r) # <<>>
         /\ Contents(s) = Tail(Contents(r))
         /\ Head(Contents(r)) = r.items[r.head]
<1>0. /\ r.head \in Int /\ 0 <= r.head /\ r.head < QUEUE_SIZE
      /\ r.size \in Int /\ 0 < r.size /\ r.size <= QUEUE_SIZE
      /\ r.items \in [Slots -> Int] /\ r.head \in Slots
  <2>1. r.head \in Slots /\ r.size \in 0 .. QUEUE_SIZE /\ r.items \in [Slots -> Int]
    BY DEF Ring
  <2>2. QED  BY <2>1 DEF Slots
<1>1. SlotOf(r, 1) = r.head
  BY <1>0 DEF SlotOf
<1>2. \A i \in 1 .. r.size - 1 : SlotOf(s, i) = SlotOf(r, i + 1) /\ SlotOf(r, i + 1) # r.head
  <2> SUFFICES ASSUME NEW i \in 1 .. r.size - 1
               PROVE  SlotOf(s, i) = SlotOf(r, i + 1) /\ SlotOf(r, i + 1) # r.head
    OBVIOUS
  <2>1. CASE r.head + 1 = QUEUE_SIZE
    BY <1>0, <2>1 DEF SlotOf, Forward
  <2>2. CASE r.head + 1 # QUEUE_SIZE
    BY <1>0, <2>2 DEF SlotOf, Forward
  <2>3. QED  BY <2>1, <2>2
<1>3. \A i \in 1 .. r.size - 1 : s.items[SlotOf(s, i)] = r.items[SlotOf(r, i + 1)]
  BY <1>0, <1>2, SlotOfType
<1>4. Contents(r) \in Seq(Int) /\ Len(Contents(r)) = r.size /\ Contents(r) # <<>>
  BY <1>0, ContentsSeq
<1>5. Head(Contents(r)) = r.items[r.head]
  BY <1>0, <1>1, <1>4, ContentsSeq
<1>6. /\ Tail(Contents(r)) \in Seq(Int)
      /\ Len(Tail(Contents(r))) = r.size - 1
      /\ \A i \in 1 .. r.size - 1 : Tail(Contents(r))[i] = Contents(r)[i + 1]
  BY <1>4, HeadTailProperties
<1>7. Contents(s) \in Seq(Int) /\ Len(Contents(s)) = r.size - 1
  BY ContentsSeq
<1>8. ASSUME NEW i \in 1 .. r.size - 1
      PROVE  Contents(s)[i] = Tail(Contents(r))[i]
  <2>1. Contents(s)[i] = s.items[SlotOf(s, i)]
    BY ContentsSeq
  <2>2. i + 1 \in 1 .. r.size
    BY <1>0
  <2>3. Contents(r)[i + 1] = r.items[SlotOf(r, i + 1)]
    BY <2>2, ContentsSeq
  <2>4. QED  BY <1>3, <1>6, <2>1, <2>3
<1>9. Contents(s) = Tail(Contents(r))
  BY <1>6, <1>7, <1>8, SeqEqual
<1>10. QED  BY <1>4, <1>5, <1>9

LEMMA RingOfType == TypeOK => q \in Ring
  BY DEF TypeOK, Ring

LEMMA InitFifo == Init => Fifo!Init
<1> SUFFICES ASSUME Init PROVE Fifo!Init
  OBVIOUS
<1>1. q \in Ring /\ q.size = 0
  BY InitIInv, RingOfType DEF IInv, Init, queue_init
<1>2. Contents(q) = <<>>
  BY <1>1, ContentsSeq, EmptySeq
<1>3. QED  BY <1>2 DEF Init, Fifo!Init, Fifo!Inserted

\* queue_in answers as Insert does.
LEMMA QueueInFifo ==
  ASSUME IInv, IInv', NEW item \in Item, QueueIn(item)
  PROVE  Fifo!Insert(item)
<1>1. q \in Ring /\ q' \in Ring /\ TailAgrees
  BY RingOfType DEF IInv, TypeOK, Ring
<1>2. Len(Contents(q)) = q.size
  BY <1>1, ContentsSeq
<1>3. CASE q.size = QUEUE_SIZE
  BY <1>2, <1>3 DEF QueueIn, queue_in, queue_in_code, queue_is_full, Fifo!Insert, Fifo!Failed
<1>4. CASE q.size # QUEUE_SIZE
  <2>1. q' = [head |-> q.head, tail |-> Forward(q.tail), size |-> q.size + 1,
              items |-> [q.items EXCEPT ![q.tail] = item]]
    BY <1>4 DEF QueueIn, queue_in, queue_is_full
  <2>2. /\ q'.head = q.head /\ q'.size = q.size + 1
        /\ q'.items = [q.items EXCEPT ![q.tail] = item]
    BY <2>1
  <2>3. Contents(q') = Append(Contents(q), item)
    BY <1>1, <1>4, <2>2, QueueInAppends, ItemAssumption DEF TailAgrees
  <2>4. q.size < QUEUE_SIZE
    BY <1>4, RingFields DEF IInv
  <2>5. outcome' = [code |-> 0]
    BY <1>4 DEF QueueIn, queue_in_code, queue_is_full
  <2>6. Contents(q)' = Contents(q')
    BY DEF Contents, SlotOf
  <2>7. QED  BY <1>2, <2>3, <2>4, <2>5, <2>6 DEF Fifo!Insert, Fifo!Inserted
<1>5. QED  BY <1>3, <1>4

\* queue_out answers as Remove does.
LEMMA QueueOutFifo ==
  ASSUME IInv, IInv', QueueOut
  PROVE  Fifo!Remove
<1>1. q \in Ring /\ q' \in Ring
  BY RingOfType DEF IInv, TypeOK, Ring
<1>2. Contents(q)' = Contents(q')
  BY DEF Contents, SlotOf
<1>3. CASE q.size = 0
  <2>1. Contents(q) = <<>>
    BY <1>1, <1>3, ContentsSeq, EmptySeq
  <2>2. QED
    BY <1>3, <2>1 DEF QueueOut, queue_out, queue_out_code, queue_is_empty, Fifo!Remove, Fifo!Failed
<1>4. CASE q.size # 0
  <2>1. q' = [head |-> Forward(q.head), tail |-> q.tail, size |-> q.size - 1,
              items |-> [q.items EXCEPT ![q.head] = 0]]
    BY <1>4 DEF QueueOut, queue_out, queue_is_empty
  <2>2. /\ q'.head = Forward(q.head) /\ q'.size = q.size - 1
        /\ q'.items = [q.items EXCEPT ![q.head] = 0]
    BY <2>1
  <2>3. /\ Contents(q) # <<>>
        /\ Contents(q') = Tail(Contents(q))
        /\ Head(Contents(q)) = q.items[q.head]
    BY <1>1, <1>4, <2>2, QueueOutRemoves
  <2>4. outcome' = [code |-> 0, item |-> q.items[q.head]]
    BY <1>4 DEF QueueOut, queue_out_code, queue_front, queue_is_empty
  <2>5. QED  BY <1>2, <2>3, <2>4 DEF Fifo!Remove, Fifo!Removed
<1>5. QED  BY <1>3, <1>4

LEMMA NextFifo == IInv /\ IInv' /\ [Next]_vars => [Fifo!Next]_(Fifo!fifoVars)
<1> SUFFICES ASSUME IInv, IInv', [Next]_vars PROVE [Fifo!Next]_(Fifo!fifoVars)
  OBVIOUS
<1>1. ASSUME NEW item \in Item, QueueIn(item) PROVE Fifo!Next
  BY <1>1, QueueInFifo DEF Fifo!Next
<1>2. ASSUME QueueOut PROVE Fifo!Next
  BY <1>2, QueueOutFifo DEF Fifo!Next
<1>3. ASSUME QueueInit PROVE Fifo!Next
  <2>1. q' \in Ring /\ q'.size = 0
    BY <1>3, RingOfType DEF IInv, TypeOK, Ring, QueueInit, queue_init
  <2>2. Contents(q') = <<>>
    BY <2>1, ContentsSeq, EmptySeq
  <2>3. Contents(q)' = <<>>
    BY <2>2 DEF Contents, SlotOf
  <2>4. QED  BY <1>3, <2>3 DEF QueueInit, Fifo!Next, Fifo!Clear, Fifo!Inserted
<1>4. ASSUME UNCHANGED vars PROVE UNCHANGED Fifo!fifoVars
  BY <1>4 DEF vars, Fifo!fifoVars, Contents, SlotOf
<1>5. QED  BY <1>1, <1>2, <1>3, <1>4 DEF Next

(***************************************************************************)
(* Every call sequence of queue_in, queue_out and re-initialisation, on a  *)
(* ring of any size, is answered as a bounded FIFO queue answers it.       *)
(***************************************************************************)
THEOREM ImplementsBoundedFifo == Spec => ImplementsFifo
<1>1. Init => IInv  BY InitIInv
<1>2. IInv /\ [Next]_vars => IInv'  BY NextIInv
<1>3. Init => Fifo!Init  BY InitFifo
<1>4. IInv /\ IInv' /\ [Next]_vars => [Fifo!Next]_(Fifo!fifoVars)  BY NextFifo
<1>5. QED  BY <1>1, <1>2, <1>3, <1>4, PTL DEF Spec, ImplementsFifo, Fifo!Spec
-----------------------------------------------------------------------------
(***************************************************************************)
(* The unused part of the array is clear, which follows from how the part  *)
(* in use, the slots of the items, moves.                                  *)
(***************************************************************************)
InUse(r) == {SlotOf(r, n) : n \in 1 .. r.size}

LEMMA RingBounds ==
  ASSUME NEW r \in Ring
  PROVE  /\ r.head \in Int /\ 0 <= r.head /\ r.head < QUEUE_SIZE
         /\ r.tail \in Int /\ 0 <= r.tail /\ r.tail < QUEUE_SIZE
         /\ r.size \in Int /\ 0 <= r.size /\ r.size <= QUEUE_SIZE
         /\ r.items \in [Slots -> Int]
<1>1. /\ r.head \in Slots /\ r.tail \in Slots /\ r.size \in 0 .. QUEUE_SIZE
      /\ r.items \in [Slots -> Int]
  BY DEF Ring
<1>2. QED  BY <1>1 DEF Slots

\* queue_in takes the slot at tail into use.
LEMMA QueueInOccupies ==
  ASSUME NEW r \in Ring, NEW s \in Ring, r.size # QUEUE_SIZE,
         r.tail = IF r.head + r.size < QUEUE_SIZE
                  THEN r.head + r.size ELSE r.head + r.size - QUEUE_SIZE,
         s.head = r.head, s.size = r.size + 1
  PROVE  InUse(s) = InUse(r) \cup {r.tail} /\ r.tail \notin InUse(r)
<1>1. \A n \in 1 .. r.size : SlotOf(s, n) = SlotOf(r, n) /\ SlotOf(r, n) # r.tail
  BY RingBounds DEF SlotOf
<1>2. SlotOf(s, r.size + 1) = r.tail
  BY RingBounds DEF SlotOf
<1>3. 1 .. s.size = (1 .. r.size) \cup {r.size + 1}
  BY RingBounds
<1>4. QED  BY <1>1, <1>2, <1>3 DEF InUse

\* queue_out gives up the slot at head.
LEMMA QueueOutVacates ==
  ASSUME NEW r \in Ring, NEW s \in Ring, r.size # 0,
         s.head = Forward(r.head), s.size = r.size - 1
  PROVE  InUse(s) = InUse(r) \ {r.head}
<1>1. SlotOf(r, 1) = r.head
  BY RingBounds DEF SlotOf
<1>2. ASSUME NEW n \in 1 .. s.size
      PROVE  SlotOf(s, n) = SlotOf(r, n + 1) /\ SlotOf(r, n + 1) # r.head
  <2>1. CASE r.head + 1 = QUEUE_SIZE
    BY <2>1, RingBounds DEF SlotOf, Forward
  <2>2. CASE r.head + 1 # QUEUE_SIZE
    BY <2>2, RingBounds DEF SlotOf, Forward
  <2>3. QED  BY <2>1, <2>2
<1>3. \A n \in 1 .. s.size : n + 1 \in 1 .. r.size
  BY RingBounds
<1>4. \A n \in 1 .. r.size : n = 1 \/ (n - 1 \in 1 .. s.size /\ (n - 1) + 1 = n)
  BY RingBounds
<1>5. InUse(s) \subseteq InUse(r) \ {r.head}
  BY <1>2, <1>3 DEF InUse
<1>6. ASSUME NEW n \in 1 .. r.size, SlotOf(r, n) # r.head PROVE SlotOf(r, n) \in InUse(s)
  BY <1>1, <1>2, <1>4, <1>6 DEF InUse
<1>7. InUse(r) \ {r.head} \subseteq InUse(s)
  BY <1>6 DEF InUse
<1>8. QED  BY <1>5, <1>7

Cleared(r) == \A i \in Slots : i \notin InUse(r) => r.items[i] = 0

LEMMA OccupiedInUse ==
  /\ FreeSlotsCleared <=> Cleared(q)
  /\ FreeSlotsCleared' <=> Cleared(q')
  BY DEF FreeSlotsCleared, Occupied, Cleared, InUse, SlotOf

LEMMA InitCleared == Init => Cleared(q)
  BY DEF Init, Cleared, InUse, queue_init

LEMMA QueueInCleared ==
  ASSUME IInv, IInv', Cleared(q), NEW item \in Item, QueueIn(item)
  PROVE  Cleared(q')
<1>0. q \in Ring /\ q' \in Ring /\ TailAgrees
  BY RingOfType DEF IInv, TypeOK, Ring
<1>1. CASE q.size = QUEUE_SIZE
  BY <1>1 DEF QueueIn, queue_in, queue_is_full
<1>2. CASE q.size # QUEUE_SIZE
  <2>1. q' = [head |-> q.head, tail |-> Forward(q.tail), size |-> q.size + 1,
              items |-> [q.items EXCEPT ![q.tail] = item]]
    BY <1>2 DEF QueueIn, queue_in, queue_is_full
  <2>2. q'.head = q.head /\ q'.size = q.size + 1 /\ q'.items = [q.items EXCEPT ![q.tail] = item]
    BY <2>1
  <2>3. InUse(q') = InUse(q) \cup {q.tail}
    BY <1>0, <1>2, <2>2, QueueInOccupies DEF TailAgrees
  <2>4. \A i \in Slots : q'.items[i] = IF i = q.tail THEN item ELSE q.items[i]
    BY <1>0, <2>2 DEF Ring
  <2>5. QED  BY <2>3, <2>4 DEF Cleared
<1>3. QED  BY <1>1, <1>2

LEMMA QueueOutCleared ==
  ASSUME IInv, IInv', Cleared(q), QueueOut
  PROVE  Cleared(q')
<1>0. q \in Ring /\ q' \in Ring
  BY RingOfType DEF IInv, TypeOK, Ring
<1>1. CASE q.size = 0
  BY <1>1 DEF QueueOut, queue_out, queue_is_empty
<1>2. CASE q.size # 0
  <2>1. q' = [head |-> Forward(q.head), tail |-> q.tail, size |-> q.size - 1,
              items |-> [q.items EXCEPT ![q.head] = 0]]
    BY <1>2 DEF QueueOut, queue_out, queue_is_empty
  <2>2. /\ q'.head = Forward(q.head) /\ q'.size = q.size - 1
        /\ q'.items = [q.items EXCEPT ![q.head] = 0]
    BY <2>1
  <2>3. InUse(q') = InUse(q) \ {q.head}
    BY <1>0, <1>2, <2>2, QueueOutVacates
  <2>4. \A i \in Slots : q'.items[i] = IF i = q.head THEN 0 ELSE q.items[i]
    BY <1>0, <2>2 DEF Ring
  <2>5. QED  BY <2>3, <2>4 DEF Cleared
<1>3. QED  BY <1>1, <1>2

LEMMA NextCleared == IInv /\ IInv' /\ Cleared(q) /\ [Next]_vars => Cleared(q')
<1> SUFFICES ASSUME IInv, IInv', Cleared(q), [Next]_vars PROVE Cleared(q')
  OBVIOUS
<1>1. ASSUME NEW item \in Item, QueueIn(item) PROVE Cleared(q')
  BY <1>1, QueueInCleared
<1>2. CASE QueueOut
  BY <1>2, QueueOutCleared
<1>3. CASE QueueInit
  BY <1>3 DEF QueueInit, Cleared, InUse, queue_init
<1>4. CASE UNCHANGED vars
  BY <1>4 DEF vars
<1>5. QED  BY <1>1, <1>2, <1>3, <1>4 DEF Next

(***************************************************************************)
(* head, tail and size agree, and the slots between tail and head hold the *)
(* 0 that queue_init and queue_out put there: no item that was removed     *)
(* stays behind.  The items are any integers, 0 included.                  *)
(***************************************************************************)
THEOREM RingCorrect == Spec => []RingInv
<1>1. Init => IInv /\ FreeSlotsCleared
  BY InitIInv, InitCleared, OccupiedInUse
<1>2. IInv /\ FreeSlotsCleared /\ [Next]_vars => (IInv /\ FreeSlotsCleared)'
  BY NextIInv, NextCleared, OccupiedInUse
<1>3. IInv /\ FreeSlotsCleared => RingInv
  BY DEF IInv, RingInv
<1>4. QED  BY <1>1, <1>2, <1>3, PTL DEF Spec
=============================================================================
