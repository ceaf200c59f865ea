---------------------------- MODULE BufferCacheProofs --------------------------
(***************************************************************************)
(* The buffer cache of bio.c on the disk driver of ide.c, for any number   *)
(* of buffers and blocks: the list stays a list of all buffers, a block    *)
(* has one buffer, bread returns the block it was asked for, and to a      *)
(* thread that keeps the rules of bio.c:8-14 the cache is a block store.   *)
(***************************************************************************)
EXTENDS BufferCache, IntervalInduction, TLAPS

USE CacheAssumption DEF Head0, Buffers

Links == [0 .. NBUF -> 0 .. NBUF]

-----------------------------------------------------------------------------
(***************************************************************************)
(* The list.  order[n] is the nth element from the sentinel on, which is   *)
(* order[0]; both links agree with it.                                     *)
(***************************************************************************)
IsOrder(order) ==
  /\ order \in Links
  /\ order[0] = Head0
  /\ \A m, n \in 0 .. NBUF : order[m] = order[n] => m = n
  /\ \A b \in 0 .. NBUF : \E n \in 0 .. NBUF : order[n] = b

\* From the last one on, the list is back at the sentinel.
Succ(n) == IF n = NBUF THEN 0 ELSE n + 1

Follows(link, order) == \A n \in 0 .. NBUF : link[order[n]] = order[Succ(n)]

LinkedBy(links, order) ==
  /\ links.next \in Links /\ links.prev \in Links
  /\ Follows(links.next, order)
  /\ \A n \in 0 .. NBUF : links.prev[order[Succ(n)]] = order[n]

IsList(links) == \E order \in Links : IsOrder(order) /\ LinkedBy(links, order)

ListInv == IsList([next |-> next, prev |-> prev])

\* A walk along links that follow an order goes through it.
LEMMA WalkFollows ==
  ASSUME NEW link \in Links, NEW order, IsOrder(order), Follows(link, order)
  PROVE  \A n \in Buffers : Walk(link)[n] = order[n]
<1> DEFINE at == CHOOSE f : f = [n \in 0 .. NBUF |-> IF n = 0 THEN Head0 ELSE link[f[n - 1]]]
<1>0. /\ order \in Links /\ order[0] = 0
      /\ \A n \in 0 .. NBUF - 1 : link[order[n]] = order[n + 1]
  BY DEF IsOrder, Follows, Succ
<1>1. order = [n \in 0 .. NBUF |-> IF n = 0 THEN Head0 ELSE link[order[n - 1]]]
  <2>1. ASSUME NEW n \in 0 .. NBUF PROVE order[n] = IF n = 0 THEN Head0 ELSE link[order[n - 1]]
    <3>1. n = 0 \/ (n - 1 \in 0 .. NBUF - 1 /\ (n - 1) + 1 = n)
      OBVIOUS
    <3>2. QED  BY <1>0, <3>1
  <2>2. QED  BY <1>0, <2>1 DEF Links
<1>2. at = [n \in 0 .. NBUF |-> IF n = 0 THEN Head0 ELSE link[at[n - 1]]]
  BY <1>1
<1>3. Walk(link) = [n \in Buffers |-> at[n]]
  BY DEF Walk
<1> HIDE DEF at
<1>4. \A n \in 0 .. NBUF : at[n] = IF n = 0 THEN 0 ELSE link[at[n - 1]]
  BY <1>2
<1> DEFINE T == {n \in 0 .. NBUF : at[n] = order[n]}
<1>5. 0 \in T
  BY <1>0, <1>4
<1>6. ASSUME NEW n \in 0 .. NBUF - 1, n \in T PROVE n + 1 \in T
  <2>1. n + 1 \in 0 .. NBUF /\ (n + 1) - 1 = n
    OBVIOUS
  <2>2. at[n + 1] = link[at[n]]
    BY <1>4, <2>1
  <2>3. QED  BY <1>0, <1>6, <2>1, <2>2
<1>7. 0 .. NBUF \subseteq T
  <2> HIDE DEF T
  <2> QED  BY <1>5, <1>6, IntervalInduction
<1>8. QED  BY <1>3, <1>7

\* Backwards, the list is another one.
Backwards(order) == [n \in 0 .. NBUF |-> IF n = 0 THEN Head0 ELSE order[NBUF + 1 - n]]

LEMMA BackwardsIsOrder ==
  ASSUME NEW order, IsOrder(order)
  PROVE  IsOrder(Backwards(order))
<1> DEFINE back == Backwards(order)
           Mirror(n) == IF n = 0 THEN 0 ELSE NBUF + 1 - n
<1>1. \A n \in 0 .. NBUF : Mirror(n) \in 0 .. NBUF /\ Mirror(Mirror(n)) = n
  OBVIOUS
<1>2. \A n \in 0 .. NBUF : back[n] = order[Mirror(n)]
  BY DEF Backwards, IsOrder
<1>3. back \in Links
  BY <1>1, <1>2 DEF Backwards, Links, IsOrder
<1>4. \A m, n \in 0 .. NBUF : back[m] = back[n] => m = n
  BY <1>1, <1>2 DEF IsOrder
<1>5. ASSUME NEW b \in 0 .. NBUF PROVE \E n \in 0 .. NBUF : back[n] = b
  <2>1. PICK m \in 0 .. NBUF : order[m] = b
    BY DEF IsOrder
  <2>2. Mirror(m) \in 0 .. NBUF /\ back[Mirror(m)] = b
    BY <1>1, <1>2, <2>1
  <2>3. QED  BY <2>2
<1>6. back[0] = Head0
  BY DEF Backwards
<1>7. QED  BY <1>3, <1>4, <1>5, <1>6 DEF IsOrder

LEMMA BackwardsFollows ==
  ASSUME NEW links, NEW order, IsOrder(order), LinkedBy(links, order)
  PROVE  Follows(links.prev, Backwards(order))
<1> SUFFICES ASSUME NEW n \in 0 .. NBUF
             PROVE  links.prev[Backwards(order)[n]] = Backwards(order)[Succ(n)]
  BY DEF Follows
<1>0. \A m \in 0 .. NBUF : links.prev[order[Succ(m)]] = order[m]
  BY DEF LinkedBy
<1>1. order[0] = 0
  BY DEF IsOrder
<1>2. CASE n = 0
  <2>1. links.prev[0] = order[NBUF]
    BY <1>0, <1>1 DEF Succ
  <2>2. Succ(n) = 1 /\ NBUF + 1 - 1 = NBUF
    BY <1>2 DEF Succ
  <2>3. QED  BY <1>2, <2>1, <2>2 DEF Backwards
<1>3. CASE n = NBUF
  <2>1. links.prev[order[1]] = order[0]
    BY <1>0 DEF Succ
  <2>2. Succ(n) = 0 /\ NBUF + 1 - n = 1 /\ n # 0
    BY <1>3 DEF Succ
  <2>3. QED  BY <1>1, <1>3, <2>1, <2>2 DEF Backwards
<1>4. CASE n # 0 /\ n # NBUF
  <2>1. NBUF - n \in 0 .. NBUF /\ Succ(NBUF - n) = NBUF + 1 - n
    BY <1>4 DEF Succ
  <2>2. links.prev[order[NBUF + 1 - n]] = order[NBUF - n]
    BY <1>0, <2>1
  <2>3. Succ(n) = n + 1 /\ NBUF + 1 - (n + 1) = NBUF - n /\ n + 1 \in 0 .. NBUF
    BY <1>4 DEF Succ
  <2>4. QED  BY <1>4, <2>2, <2>3 DEF Backwards
<1>5. QED  BY <1>2, <1>3, <1>4

\* The walk from the sentinel on, forwards or backwards, comes by every buffer.
LEMMA WalksVisitAll ==
  ASSUME ListInv
  PROVE  /\ {Walk(next)[n] : n \in Buffers} = Buffers
         /\ {Walk(prev)[n] : n \in Buffers} = Buffers
<1>1. PICK order \in Links : IsOrder(order) /\ LinkedBy([next |-> next, prev |-> prev], order)
  BY DEF ListInv, IsList
<1>2. ASSUME NEW o, IsOrder(o) PROVE {o[n] : n \in Buffers} = Buffers
  <2>1. \A n \in Buffers : n \in 0 .. NBUF /\ n # 0 /\ 0 \in 0 .. NBUF
    OBVIOUS
  <2>2. \A n \in Buffers : o[n] \in 0 .. NBUF /\ o[n] # 0
    BY <1>2, <2>1 DEF IsOrder, Links
  <2>3. \A b \in Buffers : \E n \in Buffers : o[n] = b
    BY <1>2 DEF IsOrder
  <2>4. QED  BY <2>2, <2>3
<1>3. \A n \in Buffers : Walk(next)[n] = order[n]
  BY <1>1, WalkFollows DEF LinkedBy
<1>4. prev \in Links /\ Follows(prev, Backwards(order)) /\ IsOrder(Backwards(order))
  <2> DEFINE links == [next |-> next, prev |-> prev]
  <2>1. links.prev = prev
    OBVIOUS
  <2>2. links.prev \in Links /\ Follows(links.prev, Backwards(order))
    BY <1>1, BackwardsFollows DEF LinkedBy
  <2>3. QED  BY <1>1, <2>1, <2>2, BackwardsIsOrder
<1>5. \A n \in Buffers : Walk(prev)[n] = Backwards(order)[n]
  BY <1>4, WalkFollows
<1>6. {Walk(next)[n] : n \in Buffers} = {order[n] : n \in Buffers}
  BY <1>3
<1>7. {Walk(prev)[n] : n \in Buffers} = {Backwards(order)[n] : n \in Buffers}
  BY <1>5
<1>8. QED  BY <1>1, <1>2, <1>4, <1>6, <1>7

\* What bget's loops find, they were looking for.
LEMMA FirstInMember ==
  ASSUME NEW walk, NEW S, \E n \in Buffers : walk[n] \in S
  PROVE  FirstIn(walk, S) \in S
<1> DEFINE T == {n \in 0 .. NBUF : \A m \in 1 .. n : walk[m] \notin S}
<1>1. \E n \in Buffers : walk[n] \in S /\ \A m \in 1 .. n - 1 : walk[m] \notin S
  <2> SUFFICES ASSUME \A n \in Buffers : walk[n] \in S => \E m \in 1 .. n - 1 : walk[m] \in S
               PROVE  FALSE
    OBVIOUS
  <2>1. 0 \in T
    OBVIOUS
  <2>2. ASSUME NEW n \in 0 .. NBUF - 1, n \in T PROVE n + 1 \in T
    <3>1. walk[n + 1] \notin S
      BY <2>2
    <3>2. \A m \in 1 .. n + 1 : m \in 1 .. n \/ m = n + 1
      OBVIOUS
    <3>3. QED  BY <2>2, <3>1, <3>2
  <2>3. 0 .. NBUF \subseteq T
    <3> HIDE DEF T
    <3> QED  BY <2>1, <2>2, IntervalInduction
  <2>4. NBUF \in T
    BY <2>3
  <2>5. QED  BY <2>4
<1>2. QED  BY <1>1 DEF FirstIn

\* The pointer assignments of brelse, one by one; front is the buffer that was in front.
LEMMA MovedLinks ==
  ASSUME next \in Links, prev \in Links, NEW b \in Buffers
  PROVE  LET front == IF prev[b] = 0 THEN next[b] ELSE next[0]
         IN  /\ MoveToFront(b).next =
                  [[[next EXCEPT ![prev[b]] = next[b]] EXCEPT ![b] = front] EXCEPT ![0] = b]
             /\ MoveToFront(b).prev =
                  [[[prev EXCEPT ![next[b]] = prev[b]] EXCEPT ![b] = 0] EXCEPT ![front] = b]
<1> DEFINE links == [next |-> next, prev |-> prev]
           cut   == Unlink(links, b)
           front == IF prev[b] = 0 THEN next[b] ELSE next[0]
<1>1. /\ cut.next = [next EXCEPT ![prev[b]] = next[b]]
      /\ cut.prev = [prev EXCEPT ![next[b]] = prev[b]]
      /\ cut = [next |-> cut.next, prev |-> cut.prev]
  <2>1. links.next = next /\ links.prev = prev
    OBVIOUS
  <2>2. cut = [next |-> [next EXCEPT ![prev[b]] = next[b]], prev |-> [prev EXCEPT ![next[b]] = prev[b]]]
    <3> DEFINE n2 == [next EXCEPT ![prev[b]] = next[b]]
               p2 == [prev EXCEPT ![next[b]] = prev[b]]
    <3>1. cut = [[links EXCEPT !.prev = p2] EXCEPT !.next = n2]
      BY <2>1 DEF Unlink
    <3> HIDE DEF n2, p2
    <3>2. [[links EXCEPT !.prev = p2] EXCEPT !.next = n2] = [next |-> n2, prev |-> p2]
      <4>1. [links EXCEPT !.prev = p2] = [next |-> next, prev |-> p2]
        OBVIOUS
      <4>2. [[next |-> next, prev |-> p2] EXCEPT !.next = n2] = [next |-> n2, prev |-> p2]
        OBVIOUS
      <4> HIDE DEF links
      <4>3. QED  BY <4>1, <4>2
    <3>3. QED  BY <3>1, <3>2 DEF n2, p2
  <2> HIDE DEF cut
  <2>3. QED  BY <2>2
<1>2. 0 \in 0 .. NBUF /\ prev[b] \in 0 .. NBUF
  <2>1. b \in 0 .. NBUF /\ 0 \in 0 .. NBUF
    OBVIOUS
  <2>2. QED  BY <2>1 DEF Links
<1>3. cut.next[0] = front
  BY <1>1, <1>2 DEF Links
<1>4. MoveToFront(b) = LinkFirst(cut, b)
  BY DEF MoveToFront
<1> HIDE DEF cut
<1>5. /\ LinkFirst(cut, b).next = [[cut.next EXCEPT ![b] = cut.next[0]] EXCEPT ![0] = b]
      /\ LinkFirst(cut, b).prev = [[cut.prev EXCEPT ![b] = 0] EXCEPT ![cut.next[0]] = b]
  BY <1>1 DEF LinkFirst
<1>6. QED  BY <1>1, <1>3, <1>4, <1>5

\* The kth of a list, moved to its front.
MovedOrder(order, k) ==
  [n \in 0 .. NBUF |-> IF n = 1 THEN order[k] ELSE IF n \in 2 .. k THEN order[n - 1] ELSE order[n]]

LEMMA MovedIsOrder ==
  ASSUME NEW order, IsOrder(order), NEW k \in Buffers
  PROVE  IsOrder(MovedOrder(order, k))
<1> DEFINE From(n) == IF n = 1 THEN k ELSE IF n \in 2 .. k THEN n - 1 ELSE n
           To(n)   == IF n = k THEN 1 ELSE IF n \in 1 .. k - 1 THEN n + 1 ELSE n
           moved   == MovedOrder(order, k)
<1>1. \A n \in 0 .. NBUF : From(n) \in 0 .. NBUF /\ To(n) \in 0 .. NBUF
  OBVIOUS
<1>2. \A n \in 0 .. NBUF : From(To(n)) = n /\ To(From(n)) = n
  OBVIOUS
<1>3. \A n \in 0 .. NBUF : moved[n] = order[From(n)]
  BY DEF MovedOrder
<1>4. moved \in Links
  BY <1>1, <1>3 DEF MovedOrder, Links, IsOrder
<1>5. moved[0] = 0
  BY <1>3 DEF IsOrder
<1>6. ASSUME NEW m \in 0 .. NBUF, NEW n \in 0 .. NBUF, moved[m] = moved[n] PROVE m = n
  <2>0. order[From(m)] = order[From(n)] /\ From(m) \in 0 .. NBUF /\ From(n) \in 0 .. NBUF
    BY <1>1, <1>3, <1>6
  <2>1. From(m) = From(n)
    <3> HIDE DEF From
    <3>1. QED  BY <2>0 DEF IsOrder
  <2>2. QED  BY <1>2, <2>1
<1>7. ASSUME NEW b \in 0 .. NBUF PROVE \E n \in 0 .. NBUF : moved[n] = b
  <2>1. PICK m \in 0 .. NBUF : order[m] = b
    BY DEF IsOrder
  <2>2. To(m) \in 0 .. NBUF /\ moved[To(m)] = b
    BY <1>1, <1>2, <1>3, <2>1
  <2>3. QED  BY <2>2
<1>8. QED  BY <1>4, <1>5, <1>6, <1>7 DEF IsOrder

\* Moving a buffer to the front leaves a list of all buffers.
LEMMA MoveKeepsList ==
  ASSUME ListInv, NEW b \in Buffers
  PROVE  IsList([next |-> MoveToFront(b).next, prev |-> MoveToFront(b).prev])
<1>1. PICK order \in Links : IsOrder(order) /\ LinkedBy([next |-> next, prev |-> prev], order)
  BY DEF ListInv, IsList
<1>2. /\ next \in Links /\ prev \in Links
      /\ \A n \in 0 .. NBUF : next[order[n]] = order[Succ(n)] /\ prev[order[Succ(n)]] = order[n]
  BY <1>1 DEF LinkedBy, Follows
<1>3. PICK k \in 0 .. NBUF : order[k] = b
  BY <1>1 DEF IsOrder
<1>4. k \in Buffers /\ k - 1 \in 0 .. NBUF /\ Succ(k - 1) = k /\ Succ(k) \in 0 .. NBUF
  BY <1>1, <1>3 DEF IsOrder, Succ
<1> DEFINE front == IF prev[b] = 0 THEN next[b] ELSE next[0]
           n1 == [[[next EXCEPT ![prev[b]] = next[b]] EXCEPT ![b] = front] EXCEPT ![0] = b]
           p1 == [[[prev EXCEPT ![next[b]] = prev[b]] EXCEPT ![b] = 0] EXCEPT ![front] = b]
           moved == MovedOrder(order, k)
<1>5. /\ order[0] = 0 /\ order \in Links
      /\ \A m, n \in 0 .. NBUF : order[m] = order[n] <=> m = n
  BY <1>1 DEF IsOrder
<1>6. prev[b] = order[k - 1] /\ next[b] = order[Succ(k)]
  BY <1>2, <1>3, <1>4
<1>7. front = IF k = 1 THEN order[Succ(1)] ELSE order[1]
  <2>1. next[0] = order[1]
    BY <1>2, <1>5 DEF Succ
  <2>2. prev[b] = 0 <=> k = 1
    BY <1>4, <1>5, <1>6
  <2>3. QED  BY <1>6, <2>1, <2>2
<1>8. front = moved[Succ(1)]
  <2>1. Succ(1) = IF NBUF = 1 THEN 0 ELSE 2
    BY DEF Succ
  <2>2. CASE k = 1
    BY <1>5, <1>7, <2>1, <2>2 DEF MovedOrder
  <2>3. CASE k # 1
    BY <1>4, <1>5, <1>7, <2>1, <2>3 DEF MovedOrder
  <2>4. QED  BY <2>2, <2>3
<1>9. n1 \in Links /\ p1 \in Links
  <2>1. /\ b \in 0 .. NBUF /\ 0 \in 0 .. NBUF /\ 1 \in 0 .. NBUF
        /\ next[b] \in 0 .. NBUF /\ prev[b] \in 0 .. NBUF /\ next[0] \in 0 .. NBUF
    <3>1. b \in 0 .. NBUF /\ 0 \in 0 .. NBUF /\ 1 \in 0 .. NBUF
      OBVIOUS
    <3> HIDE DEF front, n1, p1, moved
    <3>2. QED  BY <1>2, <3>1 DEF Links
  <2>2. front \in 0 .. NBUF
    BY <2>1
  <2> HIDE DEF front
  <2>3. QED  BY <1>2, <2>1, <2>2 DEF Links
<1>10. IsOrder(moved)
  BY <1>1, <1>4, MovedIsOrder
<1>11. /\ \A x \in 0 .. NBUF : n1[x] = IF x = 0 THEN b ELSE IF x = b THEN front
                                      ELSE IF x = order[k - 1] THEN order[Succ(k)] ELSE next[x]
       /\ \A x \in 0 .. NBUF : p1[x] = IF x = front THEN b ELSE IF x = b THEN 0
                                      ELSE IF x = order[Succ(k)] THEN order[k - 1] ELSE prev[x]
  BY <1>2, <1>4, <1>6 DEF Links
<1>12. \A n \in 0 .. NBUF : n1[moved[n]] = moved[Succ(n)] /\ p1[moved[Succ(n)]] = moved[n]
  <2>0. /\ moved[0] = 0 /\ moved[1] = b
        /\ \A n \in 2 .. k : moved[n] = order[n - 1]
        /\ \A n \in k + 1 .. NBUF : moved[n] = order[n]
    BY <1>3, <1>4, <1>5 DEF MovedOrder
  <2> HIDE DEF n1, p1, moved, front
  <2>1. n1[0] = b /\ n1[b] = front /\ p1[b] = 0 /\ p1[front] = b
    <3>1. b # front /\ b # 0 /\ b \in 0 .. NBUF /\ front \in 0 .. NBUF
      <4>1. 1 \in 0 .. NBUF /\ Succ(1) \in 0 .. NBUF /\ Succ(1) # 1
        BY DEF Succ
      <4>2. front \in 0 .. NBUF
        BY <1>5, <1>7, <4>1 DEF Links
      <4>3. ASSUME k = 1 PROVE b # front
        BY <1>3, <1>5, <1>7, <4>1, <4>3
      <4>4. ASSUME k # 1 PROVE b # front
        BY <1>3, <1>5, <1>7, <4>1, <4>4
      <4>5. b # front
        BY <4>3, <4>4
      <4>6. QED  BY <4>2, <4>5
    <3>2. QED  BY <1>11, <3>1
  <2> SUFFICES ASSUME NEW n \in 0 .. NBUF
               PROVE  n1[moved[n]] = moved[Succ(n)] /\ p1[moved[Succ(n)]] = moved[n]
    OBVIOUS
  <2>2. CASE n = 0
    <3>1. Succ(n) = 1
      BY <2>2 DEF Succ
    <3>2. QED  BY <2>0, <2>1, <2>2, <3>1
  <2>3. CASE n = 1
    BY <1>8, <2>0, <2>1, <2>3
  \* Away from where b was and is, the links are those there were.
  <2>4. ASSUME NEW m \in 0 .. NBUF, m # 0, m # k, m # k - 1
        PROVE  n1[order[m]] = order[Succ(m)]
    <3>1. order[m] # 0 /\ order[m] # b /\ order[m] # order[k - 1] /\ order[m] \in 0 .. NBUF
      BY <1>3, <1>4, <1>5, <2>4 DEF Links
    <3>2. QED  BY <1>2, <1>11, <3>1
  <2>5. ASSUME NEW m \in 0 .. NBUF, order[Succ(m)] # front, m # k, m # k - 1
        PROVE  p1[order[Succ(m)]] = order[m]
    <3>1. Succ(m) \in 0 .. NBUF /\ Succ(m) # k /\ Succ(m) # Succ(k)
      BY <1>4, <2>5 DEF Succ
    <3>2. order[Succ(m)] # b /\ order[Succ(m)] # order[Succ(k)] /\ order[Succ(m)] \in 0 .. NBUF
      BY <1>3, <1>4, <1>5, <3>1 DEF Links
    <3>3. QED  BY <1>2, <1>11, <2>5, <3>2
  <2>6. CASE n \in 2 .. k - 1
    <3>1. /\ n - 1 \in 0 .. NBUF /\ n - 1 # 0 /\ n - 1 # k /\ n - 1 # k - 1
          /\ Succ(n - 1) = n /\ Succ(n) = n + 1 /\ n + 1 \in 2 .. k /\ n \in 2 .. k
          /\ n \in 0 .. NBUF /\ 1 \in 0 .. NBUF /\ n # 1 /\ k # 1
      BY <1>4, <2>6 DEF Succ
    <3>2. moved[n] = order[n - 1] /\ moved[Succ(n)] = order[n]
      BY <2>0, <3>1
    <3>3. order[Succ(n - 1)] # front
      BY <1>5, <1>7, <3>1
    <3>4. QED  BY <2>4, <2>5, <3>1, <3>2, <3>3
  <2>7. CASE n = k /\ k # 1
    <3>1. /\ moved[n] = order[k - 1] /\ moved[Succ(n)] = order[Succ(k)]
      <4>1. k \in 2 .. k
        BY <1>4, <2>7
      <4>2. CASE k = NBUF
        BY <1>5, <2>0, <2>7, <4>1, <4>2 DEF Succ
      <4>3. CASE k # NBUF
        <5>1. Succ(k) \in k + 1 .. NBUF
          BY <1>4, <4>3 DEF Succ
        <5>2. QED  BY <2>0, <2>7, <4>1, <5>1
      <4>4. QED  BY <4>2, <4>3
    <3>2. k - 1 # 0 /\ k - 1 # k /\ 0 \in 0 .. NBUF /\ Succ(k) # k /\ Succ(k) # 1 /\ 1 \in 0 .. NBUF
      BY <1>4, <2>7 DEF Succ
    <3>3. order[k - 1] # 0 /\ order[k - 1] # b /\ order[k - 1] \in 0 .. NBUF
      BY <1>3, <1>4, <1>5, <3>2 DEF Links
    <3>4. order[Succ(k)] # b /\ order[Succ(k)] # front /\ order[Succ(k)] \in 0 .. NBUF
      BY <1>3, <1>4, <1>5, <1>7, <2>7, <3>2 DEF Links
    <3>5. QED  BY <1>11, <3>1, <3>3, <3>4
  <2>8. CASE n \in k + 1 .. NBUF /\ n # 1
    <3>1. n # 0 /\ n # k /\ n # k - 1
      BY <1>4, <2>8
    <3>2. moved[n] = order[n] /\ moved[Succ(n)] = order[Succ(n)]
      <4>1. CASE n = NBUF
        BY <1>5, <2>0, <2>8, <4>1 DEF Succ
      <4>2. CASE n # NBUF
        <5>1. Succ(n) \in k + 1 .. NBUF
          BY <1>4, <2>8, <4>2 DEF Succ
        <5>2. QED  BY <2>0, <2>8, <5>1
      <4>3. QED  BY <4>1, <4>2
    <3>3. order[Succ(n)] # front
      <4>1. Succ(n) \in 0 .. NBUF /\ Succ(n) # 1 /\ Succ(n) # Succ(1) /\ Succ(1) \in 0 .. NBUF
        BY <2>8, <3>1 DEF Succ
      <4>2. 1 \in 0 .. NBUF
        OBVIOUS
      <4>3. QED  BY <1>5, <1>7, <4>1, <4>2
    <3>4. QED  BY <2>4, <2>5, <3>1, <3>2, <3>3
  <2>9. QED
    <3>1. n = 0 \/ n = 1 \/ n \in 2 .. k - 1 \/ (n = k /\ k # 1) \/ (n \in k + 1 .. NBUF /\ n # 1)
      BY <1>4
    <3>2. QED  BY <2>2, <2>3, <2>6, <2>7, <2>8, <3>1
<1>13. moved \in Links /\ n1 \in Links /\ p1 \in Links
  BY <1>9, <1>10 DEF IsOrder
<1>14. QED
  <2>1. MoveToFront(b).next = n1 /\ MoveToFront(b).prev = p1
    BY <1>2, MovedLinks
  <2> DEFINE new == [next |-> MoveToFront(b).next, prev |-> MoveToFront(b).prev]
  <2>2. new.next = n1 /\ new.prev = p1
    BY <2>1
  <2> HIDE DEF n1, p1, moved, new
  <2>3. LinkedBy(new, moved)
    BY <1>12, <1>13, <2>2 DEF LinkedBy, Follows
  <2>4. QED  BY <1>10, <1>13, <2>3 DEF IsList, new

-----------------------------------------------------------------------------
(***************************************************************************)
(* The driver.  A buffer is dirty, or has a block but not yet its data,    *)
(* only while the thread is in iderw for it; the request is in the queue   *)
(* from the step that appends it to the interrupt that finishes it.        *)
(***************************************************************************)
InIderw == thread.pc \in {"append", "start", "wait"}

ForThread(b) == InIderw /\ b = thread.b

\* The command for the buffer the thread waits for.
Command ==
  /\ drive.state \in {"working", "done"}
  /\ drive.op = IF Dirty(thread.b) THEN "write" ELSE "read"
  /\ drive.block = thread.block
  /\ drive.data = buf[thread.b].data

Underway ==
  /\ idequeue = <<thread.b>>
  /\ Valid(thread.b) <=> Dirty(thread.b)
  /\ thread.pc \in {"append", "start"} => drive = NoCommand
  /\ thread.pc = "wait" => Command

Finished == idequeue = <<>> /\ drive = NoCommand

RequestInv ==
  /\ thread.pc \in {"between", "returned"} => Finished
  /\ InIderw => thread.b \in Buffers /\ Busy(thread.b) /\ buf[thread.b].block = thread.block
  /\ thread.pc = "append" => Finished /\ (Valid(thread.b) <=> Dirty(thread.b))
  /\ thread.pc = "start" => Underway
  /\ thread.pc = "wait" => Underway \/ (Finished /\ Valid(thread.b) /\ ~Dirty(thread.b))

FlagsInv ==
  \A b \in Buffers :
    /\ Dirty(b) => Valid(b) /\ ForThread(b)
    /\ buf[b].block = NoBlock => buf[b].flags = {}
    /\ buf[b].block # NoBlock => Valid(b) \/ ForThread(b)

ReturnedInv ==
  thread.pc = "returned" =>
    IF thread.b = Head0 THEN Held = Buffers
    ELSE Busy(thread.b) /\ Valid(thread.b) /\ buf[thread.b].block = thread.block

CacheInv == CacheTypeOK /\ ListInv /\ RequestInv /\ FlagsInv /\ ReturnedInv

\* Without disk errors, what is valid is what the drive answered.
DataInv ==
  /\ drive.failed = FALSE
  /\ \A block \in Blocks : disk[block] \in Content /\ disk[block][1] = block
  /\ \A b \in Buffers :
       Valid(b) => buf[b].data \in Content /\ buf[b].data[1] = buf[b].block

\* To a thread that keeps the rules, a buffer that nobody has changed is as on the disk.
SavedInv ==
  /\ unsaved \subseteq Held
  /\ \A b \in Buffers :
       Valid(b) /\ ~Dirty(b) /\ b \notin unsaved => buf[b].data = disk[buf[b].block]
  /\ drive.state = "done" /\ drive.op = "write" => disk[drive.block] = drive.data

-----------------------------------------------------------------------------
(***************************************************************************)
(* What the steps do to a buffer: they put a record of buffer type into    *)
(* one, and leave the others as they are.                                  *)
(***************************************************************************)
BufferType == [flags : SUBSET {"BUSY", "VALID", "DIRTY"},
               block : Blocks \cup {NoBlock}, data : Content \cup {NoData}]

Puts(b, flags, block, data) ==
  /\ buf' \in [Buffers -> BufferType]
  /\ buf'[b].flags = flags /\ buf'[b].block = block /\ buf'[b].data = data
  /\ \A other \in Buffers : other # b => buf'[other] = buf[other]

LEMMA BufferFields ==
  ASSUME CacheTypeOK, NEW b \in Buffers
  PROVE  /\ buf[b] \in BufferType
         /\ buf[b].flags \subseteq {"BUSY", "VALID", "DIRTY"}
         /\ buf[b].block \in Blocks \cup {NoBlock}
         /\ buf[b].data \in Content \cup {NoData}
  BY DEF CacheTypeOK, BufferType

LEMMA PutBuffer ==
  ASSUME CacheTypeOK, NEW b \in Buffers,
         NEW flags \in SUBSET {"BUSY", "VALID", "DIRTY"},
         NEW block \in Blocks \cup {NoBlock}, NEW data \in Content \cup {NoData},
         buf' = [buf EXCEPT ![b] = [flags |-> flags, block |-> block, data |-> data]]
  PROVE  Puts(b, flags, block, data)
<1> DEFINE new == [flags |-> flags, block |-> block, data |-> data]
<1>1. new \in BufferType /\ new.flags = flags /\ new.block = block /\ new.data = data
  BY DEF BufferType
<1>2. buf \in [Buffers -> BufferType]
  BY DEF CacheTypeOK, BufferType
<1> HIDE DEF new
<1>3. buf' = [buf EXCEPT ![b] = new]
  BY DEF new
<1>4. buf'[b] = new /\ buf' \in [Buffers -> BufferType]
  BY <1>1, <1>2, <1>3
<1>5. \A other \in Buffers : other # b => buf'[other] = buf[other]
  BY <1>2, <1>3
<1>6. QED  BY <1>1, <1>4, <1>5 DEF Puts

\* A record of buffer type is its three fields.
LEMMA RecordFields ==
  ASSUME NEW s \in BufferType, NEW flags, NEW data
  PROVE  /\ [s EXCEPT !.flags = flags] = [flags |-> flags, block |-> s.block, data |-> s.data]
         /\ [s EXCEPT !.data = data] = [flags |-> s.flags, block |-> s.block, data |-> data]
<1>1. s = [flags |-> s.flags, block |-> s.block, data |-> s.data]
  BY DEF BufferType
<1>2. ASSUME NEW f, NEW k, NEW d
      PROVE  /\ [[flags |-> f, block |-> k, data |-> d] EXCEPT !.flags = flags]
                  = [flags |-> flags, block |-> k, data |-> d]
             /\ [[flags |-> f, block |-> k, data |-> d] EXCEPT !.data = data]
                  = [flags |-> f, block |-> k, data |-> data]
  OBVIOUS
<1>3. QED  BY <1>1, <1>2

LEMMA FlagsChanged ==
  ASSUME CacheTypeOK, NEW b \in Buffers, NEW flags
  PROVE  [buf EXCEPT ![b].flags = flags] =
           [buf EXCEPT ![b] = [flags |-> flags, block |-> buf[b].block, data |-> buf[b].data]]
<1>1. buf[b] \in BufferType
  BY DEF CacheTypeOK, BufferType
<1>2. [buf[b] EXCEPT !.flags = flags]
        = [flags |-> flags, block |-> buf[b].block, data |-> buf[b].data]
  BY <1>1, RecordFields
<1>3. QED  BY <1>2

LEMMA DataChanged ==
  ASSUME CacheTypeOK, NEW b \in Buffers, NEW data
  PROVE  [buf EXCEPT ![b].data = data] =
           [buf EXCEPT ![b] = [flags |-> buf[b].flags, block |-> buf[b].block, data |-> data]]
<1>1. buf[b] \in BufferType
  BY DEF CacheTypeOK, BufferType
<1>2. [buf[b] EXCEPT !.data = data]
        = [flags |-> buf[b].flags, block |-> buf[b].block, data |-> data]
  BY <1>1, RecordFields
<1>3. QED  BY <1>2

LEMMA FlagsAndDataChanged ==
  ASSUME CacheTypeOK, NEW b \in Buffers, NEW flags, NEW data
  PROVE  [buf EXCEPT ![b].flags = flags, ![b].data = data] =
           [buf EXCEPT ![b] = [flags |-> flags, block |-> buf[b].block, data |-> data]]
<1> DEFINE half == [flags |-> flags, block |-> buf[b].block, data |-> buf[b].data]
           all  == [flags |-> flags, block |-> buf[b].block, data |-> data]
<1>0. buf \in [Buffers -> BufferType]
  BY DEF CacheTypeOK, BufferType
<1>1. [buf EXCEPT ![b].flags = flags] = [buf EXCEPT ![b] = half]
  BY FlagsChanged
<1>2. [half EXCEPT !.data = data] = all
  OBVIOUS
<1> HIDE DEF half, all
<1>3. [[buf EXCEPT ![b] = half] EXCEPT ![b].data = data] = [buf EXCEPT ![b] = all]
  BY <1>0, <1>2
<1> DEFINE first == [buf EXCEPT ![b].flags = flags]
<1>4. [first EXCEPT ![b].data = data] = [buf EXCEPT ![b] = all]
  <2> HIDE DEF first
  <2>1. first = [buf EXCEPT ![b] = half]
    BY <1>1 DEF first
  <2>2. QED  BY <1>3, <2>1
<1>5. QED  BY <1>4 DEF all

LEMMA RecycledFields ==
  ASSUME CacheTypeOK, NEW b \in Buffers, NEW block
  PROVE  Recycled(b, block) = [flags |-> {"BUSY"}, block |-> block, data |-> buf[b].data]
<1> DEFINE flags == {"BUSY"}
           half  == [flags |-> flags, block |-> buf[b].block, data |-> buf[b].data]
<1> HIDE DEF flags
<1>0. buf[b] \in BufferType
  BY DEF CacheTypeOK, BufferType
<1>1. [buf[b] EXCEPT !.flags = flags] = half
  BY <1>0, RecordFields
<1>2. [half EXCEPT !.block = block] = [flags |-> flags, block |-> block, data |-> buf[b].data]
  OBVIOUS
<1> DEFINE first == [buf[b] EXCEPT !.flags = flags]
<1>3. Recycled(b, block) = [first EXCEPT !.block = block]
  BY DEF Recycled, flags
<1>4. [first EXCEPT !.block = block] = [half EXCEPT !.block = block]
  <2> HIDE DEF first, half
  <2>1. first = half
    BY <1>1 DEF first
  <2>2. QED  BY <2>1
<1>5. QED  BY <1>2, <1>3, <1>4 DEF flags

\* bget hands out a buffer it was looking for.
LEMMA BgetFinds ==
  ASSUME ListInv
  PROVE  /\ \A block \in Blocks : CachedFree(block) # {} =>
               FirstIn(Walk(next), CachedFree(block)) \in CachedFree(block)
         /\ Recyclable # {} => FirstIn(Walk(prev), Recyclable) \in Recyclable
<1>1. ASSUME NEW walk, NEW S, S \subseteq Buffers, S # {}, {walk[n] : n \in Buffers} = Buffers
      PROVE  FirstIn(walk, S) \in S
  <2>1. \E n \in Buffers : walk[n] \in S
    BY <1>1
  <2>2. QED  BY <2>1, FirstInMember
<1>2. \A block \in Blocks : CachedFree(block) \subseteq Buffers
  BY DEF CachedFree
<1>3. Recyclable \subseteq Buffers
  BY DEF Recyclable
<1> HIDE DEF Buffers
<1>4. QED  BY <1>1, <1>2, <1>3, WalksVisitAll

LEMMA BreadDoes ==
  ASSUME CacheTypeOK, ListInv, NEW block \in Blocks, Bread(block)
  PROVE  \/ \E b \in CachedFree(block) :
              /\ Puts(b, buf[b].flags \cup {"BUSY"}, block, buf[b].data)
              /\ thread' = [pc |-> IF Valid(b) THEN "returned" ELSE "append",
                            b |-> b, block |-> block]
         \/ /\ CachedFree(block) = {}
            /\ \E b \in Recyclable :
                 /\ Puts(b, {"BUSY"}, block, buf[b].data)
                 /\ thread' = [pc |-> "append", b |-> b, block |-> block]
         \/ /\ CachedFree(block) = {} /\ Recyclable = {}
            /\ thread' = [pc |-> "returned", b |-> Head0, block |-> block]
            /\ UNCHANGED buf
<1>1. CASE CachedFree(block) # {}
  <2> DEFINE b == FirstIn(Walk(next), CachedFree(block))
  <2>1. /\ buf' = [buf EXCEPT ![b].flags = buf[b].flags \cup {"BUSY"}]
        /\ thread' = [pc |-> IF Valid(b) THEN "returned" ELSE "append", b |-> b, block |-> block]
    BY <1>1 DEF Bread, Found, Valid
  <2>2. b \in CachedFree(block)
    BY <1>1, BgetFinds
  <2>3. b \in Buffers /\ buf[b].block = block
    BY <2>2 DEF CachedFree
  <2> HIDE DEF b
  <2> DEFINE flags == buf[b].flags \cup {"BUSY"}
  <2>4. flags \in SUBSET {"BUSY", "VALID", "DIRTY"}
    BY <2>3, BufferFields
  <2> HIDE DEF flags
  <2>5. buf' = [buf EXCEPT ![b] = [flags |-> flags, block |-> buf[b].block, data |-> buf[b].data]]
    BY <2>1, <2>3, FlagsChanged DEF flags
  <2>6. buf[b].block \in Blocks \cup {NoBlock} /\ buf[b].data \in Content \cup {NoData}
    BY <2>3, BufferFields
  <2>7. Puts(b, flags, buf[b].block, buf[b].data)
    BY <2>3, <2>4, <2>5, <2>6, PutBuffer
  <2>8. QED  BY <2>1, <2>2, <2>3, <2>7 DEF flags
<1>2. CASE CachedFree(block) = {} /\ Recyclable # {}
  <2> DEFINE b == FirstIn(Walk(prev), Recyclable)
  <2>1. /\ buf' = [buf EXCEPT ![b] = Recycled(b, block)]
        /\ Found(b, block, Recycled(b, block).flags)
    BY <1>2 DEF Bread
  <2>2. b \in Recyclable
    BY <1>2, BgetFinds
  <2>3. b \in Buffers
    BY <2>2 DEF Recyclable
  <2> HIDE DEF b
  <2>4. Recycled(b, block) = [flags |-> {"BUSY"}, block |-> block, data |-> buf[b].data]
    BY <2>3, RecycledFields
  <2>5. thread' = [pc |-> "append", b |-> b, block |-> block]
    BY <2>1, <2>4 DEF Found
  <2>6. buf[b].data \in Content \cup {NoData}
    BY <2>3, BufferFields
  <2>7. Puts(b, {"BUSY"}, block, buf[b].data)
    BY <2>1, <2>3, <2>4, <2>6, PutBuffer
  <2>8. QED  BY <1>2, <2>2, <2>5, <2>7
<1>3. CASE CachedFree(block) = {} /\ Recyclable = {}
  BY <1>3 DEF Bread
<1>4. QED  BY <1>1, <1>2, <1>3

LEMMA BwriteDoes ==
  ASSUME CacheTypeOK, NEW b \in Buffers, Bwrite(b)
  PROVE  Puts(b, buf[b].flags \cup {"DIRTY"}, buf[b].block, buf[b].data)
<1> DEFINE flags == buf[b].flags \cup {"DIRTY"}
<1>1. flags \in SUBSET {"BUSY", "VALID", "DIRTY"}
  BY BufferFields
<1>2. buf' = [buf EXCEPT ![b] = [flags |-> flags, block |-> buf[b].block, data |-> buf[b].data]]
  BY FlagsChanged DEF Bwrite
<1> HIDE DEF flags
<1>3. Puts(b, flags, buf[b].block, buf[b].data)
  BY <1>1, <1>2, BufferFields, PutBuffer
<1>4. QED  BY <1>3 DEF flags

LEMMA BrelseDoes ==
  ASSUME CacheTypeOK, NEW b \in Buffers, Brelse(b)
  PROVE  Puts(b, buf[b].flags \ {"BUSY"}, buf[b].block, buf[b].data)
<1> DEFINE flags == buf[b].flags \ {"BUSY"}
<1>1. flags \in SUBSET {"BUSY", "VALID", "DIRTY"}
  BY BufferFields
<1>2. buf' = [buf EXCEPT ![b] = [flags |-> flags, block |-> buf[b].block, data |-> buf[b].data]]
  BY FlagsChanged DEF Brelse
<1> HIDE DEF flags
<1>3. Puts(b, flags, buf[b].block, buf[b].data)
  BY <1>1, <1>2, BufferFields, PutBuffer
<1>4. QED  BY <1>3 DEF flags

LEMMA ChangeDoes ==
  ASSUME CacheTypeOK, NEW b \in Buffers, Change(b)
  PROVE  /\ buf[b].block \in Blocks
         /\ \E version \in Version :
              Puts(b, buf[b].flags, buf[b].block, <<buf[b].block, version>>)
<1>1. buf[b].block \in Blocks
  BY DEF Change, Blocks
<1>2. PICK version \in Version : buf' = [buf EXCEPT ![b].data = <<buf[b].block, version>>]
  BY DEF Change
<1> DEFINE data == <<buf[b].block, version>>
<1>3. data \in Content \cup {NoData}
  BY <1>1 DEF Content
<1> HIDE DEF data
<1>4. buf' = [buf EXCEPT ![b] = [flags |-> buf[b].flags, block |-> buf[b].block, data |-> data]]
  BY <1>2, DataChanged DEF data
<1>5. Puts(b, buf[b].flags, buf[b].block, data)
  BY <1>3, <1>4, BufferFields, PutBuffer
<1>6. QED  BY <1>1, <1>5 DEF data

\* The interrupt finishes the request of the thread.
LEMMA InterruptDoes ==
  ASSUME CacheInv, ide_irq_handler
  PROVE  /\ thread.pc = "wait" /\ idequeue = <<thread.b>> /\ Underway
         /\ Puts(thread.b, (buf[thread.b].flags \cup {"VALID"}) \ {"DIRTY"}, buf[thread.b].block,
                 IF Dirty(thread.b) \/ drive.failed THEN buf[thread.b].data
                 ELSE disk[thread.block])
         /\ idequeue' = <<>> /\ drive' = NoCommand
<1> DEFINE b == thread.b
<1>0. CacheTypeOK /\ RequestInv /\ FlagsInv
  BY DEF CacheInv
<1>1. drive # NoCommand
  BY DEF ide_irq_handler, NoCommand
<1>2. thread.pc \in {"between", "returned", "append", "start", "wait"}
  BY <1>0 DEF CacheTypeOK
<1>3. thread.pc = "wait" /\ Underway
  BY <1>0, <1>1, <1>2 DEF RequestInv, Finished, Underway
<1>4. /\ idequeue = <<b>> /\ Head(idequeue) = b /\ Tail(idequeue) = <<>> /\ idequeue # <<>>
      /\ drive.block = thread.block
  BY <1>3 DEF Underway, Command
<1>5. b \in Buffers /\ buf[b].block = thread.block /\ "BUSY" \in buf[b].flags
  BY <1>0, <1>3 DEF RequestInv, InIderw, Busy
<1> DEFINE flags == (buf[b].flags \cup {"VALID"}) \ {"DIRTY"}
           data  == IF Dirty(b) \/ drive.failed THEN buf[b].data ELSE disk[thread.block]
<1>6. /\ idequeue' = <<>> /\ drive' = NoCommand
      /\ buf' = [buf EXCEPT ![b].flags = flags, ![b].data = data]
  BY <1>4 DEF ide_irq_handler
<1>7. flags \in SUBSET {"BUSY", "VALID", "DIRTY"}
  BY <1>0, <1>5, BufferFields
<1>8. data \in Content \cup {NoData}
  <2>1. buf[b].block \in Blocks /\ buf[b].data \in Content \cup {NoData}
    BY <1>0, <1>5, BufferFields DEF FlagsInv
  <2>2. disk[thread.block] \in Content \cup {NoData}
    BY <1>0, <1>5, <2>1 DEF CacheTypeOK
  <2>3. QED  BY <2>1, <2>2
<1> HIDE DEF b, flags, data
<1>9. buf' = [buf EXCEPT ![b] = [flags |-> flags, block |-> buf[b].block, data |-> data]]
  BY <1>0, <1>5, <1>6, FlagsAndDataChanged
<1>10. Puts(b, flags, buf[b].block, data)
  BY <1>0, <1>5, <1>7, <1>8, <1>9, BufferFields, PutBuffer
<1>11. QED  BY <1>3, <1>4, <1>6, <1>10 DEF b, flags, data

-----------------------------------------------------------------------------
(***************************************************************************)
(* Every step keeps the invariant.                                         *)
(***************************************************************************)
LEMMA ListKept ==
  ASSUME ListInv, UNCHANGED <<next, prev>>
  PROVE  ListInv'
  BY DEF ListInv

LEMMA ListTyped ==
  ASSUME ListInv
  PROVE  next \in Links /\ prev \in Links
<1>1. PICK order : LinkedBy([next |-> next, prev |-> prev], order)
  BY DEF ListInv, IsList
<1>2. QED  BY <1>1 DEF LinkedBy

ThreadType == [pc : {"between", "returned", "append", "start", "wait"},
               b : 0 .. NBUF, block : Blocks \cup {NoBlock}]

\* What the calls and returns of the thread leave alone keeps its type.
LEMMA TypesKept ==
  ASSUME CacheTypeOK, next' \in Links, prev' \in Links, buf' \in [Buffers -> BufferType],
         thread' \in ThreadType, unsaved' \subseteq Buffers, UNCHANGED <<idequeue, drive, disk>>
  PROVE  CacheTypeOK'
<1>1. /\ next' \in [0 .. NBUF -> 0 .. NBUF] /\ prev' \in [0 .. NBUF -> 0 .. NBUF]
  BY DEF Links
<1>2. buf' \in [Buffers -> [flags : SUBSET {"BUSY", "VALID", "DIRTY"},
                            block : Blocks \cup {NoBlock}, data : Content \cup {NoData}]]
  BY DEF BufferType
<1>3. thread' \in [pc : {"between", "returned", "append", "start", "wait"},
                   b : 0 .. NBUF, block : Blocks \cup {NoBlock}]
  BY DEF ThreadType
<1>4. /\ idequeue' \in {<<>>} \cup {<<b>> : b \in Buffers}
      /\ drive' \in [state : {"idle", "working", "done"}, op : {"none", "read", "write"},
                     block : Blocks \cup {NoBlock}, data : Content \cup {NoData}, failed : BOOLEAN]
      /\ disk' \in [Blocks -> Content \cup {NoData}]
  BY DEF CacheTypeOK
<1> HIDE DEF Buffers
<1>5. QED  BY <1>1, <1>2, <1>3, <1>4 DEF CacheTypeOK

LEMMA ThreadTyped == BetweenCalls \in ThreadType
<1>1. Head0 \in 0 .. NBUF
  OBVIOUS
<1>2. QED  BY <1>1 DEF ThreadType, BetweenCalls

\* Between two calls no buffer is dirty, and what has a block is valid.
LEMMA BetweenCallsClean ==
  ASSUME CacheInv, Between
  PROVE  /\ Finished /\ ~InIderw
         /\ \A b \in Buffers : /\ ~Dirty(b)
                               /\ buf[b].block # NoBlock => Valid(b)
                               /\ Busy(b) => Valid(b) /\ buf[b].block \in Blocks
<1>1. Finished /\ ~InIderw
  BY DEF CacheInv, RequestInv, Between, InIderw
<1>2. ASSUME NEW b \in Buffers
      PROVE  ~Dirty(b) /\ (buf[b].block # NoBlock => Valid(b)) /\ (Busy(b) => Valid(b) /\ buf[b].block \in Blocks)
  <2>1. buf[b].block \in Blocks \cup {NoBlock}
    BY BufferFields DEF CacheInv
  <2>2. ~Dirty(b) /\ (buf[b].block # NoBlock => Valid(b))
    BY <1>1 DEF CacheInv, FlagsInv, ForThread
  <2>3. Busy(b) => buf[b].block # NoBlock
    BY DEF CacheInv, FlagsInv, Busy
  <2>4. QED  BY <2>1, <2>2, <2>3
<1>3. QED  BY <1>1, <1>2

LEMMA NoBlockIsNone == NoBlock \notin Blocks
  BY DEF NoBlock, Blocks

LEMMA BreadKeeps ==
  ASSUME CacheInv, NEW block \in Blocks, Bread(block)
  PROVE  CacheInv'
<1>1. Between /\ UNCHANGED <<next, prev, idequeue, unsaved, drive, disk>>
  BY DEF Bread
<1>2. /\ CacheTypeOK /\ ListInv /\ FlagsInv /\ Finished /\ Finished' /\ ~InIderw
      /\ \A b \in Buffers : ~Dirty(b) /\ (buf[b].block # NoBlock => Valid(b))
  BY <1>1, BetweenCallsClean DEF CacheInv, Finished
<1>3. ListInv'
  BY <1>1, <1>2, ListKept
<1>4. block # NoBlock
  BY NoBlockIsNone
<1>5. ASSUME NEW b \in CachedFree(block),
             Puts(b, buf[b].flags \cup {"BUSY"}, block, buf[b].data),
             thread' = [pc |-> IF Valid(b) THEN "returned" ELSE "append", b |-> b, block |-> block]
      PROVE  CacheInv'
  <2>1. b \in Buffers /\ Valid(b) /\ buf[b].block = block /\ ~Busy(b)
    BY <1>2, <1>4 DEF CachedFree
  <2>2. thread' = [pc |-> "returned", b |-> b, block |-> block] /\ b # Head0 /\ b \in 0 .. NBUF
    BY <1>5, <2>1
  <2>3. CacheTypeOK'
    <3>1. thread' \in ThreadType
      BY <2>2 DEF ThreadType
    <3>2. buf' \in [Buffers -> BufferType] /\ unsaved' \subseteq Buffers
      BY <1>1, <1>2, <1>5 DEF Puts, CacheTypeOK
    <3>3. QED  BY <1>1, <1>2, <3>1, <3>2, ListTyped, TypesKept
  <2>4. RequestInv'
    BY <1>2, <2>2 DEF RequestInv, InIderw
  <2>5. FlagsInv'
    BY <1>2, <1>4, <1>5, <2>1 DEF FlagsInv, Puts, Dirty, Valid, Busy
  <2>6. ReturnedInv'
    BY <1>5, <2>1, <2>2 DEF ReturnedInv, Puts, Valid, Busy
  <2>7. QED  BY <1>3, <2>3, <2>4, <2>5, <2>6 DEF CacheInv
<1>6. ASSUME NEW b \in Recyclable,
             Puts(b, {"BUSY"}, block, buf[b].data),
             thread' = [pc |-> "append", b |-> b, block |-> block]
      PROVE  CacheInv'
  <2>1. b \in Buffers /\ b # Head0 /\ b \in 0 .. NBUF
    BY DEF Recyclable
  <2>2. CacheTypeOK'
    <3>1. thread' \in ThreadType
      BY <1>6, <2>1 DEF ThreadType
    <3>2. buf' \in [Buffers -> BufferType] /\ unsaved' \subseteq Buffers
      BY <1>1, <1>2, <1>6 DEF Puts, CacheTypeOK
    <3>3. QED  BY <1>1, <1>2, <3>1, <3>2, ListTyped, TypesKept
  <2>3. RequestInv'
    BY <1>2, <1>6, <2>1 DEF RequestInv, InIderw, Puts, Dirty, Valid, Busy
  <2>4. FlagsInv'
    BY <1>2, <1>4, <1>6, <2>1 DEF FlagsInv, ForThread, InIderw, Puts, Dirty, Valid, Busy
  <2>5. ReturnedInv'
    BY <1>6 DEF ReturnedInv
  <2>6. QED  BY <1>3, <2>2, <2>3, <2>4, <2>5 DEF CacheInv
<1>7. ASSUME CachedFree(block) = {}, Recyclable = {}, UNCHANGED buf,
             thread' = [pc |-> "returned", b |-> Head0, block |-> block]
      PROVE  CacheInv'
  <2>1. CacheTypeOK'
    <3>1. thread' \in ThreadType
      BY <1>7 DEF ThreadType
    <3>2. buf' \in [Buffers -> BufferType] /\ unsaved' \subseteq Buffers
      BY <1>1, <1>2, <1>7 DEF CacheTypeOK, BufferType
    <3>3. QED  BY <1>1, <1>2, <3>1, <3>2, ListTyped, TypesKept
  <2>2. RequestInv'
    BY <1>2, <1>7 DEF RequestInv, InIderw
  <2>3. FlagsInv'
    BY <1>2, <1>7 DEF FlagsInv, Dirty, Valid
  <2>4. Held = Buffers
    BY <1>2, <1>7 DEF Recyclable, Held
  <2>5. ReturnedInv'
    BY <1>7, <2>4 DEF ReturnedInv, Held, Busy
  <2>6. QED  BY <1>3, <2>1, <2>2, <2>3, <2>5 DEF CacheInv
<1>8. QED  BY <1>2, <1>5, <1>6, <1>7, BreadDoes

LEMMA BwriteKeeps ==
  ASSUME CacheInv, NEW b \in Buffers, Bwrite(b)
  PROVE  CacheInv'
<1>1. /\ Between /\ Busy(b) /\ UNCHANGED <<next, prev, idequeue, drive, disk>>
      /\ thread' = [pc |-> "append", b |-> b, block |-> buf[b].block] /\ unsaved' = unsaved \ {b}
  BY DEF Bwrite, Held
<1>2. /\ CacheTypeOK /\ ListInv /\ FlagsInv /\ Finished /\ Finished' /\ ~InIderw
      /\ \A x \in Buffers : ~Dirty(x) /\ (buf[x].block # NoBlock => Valid(x))
      /\ Valid(b) /\ buf[b].block \in Blocks
  BY <1>1, BetweenCallsClean DEF CacheInv, Finished
<1>3. ListInv'
  BY <1>1, <1>2, ListKept
<1>4. Puts(b, buf[b].flags \cup {"DIRTY"}, buf[b].block, buf[b].data)
  BY <1>2, BwriteDoes
<1>5. CacheTypeOK'
  <2>1. thread' \in ThreadType
    BY <1>1, <1>2 DEF ThreadType
  <2>2. buf' \in [Buffers -> BufferType] /\ unsaved' \subseteq Buffers
    BY <1>1, <1>2, <1>4 DEF Puts, CacheTypeOK
  <2>3. QED  BY <1>1, <1>2, <2>1, <2>2, ListTyped, TypesKept
<1>6. RequestInv'
  BY <1>1, <1>2, <1>4 DEF RequestInv, InIderw, Puts, Dirty, Valid, Busy
<1>7. FlagsInv'
  BY <1>1, <1>2, <1>4, NoBlockIsNone DEF FlagsInv, ForThread, InIderw, Puts, Dirty, Valid, Busy
<1>8. ReturnedInv'
  BY <1>1 DEF ReturnedInv
<1>9. QED  BY <1>3, <1>5, <1>6, <1>7, <1>8 DEF CacheInv

LEMMA BrelseKeeps ==
  ASSUME CacheInv, NEW b \in Buffers, Brelse(b)
  PROVE  CacheInv'
<1>1. /\ Between /\ Busy(b) /\ UNCHANGED <<idequeue, drive, disk>>
      /\ next' = MoveToFront(b).next /\ prev' = MoveToFront(b).prev
      /\ thread' = BetweenCalls /\ unsaved' = unsaved \ {b}
  BY DEF Brelse, Held
<1>2. /\ CacheTypeOK /\ ListInv /\ FlagsInv /\ Finished /\ Finished' /\ ~InIderw
      /\ \A x \in Buffers : ~Dirty(x) /\ (buf[x].block # NoBlock => Valid(x))
      /\ Valid(b) /\ buf[b].block \in Blocks
  BY <1>1, BetweenCallsClean DEF CacheInv, Finished
<1>3. ListInv'
  BY <1>1, <1>2, MoveKeepsList DEF ListInv
<1>4. Puts(b, buf[b].flags \ {"BUSY"}, buf[b].block, buf[b].data)
  BY <1>2, BrelseDoes
<1>5. CacheTypeOK'
  <2>1. next' \in Links /\ prev' \in Links
    <3>1. PICK order : LinkedBy([next |-> next', prev |-> prev'], order)
      BY <1>3 DEF ListInv, IsList
    <3>2. QED  BY <3>1 DEF LinkedBy
  <2>2. thread' \in ThreadType
    BY <1>1, ThreadTyped
  <2>3. buf' \in [Buffers -> BufferType] /\ unsaved' \subseteq Buffers
    BY <1>1, <1>2, <1>4 DEF Puts, CacheTypeOK
  <2>4. QED  BY <1>1, <1>2, <2>1, <2>2, <2>3, TypesKept
<1>6. RequestInv'
  BY <1>1, <1>2 DEF RequestInv, InIderw, BetweenCalls
<1>7. FlagsInv'
  BY <1>1, <1>2, <1>4, NoBlockIsNone DEF FlagsInv, Puts, Dirty, Valid
<1>8. ReturnedInv'
  BY <1>1 DEF ReturnedInv, BetweenCalls
<1>9. QED  BY <1>3, <1>5, <1>6, <1>7, <1>8 DEF CacheInv

LEMMA ChangeKeeps ==
  ASSUME CacheInv, NEW b \in Buffers, Change(b)
  PROVE  CacheInv'
<1>1. /\ Between /\ Busy(b) /\ UNCHANGED <<next, prev, idequeue, drive, disk>>
      /\ thread' = BetweenCalls /\ unsaved' = unsaved \cup {b}
  BY DEF Change, Held
<1>2. /\ CacheTypeOK /\ ListInv /\ FlagsInv /\ Finished /\ Finished' /\ ~InIderw
      /\ \A x \in Buffers : ~Dirty(x) /\ (buf[x].block # NoBlock => Valid(x))
  BY <1>1, BetweenCallsClean DEF CacheInv, Finished
<1>3. ListInv'
  BY <1>1, <1>2, ListKept
<1>4. PICK data : Puts(b, buf[b].flags, buf[b].block, data)
  BY <1>2, ChangeDoes
<1>5. CacheTypeOK'
  <2>1. thread' \in ThreadType
    BY <1>1, ThreadTyped
  <2>2. buf' \in [Buffers -> BufferType] /\ unsaved' \subseteq Buffers
    BY <1>1, <1>2, <1>4 DEF Puts, CacheTypeOK
  <2>3. QED  BY <1>1, <1>2, <2>1, <2>2, ListTyped, TypesKept
<1>6. RequestInv'
  BY <1>1, <1>2 DEF RequestInv, InIderw, BetweenCalls
<1>7. FlagsInv'
  BY <1>1, <1>2, <1>4 DEF FlagsInv, Puts, Dirty, Valid
<1>8. ReturnedInv'
  BY <1>1 DEF ReturnedInv, BetweenCalls
<1>9. QED  BY <1>3, <1>5, <1>6, <1>7, <1>8 DEF CacheInv

\* In iderw, and in the interrupt, only thread, queue and drive move.
DriveType == [state : {"idle", "working", "done"}, op : {"none", "read", "write"},
              block : Blocks \cup {NoBlock}, data : Content \cup {NoData}, failed : BOOLEAN]

LEMMA DriverTypesKept ==
  ASSUME CacheTypeOK, UNCHANGED <<next, prev, unsaved>>, buf' \in [Buffers -> BufferType],
         thread' \in ThreadType, idequeue' \in {<<>>} \cup {<<b>> : b \in Buffers},
         drive' \in DriveType, disk' \in [Blocks -> Content \cup {NoData}]
  PROVE  CacheTypeOK'
<1>1. /\ next' \in [0 .. NBUF -> 0 .. NBUF] /\ prev' \in [0 .. NBUF -> 0 .. NBUF]
      /\ unsaved' \subseteq Buffers
  BY DEF CacheTypeOK
<1>2. buf' \in [Buffers -> [flags : SUBSET {"BUSY", "VALID", "DIRTY"},
                            block : Blocks \cup {NoBlock}, data : Content \cup {NoData}]]
  BY DEF BufferType
<1>3. thread' \in [pc : {"between", "returned", "append", "start", "wait"},
                   b : 0 .. NBUF, block : Blocks \cup {NoBlock}]
  BY DEF ThreadType
<1>4. drive' \in [state : {"idle", "working", "done"}, op : {"none", "read", "write"},
                  block : Blocks \cup {NoBlock}, data : Content \cup {NoData}, failed : BOOLEAN]
  BY DEF DriveType
<1> HIDE DEF Buffers
<1>5. QED  BY <1>1, <1>2, <1>3, <1>4 DEF CacheTypeOK

LEMMA Typed ==
  ASSUME CacheTypeOK
  PROVE  /\ next \in Links /\ prev \in Links /\ buf \in [Buffers -> BufferType]
         /\ thread \in ThreadType /\ drive \in DriveType
         /\ idequeue \in {<<>>} \cup {<<b>> : b \in Buffers}
         /\ disk \in [Blocks -> Content \cup {NoData}]
<1>1. next \in Links /\ prev \in Links
  BY DEF CacheTypeOK, Links
<1>2. buf \in [Buffers -> BufferType]
  BY DEF CacheTypeOK, BufferType
<1>3. thread \in ThreadType
  BY DEF CacheTypeOK, ThreadType
<1>4. drive \in DriveType
  BY DEF CacheTypeOK, DriveType
<1>5. idequeue \in {<<>>} \cup {<<b>> : b \in Buffers} /\ disk \in [Blocks -> Content \cup {NoData}]
  BY DEF CacheTypeOK
<1>6. QED  BY <1>1, <1>2, <1>3, <1>4, <1>5

LEMMA NoCommandTyped == NoCommand \in DriveType
<1>1. NoData \in Content \cup {NoData} /\ NoBlock \in Blocks \cup {NoBlock}
  OBVIOUS
<1>2. QED  BY <1>1 DEF NoCommand, DriveType

\* The thread's pc moves on.
LEMMA PcMoves ==
  ASSUME CacheTypeOK, NEW pc \in {"between", "returned", "append", "start", "wait"},
         thread' = [thread EXCEPT !.pc = pc]
  PROVE  thread' \in ThreadType /\ thread'.pc = pc /\ thread'.b = thread.b /\ thread'.block = thread.block
<1>1. thread \in ThreadType
  BY Typed
<1>2. QED  BY <1>1 DEF ThreadType

LEMMA QueueKeeps ==
  ASSUME CacheInv, Queue
  PROVE  CacheInv'
<1>0. CacheTypeOK /\ ListInv /\ RequestInv /\ FlagsInv
  BY DEF CacheInv
<1>1. /\ thread.pc = "append" /\ UNCHANGED <<next, prev, buf, unsaved, drive, disk>>
      /\ thread' = [thread EXCEPT !.pc = "start"]
  BY DEF Queue
<1>2. /\ thread' \in ThreadType /\ thread'.pc = "start"
      /\ thread'.b = thread.b /\ thread'.block = thread.block
  BY <1>0, <1>1, PcMoves
<1>3. /\ Finished /\ thread.b \in Buffers /\ Busy(thread.b) /\ buf[thread.b].block = thread.block
      /\ Valid(thread.b) <=> Dirty(thread.b)
  BY <1>0, <1>1 DEF RequestInv, InIderw
<1>4. idequeue' = <<thread.b>>
  BY <1>3 DEF Queue, Finished
<1>5. CacheTypeOK'
  <2>1. buf' \in [Buffers -> BufferType] /\ drive' \in DriveType /\ disk' \in [Blocks -> Content \cup {NoData}]
    BY <1>0, <1>1, Typed
  <2>2. idequeue' \in {<<>>} \cup {<<b>> : b \in Buffers}
    BY <1>3, <1>4
  <2>3. QED  BY <1>0, <1>1, <1>2, <2>1, <2>2, DriverTypesKept
<1>6. ListInv'
  BY <1>0, <1>1, ListKept
<1>7. RequestInv'
  BY <1>1, <1>2, <1>3, <1>4 DEF RequestInv, InIderw, Underway, Finished, Busy, Valid, Dirty
<1>8. FlagsInv'
  BY <1>0, <1>1, <1>2 DEF FlagsInv, ForThread, InIderw, Valid, Dirty
<1>9. ReturnedInv'
  BY <1>2 DEF ReturnedInv
<1>10. QED  BY <1>5, <1>6, <1>7, <1>8, <1>9 DEF CacheInv

LEMMA StartKeeps ==
  ASSUME CacheInv, Start
  PROVE  CacheInv'
<1>0. CacheTypeOK /\ ListInv /\ RequestInv /\ FlagsInv
  BY DEF CacheInv
<1>1. /\ thread.pc = "start" /\ UNCHANGED <<next, prev, buf, idequeue, unsaved, disk>>
      /\ thread' = [thread EXCEPT !.pc = "wait"]
  BY DEF Start
<1>2. /\ thread' \in ThreadType /\ thread'.pc = "wait"
      /\ thread'.b = thread.b /\ thread'.block = thread.block
  BY <1>0, <1>1, PcMoves
<1>3. /\ Underway /\ thread.b \in Buffers /\ Busy(thread.b) /\ buf[thread.b].block = thread.block
  BY <1>0, <1>1 DEF RequestInv, InIderw
<1>4. idequeue = <<thread.b>> /\ idequeue # <<>> /\ Head(idequeue) = thread.b
  BY <1>3 DEF Underway
<1>5. buf[thread.b].block \in Blocks /\ ~(buf[thread.b].block >= FSSIZE)
  <2>1. buf[thread.b].block \in Blocks \cup {NoBlock} /\ buf[thread.b].block # NoBlock
    BY <1>0, <1>3, BufferFields DEF FlagsInv, Busy
  <2>2. QED  BY <2>1 DEF Blocks
<1>6. drive' = [state |-> "working", op |-> IF Dirty(thread.b) THEN "write" ELSE "read",
                block |-> buf[thread.b].block, data |-> buf[thread.b].data, failed |-> FALSE]
  BY <1>4, <1>5 DEF Start, idestart
<1>7. CacheTypeOK'
  <2>1. /\ buf' \in [Buffers -> BufferType] /\ disk' \in [Blocks -> Content \cup {NoData}]
        /\ idequeue' \in {<<>>} \cup {<<b>> : b \in Buffers}
    BY <1>0, <1>1, Typed
  <2>2. drive' \in DriveType
    BY <1>0, <1>3, <1>5, <1>6, BufferFields DEF DriveType
  <2>3. QED  BY <1>0, <1>1, <1>2, <2>1, <2>2, DriverTypesKept
<1>8. ListInv'
  BY <1>0, <1>1, ListKept
<1>9. RequestInv'
  <2>1. Underway'
    BY <1>1, <1>2, <1>3, <1>4, <1>6 DEF Underway, Command, Valid, Dirty
  <2>2. QED  BY <1>1, <1>2, <1>3, <2>1 DEF RequestInv, InIderw, Busy
<1>10. FlagsInv'
  BY <1>0, <1>1, <1>2 DEF FlagsInv, ForThread, InIderw, Valid, Dirty
<1>11. ReturnedInv'
  BY <1>2 DEF ReturnedInv
<1>12. QED  BY <1>7, <1>8, <1>9, <1>10, <1>11 DEF CacheInv

LEMMA ReturnKeeps ==
  ASSUME CacheInv, Return
  PROVE  CacheInv'
<1>0. CacheTypeOK /\ ListInv /\ RequestInv /\ FlagsInv
  BY DEF CacheInv
<1>1. /\ thread.pc = "wait" /\ Valid(thread.b) /\ ~Dirty(thread.b)
      /\ UNCHANGED <<next, prev, buf, idequeue, unsaved, drive, disk>>
      /\ thread' = [thread EXCEPT !.pc = "returned"]
  BY DEF Return
<1>2. /\ thread' \in ThreadType /\ thread'.pc = "returned"
      /\ thread'.b = thread.b /\ thread'.block = thread.block
  BY <1>0, <1>1, PcMoves
<1>3. /\ Finished /\ thread.b \in Buffers /\ Busy(thread.b) /\ buf[thread.b].block = thread.block
  BY <1>0, <1>1 DEF RequestInv, InIderw, Underway
<1>4. CacheTypeOK'
  BY <1>0, <1>1, <1>2, Typed, DriverTypesKept
<1>5. ListInv'
  BY <1>0, <1>1, ListKept
<1>6. RequestInv'
  BY <1>1, <1>2, <1>3 DEF RequestInv, InIderw, Finished
<1>7. FlagsInv'
  BY <1>0, <1>1, <1>2 DEF FlagsInv, ForThread, InIderw, Valid, Dirty
<1>8. ReturnedInv'
  BY <1>1, <1>2, <1>3 DEF ReturnedInv, Busy, Valid
<1>9. QED  BY <1>4, <1>5, <1>6, <1>7, <1>8 DEF CacheInv

\* The drive is at work only for the thread.
LEMMA DriveWorksForThread ==
  ASSUME CacheInv, drive # NoCommand
  PROVE  thread.pc = "wait" /\ Underway
<1>1. thread.pc \in {"between", "returned", "append", "start", "wait"}
  BY DEF CacheInv, CacheTypeOK
<1>2. QED  BY <1>1 DEF CacheInv, RequestInv, Finished, Underway

LEMMA DriveKeeps ==
  ASSUME CacheInv, NEW failed \in BOOLEAN, DriveDone(failed)
  PROVE  CacheInv'
<1>0. CacheTypeOK /\ ListInv /\ RequestInv /\ FlagsInv
  BY DEF CacheInv
<1>1. /\ drive.state = "working" /\ UNCHANGED <<next, prev, buf, idequeue, thread, unsaved>>
      /\ disk' = IF drive.op = "write" /\ ~failed THEN [disk EXCEPT ![drive.block] = drive.data] ELSE disk
  BY DEF DriveDone
<1>2. thread.pc = "wait" /\ Underway
  BY <1>1, DriveWorksForThread DEF NoCommand
<1>3. /\ drive' \in DriveType /\ drive'.state = "done" /\ drive'.failed = failed
      /\ drive'.op = drive.op /\ drive'.block = drive.block /\ drive'.data = drive.data
  <2>1. drive \in DriveType /\ drive' = [drive EXCEPT !.state = "done", !.failed = failed]
    BY <1>0, Typed DEF DriveDone
  <2>2. QED  BY <2>1 DEF DriveType
<1>4. CacheTypeOK'
  <2>1. drive.data \in Content \cup {NoData}
    BY <1>0, Typed DEF DriveType
  <2>2. disk' \in [Blocks -> Content \cup {NoData}]
    BY <1>0, <1>1, <2>1, Typed
  <2>3. QED  BY <1>0, <1>1, <1>3, <2>2, Typed, DriverTypesKept
<1>5. ListInv'
  BY <1>0, <1>1, ListKept
<1>6. RequestInv'
  <2>1. Underway'
    BY <1>1, <1>2, <1>3 DEF Underway, Command, Valid, Dirty
  <2>2. QED  BY <1>0, <1>1, <1>2, <2>1 DEF RequestInv, InIderw, Busy
<1>7. FlagsInv'
  BY <1>0, <1>1 DEF FlagsInv, ForThread, InIderw, Valid, Dirty
<1>8. ReturnedInv'
  BY <1>1, <1>2 DEF ReturnedInv
<1>9. QED  BY <1>4, <1>5, <1>6, <1>7, <1>8 DEF CacheInv

LEMMA InterruptKeeps ==
  ASSUME CacheInv, ide_irq_handler
  PROVE  CacheInv'
<1>0. CacheTypeOK /\ ListInv /\ RequestInv /\ FlagsInv
  BY DEF CacheInv
<1> DEFINE b == thread.b
           data == IF Dirty(b) \/ drive.failed THEN buf[b].data ELSE disk[thread.block]
<1>1. /\ thread.pc = "wait" /\ idequeue' = <<>> /\ drive' = NoCommand
      /\ Puts(b, (buf[b].flags \cup {"VALID"}) \ {"DIRTY"}, buf[b].block, data)
  BY InterruptDoes
<1>2. UNCHANGED <<next, prev, thread, unsaved, disk>>
  BY DEF ide_irq_handler
<1>3. b \in Buffers /\ Busy(b) /\ buf[b].block = thread.block
  BY <1>0, <1>1 DEF RequestInv, InIderw
<1> HIDE DEF data
<1>4. CacheTypeOK'
  BY <1>0, <1>1, <1>2, Typed, NoCommandTyped, DriverTypesKept DEF Puts
<1>5. ListInv'
  BY <1>0, <1>2, ListKept
<1>6. RequestInv'
  BY <1>1, <1>2, <1>3 DEF RequestInv, InIderw, Finished, Puts, Busy, Valid, Dirty
<1>7. FlagsInv'
  BY <1>0, <1>1, <1>2, <1>3 DEF FlagsInv, ForThread, InIderw, Puts, Busy, Valid, Dirty
<1>8. ReturnedInv'
  BY <1>1, <1>2 DEF ReturnedInv
<1>9. QED  BY <1>4, <1>5, <1>6, <1>7, <1>8 DEF CacheInv

LEMMA InitList == Init => ListInv
<1> SUFFICES ASSUME Init PROVE ListInv
  OBVIOUS
<1> DEFINE order == [n \in 0 .. NBUF |-> IF n = 0 THEN 0 ELSE NBUF + 1 - n]
           links == [next |-> next, prev |-> prev]
<1>1. \A n \in 0 .. NBUF : order[n] = IF n = 0 THEN 0 ELSE NBUF + 1 - n
  OBVIOUS
<1>2. order \in Links
  BY DEF Links
<1>3. IsOrder(order)
  <2>1. \A b \in 0 .. NBUF : order[order[b]] = b /\ order[b] \in 0 .. NBUF
    OBVIOUS
  <2> HIDE DEF order
  <2>2. \A m, n \in 0 .. NBUF : order[m] = order[n] => m = n
    BY <2>1
  <2>3. \A b \in 0 .. NBUF : \E n \in 0 .. NBUF : order[n] = b
    BY <2>1
  <2>4. QED  BY <1>1, <1>2, <2>2, <2>3 DEF IsOrder
<1>4. /\ next \in Links /\ prev \in Links
      /\ \A b \in 0 .. NBUF : /\ next[b] = IF b = 0 THEN NBUF ELSE b - 1
                              /\ prev[b] = IF b = NBUF THEN 0 ELSE b + 1
  BY DEF Init, Links
<1>5. \A n \in 0 .. NBUF : next[order[n]] = order[Succ(n)] /\ prev[order[Succ(n)]] = order[n]
  <2> SUFFICES ASSUME NEW n \in 0 .. NBUF
               PROVE  next[order[n]] = order[Succ(n)] /\ prev[order[Succ(n)]] = order[n]
    OBVIOUS
  <2> HIDE DEF order
  <2>1. order[n] \in 0 .. NBUF /\ Succ(n) \in 0 .. NBUF /\ order[Succ(n)] \in 0 .. NBUF
    BY <1>2 DEF Succ, Links
  <2>2. CASE n = 0
    BY <1>1, <1>4, <2>1, <2>2 DEF Succ
  <2>3. CASE n = NBUF
    BY <1>1, <1>4, <2>1, <2>3 DEF Succ
  <2>4. CASE n # 0 /\ n # NBUF
    BY <1>1, <1>4, <2>1, <2>4 DEF Succ
  <2>5. QED  BY <2>2, <2>3, <2>4
<1> HIDE DEF order
<1>6. links.next = next /\ links.prev = prev
  OBVIOUS
<1> HIDE DEF links
<1>7. LinkedBy(links, order)
  BY <1>4, <1>5, <1>6 DEF LinkedBy, Follows
<1>8. QED  BY <1>2, <1>3, <1>7 DEF ListInv, IsList, links

LEMMA InitCacheInv == Init => CacheInv
<1> SUFFICES ASSUME Init PROVE CacheInv
  OBVIOUS
<1>1. ListInv
  BY InitList
<1>2. CacheTypeOK
  <2>1. next \in [0 .. NBUF -> 0 .. NBUF] /\ prev \in [0 .. NBUF -> 0 .. NBUF]
    BY <1>1, ListTyped DEF Links
  <2>2. buf \in [Buffers -> [flags : SUBSET {"BUSY", "VALID", "DIRTY"},
                             block : Blocks \cup {NoBlock}, data : Content \cup {NoData}]]
    BY DEF Init
  <2>3. thread \in [pc : {"between", "returned", "append", "start", "wait"},
                    b : 0 .. NBUF, block : Blocks \cup {NoBlock}]
    BY ThreadTyped DEF Init, ThreadType
  <2>4. drive \in [state : {"idle", "working", "done"}, op : {"none", "read", "write"},
                   block : Blocks \cup {NoBlock}, data : Content \cup {NoData}, failed : BOOLEAN]
    BY NoCommandTyped DEF Init, DriveType
  <2>5. disk \in [Blocks -> Content \cup {NoData}]
    BY DEF Init, Content
  <2>6. idequeue \in {<<>>} \cup {<<b>> : b \in Buffers} /\ unsaved \subseteq Buffers
    BY DEF Init
  <2>7. QED  BY <2>1, <2>2, <2>3, <2>4, <2>5, <2>6 DEF CacheTypeOK
<1>3. thread.pc = "between"
  BY DEF Init, BetweenCalls
<1>4. RequestInv /\ ReturnedInv
  BY <1>3 DEF Init, RequestInv, ReturnedInv, InIderw, Finished
<1>5. FlagsInv
  BY DEF Init, FlagsInv, Valid, Dirty
<1>6. QED  BY <1>1, <1>2, <1>4, <1>5 DEF CacheInv

LEMMA NextKeeps == CacheInv /\ [Next]_cacheVars => CacheInv'
<1> SUFFICES ASSUME CacheInv, [Next]_cacheVars PROVE CacheInv'
  OBVIOUS
<1>1. CASE UNCHANGED cacheVars
  <2>1. UNCHANGED <<next, prev, buf, idequeue, thread, unsaved, drive, disk>>
    BY <1>1 DEF cacheVars
  <2>2. CacheTypeOK'
    BY <2>1, Typed, DriverTypesKept DEF CacheInv
  <2>3. ListInv'
    BY <2>1, ListKept DEF CacheInv
  <2>4. RequestInv'
    BY <2>1 DEF CacheInv, RequestInv, Finished, Underway, Command, InIderw, Busy, Valid, Dirty
  <2>5. FlagsInv'
    BY <2>1 DEF CacheInv, FlagsInv, ForThread, InIderw, Valid, Dirty
  <2>6. ReturnedInv'
    BY <2>1 DEF CacheInv, ReturnedInv, Held, Busy, Valid
  <2>7. QED  BY <2>2, <2>3, <2>4, <2>5, <2>6 DEF CacheInv
<1>2. ASSUME NEW block \in Blocks, Bread(block) PROVE CacheInv'
  BY <1>2, BreadKeeps
<1>3. ASSUME NEW b \in Buffers, Bwrite(b) \/ Brelse(b) \/ Change(b) PROVE CacheInv'
  BY <1>3, BwriteKeeps, BrelseKeeps, ChangeKeeps
<1>4. CASE Iderw
  BY <1>4, QueueKeeps, StartKeeps, ReturnKeeps DEF Iderw
<1>5. CASE Drive
  BY <1>5, DriveKeeps DEF Drive
<1>6. CASE ide_irq_handler
  BY <1>6, InterruptKeeps
<1>7. QED  BY <1>1, <1>2, <1>3, <1>4, <1>5, <1>6 DEF Next

LEMMA CacheInvariant == Spec => []CacheInv
  BY InitCacheInv, NextKeeps, PTL DEF Spec

\* The driver has at most one request, whatever the thread asks for and whether or not
\* it keeps the rules (iderw returns before the next call is made, ide.c:156-168).
THEOREM CacheTypeCorrect == Spec => []CacheTypeOK
<1>1. CacheInv => CacheTypeOK
  BY DEF CacheInv
<1>2. QED  BY <1>1, CacheInvariant, PTL

\* brelse's pointer assignments keep the list one of all buffers (bio.c:118-123).
THEOREM ListStaysIntact == Spec => []ListIntact
<1>1. CacheInv => ListIntact
  <2> SUFFICES ASSUME ListInv PROVE ListIntact
    BY DEF CacheInv
  <2>1. PICK order \in Links : IsOrder(order) /\ LinkedBy([next |-> next, prev |-> prev], order)
    BY DEF ListInv, IsList
  <2>2. ASSUME NEW b \in 0 .. NBUF PROVE prev[next[b]] = b
    <3>1. PICK n \in 0 .. NBUF : order[n] = b
      BY <2>1 DEF IsOrder
    <3>2. QED  BY <2>1, <3>1 DEF LinkedBy, Follows
  <2>3. QED  BY <2>2, WalksVisitAll DEF ListIntact
<1>2. QED  BY <1>1, CacheInvariant, PTL

-----------------------------------------------------------------------------
(***************************************************************************)
(* A thread that has a block once.                                         *)
(***************************************************************************)
\* Only bread changes what block a buffer is for, and whether it does, it takes a
\* buffer nobody has.
LEMMA BlocksStay ==
  ASSUME CacheInv, Next, \A block \in Blocks : ~Bread(block)
  PROVE  \A b \in Buffers : buf'[b].block = buf[b].block
<1>0. CacheTypeOK
  BY DEF CacheInv
<1>1. ASSUME NEW b \in Buffers, Bwrite(b) \/ Brelse(b) \/ Change(b)
      PROVE  \A x \in Buffers : buf'[x].block = buf[x].block
  <2>1. \E flags, data : Puts(b, flags, buf[b].block, data)
    BY <1>0, <1>1, BwriteDoes, BrelseDoes, ChangeDoes
  <2>2. QED  BY <2>1 DEF Puts
<1>2. CASE ide_irq_handler
  <2>1. \E flags, data : Puts(thread.b, flags, buf[thread.b].block, data)
    BY <1>2, InterruptDoes
  <2>2. QED  BY <2>1 DEF Puts
<1>3. CASE Iderw \/ Drive
  BY <1>3 DEF Iderw, Queue, Start, Return, Drive, DriveDone
<1>4. QED  BY <1>1, <1>2, <1>3 DEF Next

\* A block that bread has to find a buffer for is in none.
LEMMA NewBlockNowhere ==
  ASSUME TAKES_TWICE = FALSE, NEW block \in Blocks, Bread(block), CachedFree(block) = {}
  PROVE  \A b \in Buffers : buf[b].block # block
  BY DEF Bread, CachedFree, Held

LEMMA OneBufferKept ==
  ASSUME TAKES_TWICE = FALSE, CacheInv, OneBufferPerBlock, [Next]_cacheVars
  PROVE  OneBufferPerBlock'
<1>0. CacheTypeOK /\ ListInv
  BY DEF CacheInv
<1>1. CASE UNCHANGED cacheVars
  BY <1>1 DEF cacheVars, OneBufferPerBlock
<1>2. CASE Next /\ \A block \in Blocks : ~Bread(block)
  BY <1>2, BlocksStay DEF OneBufferPerBlock
<1>3. ASSUME NEW block \in Blocks, Bread(block) PROVE OneBufferPerBlock'
  <2>1. CASE \E b \in CachedFree(block) : Puts(b, buf[b].flags \cup {"BUSY"}, block, buf[b].data)
    <3>1. \A b \in Buffers : buf'[b].block = buf[b].block
      BY <2>1 DEF Puts, CachedFree
    <3>2. QED  BY <3>1 DEF OneBufferPerBlock
  <2>2. CASE CachedFree(block) = {} /\ \E b \in Recyclable : Puts(b, {"BUSY"}, block, buf[b].data)
    <3>1. \A b \in Buffers : buf[b].block # block
      BY <1>3, <2>2, NewBlockNowhere
    <3>2. QED  BY <2>2, <3>1 DEF Puts, OneBufferPerBlock
  <2>3. CASE UNCHANGED buf
    BY <2>3 DEF OneBufferPerBlock
  <2>4. QED  BY <1>0, <1>3, <2>1, <2>2, <2>3, BreadDoes
<1>4. QED  BY <1>1, <1>2, <1>3

LEMMA OneBufferInvariant ==
  ASSUME TAKES_TWICE = FALSE
  PROVE  Spec => [](CacheInv /\ OneBufferPerBlock)
<1>1. Init => CacheInv /\ OneBufferPerBlock
  <2>1. Init => OneBufferPerBlock
    BY DEF Init, OneBufferPerBlock
  <2>2. QED  BY <2>1, InitCacheInv
<1>2. CacheInv /\ OneBufferPerBlock /\ [Next]_cacheVars => (CacheInv /\ OneBufferPerBlock)'
  BY NextKeeps, OneBufferKept
<1>3. QED  BY <1>1, <1>2, PTL DEF Spec

\* "Not cached; recycle some non-busy and clean buffer" (bio.c:72): to a thread that asks
\* for no block it has, a block is in one buffer at most.
THEOREM BlockHasOneBuffer ==
  ASSUME TAKES_TWICE = FALSE
  PROVE  Spec => []OneBufferPerBlock
  BY OneBufferInvariant, PTL

-----------------------------------------------------------------------------
(***************************************************************************)
(* A drive that does not fail.                                             *)
(***************************************************************************)
LEMMA DataKept ==
  ASSUME DISK_ERRORS = FALSE, CacheInv, DataInv, [Next]_cacheVars
  PROVE  DataInv'
<1>0. CacheTypeOK /\ ListInv /\ RequestInv /\ FlagsInv
  BY DEF CacheInv
<1>1. CASE UNCHANGED cacheVars
  BY <1>1 DEF cacheVars, DataInv, Valid
<1>2. ASSUME NEW block \in Blocks, Bread(block) PROVE DataInv'
  <2>1. UNCHANGED <<drive, disk>>
    BY <1>2 DEF Bread
  <2>2. \A b \in Buffers : "VALID" \in buf'[b].flags =>
          "VALID" \in buf[b].flags /\ buf'[b].data = buf[b].data /\ buf'[b].block = buf[b].block
    <3>1. CASE \E b \in CachedFree(block) : Puts(b, buf[b].flags \cup {"BUSY"}, block, buf[b].data)
      BY <3>1 DEF Puts, CachedFree
    <3>2. CASE \E b \in Recyclable : Puts(b, {"BUSY"}, block, buf[b].data)
      BY <3>2 DEF Puts, Recyclable
    <3>3. CASE UNCHANGED buf
      BY <3>3
    <3>4. QED  BY <1>0, <1>2, <3>1, <3>2, <3>3, BreadDoes
  <2>3. QED  BY <2>1, <2>2 DEF DataInv, Valid
<1>3. ASSUME NEW b \in Buffers, Bwrite(b) \/ Brelse(b) PROVE DataInv'
  <2>1. UNCHANGED <<drive, disk>>
    BY <1>3 DEF Bwrite, Brelse
  <2>2. \/ Puts(b, buf[b].flags \cup {"DIRTY"}, buf[b].block, buf[b].data)
        \/ Puts(b, buf[b].flags \ {"BUSY"}, buf[b].block, buf[b].data)
    BY <1>0, <1>3, BwriteDoes, BrelseDoes
  <2>3. QED  BY <2>1, <2>2 DEF DataInv, Puts, Valid
<1>4. ASSUME NEW b \in Buffers, Change(b) PROVE DataInv'
  <2>1. UNCHANGED <<drive, disk>>
    BY <1>4 DEF Change
  <2>2. PICK version \in Version :
          buf[b].block \in Blocks /\ Puts(b, buf[b].flags, buf[b].block, <<buf[b].block, version>>)
    BY <1>0, <1>4, ChangeDoes
  <2>3. <<buf[b].block, version>> \in Content
    BY <2>2 DEF Content
  <2>4. QED  BY <2>1, <2>2, <2>3 DEF DataInv, Puts, Valid
<1>5. CASE Iderw
  <2>1. UNCHANGED <<buf, disk>> /\ (UNCHANGED drive \/ drive'.failed = FALSE)
    BY <1>5 DEF Iderw, Queue, Start, Return, idestart
  <2>2. QED  BY <2>1 DEF DataInv, Valid
<1>6. ASSUME NEW failed \in BOOLEAN, DriveDone(failed) PROVE DataInv'
  <2>1. failed = FALSE /\ UNCHANGED <<buf, thread>> /\ drive.state = "working"
    BY <1>6 DEF DriveDone
  <2>2. drive'.failed = FALSE
    BY <1>0, <1>6, <2>1, Typed DEF DriveDone, DriveType
  <2>3. thread.pc = "wait" /\ Underway
    BY <2>1, DriveWorksForThread DEF NoCommand
  <2>4. /\ drive.block = thread.block /\ drive.data = buf[thread.b].data
        /\ drive.op = "write" => Valid(thread.b)
        /\ thread.b \in Buffers /\ buf[thread.b].block = thread.block
    BY <1>0, <2>3 DEF Underway, Command, RequestInv, InIderw
  <2>5. drive.op = "write" => drive.data \in Content /\ drive.data[1] = drive.block
    BY <2>4 DEF DataInv
  <2>6. \A block \in Blocks : disk'[block] = disk[block]
                              \/ (disk'[block] = drive.data /\ drive.op = "write" /\ block = drive.block)
    BY <1>0, <1>6, Typed DEF DriveDone
  <2>7. QED  BY <2>1, <2>2, <2>5, <2>6 DEF DataInv, Valid
<1>7. CASE ide_irq_handler
  <2>1. UNCHANGED <<disk, thread>>
    BY <1>7 DEF ide_irq_handler
  <2> DEFINE b == thread.b
             data == IF Dirty(b) \/ drive.failed THEN buf[b].data ELSE disk[thread.block]
  <2>2. /\ thread.pc = "wait" /\ drive' = NoCommand /\ Underway
        /\ Puts(b, (buf[b].flags \cup {"VALID"}) \ {"DIRTY"}, buf[b].block, data)
    BY <1>7, InterruptDoes
  <2>3. b \in Buffers /\ buf[b].block = thread.block /\ Busy(b) /\ (Dirty(b) => Valid(b))
    BY <1>0, <2>2 DEF RequestInv, InIderw, Underway
  <2>4. thread.block \in Blocks
    BY <1>0, <2>3, BufferFields DEF FlagsInv, Busy
  <2>5. data \in Content /\ data[1] = buf[b].block
    BY <2>3, <2>4 DEF DataInv
  <2>6. drive'.failed = FALSE
    BY <2>2 DEF NoCommand
  <2> HIDE DEF data, b
  <2>7. QED  BY <2>1, <2>2, <2>3, <2>5, <2>6 DEF DataInv, Puts, Valid
<1>8. QED  BY <1>1, <1>2, <1>3, <1>4, <1>5, <1>6, <1>7 DEF Next, Drive

LEMMA InitData == Init => DataInv
  BY DEF Init, DataInv, NoCommand, Content, Valid

\* "Return a B_BUSY buf with the contents of the indicated block" (bio.c:86): so it is when
\* the drive does not fail, for a thread that keeps the rules and for one that does not.
THEOREM BreadReturnsItsBlock ==
  ASSUME DISK_ERRORS = FALSE
  PROVE  Spec => []BreadReturnsBlock
<1>1. CacheInv /\ DataInv /\ [Next]_cacheVars => (CacheInv /\ DataInv)'
  BY NextKeeps, DataKept
<1>2. CacheInv /\ DataInv => BreadReturnsBlock
  <2> SUFFICES ASSUME CacheInv, DataInv, thread.pc = "returned", thread.b # Head0
               PROVE  /\ Busy(thread.b) /\ Valid(thread.b)
                      /\ buf[thread.b].block = thread.block
                      /\ buf[thread.b].data[1] = thread.block
    BY DEF BreadReturnsBlock, CacheInv, ReturnedInv
  <2>1. Busy(thread.b) /\ Valid(thread.b) /\ buf[thread.b].block = thread.block
    BY DEF CacheInv, ReturnedInv
  <2>2. thread.b \in Buffers
    BY DEF CacheInv, CacheTypeOK
  <2>3. QED  BY <2>1, <2>2 DEF DataInv
<1>3. QED  BY <1>1, <1>2, InitCacheInv, InitData, PTL DEF Spec

-----------------------------------------------------------------------------
(***************************************************************************)
(* A thread that keeps the rules: it has a block once and releases nothing *)
(* it has not written; and the drive does not fail.                        *)
(***************************************************************************)
RulesKept == TAKES_TWICE = FALSE /\ FORGETS = FALSE /\ DISK_ERRORS = FALSE

RulesInv == CacheInv /\ OneBufferPerBlock /\ DataInv /\ SavedInv

LEMMA SavedKept ==
  ASSUME RulesKept, RulesInv, [Next]_cacheVars
  PROVE  SavedInv'
<1>0. /\ CacheInv /\ CacheTypeOK /\ ListInv /\ RequestInv /\ FlagsInv
      /\ OneBufferPerBlock /\ DataInv /\ SavedInv
  BY DEF RulesInv, CacheInv
<1>1. CASE UNCHANGED cacheVars
  BY <1>0, <1>1 DEF cacheVars, SavedInv, Held, Busy, Valid, Dirty
<1>2. ASSUME NEW block \in Blocks, Bread(block) PROVE SavedInv'
  <2>1. UNCHANGED <<unsaved, drive, disk>>
    BY <1>2 DEF Bread
  <2>2. \A b \in Buffers :
          /\ "BUSY" \in buf[b].flags => "BUSY" \in buf'[b].flags
          /\ "VALID" \in buf'[b].flags /\ "DIRTY" \notin buf'[b].flags =>
               /\ "VALID" \in buf[b].flags /\ "DIRTY" \notin buf[b].flags
               /\ buf'[b].data = buf[b].data /\ buf'[b].block = buf[b].block
    <3>1. CASE \E b \in CachedFree(block) : Puts(b, buf[b].flags \cup {"BUSY"}, block, buf[b].data)
      BY <3>1 DEF Puts, CachedFree
    <3>2. CASE \E b \in Recyclable : Puts(b, {"BUSY"}, block, buf[b].data)
      BY <3>2 DEF Puts, Recyclable
    <3>3. CASE UNCHANGED buf
      BY <3>3
    <3>4. QED  BY <1>0, <1>2, <3>1, <3>2, <3>3, BreadDoes
  <2>3. QED  BY <1>0, <2>1, <2>2 DEF SavedInv, Held, Busy, Valid, Dirty
<1>3. ASSUME NEW b \in Buffers, Bwrite(b) PROVE SavedInv'
  <2>1. UNCHANGED <<drive, disk>> /\ unsaved' = unsaved \ {b}
    BY <1>3 DEF Bwrite
  <2>2. Puts(b, buf[b].flags \cup {"DIRTY"}, buf[b].block, buf[b].data)
    BY <1>0, <1>3, BwriteDoes
  <2>3. QED  BY <1>0, <2>1, <2>2 DEF SavedInv, Held, Puts, Busy, Valid, Dirty
<1>4. ASSUME NEW b \in Buffers, Brelse(b) PROVE SavedInv'
  <2>1. UNCHANGED <<drive, disk>> /\ unsaved' = unsaved /\ b \notin unsaved
    BY <1>4 DEF Brelse, RulesKept
  <2>2. Puts(b, buf[b].flags \ {"BUSY"}, buf[b].block, buf[b].data)
    BY <1>0, <1>4, BrelseDoes
  <2>3. QED  BY <1>0, <2>1, <2>2 DEF SavedInv, Held, Puts, Busy, Valid, Dirty
<1>5. ASSUME NEW b \in Buffers, Change(b) PROVE SavedInv'
  <2>1. UNCHANGED <<drive, disk>> /\ unsaved' = unsaved \cup {b} /\ b \in Held
    BY <1>5 DEF Change
  <2>2. \E data : Puts(b, buf[b].flags, buf[b].block, data)
    BY <1>0, <1>5, ChangeDoes
  <2>3. QED  BY <1>0, <2>1, <2>2 DEF SavedInv, Held, Puts, Busy, Valid, Dirty
<1>6. CASE Iderw
  <2>1. UNCHANGED <<buf, disk, unsaved>> /\ (UNCHANGED drive \/ drive'.state = "working")
    BY <1>6 DEF Iderw, Queue, Start, Return, idestart
  <2>2. QED  BY <1>0, <2>1 DEF SavedInv, Held, Busy, Valid, Dirty
<1>7. ASSUME NEW failed \in BOOLEAN, DriveDone(failed) PROVE SavedInv'
  <2>1. failed = FALSE /\ UNCHANGED <<buf, thread, unsaved>> /\ drive.state = "working"
    BY <1>7 DEF DriveDone, RulesKept
  <2>2. drive'.op = drive.op /\ drive'.block = drive.block /\ drive'.data = drive.data
    BY <1>0, <1>7, Typed DEF DriveDone, DriveType
  <2>3. thread.pc = "wait" /\ Underway
    BY <1>0, <2>1, DriveWorksForThread DEF NoCommand
  <2>4. /\ drive.block = thread.block /\ drive.data = buf[thread.b].data
        /\ drive.op = "write" => Dirty(thread.b)
        /\ thread.b \in Buffers /\ buf[thread.b].block = thread.block /\ Busy(thread.b)
    BY <1>0, <2>3 DEF Underway, Command, RequestInv, InIderw
  <2>5. drive.block \in Blocks
    BY <1>0, <2>4, BufferFields DEF FlagsInv, Busy
  <2>6. \A block \in Blocks : disk'[block] = IF drive.op = "write" /\ block = drive.block
                                             THEN drive.data ELSE disk[block]
    BY <1>0, <1>7, <2>1, Typed DEF DriveDone
  \* The block that is written is in no buffer but the one it is written from.
  <2>7. \A b \in Buffers : drive.op = "write" /\ buf[b].block = drive.block => Dirty(b)
    BY <1>0, <2>4, <2>5, NoBlockIsNone DEF OneBufferPerBlock
  <2>8. \A b \in Buffers : Valid(b) => buf[b].block \in Blocks
    BY <1>0, BufferFields DEF FlagsInv, Valid
  <2>9. unsaved' \subseteq Held'
    BY <1>0, <2>1 DEF SavedInv, Held, Busy
  <2>10. \A b \in Buffers : Valid(b) /\ ~Dirty(b) /\ b \notin unsaved =>
                            buf[b].data = disk'[buf[b].block]
    BY <1>0, <2>6, <2>7, <2>8 DEF SavedInv
  <2>11. drive'.op = "write" => disk'[drive'.block] = drive'.data
    BY <2>2, <2>5, <2>6
  <2>12. QED  BY <2>1, <2>9, <2>10, <2>11 DEF SavedInv, Valid, Dirty
<1>8. CASE ide_irq_handler
  <2>1. UNCHANGED <<disk, thread, unsaved>> /\ drive.state = "done"
    BY <1>8 DEF ide_irq_handler
  <2> DEFINE b == thread.b
             data == IF Dirty(b) \/ drive.failed THEN buf[b].data ELSE disk[thread.block]
  <2>2. /\ thread.pc = "wait" /\ drive' = NoCommand /\ Underway
        /\ Puts(b, (buf[b].flags \cup {"VALID"}) \ {"DIRTY"}, buf[b].block, data)
    BY <1>0, <1>8, InterruptDoes
  <2>3. /\ b \in Buffers /\ buf[b].block = thread.block
        /\ drive.op = (IF Dirty(b) THEN "write" ELSE "read")
        /\ drive.block = thread.block /\ drive.data = buf[b].data
    BY <1>0, <2>2 DEF RequestInv, InIderw, Underway, Command
  <2>4. drive'.state # "done" /\ drive.failed = FALSE
    BY <1>0, <2>2 DEF NoCommand, DataInv
  <2>5. data = disk[buf[b].block]
    BY <1>0, <2>1, <2>3, <2>4 DEF SavedInv
  <2> HIDE DEF data, b
  <2>6. QED  BY <1>0, <2>1, <2>2, <2>3, <2>4, <2>5 DEF SavedInv, Held, Puts, Busy, Valid, Dirty
<1>9. QED  BY <1>1, <1>2, <1>3, <1>4, <1>5, <1>6, <1>7, <1>8 DEF Next, Drive

LEMMA RulesInvariant ==
  ASSUME RulesKept
  PROVE  Spec => []RulesInv
<1>1. Init => RulesInv
  <2>1. Init => OneBufferPerBlock
    BY DEF Init, OneBufferPerBlock
  <2>2. Init => SavedInv
    BY DEF Init, SavedInv, Valid, NoCommand
  <2>3. QED  BY <2>1, <2>2, InitCacheInv, InitData DEF RulesInv
<1>2. RulesInv /\ [Next]_cacheVars => RulesInv'
  BY NextKeeps, OneBufferKept, DataKept, SavedKept DEF RulesInv, RulesKept
<1>3. QED  BY <1>1, <1>2, PTL DEF Spec

-----------------------------------------------------------------------------
(***************************************************************************)
(* The block store.  A block's content is in its buffer if it has a valid  *)
(* one, and on the disk otherwise; only a change by who has it changes it. *)
(***************************************************************************)
StoreContent == [block \in Blocks |-> Contents(block)]
StoreTaken   == {buf[b].block : b \in Held}

ContentsWhere ==
  \A block \in Blocks :
    /\ \A b \in Buffers : buf[b].block = block /\ "VALID" \in buf[b].flags =>
                            StoreContent[block] = buf[b].data
    /\ (\A b \in Buffers : buf[b].block = block => "VALID" \notin buf[b].flags) =>
                            StoreContent[block] = disk[block]

LEMMA ContentsFound == OneBufferPerBlock => ContentsWhere
<1> SUFFICES ASSUME OneBufferPerBlock, NEW block \in Blocks
             PROVE  /\ \A b \in Buffers : buf[b].block = block /\ "VALID" \in buf[b].flags =>
                                            StoreContent[block] = buf[b].data
                    /\ (\A b \in Buffers : buf[b].block = block => "VALID" \notin buf[b].flags) =>
                                            StoreContent[block] = disk[block]
  BY DEF ContentsWhere
<1>1. ASSUME NEW b \in Buffers, buf[b].block = block, "VALID" \in buf[b].flags
      PROVE  StoreContent[block] = buf[b].data
  <2>1. b \in Holder(block) /\ \A x \in Holder(block) : x = b
    BY <1>1, NoBlockIsNone DEF Holder, Valid, OneBufferPerBlock
  <2>2. (CHOOSE x \in Holder(block) : TRUE) = b
    BY <2>1
  <2>3. QED  BY <2>1, <2>2 DEF StoreContent, Contents
<1>2. ASSUME \A b \in Buffers : buf[b].block = block => "VALID" \notin buf[b].flags
      PROVE  StoreContent[block] = disk[block]
  <2>1. Holder(block) = {}
    BY <1>2 DEF Holder, Valid
  <2>2. QED  BY <2>1 DEF StoreContent, Contents
<1>3. QED  BY <1>1, <1>2

LEMMA ContentsFoundNext == (OneBufferPerBlock => ContentsWhere)'
  BY ContentsFound, PTL

LEMMA StoreTyped ==
  ASSUME RulesInv
  PROVE  StoreContent \in [Blocks -> Content]
<1>1. ASSUME NEW block \in Blocks PROVE StoreContent[block] \in Content
  <2>1. ContentsWhere
    BY ContentsFound DEF RulesInv
  <2>2. QED  BY <2>1 DEF ContentsWhere, RulesInv, DataInv, Valid
<1>2. QED  BY <1>1 DEF StoreContent

\* What makes a block's content the same after a step as before.
LEMMA SameContents ==
  ASSUME RulesInv, RulesInv', NEW block \in Blocks,
         \/ \E b \in Buffers :
              /\ buf[b].block = block /\ "VALID" \in buf[b].flags
              /\ \/ /\ buf'[b].block = block /\ "VALID" \in buf'[b].flags
                    /\ buf'[b].data = buf[b].data
                 \/ /\ \A x \in Buffers : buf'[x].block = block => "VALID" \notin buf'[x].flags
                    /\ disk'[block] = buf[b].data
         \/ /\ \A b \in Buffers : buf[b].block = block => "VALID" \notin buf[b].flags
            /\ \/ \E b \in Buffers : /\ buf'[b].block = block /\ "VALID" \in buf'[b].flags
                                     /\ buf'[b].data = disk[block]
               \/ /\ \A x \in Buffers : buf'[x].block = block => "VALID" \notin buf'[x].flags
                  /\ disk'[block] = disk[block]
  PROVE  StoreContent'[block] = StoreContent[block]
<1>1. ContentsWhere /\ ContentsWhere'
  BY ContentsFound, ContentsFoundNext DEF RulesInv
<1>2. QED  BY <1>1 DEF ContentsWhere

LEMMA SameStore ==
  ASSUME \A block \in Blocks : StoreContent'[block] = StoreContent[block]
  PROVE  StoreContent' = StoreContent
  BY DEF StoreContent

LEMMA SameBuffers ==
  ASSUME RulesInv, RulesInv', UNCHANGED disk,
         \A b \in Buffers : /\ buf'[b].block = buf[b].block /\ buf'[b].data = buf[b].data
                            /\ "VALID" \in buf'[b].flags <=> "VALID" \in buf[b].flags
  PROVE  StoreContent' = StoreContent
<1>1. \A block \in Blocks : StoreContent'[block] = StoreContent[block]
  BY SameContents
<1>2. QED  BY <1>1, SameStore

\* A call of bread that finds a buffer takes the block, and leaves what it contains.
LEMMA BreadTakes ==
  ASSUME RulesKept, RulesInv, RulesInv', NEW block \in Blocks, Bread(block)
  PROVE  /\ StoreContent' = StoreContent
         /\ \/ block \notin StoreTaken /\ StoreTaken' = StoreTaken \cup {block}
            \/ StoreTaken' = StoreTaken
<1>0. CacheTypeOK /\ ListInv /\ FlagsInv /\ OneBufferPerBlock /\ SavedInv
  BY DEF RulesInv, CacheInv
<1>1. UNCHANGED disk /\ block \notin StoreTaken
  BY DEF Bread, RulesKept, StoreTaken
<1>2. ASSUME NEW b \in CachedFree(block), Puts(b, buf[b].flags \cup {"BUSY"}, block, buf[b].data)
      PROVE  StoreContent' = StoreContent /\ StoreTaken' = StoreTaken \cup {block}
  <2>1. b \in Buffers /\ buf[b].block = block
    BY DEF CachedFree
  <2>2. StoreContent' = StoreContent
    BY <1>1, <1>2, <2>1, SameBuffers DEF Puts
  <2>3. Held' = Held \cup {b} /\ \A x \in Buffers : buf'[x].block = buf[x].block
    BY <1>2, <2>1 DEF Held, Busy, Puts
  <2>4. StoreTaken' = StoreTaken \cup {block}
    BY <2>1, <2>3 DEF StoreTaken, Held
  <2>5. QED  BY <2>2, <2>4
<1>3. ASSUME CachedFree(block) = {}, NEW b \in Recyclable, Puts(b, {"BUSY"}, block, buf[b].data)
      PROVE  StoreContent' = StoreContent /\ StoreTaken' = StoreTaken \cup {block}
  <2>1. b \in Buffers /\ ~Busy(b) /\ ~Dirty(b)
    BY DEF Recyclable
  <2>2. \A x \in Buffers : buf[x].block # block
    BY <1>3, NewBlockNowhere DEF RulesKept
  \* The block the buffer is taken from is on the disk as it was in the buffer.
  <2>3. "VALID" \in buf[b].flags => disk[buf[b].block] = buf[b].data
    BY <1>0, <2>1 DEF SavedInv, Held, Valid
  <2>4. ASSUME NEW old \in Blocks PROVE StoreContent'[old] = StoreContent[old]
    <3>1. CASE old = buf[b].block /\ "VALID" \in buf[b].flags
      <4>1. \A x \in Buffers : buf'[x].block = old => x # b
        BY <1>3, <2>1, <2>2, <3>1 DEF Puts
      <4>2. \A x \in Buffers : buf'[x].block = old => "VALID" \notin buf'[x].flags
        BY <1>0, <1>3, <2>1, <3>1, <4>1, NoBlockIsNone DEF OneBufferPerBlock, Puts
      <4>3. QED  BY <1>1, <2>1, <2>3, <3>1, <4>2, SameContents
    <3>2. CASE ~(old = buf[b].block /\ "VALID" \in buf[b].flags)
      <4>1. \A x \in Buffers : buf'[x].block = old /\ "VALID" \in buf'[x].flags <=>
                               buf[x].block = old /\ "VALID" \in buf[x].flags
        BY <1>3, <2>1, <3>2 DEF Puts
      <4>2. \A x \in Buffers : buf'[x].data = buf[x].data
        BY <1>3 DEF Puts
      <4>3. QED  BY <1>1, <4>1, <4>2, SameContents
    <3>3. QED  BY <3>1, <3>2
  <2>5. StoreContent' = StoreContent
    BY <2>4, SameStore
  <2>6. Held' = Held \cup {b} /\ b \notin Held /\ buf'[b].block = block
    BY <1>3, <2>1 DEF Held, Busy, Puts
  <2>7. \A x \in Held : buf'[x].block = buf[x].block
    BY <1>3, <2>6 DEF Held, Puts
  <2>8. StoreTaken' = StoreTaken \cup {block}
    BY <2>6, <2>7 DEF StoreTaken
  <2>9. QED  BY <2>5, <2>8
<1>4. ASSUME UNCHANGED buf
      PROVE  StoreContent' = StoreContent /\ StoreTaken' = StoreTaken
  BY <1>1, <1>4, SameBuffers DEF StoreTaken, Held, Busy
<1>5. QED  BY <1>0, <1>1, <1>2, <1>3, <1>4, BreadDoes

LEMMA BrelseGivesBack ==
  ASSUME RulesInv, RulesInv', NEW b \in Buffers, Brelse(b)
  PROVE  /\ buf[b].block \in StoreTaken /\ buf[b].block \in Blocks
         /\ StoreTaken' = StoreTaken \ {buf[b].block}
         /\ StoreContent' = StoreContent
<1>0. CacheInv /\ CacheTypeOK /\ OneBufferPerBlock
  BY DEF RulesInv, CacheInv
<1>1. UNCHANGED disk /\ b \in Held /\ Between
  BY DEF Brelse
<1>2. Puts(b, buf[b].flags \ {"BUSY"}, buf[b].block, buf[b].data)
  BY <1>0, BrelseDoes
<1>3. StoreContent' = StoreContent
  BY <1>1, <1>2, SameBuffers DEF Puts
<1>4. Held' = Held \ {b} /\ \A x \in Buffers : buf'[x].block = buf[x].block
  BY <1>2 DEF Held, Busy, Puts
<1>5. buf[b].block \in Blocks
  BY <1>0, <1>1, BetweenCallsClean DEF Held
<1>6. \A x \in Held : x # b => buf[x].block # buf[b].block
  BY <1>0, <1>5, NoBlockIsNone DEF OneBufferPerBlock, Held
<1>7. StoreTaken' = StoreTaken \ {buf[b].block}
  BY <1>1, <1>4, <1>6 DEF StoreTaken, Held
<1>8. QED  BY <1>1, <1>3, <1>5, <1>7 DEF StoreTaken

LEMMA ChangeChanges ==
  ASSUME RulesInv, RulesInv', NEW b \in Buffers, Change(b)
  PROVE  /\ buf[b].block \in StoreTaken /\ buf[b].block \in Blocks
         /\ StoreTaken' = StoreTaken
         /\ \E new \in Content : StoreContent' = [StoreContent EXCEPT ![buf[b].block] = new]
<1>0. CacheInv /\ CacheTypeOK /\ OneBufferPerBlock /\ ContentsWhere /\ ContentsWhere'
  BY ContentsFound, ContentsFoundNext DEF RulesInv, CacheInv
<1>1. UNCHANGED disk /\ b \in Held /\ Between
  BY DEF Change
<1>2. PICK version \in Version :
        buf[b].block \in Blocks /\ Puts(b, buf[b].flags, buf[b].block, <<buf[b].block, version>>)
  BY <1>0, ChangeDoes
<1> DEFINE new == <<buf[b].block, version>>
<1>3. new \in Content
  BY <1>2 DEF Content
<1> HIDE DEF new
<1>4. Puts(b, buf[b].flags, buf[b].block, new)
  BY <1>2 DEF new
<1>5. "VALID" \in buf[b].flags
  BY <1>0, <1>1, BetweenCallsClean DEF Held, Valid
<1>6. StoreContent'[buf[b].block] = new
  BY <1>0, <1>2, <1>4, <1>5 DEF Puts, ContentsWhere
<1>7. ASSUME NEW block \in Blocks, block # buf[b].block
      PROVE  StoreContent'[block] = StoreContent[block]
  <2>1. \A x \in Buffers : buf'[x].block = block => buf'[x] = buf[x] /\ buf[x].block = block
    BY <1>4, <1>7 DEF Puts
  <2>2. \A x \in Buffers : buf[x].block = block => buf'[x] = buf[x]
    BY <1>4, <1>7 DEF Puts
  <2>3. QED  BY <1>1, <2>1, <2>2, SameContents
<1>8. StoreContent' = [StoreContent EXCEPT ![buf[b].block] = new]
  <2>1. StoreContent' = [block \in Blocks |-> StoreContent'[block]]
    BY DEF StoreContent
  <2>2. [StoreContent EXCEPT ![buf[b].block] = new]
          = [block \in Blocks |-> IF block = buf[b].block THEN new ELSE StoreContent[block]]
    BY DEF StoreContent
  <2>3. QED  BY <1>6, <1>7, <2>1, <2>2
<1>9. StoreTaken' = StoreTaken
  <2>1. Held' = Held /\ \A x \in Buffers : buf'[x].block = buf[x].block
    BY <1>4 DEF Held, Busy, Puts
  <2>2. QED  BY <2>1 DEF StoreTaken, Held
<1>10. QED  BY <1>1, <1>2, <1>3, <1>8, <1>9 DEF StoreTaken

\* The driver is not seen: it makes the disk what the buffer is, or the buffer what the
\* disk is.
LEMMA DriverUnseen ==
  ASSUME RulesKept, RulesInv, RulesInv',
         \/ \E b \in Buffers : Bwrite(b)
         \/ Iderw \/ Drive \/ ide_irq_handler
  PROVE  StoreContent' = StoreContent /\ StoreTaken' = StoreTaken
<1>0. /\ CacheInv /\ CacheTypeOK /\ RequestInv /\ FlagsInv
      /\ OneBufferPerBlock /\ DataInv /\ SavedInv
  BY DEF RulesInv, CacheInv
<1>1. ASSUME NEW b \in Buffers, Bwrite(b) PROVE StoreContent' = StoreContent /\ StoreTaken' = StoreTaken
  <2>1. UNCHANGED disk
    BY <1>1 DEF Bwrite
  <2>2. Puts(b, buf[b].flags \cup {"DIRTY"}, buf[b].block, buf[b].data)
    BY <1>0, <1>1, BwriteDoes
  <2>3. StoreContent' = StoreContent
    BY <2>1, <2>2, SameBuffers DEF Puts
  <2>4. Held' = Held /\ \A x \in Buffers : buf'[x].block = buf[x].block
    BY <2>2 DEF Held, Busy, Puts
  <2>5. QED  BY <2>3, <2>4 DEF StoreTaken, Held
<1>2. CASE Iderw
  <2>1. UNCHANGED <<buf, disk>>
    BY <1>2 DEF Iderw, Queue, Start, Return
  <2>2. StoreContent' = StoreContent
    BY <2>1, SameBuffers
  <2>3. QED  BY <2>1, <2>2 DEF StoreTaken, Held, Busy
<1>3. ASSUME NEW failed \in BOOLEAN, DriveDone(failed)
      PROVE  StoreContent' = StoreContent /\ StoreTaken' = StoreTaken
  <2>1. UNCHANGED <<buf, thread>> /\ drive.state = "working"
    BY <1>3 DEF DriveDone
  <2>2. thread.pc = "wait" /\ Underway
    BY <1>0, <2>1, DriveWorksForThread DEF NoCommand
  <2>3. /\ drive.block = thread.block /\ drive.data = buf[thread.b].data
        /\ drive.op = "write" => Valid(thread.b)
        /\ thread.b \in Buffers /\ buf[thread.b].block = thread.block
    BY <1>0, <2>2 DEF Underway, Command, RequestInv, InIderw
  <2>4. \A block \in Blocks : disk'[block] = disk[block]
                              \/ (drive.op = "write" /\ block = drive.block)
    BY <1>0, <1>3, Typed DEF DriveDone
  <2>5. ASSUME NEW block \in Blocks PROVE StoreContent'[block] = StoreContent[block]
    <3>1. CASE \E b \in Buffers : buf[b].block = block /\ "VALID" \in buf[b].flags
      BY <2>1, <3>1, SameContents
    <3>2. CASE \A b \in Buffers : buf[b].block = block => "VALID" \notin buf[b].flags
      <4>1. disk'[block] = disk[block]
        BY <2>3, <2>4, <3>2 DEF Valid
      <4>2. QED  BY <2>1, <3>2, <4>1, SameContents
    <3>3. QED  BY <3>1, <3>2
  <2>6. StoreContent' = StoreContent
    BY <2>5, SameStore
  <2>7. QED  BY <2>1, <2>6 DEF StoreTaken, Held, Busy
<1>4. CASE ide_irq_handler
  <2>1. UNCHANGED disk
    BY <1>4 DEF ide_irq_handler
  <2> DEFINE b == thread.b
             data == IF Dirty(b) \/ drive.failed THEN buf[b].data ELSE disk[thread.block]
  <2>2. /\ thread.pc = "wait" /\ Underway
        /\ Puts(b, (buf[b].flags \cup {"VALID"}) \ {"DIRTY"}, buf[b].block, data)
    BY <1>0, <1>4, InterruptDoes
  <2>3. /\ b \in Buffers /\ buf[b].block = thread.block /\ Busy(b)
        /\ "VALID" \in buf[b].flags <=> "DIRTY" \in buf[b].flags
    BY <1>0, <2>2 DEF RequestInv, InIderw, Underway, Valid, Dirty
  <2>4. data = IF "VALID" \in buf[b].flags THEN buf[b].data ELSE disk[buf[b].block]
    BY <1>0, <2>3 DEF DataInv, Dirty
  <2>5. buf[b].block \in Blocks
    BY <1>0, <2>3, BufferFields DEF FlagsInv, Busy
  <2> HIDE DEF data, b
  <2>6. ASSUME NEW block \in Blocks PROVE StoreContent'[block] = StoreContent[block]
    <3>1. CASE block = buf[b].block
      <4>1. /\ "VALID" \in buf'[b].flags /\ buf'[b].block = block
            /\ buf'[b].data = IF "VALID" \in buf[b].flags THEN buf[b].data ELSE disk[block]
        BY <2>2, <2>4, <3>1 DEF Puts
      <4>2. "VALID" \notin buf[b].flags =>
              \A x \in Buffers : buf[x].block = block => "VALID" \notin buf[x].flags
        BY <1>0, <2>3, <3>1, NoBlockIsNone DEF OneBufferPerBlock
      <4>3. QED  BY <2>3, <3>1, <4>1, <4>2, SameContents
    <3>2. CASE block # buf[b].block
      <4>1. \A x \in Buffers : buf'[x].block = block \/ buf[x].block = block => buf'[x] = buf[x]
        BY <2>2, <3>2 DEF Puts
      <4>2. QED  BY <2>1, <4>1, SameContents
    <3>3. QED  BY <3>1, <3>2
  <2>7. StoreContent' = StoreContent
    BY <2>6, SameStore
  <2>8. Held' = Held /\ \A x \in Buffers : buf'[x].block = buf[x].block
    BY <2>2 DEF Held, Busy, Puts
  <2>9. QED  BY <2>7, <2>8 DEF StoreTaken, Held
<1>5. QED  BY <1>1, <1>2, <1>3, <1>4 DEF Drive

LEMMA StepImplements ==
  ASSUME RulesKept, RulesInv, RulesInv', [Next]_cacheVars
  PROVE  [Store!Next]_Store!storeVars
<1>1. ASSUME NEW block \in Blocks, Bread(block) PROVE [Store!Next]_Store!storeVars
  <2>1. CASE block \notin StoreTaken /\ StoreTaken' = StoreTaken \cup {block}
    <3>1. Store!Take(block)
      BY <1>1, <2>1, BreadTakes DEF Store!Take, StoreContent, StoreTaken
    <3>2. QED  BY <3>1 DEF Store!Next
  <2>2. CASE StoreTaken' = StoreTaken
    BY <1>1, <2>2, BreadTakes DEF Store!storeVars, StoreContent, StoreTaken
  <2>3. QED  BY <1>1, <2>1, <2>2, BreadTakes
<1>2. ASSUME NEW b \in Buffers, Brelse(b) PROVE [Store!Next]_Store!storeVars
  <2>1. PICK block \in Blocks : block = buf[b].block
    BY <1>2, BrelseGivesBack
  <2>2. Store!GiveBack(block)
    BY <1>2, <2>1, BrelseGivesBack DEF Store!GiveBack, StoreContent, StoreTaken
  <2>3. QED  BY <2>2 DEF Store!Next
<1>3. ASSUME NEW b \in Buffers, Change(b) PROVE [Store!Next]_Store!storeVars
  <2>1. PICK block \in Blocks : block = buf[b].block
    BY <1>3, ChangeChanges
  <2>2. Store!Change(block)
    BY <1>3, <2>1, ChangeChanges DEF Store!Change, StoreContent, StoreTaken
  <2>3. QED  BY <2>2 DEF Store!Next
<1>4. CASE (\E b \in Buffers : Bwrite(b)) \/ Iderw \/ Drive \/ ide_irq_handler
  BY <1>4, DriverUnseen DEF Store!storeVars, StoreContent, StoreTaken
<1>5. CASE UNCHANGED cacheVars
  <2>1. StoreContent' = StoreContent
    BY <1>5, SameBuffers DEF cacheVars
  <2>2. StoreTaken' = StoreTaken
    BY <1>5 DEF cacheVars, StoreTaken, Held, Busy
  <2>3. QED  BY <2>1, <2>2 DEF Store!storeVars, StoreContent, StoreTaken
<1>6. QED  BY <1>1, <1>2, <1>3, <1>4, <1>5 DEF Next

\* To a thread that keeps the rules blocks have one content each: what it wrote is what it
\* reads, with any amount of recycling in between (bio.c:1-14).
THEOREM CacheIsBlockStore ==
  ASSUME RulesKept
  PROVE  Spec => ImplementsBlockStore
<1>1. Init => Store!Init
  <2> SUFFICES ASSUME Init PROVE Store!Init
    OBVIOUS
  <2>1. \A block \in Blocks : Holder(block) = {}
    BY DEF Init, Holder, Valid
  <2>2. \A block \in Blocks : Contents(block) = <<block, 0>> /\ <<block, 0>> \in Content
    BY <2>1 DEF Contents, Init, Content
  <2>3. Held = {}
    BY DEF Init, Held, Busy
  <2>4. QED  BY <2>2, <2>3 DEF Store!Init
<1>2. RulesInv /\ RulesInv' /\ [Next]_cacheVars => [Store!Next]_Store!storeVars
  BY StepImplements
<1>3. QED  BY <1>1, <1>2, RulesInvariant, PTL DEF Spec, ImplementsBlockStore, Store!Spec

\* Under the rules, only who has a block changes what it contains: nothing that was put
\* into a buffer is lost to recycling.
THEOREM RulesKeepChanges ==
  ASSUME RulesKept
  PROVE  Spec => ChangesAreKept
<1>1. ASSUME RulesInv, RulesInv', [Next]_cacheVars, NEW block \in Blocks,
             StoreContent'[block] # StoreContent[block]
      PROVE  \E b \in Held : buf[b].block = block
  <2>1. PICK b \in Buffers : Change(b)
    <3>1. ~ UNCHANGED cacheVars
      BY <1>1, SameBuffers DEF cacheVars
    <3>2. QED  BY <1>1, <3>1, BreadTakes, BrelseGivesBack, DriverUnseen DEF Next
  <2>2. b \in Held
    BY <2>1 DEF Change
  <2>3. buf[b].block = block
    <3>1. PICK new : StoreContent' = [StoreContent EXCEPT ![buf[b].block] = new]
      BY <1>1, <2>1, ChangeChanges
    <3>2. StoreContent' = [StoreContent EXCEPT ![buf[b].block] = new] /\ block \in DOMAIN StoreContent
      BY <3>1 DEF StoreContent
    <3>3. QED  BY <1>1, <3>2
  <2>4. QED  BY <2>2, <2>3
<1>2. RulesInv /\ RulesInv' /\ [Next]_cacheVars =>
        \A block \in Blocks :
          Contents(block)' # Contents(block) => \E b \in Held : buf[b].block = block
  <2> SUFFICES ASSUME RulesInv, RulesInv', [Next]_cacheVars, NEW block \in Blocks,
                      Contents(block)' # Contents(block)
               PROVE  \E b \in Held : buf[b].block = block
    OBVIOUS
  <2>1. StoreContent[block] = Contents(block) /\ StoreContent'[block] = Contents(block)'
    BY DEF StoreContent
  <2>2. QED  BY <1>1, <2>1
<1>3. QED  BY <1>2, RulesInvariant, PTL DEF Spec, ChangesAreKept

================================================================================
