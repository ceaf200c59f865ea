---------------------------- MODULE IntervalInduction --------------------------
(***************************************************************************)
(* Induction over natural numbers, stated about a set instead of a         *)
(* predicate: to prove P(n) for every n, take for T the numbers for which  *)
(* P holds.  What the code reaches by following pointers, or in a loop, is *)
(* proved with it.                                                         *)
(***************************************************************************)
EXTENDS Integers, WellFoundedInduction, TLAPS

\* There is no infinite descent in the natural numbers.
LEMMA LessIsWellFounded == IsWellFoundedOn({r \in Nat \X Nat : r[1] < r[2]}, Nat)
  BY NatLessThanWellFounded DEF OpToRel

\* A set that has 0 and with every number the next one has all numbers.
LEMMA NatSetInduction ==
  ASSUME NEW T, 0 \in T, \A n \in Nat : n \in T => n + 1 \in T
  PROVE  Nat \subseteq T
<1> DEFINE Less == {r \in Nat \X Nat : r[1] < r[2]}
           Left == Nat \ T
<1>1. IsWellFoundedOn(Less, Nat)
  BY LessIsWellFounded
<1> SUFFICES ASSUME Left # {} PROVE FALSE
  OBVIOUS
<1>2. Left \subseteq Nat
  OBVIOUS
<1>3. PICK n \in Left : \A m \in Left : <<m, n>> \notin Less
  <2> HIDE DEF Less, Left
  <2> QED  BY <1>1, <1>2, WFMin
<1>4. n # 0 /\ n - 1 \in Nat
  OBVIOUS
<1>5. <<n - 1, n>> \in Less
  BY <1>4
<1>6. n - 1 \in T
  BY <1>3, <1>4, <1>5
<1>7. QED  BY <1>4, <1>6

\* The same for the numbers up to a bound.
LEMMA IntervalInduction ==
  ASSUME NEW last \in Nat, NEW T, 0 \in T,
         \A n \in 0 .. last - 1 : n \in T => n + 1 \in T
  PROVE  0 .. last \subseteq T
<1> DEFINE U == {n \in Nat : n <= last => n \in T}
<1>1. 0 \in U
  OBVIOUS
<1>2. ASSUME NEW n \in Nat, n \in U PROVE n + 1 \in U
  BY <1>2
<1>3. Nat \subseteq U
  <2> HIDE DEF U
  <2> QED  BY <1>1, <1>2, NatSetInduction
<1>4. QED  BY <1>3
================================================================================
