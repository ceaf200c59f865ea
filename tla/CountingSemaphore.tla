-------------------------- MODULE CountingSemaphore --------------------------
(***************************************************************************)
(* What SemAlloc, SemWait and SemPost promise: counting semaphores after   *)
(* Dijkstra, with one integer per semaphore that may be negative.  value   *)
(* is what was provided less what was asked for; while it is negative,     *)
(* that many clients are blocked.  The order in which blocked clients are  *)
(* released is left open here.                                             *)
(***************************************************************************)
EXTENDS Integers

CONSTANTS Client,   (* who may be blocked                   *)
          Sem,      (* the semaphores                       *)
          Amount    (* what a semaphore may be created with *)

VARIABLES value,    (* per semaphore, an integer            *)
          blocked,  (* per semaphore, the clients it blocks *)
          live      (* the semaphores that were allocated   *)

semVars == <<value, blocked, live>>

Init ==
  /\ value = [s \in Sem |-> 0]
  /\ blocked = [s \in Sem |-> {}]
  /\ live = {}

IsBlocked(c) == \E s \in Sem : c \in blocked[s]

Allocate(s, n) ==
  /\ s \notin live
  /\ live' = live \cup {s}
  /\ value' = [value EXCEPT ![s] = n]
  /\ blocked' = [blocked EXCEPT ![s] = {}]

P(s, c) ==
  /\ s \in live
  /\ ~IsBlocked(c)
  /\ value' = [value EXCEPT ![s] = @ - 1]
  /\ blocked' = [blocked EXCEPT ![s] = IF value[s] > 0 THEN @ ELSE @ \cup {c}]
  /\ UNCHANGED live

\* A semaphore may be signalled before it is allocated; Allocate forgets that.
V(s) ==
  /\ value' = [value EXCEPT ![s] = @ + 1]
  /\ IF value[s] >= 0
     THEN UNCHANGED blocked
     ELSE \E c \in blocked[s] : blocked' = [blocked EXCEPT ![s] = @ \ {c}]
  /\ UNCHANGED live

Next ==
  \E s \in Sem :
    \/ \E n \in Amount : Allocate(s, n)
    \/ \E c \in Client : P(s, c)
    \/ V(s)

Spec == Init /\ [][Next]_semVars
=============================================================================
