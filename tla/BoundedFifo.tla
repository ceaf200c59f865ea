----------------------------- MODULE BoundedFifo -----------------------------
(***************************************************************************)
(* What a bounded first-in first-out queue promises its callers: at most   *)
(* Capacity items, an insertion into a full queue and a removal from an    *)
(* empty one report failure and change nothing, and a removal hands over   *)
(* the item that has been in the queue for longest.                        *)
(*                                                                         *)
(* CircularQueue.tla, the ring buffer of 9.serialport/src/queue.c, is      *)
(* shown to implement this module.                                         *)
(***************************************************************************)
EXTENDS Integers, Sequences

CONSTANTS Capacity,  (* how many items fit                        *)
          Item       (* what can be put in the queue              *)

VARIABLES contents,  (* the items, oldest first                   *)
          outcome    (* what the last call told its caller        *)

fifoVars == <<contents, outcome>>

\* An insertion answers with a return code alone, a removal with the code and the item.
Failed       == [code |-> -1]
Inserted     == [code |-> 0]
Removed(i)   == [code |-> 0, item |-> i]

Init ==
  /\ contents = <<>>
  /\ outcome = Inserted

Insert(i) ==
  \/ /\ Len(contents) < Capacity
     /\ contents' = Append(contents, i)
     /\ outcome' = Inserted
  \/ /\ Len(contents) = Capacity
     /\ outcome' = Failed
     /\ UNCHANGED contents

Remove ==
  \/ /\ contents # <<>>
     /\ contents' = Tail(contents)
     /\ outcome' = Removed(Head(contents))
  \/ /\ contents = <<>>
     /\ outcome' = Failed
     /\ UNCHANGED contents

Clear ==
  /\ contents' = <<>>
  /\ outcome' = Inserted

Next == (\E i \in Item : Insert(i)) \/ Remove \/ Clear

Spec == Init /\ [][Next]_fifoVars
=============================================================================
