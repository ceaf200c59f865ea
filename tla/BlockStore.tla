------------------------------ MODULE BlockStore ------------------------------
(***************************************************************************)
(* What a buffer cache promises the code above it (A.ide/src/bio.c:1-14):  *)
(* a block has one content.  Whoever takes the block sees the content the  *)
(* one before left behind, whether or not the block has been to the disk   *)
(* and back in the meantime, and has it alone until it is given back.      *)
(***************************************************************************)
CONSTANTS Block,     (* the blocks of the disk              *)
          Content    (* what a block can contain            *)

VARIABLES content,   (* per block, what it contains         *)
          taken      (* the blocks somebody is working with *)

storeVars == <<content, taken>>

Init ==
  /\ content \in [Block -> Content]
  /\ taken = {}

Take(b) ==
  /\ b \notin taken
  /\ taken' = taken \cup {b}
  /\ UNCHANGED content

Change(b) ==
  /\ b \in taken
  /\ \E new \in Content : content' = [content EXCEPT ![b] = new]
  /\ UNCHANGED taken

GiveBack(b) ==
  /\ b \in taken
  /\ taken' = taken \ {b}
  /\ UNCHANGED content

Next == \E b \in Block : Take(b) \/ Change(b) \/ GiveBack(b)

Spec == Init /\ [][Next]_storeVars
===============================================================================
