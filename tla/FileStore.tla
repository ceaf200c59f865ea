------------------------------- MODULE FileStore ------------------------------
(***************************************************************************)
(* What a file system promises (A.ide/src/fs.c:1-7), below names: a set of *)
(* files, each a sequence of cells.  A call creates an empty file, writes  *)
(* a run of cells into one file or behind its end, or removes a file; no   *)
(* call touches two of them.                                               *)
(***************************************************************************)
EXTENDS Naturals, Sequences

CONSTANTS Inum,     (* the numbers files go by               *)
          Cell,     (* what is stored at one position        *)
          Blank,    (* what is where nothing was written     *)
          MAXCELLS  (* how many cells a file can have        *)

VARIABLES there,   (* per number, whether there is a file      *)
          content  (* per number, what the file contains       *)

storeVars == <<there, content>>

\* new is old with n cells, all the same and not blank, from off on.
Overwritten(old, new, off, n) ==
  /\ new \in Seq(Cell)
  /\ Len(new) = IF off + n > Len(old) THEN off + n ELSE Len(old)
  /\ new[off + 1] # Blank
  /\ \A k \in 1 .. Len(new) :
       new[k] = IF off < k /\ k <= off + n THEN new[off + 1] ELSE old[k]

Create(i) ==
  /\ ~there[i] /\ there'[i]
  /\ there' = [there EXCEPT ![i] = TRUE]
  /\ UNCHANGED content

Remove(i) ==
  /\ there[i] /\ ~there'[i]
  /\ there' = [there EXCEPT ![i] = FALSE]
  /\ content' = [content EXCEPT ![i] = <<>>]

Write(i) ==
  LET old == content[i]
      new == content'[i]
  IN  /\ there[i] /\ new # old
      /\ \E off \in 0 .. Len(old), n \in 1 .. MAXCELLS :
           off + n <= MAXCELLS /\ Overwritten(old, new, off, n)
      /\ content' = [content EXCEPT ![i] = new]
      /\ UNCHANGED there

Next == \E i \in Inum : Create(i) \/ Remove(i) \/ Write(i)

Init ==
  /\ there \in [Inum -> BOOLEAN]
  /\ content \in [Inum -> Seq(Cell)]
  /\ \A i \in Inum : ~there[i] => content[i] = <<>>

Spec == Init /\ [][Next]_storeVars
===============================================================================
