------------------------------ MODULE BufferCache -----------------------------
(***************************************************************************)
(* The buffer cache and the disk driver of A.ide: src/bio.c on src/ide.c.  *)
(*                                                                         *)
(* There is one thread of control, main(), and the disk's interrupt, which *)
(* may come at any point of it; it has an effect only while the thread is  *)
(* in iderw().  bget() and brelse() are steps of their own, and iderw() is *)
(* three: append the request, start the disk, wait for it.                 *)
(*                                                                         *)
(* The thread asks for blocks in any order, as fs.c does, changes what it  *)
(* holds and gives it back.  Whether it keeps to what bio.c:8-14 asks of   *)
(* it - write what was changed, have a block once - is a parameter: fs.c   *)
(* and main.c do not.                                                      *)
(*                                                                         *)
(* Buffers are 1 .. NBUF and 0 is bcache.head, the list's sentinel.  A     *)
(* block's content is the block it belongs to and a version of it.  Disk 1 *)
(* is present; a block is on it, and dev is not mentioned any more.        *)
(***************************************************************************)
EXTENDS Integers, Sequences, FiniteSets

CONSTANTS
  NBUF,        (* buffers in the cache                                     *)
  FSSIZE,      (* blocks on the disk                                       *)
  Version,     (* versions of a block's content                            *)
  CHANGED,     (* bound of the model: the blocks the thread changes        *)
  TAKES_TWICE, (* whether the thread asks for a block it already has       *)
  FORGETS,     (* whether it releases what it changed without bwrite       *)
  DISK_ERRORS  (* whether the disk may fail                                *)

ASSUME CacheAssumption ==
  /\ NBUF \in Nat \ {0}
  /\ FSSIZE \in Nat \ {0}
  /\ 0 \in Version
  /\ CHANGED \subseteq 0 .. FSSIZE - 1
  /\ {TAKES_TWICE, FORGETS, DISK_ERRORS} \subseteq BOOLEAN

Buffers == 1 .. NBUF
Head0   == 0
Blocks  == 0 .. FSSIZE - 1
NoBlock == -1
Content == Blocks \X Version
NoData  == <<NoBlock, 0>>

VARIABLES
  next, prev,  (* the list of all buffers, through the sentinel             *)
  buf,         (* per buffer: flags, block and data                         *)
  idequeue,    (* the buffers being read or written, the active one first   *)
  thread,      (* where main() is, and the buffer it is there for           *)
  unsaved,     (* buffers changed since they were last written              *)
  drive,       (* what the drive is doing, and for which block              *)
  disk         (* per block, what is on the disk                            *)

cacheVars == <<next, prev, buf, idequeue, thread, unsaved, drive, disk>>

-----------------------------------------------------------------------------
\* The buffers in the order of the links, from the sentinel on.
Walk(link) ==
  LET at[n \in 0 .. NBUF] == IF n = 0 THEN Head0 ELSE link[at[n - 1]]
  IN  [n \in Buffers |-> at[n]]

\* The first element of the walk that is in S.
FirstIn(walk, S) ==
  walk[CHOOSE n \in Buffers : walk[n] \in S /\ \A m \in 1 .. n - 1 : walk[m] \notin S]

Busy(b)  == "BUSY" \in buf[b].flags
Valid(b) == "VALID" \in buf[b].flags
Dirty(b) == "DIRTY" \in buf[b].flags

Held == {b \in Buffers : Busy(b)}

CachedFree_OnlyFirst(block) == {b \in {next[Head0]} : buf[b].block = block /\ ~Busy(b)}

Recyclable_Busy == {b \in Buffers : ~Dirty(b)}

\* What the two loops of bget look for.
CachedFree(block) == {b \in Buffers : buf[b].block = block /\ ~Busy(b)}
Recyclable        == {b \in Buffers : ~Busy(b) /\ ~Dirty(b)}

NoCommand == [state |-> "idle", op |-> "none", block |-> NoBlock, data |-> NoData, failed |-> FALSE]

BetweenCalls == [pc |-> "between", b |-> Head0, block |-> NoBlock]

\* The thread is between two calls; at "returned", a call has just returned thread.b.
Between == thread.pc \in {"between", "returned"}

Unlink(links, b) ==
  [links EXCEPT !.prev[links.next[b]] = links.prev[b], !.next[links.prev[b]] = links.next[b]]

LinkFirst(links, b) ==
  [links EXCEPT !.next[b] = links.next[Head0], !.prev[b] = Head0,
                !.prev[links.next[Head0]] = b, !.next[Head0] = b]

MoveToFront_HalfUnlinked(b) ==
  LinkFirst([next |-> next, prev |-> [prev EXCEPT ![next[b]] = prev[b]]], b)

\* The pointer assignments of brelse.
MoveToFront(b) == LinkFirst(Unlink([next |-> next, prev |-> prev], b), b)

-----------------------------------------------------------------------------
(***************************************************************************)
(* bio.c                                                                   *)
(***************************************************************************)
\* binit: every buffer is put in front of those before it.
Init ==
  /\ next = [b \in 0 .. NBUF |-> IF b = Head0 THEN NBUF ELSE b - 1]
  /\ prev = [b \in 0 .. NBUF |-> IF b = NBUF THEN Head0 ELSE b + 1]
  /\ buf = [b \in Buffers |-> [flags |-> {}, block |-> NoBlock, data |-> NoData]]
  /\ idequeue = <<>>
  /\ thread = BetweenCalls
  /\ unsaved = {}
  /\ drive = NoCommand
  /\ disk = [block \in Blocks |-> <<block, 0>>]

Recycled_KeepsFlags(b, block) ==
  [buf[b] EXCEPT !.flags = @ \cup {"BUSY"}, !.block = block]

Recycled(b, block) ==
  [buf[b] EXCEPT !.flags = {"BUSY"}, !.block = block]

\* bread goes on to iderw with the buffer bget found, unless it is valid.
Found(b, block, flags) ==
  thread' = [pc |-> IF "VALID" \in flags THEN "returned" ELSE "append", b |-> b, block |-> block]

Bread(block) ==
  /\ Between
  /\ TAKES_TWICE \/ \A b \in Held : buf[b].block # block
  /\ \/ /\ CachedFree(block) # {}
        /\ LET b == FirstIn(Walk(next), CachedFree(block)) IN
             /\ buf' = [buf EXCEPT ![b].flags = @ \cup {"BUSY"}]
             /\ Found(b, block, buf[b].flags)
     \/ /\ CachedFree(block) = {} /\ Recyclable # {}
        /\ LET b == FirstIn(Walk(prev), Recyclable) IN
             /\ buf' = [buf EXCEPT ![b] = Recycled(b, block)]
             /\ Found(b, block, Recycled(b, block).flags)
     \* No buffer: bget answers with the sentinel, and iderw has nothing to do for it.
     \/ /\ CachedFree(block) = {} /\ Recyclable = {}
        /\ thread' = [pc |-> "returned", b |-> Head0, block |-> block]
        /\ UNCHANGED buf
  /\ UNCHANGED <<next, prev, idequeue, unsaved, drive, disk>>

Bwrite(b) ==
  /\ Between /\ b \in Held
  /\ buf' = [buf EXCEPT ![b].flags = @ \cup {"DIRTY"}]
  /\ thread' = [pc |-> "append", b |-> b, block |-> buf[b].block]
  /\ unsaved' = unsaved \ {b}
  /\ UNCHANGED <<next, prev, idequeue, drive, disk>>

Brelse(b) ==
  /\ Between /\ b \in Held
  /\ FORGETS \/ b \notin unsaved
  /\ next' = MoveToFront(b).next
  /\ prev' = MoveToFront(b).prev
  /\ buf' = [buf EXCEPT ![b].flags = @ \ {"BUSY"}]
  /\ thread' = BetweenCalls
  /\ unsaved' = unsaved \ {b}
  /\ UNCHANGED <<idequeue, drive, disk>>

\* The thread stores into the data of a buffer it holds.
Change(b) ==
  /\ Between /\ b \in Held
  /\ buf[b].block \in CHANGED
  /\ \E version \in Version : buf' = [buf EXCEPT ![b].data = <<buf[b].block, version>>]
  /\ unsaved' = unsaved \cup {b}
  /\ thread' = BetweenCalls
  /\ UNCHANGED <<next, prev, idequeue, drive, disk>>

-----------------------------------------------------------------------------
(***************************************************************************)
(* ide.c                                                                   *)
(***************************************************************************)
Queue ==
  /\ thread.pc = "append"
  /\ idequeue' = Append(idequeue, thread.b)
  /\ thread' = [thread EXCEPT !.pc = "start"]
  /\ UNCHANGED <<next, prev, buf, unsaved, drive, disk>>

\* idestart: the command the drive gets; a write takes the data along.
idestart(b) ==
  IF buf[b].block >= FSSIZE THEN drive
  ELSE [state |-> "working", op |-> IF Dirty(b) THEN "write" ELSE "read",
        block |-> buf[b].block, data |-> buf[b].data, failed |-> FALSE]

Start_IfNotFirst ==
  /\ thread.pc = "start"
  /\ drive' = IF Head(idequeue) # thread.b THEN idestart(thread.b) ELSE drive
  /\ thread' = [thread EXCEPT !.pc = "wait"]
  /\ UNCHANGED <<next, prev, buf, idequeue, unsaved, disk>>

\* iderw starts the disk unless it is busy with an earlier request.
Start ==
  /\ thread.pc = "start"
  /\ drive' = IF idequeue # <<>> /\ Head(idequeue) = thread.b THEN idestart(thread.b) ELSE drive
  /\ thread' = [thread EXCEPT !.pc = "wait"]
  /\ UNCHANGED <<next, prev, buf, idequeue, unsaved, disk>>

\* iderw's loop ends, and with it bread or bwrite.
Return ==
  /\ thread.pc = "wait"
  /\ Valid(thread.b) /\ ~Dirty(thread.b)
  /\ thread' = [thread EXCEPT !.pc = "returned"]
  /\ UNCHANGED <<next, prev, buf, idequeue, unsaved, drive, disk>>

\* The drive has done what it was told, or failed, and interrupts.
DriveDone(failed) ==
  /\ drive.state = "working"
  /\ failed => DISK_ERRORS
  /\ drive' = [drive EXCEPT !.state = "done", !.failed = failed]
  /\ disk' = IF drive.op = "write" /\ ~failed THEN [disk EXCEPT ![drive.block] = drive.data] ELSE disk
  /\ UNCHANGED <<next, prev, buf, idequeue, thread, unsaved>>

ide_irq_handler_KeepsRequest ==
  /\ drive.state = "done"
  /\ LET b == Head(idequeue) IN
       buf' = [buf EXCEPT ![b].flags = (@ \cup {"VALID"}) \ {"DIRTY"},
                          ![b].data = IF Dirty(b) THEN @ ELSE disk[drive.block]]
  /\ drive' = NoCommand
  /\ UNCHANGED <<next, prev, idequeue, thread, unsaved, disk>>

\* A read's data is fetched unless the drive reports an error; the buffer is valid anyway.
ide_irq_handler ==
  /\ drive.state = "done"
  /\ IF idequeue = <<>>
     THEN /\ drive' = NoCommand
          /\ UNCHANGED <<buf, idequeue>>
     ELSE LET b == Head(idequeue) IN
          /\ idequeue' = Tail(idequeue)
          /\ buf' = [buf EXCEPT ![b].flags = (@ \cup {"VALID"}) \ {"DIRTY"},
                                ![b].data = IF Dirty(b) \/ drive.failed THEN @
                                            ELSE disk[drive.block]]
          /\ drive' = IF Tail(idequeue) = <<>> THEN NoCommand ELSE idestart(Head(Tail(idequeue)))
  /\ UNCHANGED <<next, prev, thread, unsaved, disk>>

-----------------------------------------------------------------------------
Iderw == Queue \/ Start \/ Return

Drive == \E failed \in BOOLEAN : DriveDone(failed)

Next ==
  \/ \E block \in Blocks : Bread(block)
  \/ \E b \in Buffers : Bwrite(b) \/ Brelse(b) \/ Change(b)
  \/ Iderw
  \/ Drive
  \/ ide_irq_handler

Spec == Init /\ [][Next]_cacheVars

\* The processor goes on, the drive gets done and its interrupt is delivered.
Fairness == WF_cacheVars(Iderw) /\ WF_cacheVars(Drive) /\ WF_cacheVars(ide_irq_handler)

FairSpec == Spec /\ Fairness

-----------------------------------------------------------------------------
\* Types; and as there is one thread, there is at most one request.
CacheTypeOK ==
  /\ next \in [0 .. NBUF -> 0 .. NBUF]
  /\ prev \in [0 .. NBUF -> 0 .. NBUF]
  /\ buf \in [Buffers -> [flags : SUBSET {"BUSY", "VALID", "DIRTY"},
                          block : Blocks \cup {NoBlock}, data : Content \cup {NoData}]]
  /\ idequeue \in {<<>>} \cup {<<b>> : b \in Buffers}
  /\ thread \in [pc : {"between", "returned", "append", "start", "wait"},
                  b : 0 .. NBUF, block : Blocks \cup {NoBlock}]
  /\ unsaved \subseteq Buffers
  /\ drive \in [state : {"idle", "working", "done"}, op : {"none", "read", "write"},
                 block : Blocks \cup {NoBlock}, data : Content \cup {NoData}, failed : BOOLEAN]
  /\ disk \in [Blocks -> Content \cup {NoData}]

(***************************************************************************)
(* The list stays a list of all buffers in both directions through every   *)
(* removal from its middle and either end (bio.c:118-123).                 *)
(***************************************************************************)
ListIntact ==
  /\ {Walk(next)[n] : n \in Buffers} = Buffers
  /\ \A b \in 0 .. NBUF : prev[next[b]] = b

(***************************************************************************)
(* "Not cached; recycle some non-busy and clean buffer" (bio.c:72): a      *)
(* block that gets a buffer has no other one.                              *)
(***************************************************************************)
OneBufferPerBlock ==
  \A b, other \in Buffers :
    buf[b].block = buf[other].block /\ buf[b].block # NoBlock => b = other

(***************************************************************************)
(* "Return a B_BUSY buf with the contents of the indicated block"          *)
(* (bio.c:86) - unless every buffer is in use, when there is none.         *)
(***************************************************************************)
BreadReturnsBlock ==
  thread.pc = "returned" =>
    IF thread.b = Head0 THEN Held = Buffers
    ELSE /\ Busy(thread.b) /\ Valid(thread.b)
         /\ buf[thread.b].block = thread.block
         /\ buf[thread.b].data[1] = thread.block

(***************************************************************************)
(* To a thread that keeps the rules, blocks have one content each: what it *)
(* wrote is what it reads, with any amount of recycling in between.        *)
(***************************************************************************)
Holder(block) == {b \in Buffers : buf[b].block = block /\ Valid(b)}

Contents(block) ==
  IF Holder(block) = {} THEN disk[block] ELSE buf[CHOOSE b \in Holder(block) : TRUE].data

Store == INSTANCE BlockStore WITH
  Block   <- Blocks,
  content <- [block \in Blocks |-> Contents(block)],
  taken   <- {buf[b].block : b \in Held}

ImplementsBlockStore == Store!Spec

(***************************************************************************)
(* Every call returns: a request is not forgotten between the thread that  *)
(* queues it and the interrupt that finishes it.                           *)
(***************************************************************************)
CallsReturn == thread.pc \in {"append", "start", "wait"} ~> thread.pc = "returned"

(***************************************************************************)
(* Only who holds a block changes it: what was put into a buffer is on the *)
(* disk before the buffer is used for another block ("Copy a modified      *)
(* in-memory inode to disk", fs.c:198).                                    *)
(***************************************************************************)
ChangesAreKept ==
  [][\A block \in Blocks :
       Contents(block)' # Contents(block) => \E b \in Held : buf[b].block = block]_cacheVars

\* bio.c:19: "B_VALID: the buffer data has been read from the disk."
ValidWasRead == \A b \in Buffers : Valid(b) => buf[b].data[1] = buf[b].block
===============================================================================
